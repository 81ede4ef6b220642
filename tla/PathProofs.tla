----------------------------- MODULE PathProofs -----------------------------
(***************************************************************************)
(* Pathname resolution and the operations on paths, for every volume,      *)
(* every path and every limit on link expansions.  The resolver, on any    *)
(* volume, damaged or not, returns what the reference says the path names; *)
(* the reference is a recursion over links and names (PathReference) whose *)
(* equations are established first.  The operations do to the paths they   *)
(* are given what they promise, which rests on one fact about lookups in a *)
(* volume and in a part of it (LookupFits).                                *)
(***************************************************************************)
EXTENDS PathLookup, PathOps, NamespaceProofs, WellFoundedInduction, FiniteSetTheorems,
        SequenceTheorems, TLAPS

(***************************************************************************)
(* Induction.                                                              *)
(***************************************************************************)
\* A non-empty set of natural numbers has a least member.
LEMMA LeastMember ==
  ASSUME NEW P \in SUBSET Nat, P # {}
  PROVE  \E m \in P : \A i \in P : m <= i
<1>1. PICK x \in P : \A y \in P : ~ (<<y, x>> \in OpToRel(<, Nat))
  BY WFMin, NatLessThanWellFounded, Zenon
<1>2. \A y \in P : ~ (y < x)
  BY <1>1 DEF OpToRel
<1> QED
  BY <1>2

\* Induction, on the set of the numbers of which something holds.
LEMMA Inductive ==
  ASSUME NEW P \in SUBSET Nat, 0 \in P, \A n \in P : n + 1 \in P
  PROVE  \A n \in Nat : n \in P
<1> DEFINE Q == Nat \ P
<1> SUFFICES ASSUME Q # {} PROVE FALSE
  OBVIOUS
<1>1. PICK m \in Q : \A i \in Q : m <= i
  BY LeastMember
<1>2. m # 0 /\ m \in Nat
  BY <1>1
<1>3. m - 1 \in Nat /\ m - 1 \notin Q
  BY <1>1, <1>2
<1>4. m - 1 \in P
  BY <1>3
<1>5. m - 1 + 1 = m
  BY <1>2
<1> QED
  BY <1>1, <1>4, <1>5

\* The largest of some numbers up to n.
LEMMA LargestMember ==
  ASSUME NEW n \in Nat, NEW s \in SUBSET (0 .. n), s # {}
  PROVE  Max(s) \in s /\ \A y \in s : y <= Max(s)
<1> DEFINE P == {n - y : y \in s}
<1>1. P \in SUBSET Nat /\ P # {}
  <2>1. \A y \in s : n - y \in Nat
    OBVIOUS
  <2> QED
    BY <2>1
<1>2. PICK m \in P : \A i \in P : m <= i
  BY <1>1, LeastMember
<1>3. PICK x \in s : m = n - x
  OBVIOUS
<1>4. \A y \in s : x >= y
  BY <1>2, <1>3
<1>5. Max(s) \in s /\ \A y \in s : Max(s) >= y
  BY <1>4 DEF Max
<1> QED
  BY <1>5

(***************************************************************************)
(* A walk along names.                                                     *)
(***************************************************************************)
\* g walks over every set of positions up to n, in order.
Walks(g, v, links, base, ns, n) ==
  g = [s \in SUBSET (1 .. n) |->
         IF s = {} THEN base ELSE EnterFollowing(v, links, g[s \ {Max(s)}], ns[Max(s)])]

\* The walk after n names.
WalkAt(v, links, base, ns, n) == (CHOOSE g : Walks(g, v, links, base, ns, n))[1 .. n]

\* What a walk is at each set of positions.
LEMMA WalksValue ==
  ASSUME NEW g, NEW v, NEW links, NEW base, NEW ns, NEW n \in Nat, Walks(g, v, links, base, ns, n)
  PROVE  /\ g[{}] = base
         /\ \A s \in SUBSET (1 .. n) : s # {} => g[s] = EnterFollowing(v, links, g[s \ {Max(s)}], ns[Max(s)])
<1> DEFINE h == [s \in SUBSET (1 .. n) |->
                   IF s = {} THEN base ELSE EnterFollowing(v, links, g[s \ {Max(s)}], ns[Max(s)])]
<1>1. g = h
  BY DEF Walks
<1>2. h[{}] = base
  OBVIOUS
<1>3. \A s \in SUBSET (1 .. n) : s # {} => h[s] = EnterFollowing(v, links, g[s \ {Max(s)}], ns[Max(s)])
  OBVIOUS
<1> HIDE DEF h
<1>4. g[{}] = base
  BY <1>1, <1>2
<1>5. \A s \in SUBSET (1 .. n) : g[s] = h[s]
  BY <1>1
<1> QED
  BY <1>3, <1>4, <1>5

\* There is such a walk.
LEMMA WalksExist ==
  ASSUME NEW v, NEW links, NEW base, NEW ns
  PROVE  \A n \in Nat : \E g : Walks(g, v, links, base, ns, n)
<1> DEFINE P == {n \in Nat : \E g : Walks(g, v, links, base, ns, n)}
<1>1. 0 \in P
  <2> DEFINE g == [s \in SUBSET (1 .. 0) |-> base]
  <2>1. \A s \in SUBSET (1 .. 0) : s = {}
    OBVIOUS
  <2>2. Walks(g, v, links, base, ns, 0)
    BY <2>1 DEF Walks
  <2> QED
    BY <2>2
<1>2. ASSUME NEW n \in P PROVE n + 1 \in P
  <2>1. PICK g : Walks(g, v, links, base, ns, n)
    OBVIOUS
  <2>a. n \in Nat
    OBVIOUS
  <2> HIDE DEF P
  <2>b. \A t \in SUBSET (1 .. n) : t # {} => g[t] = EnterFollowing(v, links, g[t \ {Max(t)}], ns[Max(t)])
    BY <2>1, <2>a, WalksValue
  <2> DEFINE m == n + 1
             F(s) == IF m \in s THEN EnterFollowing(v, links, g[s \ {m}], ns[m]) ELSE g[s]
             h == [s \in SUBSET (1 .. m) |-> F(s)]
  <2>2. n \in Nat /\ m \in Nat /\ m \notin 1 .. n
    BY <2>a
  <2>3. ASSUME NEW s \in SUBSET (1 .. m)
        PROVE  h[s] = IF s = {} THEN base ELSE EnterFollowing(v, links, h[s \ {Max(s)}], ns[Max(s)])
    <3>1. CASE s = {}
      BY <2>1, <2>2, <3>1, WalksValue
    <3>2. CASE m \in s
      <4>1. Max(s) = m
        <5>1. s \in SUBSET (0 .. m) /\ s # {}
          BY <2>2, <3>2
        <5>2. Max(s) \in s /\ \A y \in s : y <= Max(s)
          BY <2>2, <5>1, LargestMember
        <5>3. Max(s) \in 1 .. m /\ m <= Max(s)
          BY <3>2, <5>2
        <5> HIDE DEF m
        <5> QED
          BY <2>2, <5>3
      <4>2. h[s] = EnterFollowing(v, links, g[s \ {m}], ns[m])
        BY <3>2
      <4>3. h[s \ {m}] = g[s \ {m}]
        OBVIOUS
      <4> QED
        BY <3>2, <4>1, <4>2, <4>3
    <3>3. CASE s # {} /\ m \notin s
      <4>1. s \in SUBSET (1 .. n) /\ s \in SUBSET (0 .. n)
        BY <2>2, <3>3
      <4>2. h[s] = g[s]
        BY <3>3
      <4>3. s \ {Max(s)} \in SUBSET (1 .. m) /\ m \notin s \ {Max(s)}
        BY <3>3
      <4>4. h[s \ {Max(s)}] = g[s \ {Max(s)}]
        BY <4>3
      <4>5. g[s] = EnterFollowing(v, links, g[s \ {Max(s)}], ns[Max(s)])
        BY <2>b, <3>3, <4>1
      <4> QED
        BY <3>3, <4>2, <4>4, <4>5
    <3> QED
      BY <3>1, <3>2, <3>3
  <2>4. Walks(h, v, links, base, ns, m)
    <3> DEFINE k == [s \in SUBSET (1 .. m) |->
                       IF s = {} THEN base ELSE EnterFollowing(v, links, h[s \ {Max(s)}], ns[Max(s)])]
    <3>1. \A s \in SUBSET (1 .. m) : h[s] = k[s]
      BY <2>3
    <3>2. h = k
      BY <3>1
    <3> QED
      BY <3>2 DEF Walks
  <2> QED
    BY <2>2, <2>4 DEF P
<1>3. P \in SUBSET Nat
  OBVIOUS
<1> HIDE DEF P
<1>4. \A n \in Nat : n \in P
  BY <1>1, <1>2, <1>3, Inductive
<1> QED
  BY <1>4 DEF P

\* One name more.
LEMMA WalksTurn ==
  ASSUME NEW g, NEW v, NEW links, NEW base, NEW ns, NEW n \in Nat, Walks(g, v, links, base, ns, n),
         NEW m \in Nat, m < n
  PROVE  g[1 .. m + 1] = EnterFollowing(v, links, g[1 .. m], ns[m + 1])
<1> DEFINE s == 1 .. m + 1
<1>1. s \in SUBSET (1 .. n) /\ s \in SUBSET (0 .. n) /\ s # {} /\ m + 1 \in s
  OBVIOUS
<1>2. Max(s) \in s /\ \A y \in s : y <= Max(s)
  BY <1>1, LargestMember
<1>3. Max(s) = m + 1
  BY <1>1, <1>2
<1>4. s \ {m + 1} = 1 .. m
  OBVIOUS
<1>5. g[s] = EnterFollowing(v, links, g[s \ {Max(s)}], ns[Max(s)])
  <2>1. \A t \in SUBSET (1 .. n) : t # {} => g[t] = EnterFollowing(v, links, g[t \ {Max(t)}], ns[Max(t)])
    BY WalksValue
  <2> HIDE DEF s
  <2> QED
    BY <1>1, <2>1
<1> QED
  BY <1>3, <1>4, <1>5

\* What a walk has come to after m names depends on these only.
LEMMA WalksPrefix ==
  ASSUME NEW v, NEW links, NEW base, NEW g, NEW ns, NEW n \in Nat, Walks(g, v, links, base, ns, n),
         NEW h, NEW ms, NEW k \in Nat, Walks(h, v, links, base, ms, k),
         NEW m \in Nat, m <= n, m <= k, \A x \in 1 .. m : ns[x] = ms[x]
  PROVE  g[1 .. m] = h[1 .. m]
<1> DEFINE P == {x \in Nat : x <= m => g[1 .. x] = h[1 .. x]}
<1>1. 0 \in P
  <2>1. 1 .. 0 = {}
    OBVIOUS
  <2>2. g[{}] = base /\ h[{}] = base
    BY WalksValue
  <2> QED
    BY <2>1, <2>2
<1>2. ASSUME NEW x \in P PROVE x + 1 \in P
  <2> SUFFICES ASSUME x + 1 <= m PROVE g[1 .. x + 1] = h[1 .. x + 1]
    OBVIOUS
  <2>1. x \in Nat /\ x < n /\ x < k /\ x <= m /\ x + 1 \in 1 .. m
    OBVIOUS
  <2>2. g[1 .. x + 1] = EnterFollowing(v, links, g[1 .. x], ns[x + 1])
    BY <2>1, WalksTurn
  <2>3. h[1 .. x + 1] = EnterFollowing(v, links, h[1 .. x], ms[x + 1])
    BY <2>1, WalksTurn
  <2>4. g[1 .. x] = h[1 .. x] /\ ns[x + 1] = ms[x + 1]
    BY <2>1
  <2> QED
    BY <2>2, <2>3, <2>4
<1>3. P \in SUBSET Nat
  OBVIOUS
<1> HIDE DEF P
<1>4. m \in P
  BY <1>1, <1>2, <1>3, Inductive
<1> QED
  BY <1>4 DEF P

\* The state of a walk, turn by turn.
LEMMA WalkTurn ==
  ASSUME NEW v, NEW links, NEW base, NEW ns, NEW n \in Nat
  PROVE  /\ WalkAt(v, links, base, ns, 0) = base
         /\ WalkAt(v, links, base, ns, n + 1)
              = EnterFollowing(v, links, WalkAt(v, links, base, ns, n), ns[n + 1])
         /\ \A ms : (\A x \in 1 .. n : ns[x] = ms[x]) =>
                      WalkAt(v, links, base, ns, n) = WalkAt(v, links, base, ms, n)
<1> DEFINE g(ms, k) == CHOOSE g : Walks(g, v, links, base, ms, k)
<1>1. \A ms : \A k \in Nat : Walks(g(ms, k), v, links, base, ms, k)
  BY WalksExist
<1>2. \A ms, k : WalkAt(v, links, base, ms, k) = g(ms, k)[1 .. k]
  BY DEF WalkAt
<1> HIDE DEF g
<1>3. WalkAt(v, links, base, ns, 0) = base
  <2>1. g(ns, 0)[{}] = base
    BY <1>1, WalksValue
  <2>2. 1 .. 0 = {}
    OBVIOUS
  <2> QED
    BY <1>2, <2>1, <2>2
<1>4. WalkAt(v, links, base, ns, n + 1) = EnterFollowing(v, links, WalkAt(v, links, base, ns, n), ns[n + 1])
  <2> DEFINE m == n + 1
  <2>1. m \in Nat /\ n < m /\ n <= m /\ n <= n
    OBVIOUS
  <2>2. Walks(g(ns, m), v, links, base, ns, m) /\ Walks(g(ns, n), v, links, base, ns, n)
    BY <1>1, <2>1
  <2> HIDE DEF m
  <2>3. g(ns, m)[1 .. n + 1] = EnterFollowing(v, links, g(ns, m)[1 .. n], ns[n + 1])
    BY <2>1, <2>2, WalksTurn
  <2>4. g(ns, m)[1 .. n] = g(ns, n)[1 .. n]
    BY <2>1, <2>2, WalksPrefix
  <2> QED
    BY <1>2, <2>3, <2>4 DEF m
<1>5. ASSUME NEW ms, \A x \in 1 .. n : ns[x] = ms[x]
      PROVE  WalkAt(v, links, base, ns, n) = WalkAt(v, links, base, ms, n)
  <2>1. Walks(g(ns, n), v, links, base, ns, n) /\ Walks(g(ms, n), v, links, base, ms, n) /\ n <= n
    BY <1>1
  <2>2. g(ns, n)[1 .. n] = g(ms, n)[1 .. n]
    BY <1>5, <2>1, WalksPrefix
  <2> QED
    BY <1>2, <2>2
<1> QED
  BY <1>3, <1>4, <1>5

\* Any such walk ends where this one does.
LEMMA WalksEnd ==
  ASSUME NEW v, NEW links, NEW base, NEW ns, NEW n \in Nat, NEW g, Walks(g, v, links, base, ns, n)
  PROVE  g[1 .. n] = WalkAt(v, links, base, ns, n)
<1> DEFINE h == CHOOSE h : Walks(h, v, links, base, ns, n)
<1>1. Walks(h, v, links, base, ns, n)
  BY WalksExist
<1>2. WalkAt(v, links, base, ns, n) = h[1 .. n]
  BY DEF WalkAt
<1> HIDE DEF h
<1>3. n <= n /\ \A x \in 1 .. n : ns[x] = ns[x]
  OBVIOUS
<1> QED
  BY <1>1, <1>2, <1>3, WalksPrefix

\* The walk of the reference.
LEMMA WalkWhole ==
  ASSUME NEW v, NEW links, NEW base, NEW ns \in Seq(Piece)
  PROVE  Walk(v, links, base, ns) = WalkAt(v, links, base, ns, Len(ns))
<1> DEFINE n == Len(ns)
           Is(g) == g = [s \in SUBSET (1 .. n) |->
                           IF s = {} THEN base
                           ELSE EnterFollowing(v, links, g[s \ {Max(s)}], ns[Max(s)])]
           h == CHOOSE g : Is(g)
<1>0. n \in Nat /\ DOMAIN ns = 1 .. n
  BY LenProperties
<1>1. Walk(v, links, base, ns) = h[1 .. n]
  BY <1>0 DEF Walk, FoldLeft, MapThenFoldSet
<1>2. \A g : Is(g) <=> Walks(g, v, links, base, ns, n)
  BY DEF Walks
<1>3. \E g : Is(g)
  BY <1>0, <1>2, WalksExist
<1>4. Is(h)
  BY <1>3
<1> HIDE DEF h, Is, n
<1>5. Walks(h, v, links, base, ns, n)
  BY <1>2, <1>4
<1> QED
  BY <1>0, <1>1, <1>5, WalksEnd DEF n

\* One name more, at the end.
LEMMA WalkAppend ==
  ASSUME NEW v, NEW links, NEW base, NEW ns \in Seq(Piece), NEW x \in Piece
  PROVE  Walk(v, links, base, Append(ns, x)) = EnterFollowing(v, links, Walk(v, links, base, ns), x)
<1> DEFINE n == Len(ns)
           ms == Append(ns, x)
<1>1. /\ n \in Nat /\ ms \in Seq(Piece) /\ Len(ms) = n + 1 /\ ms[n + 1] = x
      /\ \A k \in 1 .. n : ms[k] = ns[k]
  BY LenProperties, AppendProperties
<1> HIDE DEF n, ms
<1>2. WalkAt(v, links, base, ms, n + 1) = EnterFollowing(v, links, WalkAt(v, links, base, ms, n), ms[n + 1])
  BY <1>1, WalkTurn
<1>3. WalkAt(v, links, base, ms, n) = WalkAt(v, links, base, ns, n)
  BY <1>1, WalkTurn
<1>4. Walk(v, links, base, ms) = WalkAt(v, links, base, ms, n + 1)
  BY <1>1, WalkWhole
<1>5. Walk(v, links, base, ns) = WalkAt(v, links, base, ns, n)
  BY WalkWhole DEF n
<1> QED
  BY <1>1, <1>2, <1>3, <1>4, <1>5 DEF ms

\* No names.
LEMMA WalkNothing ==
  ASSUME NEW v, NEW links, NEW base
  PROVE  Walk(v, links, base, <<>>) = base
<1> DEFINE nil == <<>>
<1>1. nil \in Seq(Piece) /\ Len(nil) = 0
  BY EmptySeq
<1> HIDE DEF nil
<1>2. Walk(v, links, base, nil) = WalkAt(v, links, base, nil, 0)
  BY <1>1, WalkWhole
<1>3. WalkAt(v, links, base, nil, 0) = base
  BY WalkTurn
<1> QED
  BY <1>2, <1>3 DEF nil

\* Some names, then others.
LEMMA WalkJoined ==
  ASSUME NEW v, NEW links, NEW base, NEW a \in Seq(Piece), NEW b \in Seq(Piece)
  PROVE  Walk(v, links, base, a \o b) = Walk(v, links, Walk(v, links, base, a), b)
<1> DEFINE c == a \o b
           k == Len(a)
           l == Len(b)
           mid == Walk(v, links, base, a)
<1>1. /\ c \in Seq(Piece) /\ k \in Nat /\ l \in Nat /\ Len(c) = k + l
      /\ \A x \in 1 .. k : c[x] = a[x]
      /\ \A x \in 1 .. l : c[k + x] = b[x]
  <2>1. c \in Seq(Piece) /\ Len(c) = k + l /\ k \in Nat /\ l \in Nat
    BY ConcatProperties, LenProperties
  <2>2. \A x \in 1 .. k + l : c[x] = IF x <= k THEN a[x] ELSE b[x - k]
    BY ConcatProperties
  <2> HIDE DEF c, k, l
  <2>3. \A x \in 1 .. k : c[x] = a[x]
    BY <2>1, <2>2
  <2>4. ASSUME NEW x \in 1 .. l PROVE c[k + x] = b[x]
    <3> DEFINE y == k + x
    <3>1. y \in 1 .. k + l /\ ~ (y <= k) /\ y - k = x
      BY <2>1
    <3> HIDE DEF y
    <3>2. c[y] = b[y - k]
      BY <2>2, <3>1
    <3> QED
      BY <3>1, <3>2 DEF y
  <2> QED
    BY <2>1, <2>3, <2>4
<1>2. mid = WalkAt(v, links, base, a, k)
  BY WalkWhole
<1> HIDE DEF c, k, l, mid
<1> DEFINE P == {n \in Nat : n <= l => WalkAt(v, links, base, c, k + n) = WalkAt(v, links, mid, b, n)}
<1>3. 0 \in P
  <2>1. WalkAt(v, links, base, c, k) = WalkAt(v, links, base, a, k)
    <3>1. k \in Nat /\ \A x \in 1 .. k : c[x] = a[x]
      BY <1>1
    <3> QED
      BY ONLY <3>1, WalkTurn
  <2>2. WalkAt(v, links, mid, b, 0) = mid
    BY WalkTurn
  <2>3. k + 0 = k
    BY <1>1
  <2> QED
    BY <1>2, <2>1, <2>2, <2>3
<1>4. ASSUME NEW n \in P PROVE n + 1 \in P
  <2>1. n \in Nat /\ k + n \in Nat /\ k + (n + 1) = (k + n) + 1
    BY <1>1
  <2> SUFFICES ASSUME n + 1 <= l
               PROVE  WalkAt(v, links, base, c, k + (n + 1)) = WalkAt(v, links, mid, b, n + 1)
    BY <2>1
  <2>2. WalkAt(v, links, base, c, (k + n) + 1)
          = EnterFollowing(v, links, WalkAt(v, links, base, c, k + n), c[(k + n) + 1])
    BY <2>1, WalkTurn
  <2>3. WalkAt(v, links, mid, b, n + 1) = EnterFollowing(v, links, WalkAt(v, links, mid, b, n), b[n + 1])
    BY <2>1, WalkTurn
  <2>4. n <= l /\ n + 1 \in 1 .. l
    BY <1>1, <2>1
  <2>5. WalkAt(v, links, base, c, k + n) = WalkAt(v, links, mid, b, n)
    BY <2>4
  <2>6. c[k + (n + 1)] = b[n + 1]
    BY <1>1, <2>4
  <2> HIDE DEF P
  <2> QED
    BY <2>1, <2>2, <2>3, <2>5, <2>6
<1>5. P \in SUBSET Nat
  OBVIOUS
<1>6. l \in P
  <2> HIDE DEF P
  <2> QED
    BY <1>1, <1>3, <1>4, <1>5, Inductive
<1>7. WalkAt(v, links, base, c, k + l) = WalkAt(v, links, mid, b, l)
  BY <1>1, <1>6
<1>8. Walk(v, links, base, c) = WalkAt(v, links, base, c, k + l)
  BY <1>1, WalkWhole
<1>9. Walk(v, links, mid, b) = WalkAt(v, links, mid, b, l)
  BY WalkWhole DEF l
<1> QED
  BY <1>7, <1>8, <1>9 DEF c, mid

\* Names, taken apart at either end.
LEMMA NameEnds ==
  ASSUME NEW ns \in Seq(Piece), ns # <<>>
  PROVE  /\ Head(ns) \in Piece /\ Tail(ns) \in Seq(Piece) /\ ns = <<Head(ns)>> \o Tail(ns)
         /\ Last(ns) \in Piece /\ Front(ns) \in Seq(Piece) /\ ns = Append(Front(ns), Last(ns))
         /\ Len(ns) \in Nat \ {0} /\ Len(Tail(ns)) = Len(ns) - 1 /\ Len(Front(ns)) = Len(ns) - 1
<1>1. Len(ns) \in Nat \ {0}
  BY EmptySeq, LenProperties
<1>2. Head(ns) \in Piece /\ Tail(ns) \in Seq(Piece) /\ Len(Tail(ns)) = Len(ns) - 1
  BY HeadTailProperties
<1>3. ns = <<Head(ns)>> \o Tail(ns)
  OBVIOUS
<1>4. Last(ns) \in Piece
  BY <1>1, ElementOfSeq DEF Last
<1>5. Front(ns) \in Seq(Piece) /\ Len(Front(ns)) = Len(ns) - 1
  <2>1. \A k \in 1 .. Len(ns) - 1 : ns[k] \in Piece
    BY <1>1, ElementOfSeq
  <2> DEFINE l == Len(ns) - 1
  <2>2. l \in Nat /\ 1 \in Int /\ l \in Int /\ (1 <= l \/ l = 0)
    <3> DEFINE k == Len(ns)
    <3>1. k \in Nat \ {0}
      BY <1>1
    <3> HIDE DEF k
    <3>2. k - 1 \in Nat /\ k - 1 \in Int /\ (1 <= k - 1 \/ k - 1 = 0)
      BY <3>1
    <3> QED
      BY <3>2 DEF k
  <2>3. SubSeq(ns, 1, l) \in Seq(Piece) /\ Len(SubSeq(ns, 1, l)) = IF 1 <= l THEN l - 1 + 1 ELSE 0
    BY <2>1, <2>2, SubSeqProperties
  <2> QED
    BY <2>2, <2>3 DEF Front
<1>6. ns = Append(Front(ns), Last(ns))
  BY <1>1 DEF Front, Last
<1> QED
  BY <1>1, <1>2, <1>3, <1>4, <1>5, <1>6

\* The first name first.
LEMMA WalkHead ==
  ASSUME NEW v, NEW links, NEW base, NEW ns \in Seq(Piece), ns # <<>>
  PROVE  Walk(v, links, base, ns)
           = Walk(v, links, EnterFollowing(v, links, base, Head(ns)), Tail(ns))
<1> DEFINE nil == <<>>
           x == Head(ns)
           one == <<x>>
           rest == Tail(ns)
<1>1. x \in Piece /\ rest \in Seq(Piece) /\ ns = one \o rest
  BY NameEnds
<1>2. nil \in Seq(Piece) /\ one = Append(nil, x) /\ one \in Seq(Piece)
  BY <1>1, EmptySeq
<1>3. Walk(v, links, base, nil) = base
  BY WalkNothing
<1> HIDE DEF nil, x, one, rest
<1>4. Walk(v, links, base, one) = EnterFollowing(v, links, base, x)
  BY <1>1, <1>2, <1>3, WalkAppend
<1>5. Walk(v, links, base, one \o rest) = Walk(v, links, Walk(v, links, base, one), rest)
  <2>1. one \in Seq(Piece) /\ rest \in Seq(Piece)
    BY <1>1, <1>2
  <2>2. \A a, b \in Seq(Piece) :
           Walk(v, links, base, a \o b) = Walk(v, links, Walk(v, links, base, a), b)
    BY WalkJoined
  <2> QED
    BY ONLY <2>1, <2>2
<1> QED
  BY <1>1, <1>4, <1>5 DEF x, rest

\* The last name last.
LEMMA WalkLast ==
  ASSUME NEW v, NEW links, NEW base, NEW ns \in Seq(Piece), ns # <<>>
  PROVE  Walk(v, links, base, ns)
           = EnterFollowing(v, links, Walk(v, links, base, Front(ns)), Last(ns))
<1> DEFINE f == Front(ns)
           x == Last(ns)
<1>1. f \in Seq(Piece) /\ x \in Piece /\ ns = Append(f, x)
  BY NameEnds
<1> HIDE DEF f, x
<1>2. Walk(v, links, base, Append(f, x)) = EnterFollowing(v, links, Walk(v, links, base, f), x)
  BY <1>1, WalkAppend
<1> QED
  BY <1>1, <1>2 DEF f, x

\* A walk that is lost stays where it is.
LEMMA LostStays ==
  ASSUME NEW v, NEW links, NEW s, s.status # "ok", NEW name
  PROVE  Enter(v, s, name) = s /\ EnterFollowing(v, links, s, name) = s
BY DEF Enter, EnterFollowing

(***************************************************************************)
(* What the links name: that the recursion of LinkTable has a solution.    *)
(***************************************************************************)
\* Links with up to n expansions left never leave more.
Counted(v, f, n) ==
  \A dir \in Dirs(v.inodes), link \in DOMAIN v.inodes :
     f[n][dir][link].status = "ok" => f[n][dir][link].left \in 0 .. n

\* The walk has at most n expansions left.
Within(s, n) == s.status = "ok" => s.left \in 0 .. n

\* f and g say the same of links up to n.
Same(v, f, g, n) == \A m \in 0 .. n : f[m] = g[m] /\ Counted(v, f, m)

\* Entering one name.
LEMMA EnterWithin ==
  ASSUME NEW v, NEW s, NEW name
  PROVE  Enter(v, s, name).status = "ok" =>
           /\ s.status = "ok" /\ s.inode \in Dirs(v.inodes)
           /\ Enter(v, s, name).left = s.left
           /\ name \notin {".", ".."} => Enter(v, s, name).inode \in DOMAIN v.inodes
BY DEF Enter, Lost, Reached, IsDirectory, NoDirectory

\* One name uses what is said of links with at most the expansions left.
LEMMA EnterSame ==
  ASSUME NEW v, NEW f, NEW g, NEW n \in Nat, Same(v, f, g, n), NEW s, Within(s, n), NEW name
  PROVE  /\ EnterFollowing(v, f, s, name) = EnterFollowing(v, g, s, name)
         /\ Within(EnterFollowing(v, f, s, name), n)
<1> DEFINE e == Enter(v, s, name)
<1>1. e.status = "ok" => s.status = "ok" /\ s.inode \in Dirs(v.inodes) /\ e.left = s.left
  BY EnterWithin
<1> HIDE DEF e
<1>2. EnterFollowing(v, f, s, name)
        = IF e.status = "ok" /\ IsSymlink(v, e.inode) THEN f[e.left][s.inode][e.inode] ELSE e
  BY DEF EnterFollowing, e
<1>3. EnterFollowing(v, g, s, name)
        = IF e.status = "ok" /\ IsSymlink(v, e.inode) THEN g[e.left][s.inode][e.inode] ELSE e
  BY DEF EnterFollowing, e
<1>4. CASE e.status = "ok" /\ IsSymlink(v, e.inode)
  <2>1. e.left \in 0 .. n /\ s.inode \in Dirs(v.inodes) /\ e.inode \in DOMAIN v.inodes
    BY <1>1, <1>4 DEF Within, IsSymlink
  <2>2. f[e.left] = g[e.left] /\ Counted(v, f, e.left)
    BY <2>1 DEF Same
  <2> DEFINE r == f[e.left][s.inode][e.inode]
  <2>3. r.status = "ok" => r.left \in 0 .. e.left
    BY <2>1, <2>2 DEF Counted
  <2> HIDE DEF r
  <2>4. Within(r, n)
    BY <2>1, <2>3 DEF Within
  <2> QED
    BY <1>2, <1>3, <1>4, <2>2, <2>4 DEF r
<1>5. CASE ~ (e.status = "ok" /\ IsSymlink(v, e.inode))
  <2>1. Within(e, n)
    BY <1>1 DEF Within
  <2> QED
    BY <1>2, <1>3, <1>5, <2>1
<1> QED
  BY <1>4, <1>5

\* A walk uses what is said of links with at most the expansions left.
LEMMA WalkSame ==
  ASSUME NEW v, NEW f, NEW g, NEW n \in Nat, Same(v, f, g, n), NEW s, Within(s, n),
         NEW ns \in Seq(Piece)
  PROVE  /\ Walk(v, f, s, ns) = Walk(v, g, s, ns)
         /\ Within(Walk(v, f, s, ns), n)
<1> DEFINE A(k) == WalkAt(v, f, s, ns, k)
           B(k) == WalkAt(v, g, s, ns, k)
           P == {k \in Nat : A(k) = B(k) /\ Within(A(k), n)}
<1>1. A(0) = s /\ B(0) = s
  BY WalkTurn
<1>2. \A k \in Nat : A(k + 1) = EnterFollowing(v, f, A(k), ns[k + 1])
  BY WalkTurn
<1>3. \A k \in Nat : B(k + 1) = EnterFollowing(v, g, B(k), ns[k + 1])
  BY WalkTurn
<1>4. Walk(v, f, s, ns) = A(Len(ns)) /\ Walk(v, g, s, ns) = B(Len(ns)) /\ Len(ns) \in Nat
  BY WalkWhole, LenProperties
<1> HIDE DEF A, B
<1>5. 0 \in P
  BY <1>1
<1>6. ASSUME NEW k \in P PROVE k + 1 \in P
  <2>1. k \in Nat /\ A(k) = B(k) /\ Within(A(k), n)
    OBVIOUS
  <2>2. EnterFollowing(v, f, A(k), ns[k + 1]) = EnterFollowing(v, g, A(k), ns[k + 1])
        /\ Within(EnterFollowing(v, f, A(k), ns[k + 1]), n)
    BY <2>1, EnterSame
  <2> QED
    BY <1>2, <1>3, <2>1, <2>2
<1>7. P \in SUBSET Nat
  OBVIOUS
<1>8. Len(ns) \in P
  <2> HIDE DEF P
  <2> QED
    BY <1>4, <1>5, <1>6, <1>7, Inductive
<1> QED
  BY <1>4, <1>8

\* Every readable link has a path as its target.
Readable(v) == \A link \in DOMAIN v.targets : v.targets[link] \in Seq(Piece)

\* The components of a path are pieces.
LEMMA ComponentsArePieces ==
  ASSUME NEW p \in Seq(Piece)
  PROVE  Components(p) \in Seq(Piece)
<1> DEFINE nil == <<>>
           body == IF IsAbsolute(p) THEN Tail(p) ELSE p
<1>1. nil \in Seq(Piece) /\ ~ (Len(<<>>) > 1)
  BY EmptySeq
<1>2. body \in Seq(Piece)
  <2>1. CASE IsAbsolute(p)
    <3>1. p # <<>>
      BY <1>1, <2>1, Zenon DEF IsAbsolute
    <3> QED
      BY <2>1, <3>1, NameEnds
  <2> QED
    BY <2>1
<1> HIDE DEF body
<1>3. EndsInSlash(body) => Front(body) \in Seq(Piece)
  <2> SUFFICES ASSUME EndsInSlash(body) PROVE Front(body) \in Seq(Piece)
    OBVIOUS
  <2>1. body # <<>>
    BY <1>1, Zenon DEF EndsInSlash
  <2> QED
    BY <1>2, <2>1, NameEnds
<1>4. Components(p) = IF p = RootPath THEN nil ELSE IF EndsInSlash(body) THEN Front(body) ELSE body
  BY DEF Components, body
<1> HIDE DEF nil
<1> QED
  BY <1>1, <1>2, <1>3, <1>4

\* What a link names, one link at a time.
LinkEnd(v, f, n, dir, link) ==
  IF n = 0 \/ link \notin DOMAIN v.targets THEN Lost("InvalidData")
  ELSE IF ~IsWellFormed(v.targets[link]) THEN Lost("InvalidInput")
  ELSE AsDirectory(v, WantsDirectory(v.targets[link]),
                   Walk(v, f, Reached(IF IsAbsolute(v.targets[link]) THEN Root ELSE dir, n - 1),
                        Components(v.targets[link])))

\* The function LinkEnds, link by link.
LEMMA LinkEndValue ==
  ASSUME NEW v, NEW f, NEW n
  PROVE  LinkEnds(v, f, n) = [dir \in Dirs(v.inodes) |-> [link \in DOMAIN v.inodes |->
                                LinkEnd(v, f, n, dir, link)]]
BY DEF LinkEnds, LinkEnd

\* A link uses what is said of links with fewer expansions left.
LEMMA LinkEndSame ==
  ASSUME NEW v, Readable(v), NEW f, NEW g, NEW n \in Nat, Same(v, f, g, n - 1), NEW dir, NEW link
  PROVE  /\ LinkEnd(v, f, n, dir, link) = LinkEnd(v, g, n, dir, link)
         /\ Within(LinkEnd(v, f, n, dir, link), n)
<1> DEFINE t == v.targets[link]
           s == Reached(IF IsAbsolute(t) THEN Root ELSE dir, n - 1)
           e == Walk(v, f, s, Components(t))
<1>1. CASE n = 0 \/ link \notin DOMAIN v.targets \/ ~IsWellFormed(t)
  BY <1>1 DEF LinkEnd, Within, Lost
<1>2. CASE n # 0 /\ link \in DOMAIN v.targets /\ IsWellFormed(t)
  <2>1. n - 1 \in Nat /\ n - 1 \in 0 .. n - 1
    BY <1>2
  <2>2. Within(s, n - 1)
    BY <2>1 DEF Within, Reached
  <2>3. t \in Seq(Piece)
    BY <1>2 DEF Readable
  <2>4. Components(t) \in Seq(Piece)
    BY <2>3, ComponentsArePieces
  <2>5. LinkEnd(v, f, n, dir, link) = AsDirectory(v, WantsDirectory(t), e)
    BY <1>2 DEF LinkEnd
  <2>6. LinkEnd(v, g, n, dir, link) = AsDirectory(v, WantsDirectory(t), Walk(v, g, s, Components(t)))
    BY <1>2 DEF LinkEnd
  <2> HIDE DEF s, t
  <2>7. e = Walk(v, g, s, Components(t)) /\ Within(e, n - 1)
    BY <2>1, <2>2, <2>4, WalkSame
  <2> HIDE DEF e
  <2>8. Within(AsDirectory(v, WantsDirectory(t), e), n)
    BY <2>7 DEF Within, AsDirectory, Lost, NoDirectory
  <2> QED
    BY <2>5, <2>6, <2>7, <2>8
<1> QED
  BY <1>1, <1>2

\* f says of all links with fewer than n expansions left what they name.
Solves(v, f, n) == \A m \in 0 .. n - 1 : f[m] = LinkEnds(v, f, m) /\ Counted(v, f, m)

\* What is said of links with fewer expansions settles the next.
LEMMA LinkEndsSame ==
  ASSUME NEW v, Readable(v), NEW f, NEW g, NEW n \in Nat, Same(v, f, g, n - 1)
  PROVE  /\ LinkEnds(v, f, n) = LinkEnds(v, g, n)
         /\ \A h : h[n] = LinkEnds(v, f, n) => Counted(v, h, n)
<1> DEFINE D == Dirs(v.inodes)
           L == DOMAIN v.inodes
<1>1. \A dir \in D, link \in L : /\ LinkEnd(v, f, n, dir, link) = LinkEnd(v, g, n, dir, link)
                                 /\ Within(LinkEnd(v, f, n, dir, link), n)
  BY LinkEndSame
<1>2. LinkEnds(v, f, n) = [dir \in D |-> [link \in L |-> LinkEnd(v, f, n, dir, link)]]
  BY LinkEndValue
<1>3. LinkEnds(v, g, n) = [dir \in D |-> [link \in L |-> LinkEnd(v, g, n, dir, link)]]
  BY LinkEndValue
<1>4. LinkEnds(v, f, n) = LinkEnds(v, g, n)
  BY <1>1, <1>2, <1>3
<1>5. ASSUME NEW h, h[n] = LinkEnds(v, f, n) PROVE Counted(v, h, n)
  <2>1. \A dir \in D, link \in L : h[n][dir][link] = LinkEnd(v, f, n, dir, link)
    BY <1>2, <1>5
  <2> QED
    BY <1>1, <2>1 DEF Counted, Within
<1> QED
  BY <1>4, <1>5

\* Any two such functions agree as far as both go.
LEMMA SolvesOnce ==
  ASSUME NEW v, Readable(v), NEW f, NEW k \in Nat, Solves(v, f, k), NEW g, NEW l \in Nat, Solves(v, g, l)
  PROVE  \A m \in Nat : m <= k /\ m <= l => Same(v, f, g, m - 1)
<1> DEFINE P == {m \in Nat : m <= k /\ m <= l => Same(v, f, g, m - 1)}
<1>1. 0 \in P
  BY DEF Same
<1>2. ASSUME NEW m \in P PROVE m + 1 \in P
  <2> SUFFICES ASSUME m + 1 <= k, m + 1 <= l PROVE Same(v, f, g, m)
    OBVIOUS
  <2>1. m \in Nat /\ m \in 0 .. k - 1 /\ m \in 0 .. l - 1 /\ m <= k /\ m <= l
    OBVIOUS
  <2>2. Same(v, f, g, m - 1)
    BY <2>1
  <2>3. LinkEnds(v, f, m) = LinkEnds(v, g, m)
    BY <2>1, <2>2, LinkEndsSame
  <2>4. f[m] = g[m] /\ Counted(v, f, m)
    BY <2>1, <2>3 DEF Solves
  <2>5. 0 .. m = 0 .. m - 1 \cup {m}
    BY <2>1
  <2> QED
    BY <2>2, <2>4, <2>5 DEF Same
<1>3. P \in SUBSET Nat
  OBVIOUS
<1> HIDE DEF P
<1>4. \A m \in Nat : m \in P
  BY <1>1, <1>2, <1>3, Inductive
<1> QED
  BY <1>4 DEF P

\* Links with n expansions left are settled for every n.
LEMMA SolutionGrows ==
  ASSUME NEW v, Readable(v)
  PROVE  \A n \in Nat : \E f : Solves(v, f, n)
<1> DEFINE P == {n \in Nat : \E f : Solves(v, f, n)}
<1>1. 0 \in P
  <2>1. 0 .. 0 - 1 = {}
    OBVIOUS
  <2> QED
    BY <2>1 DEF Solves
<1>2. ASSUME NEW n \in P PROVE n + 1 \in P
  <2>1. n \in Nat /\ n + 1 \in Nat /\ 0 .. (n + 1) - 1 = 0 .. n
    OBVIOUS
  <2>2. PICK f : Solves(v, f, n)
    OBVIOUS
  <2> HIDE DEF P
  <2> DEFINE g == [m \in 0 .. n |-> IF m = n THEN LinkEnds(v, f, n) ELSE f[m]]
  <2>3. /\ g[n] = LinkEnds(v, f, n)
        /\ \A m \in 0 .. n - 1 : g[m] = f[m]
    BY <2>1
  <2> HIDE DEF g
  <2>4. \A m \in 0 .. n - 1 : Counted(v, f, m)
    BY <2>2 DEF Solves
  <2>5. \A m \in 0 .. n : Same(v, f, g, m - 1)
    <3> SUFFICES ASSUME NEW m \in 0 .. n, NEW k \in 0 .. m - 1 PROVE f[k] = g[k] /\ Counted(v, f, k)
      BY DEF Same
    <3>1. k \in 0 .. n - 1
      BY <2>1
    <3> QED
      BY <2>3, <2>4, <3>1
  <2>6. \A m \in 0 .. n : LinkEnds(v, f, m) = LinkEnds(v, g, m)
    BY <2>1, <2>5, LinkEndsSame
  <2>7. n \in 0 .. n
    BY <2>1
  <2>8. Counted(v, g, n)
    BY <2>1, <2>3, <2>5, <2>7, LinkEndsSame
  <2>9. g[n] = LinkEnds(v, g, n)
    BY <2>3, <2>6, <2>7
  <2>10. ASSUME NEW m \in 0 .. n - 1 PROVE g[m] = LinkEnds(v, g, m) /\ Counted(v, g, m)
    <3>1. f[m] = LinkEnds(v, f, m) /\ Counted(v, f, m) /\ g[m] = f[m]
      BY <2>2, <2>3 DEF Solves
    <3>2. m \in 0 .. n
      BY <2>1
    <3>3. g[m] = LinkEnds(v, g, m)
      BY <2>6, <3>1, <3>2
    <3>4. Counted(v, g, m)
      BY <3>1 DEF Counted
    <3> QED
      BY <3>3, <3>4
  <2>11. \A m \in 0 .. n : m = n \/ m \in 0 .. n - 1
    BY <2>1
  <2>12. \A m \in 0 .. n : g[m] = LinkEnds(v, g, m) /\ Counted(v, g, m)
    BY <2>8, <2>9, <2>10, <2>11
  <2>13. Solves(v, g, n + 1)
    BY <2>1, <2>12 DEF Solves
  <2> QED
    BY <2>1, <2>13 DEF P
<1>3. P \in SUBSET Nat
  OBVIOUS
<1> HIDE DEF P
<1>4. \A n \in Nat : n \in P
  BY <1>1, <1>2, <1>3, Inductive
<1> QED
  BY <1>4 DEF P

\* The recursion of LinkTable, as an equation.
IsLinks(v, f) == f = [n \in Nat |-> LinkEnds(v, f, n)]

\* There is such a function.
LEMMA LinksExist ==
  ASSUME NEW v, Readable(v)
  PROVE  \E f : IsLinks(v, f)
<1> DEFINE F(n) == CHOOSE f : Solves(v, f, n)
           h == [m \in Nat |-> F(m + 1)[m]]
<1>1. \A n \in Nat : Solves(v, F(n), n)
  BY SolutionGrows
<1> HIDE DEF F
<1>2. ASSUME NEW n \in Nat, NEW m \in 0 .. n - 1 PROVE h[m] = F(n)[m] /\ Counted(v, F(n), m)
  <2>1. m \in Nat /\ m + 1 \in Nat /\ m + 1 <= n /\ m + 1 <= m + 1 /\ (m + 1) - 1 = m
    OBVIOUS
  <2>2. Solves(v, F(n), n) /\ Solves(v, F(m + 1), m + 1)
    BY <1>1, <2>1
  <2>3. Same(v, F(n), F(m + 1), (m + 1) - 1)
    BY <2>1, <2>2, SolvesOnce
  <2>4. m \in 0 .. m
    BY <2>1
  <2>5. F(n)[m] = F(m + 1)[m] /\ Counted(v, F(n), m)
    BY <2>1, <2>3, <2>4 DEF Same
  <2> QED
    BY <2>1, <2>5
<1>3. DOMAIN h = Nat /\ h = [m \in Nat |-> h[m]]
  OBVIOUS
<1> HIDE DEF h
<1>4. ASSUME NEW n \in Nat PROVE h[n] = LinkEnds(v, h, n)
  <2> DEFINE k == n + 1
  <2>1. k \in Nat /\ n \in 0 .. k - 1 /\ \A m \in 0 .. n - 1 : m \in 0 .. k - 1
    OBVIOUS
  <2> HIDE DEF k
  <2>2. h[n] = F(k)[n]
    BY <1>2, <2>1
  <2>3. F(k)[n] = LinkEnds(v, F(k), n)
    BY <1>1, <2>1 DEF Solves
  <2>4. Same(v, F(k), h, n - 1)
    BY <1>2, <2>1 DEF Same
  <2>5. LinkEnds(v, F(k), n) = LinkEnds(v, h, n)
    BY <2>4, LinkEndsSame
  <2> QED
    BY <2>2, <2>3, <2>5
<1>5. h = [n \in Nat |-> LinkEnds(v, h, n)]
  BY <1>3, <1>4
<1> QED
  BY <1>5 DEF IsLinks

\* What a link names with n expansions left, in the terms of the reference itself.
LEMMA LinksValue ==
  ASSUME NEW v, Readable(v), NEW n \in Nat, NEW dir \in Dirs(v.inodes), NEW link \in DOMAIN v.inodes
  PROVE  LinkTable(v)[n][dir][link] = LinkEnd(v, LinkTable(v), n, dir, link)
<1> DEFINE h == CHOOSE f : IsLinks(v, f)
<1>1. LinkTable(v) = h
  BY DEF LinkTable, IsLinks
<1>2. IsLinks(v, h)
  BY LinksExist
<1> HIDE DEF h
<1>3. h[n] = LinkEnds(v, h, n)
  <2> DEFINE k == [m \in Nat |-> LinkEnds(v, h, m)]
  <2>1. h = k
    BY <1>2 DEF IsLinks
  <2>2. k[n] = LinkEnds(v, h, n)
    OBVIOUS
  <2> HIDE DEF k
  <2> QED
    BY <2>1, <2>2
<1>4. LinkEnds(v, h, n)[dir][link] = LinkEnd(v, h, n, dir, link)
  BY LinkEndValue
<1> QED
  BY <1>1, <1>3, <1>4

(***************************************************************************)
(* Walks to the end of a path.                                             *)
(***************************************************************************)
\* A walk that is lost gets nowhere.
LEMMA WalkLost ==
  ASSUME NEW v, NEW links, NEW s, s.status # "ok", NEW ns \in Seq(Piece)
  PROVE  Walk(v, links, s, ns) = s
<1> DEFINE A(k) == WalkAt(v, links, s, ns, k)
           P == {k \in Nat : A(k) = s}
<1>1. A(0) = s
  BY WalkTurn
<1>2. \A k \in Nat : A(k + 1) = EnterFollowing(v, links, A(k), ns[k + 1])
  BY WalkTurn
<1>3. Walk(v, links, s, ns) = A(Len(ns)) /\ Len(ns) \in Nat
  BY WalkWhole, LenProperties
<1> HIDE DEF A
<1>4. ASSUME NEW k \in P PROVE k + 1 \in P
  <2>1. k \in Nat /\ A(k) = s
    OBVIOUS
  <2>2. EnterFollowing(v, links, s, ns[k + 1]) = s
    BY LostStays
  <2> QED
    BY <1>2, <2>1, <2>2
<1>5. 0 \in P /\ P \in SUBSET Nat
  BY <1>1
<1> HIDE DEF P
<1>6. Len(ns) \in P
  BY <1>3, <1>4, <1>5, Inductive
<1> QED
  BY <1>3, <1>6 DEF P

\* No names.
LEMMA EndNothing ==
  ASSUME NEW v, NEW s, NEW f \in BOOLEAN
  PROVE  WalkToEnd(v, s, <<>>, f) = s
BY DEF WalkToEnd

\* The last name.
LastStep(v, s, x, f) == IF f THEN EnterFollowing(v, LinkTable(v), s, x) ELSE Enter(v, s, x)

\* A walk along one more name.
LEMMA EndAppend ==
  ASSUME NEW v, NEW s, NEW ns \in Seq(Piece), NEW x \in Piece, NEW f \in BOOLEAN
  PROVE  WalkToEnd(v, s, Append(ns, x), f) = LastStep(v, Walk(v, LinkTable(v), s, ns), x, f)
<1> DEFINE ms == Append(ns, x)
<1>1. ms \in Seq(Piece) /\ Len(ms) = Len(ns) + 1 /\ Len(ns) \in Nat /\ ms[Len(ns) + 1] = x
  BY AppendProperties, LenProperties
<1>2. ms # <<>>
  <2>1. Len(ms) # 0
    BY <1>1
  <2> HIDE DEF ms
  <2> QED
    BY <2>1, EmptySeq
<1>3. Last(ms) = x
  BY <1>1 DEF Last
<1>4. Front(ms) = ns
  BY <1>1 DEF Front
<1> HIDE DEF ms
<1>5. WalkToEnd(v, s, ms, f) = LastStep(v, Walk(v, LinkTable(v), s, Front(ms)), Last(ms), f)
  BY <1>2 DEF WalkToEnd, LastStep
<1> QED
  BY <1>3, <1>4, <1>5 DEF ms

\* With every link followed it is a walk along all the names.
LEMMA EndFollowed ==
  ASSUME NEW v, NEW s, NEW ns \in Seq(Piece)
  PROVE  WalkToEnd(v, s, ns, TRUE) = Walk(v, LinkTable(v), s, ns)
<1>1. CASE ns = <<>>
  <2>1. WalkToEnd(v, s, <<>>, TRUE) = s
    BY EndNothing
  <2>2. Walk(v, LinkTable(v), s, <<>>) = s
    BY WalkNothing
  <2> QED
    BY <1>1, <2>1, <2>2
<1>2. CASE ns # <<>>
  <2>1. WalkToEnd(v, s, ns, TRUE)
          = EnterFollowing(v, LinkTable(v), Walk(v, LinkTable(v), s, Front(ns)), Last(ns))
    BY <1>2 DEF WalkToEnd
  <2> QED
    BY <1>2, <2>1, WalkLast
<1> QED
  BY <1>1, <1>2

\* A walk that is lost gets nowhere.
LEMMA EndLost ==
  ASSUME NEW v, NEW s, s.status # "ok", NEW ns \in Seq(Piece), NEW f \in BOOLEAN
  PROVE  WalkToEnd(v, s, ns, f) = s
<1>1. CASE ns = <<>>
  BY <1>1, EndNothing
<1>2. CASE ns # <<>>
  <2> DEFINE p == Walk(v, LinkTable(v), s, Front(ns))
  <2>1. WalkToEnd(v, s, ns, f) = LastStep(v, p, Last(ns), f)
    BY <1>2 DEF WalkToEnd, LastStep
  <2>2. p = s
    <3>1. Front(ns) \in Seq(Piece)
      BY <1>2, NameEnds
    <3> QED
      BY <3>1, WalkLost
  <2> HIDE DEF p
  <2> QED
    BY <2>1, <2>2, LostStays DEF LastStep
<1> QED
  BY <1>1, <1>2

\* Some names, then others, of which the last may be a link to stay at.
LEMMA EndJoined ==
  ASSUME NEW v, NEW s, NEW a \in Seq(Piece), NEW b \in Seq(Piece), NEW f \in BOOLEAN, b # <<>> \/ f
  PROVE  WalkToEnd(v, s, a \o b, f) = WalkToEnd(v, Walk(v, LinkTable(v), s, a), b, f)
<1> DEFINE mid == Walk(v, LinkTable(v), s, a)
<1>j. \A t : \A p, q \in Seq(Piece) :
         Walk(v, LinkTable(v), t, p \o q)
           = Walk(v, LinkTable(v), Walk(v, LinkTable(v), t, p), q)
  BY WalkJoined
<1>1. CASE f
  <2> DEFINE c == a \o b
  <2>1. c \in Seq(Piece)
    BY ConcatProperties
  <2>2. Walk(v, LinkTable(v), s, c) = Walk(v, LinkTable(v), mid, b)
    BY <1>j
  <2> HIDE DEF c, mid
  <2>3. WalkToEnd(v, s, c, TRUE) = Walk(v, LinkTable(v), s, c)
    BY <2>1, EndFollowed
  <2>4. WalkToEnd(v, mid, b, TRUE) = Walk(v, LinkTable(v), mid, b)
    BY EndFollowed
  <2>5. f = TRUE
    BY <1>1
  <2> QED
    BY <2>2, <2>3, <2>4, <2>5 DEF c, mid
<1>2. CASE b # <<>>
  <2> DEFINE p == Front(b)
             x == Last(b)
             q == a \o p
  <2>1. p \in Seq(Piece) /\ x \in Piece /\ b = Append(p, x)
    BY <1>2, NameEnds
  <2>2. q \in Seq(Piece)
    BY <2>1, ConcatProperties
  <2>3. a \o b = Append(q, x)
    <3> HIDE DEF p, x
    <3>1. a \o Append(p, x) = Append(a \o p, x)
      BY <2>1
    <3> QED
      BY <2>1, <3>1
  <2>4. Walk(v, LinkTable(v), s, q) = Walk(v, LinkTable(v), mid, p)
    <3> HIDE DEF p, x
    <3> QED
      BY <1>j, <2>1
  <2> HIDE DEF p, x, q, mid
  <2>5. WalkToEnd(v, s, Append(q, x), f) = LastStep(v, Walk(v, LinkTable(v), s, q), x, f)
    BY <2>1, <2>2, EndAppend
  <2>6. WalkToEnd(v, mid, Append(p, x), f) = LastStep(v, Walk(v, LinkTable(v), mid, p), x, f)
    BY <2>1, EndAppend
  <2> QED
    BY <2>1, <2>3, <2>4, <2>5, <2>6 DEF mid
<1> QED
  BY <1>1, <1>2

\* A single name.
LEMMA WalkSingle ==
  ASSUME NEW v, NEW links, NEW s, NEW x \in Piece
  PROVE  /\ <<x>> \in Seq(Piece) /\ <<x>> = Append(<<>>, x)
         /\ Walk(v, links, s, <<x>>) = EnterFollowing(v, links, s, x)
<1> DEFINE nil == <<>>
           one == <<x>>
<1>1. nil \in Seq(Piece) /\ one = Append(nil, x) /\ one \in Seq(Piece)
  BY EmptySeq
<1>2. Walk(v, links, s, nil) = s
  BY WalkNothing
<1>3. <<>> = nil /\ <<x>> = one
  OBVIOUS
<1> HIDE DEF nil, one
<1>4. Walk(v, links, s, one) = EnterFollowing(v, links, s, x)
  BY <1>1, <1>2, WalkAppend
<1> QED
  BY <1>1, <1>3, <1>4

\* The first name first, unless it is the last and may be a link to stay at.
LEMMA EndHead ==
  ASSUME NEW v, NEW s, NEW ns \in Seq(Piece), ns # <<>>, NEW f \in BOOLEAN, Tail(ns) # <<>> \/ f
  PROVE  WalkToEnd(v, s, ns, f)
           = WalkToEnd(v, EnterFollowing(v, LinkTable(v), s, Head(ns)), Tail(ns), f)
<1> DEFINE x == Head(ns)
           one == <<x>>
           rest == Tail(ns)
<1>1. x \in Piece /\ rest \in Seq(Piece) /\ ns = one \o rest
  BY NameEnds
<1>2. one \in Seq(Piece) /\ Walk(v, LinkTable(v), s, one) = EnterFollowing(v, LinkTable(v), s, x)
  BY <1>1, WalkSingle
<1>3. rest # <<>> \/ f
  OBVIOUS
<1> HIDE DEF x, one, rest
<1>4. ASSUME NEW a \in Seq(Piece), NEW b \in Seq(Piece), b # <<>> \/ f
      PROVE  WalkToEnd(v, s, a \o b, f) = WalkToEnd(v, Walk(v, LinkTable(v), s, a), b, f)
  BY <1>4, EndJoined
<1>5. WalkToEnd(v, s, one \o rest, f) = WalkToEnd(v, Walk(v, LinkTable(v), s, one), rest, f)
  BY ONLY <1>1, <1>2, <1>3, <1>4
<1> QED
  BY <1>1, <1>2, <1>5 DEF x, rest

\* A single name that may be a link to stay at.
LEMMA EndSingle ==
  ASSUME NEW v, NEW s, NEW ns \in Seq(Piece), ns # <<>>, Tail(ns) = <<>>
  PROVE  WalkToEnd(v, s, ns, FALSE) = Enter(v, s, Head(ns))
<1> DEFINE x == Head(ns)
           nil == <<>>
<1>1. x \in Piece /\ ns = <<x>>
  <2>1. x \in Piece /\ ns = <<x>> \o Tail(ns)
    BY NameEnds
  <2>2. <<x>> \o <<>> = <<x>>
    BY <2>1
  <2> QED
    BY <2>1, <2>2
<1>2. ns = Append(nil, x) /\ nil \in Seq(Piece)
  BY <1>1, WalkSingle, EmptySeq
<1>3. Walk(v, LinkTable(v), s, nil) = s
  BY WalkNothing
<1> HIDE DEF x, nil
<1>4. WalkToEnd(v, s, Append(nil, x), FALSE) = LastStep(v, Walk(v, LinkTable(v), s, nil), x, FALSE)
  BY <1>1, <1>2, EndAppend, Zenon
<1> QED
  BY <1>2, <1>3, <1>4 DEF LastStep, x

(***************************************************************************)
(* What the resolver still has to do, in the terms of the reference: from  *)
(* inode i with n expansions left along ns, wanting a directory or not.    *)
(***************************************************************************)
Answer(v, i, n, ns, dir, f) ==
  Outcome(v, AsDirectory(v, dir, WalkToEnd(v, Reached(i, n), ns, f \/ dir)))

\* A walk that is lost is answered with its error.
LEMMA LostAnswer ==
  ASSUME NEW v, NEW dir, NEW e, e # "ok"
  PROVE  Outcome(v, AsDirectory(v, dir, Lost(e))) = Failed(e)
BY DEF Outcome, AsDirectory, Lost, Failed

\* The next name cannot be entered.
LEMMA EndFails ==
  ASSUME NEW v, NEW s, NEW ns \in Seq(Piece), ns # <<>>, NEW g \in BOOLEAN,
         NEW e, e # "ok", Enter(v, s, Head(ns)) = Lost(e)
  PROVE  WalkToEnd(v, s, ns, g) = Lost(e)
<1> DEFINE x == Head(ns)
<1>1. Tail(ns) \in Seq(Piece) /\ Lost(e).status # "ok"
  BY NameEnds DEF Lost
<1>2. EnterFollowing(v, LinkTable(v), s, x) = Lost(e)
  BY <1>1 DEF EnterFollowing
<1>3. CASE Tail(ns) # <<>> \/ g
  <2> HIDE DEF x
  <2>1. WalkToEnd(v, s, ns, g) = WalkToEnd(v, EnterFollowing(v, LinkTable(v), s, Head(ns)), Tail(ns), g)
    BY <1>1, <1>3, EndHead
  <2>2. WalkToEnd(v, Lost(e), Tail(ns), g) = Lost(e)
    BY <1>1, EndLost
  <2> QED
    BY <1>2, <2>1, <2>2 DEF x
<1>4. CASE Tail(ns) = <<>> /\ ~ g
  <2>1. g = FALSE
    BY <1>4
  <2>2. WalkToEnd(v, s, ns, FALSE) = Enter(v, s, Head(ns))
    BY <1>4, EndSingle
  <2> QED
    BY <2>1, <2>2
<1> QED
  BY <1>3, <1>4

\* The next name cannot be entered.
LEMMA AnswerLost ==
  ASSUME NEW v, NEW i, NEW n, NEW ns \in Seq(Piece), ns # <<>>, NEW dir \in BOOLEAN, NEW f \in BOOLEAN,
         NEW e, e # "ok", Enter(v, Reached(i, n), Head(ns)) = Lost(e)
  PROVE  Answer(v, i, n, ns, dir, f) = Failed(e)
<1> DEFINE g == f \/ dir
<1>1. g \in BOOLEAN
  OBVIOUS
<1> HIDE DEF g
<1>2. WalkToEnd(v, Reached(i, n), ns, g) = Lost(e)
  BY <1>1, EndFails
<1> QED
  BY <1>2, LostAnswer DEF Answer, g

\* The next name is entered, and is no link.
LEMMA AnswerMoves ==
  ASSUME NEW v, NEW i, NEW n, NEW ns \in Seq(Piece), ns # <<>>, NEW dir \in BOOLEAN, NEW f \in BOOLEAN,
         NEW j, Enter(v, Reached(i, n), Head(ns)) = Reached(j, n), ~IsSymlink(v, j)
  PROVE  Answer(v, i, n, ns, dir, f) = Answer(v, j, n, Tail(ns), dir, f)
<1> DEFINE s == Reached(i, n)
           t == Reached(j, n)
           g == f \/ dir
           x == Head(ns)
<1>1. g \in BOOLEAN /\ t.inode = j
  BY DEF Reached
<1>2. EnterFollowing(v, LinkTable(v), s, x) = t
  BY <1>1 DEF EnterFollowing
<1>3. WalkToEnd(v, s, ns, g) = WalkToEnd(v, t, Tail(ns), g)
  <2>1. CASE Tail(ns) # <<>> \/ g
    <3> HIDE DEF g, s, x, t
    <3>1. WalkToEnd(v, s, ns, g) = WalkToEnd(v, EnterFollowing(v, LinkTable(v), s, Head(ns)), Tail(ns), g)
      BY <1>1, <2>1, EndHead
    <3> QED
      BY <1>2, <3>1 DEF x
  <2>2. CASE Tail(ns) = <<>> /\ ~ g
    <3>1. g = FALSE
      BY <1>1, <2>2
    <3>2. WalkToEnd(v, s, ns, FALSE) = Enter(v, s, Head(ns))
      BY <2>2, EndSingle
    <3>3. WalkToEnd(v, t, <<>>, FALSE) = t
      BY EndNothing
    <3> QED
      BY <2>2, <3>1, <3>2, <3>3
  <2> QED
    BY <2>1, <2>2
<1> QED
  BY <1>3 DEF Answer

\* The last name is a link that is not to be followed.
LEMMA AnswerFinalLink ==
  ASSUME NEW v, NEW i, NEW n, NEW ns \in Seq(Piece), ns # <<>>, Tail(ns) = <<>>,
         NEW j, Enter(v, Reached(i, n), Head(ns)) = Reached(j, n), j \in DOMAIN v.inodes
  PROVE  Answer(v, i, n, ns, FALSE, FALSE) = Found(j)
<1> DEFINE s == Reached(i, n)
<1>1. WalkToEnd(v, s, ns, FALSE) = Enter(v, s, Head(ns))
  BY EndSingle
<1>2. WalkToEnd(v, s, ns, FALSE) = Reached(j, n)
  BY <1>1
<1>3. Answer(v, i, n, ns, FALSE, FALSE) = Outcome(v, AsDirectory(v, FALSE, Reached(j, n)))
  BY <1>2 DEF Answer
<1>4. AsDirectory(v, FALSE, Reached(j, n)) = Reached(j, n)
  BY DEF AsDirectory
<1>5. Outcome(v, Reached(j, n)) = Found(j)
  BY DEF Outcome, Reached
<1> QED
  BY <1>3, <1>4, <1>5

\* In directory i, with n expansions left, the next of the names ns is link j.
AtLink(v, i, n, ns, j) ==
  /\ Readable(v)
  /\ i \in Dirs(v.inodes)
  /\ n \in Nat
  /\ ns \in Seq(Piece)
  /\ ns # <<>>
  /\ Enter(v, Reached(i, n), Head(ns)) = Reached(j, n)
  /\ IsSymlink(v, j)

\* The next name is a link to be followed: its target is walked first.
LEMMA AnswerAtLink ==
  ASSUME NEW v, NEW i, NEW n, NEW ns, NEW j, AtLink(v, i, n, ns, j),
         NEW dir \in BOOLEAN, NEW f \in BOOLEAN, NEW g \in BOOLEAN, g = (f \/ dir), Tail(ns) # <<>> \/ g
  PROVE  Answer(v, i, n, ns, dir, f)
           = Outcome(v, AsDirectory(v, dir, WalkToEnd(v, LinkEnd(v, LinkTable(v), n, i, j), Tail(ns), g)))
<1> DEFINE s == Reached(i, n)
           t == LinkEnd(v, LinkTable(v), n, i, j)
           x == Head(ns)
<1> USE DEF AtLink
<1>1. j \in DOMAIN v.inodes
  BY DEF IsSymlink
<1>2. EnterFollowing(v, LinkTable(v), s, x) = LinkTable(v)[n][i][j]
  BY DEF EnterFollowing, Reached
<1>3. LinkTable(v)[n][i][j] = t
  BY <1>1, LinksValue
<1>4. WalkToEnd(v, s, ns, g) = WalkToEnd(v, t, Tail(ns), g)
  <2> HIDE DEF s, t, x
  <2>1. WalkToEnd(v, s, ns, g) = WalkToEnd(v, EnterFollowing(v, LinkTable(v), s, Head(ns)), Tail(ns), g)
    BY <1>1, EndHead
  <2> QED
    BY <1>2, <1>3, <2>1 DEF x
<1>5. Answer(v, i, n, ns, dir, f) = Outcome(v, AsDirectory(v, dir, WalkToEnd(v, s, ns, g)))
  BY DEF Answer
<1> QED
  BY <1>4, <1>5

\* The link cannot be followed.
LEMMA AnswerRefused ==
  ASSUME NEW v, NEW i, NEW n, NEW ns, NEW j, AtLink(v, i, n, ns, j),
         NEW dir \in BOOLEAN, NEW f \in BOOLEAN, Tail(ns) # <<>> \/ f \/ dir,
         NEW e, e # "ok", LinkEnd(v, LinkTable(v), n, i, j) = Lost(e)
  PROVE  Answer(v, i, n, ns, dir, f) = Failed(e)
<1> DEFINE g == f \/ dir
<1>1. /\ g \in BOOLEAN /\ g = (f \/ dir) /\ (Tail(ns) # <<>> \/ g)
      /\ Tail(ns) \in Seq(Piece) /\ Lost(e).status # "ok"
  BY NameEnds DEF Lost, AtLink
<1> HIDE DEF g
<1>2. Answer(v, i, n, ns, dir, f)
        = Outcome(v, AsDirectory(v, dir, WalkToEnd(v, LinkEnd(v, LinkTable(v), n, i, j), Tail(ns), g)))
  BY <1>1, AnswerAtLink
<1>3. WalkToEnd(v, Lost(e), Tail(ns), g) = Lost(e)
  BY <1>1, EndLost
<1> QED
  BY <1>2, <1>3, LostAnswer

\* A walk that must end at a directory, and at a directory again.
LEMMA TwiceDirectory ==
  ASSUME NEW v, NEW a \in BOOLEAN, NEW b \in BOOLEAN, NEW s
  PROVE  AsDirectory(v, a, AsDirectory(v, b, s)) = AsDirectory(v, a \/ b, s)
BY DEF AsDirectory, Lost, NoDirectory

\* The target of the link goes in front of what remains, and a slash after it
\* asks for a directory at the end if nothing remains: all of it comes to the same.
LEMMA AnswerFollows ==
  ASSUME NEW v, NEW i, NEW n, NEW ns, NEW j, AtLink(v, i, n, ns, j), n # 0,
         NEW dir \in BOOLEAN, NEW f \in BOOLEAN, Tail(ns) # <<>> \/ f \/ dir,
         j \in DOMAIN v.targets, IsWellFormed(v.targets[j])
  PROVE  Answer(v, i, n, ns, dir, f)
           = Answer(v, IF IsAbsolute(v.targets[j]) THEN Root ELSE i, n - 1,
                    Components(v.targets[j]) \o Tail(ns),
                    dir \/ (WantsDirectory(v.targets[j]) /\ Tail(ns) = <<>>), f)
<1> DEFINE t == v.targets[j]
           rest == Tail(ns)
           from == IF IsAbsolute(t) THEN Root ELSE i
           s == Reached(from, n - 1)
           names == Components(t)
           y == Walk(v, LinkTable(v), s, names)
           wants == WantsDirectory(t)
           g == f \/ dir
           more == wants /\ rest = <<>>
           dir2 == dir \/ more
           g2 == f \/ dir2
<1>1. /\ rest \in Seq(Piece) /\ n \in Nat
      /\ g \in BOOLEAN /\ g2 \in BOOLEAN /\ dir2 \in BOOLEAN /\ wants \in BOOLEAN
      /\ rest # <<>> \/ g
  BY NameEnds DEF WantsDirectory, AtLink
<1>2. names \in Seq(Piece)
  BY ComponentsArePieces DEF Readable, AtLink
<1>3. LinkEnd(v, LinkTable(v), n, i, j) = AsDirectory(v, wants, y)
  BY DEF LinkEnd
<1>4. Answer(v, i, n, ns, dir, f)
        = Outcome(v, AsDirectory(v, dir, WalkToEnd(v, LinkEnd(v, LinkTable(v), n, i, j), rest, g)))
  <2>1. g = (f \/ dir) /\ (Tail(ns) # <<>> \/ g)
    OBVIOUS
  <2> HIDE DEF g
  <2> QED
    BY <1>1, <2>1, AnswerAtLink
<1>5. Answer(v, from, n - 1, names \o rest, dir2, f)
        = Outcome(v, AsDirectory(v, dir2, WalkToEnd(v, s, names \o rest, g2)))
  BY DEF Answer
<1>6. rest # <<>> => dir2 = dir /\ g2 = g
  OBVIOUS
<1>7. rest = <<>> => dir2 = (dir \/ wants)
  OBVIOUS
<1>8. rest # <<>> \/ g2
  BY <1>1
<1> HIDE DEF t, rest, from, s, names, wants, g, more, dir2, g2
<1>9. WalkToEnd(v, s, names \o rest, g2) = WalkToEnd(v, y, rest, g2)
  BY <1>1, <1>2, <1>8, EndJoined
<1> HIDE DEF y
<1>10. CASE rest = <<>>
  <2>1. WalkToEnd(v, AsDirectory(v, wants, y), rest, g) = AsDirectory(v, wants, y)
    BY <1>1, <1>10, EndNothing
  <2>2. WalkToEnd(v, y, rest, g2) = y
    BY <1>1, <1>10, EndNothing
  <2>3. AsDirectory(v, dir, AsDirectory(v, wants, y)) = AsDirectory(v, dir2, y)
    BY <1>1, <1>7, <1>10, TwiceDirectory
  <2> QED
    BY <1>3, <1>4, <1>5, <1>9, <2>1, <2>2, <2>3 DEF t, rest, from, names, dir2, more, wants
<1>11. CASE rest # <<>>
  <2>1. dir2 = dir /\ g2 = g
    BY <1>6, <1>11
  <2>2. WalkToEnd(v, AsDirectory(v, wants, y), rest, g) = WalkToEnd(v, y, rest, g)
    <3>1. CASE y.status = "ok" /\ wants /\ ~IsDirectory(v, y.inode)
      <4> DEFINE e == NoDirectory(v, y.inode)
      <4>1. AsDirectory(v, wants, y) = Lost(e) /\ e # "ok" /\ Lost(e).status # "ok"
        BY <3>1 DEF AsDirectory, NoDirectory, Lost
      <4>2. Enter(v, y, Head(rest)) = Lost(e)
        BY <3>1 DEF Enter
      <4> HIDE DEF e
      <4>3. WalkToEnd(v, y, rest, g) = Lost(e)
        BY <1>1, <1>11, <4>1, <4>2, EndFails
      <4>4. WalkToEnd(v, Lost(e), rest, g) = Lost(e)
        BY <1>1, <4>1, EndLost
      <4> QED
        BY <4>1, <4>3, <4>4
    <3>2. CASE ~ (y.status = "ok" /\ wants /\ ~IsDirectory(v, y.inode))
      BY <3>2 DEF AsDirectory
    <3> QED
      BY <3>1, <3>2
  <2> QED
    BY <1>3, <1>4, <1>5, <1>9, <2>1, <2>2 DEF t, rest, from, names, dir2, more, wants
<1> QED
  BY <1>10, <1>11

\* Nothing remains.
LEMMA AnswerAtEnd ==
  ASSUME NEW v, NEW i, NEW n, NEW dir \in BOOLEAN, NEW f \in BOOLEAN
  PROVE  Answer(v, i, n, <<>>, dir, f)
           = IF i \notin DOMAIN v.inodes THEN Failed("InvalidData")
             ELSE IF dir /\ ~IsDirectory(v, i) THEN Failed("InvalidInput")
             ELSE Found(i)
<1> DEFINE s == Reached(i, n)
           g == f \/ dir
<1>1. s.status = "ok" /\ s.inode = i /\ g \in BOOLEAN
  BY DEF Reached
<1>2. Answer(v, i, n, <<>>, dir, f) = Outcome(v, AsDirectory(v, dir, WalkToEnd(v, s, <<>>, g)))
  BY DEF Answer
<1> HIDE DEF s, g
<1>3. WalkToEnd(v, s, <<>>, g) = s
  BY <1>1, EndNothing
<1>4. i \notin DOMAIN v.inodes => ~IsDirectory(v, i)
  BY DEF IsDirectory, Dirs
<1>5. Outcome(v, AsDirectory(v, dir, s))
        = IF i \notin DOMAIN v.inodes THEN Failed("InvalidData")
          ELSE IF dir /\ ~IsDirectory(v, i) THEN Failed("InvalidInput")
          ELSE Found(i)
  BY <1>1, <1>4 DEF Outcome, AsDirectory, Lost, NoDirectory
<1> QED
  BY <1>2, <1>3, <1>5

(***************************************************************************)
(* The resolver.  At every turn of its loop what the path names is what    *)
(* the walk from the current directory along the queue comes to, with the  *)
(* expansions that are left.                                               *)
(***************************************************************************)
Expected == Lookup(w, path, follow)
Left == MaxExpansions - expansions

Errors == {"NotFound", "InvalidInput", "InvalidData"}

Steady ==
  /\ w \in Volumes
  /\ path \in PathNames
  /\ follow \in BOOLEAN
  /\ wantDir \in BOOLEAN
  /\ pending \in Seq(Piece)
  /\ "" \notin Range(pending)
  /\ current \in Nat
  /\ expansions \in 0 .. MaxExpansions

Answered ==
  \/ result = Running
  \/ \E e \in Errors : result = Failed(e)
  \/ \E i \in Nat \ {0} : result = Found(i)

Faithful ==
  IF result = Running THEN Expected = Answer(w, current, Left, pending, wantDir, follow)
  ELSE result = Expected

\* Every volume is readable and 0 is no inode of it.
LEMMA VolumeFacts ==
  ASSUME NEW v \in Volumes
  PROVE  Readable(v) /\ DOMAIN v.inodes \subseteq Nat \ {0}
BY VolumesAssumption DEF Readable

\* A directory of the volume is an inode of it and no link.
LEMMA DirectoryFacts ==
  ASSUME NEW v, NEW i, IsDirectory(v, i)
  PROVE  i \in DOMAIN v.inodes /\ ~IsSymlink(v, i)
BY DEF IsDirectory, IsSymlink, Dirs

\* Neither an outcome nor an error is Running.
LEMMA AnswersAreNotRunning ==
  /\ \A i : Found(i) # Running
  /\ \A e \in Errors : Failed(e) # Running
<1>1. ASSUME NEW i PROVE Found(i) # Running
  <2>1. Found(i).status = "ok" /\ Running.status = "running"
    BY DEF Found, Running
  <2> QED
    BY <2>1
<1>2. ASSUME NEW e \in Errors PROVE Failed(e) # Running
  <2>1. Failed(e).status = e /\ Running.status = "running" /\ e # "running"
    BY DEF Failed, Running, Errors
  <2> QED
    BY <2>1
<1> QED
  BY <1>1, <1>2

\* What is left of the queue has no empty component either.
LEMMA TailHasNoEmpty ==
  ASSUME NEW s \in Seq(Piece), s # <<>>, "" \notin Range(s)
  PROVE  Tail(s) \in Seq(Piece) /\ "" \notin Range(Tail(s))
<1>1. Tail(s) \in Seq(Piece) /\ Len(s) \in Nat /\ Len(s) # 0 /\ Len(Tail(s)) = Len(s) - 1
  BY NameEnds
<1>2. ASSUME NEW k \in DOMAIN Tail(s) PROVE Tail(s)[k] # ""
  <2>1. k \in 1 .. Len(Tail(s)) /\ DOMAIN s = 1 .. Len(s)
    BY <1>1, LenProperties
  <2>2. k + 1 \in DOMAIN s
    <3>1. k + 1 \in 1 .. Len(s)
      BY ONLY <1>1, <2>1
    <3> QED
      BY ONLY <2>1, <3>1, Zenon
  <2>3. \A i \in 1 .. Len(Tail(s)) : Tail(s)[i] = s[i + 1]
    BY HeadTailProperties
  <2> QED
    BY <2>1, <2>2, <2>3 DEF Range
<1> QED
  BY <1>1, <1>2 DEF Range

\* Nor has a queue a well-formed target is spliced into.
LEMMA JoinHasNoEmpty ==
  ASSUME NEW s \in Seq(Piece), NEW t \in Seq(Piece), "" \notin Range(s), "" \notin Range(t)
  PROVE  s \o t \in Seq(Piece) /\ "" \notin Range(s \o t)
<1> DEFINE u == s \o t
<1>1. /\ u \in Seq(Piece) /\ Len(u) = Len(s) + Len(t) /\ Len(s) \in Nat /\ Len(t) \in Nat
      /\ DOMAIN s = 1 .. Len(s) /\ DOMAIN t = 1 .. Len(t) /\ DOMAIN u = 1 .. Len(u)
      /\ \A k \in 1 .. Len(s) + Len(t) : u[k] = IF k <= Len(s) THEN s[k] ELSE t[k - Len(s)]
  BY LenProperties, ConcatProperties
<1> HIDE DEF u
<1>2. ASSUME NEW k \in DOMAIN u PROVE u[k] # ""
  <2>1. k \in 1 .. Len(s) + Len(t)
    BY <1>1
  <2>2. u[k] = IF k <= Len(s) THEN s[k] ELSE t[k - Len(s)]
    BY ONLY <1>1, <2>1, Zenon
  <2>3. IF k <= Len(s) THEN k \in 1 .. Len(s) ELSE k - Len(s) \in 1 .. Len(t)
    BY ONLY <1>1, <2>1
  <2>4. CASE k <= Len(s)
    <3>1. u[k] = s[k] /\ k \in 1 .. Len(s)
      BY ONLY <2>4, <2>2, <2>3, Zenon
    <3>2. k \in DOMAIN s
      BY ONLY <1>1, <3>1, Zenon
    <3> QED
      BY <3>1, <3>2 DEF Range
  <2>5. CASE ~ (k <= Len(s))
    <3>1. u[k] = t[k - Len(s)] /\ k - Len(s) \in 1 .. Len(t)
      BY ONLY <2>5, <2>2, <2>3, Zenon
    <3>2. k - Len(s) \in DOMAIN t
      BY ONLY <1>1, <3>1, Zenon
    <3> QED
      BY <3>1, <3>2 DEF Range
  <2> QED
    BY <2>4, <2>5
<1>3. "" \notin Range(u)
  BY <1>2 DEF Range
<1> QED
  BY <1>1, <1>3 DEF u

\* The walk enters a name of the directory, or is told that there is none.
LEMMA EnterByName ==
  ASSUME NEW v, NEW i, NEW n, NEW name, IsDirectory(v, i), name \notin {".", ".."}
  PROVE  Enter(v, Reached(i, n), name)
           = IF <<i, name>> \notin DOMAIN v.entries THEN Lost("NotFound")
             ELSE IF v.entries[<<i, name>>] \notin DOMAIN v.inodes THEN Lost("InvalidData")
             ELSE Reached(v.entries[<<i, name>>], n)
BY DEF Enter, Reached

\* "." and "..".
LEMMA EnterDots ==
  ASSUME NEW v, NEW i, NEW n, IsDirectory(v, i)
  PROVE  /\ Enter(v, Reached(i, n), ".") = Reached(i, n)
         /\ Enter(v, Reached(i, n), "..")
              = IF Parent(v, i).status = "ok" THEN Reached(Parent(v, i).inode, n) ELSE Lost("InvalidData")
BY DEF Enter, Reached

\* The current inode is no directory.
LEMMA EnterNoDirectory ==
  ASSUME NEW v, NEW i, NEW n, NEW name, ~IsDirectory(v, i)
  PROVE  Enter(v, Reached(i, n), name) = Lost(NoDirectory(v, i))
BY DEF Enter, Reached

\* The parent of a directory is a directory, or an error.
LEMMA ParentFacts ==
  ASSUME NEW v, NEW i, IsDirectory(v, i)
  PROVE  IF Parent(v, i).status = "ok" THEN IsDirectory(v, Parent(v, i).inode)
         ELSE Parent(v, i) = Failed("InvalidData")
<1>1. CASE i = Root
  BY <1>1 DEF Parent, Found
<1> DEFINE R == Refs(v.entries, i)
           fits == Cardinality(R) = 1 /\ \A e \in R : IsDirectory(v, e[1])
<1>2. CASE i # Root /\ fits
  <2>1. R # {}
    BY <1>2, FS_EmptySet
  <2>2. PICK e \in R : e = CHOOSE x \in R : TRUE
    BY <2>1
  <2>3. Parent(v, i) = Found(e[1])
    BY <1>2, <2>2 DEF Parent
  <2>4. Parent(v, i).inode = e[1] /\ Parent(v, i).status = "ok"
    BY <2>3 DEF Found
  <2> QED
    BY <1>2, <2>4
<1>3. CASE i # Root /\ ~ fits
  <2>1. Parent(v, i) = Failed("InvalidData")
    BY <1>3 DEF Parent
  <2> QED
    BY <2>1 DEF Failed
<1> QED
  BY <1>1, <1>2, <1>3

(***************************************************************************)
(* Steady is kept.                                                         *)
(***************************************************************************)
\* When resolve_path is called.
LEMMA SteadyInit ==
  ASSUME LookupInit
  PROVE  Steady /\ Answered
<1>1. w \in Volumes /\ path \in PathNames /\ follow \in BOOLEAN /\ current \in Nat
  BY DEF LookupInit, Root
<1>2. expansions \in 0 .. MaxExpansions
  BY LimitAssumption DEF LookupInit
<1>3. wantDir \in BOOLEAN
  BY DEF LookupInit, WantsDirectory
<1>4. path \in Seq(Piece)
  BY <1>1, PathAssumption
<1>5. CASE IsAbsolute(path) /\ IsWellFormed(path)
  <2>1. pending = Components(path) /\ result = Running
    BY <1>5 DEF LookupInit
  <2>2. Components(path) \in Seq(Piece)
    BY <1>4, ComponentsArePieces
  <2>3. "" \notin Range(Components(path))
    BY <1>5 DEF IsWellFormed
  <2> QED
    BY <1>1, <1>2, <1>3, <2>1, <2>2, <2>3 DEF Steady, Answered
<1>6. CASE ~ (IsAbsolute(path) /\ IsWellFormed(path))
  <2>1. pending = <<>> /\ result = Failed("InvalidInput")
    BY <1>6 DEF LookupInit
  <2>2. pending \in Seq(Piece) /\ DOMAIN pending = {}
    BY <2>1
  <2>3. "" \notin Range(pending)
    BY <2>2 DEF Range
  <2>4. Answered
    BY <2>1 DEF Answered, Errors
  <2> QED
    BY <1>1, <1>2, <1>3, <2>2, <2>3, <2>4 DEF Steady
<1> QED
  BY <1>5, <1>6

\* What remains after a turn that moves, and after one that stops.
LEMMA SteadyMoves ==
  ASSUME Steady, Answered, Walking, NEW i \in Nat, MoveTo(i)
  PROVE  Steady' /\ Answered'
<1>1. pending' = Tail(pending) /\ current' = i
      /\ UNCHANGED <<w, path, follow, expansions, wantDir, result>>
  BY DEF MoveTo, input
<1>2. Tail(pending) \in Seq(Piece) /\ "" \notin Range(Tail(pending))
  BY TailHasNoEmpty DEF Steady, Walking
<1>3. Steady'
  BY <1>1, <1>2 DEF Steady
<1>4. Answered'
  BY <1>1 DEF Answered, Walking
<1> QED
  BY <1>3, <1>4

\* A turn that stops leaves the walk where it is.
LEMMA SteadyStops ==
  ASSUME Steady, NEW r, Stop(r), (\E e \in Errors : r = Failed(e)) \/ (\E i \in Nat \ {0} : r = Found(i))
  PROVE  Steady' /\ Answered'
<1>1. result' = r /\ UNCHANGED <<w, path, follow, pending, current, expansions, wantDir>>
  BY DEF Stop, input
<1>2. Steady'
  BY <1>1 DEF Steady
<1>3. Answered'
  BY <1>1 DEF Answered
<1> QED
  BY <1>2, <1>3

\* One case for every action.
LEMMA SteadyNext ==
  ASSUME Steady, Answered, [LookupNext]_lookupVars
  PROVE  Steady' /\ Answered'
<1>1. Readable(w) /\ DOMAIN w.inodes \subseteq Nat \ {0}
  BY VolumeFacts DEF Steady
<1>2. CASE NotADirectory
  <2> DEFINE e == IF current \in DOMAIN w.inodes THEN "InvalidInput" ELSE "InvalidData"
  <2>1. e \in Errors /\ Stop(Failed(e))
    BY <1>2 DEF NotADirectory, Errors
  <2> HIDE DEF e
  <2> QED
    BY <2>1, SteadyStops
<1>3. CASE Dot
  BY <1>3, SteadyMoves DEF Dot, WalkingIn, Steady
<1>4. CASE DotDot
  <2>1. Walking /\ IsDirectory(w, current)
    BY <1>4 DEF DotDot, WalkingIn
  <2>2. CASE Parent(w, current).status = "ok"
    <3>1. IsDirectory(w, Parent(w, current).inode)
      BY <2>1, <2>2, ParentFacts
    <3>2. Parent(w, current).inode \in Nat
      BY <1>1, <3>1, DirectoryFacts
    <3>3. MoveTo(Parent(w, current).inode)
      BY <1>4, <2>2 DEF DotDot
    <3> QED
      BY <2>1, <3>2, <3>3, SteadyMoves
  <2>3. CASE Parent(w, current).status # "ok"
    <3>1. Parent(w, current) = Failed("InvalidData")
      BY <2>1, <2>3, ParentFacts
    <3>2. Stop(Failed("InvalidData")) /\ "InvalidData" \in Errors
      BY <1>4, <2>3, <3>1 DEF DotDot, Errors
    <3> QED
      BY <3>2, SteadyStops
  <2> QED
    BY <2>2, <2>3
<1>5. CASE Missing
  <2> DEFINE e == IF NextKey \in DOMAIN w.entries THEN "InvalidData" ELSE "NotFound"
  <2>1. e \in Errors /\ Stop(Failed(e))
    BY <1>5 DEF Missing, Errors
  <2> HIDE DEF e
  <2> QED
    BY <2>1, SteadyStops
<1>6. CASE Descend
  <2>1. Named \in Nat /\ MoveTo(Named) /\ Walking
    BY <1>1, <1>6 DEF Descend, AtName, WalkingIn
  <2> QED
    BY <2>1, SteadyMoves
<1>7. CASE FinalLink
  <2>1. Named \in Nat \ {0} /\ Stop(Found(Named))
    BY <1>1, <1>7 DEF FinalLink, IsSymlink
  <2> QED
    BY <2>1, SteadyStops
<1>8. CASE LinkRefused
  <2>1. PICK e \in Errors : Stop(Failed(e))
    BY <1>8 DEF LinkRefused, Errors
  <2> QED
    BY <2>1, SteadyStops
<1>9. CASE FollowLink
  <2> DEFINE target == w.targets[Named]
  <2>1. /\ Named \in DOMAIN w.targets /\ IsWellFormed(target) /\ pending # <<>> /\ result = Running
        /\ expansions + 1 <= MaxExpansions /\ Expand(target) /\ UNCHANGED <<w, path, follow, result>>
    BY <1>9 DEF FollowLink, AtName, WalkingIn, Walking, input
  <2>2. Components(target) \in Seq(Piece) /\ "" \notin Range(Components(target))
    BY <1>1, <2>1, ComponentsArePieces DEF Readable, IsWellFormed
  <2>3. Tail(pending) \in Seq(Piece) /\ "" \notin Range(Tail(pending))
    BY <2>1, TailHasNoEmpty DEF Steady
  <2> HIDE DEF target
  <2>4. pending' \in Seq(Piece) /\ "" \notin Range(pending')
    BY <2>1, <2>2, <2>3, JoinHasNoEmpty DEF Expand
  <2>5. current' \in Nat /\ wantDir' \in BOOLEAN /\ expansions' = expansions + 1
    BY <2>1 DEF Expand, Steady, Root
  <2>6. expansions' \in 0 .. MaxExpansions
    <3>1. expansions \in 0 .. MaxExpansions
      BY DEF Steady
    <3> QED
      BY ONLY <2>1, <2>5, <3>1, LimitAssumption
  <2>7. Steady'
    BY <2>1, <2>4, <2>5, <2>6 DEF Steady
  <2>8. Answered'
    BY <2>1 DEF Answered
  <2> QED
    BY <2>7, <2>8
<1>10. CASE Finish
  <2>1. CASE current \in DOMAIN w.inodes /\ ~ (wantDir /\ ~IsDirectory(w, current))
    <3>1. Stop(Found(current)) /\ current \in Nat \ {0}
      BY <1>1, <1>10, <2>1 DEF Finish
    <3> QED
      BY <3>1, SteadyStops
  <2>2. CASE ~ (current \in DOMAIN w.inodes /\ ~ (wantDir /\ ~IsDirectory(w, current)))
    <3>1. PICK e \in Errors : Stop(Failed(e))
      BY <1>10, <2>2 DEF Finish, Errors
    <3> QED
      BY <3>1, SteadyStops
  <2> QED
    BY <2>1, <2>2
<1>11. CASE UNCHANGED lookupVars
  BY <1>11 DEF lookupVars, Steady, Answered
<1> QED
  BY <1>2, <1>3, <1>4, <1>5, <1>6, <1>7, <1>8, <1>9, <1>10, <1>11 DEF LookupNext

(***************************************************************************)
(* Faithful is kept: what the path names is not changed by a turn.         *)
(***************************************************************************)
\* The walk begins at the root with all of the path ahead.
LEMMA FaithfulInit ==
  ASSUME LookupInit
  PROVE  Faithful
<1>1. wantDir = WantsDirectory(path) /\ current = Root /\ Left = MaxExpansions
  BY LimitAssumption DEF LookupInit, Left
<1>2. CASE IsAbsolute(path) /\ IsWellFormed(path)
  <2>1. pending = Components(path) /\ result = Running
    BY <1>2 DEF LookupInit
  <2>2. Expected = Answer(w, Root, MaxExpansions, Components(path), WantsDirectory(path), follow)
    BY <1>2 DEF Expected, Lookup, Answer
  <2> QED
    BY <1>1, <2>1, <2>2 DEF Faithful
<1>3. CASE ~ (IsAbsolute(path) /\ IsWellFormed(path))
  <2>1. result = Failed("InvalidInput") /\ Expected = Failed("InvalidInput")
    BY <1>3 DEF LookupInit, Expected, Lookup
  <2>2. result # Running
    BY <2>1, AnswersAreNotRunning DEF Errors
  <2> QED
    BY <2>1, <2>2 DEF Faithful
<1> QED
  BY <1>2, <1>3

\* The lookup stops with what the walk comes to.
LEMMA FaithfulStops ==
  ASSUME Faithful, result = Running, NEW r, Stop(r), r # Running,
         Answer(w, current, Left, pending, wantDir, follow) = r
  PROVE  Faithful'
<1>1. Expected = r
  BY DEF Faithful
<1>2. result' = r /\ w' = w /\ path' = path /\ follow' = follow
  BY DEF Stop, input
<1>3. Expected' = Expected
  BY <1>2 DEF Expected
<1> QED
  BY <1>1, <1>2, <1>3 DEF Faithful

\* The walk goes on.
LEMMA FaithfulMoves ==
  ASSUME Steady, Faithful, Walking, NEW j, MoveTo(j), ~IsSymlink(w, j),
         Enter(w, Reached(current, Left), Head(pending)) = Reached(j, Left)
  PROVE  Faithful'
<1>1. /\ result = Running /\ pending # <<>> /\ pending \in Seq(Piece)
      /\ wantDir \in BOOLEAN /\ follow \in BOOLEAN
  BY DEF Steady, Walking
<1>2. Answer(w, current, Left, pending, wantDir, follow) = Answer(w, j, Left, Tail(pending), wantDir, follow)
  BY <1>1, AnswerMoves
<1>3. /\ w' = w /\ path' = path /\ follow' = follow /\ expansions' = expansions /\ wantDir' = wantDir
      /\ result' = result /\ current' = j /\ pending' = Tail(pending)
  BY DEF MoveTo, input
<1>4. Expected' = Expected /\ Left' = Left
  BY <1>3 DEF Expected, Left
<1> QED
  BY <1>1, <1>2, <1>3, <1>4 DEF Faithful

\* The walk is lost.
LEMMA FaithfulLost ==
  ASSUME Steady, Faithful, Walking, NEW e \in Errors, Stop(Failed(e)),
         Enter(w, Reached(current, Left), Head(pending)) = Lost(e)
  PROVE  Faithful'
<1>1. /\ result = Running /\ pending # <<>> /\ pending \in Seq(Piece)
      /\ wantDir \in BOOLEAN /\ follow \in BOOLEAN /\ e # "ok"
  BY DEF Steady, Walking, Errors
<1>2. Answer(w, current, Left, pending, wantDir, follow) = Failed(e)
  BY <1>1, AnswerLost
<1>3. Failed(e) # Running
  BY AnswersAreNotRunning
<1> QED
  BY <1>1, <1>2, <1>3, FaithfulStops

\* What the next name is, when it is a name.
LEMMA AtNameFacts ==
  ASSUME Steady, AtName
  PROVE  /\ Walking /\ IsDirectory(w, current)
         /\ Enter(w, Reached(current, Left), Head(pending))
              = IF Named \in DOMAIN w.inodes THEN Reached(Named, Left)
                ELSE Lost(IF NextKey \in DOMAIN w.entries THEN "InvalidData" ELSE "NotFound")
<1>1. Walking /\ IsDirectory(w, current) /\ Head(pending) \notin {".", ".."}
  BY DEF AtName, WalkingIn
<1>2. Enter(w, Reached(current, Left), Head(pending))
        = IF NextKey \notin DOMAIN w.entries THEN Lost("NotFound")
          ELSE IF w.entries[NextKey] \notin DOMAIN w.inodes THEN Lost("InvalidData")
          ELSE Reached(w.entries[NextKey], Left)
  BY <1>1, EnterByName DEF NextKey
<1>3. 0 \notin DOMAIN w.inodes
  BY VolumeFacts DEF Steady
<1>4. Named = IF NextKey \in DOMAIN w.entries THEN w.entries[NextKey] ELSE 0
  BY DEF Named
<1>5. CASE NextKey \in DOMAIN w.entries
  BY <1>1, <1>2, <1>4, <1>5
<1>6. CASE NextKey \notin DOMAIN w.entries
  BY <1>1, <1>2, <1>3, <1>4, <1>6
<1> QED
  BY <1>5, <1>6

\* The resolver is at a link that it is to follow.
LEMMA AtLinkFacts ==
  ASSUME Steady, AtName, IsSymlink(w, Named), ~AtFinalLink
  PROVE  /\ AtLink(w, current, Left, pending, Named)
         /\ wantDir \in BOOLEAN /\ follow \in BOOLEAN
         /\ Tail(pending) # <<>> \/ follow \/ wantDir
         /\ (Len(pending) = 1) = (Tail(pending) = <<>>)
         /\ result = Running
<1>1. /\ Walking /\ IsDirectory(w, current)
      /\ Enter(w, Reached(current, Left), Head(pending)) = Reached(Named, Left)
  BY AtNameFacts DEF IsSymlink
<1>2. Left \in Nat
  <2>1. expansions \in 0 .. MaxExpansions
    BY DEF Steady
  <2> QED
    BY ONLY <2>1, LimitAssumption DEF Left
<1>3. /\ pending \in Seq(Piece) /\ pending # <<>> /\ result = Running
      /\ wantDir \in BOOLEAN /\ follow \in BOOLEAN
  BY <1>1 DEF Steady, Walking
<1>4. Readable(w)
  BY VolumeFacts DEF Steady
<1>5. AtLink(w, current, Left, pending, Named)
  BY <1>1, <1>2, <1>3, <1>4 DEF AtLink, IsDirectory
<1>6. Len(pending) \in Nat /\ Tail(pending) \in Seq(Piece) /\ Len(Tail(pending)) = Len(pending) - 1
  BY <1>3, NameEnds
<1>7. (Len(Tail(pending)) = 0) = (Tail(pending) = <<>>)
  BY <1>6, EmptySeq
<1>8. (Len(pending) = 1) = (Tail(pending) = <<>>)
  BY <1>6, <1>7
<1> QED
  BY <1>3, <1>5, <1>8 DEF AtFinalLink

\* A link that cannot be followed is refused with the error the reference gives.
LEMMA FaithfulRefused ==
  ASSUME Steady, Faithful, LinkRefused
  PROVE  Faithful'
<1>1. AtName /\ IsSymlink(w, Named) /\ ~AtFinalLink
  BY DEF LinkRefused
<1>2. /\ AtLink(w, current, Left, pending, Named) /\ wantDir \in BOOLEAN /\ follow \in BOOLEAN
      /\ Tail(pending) # <<>> \/ follow \/ wantDir
      /\ result = Running
  BY <1>1, AtLinkFacts
<1>3. ASSUME NEW e \in Errors, Stop(Failed(e)), LinkEnd(w, LinkTable(w), Left, current, Named) = Lost(e)
      PROVE  Faithful'
  <2>1. e # "ok"
    BY DEF Errors
  <2>2. Answer(w, current, Left, pending, wantDir, follow) = Failed(e)
    BY <1>2, <1>3, <2>1, AnswerRefused
  <2>3. Failed(e) # Running
    BY AnswersAreNotRunning
  <2> QED
    BY <1>2, <1>3, <2>2, <2>3, FaithfulStops
<1>4. (expansions + 1 > MaxExpansions) = (Left = 0)
  <2>1. expansions \in 0 .. MaxExpansions
    BY DEF Steady
  <2> QED
    BY ONLY <2>1, LimitAssumption DEF Left
<1>5. CASE expansions + 1 > MaxExpansions \/ Named \notin DOMAIN w.targets
  <2>1. Stop(Failed("InvalidData"))
    <3>1. expansions \in 0 .. MaxExpansions
      BY DEF Steady
    <3>2. expansions + 1 > MaxExpansions => ~ (expansions + 1 <= MaxExpansions)
      BY ONLY <3>1, LimitAssumption
    <3> QED
      BY <1>5, <3>2 DEF LinkRefused
  <2>2. LinkEnd(w, LinkTable(w), Left, current, Named) = Lost("InvalidData")
    BY <1>4, <1>5 DEF LinkEnd
  <2>3. "InvalidData" \in Errors
    BY DEF Errors
  <2> QED
    BY <1>3, <2>1, <2>2, <2>3
<1>6. CASE ~ (expansions + 1 > MaxExpansions \/ Named \notin DOMAIN w.targets)
  <2>1. Stop(Failed("InvalidInput")) /\ ~IsWellFormed(w.targets[Named])
    BY <1>6 DEF LinkRefused
  <2>2. LinkEnd(w, LinkTable(w), Left, current, Named) = Lost("InvalidInput")
    BY <1>4, <1>6, <2>1 DEF LinkEnd
  <2>3. "InvalidInput" \in Errors
    BY DEF Errors
  <2> QED
    BY <1>3, <2>1, <2>2, <2>3
<1> QED
  BY <1>5, <1>6

\* Splicing the target in front of the queue does not change what the walk comes to.
LEMMA FaithfulFollows ==
  ASSUME Steady, Faithful, FollowLink
  PROVE  Faithful'
<1> DEFINE target == w.targets[Named]
           from == IF IsAbsolute(target) THEN Root ELSE current
           ns == Components(target) \o Tail(pending)
           dir == wantDir \/ (WantsDirectory(target) /\ Tail(pending) = <<>>)
<1>1. AtName /\ IsSymlink(w, Named) /\ ~AtFinalLink
  BY DEF FollowLink
<1>2. /\ AtLink(w, current, Left, pending, Named) /\ wantDir \in BOOLEAN /\ follow \in BOOLEAN
      /\ Tail(pending) # <<>> \/ follow \/ wantDir
      /\ (Len(pending) = 1) = (Tail(pending) = <<>>)
      /\ result = Running
  BY <1>1, AtLinkFacts
<1>3. /\ expansions + 1 <= MaxExpansions /\ Named \in DOMAIN w.targets /\ IsWellFormed(target)
      /\ Expand(target) /\ w' = w /\ path' = path /\ follow' = follow /\ result' = result
  BY DEF FollowLink, input
<1>4. Left # 0 /\ MaxExpansions - (expansions + 1) = Left - 1
  <2>1. expansions \in 0 .. MaxExpansions
    BY DEF Steady
  <2> QED
    BY ONLY <1>3, <2>1, LimitAssumption DEF Left
<1>5. Answer(w, current, Left, pending, wantDir, follow) = Answer(w, from, Left - 1, ns, dir, follow)
  BY <1>2, <1>3, <1>4, AnswerFollows
<1>6. current' = from /\ pending' = ns /\ wantDir' = dir /\ expansions' = expansions + 1
  BY <1>2, <1>3 DEF Expand
<1>7. Left' = Left - 1
  BY <1>4, <1>6 DEF Left
<1>8. Expected' = Expected
  BY <1>3 DEF Expected
<1> HIDE DEF target, from, ns, dir
<1>9. Expected = Answer(w, from, Left - 1, ns, dir, follow)
  BY <1>2, <1>5 DEF Faithful
<1>10. Answer(w, current, Left, pending, wantDir, follow)' = Answer(w, from, Left - 1, ns, dir, follow)
  BY <1>3, <1>6, <1>7
<1> QED
  BY <1>2, <1>3, <1>8, <1>9, <1>10 DEF Faithful

\* The last checks, when the queue is empty.
LEMMA FaithfulFinishes ==
  ASSUME Steady, Faithful, Finish
  PROVE  Faithful'
<1> DEFINE r == IF current \notin DOMAIN w.inodes THEN Failed("InvalidData")
                ELSE IF wantDir /\ ~IsDirectory(w, current) THEN Failed("InvalidInput")
                ELSE Found(current)
<1>1. result = Running /\ pending = <<>> /\ Stop(r) /\ wantDir \in BOOLEAN /\ follow \in BOOLEAN
  BY DEF Finish, Steady
<1>2. Answer(w, current, Left, <<>>, wantDir, follow) = r
  BY <1>1, AnswerAtEnd
<1>3. r # Running
  BY AnswersAreNotRunning DEF Errors
<1> HIDE DEF r
<1>4. Answer(w, current, Left, pending, wantDir, follow) = r
  BY <1>1, <1>2
<1> QED
  BY <1>1, <1>3, <1>4, FaithfulStops

\* One case for every action.
LEMMA FaithfulNext ==
  ASSUME Steady, Faithful, [LookupNext]_lookupVars
  PROVE  Faithful'
<1>1. CASE NotADirectory
  <2> DEFINE e == NoDirectory(w, current)
  <2>1. Walking /\ ~IsDirectory(w, current) /\ Stop(Failed(e)) /\ e \in Errors
    BY <1>1 DEF NotADirectory, NoDirectory, Errors
  <2>2. Enter(w, Reached(current, Left), Head(pending)) = Lost(e)
    BY <2>1, EnterNoDirectory
  <2> HIDE DEF e
  <2> QED
    BY <2>1, <2>2, FaithfulLost
<1>2. CASE Dot
  <2>1. Walking /\ IsDirectory(w, current) /\ Head(pending) = "." /\ MoveTo(current)
    BY <1>2 DEF Dot, WalkingIn
  <2>2. Enter(w, Reached(current, Left), Head(pending)) = Reached(current, Left) /\ ~IsSymlink(w, current)
    BY <2>1, EnterDots, DirectoryFacts
  <2> QED
    BY <2>1, <2>2, FaithfulMoves
<1>3. CASE DotDot
  <2> DEFINE p == Parent(w, current)
  <2>1. Walking /\ IsDirectory(w, current) /\ Head(pending) = ".."
    BY <1>3 DEF DotDot, WalkingIn
  <2>2. Enter(w, Reached(current, Left), Head(pending))
          = IF p.status = "ok" THEN Reached(p.inode, Left) ELSE Lost("InvalidData")
    BY <2>1, EnterDots
  <2>3. CASE p.status = "ok"
    <3>1. MoveTo(p.inode) /\ ~IsSymlink(w, p.inode)
      BY <1>3, <2>1, <2>3, ParentFacts, DirectoryFacts DEF DotDot
    <3> HIDE DEF p
    <3> QED
      BY <2>1, <2>2, <2>3, <3>1, FaithfulMoves
  <2>4. CASE p.status # "ok"
    <3>1. p = Failed("InvalidData") /\ "InvalidData" \in Errors
      BY <2>1, <2>4, ParentFacts DEF Errors
    <3>2. Stop(Failed("InvalidData"))
      BY <1>3, <2>4, <3>1 DEF DotDot
    <3> QED
      BY <2>1, <2>2, <2>4, <3>1, <3>2, FaithfulLost
  <2> QED
    BY <2>3, <2>4
<1>4. CASE Missing
  <2> DEFINE e == IF NextKey \in DOMAIN w.entries THEN "InvalidData" ELSE "NotFound"
  <2>1. AtName /\ Named \notin DOMAIN w.inodes /\ Stop(Failed(e)) /\ e \in Errors
    BY <1>4 DEF Missing, Errors
  <2>2. Walking /\ Enter(w, Reached(current, Left), Head(pending)) = Lost(e)
    BY <2>1, AtNameFacts
  <2> HIDE DEF e
  <2> QED
    BY <2>1, <2>2, FaithfulLost
<1>5. CASE Descend
  <2>1. AtName /\ Named \in DOMAIN w.inodes /\ ~IsSymlink(w, Named) /\ MoveTo(Named)
    BY <1>5 DEF Descend
  <2>2. Walking /\ Enter(w, Reached(current, Left), Head(pending)) = Reached(Named, Left)
    BY <2>1, AtNameFacts
  <2> QED
    BY <2>1, <2>2, FaithfulMoves
<1>6. CASE FinalLink
  <2>1. AtName /\ Named \in DOMAIN w.inodes /\ AtFinalLink /\ Stop(Found(Named))
    BY <1>6 DEF FinalLink, IsSymlink
  <2>2. Walking /\ Enter(w, Reached(current, Left), Head(pending)) = Reached(Named, Left)
    BY <2>1, AtNameFacts
  <2>3. /\ wantDir = FALSE /\ follow = FALSE /\ pending \in Seq(Piece) /\ pending # <<>>
        /\ Len(pending) = 1 /\ result = Running
    BY <2>1, <2>2 DEF AtFinalLink, Steady, Walking
  <2>4. Tail(pending) = <<>>
    <3>1. Len(Tail(pending)) = 0 /\ Tail(pending) \in Seq(Piece)
      BY <2>3, NameEnds
    <3> QED
      BY <3>1, EmptySeq
  <2>5. Answer(w, current, Left, pending, wantDir, follow) = Found(Named)
    BY <2>1, <2>2, <2>3, <2>4, AnswerFinalLink
  <2>6. Found(Named) # Running
    BY AnswersAreNotRunning
  <2> QED
    BY <2>1, <2>3, <2>5, <2>6, FaithfulStops
<1>7. CASE LinkRefused
  BY <1>7, FaithfulRefused
<1>8. CASE FollowLink
  BY <1>8, FaithfulFollows
<1>9. CASE Finish
  BY <1>9, FaithfulFinishes
<1>10. CASE UNCHANGED lookupVars
  BY <1>10 DEF lookupVars, Faithful, Expected, Left
<1> QED
  BY <1>1, <1>2, <1>3, <1>4, <1>5, <1>6, <1>7, <1>8, <1>9, <1>10 DEF LookupNext

(***************************************************************************)
(* A trailing slash is a last component ".".                               *)
(***************************************************************************)
\* All but the last of a sequence, element by element.
LEMMA FrontElements ==
  ASSUME NEW ns \in Seq(Piece), ns # <<>>
  PROVE  \A k \in 1 .. Len(ns) - 1 : Front(ns)[k] = ns[k]
BY NameEnds DEF Front

\* A sequence with its last element replaced.
LEMMA LastReplaced ==
  ASSUME NEW p \in Seq(Piece), Len(p) > 2, NEW d \in Piece, NEW q, q = Append(Front(p), d)
  PROVE  /\ q \in Seq(Piece) /\ Len(q) = Len(p) /\ q[1] = p[1] /\ q[Len(q)] = d
         /\ Len(Tail(p)) > 1 /\ Tail(p)[Len(Tail(p))] = p[Len(p)]
         /\ Len(Tail(q)) > 1 /\ Tail(q)[Len(Tail(q))] = d
         /\ Tail(q) = Append(Front(Tail(p)), d)
         /\ Front(Tail(p)) \in Seq(Piece)
<1> DEFINE n == Len(p)
           f == Front(p)
           t == Tail(p)
           c == Front(t)
           u == Tail(q)
           a == Append(c, d)
<1>1. n \in Nat /\ n > 2 /\ p # <<>>
  BY LenProperties, EmptySeq
<1>2. f \in Seq(Piece) /\ Len(f) = n - 1 /\ \A k \in 1 .. n - 1 : f[k] = p[k]
  BY <1>1, NameEnds, FrontElements
<1>3. t \in Seq(Piece) /\ Len(t) = n - 1 /\ \A k \in 1 .. Len(t) : t[k] = p[k + 1]
  BY <1>1, HeadTailProperties
<1>4. q = Append(f, d)
  OBVIOUS
<1> HIDE DEF n, f
<1>5. q \in Seq(Piece) /\ q # <<>> /\ Len(q) = Len(f) + 1 /\ q[Len(f) + 1] = d
      /\ \A k \in 1 .. Len(f) : q[k] = f[k]
  BY <1>2, <1>4, AppendProperties
<1>6. Len(q) = n /\ q[n] = d /\ \A k \in 1 .. n - 1 : q[k] = p[k]
  <2>1. Len(f) + 1 = n
    BY ONLY <1>1, <1>2
  <2> QED
    BY <1>2, <1>5, <2>1
<1>7. u \in Seq(Piece) /\ Len(u) = n - 1 /\ \A k \in 1 .. Len(u) : u[k] = q[k + 1]
  BY <1>5, <1>6, HeadTailProperties
<1> HIDE DEF t, u
<1>8. t # <<>>
  <2>1. Len(t) # 0
    BY ONLY <1>1, <1>3
  <2> QED
    BY <1>3, <2>1, EmptySeq
<1>9. c \in Seq(Piece) /\ Len(c) = n - 2 /\ \A k \in 1 .. n - 2 : c[k] = t[k]
  <2>1. Len(t) - 1 = n - 2
    BY ONLY <1>1, <1>3
  <2> QED
    BY <1>3, <1>8, <2>1, NameEnds, FrontElements
<1> HIDE DEF c
<1>10. a \in Seq(Piece) /\ Len(a) = Len(c) + 1 /\ a[Len(c) + 1] = d /\ \A k \in 1 .. Len(c) : a[k] = c[k]
  BY <1>9, AppendProperties
<1> HIDE DEF a
<1>11. Len(a) = n - 1 /\ a[n - 1] = d /\ \A k \in 1 .. n - 2 : a[k] = c[k]
  <2>1. Len(c) + 1 = n - 1
    BY ONLY <1>1, <1>9
  <2> QED
    BY <1>9, <1>10, <2>1
<1>12. u[n - 1] = d /\ t[n - 1] = p[n]
  <2>1. n - 1 \in 1 .. n - 1 /\ n - 1 + 1 = n
    BY ONLY <1>1
  <2> QED
    BY <1>3, <1>6, <1>7, <2>1
<1>13. u = a
  <2>1. ASSUME NEW k \in 1 .. n - 1 PROVE u[k] = a[k]
    <3>1. CASE k = n - 1
      BY <1>11, <1>12, <3>1
    <3>2. CASE k # n - 1
      <4>1. k \in 1 .. n - 2 /\ k + 1 \in 1 .. n - 1
        BY ONLY <1>1, <2>1, <3>2
      <4>2. u[k] = p[k + 1]
        BY <1>6, <1>7, <2>1, <4>1
      <4>3. a[k] = p[k + 1]
        BY <1>3, <1>9, <1>11, <2>1, <4>1
      <4> QED
        BY <4>2, <4>3
    <3> QED
      BY <3>1, <3>2
  <2> QED
    BY <1>7, <1>10, <1>11, <2>1, SeqEqual
<1>14. q[1] = p[1]
  <2>1. 1 \in 1 .. n - 1
    BY ONLY <1>1
  <2> QED
    BY <1>6, <2>1
<1>15. Len(t) > 1 /\ Len(u) > 1
  BY ONLY <1>1, <1>3, <1>7
<1> QED
  BY <1>3, <1>5, <1>6, <1>7, <1>9, <1>12, <1>13, <1>14, <1>15 DEF n, t, u, c, a

\* Paths of two pieces.
LEMMA TwoPieces ==
  ASSUME NEW p \in Seq(Piece), NEW r \in Seq(Piece), Len(p) = 2, Len(r) = 2, p[1] = r[1], p[2] = r[2]
  PROVE  p = r
<1>1. \A k \in 1 .. 2 : k = 1 \/ k = 2
  OBVIOUS
<1>2. \A k \in 1 .. Len(p) : p[k] = r[k]
  BY <1>1
<1> QED
  BY <1>2, SeqEqual

\* The root's path.
LEMMA RootPathPieces ==
  RootPath \in Seq(Piece) /\ Len(RootPath) = 2 /\ RootPath[1] = "" /\ RootPath[2] = ""
<1>1. ASSUME NEW e \in Piece
      PROVE  <<e, e>> \in Seq(Piece) /\ Len(<<e, e>>) = 2 /\ <<e, e>>[1] = e /\ <<e, e>>[2] = e
  OBVIOUS
<1>2. "" \in Piece
  BY PieceAssumption
<1> QED
  BY <1>1, <1>2, Zenon DEF RootPath

\* The components of a path that ends in a slash, and of the path with a dot there.
LEMMA SlashComponents ==
  ASSUME NEW p \in Seq(Piece), NEW q, q = Append(Front(p), "."), WantsDirectory(p), IsAbsolute(p)
  PROVE  /\ IsAbsolute(q) /\ ~WantsDirectory(q)
         /\ Components(p) \in Seq(Piece)
         /\ Components(q) = Append(Components(p), ".")
<1> DEFINE n == Len(p)
           t == Tail(p)
           u == Tail(q)
<1>1. n \in Nat /\ n > 1 /\ p[1] = "" /\ p[n] = "" /\ p # RootPath
  BY LenProperties DEF WantsDirectory, EndsInSlash, IsAbsolute
<1>2. n # 2
  BY <1>1, TwoPieces, RootPathPieces
<1>3. n > 2
  <2>1. n \in Nat /\ n > 1
    BY <1>1
  <2> HIDE DEF n
  <2> QED
    BY ONLY <1>2, <2>1
<1>4. /\ q \in Seq(Piece) /\ Len(q) = n /\ q[1] = p[1] /\ q[Len(q)] = "."
      /\ Len(t) > 1 /\ t[Len(t)] = p[n]
      /\ Len(u) > 1 /\ u[Len(u)] = "."
      /\ u = Append(Front(t), ".") /\ Front(t) \in Seq(Piece)
  <2>1. ASSUME NEW d \in Piece, q = Append(Front(p), d)
        PROVE  /\ q \in Seq(Piece) /\ Len(q) = n /\ q[1] = p[1] /\ q[Len(q)] = d
               /\ Len(t) > 1 /\ t[Len(t)] = p[n]
               /\ Len(u) > 1 /\ u[Len(u)] = d
               /\ u = Append(Front(t), d) /\ Front(t) \in Seq(Piece)
    BY <1>3, <2>1, LastReplaced
  <2>2. "." \in Piece
    BY PieceAssumption
  <2> HIDE DEF n, t, u
  <2> QED
    BY <2>1, <2>2, Zenon
<1> HIDE DEF n, t, u
<1>5. IsAbsolute(q) /\ ~EndsInSlash(q)
  BY <1>1, <1>4 DEF IsAbsolute, EndsInSlash
<1>6. q # RootPath
  <2>1. RootPath[Len(RootPath)] = ""
    BY RootPathPieces
  <2> QED
    BY <1>4, <2>1
<1>7. EndsInSlash(t) /\ ~EndsInSlash(u)
  BY <1>1, <1>4 DEF EndsInSlash
<1>8. Components(p) = Front(t)
  BY <1>1, <1>7 DEF Components, t
<1>9. Components(q) = u
  BY <1>5, <1>6, <1>7 DEF Components, u
<1> QED
  BY <1>4, <1>5, <1>8, <1>9 DEF WantsDirectory

\* To enter "." is to ask for a directory, whether links are followed or not.
LEMMA DotAsksForDirectory ==
  ASSUME NEW v, NEW s, NEW f \in BOOLEAN
  PROVE  LastStep(v, s, ".", f) = AsDirectory(v, TRUE, s)
<1>1. Enter(v, s, ".") = AsDirectory(v, TRUE, s)
  BY DEF Enter, AsDirectory
<1>2. EnterFollowing(v, LinkTable(v), s, ".") = AsDirectory(v, TRUE, s)
  <2> DEFINE t == AsDirectory(v, TRUE, s)
  <2>1. t.status = "ok" => IsDirectory(v, t.inode)
    BY DEF AsDirectory, Lost, NoDirectory
  <2>2. ~ (t.status = "ok" /\ IsSymlink(v, t.inode))
    BY <2>1, DirectoryFacts
  <2>3. EnterFollowing(v, LinkTable(v), s, ".")
          = IF t.status = "ok" /\ IsSymlink(v, t.inode) THEN LinkTable(v)[t.left][s.inode][t.inode] ELSE t
    BY <1>1 DEF EnterFollowing
  <2> HIDE DEF t
  <2> QED
    BY <2>2, <2>3 DEF t
<1> QED
  BY <1>1, <1>2 DEF LastStep

\* One more element, and another one than e.
LEMMA AppendOther ==
  ASSUME NEW e, NEW s \in Seq(Piece), e \notin Range(s), NEW d \in Piece, d # e
  PROVE  e \notin Range(Append(s, d))
<1> DEFINE a == Append(s, d)
           l == Len(s)
<1>1. /\ a \in Seq(Piece) /\ Len(a) = l + 1 /\ l \in Nat /\ DOMAIN s = 1 .. l
      /\ a[l + 1] = d /\ \A k \in 1 .. l : a[k] = s[k]
  BY AppendProperties, LenProperties
<1> HIDE DEF a, l
<1>2. DOMAIN a = 1 .. l + 1
  BY <1>1, LenProperties
<1>3. ASSUME NEW k \in 1 .. l + 1 PROVE a[k] # e
  <2>1. k \in 1 .. l \/ k = l + 1
    BY ONLY <1>1, <1>3
  <2>2. CASE k \in 1 .. l
    BY <1>1, <2>2 DEF Range
  <2>3. CASE k = l + 1
    BY <1>1, <2>3
  <2> QED
    BY <2>1, <2>2, <2>3
<1> QED
  BY <1>2, <1>3 DEF Range, a

\* The first element is not affected by what happens to the last.
LEMMA FirstStays ==
  ASSUME NEW p \in Seq(Piece), Len(p) > 1, NEW d \in Piece
  PROVE  Append(Front(p), d)[1] = p[1]
<1> DEFINE f == Front(p)
<1>1. Len(p) \in Nat /\ 1 \in 1 .. Len(p) - 1 /\ p # <<>>
  BY LenProperties, EmptySeq
<1>2. f \in Seq(Piece) /\ Len(f) = Len(p) - 1 /\ f[1] = p[1]
  BY <1>1, NameEnds, FrontElements
<1> HIDE DEF f
<1>3. \A k \in 1 .. Len(f) : Append(f, d)[k] = f[k]
  BY <1>2, AppendProperties
<1> QED
  BY <1>1, <1>2, <1>3 DEF f

\* A path with a trailing slash names what it names with a dot after the slash.
LEMMA SlashIsDot ==
  ASSUME NEW v, NEW p \in Seq(Piece), NEW f \in BOOLEAN,
         WantsDirectory(p), IsWellFormed(p), IsAbsolute(p)
  PROVE  Lookup(v, p, f) = Lookup(v, Append(Front(p), "."), f)
<1> SUFFICES ASSUME NEW q, q = Append(Front(p), ".") PROVE Lookup(v, p, f) = Lookup(v, q, f)
  OBVIOUS
<1> DEFINE names == Components(p)
           s == Reached(Root, MaxExpansions)
           t == Walk(v, LinkTable(v), s, names)
<1>1. /\ IsAbsolute(q) /\ ~WantsDirectory(q) /\ names \in Seq(Piece)
      /\ Components(q) = Append(names, ".")
  BY SlashComponents
<1>2. IsWellFormed(q)
  <2>1. "" \notin Range(names)
    BY DEF IsWellFormed
  <2>2. "." \in Piece /\ "." # ""
    BY PieceAssumption
  <2> HIDE DEF names
  <2>3. "" \notin Range(Append(names, "."))
    BY <1>1, <2>1, <2>2, AppendOther, Zenon
  <2> QED
    BY <1>1, <2>3 DEF IsWellFormed
<1>3. Lookup(v, p, f) = Outcome(v, AsDirectory(v, TRUE, WalkToEnd(v, s, names, TRUE)))
  <2>1. WantsDirectory(p) = TRUE /\ (f \/ WantsDirectory(p)) = TRUE
    BY DEF WantsDirectory
  <2> HIDE DEF s
  <2> QED
    BY <2>1 DEF Lookup, s
<1>4. Lookup(v, q, f) = Outcome(v, AsDirectory(v, FALSE, WalkToEnd(v, s, Append(names, "."), f)))
  <2>1. WantsDirectory(q) = FALSE /\ (f \/ WantsDirectory(q)) = f
    BY <1>1 DEF WantsDirectory
  <2> HIDE DEF s
  <2> QED
    BY <1>1, <1>2, <2>1 DEF Lookup, s
<1>5. WalkToEnd(v, s, names, TRUE) = t
  BY <1>1, EndFollowed
<1>6. WalkToEnd(v, s, Append(names, "."), f) = LastStep(v, t, ".", f)
  BY <1>1, PieceAssumption, EndAppend
<1>7. LastStep(v, t, ".", f) = AsDirectory(v, TRUE, t)
  BY DotAsksForDirectory
<1>8. \A x : AsDirectory(v, FALSE, x) = x
  BY DEF AsDirectory
<1> HIDE DEF s, t, names
<1> QED
  BY <1>3, <1>4, <1>5, <1>6, <1>7, <1>8

\* Without a slash in front there is nothing to look up, with the dot or without.
LEMMA RelativeIsRefused ==
  ASSUME NEW v, NEW p \in Seq(Piece), NEW f, WantsDirectory(p), ~IsAbsolute(p)
  PROVE  Lookup(v, p, f) = Lookup(v, Append(Front(p), "."), f)
<1> SUFFICES ASSUME NEW q, q = Append(Front(p), ".") PROVE Lookup(v, p, f) = Lookup(v, q, f)
  OBVIOUS
<1>1. Len(p) \in Nat /\ Len(p) > 1 /\ p[1] # ""
  BY LenProperties DEF WantsDirectory, EndsInSlash, IsAbsolute
<1>2. ASSUME NEW d \in Piece PROVE Append(Front(p), d)[1] = p[1]
  BY <1>1, FirstStays
<1>3. q[1] # ""
  BY <1>1, <1>2, PieceAssumption, Zenon
<1>4. ~IsAbsolute(q)
  BY <1>3 DEF IsAbsolute
<1> QED
  BY <1>4 DEF Lookup

(***************************************************************************)
(* The theorems about the resolver.                                        *)
(***************************************************************************)
\* LookupSpec keeps the walk within its bounds and true to the path.
THEOREM ResolverInvariant == LookupSpec => [](Steady /\ Answered /\ Faithful)
<1>1. LookupInit => Steady /\ Answered /\ Faithful
  BY SteadyInit, FaithfulInit
<1>2. Steady /\ Answered /\ Faithful /\ [LookupNext]_lookupVars => (Steady /\ Answered /\ Faithful)'
  BY SteadyNext, FaithfulNext
<1> QED
  BY <1>1, <1>2, PTL DEF LookupSpec

\* resolve_path returns what the path names, or the error that comes first,
\* in every volume and for every limit on expansions.
THEOREM ReturnsWhatIsNamedHolds == LookupSpec => []ReturnsWhatIsNamed
<1>1. Steady /\ Answered /\ Faithful => ReturnsWhatIsNamed
  <2> SUFFICES ASSUME Steady, Answered, Faithful PROVE ReturnsWhatIsNamed
    OBVIOUS
  <2>1. result = Running => result.status = "running" /\ result.inode = 0
    BY DEF Running
  <2>2. \A e \in Errors : Failed(e).status = e /\ Failed(e).inode = 0
    BY DEF Failed
  <2>3. \A i : Found(i).status = "ok" /\ Found(i).inode = i
    BY DEF Found
  <2>4. /\ result.status \in {"running", "ok", "NotFound", "InvalidInput", "InvalidData"}
        /\ (result.status = "ok") = (result.inode # 0)
    BY <2>1, <2>2, <2>3 DEF Answered, Errors
  <2>5. WalkTypeOK
    BY <2>4 DEF WalkTypeOK, Steady
  <2>6. Done => result = Expected
    BY DEF Done, Faithful
  <2> QED
    BY <2>5, <2>6 DEF ReturnsWhatIsNamed, Expected
<1> QED
  BY <1>1, ResolverInvariant, PTL

\* A trailing slash means a dot after it, through every chain of links.
THEOREM TrailingSlashIsDotHolds == LookupSpec => []TrailingSlashIsDot
<1>1. Steady /\ Answered /\ Faithful => TrailingSlashIsDot
  <2> SUFFICES ASSUME Steady, Faithful, Done, WantsDirectory(path), IsWellFormed(path)
               PROVE  result = Lookup(w, Append(Front(path), "."), follow)
    BY DEF TrailingSlashIsDot
  <2>1. result = Lookup(w, path, follow)
    BY DEF Done, Faithful, Expected
  <2>2. path \in Seq(Piece) /\ follow \in BOOLEAN
    BY PathAssumption DEF Steady
  <2>3. Lookup(w, path, follow) = Lookup(w, Append(Front(path), "."), follow)
    <3>1. CASE IsAbsolute(path)
      BY <2>2, <3>1, SlashIsDot
    <3>2. CASE ~IsAbsolute(path)
      BY <2>2, <3>2, RelativeIsRefused
    <3> QED
      BY <3>1, <3>2
  <2> QED
    BY <2>1, <2>3
<1> QED
  BY <1>1, ResolverInvariant, PTL

(***************************************************************************)
(* Lookups in a volume and in a part of it: what is found in the part is   *)
(* found in the whole, and what is found in the whole alone is missing in  *)
(* the part for no other reason than that a name is not there.             *)
(***************************************************************************)
\* v is u without some entries, and without the inodes that these leave unnamed.
PartOf(v, u) ==
  /\ Readable(v) /\ Readable(u)
  /\ Root \in Dirs(v.inodes)
  /\ \A i \in DOMAIN v.inodes : i \in DOMAIN u.inodes /\ u.inodes[i] = v.inodes[i]
  /\ \A e \in DOMAIN v.entries : /\ e \in DOMAIN u.entries /\ u.entries[e] = v.entries[e]
                                 /\ e[1] \in Dirs(v.inodes) /\ v.entries[e] \in DOMAIN v.inodes
  /\ \A d \in Dirs(v.inodes) : Refs(u.entries, d) = Refs(v.entries, d)
  /\ \A i \in DOMAIN v.inodes :
        IsSymlink(v, i) => /\ i \in DOMAIN v.targets /\ i \in DOMAIN u.targets
                           /\ u.targets[i] = v.targets[i]

\* A walk in v has come to a and the same walk in u to b, with at most n
\* expansions left.
Fits(v, n, a, b) ==
  IF a.status = "ok" THEN a = b /\ a.inode \in DOMAIN v.inodes /\ a.left \in 0 .. n
  ELSE b.status = "ok" => a = Lost("NotFound")

\* What f says of links in v fits what g says of them in u.
LinksFit(v, f, g, n) ==
  \A m \in 0 .. n : \A dir \in Dirs(v.inodes), link \in DOMAIN v.inodes :
     IsSymlink(v, link) => Fits(v, m, f[m][dir][link], g[m][dir][link])

\* The part knows its inodes as the whole does.
LEMMA PartKinds ==
  ASSUME NEW v, NEW u, PartOf(v, u), NEW i \in DOMAIN v.inodes
  PROVE  /\ IsDirectory(v, i) = IsDirectory(u, i)
         /\ IsSymlink(v, i) = IsSymlink(u, i)
         /\ NoDirectory(v, i) = NoDirectory(u, i)
<1>1. i \in DOMAIN u.inodes /\ u.inodes[i] = v.inodes[i]
  BY DEF PartOf
<1>2. IsDirectory(v, i) = IsDirectory(u, i)
  BY <1>1 DEF IsDirectory, Dirs
<1>3. IsSymlink(v, i) = IsSymlink(u, i)
  BY <1>1 DEF IsSymlink
<1>4. NoDirectory(v, i) = NoDirectory(u, i)
  BY <1>1 DEF NoDirectory
<1> QED
  BY <1>2, <1>3, <1>4

\* A directory of the part has the same parent in the whole, and it is in the part.
LEMMA PartParent ==
  ASSUME NEW v, NEW u, PartOf(v, u), NEW d \in Dirs(v.inodes)
  PROVE  /\ Parent(v, d) = Parent(u, d)
         /\ Parent(v, d).status = "ok" => Parent(v, d).inode \in DOMAIN v.inodes
<1>1. Refs(u.entries, d) = Refs(v.entries, d)
  BY DEF PartOf
<1>2. \A e \in Refs(v.entries, d) : e[1] \in Dirs(v.inodes)
  BY DEF PartOf, Refs
<1>3. \A i \in Dirs(v.inodes) : i \in DOMAIN v.inodes /\ IsDirectory(v, i) /\ IsDirectory(u, i)
  BY PartKinds DEF IsDirectory, Dirs
<1>4. Parent(v, d) = Parent(u, d)
  BY <1>1, <1>2, <1>3 DEF Parent
<1>5. IsDirectory(v, d)
  BY DEF IsDirectory
<1>6. Parent(v, d).status = "ok" => IsDirectory(v, Parent(v, d).inode)
  BY <1>5, ParentFacts
<1> QED
  BY <1>4, <1>6, DirectoryFacts

\* One name is entered.
LEMMA EnterFits ==
  ASSUME NEW v, NEW u, PartOf(v, u), NEW n, NEW a, NEW b, Fits(v, n, a, b), NEW name
  PROVE  Fits(v, n, Enter(v, a, name), Enter(u, b, name))
<1>1. CASE a.status # "ok"
  <2>1. Enter(v, a, name) = a
    BY <1>1, LostStays
  <2>2. Enter(u, b, name).status = "ok" => b.status = "ok"
    BY EnterWithin
  <2> QED
    BY <1>1, <2>1, <2>2 DEF Fits
<1>2. CASE a.status = "ok"
  <2> DEFINE i == a.inode
             k == <<i, name>>
  <2>1. a = b /\ i \in DOMAIN v.inodes /\ a.left \in 0 .. n
    BY <1>2 DEF Fits
  <2>2. IsDirectory(v, i) = IsDirectory(u, i) /\ NoDirectory(v, i) = NoDirectory(u, i)
    BY <2>1, PartKinds
  <2>l. \A e : Lost(e).status = e
    BY DEF Lost
  <2>r. \A j, m : Reached(j, m).status = "ok" /\ Reached(j, m).inode = j /\ Reached(j, m).left = m
    BY DEF Reached
  <2>3. CASE ~IsDirectory(v, i)
    <3>1. Enter(v, a, name) = Lost(NoDirectory(v, i)) /\ Enter(u, a, name) = Lost(NoDirectory(v, i))
      BY <1>2, <2>2, <2>3 DEF Enter
    <3>2. NoDirectory(v, i) # "ok"
      BY DEF NoDirectory
    <3> QED
      BY <2>1, <2>l, <3>1, <3>2 DEF Fits
  <2>4. CASE IsDirectory(v, i) /\ name = "."
    <3>1. Enter(v, a, name) = a /\ Enter(u, a, name) = a
      BY <1>2, <2>2, <2>4 DEF Enter
    <3> QED
      BY <2>1, <3>1
  <2>5. CASE IsDirectory(v, i) /\ name = ".."
    <3> DEFINE p == Parent(v, i)
    <3>1. p = Parent(u, i) /\ (p.status = "ok" => p.inode \in DOMAIN v.inodes)
      <4>1. i \in Dirs(v.inodes)
        BY <2>5 DEF IsDirectory
      <4> QED
        BY <4>1, PartParent
    <3> HIDE DEF p
    <3>2. name # "."
      BY <2>5
    <3>3. Enter(v, a, name) = IF p.status = "ok" THEN Reached(p.inode, a.left) ELSE Lost("InvalidData")
      BY <1>2, <2>5, <3>2 DEF Enter, p
    <3>4. Enter(u, a, name) = IF p.status = "ok" THEN Reached(p.inode, a.left) ELSE Lost("InvalidData")
      BY <1>2, <2>2, <2>5, <3>1, <3>2 DEF Enter
    <3>5. CASE p.status = "ok"
      BY <2>1, <2>r, <3>1, <3>3, <3>4, <3>5 DEF Fits
    <3>6. CASE p.status # "ok"
      BY <2>1, <2>l, <3>3, <3>4, <3>6 DEF Fits
    <3> QED
      BY <3>5, <3>6
  <2>6. CASE IsDirectory(v, i) /\ name \notin {".", ".."} /\ k \in DOMAIN v.entries
    <3>1. k \in DOMAIN u.entries /\ u.entries[k] = v.entries[k] /\ v.entries[k] \in DOMAIN v.inodes
      BY <2>6 DEF PartOf
    <3>2. v.entries[k] \in DOMAIN u.inodes
      BY <3>1 DEF PartOf
    <3>3. Enter(v, a, name) = Reached(v.entries[k], a.left)
      BY <1>2, <2>6, <3>1 DEF Enter
    <3>4. Enter(u, a, name) = Reached(v.entries[k], a.left)
      BY <1>2, <2>2, <2>6, <3>1, <3>2 DEF Enter
    <3> QED
      BY <2>1, <2>r, <3>1, <3>3, <3>4 DEF Fits
  <2>7. CASE IsDirectory(v, i) /\ name \notin {".", ".."} /\ k \notin DOMAIN v.entries
    <3>1. Enter(v, a, name) = Lost("NotFound")
      BY <1>2, <2>7 DEF Enter
    <3> QED
      BY <2>l, <3>1 DEF Fits
  <2> QED
    BY <2>3, <2>4, <2>5, <2>6, <2>7
<1> QED
  BY <1>1, <1>2

\* One name is entered and a link there followed.
LEMMA FollowingFits ==
  ASSUME NEW v, NEW u, PartOf(v, u), NEW n \in Nat, NEW f, NEW g, LinksFit(v, f, g, n),
         NEW a, NEW b, Fits(v, n, a, b), NEW name
  PROVE  Fits(v, n, EnterFollowing(v, f, a, name), EnterFollowing(u, g, b, name))
<1> DEFINE c == Enter(v, a, name)
           d == Enter(u, b, name)
           x == EnterFollowing(v, f, a, name)
           y == EnterFollowing(u, g, b, name)
<1>1. Fits(v, n, c, d)
  BY EnterFits
<1>2. c.status = "ok" => a.status = "ok" /\ a.inode \in Dirs(v.inodes)
  BY EnterWithin
<1>3. x = IF c.status = "ok" /\ IsSymlink(v, c.inode) THEN f[c.left][a.inode][c.inode] ELSE c
  BY DEF EnterFollowing
<1>4. y = IF d.status = "ok" /\ IsSymlink(u, d.inode) THEN g[d.left][b.inode][d.inode] ELSE d
  BY DEF EnterFollowing
<1> HIDE DEF c, d, x, y
<1>5. CASE c.status # "ok"
  <2>1. x = c
    BY <1>3, <1>5
  <2>2. d.status # "ok" => y = d
    BY <1>4
  <2>3. y.status = "ok" => c = Lost("NotFound")
    BY <1>1, <1>5, <2>2 DEF Fits
  <2> QED
    BY <1>5, <2>1, <2>3 DEF Fits, x, y
<1>6. CASE c.status = "ok"
  <2>1. c = d /\ c.inode \in DOMAIN v.inodes /\ c.left \in 0 .. n /\ a = b
    BY <1>1, <1>2, <1>6 DEF Fits
  <2>2. IsSymlink(v, c.inode) = IsSymlink(u, c.inode)
    BY <2>1, PartKinds
  <2>3. CASE ~IsSymlink(v, c.inode)
    BY <1>1, <1>3, <1>4, <2>1, <2>2, <2>3 DEF x, y
  <2>4. CASE IsSymlink(v, c.inode)
    <3> DEFINE m == c.left
               r == f[m][a.inode][c.inode]
               s == g[m][a.inode][c.inode]
    <3>1. x = r /\ y = s
      BY <1>3, <1>4, <1>6, <2>1, <2>2, <2>4
    <3>2. Fits(v, m, r, s)
      BY <1>2, <1>6, <2>1, <2>4 DEF LinksFit
    <3>3. m \in 0 .. n
      BY <2>1
    <3> HIDE DEF m, r, s
    <3>4. r.left \in 0 .. m => r.left \in 0 .. n
      BY ONLY <3>3, n \in Nat
    <3>5. Fits(v, n, r, s)
      BY <3>2, <3>4 DEF Fits
    <3> QED
      BY <3>1, <3>5 DEF x, y
  <2> QED
    BY <2>3, <2>4
<1> QED
  BY <1>5, <1>6

\* A walk.
LEMMA WalkFits ==
  ASSUME NEW v, NEW u, PartOf(v, u), NEW n \in Nat, NEW f, NEW g, LinksFit(v, f, g, n),
         NEW a, NEW b, Fits(v, n, a, b), NEW ns \in Seq(Piece)
  PROVE  Fits(v, n, Walk(v, f, a, ns), Walk(u, g, b, ns))
<1> DEFINE A(k) == WalkAt(v, f, a, ns, k)
           B(k) == WalkAt(u, g, b, ns, k)
           P == {k \in Nat : Fits(v, n, A(k), B(k))}
<1>1. A(0) = a /\ B(0) = b
  BY WalkTurn
<1>2. \A k \in Nat : A(k + 1) = EnterFollowing(v, f, A(k), ns[k + 1])
  BY WalkTurn
<1>3. \A k \in Nat : B(k + 1) = EnterFollowing(u, g, B(k), ns[k + 1])
  BY WalkTurn
<1>4. Walk(v, f, a, ns) = A(Len(ns)) /\ Walk(u, g, b, ns) = B(Len(ns)) /\ Len(ns) \in Nat
  BY WalkWhole, LenProperties
<1> HIDE DEF A, B
<1>5. 0 \in P
  BY <1>1
<1>6. ASSUME NEW k \in P PROVE k + 1 \in P
  <2>1. k \in Nat /\ Fits(v, n, A(k), B(k))
    OBVIOUS
  <2>2. Fits(v, n, EnterFollowing(v, f, A(k), ns[k + 1]), EnterFollowing(u, g, B(k), ns[k + 1]))
    BY <2>1, FollowingFits
  <2> QED
    BY <1>2, <1>3, <2>1, <2>2
<1>7. P \in SUBSET Nat
  OBVIOUS
<1>8. Len(ns) \in P
  <2> HIDE DEF P
  <2> QED
    BY <1>4, <1>5, <1>6, <1>7, Inductive
<1> QED
  BY <1>4, <1>8

\* A directory is asked for, or not.
LEMMA AsDirectoryFits ==
  ASSUME NEW v, NEW u, PartOf(v, u), NEW n, NEW a, NEW b, Fits(v, n, a, b), NEW wanted \in BOOLEAN
  PROVE  Fits(v, n, AsDirectory(v, wanted, a), AsDirectory(u, wanted, b))
<1>1. CASE a.status # "ok"
  <2>1. AsDirectory(v, wanted, a) = a
    BY <1>1 DEF AsDirectory
  <2>2. b.status # "ok" => AsDirectory(u, wanted, b) = b
    BY DEF AsDirectory
  <2> QED
    BY <1>1, <2>1, <2>2 DEF Fits
<1>2. CASE a.status = "ok"
  <2>1. a = b /\ a.inode \in DOMAIN v.inodes
    BY <1>2 DEF Fits
  <2>2. IsDirectory(v, a.inode) = IsDirectory(u, a.inode) /\ NoDirectory(v, a.inode) = NoDirectory(u, a.inode)
    BY <2>1, PartKinds
  <2>3. NoDirectory(v, a.inode) # "ok" /\ \A e : Lost(e).status = e
    BY DEF NoDirectory, Lost
  <2>4. CASE wanted /\ ~IsDirectory(v, a.inode)
    <3>1. /\ AsDirectory(u, wanted, b) = Lost(NoDirectory(v, a.inode))
          /\ AsDirectory(v, wanted, a) = Lost(NoDirectory(v, a.inode))
      BY <1>2, <2>1, <2>2, <2>4 DEF AsDirectory
    <3> QED
      BY <2>3, <3>1 DEF Fits
  <2>5. CASE ~(wanted /\ ~IsDirectory(v, a.inode))
    <3>1. AsDirectory(u, wanted, b) = a /\ AsDirectory(v, wanted, a) = a
      BY <1>2, <2>1, <2>2, <2>5 DEF AsDirectory
    <3> QED
      BY <2>1, <3>1
  <2> QED
    BY <2>4, <2>5
<1> QED
  BY <1>1, <1>2

\* A link, given what is said of links with fewer expansions left.
LEMMA LinkEndFits ==
  ASSUME NEW v, NEW u, PartOf(v, u), NEW n \in Nat, NEW f, NEW g, LinksFit(v, f, g, n - 1),
         NEW dir \in Dirs(v.inodes), NEW link \in DOMAIN v.inodes, IsSymlink(v, link)
  PROVE  Fits(v, n, LinkEnd(v, f, n, dir, link), LinkEnd(u, g, n, dir, link))
<1> DEFINE t == v.targets[link]
           s == Reached(IF IsAbsolute(t) THEN Root ELSE dir, n - 1)
           a == Walk(v, f, s, Components(t))
           b == Walk(u, g, s, Components(t))
<1>1. link \in DOMAIN v.targets /\ link \in DOMAIN u.targets /\ u.targets[link] = t /\ t \in Seq(Piece)
  BY DEF PartOf, Readable
<1>2. CASE n = 0 \/ ~IsWellFormed(t)
  <2>1. \E e : e # "ok" /\ LinkEnd(v, f, n, dir, link) = Lost(e) /\ LinkEnd(u, g, n, dir, link) = Lost(e)
    BY <1>1, <1>2 DEF LinkEnd
  <2>2. \A e : Lost(e).status = e
    BY DEF Lost
  <2> QED
    BY <2>1, <2>2 DEF Fits
<1>3. CASE n # 0 /\ IsWellFormed(t)
  <2>1. n - 1 \in Nat /\ n - 1 \in 0 .. n - 1
    BY <1>3
  <2>2. Fits(v, n - 1, s, s)
    <3>1. s.status = "ok" /\ s.left = n - 1 /\ s.inode \in {Root, dir}
      BY DEF Reached
    <3>2. Root \in DOMAIN v.inodes /\ dir \in DOMAIN v.inodes
      BY DEF PartOf, Dirs
    <3> HIDE DEF s
    <3>3. s.inode \in DOMAIN v.inodes /\ s.left \in 0 .. n - 1
      BY <2>1, <3>1, <3>2
    <3> QED
      BY <3>1, <3>3 DEF Fits
  <2>3. Components(t) \in Seq(Piece)
    BY <1>1, ComponentsArePieces
  <2>4. LinkEnd(v, f, n, dir, link) = AsDirectory(v, WantsDirectory(t), a)
    BY <1>1, <1>3 DEF LinkEnd
  <2>5. LinkEnd(u, g, n, dir, link) = AsDirectory(u, WantsDirectory(t), b)
    BY <1>1, <1>3 DEF LinkEnd
  <2>6. WantsDirectory(t) \in BOOLEAN
    BY DEF WantsDirectory, EndsInSlash
  <2> DEFINE c == Components(t)
             d == WantsDirectory(t)
             m == n - 1
  <2> HIDE DEF s, t, c, d, m
  <2>7. Fits(v, m, a, b)
    BY <2>1, <2>2, <2>3, WalkFits DEF c, m
  <2> HIDE DEF a, b
  <2>8. Fits(v, m, AsDirectory(v, d, a), AsDirectory(u, d, b))
    BY <2>6, <2>7, AsDirectoryFits DEF d
  <2>9. \A k : k \in 0 .. m => k \in 0 .. n
    BY <2>1 DEF m
  <2>10. \A x, y : Fits(v, m, x, y) => Fits(v, n, x, y)
    BY <2>9 DEF Fits
  <2> QED
    BY <2>4, <2>5, <2>8, <2>10 DEF d
<1> QED
  BY <1>2, <1>3

\* What links name in the part fits what they name in the whole.
LEMMA TablesFit ==
  ASSUME NEW v, NEW u, PartOf(v, u)
  PROVE  \A n \in Nat : LinksFit(v, LinkTable(v), LinkTable(u), n - 1)
<1> DEFINE f == LinkTable(v)
           g == LinkTable(u)
           P == {n \in Nat : LinksFit(v, f, g, n - 1)}
<1>1. 0 \in P
  BY DEF LinksFit
<1>2. ASSUME NEW n \in P PROVE n + 1 \in P
  <2>1. n \in Nat /\ LinksFit(v, f, g, n - 1)
    OBVIOUS
  <2>2. ASSUME NEW dir \in Dirs(v.inodes), NEW link \in DOMAIN v.inodes, IsSymlink(v, link)
        PROVE  Fits(v, n, f[n][dir][link], g[n][dir][link])
    <3>1. link \in DOMAIN u.inodes /\ dir \in Dirs(u.inodes) /\ Readable(v) /\ Readable(u)
      BY DEF PartOf, Dirs
    <3>2. f[n][dir][link] = LinkEnd(v, f, n, dir, link)
      BY <2>1, <3>1, LinksValue
    <3>3. g[n][dir][link] = LinkEnd(u, g, n, dir, link)
      BY <2>1, <3>1, LinksValue
    <3> HIDE DEF f, g, P
    <3> QED
      BY <2>1, <2>2, <3>2, <3>3, LinkEndFits
  <2>3. 0 .. n = 0 .. n - 1 \cup {n} /\ (n + 1) - 1 = n /\ n + 1 \in Nat
    BY <2>1
  <2> HIDE DEF f, g
  <2>4. LinksFit(v, f, g, n)
    BY <2>1, <2>2, <2>3 DEF LinksFit
  <2> QED
    BY <2>3, <2>4
<1>3. P \in SUBSET Nat
  OBVIOUS
<1> HIDE DEF P, f, g
<1>4. \A n \in Nat : n \in P
  BY <1>1, <1>2, <1>3, Inductive
<1> QED
  BY <1>4 DEF P, f, g

\* A walk from the root, with every link followed.
LEMMA RootWalkFits ==
  ASSUME NEW v, NEW u, PartOf(v, u), NEW ns \in Seq(Piece)
  PROVE  Fits(v, MaxExpansions, Walk(v, LinkTable(v), Reached(Root, MaxExpansions), ns),
                                Walk(u, LinkTable(u), Reached(Root, MaxExpansions), ns))
<1> DEFINE m == MaxExpansions
           s == Reached(Root, m)
<1>1. m \in Nat /\ m + 1 \in Nat /\ (m + 1) - 1 = m /\ m \in 0 .. m
  BY LimitAssumption
<1>2. LinksFit(v, LinkTable(v), LinkTable(u), m)
  BY <1>1, TablesFit
<1>3. Root \in DOMAIN v.inodes
  BY DEF PartOf, Dirs
<1>4. s.status = "ok" /\ s.inode = Root /\ s.left = m
  BY DEF Reached
<1> HIDE DEF s
<1>5. Fits(v, m, s, s)
  BY <1>1, <1>3, <1>4 DEF Fits
<1> HIDE DEF m
<1>6. Fits(v, m, Walk(v, LinkTable(v), s, ns), Walk(u, LinkTable(u), s, ns))
  BY <1>1, <1>2, <1>5, WalkFits
<1> QED
  BY <1>6 DEF m, s

\* A walk from the root to the end of a path.
LEMMA EndFits ==
  ASSUME NEW v, NEW u, PartOf(v, u), NEW ns \in Seq(Piece), NEW f \in BOOLEAN
  PROVE  Fits(v, MaxExpansions, WalkToEnd(v, Reached(Root, MaxExpansions), ns, f),
                                WalkToEnd(u, Reached(Root, MaxExpansions), ns, f))
<1> DEFINE m == MaxExpansions
           s == Reached(Root, m)
<1>1. CASE f \/ ns = <<>>
  <2>1. /\ WalkToEnd(v, s, ns, f) = Walk(v, LinkTable(v), s, ns)
        /\ WalkToEnd(u, s, ns, f) = Walk(u, LinkTable(u), s, ns)
    <3>1. CASE f
      <4>1. f = TRUE
        BY <3>1
      <4> QED
        BY <4>1, EndFollowed
    <3>2. CASE ns = <<>>
      BY <3>2, EndNothing, WalkNothing
    <3> QED
      BY <1>1, <3>1, <3>2
  <2> QED
    BY <2>1, RootWalkFits
<1>2. CASE ~f /\ ns # <<>>
  <2> DEFINE a == Walk(v, LinkTable(v), s, Front(ns))
             b == Walk(u, LinkTable(u), s, Front(ns))
  <2>1. WalkToEnd(v, s, ns, f) = Enter(v, a, Last(ns)) /\ WalkToEnd(u, s, ns, f) = Enter(u, b, Last(ns))
    BY <1>2 DEF WalkToEnd
  <2>2. Fits(v, m, a, b)
    BY <1>2, NameEnds, RootWalkFits
  <2> HIDE DEF a, b, s, m
  <2>3. Fits(v, m, Enter(v, a, Last(ns)), Enter(u, b, Last(ns)))
    BY <2>2, EnterFits
  <2> QED
    BY <2>1, <2>3 DEF s, m
<1> QED
  BY <1>1, <1>2

\* A lookup in the part and in the whole.
LEMMA LookupFits ==
  ASSUME NEW v, NEW u, PartOf(v, u), NEW p \in Seq(Piece), NEW f \in BOOLEAN
  PROVE  /\ Lookup(v, p, f).status = "ok" => Lookup(u, p, f) = Lookup(v, p, f)
         /\ Lookup(u, p, f).status = "ok" /\ Lookup(v, p, f).status # "ok" =>
              Lookup(v, p, f) = Failed("NotFound")
<1> DEFINE d == WantsDirectory(p)
           ns == Components(p)
           s == Reached(Root, MaxExpansions)
           a == AsDirectory(v, d, WalkToEnd(v, s, ns, f \/ d))
           b == AsDirectory(u, d, WalkToEnd(u, s, ns, f \/ d))
<1>1. CASE ~ (IsAbsolute(p) /\ IsWellFormed(p))
  BY <1>1 DEF Lookup
<1>2. CASE IsAbsolute(p) /\ IsWellFormed(p)
  <2>1. Lookup(v, p, f) = Outcome(v, a) /\ Lookup(u, p, f) = Outcome(u, b)
    BY <1>2 DEF Lookup
  <2>2. ns \in Seq(Piece) /\ d \in BOOLEAN
    BY ComponentsArePieces DEF WantsDirectory, EndsInSlash
  <2> DEFINE h == f \/ d
  <2>3. h \in BOOLEAN
    BY <2>2
  <2> HIDE DEF d, ns, h
  <2>4. Fits(v, MaxExpansions, WalkToEnd(v, s, ns, h), WalkToEnd(u, s, ns, h))
    BY <2>2, <2>3, EndFits
  <2> HIDE DEF s
  <2>5. Fits(v, MaxExpansions, AsDirectory(v, d, WalkToEnd(v, s, ns, h)),
             AsDirectory(u, d, WalkToEnd(u, s, ns, h)))
    BY <2>2, <2>4, AsDirectoryFits
  <2>6. Fits(v, MaxExpansions, a, b)
    BY <2>5 DEF h
  <2> HIDE DEF a, b
  <2>7. CASE a.status = "ok"
    <3>1. a = b /\ a.inode \in DOMAIN v.inodes /\ a.inode \in DOMAIN u.inodes
      BY <2>6, <2>7 DEF Fits, PartOf
    <3>2. Outcome(v, a) = Found(a.inode) /\ Outcome(u, b) = Found(a.inode)
      BY <2>7, <3>1 DEF Outcome
    <3>3. Found(a.inode).status = "ok"
      BY DEF Found
    <3> QED
      BY <2>1, <3>2, <3>3
  <2>8. CASE a.status # "ok"
    <3>1. Outcome(v, a) = Failed(a.status)
      BY <2>8 DEF Outcome
    <3>2. Outcome(v, a).status # "ok"
      BY <2>8, <3>1 DEF Failed
    <3>3. Outcome(u, b).status = "ok" => b.status = "ok"
      BY DEF Outcome, Failed
    <3>4. b.status = "ok" => Outcome(v, a) = Failed("NotFound")
      <4>1. Lost("NotFound").status = "NotFound"
        BY DEF Lost
      <4> QED
        BY <2>6, <2>8, <3>1, <4>1 DEF Fits
    <3> QED
      BY <2>1, <3>2, <3>3, <3>4
  <2> QED
    BY <2>7, <2>8
<1> QED
  BY <1>1, <1>2

(***************************************************************************)
(* From a path to its parent's path and its last component.                *)
(***************************************************************************)
\* The first and the last element go in either order.
LEMMA TailOfFront ==
  ASSUME NEW p \in Seq(Piece), Len(p) > 2
  PROVE  /\ Front(p) \in Seq(Piece) /\ Len(Front(p)) = Len(p) - 1 /\ Front(p)[1] = p[1]
         /\ Front(p)[Len(p) - 1] = p[Len(p) - 1]
         /\ Tail(p) \in Seq(Piece) /\ Len(Tail(p)) = Len(p) - 1 /\ Tail(p)[Len(p) - 1] = p[Len(p)]
         /\ Tail(Front(p)) \in Seq(Piece) /\ Len(Tail(Front(p))) = Len(p) - 2
         /\ Tail(Front(p))[Len(p) - 2] = p[Len(p) - 1]
         /\ Tail(Front(p)) = Front(Tail(p))
<1> DEFINE n == Len(p)
           f == Front(p)
           t == Tail(p)
           c == Front(t)
           u == Tail(f)
<1>1. n \in Nat /\ n > 2 /\ p # <<>>
  BY LenProperties, EmptySeq
<1>2. f \in Seq(Piece) /\ Len(f) = n - 1 /\ \A k \in 1 .. n - 1 : f[k] = p[k]
  BY <1>1, NameEnds, FrontElements
<1>3. t \in Seq(Piece) /\ Len(t) = n - 1 /\ \A k \in 1 .. Len(t) : t[k] = p[k + 1]
  BY <1>1, HeadTailProperties
<1> HIDE DEF n, f, t
<1>4. f # <<>> /\ t # <<>>
  <2>1. Len(f) # 0 /\ Len(t) # 0
    BY ONLY <1>1, <1>2, <1>3
  <2> QED
    BY <1>2, <1>3, <2>1, EmptySeq
<1>5. u \in Seq(Piece) /\ Len(u) = Len(f) - 1 /\ \A k \in 1 .. Len(u) : u[k] = f[k + 1]
  BY <1>2, <1>4, HeadTailProperties
<1>6. c \in Seq(Piece) /\ Len(c) = Len(t) - 1 /\ \A k \in 1 .. Len(t) - 1 : c[k] = t[k]
  BY <1>3, <1>4, NameEnds, FrontElements
<1> HIDE DEF u, c
<1>7. Len(u) = n - 2 /\ Len(c) = n - 2 /\ Len(t) - 1 = n - 2
  BY ONLY <1>1, <1>2, <1>3, <1>5, <1>6
<1>8. ASSUME NEW k \in 1 .. n - 2 PROVE u[k] = p[k + 1] /\ c[k] = p[k + 1]
  <2>1. k + 1 \in 1 .. n - 1 /\ k \in 1 .. n - 1
    BY ONLY <1>1, <1>8
  <2>2. u[k] = f[k + 1] /\ c[k] = t[k]
    BY ONLY <1>5, <1>6, <1>7, <1>8
  <2>3. f[k + 1] = p[k + 1] /\ t[k] = p[k + 1]
    BY ONLY <1>2, <1>3, <2>1
  <2> QED
    BY ONLY <2>2, <2>3
<1>9. u = c
  BY <1>5, <1>6, <1>7, <1>8, SeqEqual
<1>10. /\ 1 \in 1 .. n - 1 /\ n - 1 \in 1 .. n - 1 /\ n - 1 + 1 = n
       /\ n - 2 \in 1 .. n - 2 /\ n - 2 + 1 = n - 1
  BY ONLY <1>1
<1>11. f[1] = p[1] /\ f[n - 1] = p[n - 1] /\ t[n - 1] = p[n] /\ u[n - 2] = p[n - 1]
  <2>1. f[1] = p[1] /\ f[n - 1] = p[n - 1]
    BY ONLY <1>2, <1>10
  <2>2. t[n - 1] = p[n - 1 + 1]
    BY ONLY <1>3, <1>10
  <2>3. u[n - 2] = p[n - 2 + 1]
    BY ONLY <1>8, <1>10
  <2> QED
    BY ONLY <1>10, <2>1, <2>2, <2>3
<1> QED
  BY <1>2, <1>3, <1>5, <1>7, <1>9, <1>11 DEF n, f, t, u, c

\* A sequence with several elements has some.
LEMMA LongIsNotEmpty ==
  ASSUME NEW p \in Seq(Piece), Len(p) > 1
  PROVE  Len(p) \in Nat /\ p # <<>>
BY LenProperties, EmptySeq

\* An absolute path of several pieces of which the last is not empty.
LEMMA PlainComponents ==
  ASSUME NEW p \in Seq(Piece), IsAbsolute(p), p[Len(p)] # ""
  PROVE  Components(p) = Tail(p) /\ ~WantsDirectory(p)
<1> DEFINE n == Len(p)
           t == Tail(p)
<1>0. n > 1
  BY DEF IsAbsolute
<1>1. n \in Nat /\ n > 1 /\ p # <<>>
  BY <1>0, LongIsNotEmpty
<1>2. t \in Seq(Piece) /\ Len(t) = n - 1 /\ \A k \in 1 .. Len(t) : t[k] = p[k + 1]
  BY <1>1, HeadTailProperties
<1>3. p # RootPath /\ ~EndsInSlash(p)
  <2>1. RootPath[Len(RootPath)] = ""
    BY RootPathPieces
  <2> QED
    BY <2>1 DEF EndsInSlash
<1>4. ~EndsInSlash(t)
  <2> HIDE DEF n, t
  <2>1. Len(t) \in 1 .. Len(t) /\ Len(t) + 1 = n
    BY ONLY <1>1, <1>2
  <2>2. t[Len(t)] = p[n]
    BY ONLY <1>2, <2>1
  <2> QED
    BY <2>2 DEF EndsInSlash, n
<1> HIDE DEF n, t
<1>5. Components(p) = t
  BY <1>3, <1>4 DEF Components, t
<1> QED
  BY <1>3, <1>5 DEF WantsDirectory, t

\* What CanSplit says of a path.
LEMMA CanSplitFacts ==
  ASSUME NEW p \in Seq(Piece), CanSplit(p)
  PROVE  /\ Len(p) \in Nat /\ Len(p) > 1 /\ p[1] = "" /\ IsAbsolute(p)
         /\ Last(p) = p[Len(p)] /\ p[Len(p)] # "" /\ Last(p) \in Piece
         /\ Components(p) = Tail(p) /\ ~WantsDirectory(p) /\ p # <<>>
<1>0. Len(p) > 1 /\ p[1] = "" /\ IsAbsolute(p)
  BY DEF CanSplit, IsAbsolute
<1>1. Len(p) \in Nat /\ Len(p) > 1 /\ p[1] = "" /\ IsAbsolute(p) /\ p # <<>>
  BY <1>0, LongIsNotEmpty
<1>2. Last(p) = p[Len(p)]
  BY DEF Last
<1>3. p[Len(p)] # "" /\ Last(p) \in Piece
  BY <1>1, <1>2, NameEnds DEF CanSplit
<1> QED
  BY <1>1, <1>2, <1>3, PlainComponents

\* The root path has no components.
LEMMA RootComponents ==
  /\ Components(RootPath) = <<>> /\ IsAbsolute(RootPath) /\ ~WantsDirectory(RootPath)
  /\ IsWellFormed(RootPath)
<1>1. Components(RootPath) = <<>>
  BY DEF Components
<1>2. Range(<<>>) = {}
  BY DEF Range
<1>3. IsAbsolute(RootPath)
  <2>1. 2 > 1
    OBVIOUS
  <2> QED
    BY <2>1, RootPathPieces, Zenon DEF IsAbsolute
<1>4. IsWellFormed(RootPath)
  BY <1>1, <1>2, Zenon DEF IsWellFormed
<1> QED
  BY <1>1, <1>3, <1>4 DEF WantsDirectory

\* The components of a path are those of its parent's path and its last one.
LEMMA SplitComponents ==
  ASSUME NEW p \in Seq(Piece), CanSplit(p), IsWellFormed(p)
  PROVE  /\ ParentPath(p) \in Seq(Piece) /\ IsAbsolute(ParentPath(p))
         /\ IsWellFormed(ParentPath(p)) /\ ~WantsDirectory(ParentPath(p))
         /\ Components(ParentPath(p)) \in Seq(Piece)
         /\ Components(p) = Append(Components(ParentPath(p)), Last(p))
<1> DEFINE n == Len(p)
           t == Tail(p)
           x == Last(p)
<1>1. /\ n \in Nat /\ n > 1 /\ p[1] = "" /\ x = p[n] /\ x # "" /\ x \in Piece
      /\ Components(p) = t /\ p # <<>>
  BY CanSplitFacts
<1>2. CASE n = 2
  <2>1. ParentPath(p) = RootPath
    BY <1>2 DEF ParentPath
  <2>2. t = <<x>>
    <3> DEFINE one == <<x>>
    <3>1. t \in Seq(Piece) /\ Len(t) = n - 1 /\ \A k \in 1 .. Len(t) : t[k] = p[k + 1]
      BY <1>1, HeadTailProperties
    <3>2. one \in Seq(Piece) /\ Len(one) = 1 /\ one[1] = x
      <4>1. x \in Piece
        BY <1>1
      <4> HIDE DEF x, n, t
      <4> QED
        BY ONLY <4>1
    <3> HIDE DEF one, t, n
    <3>3. Len(t) = 1 /\ 1 \in 1 .. Len(t) /\ 1 + 1 = n /\ \A k \in 1 .. Len(t) : k = 1
      BY ONLY <1>2, <3>1
    <3>4. t[1] = x
      BY <1>1, <3>1, <3>3
    <3>5. \A k \in 1 .. Len(t) : t[k] = one[k]
      BY <3>2, <3>3, <3>4
    <3>6. t = one
      BY <3>1, <3>2, <3>3, <3>5, SeqEqual
    <3> QED
      BY <3>6 DEF one
  <2>3. Append(<<>>, x) = <<x>> /\ <<>> \in Seq(Piece)
    BY <1>1, WalkSingle, EmptySeq
  <2> QED
    BY <1>1, <2>1, <2>2, <2>3, RootComponents, RootPathPieces
<1>3. CASE n # 2
  <2> DEFINE q == Front(p)
             c == Tail(q)
  <2>1. n > 2
    <3>1. n \in Nat /\ n > 1
      BY <1>1
    <3> HIDE DEF n
    <3> QED
      BY ONLY <1>3, <3>1
  <2>2. ParentPath(p) = q
    BY <1>3 DEF ParentPath
  <2>3. /\ q \in Seq(Piece) /\ Len(q) = n - 1 /\ q[1] = "" /\ q[n - 1] = p[n - 1]
        /\ t \in Seq(Piece) /\ Len(t) = n - 1 /\ t[n - 1] = x
        /\ c \in Seq(Piece) /\ Len(c) = n - 2 /\ c[n - 2] = p[n - 1] /\ c = Front(t)
    BY <1>1, <2>1, TailOfFront
  <2> HIDE DEF n, t, x, q, c
  <2>l. n \in Nat /\ n > 2 /\ Len(t) = n - 1
    BY <1>1, <2>1, <2>3
  <2>4. t # <<>>
    <3>1. Len(t) # 0
      BY ONLY <2>l
    <3> QED
      BY <2>3, <3>1, EmptySeq
  <2>5. t = Append(c, x)
    <3>1. t = Append(Front(t), Last(t))
      BY <2>3, <2>4, NameEnds
    <3>2. Last(t) = x
      BY <2>3 DEF Last
    <3> QED
      BY <2>3, <3>1, <3>2
  <2>6. "" \notin Range(c) /\ c[n - 2] # ""
    <3>1. \A k \in DOMAIN t : t[k] # ""
      BY <1>1 DEF IsWellFormed, Range
    <3>2. DOMAIN t = 1 .. n - 1 /\ DOMAIN c = 1 .. n - 2
      BY <2>3, LenProperties
    <3>3. \A k \in 1 .. n - 2 : c[k] = t[k]
      <4>1. \A k \in 1 .. Len(t) - 1 : Front(t)[k] = t[k]
        BY <2>3, <2>4, FrontElements
      <4>2. Len(t) - 1 = n - 2
        BY ONLY <2>l
      <4> QED
        BY <2>3, <4>1, <4>2
    <3>4. \A k \in 1 .. n - 2 : k \in 1 .. n - 1
      BY ONLY <2>l
    <3>5. \A k \in DOMAIN c : c[k] # ""
      BY <3>1, <3>2, <3>3, <3>4
    <3>6. n - 2 \in 1 .. n - 2
      BY ONLY <2>l
    <3> QED
      BY <3>2, <3>5, <3>6 DEF Range
  <2>7. IsAbsolute(q) /\ q[Len(q)] # ""
    <3>1. n - 1 > 1
      BY ONLY <2>l
    <3> QED
      BY <2>3, <2>6, <3>1 DEF IsAbsolute
  <2>8. Components(q) = c /\ ~WantsDirectory(q)
    BY <2>3, <2>7, PlainComponents DEF c
  <2> QED
    BY <1>1, <2>2, <2>3, <2>5, <2>6, <2>7, <2>8 DEF IsWellFormed, x
<1> QED
  BY <1>2, <1>3

\* A trailing slash is no component.
LEMMA StripComponents ==
  ASSUME NEW p \in Seq(Piece), CanSplit(Strip(p))
  PROVE  /\ Strip(p) \in Seq(Piece) /\ Components(Strip(p)) = Components(p)
         /\ IsAbsolute(p)
<1>1. CASE ~WantsDirectory(p)
  BY <1>1, CanSplitFacts DEF Strip
<1>2. CASE WantsDirectory(p)
  <2> DEFINE n == Len(p)
             q == Front(p)
             t == Tail(p)
             c == Tail(q)
  <2>1. Strip(p) = q
    BY <1>2 DEF Strip
  <2>0. n > 1 /\ p[n] = "" /\ p # RootPath
    BY <1>2 DEF WantsDirectory, EndsInSlash
  <2>2. n \in Nat /\ n > 1 /\ p[n] = "" /\ p # RootPath /\ p # <<>>
    BY <2>0, LongIsNotEmpty
  <2>3. q \in Seq(Piece) /\ Len(q) = n - 1
    BY <2>2, NameEnds
  <2>4. Len(q) > 1 /\ q[1] = "" /\ q[Len(q)] # "" /\ Components(q) = c
    BY <2>1, <2>3, CanSplitFacts
  <2>5. n > 2
    <3>1. n \in Nat /\ n - 1 > 1
      BY <2>2, <2>3, <2>4
    <3> HIDE DEF n
    <3> QED
      BY ONLY <3>1
  <2>6. /\ q[1] = p[1] /\ t \in Seq(Piece) /\ Len(t) = n - 1 /\ t[n - 1] = p[n] /\ c = Front(t)
    BY <2>5, TailOfFront
  <2>7. IsAbsolute(p)
    BY <2>2, <2>4, <2>6 DEF IsAbsolute
  <2> HIDE DEF n, q, t, c
  <2>8. EndsInSlash(t)
    <3>1. n \in Nat /\ n > 2
      BY <2>2, <2>5
    <3>2. n - 1 > 1
      BY ONLY <3>1
    <3> QED
      BY <2>2, <2>6, <3>2 DEF EndsInSlash
  <2>9. Components(p) = Front(t)
    BY <2>2, <2>7, <2>8 DEF Components, t
  <2> QED
    BY <2>1, <2>3, <2>4, <2>6, <2>7, <2>9
<1> QED
  BY <1>1, <1>2

\* A path that is not followed at its end names the entry that it selects, if its
\* parent's path names a directory, and nothing if that names nothing.
LEMMA LookupSplit ==
  ASSUME NEW v, NEW p \in Seq(Piece), CanSplit(p), IsWellFormed(p)
  PROVE  LET r == Lookup(v, ParentPath(p), TRUE)
             k == <<r.inode, Last(p)>>
         IN /\ r = Failed("NotFound") => Lookup(v, p, FALSE) = Failed("NotFound")
            /\ r.status = "ok" /\ IsDirectory(v, r.inode) /\ Last(p) \notin {".", ".."} =>
                 Lookup(v, p, FALSE)
                   = IF k \notin DOMAIN v.entries THEN Failed("NotFound")
                     ELSE IF v.entries[k] \notin DOMAIN v.inodes THEN Failed("InvalidData")
                     ELSE Found(v.entries[k])
<1> DEFINE q == ParentPath(p)
           r == Lookup(v, q, TRUE)
           s == Reached(Root, MaxExpansions)
           c == Components(q)
           x == Last(p)
           a == Walk(v, LinkTable(v), s, c)
           b == Enter(v, a, x)
           k == <<r.inode, x>>
<1>1. /\ q \in Seq(Piece) /\ IsAbsolute(q) /\ IsWellFormed(q) /\ WantsDirectory(q) = FALSE
      /\ c \in Seq(Piece) /\ Components(p) = Append(c, x)
  BY SplitComponents DEF WantsDirectory, EndsInSlash
<1>2. IsAbsolute(p) /\ WantsDirectory(p) = FALSE /\ x \in Piece
  BY CanSplitFacts DEF WantsDirectory, EndsInSlash
<1>3. \A y : AsDirectory(v, FALSE, y) = y
  BY DEF AsDirectory
<1>4. r = Outcome(v, a)
  <2>1. r = Outcome(v, AsDirectory(v, FALSE, WalkToEnd(v, s, c, TRUE)))
    <3> HIDE DEF q, s
    <3> QED
      BY <1>1 DEF Lookup, s
  <2>2. WalkToEnd(v, s, c, TRUE) = a
    BY <1>1, EndFollowed
  <2> QED
    BY <1>3, <2>1, <2>2
<1>5. Lookup(v, p, FALSE) = Outcome(v, b)
  <2>1. Lookup(v, p, FALSE) = Outcome(v, AsDirectory(v, FALSE, WalkToEnd(v, s, Append(c, x), FALSE)))
    <3> HIDE DEF q, s, x, c
    <3> QED
      BY <1>1, <1>2 DEF Lookup, s
  <2>2. WalkToEnd(v, s, Append(c, x), FALSE) = b
    <3> HIDE DEF c, x, s
    <3>1. WalkToEnd(v, s, Append(c, x), FALSE) = LastStep(v, Walk(v, LinkTable(v), s, c), x, FALSE)
      BY <1>1, <1>2, EndAppend, Zenon
    <3> QED
      BY <3>1 DEF LastStep
  <2> QED
    BY <1>3, <2>1, <2>2
<1> HIDE DEF r, a, b, x
<1>6. ASSUME r = Failed("NotFound") PROVE Outcome(v, b) = Failed("NotFound")
  <2>1. r.status = "NotFound"
    BY <1>6 DEF Failed
  <2>2. a.status # "ok"
    <3>1. a.status = "ok" => Outcome(v, a) = Failed("InvalidData") \/ Outcome(v, a) = Found(a.inode)
      BY DEF Outcome
    <3>2. Failed("InvalidData").status = "InvalidData" /\ Found(a.inode).status = "ok"
      BY DEF Failed, Found
    <3> QED
      BY <1>4, <2>1, <3>1, <3>2
  <2>3. b = a
    BY <2>2, LostStays DEF b
  <2> QED
    BY <1>4, <1>6, <2>3
<1>7. ASSUME r.status = "ok", IsDirectory(v, r.inode), x \notin {".", ".."}
      PROVE  Outcome(v, b) = IF k \notin DOMAIN v.entries THEN Failed("NotFound")
                             ELSE IF v.entries[k] \notin DOMAIN v.inodes THEN Failed("InvalidData")
                             ELSE Found(v.entries[k])
  <2>1. a.status = "ok" /\ a.inode = r.inode
    <3>1. a.status # "ok" => Outcome(v, a).status # "ok"
      BY DEF Outcome, Failed
    <3>2. a.status = "ok"
      BY <1>4, <1>7, <3>1
    <3>3. Outcome(v, a) = Failed("InvalidData") \/ Outcome(v, a) = Found(a.inode)
      BY <3>2 DEF Outcome
    <3>4. Failed("InvalidData").status = "InvalidData" /\ Found(a.inode).inode = a.inode
      BY DEF Failed, Found
    <3> QED
      BY <1>4, <1>7, <3>2, <3>3, <3>4
  <2>2. b = IF k \notin DOMAIN v.entries THEN Lost("NotFound")
            ELSE IF v.entries[k] \notin DOMAIN v.inodes THEN Lost("InvalidData")
            ELSE Reached(v.entries[k], a.left)
    BY <1>7, <2>1 DEF Enter, b
  <2>3. \A e : e # "ok" => Outcome(v, Lost(e)) = Failed(e)
    BY DEF Outcome, Lost
  <2>4. \A i \in DOMAIN v.inodes : Outcome(v, Reached(i, a.left)) = Found(i)
    BY DEF Outcome, Reached
  <2> HIDE DEF k
  <2>5. CASE k \notin DOMAIN v.entries
    BY <2>2, <2>3, <2>5
  <2>6. CASE k \in DOMAIN v.entries /\ v.entries[k] \notin DOMAIN v.inodes
    BY <2>2, <2>3, <2>6
  <2>7. CASE k \in DOMAIN v.entries /\ v.entries[k] \in DOMAIN v.inodes
    BY <2>2, <2>4, <2>7
  <2> QED
    BY <2>5, <2>6, <2>7
<1> QED
  BY <1>5, <1>6, <1>7 DEF r, x

\* What a lookup finds is in the volume.
LEMMA FoundIsThere ==
  ASSUME NEW v, NEW p, NEW f, Lookup(v, p, f).status = "ok"
  PROVE  /\ Lookup(v, p, f) = Found(Lookup(v, p, f).inode)
         /\ Lookup(v, p, f).inode \in DOMAIN v.inodes
<1> DEFINE r == Lookup(v, p, f)
<1>1. \A e : Failed(e).status = e
  BY DEF Failed
<1>2. \E s : r = Outcome(v, s)
  <2>1. r = Failed("InvalidInput") \/ \E s : r = Outcome(v, s)
    BY DEF Lookup
  <2> HIDE DEF r
  <2> QED
    BY <1>1, <2>1 DEF r
<1> HIDE DEF r
<1>3. PICK s : r = Outcome(v, s)
  BY <1>2
<1>4. s.status = "ok" /\ s.inode \in DOMAIN v.inodes
  BY <1>1, <1>3 DEF Outcome, r
<1>5. r = Found(s.inode)
  BY <1>3, <1>4 DEF Outcome
<1>6. r.inode = s.inode
  BY <1>5 DEF Found
<1> QED
  BY <1>4, <1>5, <1>6 DEF r

\* The path p selects a name in the directory d of v.
Selects(v, p, d) ==
  /\ p \in Seq(Piece) /\ CanSplit(p) /\ IsWellFormed(p) /\ Last(p) \notin {".", ".."}
  /\ Lookup(v, ParentPath(p), TRUE) = Found(d)
  /\ IsDirectory(v, d)

\* Such a path names what the entry names.
LEMMA SelectedLookup ==
  ASSUME NEW v, NEW p, NEW d, Selects(v, p, d)
  PROVE  /\ <<d, Last(p)>> \notin DOMAIN v.entries => Lookup(v, p, FALSE) = Failed("NotFound")
         /\ <<d, Last(p)>> \in DOMAIN v.entries /\ v.entries[<<d, Last(p)>>] \in DOMAIN v.inodes
              => Lookup(v, p, FALSE) = Found(v.entries[<<d, Last(p)>>])
<1> DEFINE r == Lookup(v, ParentPath(p), TRUE)
           k == <<r.inode, Last(p)>>
<1>1. p \in Seq(Piece) /\ CanSplit(p) /\ IsWellFormed(p) /\ Last(p) \notin {".", ".."}
  BY DEF Selects
<1>2. r.status = "ok" /\ r.inode = d /\ IsDirectory(v, d)
  <2>1. r = Found(d) /\ IsDirectory(v, d)
    BY DEF Selects
  <2>2. Found(d).status = "ok" /\ Found(d).inode = d
    BY DEF Found
  <2> HIDE DEF r
  <2> QED
    BY <2>1, <2>2
<1>3. r.status = "ok" /\ IsDirectory(v, r.inode) /\ Last(p) \notin {".", ".."} =>
        Lookup(v, p, FALSE)
          = IF k \notin DOMAIN v.entries THEN Failed("NotFound")
            ELSE IF v.entries[k] \notin DOMAIN v.inodes THEN Failed("InvalidData")
            ELSE Found(v.entries[k])
  BY <1>1, LookupSplit
<1> HIDE DEF r
<1> QED
  BY <1>1, <1>2, <1>3

\* In the whole the path selects the same entry as in the part.
LEMMA WholeSelects ==
  ASSUME NEW v, NEW u, PartOf(v, u), NEW p, NEW d, Selects(v, p, d)
  PROVE  Selects(u, p, d)
<1> DEFINE q == ParentPath(p)
<1>1. p \in Seq(Piece) /\ CanSplit(p) /\ IsWellFormed(p)
  BY DEF Selects
<1>2. q \in Seq(Piece)
  BY <1>1, SplitComponents
<1> HIDE DEF q
<1>3. Lookup(v, q, TRUE) = Found(d) /\ Found(d).status = "ok"
  BY DEF Selects, Found, q
<1>4. Lookup(v, q, TRUE).status = "ok" => Lookup(u, q, TRUE) = Lookup(v, q, TRUE)
  BY <1>2, LookupFits
<1>5. IsDirectory(v, d) /\ d \in DOMAIN v.inodes
  BY DirectoryFacts DEF Selects
<1>6. IsDirectory(u, d)
  BY <1>5, PartKinds
<1> QED
  BY <1>3, <1>4, <1>6 DEF Selects, q

\* In the part the path names nothing when the entry is not there, whether or not
\* the way to it is.
LEMMA PartMisses ==
  ASSUME NEW v, NEW u, PartOf(v, u), NEW p, NEW d, Selects(u, p, d),
         <<d, Last(p)>> \notin DOMAIN v.entries
  PROVE  Lookup(v, p, FALSE) = Failed("NotFound")
<1> DEFINE q == ParentPath(p)
           r == Lookup(v, q, TRUE)
<1>1. p \in Seq(Piece) /\ CanSplit(p) /\ IsWellFormed(p)
  BY DEF Selects
<1>2. q \in Seq(Piece)
  BY <1>1, SplitComponents
<1>3. r = Failed("NotFound") => Lookup(v, p, FALSE) = Failed("NotFound")
  BY <1>1, LookupSplit
<1> HIDE DEF q
<1>4. Lookup(u, q, TRUE) = Found(d) /\ Found(d).status = "ok" /\ Found(d).inode = d
  BY DEF Selects, Found, q
<1>5. /\ r.status = "ok" => Lookup(u, q, TRUE) = r
      /\ Lookup(u, q, TRUE).status = "ok" /\ r.status # "ok" => r = Failed("NotFound")
  BY <1>2, LookupFits
<1>6. r.status = "ok" => r.inode \in DOMAIN v.inodes
  BY FoundIsThere
<1> HIDE DEF r
<1>7. CASE r.status = "ok"
  <2>1. r = Found(d) /\ d \in DOMAIN v.inodes
    BY <1>4, <1>5, <1>6, <1>7
  <2>2. IsDirectory(v, d)
    BY <2>1, PartKinds DEF Selects
  <2>3. Selects(v, p, d)
    BY <2>1, <2>2 DEF Selects, r, q
  <2> QED
    BY <2>3, SelectedLookup
<1>8. CASE r.status # "ok"
  BY <1>3, <1>4, <1>5, <1>8
<1> QED
  BY <1>7, <1>8

(***************************************************************************)
(* The path-level operations.                                              *)
(***************************************************************************)
\* Every symbolic link has a target, and every target is a path.
TargetsKnown ==
  /\ \A i \in DOMAIN targets : targets[i] \in Seq(Piece)
  /\ \A i \in DOMAIN inodes : inodes[i].kind = "symlink" => i \in DOMAIN targets

PathInv == NamespaceInv /\ TargetsKnown

\* The tables as lookups see them.
LEMMA CommittedTables ==
  /\ Committed.inodes = inodes /\ Committed.entries = entries /\ Committed.targets = targets
  /\ Committed'.inodes = inodes' /\ Committed'.entries = entries' /\ Committed'.targets = targets'
BY DEF Committed

\* The entry a path selects.
LEMMA SelectedFacts ==
  ASSUME NEW p, NEW e \in Selected(p)
  PROVE  /\ CanSplit(p)
         /\ Lookup(Committed, ParentPath(p), TRUE) = Found(e[1])
         /\ e = <<e[1], Last(p)>> /\ e[2] = Last(p)
<1> DEFINE r == Lookup(Committed, ParentPath(p), TRUE)
<1>1. CanSplit(p) /\ r.status = "ok" /\ e = <<r.inode, Last(p)>>
  <2>1. Selected(p) = IF CanSplit(p) /\ r.status = "ok" THEN {<<r.inode, Last(p)>>} ELSE {}
    BY DEF Selected, Resolve, View
  <2> HIDE DEF r
  <2> QED
    BY <2>1
<1>2. r = Found(r.inode)
  BY <1>1, FoundIsThere
<1> HIDE DEF r
<1>3. e[1] = r.inode /\ e[2] = Last(p)
  BY <1>1
<1> QED
  BY <1>1, <1>2, <1>3 DEF r

\* A path that selects an entry as it stands has no trailing slash.
LEMMA PlainSelected ==
  ASSUME NEW p \in Seq(Piece), NEW e \in Selected(p)
  PROVE  ~WantsDirectory(p) /\ Strip(p) = p
<1>1. CanSplit(p)
  BY SelectedFacts
<1>2. ~WantsDirectory(p)
  BY <1>1, CanSplitFacts
<1> QED
  BY <1>2 DEF Strip

\* The entry an operation acts on is a key: it is there, or its name is valid.
LEMMA SelectedKey ==
  ASSUME NamespaceInv, NEW p, NEW e \in Selected(p), IsEntry(e) \/ (IsNewName(e) /\ MayCreateAt(e))
  PROVE  e \in Key /\ e[1] \in Dirs(inodes)
<1>1. CASE IsEntry(e)
  BY <1>1 DEF IsEntry, NamespaceInv, TypeOK, EndpointsExist
<1>2. CASE IsNewName(e) /\ MayCreateAt(e)
  <2>1. e = <<e[1], e[2]>>
    BY SelectedFacts
  <2>2. e[2] \in Name /\ e[1] \in Dirs(inodes)
    BY <1>2 DEF IsNewName, MayCreateAt
  <2>3. e[1] \in Id
    BY <2>2 DEF Dirs, NamespaceInv, TypeOK
  <2> QED
    BY <2>1, <2>2, <2>3 DEF Key
<1> QED
  BY <1>1, <1>2

\* A path names what the entry it selects names, with a trailing slash or without.
LEMMA SelectsEntry ==
  ASSUME NamespaceInv, NEW p \in Seq(Piece), IsWellFormed(p), NEW e \in Selected(Strip(p)),
         e \in Key, e[1] \in Dirs(inodes)
  PROVE  Selects(Committed, Strip(p), e[1]) /\ e = <<e[1], Last(Strip(p))>>
<1> DEFINE q == Strip(p)
<1>1. /\ CanSplit(q)
      /\ Lookup(Committed, ParentPath(q), TRUE) = Found(e[1])
      /\ e = <<e[1], Last(q)>>
      /\ e[2] = Last(q)
  BY SelectedFacts
<1>2. q \in Seq(Piece) /\ Components(q) = Components(p)
  BY <1>1, StripComponents
<1> HIDE DEF q
<1>3. IsWellFormed(q)
  BY <1>2 DEF IsWellFormed
<1>4. Last(q) \notin {".", ".."}
  <2>1. Last(q) \in Name
    BY <1>1 DEF Key
  <2> QED
    BY <2>1, NameAssumption
<1>5. IsDirectory(Committed, e[1])
  BY CommittedTables DEF IsDirectory
<1> QED
  BY <1>1, <1>2, <1>3, <1>4, <1>5 DEF Selects, q

\* A volume that has grown by one entry, and by its inode if that is new.
LEMMA GrownPart ==
  ASSUME NamespaceInv, NamespaceInv', TargetsKnown, TargetsKnown', NEW e \in Key, NEW i, MayCreateAt(e),
         entries' = Put(entries, e, i),
         \A j \in DOMAIN inodes : j \in DOMAIN inodes' /\ inodes'[j] = inodes[j],
         i \notin Dirs(inodes),
         \A j \in DOMAIN targets : j \in DOMAIN inodes => j \in DOMAIN targets' /\ targets'[j] = targets[j]
  PROVE  PartOf(Committed, Committed')
<1> DEFINE v == Committed
           u == Committed'
<1>1. /\ v.inodes = inodes /\ v.entries = entries /\ v.targets = targets
      /\ u.inodes = inodes' /\ u.entries = entries' /\ u.targets = targets'
  BY CommittedTables
<1> HIDE DEF v, u
<1>2. Readable(v) /\ Readable(u)
  BY <1>1 DEF Readable, TargetsKnown
<1>3. Root \in Dirs(inodes) /\ \A x \in DOMAIN entries : x[1] \in Dirs(inodes) /\ entries[x] \in DOMAIN inodes
  BY DEF NamespaceInv, EndpointsExist
<1>4. /\ e \notin DOMAIN entries /\ DOMAIN entries' = DOMAIN entries \cup {e} /\ entries'[e] = i
      /\ \A x \in DOMAIN entries : entries'[x] = entries[x]
  BY DEF MayCreateAt, IsEntry, Put
<1>5. \A d \in Dirs(inodes) : Refs(entries', d) = Refs(entries, d)
  BY <1>4 DEF Refs
<1>6. \A j \in DOMAIN inodes : inodes[j].kind = "symlink" =>
         j \in DOMAIN targets /\ j \in DOMAIN targets' /\ targets'[j] = targets[j]
  BY DEF TargetsKnown
<1>7. \A j : IsSymlink(v, j) => j \in DOMAIN inodes /\ inodes[j].kind = "symlink"
  BY <1>1 DEF IsSymlink
<1> QED
  BY <1>1, <1>2, <1>3, <1>4, <1>5, <1>6, <1>7 DEF PartOf, v, u

\* A volume that has lost entries, and the inodes these leave unnamed.  A directory
\* that is left has kept its only name.
LEMMA ShrunkPart ==
  ASSUME NamespaceInv, NamespaceInv', TargetsKnown, TargetsKnown',
         \A x \in DOMAIN entries' : x \in DOMAIN entries /\ entries'[x] = entries[x],
         \A j \in DOMAIN inodes' : j \in DOMAIN inodes /\ inodes'[j] = inodes[j],
         \A j \in DOMAIN targets' : j \in DOMAIN targets /\ targets'[j] = targets[j]
  PROVE  PartOf(Committed', Committed)
<1> DEFINE u == Committed
           v == Committed'
<1>1. /\ u.inodes = inodes /\ u.entries = entries /\ u.targets = targets
      /\ v.inodes = inodes' /\ v.entries = entries' /\ v.targets = targets'
  BY CommittedTables
<1> HIDE DEF v, u
<1>2. Readable(v) /\ Readable(u)
  BY <1>1 DEF Readable, TargetsKnown
<1>3. /\ Root \in Dirs(inodes')
      /\ \A x \in DOMAIN entries' : x[1] \in Dirs(inodes') /\ entries'[x] \in DOMAIN inodes'
  BY DEF NamespaceInv, EndpointsExist
<1>4. ASSUME NEW d \in Dirs(inodes') PROVE Refs(entries, d) = Refs(entries', d)
  <2>1. Refs(entries', d) \subseteq Refs(entries, d)
    BY DEF Refs
  <2>2. d \in Dirs(inodes) /\ d \in DOMAIN inodes'
    BY DEF Dirs
  <2>3. CASE d = Root
    BY <2>1, <2>3 DEF NamespaceInv, OneName
  <2>4. CASE d # Root
    <3>1. PICK x : x \in Refs(entries', d)
      BY <2>2, <2>4 DEF NamespaceInv, AllNamed
    <3>2. \A y \in Refs(entries, d) : y = x
      BY <2>1, <2>2, <3>1 DEF NamespaceInv, OneName
    <3> QED
      BY <2>1, <3>1, <3>2
  <2> QED
    BY <2>3, <2>4
<1>5. \A j \in DOMAIN inodes' : inodes'[j].kind = "symlink" =>
         j \in DOMAIN targets /\ j \in DOMAIN targets' /\ targets'[j] = targets[j]
  BY DEF TargetsKnown
<1>6. \A j : IsSymlink(v, j) => j \in DOMAIN inodes' /\ inodes'[j].kind = "symlink"
  BY <1>1 DEF IsSymlink
<1> QED
  BY <1>1, <1>2, <1>3, <1>4, <1>5, <1>6 DEF PartOf, v, u

\* Targets are kept with the links that are left.
LEMMA TargetsStay ==
  ASSUME TargetsKnown, KeepTargets \/ ForgetTargets,
         \A j \in DOMAIN inodes' : j \in DOMAIN inodes /\ inodes'[j] = inodes[j]
  PROVE  /\ TargetsKnown'
         /\ \A j \in DOMAIN targets' : j \in DOMAIN targets /\ targets'[j] = targets[j]
<1>1. CASE KeepTargets
  BY <1>1 DEF KeepTargets, TargetsKnown
<1>2. CASE ForgetTargets
  <2>1. /\ DOMAIN targets' = DOMAIN targets \cap DOMAIN inodes'
        /\ \A j \in DOMAIN targets' : targets'[j] = targets[j]
    BY <1>2 DEF ForgetTargets, Restrict
  <2> QED
    BY <2>1 DEF TargetsKnown
<1> QED
  BY <1>1, <1>2

\* What is dropped from a function.
LEMMA DropFacts ==
  ASSUME NEW f, NEW S
  PROVE  /\ DOMAIN Drop(f, S) = DOMAIN f \ S
         /\ \A x \in DOMAIN Drop(f, S) : x \in DOMAIN f /\ Drop(f, S)[x] = f[x]
BY DEF Drop, Restrict

\* Inodes may be dropped.
LEMMA DroppedInodes ==
  ASSUME inodes' = inodes \/ \E S : inodes' = Drop(inodes, S)
  PROVE  \A j \in DOMAIN inodes' : j \in DOMAIN inodes /\ inodes'[j] = inodes[j]
<1>1. CASE inodes' = inodes
  BY <1>1
<1>2. ASSUME NEW S, inodes' = Drop(inodes, S)
      PROVE  \A j \in DOMAIN inodes' : j \in DOMAIN inodes /\ inodes'[j] = inodes[j]
  <2>1. \A x \in DOMAIN Drop(inodes, S) : x \in DOMAIN inodes /\ Drop(inodes, S)[x] = inodes[x]
    BY DropFacts
  <2> QED
    BY <1>2, <2>1
<1> QED
  BY <1>1, <1>2

\* A removal takes the entry away and nothing but inodes and other entries with it.
LEMMA RemovalDrops ==
  ASSUME NEW e, Unlink(e) \/ RemoveDirectory(e) \/ RemoveTree(e)
  PROVE  /\ IsEntry(e) /\ e \notin DOMAIN entries'
         /\ \A x \in DOMAIN entries' : x \in DOMAIN entries /\ entries'[x] = entries[x]
         /\ \A j \in DOMAIN inodes' : j \in DOMAIN inodes /\ inodes'[j] = inodes[j]
<1>1. IsEntry(e)
  BY DEF Unlink, RemoveDirectory, RemoveTree
<1>2. \E S : e \in S /\ entries' = Drop(entries, S)
  <2>1. CASE FinalUnlink(e) \/ NonfinalUnlink(e)
    BY <2>1 DEF FinalUnlink, NonfinalUnlink
  <2>2. CASE RemoveTree(e)
    BY <1>1, <2>2 DEF RemoveTree, IsEntry
  <2> QED
    BY <2>1, <2>2 DEF Unlink, RemoveDirectory
<1>3. inodes' = inodes \/ \E S : inodes' = Drop(inodes, S)
  BY DEF Unlink, RemoveDirectory, RemoveTree, FinalUnlink, NonfinalUnlink, Retire
<1>4. PICK S : e \in S /\ entries' = Drop(entries, S)
  BY <1>2
<1>5. /\ DOMAIN Drop(entries, S) = DOMAIN entries \ S
      /\ \A x \in DOMAIN Drop(entries, S) : x \in DOMAIN entries /\ Drop(entries, S)[x] = entries[x]
  BY DropFacts
<1>6. e \notin DOMAIN entries' /\ \A x \in DOMAIN entries' : x \in DOMAIN entries /\ entries'[x] = entries[x]
  BY <1>4, <1>5
<1>7. \A j \in DOMAIN inodes' : j \in DOMAIN inodes /\ inodes'[j] = inodes[j]
  BY <1>3, DroppedInodes
<1> QED
  BY <1>1, <1>6, <1>7

\* A rename makes no inode and changes none.
LEMMA RenameDrops ==
  ASSUME NEW e, NEW f, Rename(e, f) \/ RenameOverwrite(e, f) \/ RenamePosix(e, f) \/ RenameExchange(e, f)
  PROVE  \A j \in DOMAIN inodes' : j \in DOMAIN inodes /\ inodes'[j] = inodes[j]
<1>1. inodes' = inodes \/ \E S : inodes' = Drop(inodes, S)
  BY DEF Rename, RenameOverwrite, RenamePosix, RenameExchange, RenameOverwriteSameKind,
         RenameOverwriteNondirectory, RenameOverwriteDirectory, ReplaceFinal, ReplaceLinked, Retire
<1> QED
  BY <1>1, DroppedInodes

\* The entry e has come to name i, and nothing else has changed.
Grown(e, i) ==
  /\ e \in Key /\ MayCreateAt(e)
  /\ entries' = Put(entries, e, i)
  /\ i \in DOMAIN inodes'
  /\ PartOf(Committed, Committed')

\* The entry e has gone, and only other entries and inodes with it.
Shrunk(e) ==
  /\ e \in DOMAIN entries /\ e \notin DOMAIN entries'
  /\ PartOf(Committed', Committed)

\* A file, a directory or a symbolic link is created.
LEMMA InodeAdded ==
  ASSUME PathInv, NEW p, NEW e \in Selected(p), IsNewName(e), NEW i \in Id, NEW inode,
         NewInode(inode), AddInode(e, i, inode),
         \/ KeepTargets /\ inode.kind # "symlink"
         \/ \E t \in Seq(Piece) : targets' = Put(targets, i, t)
  PROVE  PathInv' /\ Grown(e, i) /\ inodes'[i] = inode
<1>1. MayCreateAt(e) /\ entries' = Put(entries, e, i) /\ inodes' = Put(inodes, i, inode)
  BY DEF AddInode
<1>2. e \in Key
  BY <1>1, SelectedKey DEF PathInv
<1>3. NamespaceInv'
  BY <1>2, AddInodeKeeps DEF PathInv
<1>4. i \notin DOMAIN inodes
  BY BoundAssumption DEF AddInode, IsNextId, Id, PathInv, NamespaceInv, TypeOK
<1>5. /\ DOMAIN inodes' = DOMAIN inodes \cup {i} /\ inodes'[i] = inode
      /\ \A j \in DOMAIN inodes : j \in DOMAIN inodes' /\ inodes'[j] = inodes[j]
  BY <1>1, <1>4 DEF Put
<1>6. /\ \A j \in DOMAIN targets' : targets'[j] \in Seq(Piece)
      /\ \A j \in DOMAIN targets : j \in DOMAIN targets' /\ (j \in DOMAIN inodes => targets'[j] = targets[j])
      /\ i \in DOMAIN targets' \/ inode.kind # "symlink"
  <2>1. CASE KeepTargets /\ inode.kind # "symlink"
    BY <2>1 DEF KeepTargets, PathInv, TargetsKnown
  <2>2. ASSUME NEW t \in Seq(Piece), targets' = Put(targets, i, t)
        PROVE  /\ \A j \in DOMAIN targets' : targets'[j] \in Seq(Piece)
               /\ \A j \in DOMAIN targets : /\ j \in DOMAIN targets'
                                            /\ j \in DOMAIN inodes => targets'[j] = targets[j]
               /\ i \in DOMAIN targets'
    <3>1. /\ DOMAIN targets' = DOMAIN targets \cup {i}
          /\ \A j \in DOMAIN targets' : targets'[j] = IF j = i THEN t ELSE targets[j]
      BY <2>2 DEF Put
    <3>2. \A j \in DOMAIN targets : targets[j] \in Seq(Piece)
      BY DEF PathInv, TargetsKnown
    <3> QED
      BY <1>4, <3>1, <3>2
  <2> QED
    BY <2>1, <2>2
<1>7. TargetsKnown'
  <2>1. \A j \in DOMAIN inodes' : inodes'[j].kind = "symlink" => j \in DOMAIN targets'
    BY <1>5, <1>6 DEF PathInv, TargetsKnown
  <2> QED
    BY <1>6, <2>1 DEF TargetsKnown
<1>8. i \notin Dirs(inodes)
  BY <1>4 DEF Dirs
<1>9. PartOf(Committed, Committed')
  BY <1>1, <1>2, <1>3, <1>5, <1>6, <1>7, <1>8, GrownPart DEF PathInv
<1> QED
  BY <1>1, <1>2, <1>3, <1>5, <1>7, <1>9 DEF PathInv, Grown

\* A file or a symbolic link gets another name.
LEMMA NameAdded ==
  ASSUME PathInv, NEW p, NEW e \in Selected(p), IsNewName(e), NEW i, HardLink(e, i), KeepTargets
  PROVE  PathInv' /\ Grown(e, i)
<1>1. /\ MayCreateAt(e) /\ entries' = Put(entries, e, i) /\ inodes' = inodes
      /\ i \in DOMAIN inodes /\ inodes[i].kind # "dir"
  BY DEF HardLink
<1>2. e \in Key
  BY <1>1, SelectedKey DEF PathInv
<1>3. i \in Id
  BY <1>1 DEF PathInv, NamespaceInv, TypeOK
<1>4. NamespaceInv'
  BY <1>2, <1>3, HardLinkKeeps DEF PathInv
<1>5. TargetsKnown' /\ targets' = targets
  BY <1>1 DEF KeepTargets, PathInv, TargetsKnown
<1>6. i \notin Dirs(inodes)
  BY <1>1 DEF Dirs
<1>7. PartOf(Committed, Committed')
  BY <1>1, <1>2, <1>4, <1>5, <1>6, GrownPart DEF PathInv
<1> QED
  BY <1>1, <1>2, <1>4, <1>5, <1>7 DEF PathInv, Grown

\* A name is removed, with all that is below it or without.
LEMMA NameRemoved ==
  ASSUME PathInv, NEW p, NEW e \in Selected(p), Unlink(e) \/ RemoveDirectory(e) \/ RemoveTree(e),
         KeepTargets \/ ForgetTargets
  PROVE  PathInv' /\ Shrunk(e)
<1>1. /\ IsEntry(e) /\ e \notin DOMAIN entries'
      /\ \A x \in DOMAIN entries' : x \in DOMAIN entries /\ entries'[x] = entries[x]
      /\ \A j \in DOMAIN inodes' : j \in DOMAIN inodes /\ inodes'[j] = inodes[j]
  BY RemovalDrops
<1>2. e \in Key
  BY <1>1, SelectedKey DEF PathInv
<1>3. Next
  BY <1>2 DEF Next
<1>4. NamespaceInv'
  BY <1>3, NamespaceStep DEF PathInv
<1>5. /\ TargetsKnown'
      /\ \A j \in DOMAIN targets' : j \in DOMAIN targets /\ targets'[j] = targets[j]
  BY <1>1, TargetsStay DEF PathInv
<1>6. PartOf(Committed', Committed)
  BY <1>1, <1>4, <1>5, ShrunkPart DEF PathInv
<1> QED
  BY <1>1, <1>4, <1>5, <1>6 DEF PathInv, Shrunk, IsEntry

\* A name is moved, over another one or not, or two names are exchanged.
LEMMA NameMoved ==
  ASSUME PathInv, NEW p, NEW q, NEW e \in Selected(q), NEW f \in Selected(p),
         \/ IsNewName(f) /\ Rename(e, f)
         \/ RenameOverwriteDirectory(e, f) \/ RenameOverwriteNondirectory(e, f)
         \/ RenameOverwrite(e, f) \/ RenameExchange(e, f),
         KeepTargets \/ ForgetTargets
  PROVE  PathInv' /\ IsEntry(e) /\ e \in Key /\ e[1] \in Dirs(inodes)
<1>0. Distinct(e, f) => IsEntry(e) /\ IsEntry(f)
  BY DEF Distinct
<1>1. IsEntry(e) /\ (IsEntry(f) \/ (IsNewName(f) /\ MayCreateAt(f)))
  <2>1. CASE IsNewName(f) /\ Rename(e, f)
    BY <2>1 DEF Rename
  <2>2. CASE RenameOverwriteDirectory(e, f)
    BY <1>0, <2>2 DEF RenameOverwriteDirectory
  <2>3. CASE RenameOverwriteNondirectory(e, f)
    BY <1>0, <2>3 DEF RenameOverwriteNondirectory
  <2>4. CASE RenameOverwriteSameKind(e, f)
    BY <1>0, <2>4 DEF RenameOverwriteSameKind
  <2>5. CASE RenameExchange(e, f)
    BY <1>0, <2>5 DEF RenameExchange
  <2> QED
    BY <2>1, <2>2, <2>3, <2>4, <2>5 DEF RenameOverwrite
<1>2. e \in Key /\ f \in Key /\ e[1] \in Dirs(inodes)
  BY <1>1, SelectedKey DEF PathInv
<1>3. RenameOverwrite(e, f) \/ RenamePosix(e, f) \/ RenameExchange(e, f)
  BY DEF RenamePosix
<1>4. Next
  BY <1>2, <1>3 DEF Next
<1>5. NamespaceInv'
  BY <1>4, NamespaceStep DEF PathInv
<1>6. \A j \in DOMAIN inodes' : j \in DOMAIN inodes /\ inodes'[j] = inodes[j]
  BY <1>3, RenameDrops
<1>7. TargetsKnown'
  BY <1>6, TargetsStay DEF PathInv
<1> QED
  BY <1>1, <1>2, <1>5, <1>7 DEF PathInv

\* What the path of a new entry names, before and after.
LEMMA GrownNames ==
  ASSUME PathInv, PathInv', NEW p \in Seq(Piece), IsWellFormed(p),
         NEW e \in Selected(Strip(p)), NEW i, Grown(e, i)
  PROVE  /\ Lookup(Committed, Strip(p), FALSE) = Failed("NotFound")
         /\ Lookup(Committed', Strip(p), FALSE) = Found(i)
<1> DEFINE v == Committed
           u == Committed'
           q == Strip(p)
           d == e[1]
<1>1. /\ v.inodes = inodes /\ v.entries = entries /\ u.inodes = inodes' /\ u.entries = entries'
  BY CommittedTables
<1>2. e \in Key /\ d \in Dirs(inodes) /\ e \notin DOMAIN entries /\ i \in DOMAIN inodes' /\ PartOf(v, u)
  BY DEF Grown, MayCreateAt, IsEntry
<1>3. e \in DOMAIN entries' /\ entries'[e] = i
  BY DEF Grown, Put
<1>4. Selects(v, q, d) /\ e = <<d, Last(q)>>
  BY <1>2, SelectsEntry DEF PathInv
<1> HIDE DEF v, u, q, d
<1>5. Selects(u, q, d)
  BY <1>2, <1>4, WholeSelects
<1>6. Lookup(v, q, FALSE) = Failed("NotFound")
  BY <1>1, <1>2, <1>4, SelectedLookup
<1>7. Lookup(u, q, FALSE) = Found(i)
  BY <1>1, <1>2, <1>3, <1>4, <1>5, SelectedLookup
<1> QED
  BY <1>6, <1>7 DEF v, u, q

\* What the path of an entry names.
LEMMA EntryNames ==
  ASSUME PathInv, NEW p \in Seq(Piece), IsWellFormed(p), NEW e \in Selected(Strip(p)), IsEntry(e)
  PROVE  /\ Selects(Committed, Strip(p), e[1]) /\ e = <<e[1], Last(Strip(p))>>
         /\ Lookup(Committed, Strip(p), FALSE) = Found(entries[e])
<1> DEFINE v == Committed
           q == Strip(p)
           d == e[1]
<1>1. v.inodes = inodes /\ v.entries = entries
  BY CommittedTables
<1>2. e \in Key /\ d \in Dirs(inodes)
  BY SelectedKey DEF PathInv
<1>3. e \in DOMAIN entries /\ entries[e] \in DOMAIN inodes
  BY DEF IsEntry, PathInv, NamespaceInv, EndpointsExist
<1>4. Selects(v, q, d) /\ e = <<d, Last(q)>>
  BY <1>2, SelectsEntry DEF PathInv
<1> HIDE DEF v, q, d
<1>5. Lookup(v, q, FALSE) = Found(entries[e])
  BY <1>1, <1>3, <1>4, SelectedLookup
<1> QED
  BY <1>4, <1>5 DEF v, q, d

\* What the path of a removed entry names afterwards.
LEMMA ShrunkNames ==
  ASSUME PathInv, NEW p \in Seq(Piece), IsWellFormed(p), NEW e \in Selected(Strip(p)), Shrunk(e)
  PROVE  Lookup(Committed', Strip(p), FALSE) = Failed("NotFound")
<1> DEFINE v == Committed'
           u == Committed
           q == Strip(p)
           d == e[1]
<1>1. v.entries = entries'
  BY CommittedTables
<1>2. e \notin DOMAIN entries' /\ IsEntry(e) /\ PartOf(v, u)
  BY DEF Shrunk, IsEntry
<1>3. Selects(u, q, d) /\ e = <<d, Last(q)>>
  BY <1>2, EntryNames
<1> HIDE DEF v, u, q, d
<1>4. Lookup(v, q, FALSE) = Failed("NotFound")
  BY <1>1, <1>2, <1>3, PartMisses
<1> QED
  BY <1>4 DEF v, q

\* A symbolic link is created, with a path as its target.
LEMMA SymlinkAdded ==
  ASSUME PathInv, NEW p, NEW e \in Selected(p), IsNewName(e), NEW t \in Seq(Piece), CreateSymlinkAt(e, t)
  PROVE  PathInv' /\ \E i \in Id : Grown(e, i) /\ targets'[i] = t
<1>1. PICK i \in Id, n \in 1 .. MaxBlocks : \E s \in Runs(n) :
         CreateSymlink(e, i, s) /\ targets' = Put(targets, i, t)
  BY DEF CreateSymlinkAt
<1>2. PICK s \in Runs(n) : CreateSymlink(e, i, s) /\ targets' = Put(targets, i, t)
  BY <1>1
<1> DEFINE inode == [kind |-> "symlink", blocks |-> s]
<1>3. n \in 0 .. MaxBlocks
  BY BoundAssumption
<1>4. s # <<>> /\ AddInode(e, i, inode)
  BY <1>2 DEF CreateSymlink
<1>5. NewInode(inode)
  BY <1>2, <1>3, <1>4, RunsMakeInodes DEF PathInv
<1> HIDE DEF inode
<1>6. PathInv' /\ Grown(e, i)
  BY <1>2, <1>4, <1>5, InodeAdded
<1>7. targets'[i] = t
  BY <1>2 DEF Put
<1> QED
  BY <1>6, <1>7

(***************************************************************************)
(* The calls.                                                              *)
(***************************************************************************)
\* Every path is a sequence of pieces.
LEMMA PathPieces ==
  ASSUME NEW p \in PathNames
  PROVE  p \in Seq(Piece)
BY PathAssumption

\* A creation adds an entry, and a directory if the path ends in a slash.
LEMMA CreateStep ==
  ASSUME PathInv, NEW p \in PathNames, CreateAt(p)
  PROVE  /\ PathInv'
         /\ call' = Called("create", p, p)
         /\ \E e \in Selected(Strip(p)), i \in Id :
               Grown(e, i) /\ (WantsDirectory(p) => i \in Dirs(inodes'))
<1>0. p \in Seq(Piece) /\ NamespaceInv
  BY PathPieces DEF PathInv
<1>1. CASE CreateEmptyFileAt(p)
  <2>1. PICK e \in Selected(p), i \in Id : IsNewName(e) /\ CreateBlockless(e, i, "file") /\ KeepTargets
    BY <1>1 DEF CreateEmptyFileAt
  <2> DEFINE inode == [kind |-> "file", blocks |-> <<>>]
  <2>2. NewInode(inode) /\ inode.kind # "symlink"
    <3>1. <<>> \in Seq(Block) /\ DOMAIN <<>> = {}
      OBVIOUS
    <3> QED
      BY <3>1 DEF NewInode, Inode, Kind
  <2>3. AddInode(e, i, inode)
    BY <2>1 DEF CreateBlockless
  <2> HIDE DEF inode
  <2>4. PathInv' /\ Grown(e, i)
    BY <2>1, <2>2, <2>3, InodeAdded
  <2> QED
    BY <1>0, <2>1, <2>4, PlainSelected DEF CreateAt
<1>2. CASE CreateFileWithBlocksAt(p)
  <2>1. PICK e \in Selected(p), i \in Id, n \in 1 .. MaxBlocks : \E s \in Runs(n) :
           IsNewName(e) /\ CreateFile(e, i, s) /\ KeepTargets
    BY <1>2 DEF CreateFileWithBlocksAt
  <2>2. PICK s \in Runs(n) : IsNewName(e) /\ CreateFile(e, i, s) /\ KeepTargets
    BY <2>1
  <2> DEFINE inode == [kind |-> "file", blocks |-> s]
  <2>3. n \in 0 .. MaxBlocks
    BY BoundAssumption
  <2>4. s # <<>> /\ AddInode(e, i, inode) /\ inode.kind # "symlink"
    BY <2>2 DEF CreateFile
  <2>5. NewInode(inode)
    BY <1>0, <2>2, <2>3, <2>4, RunsMakeInodes
  <2> HIDE DEF inode
  <2>6. PathInv' /\ Grown(e, i)
    BY <2>2, <2>4, <2>5, InodeAdded
  <2> QED
    BY <1>0, <2>1, <2>6, PlainSelected DEF CreateAt
<1>3. CASE CreateDirectoryAt(p)
  <2>1. PICK e \in Selected(Strip(p)), i \in Id : IsNewName(e) /\ CreateBlockless(e, i, "dir") /\ KeepTargets
    BY <1>3 DEF CreateDirectoryAt
  <2> DEFINE inode == [kind |-> "dir", blocks |-> <<>>]
  <2>2. NewInode(inode) /\ inode.kind = "dir"
    <3>1. <<>> \in Seq(Block) /\ DOMAIN <<>> = {}
      OBVIOUS
    <3> QED
      BY <3>1 DEF NewInode, Inode, Kind
  <2>3. AddInode(e, i, inode)
    BY <2>1 DEF CreateBlockless
  <2> HIDE DEF inode
  <2>4. PathInv' /\ Grown(e, i) /\ inodes'[i] = inode
    BY <2>1, <2>2, <2>3, InodeAdded
  <2>5. i \in Dirs(inodes')
    BY <2>2, <2>4 DEF Grown, Dirs
  <2> QED
    BY <2>1, <2>4, <2>5 DEF CreateAt
<1>4. CASE \E e \in Selected(p), t \in Targets : IsNewName(e) /\ CreateSymlinkAt(e, t)
  <2>1. PICK e \in Selected(p), t \in Targets : IsNewName(e) /\ CreateSymlinkAt(e, t)
    BY <1>4
  <2>2. t \in Seq(Piece)
    BY TargetAssumption
  <2>3. PathInv' /\ \E i \in Id : Grown(e, i)
    BY <2>1, <2>2, SymlinkAdded
  <2> QED
    BY <1>0, <2>1, <2>3, PlainSelected DEF CreateAt
<1> QED
  BY <1>1, <1>2, <1>3, <1>4 DEF CreateAt

\* A hard link or a clone adds an entry for the inode it is to name.
LEMMA CopyStep ==
  ASSUME PathInv, NEW p \in PathNames, NEW q \in PathNames, CopyAt(p, q)
  PROVE  /\ PathInv' /\ ~WantsDirectory(p)
         /\ \E e \in Selected(p) : \E i :
              /\ Grown(e, i)
              /\ \/ /\ call' = Called("clone", p, q)
                    /\ targets'[i] = targets[Lookup(Committed, q, FALSE).inode]
                 \/ /\ call' = Called("link", p, q)
                    /\ Lookup(Committed, q, FALSE) = Found(i)
                 \/ /\ call' = Called("link-followed", p, q)
                    /\ Lookup(Committed, q, TRUE) = Found(i)
<1>0. p \in Seq(Piece)
  BY PathPieces
<1>1. PICK e \in Selected(p) :
        /\ IsNewName(e)
        /\ \/ CloneSymlinkAt(q, e) /\ call' = Called("clone", p, q)
           \/ HardLinkAt(q, e, FALSE) /\ call' = Called("link", p, q)
           \/ HardLinkAt(q, e, TRUE) /\ call' = Called("link-followed", p, q)
  BY DEF CopyAt
<1>2. ~WantsDirectory(p)
  BY <1>0, <1>1, PlainSelected
<1>3. CASE CloneSymlinkAt(q, e) /\ call' = Called("clone", p, q)
  <2> DEFINE t == targets[Lookup(Committed, q, FALSE).inode]
  <2>1. t \in Seq(Piece) /\ CreateSymlinkAt(e, t)
    BY <1>3 DEF CloneSymlinkAt, Resolve, View, PathInv, TargetsKnown
  <2> HIDE DEF t
  <2>2. PathInv' /\ \E i \in Id : Grown(e, i) /\ targets'[i] = t
    BY <1>1, <2>1, SymlinkAdded
  <2> QED
    BY <1>2, <1>3, <2>2 DEF t
<1>4. ASSUME NEW f \in BOOLEAN, HardLinkAt(q, e, f)
      PROVE  PathInv' /\ \E i : Grown(e, i) /\ Lookup(Committed, q, f) = Found(i)
  <2> DEFINE r == Lookup(Committed, q, f)
  <2>1. r.status = "ok" /\ HardLink(e, r.inode) /\ KeepTargets
    BY <1>4 DEF HardLinkAt, Resolve, View
  <2>2. r = Found(r.inode)
    BY <2>1, FoundIsThere
  <2> HIDE DEF r
  <2>3. PathInv' /\ Grown(e, r.inode)
    BY <1>1, <2>1, NameAdded
  <2> QED
    BY <2>2, <2>3 DEF r
<1>5. CASE HardLinkAt(q, e, FALSE) /\ call' = Called("link", p, q)
  <2>1. FALSE \in BOOLEAN
    OBVIOUS
  <2>2. PathInv' /\ \E i : Grown(e, i) /\ Lookup(Committed, q, FALSE) = Found(i)
    BY <1>4, <1>5, <2>1, Zenon
  <2> QED
    BY <1>2, <1>5, <2>2
<1>6. CASE HardLinkAt(q, e, TRUE) /\ call' = Called("link-followed", p, q)
  <2>1. TRUE \in BOOLEAN
    OBVIOUS
  <2>2. PathInv' /\ \E i : Grown(e, i) /\ Lookup(Committed, q, TRUE) = Found(i)
    BY <1>4, <1>6, <2>1, Zenon
  <2> QED
    BY <1>2, <1>6, <2>2
<1> QED
  BY <1>1, <1>3, <1>5, <1>6

\* A removal takes an entry away, and a directory's if the path ends in a slash.
LEMMA DeleteStep ==
  ASSUME PathInv, NEW p \in PathNames, DeleteAt(p)
  PROVE  /\ PathInv'
         /\ call' = Called("remove", p, p)
         /\ \E e \in Selected(Strip(p)) : Shrunk(e) /\ (WantsDirectory(p) => entries[e] \in Dirs(inodes))
<1>0. p \in Seq(Piece)
  BY PathPieces
<1>1. CASE UnlinkAt(p)
  <2>1. PICK e \in Selected(p) : Unlink(e) /\ ForgetTargets
    BY <1>1 DEF UnlinkAt
  <2>2. PathInv' /\ Shrunk(e)
    BY <2>1, NameRemoved
  <2> QED
    BY <1>0, <2>1, <2>2, PlainSelected DEF DeleteAt
<1>2. CASE RemoveDirectoryAt(p) \/ RemoveTreeAt(p)
  <2>1. PICK e \in Selected(Strip(p)) :
           (RemoveDirectory(e) \/ RemoveTree(e)) /\ (KeepTargets \/ ForgetTargets)
    BY <1>2 DEF RemoveDirectoryAt, RemoveTreeAt
  <2>2. PathInv' /\ Shrunk(e)
    BY <2>1, NameRemoved
  <2>3. entries[e] \in DOMAIN inodes /\ inodes[entries[e]].kind = "dir"
    BY <2>1 DEF RemoveDirectory, RemoveTree, IsEntry, KindOf, PathInv, NamespaceInv, EndpointsExist
  <2> QED
    BY <2>1, <2>2, <2>3 DEF DeleteAt, Dirs
<1> QED
  BY <1>1, <1>2 DEF DeleteAt

\* A rename moves an entry, and a directory's if either path ends in a slash.
LEMMA MoveStep ==
  ASSUME PathInv, NEW p \in PathNames, NEW q \in PathNames, MoveAt(p, q)
  PROVE  /\ PathInv'
         /\ call' = Called("rename", p, q)
         /\ \E e \in Selected(Strip(q)) :
               IsEntry(e) /\ (WantsDirectory(p) \/ WantsDirectory(q) => entries[e] \in Dirs(inodes))
<1>1. PICK e \in Selected(Strip(q)), f \in Selected(Strip(p)) :
         RenamePosixAt(q, p, e, f) \/ RenameOverwriteAt(q, p, e, f) \/ RenameExchangeAt(q, p, e, f)
  BY DEF MoveAt
<1>2. /\ \/ IsNewName(f) /\ Rename(e, f)
         \/ RenameOverwriteDirectory(e, f) \/ RenameOverwriteNondirectory(e, f)
         \/ RenameOverwrite(e, f) \/ RenameExchange(e, f)
      /\ KeepTargets \/ ForgetTargets
      /\ Intent(q, p) => KindOf(e) = "dir"
  <2>1. CASE RenamePosixAt(q, p, e, f)
    BY <2>1 DEF RenamePosixAt, RenameAt
  <2>2. CASE RenameOverwriteAt(q, p, e, f)
    BY <2>2 DEF RenameOverwriteAt
  <2>3. CASE RenameExchangeAt(q, p, e, f)
    BY <2>3 DEF RenameExchangeAt
  <2> QED
    BY <1>1, <2>1, <2>2, <2>3
<1>3. PathInv' /\ IsEntry(e)
  BY <1>2, NameMoved
<1>4. entries[e] \in DOMAIN inodes
  BY <1>3 DEF IsEntry, PathInv, NamespaceInv, EndpointsExist
<1>5. WantsDirectory(p) \/ WantsDirectory(q) => entries[e] \in Dirs(inodes)
  BY <1>2, <1>4 DEF Intent, KindOf, Dirs
<1> QED
  BY <1>3, <1>5 DEF MoveAt

\* What a path names in a part of the volume it names in the whole.
LEMMA GrowthKeepsNames ==
  ASSUME NEW v, NEW u, PartOf(v, u)
  PROVE  \A x \in PathNames, f \in BOOLEAN :
            Lookup(v, x, f).status = "ok" => Lookup(u, x, f) = Lookup(v, x, f)
<1> SUFFICES ASSUME NEW x \in PathNames, NEW f \in BOOLEAN, Lookup(v, x, f).status = "ok"
             PROVE  Lookup(u, x, f) = Lookup(v, x, f)
  OBVIOUS
<1>1. x \in Seq(Piece)
  BY PathPieces
<1> QED
  BY <1>1, LookupFits

\* What a call is.
LEMMA CalledFacts ==
  ASSUME NEW kind, NEW p, NEW q, call' = Called(kind, p, q)
  PROVE  call'.kind = kind /\ call'.path = p /\ call'.source = q
BY DEF Called

\* Everything a creation promises.
LEMMA CreateHolds ==
  ASSUME PathInv, NEW p \in PathNames, CreateAt(p)
  PROVE  PathInv' /\ TakesEffect /\ NamesTheSource /\ KeepsNames /\ ActsOnDirectory
<1>1. p \in Seq(Piece)
  BY PathPieces
<1>2. /\ PathInv' /\ call' = Called("create", p, p)
      /\ \E e \in Selected(Strip(p)), i \in Id :
               Grown(e, i) /\ (WantsDirectory(p) => i \in Dirs(inodes'))
  BY CreateStep
<1>3. call'.kind = "create" /\ call'.path = p /\ call'.source = p
  BY <1>2, CalledFacts
<1>4. PICK e \in Selected(Strip(p)), i \in Id : Grown(e, i) /\ (WantsDirectory(p) => i \in Dirs(inodes'))
  BY <1>2
<1>5. IsWellFormed(p) => /\ Lookup(Committed, Strip(p), FALSE) = Failed("NotFound")
                         /\ Lookup(Committed', Strip(p), FALSE) = Found(i)
  BY <1>1, <1>2, <1>4, GrownNames
<1>6. Found(i).status = "ok" /\ Found(i).inode = i
  BY DEF Found
<1>7. TakesEffect
  BY <1>3, <1>5, <1>6 DEF TakesEffect, Succeeds
<1>8. NamesTheSource
  BY <1>3 DEF NamesTheSource, Succeeds
<1>9. KeepsNames
  BY <1>3, <1>4, GrowthKeepsNames DEF KeepsNames, Succeeds, Grown
<1>10. ActsOnDirectory
  <2>1. IsDirectory(Committed', i) <=> i \in Dirs(inodes')
    BY CommittedTables DEF IsDirectory
  <2> QED
    BY <1>3, <1>4, <1>5, <1>6, <2>1 DEF ActsOnDirectory, Succeeds
<1> QED
  BY <1>2, <1>7, <1>8, <1>9, <1>10

\* Everything a hard link or a clone promises.
LEMMA CopyHolds ==
  ASSUME PathInv, NEW p \in PathNames, NEW q \in PathNames, CopyAt(p, q)
  PROVE  PathInv' /\ TakesEffect /\ NamesTheSource /\ KeepsNames /\ ActsOnDirectory
<1>1. p \in Seq(Piece)
  BY PathPieces
<1>2. PathInv' /\ ~WantsDirectory(p)
  BY CopyStep
<1>e. PICK e \in Selected(p) : \E i :
         /\ Grown(e, i)
         /\ \/ /\ call' = Called("clone", p, q)
               /\ targets'[i] = targets[Lookup(Committed, q, FALSE).inode]
            \/ /\ call' = Called("link", p, q)
               /\ Lookup(Committed, q, FALSE) = Found(i)
            \/ /\ call' = Called("link-followed", p, q)
               /\ Lookup(Committed, q, TRUE) = Found(i)
  BY CopyStep
<1>3. PICK i :
         /\ Grown(e, i)
         /\ \/ /\ call' = Called("clone", p, q)
               /\ targets'[i] = targets[Lookup(Committed, q, FALSE).inode]
            \/ /\ call' = Called("link", p, q)
               /\ Lookup(Committed, q, FALSE) = Found(i)
            \/ /\ call' = Called("link-followed", p, q)
               /\ Lookup(Committed, q, TRUE) = Found(i)
  BY <1>e
<1>4. /\ call'.path = p /\ call'.source = q
      /\ \/ /\ call'.kind = "clone"
            /\ targets'[i] = targets[Lookup(Committed, q, FALSE).inode]
         \/ /\ call'.kind = "link"
            /\ Lookup(Committed, q, FALSE) = Found(i)
         \/ /\ call'.kind = "link-followed"
            /\ Lookup(Committed, q, TRUE) = Found(i)
  BY <1>3, CalledFacts
<1>5. Strip(p) = p
  BY <1>2 DEF Strip
<1>6. IsWellFormed(p) => /\ Lookup(Committed, p, FALSE) = Failed("NotFound")
                         /\ Lookup(Committed', p, FALSE) = Found(i)
  BY <1>1, <1>2, <1>3, <1>5, GrownNames
<1>7. Found(i).status = "ok" /\ Found(i).inode = i
  BY DEF Found
<1>8. TakesEffect
  BY <1>4, <1>5, <1>6, <1>7 DEF TakesEffect, Succeeds
<1>9. NamesTheSource
  <2>1. CASE call'.kind = "clone" /\ targets'[i] = targets[Lookup(Committed, q, FALSE).inode]
    BY <1>4, <1>6, <1>7, <2>1 DEF NamesTheSource, Succeeds
  <2>2. CASE call'.kind = "link" /\ Lookup(Committed, q, FALSE) = Found(i)
    <3>1. (call'.kind = "link-followed") = FALSE
      BY <2>2
    <3> QED
      BY <1>4, <1>6, <2>2, <3>1 DEF NamesTheSource, Succeeds
  <2>3. CASE call'.kind = "link-followed" /\ Lookup(Committed, q, TRUE) = Found(i)
    <3>1. (call'.kind = "link-followed") = TRUE
      BY <2>3
    <3> QED
      BY <1>4, <1>6, <2>3, <3>1 DEF NamesTheSource, Succeeds
  <2> QED
    BY <1>4, <2>1, <2>2, <2>3
<1>10. KeepsNames
  BY <1>3, <1>4, GrowthKeepsNames DEF KeepsNames, Succeeds, Grown
<1>11. ActsOnDirectory
  BY <1>4 DEF ActsOnDirectory, Succeeds
<1> QED
  BY <1>2, <1>8, <1>9, <1>10, <1>11

\* Everything a removal promises.
LEMMA DeleteHolds ==
  ASSUME PathInv, NEW p \in PathNames, DeleteAt(p)
  PROVE  PathInv' /\ TakesEffect /\ NamesTheSource /\ KeepsNames /\ ActsOnDirectory
<1>1. p \in Seq(Piece)
  BY PathPieces
<1>2. /\ PathInv' /\ call' = Called("remove", p, p)
      /\ \E e \in Selected(Strip(p)) : Shrunk(e) /\ (WantsDirectory(p) => entries[e] \in Dirs(inodes))
  BY DeleteStep
<1>3. call'.kind = "remove" /\ call'.path = p /\ call'.source = p
  BY <1>2, CalledFacts
<1>4. PICK e \in Selected(Strip(p)) : Shrunk(e) /\ (WantsDirectory(p) => entries[e] \in Dirs(inodes))
  BY <1>2
<1>5. IsWellFormed(p) => Lookup(Committed', Strip(p), FALSE) = Failed("NotFound")
  BY <1>1, <1>4, ShrunkNames
<1>6. IsWellFormed(p) => Lookup(Committed, Strip(p), FALSE) = Found(entries[e])
  <2>1. IsEntry(e)
    BY <1>4 DEF Shrunk, IsEntry
  <2> QED
    BY <1>1, <1>4, <2>1, EntryNames
<1>7. Found(entries[e]).inode = entries[e]
  BY DEF Found
<1>8. TakesEffect
  BY <1>3, <1>5 DEF TakesEffect, Succeeds, Adds
<1>9. NamesTheSource
  BY <1>3 DEF NamesTheSource, Succeeds
<1>10. KeepsNames
  BY <1>3, <1>4, GrowthKeepsNames DEF KeepsNames, Succeeds, Adds, Shrunk
<1>11. ActsOnDirectory
  <2>1. IsDirectory(Committed, entries[e]) <=> entries[e] \in Dirs(inodes)
    BY CommittedTables DEF IsDirectory
  <2> QED
    BY <1>3, <1>4, <1>6, <1>7, <2>1 DEF ActsOnDirectory, Succeeds
<1> QED
  BY <1>2, <1>8, <1>9, <1>10, <1>11

\* Everything a rename promises.
LEMMA MoveHolds ==
  ASSUME PathInv, NEW p \in PathNames, NEW q \in PathNames, MoveAt(p, q)
  PROVE  PathInv' /\ TakesEffect /\ NamesTheSource /\ KeepsNames /\ ActsOnDirectory
<1>1. q \in Seq(Piece)
  BY PathPieces
<1>2. /\ PathInv' /\ call' = Called("rename", p, q)
      /\ \E e \in Selected(Strip(q)) :
            IsEntry(e) /\ (WantsDirectory(p) \/ WantsDirectory(q) => entries[e] \in Dirs(inodes))
  BY MoveStep
<1>3. call'.kind = "rename" /\ call'.path = p /\ call'.source = q
  BY <1>2, CalledFacts
<1>4. PICK e \in Selected(Strip(q)) :
         IsEntry(e) /\ (WantsDirectory(p) \/ WantsDirectory(q) => entries[e] \in Dirs(inodes))
  BY <1>2
<1>5. IsWellFormed(q) => Lookup(Committed, Strip(q), FALSE) = Found(entries[e])
  BY <1>1, <1>4, EntryNames
<1>6. Found(entries[e]).inode = entries[e]
  BY DEF Found
<1>7. TakesEffect /\ NamesTheSource /\ KeepsNames
  BY <1>3 DEF TakesEffect, NamesTheSource, KeepsNames, Succeeds, Adds
<1>8. ActsOnDirectory
  <2>1. IsDirectory(Committed, entries[e]) <=> entries[e] \in Dirs(inodes)
    BY CommittedTables DEF IsDirectory
  <2> QED
    BY <1>3, <1>4, <1>5, <1>6, <2>1 DEF ActsOnDirectory, Succeeds
<1> QED
  BY <1>2, <1>7, <1>8

\* Recovery changes no table and is no call of the others.
LEMMA RecoverHolds ==
  ASSUME PathInv, Recover
  PROVE  PathInv' /\ TakesEffect /\ NamesTheSource /\ KeepsNames /\ ActsOnDirectory
<1>1. UNCHANGED vars /\ targets' = targets /\ inodes' = inodes /\ call' = Called("none", RootPath, RootPath)
  BY DEF Recover, vars
<1>2. PathInv'
  BY <1>1, NamespaceStutter DEF PathInv, TargetsKnown
<1>3. call'.kind = "none"
  BY <1>1, CalledFacts
<1> QED
  BY <1>2, <1>3 DEF TakesEffect, NamesTheSource, KeepsNames, ActsOnDirectory, Succeeds, Adds

\* Every step keeps the invariant and all that the calls promise.
LEMMA PathStep ==
  ASSUME PathInv, PathNext
  PROVE  PathInv' /\ TakesEffect /\ NamesTheSource /\ KeepsNames /\ ActsOnDirectory
BY CreateHolds, CopyHolds, DeleteHolds, MoveHolds, RecoverHolds DEF PathNext

\* The tables are sound, and every symbolic link has a target, after any calls.
LEMMA PathInvHolds == PathSpec => []PathInv
<1>1. PathInit => PathInv
  <2> SUFFICES ASSUME PathInit PROVE PathInv
    OBVIOUS
  <2>1. NamespaceInv
    BY NamespaceInvInit DEF PathInit
  <2>2. DOMAIN targets = {} /\ \A i \in DOMAIN inodes : inodes[i].kind = "dir"
    BY DEF PathInit, Init
  <2> QED
    BY <2>1, <2>2 DEF PathInv, TargetsKnown
<1>2. PathInv /\ UNCHANGED pathVars => PathInv'
  <2> SUFFICES ASSUME PathInv, UNCHANGED pathVars PROVE PathInv'
    OBVIOUS
  <2>1. UNCHANGED vars /\ targets' = targets /\ inodes' = inodes
    BY DEF pathVars, tables, vars
  <2> QED
    BY <2>1, NamespaceStutter DEF PathInv, TargetsKnown
<1>3. PathInv /\ PathNext => PathInv'
  BY PathStep
<1> QED
  BY <1>1, <1>2, <1>3, PTL DEF PathSpec

(***************************************************************************)
(* The theorems about the path-level operations.                           *)
(***************************************************************************)
\* For every volume, path and limit on link expansions: a successful create, link
\* or clone makes its path name something where it named nothing, and a removed
\* path names nothing.
THEOREM CallsTakeEffectHolds == PathSpec => CallsTakeEffect
<1>1. PathInv /\ [PathNext]_pathVars => [TakesEffect]_pathVars
  BY PathStep
<1> QED
  BY <1>1, PathInvHolds, PTL DEF PathSpec, CallsTakeEffect

\* For every volume, path and limit on link expansions: a hard link names what its
\* source names, and a clone reads as its source reads.
THEOREM CopiesNameTheSourceHolds == PathSpec => CopiesNameTheSource
<1>1. PathInv /\ [PathNext]_pathVars => [NamesTheSource]_pathVars
  BY PathStep
<1> QED
  BY <1>1, PathInvHolds, PTL DEF PathSpec, CopiesNameTheSource

\* For every volume, path and limit on link expansions: creating changes nothing
\* that a path names, and removing makes no path name anything new.
THEOREM LookupsAreMonotoneHolds == PathSpec => LookupsAreMonotone
<1>1. PathInv /\ [PathNext]_pathVars => [KeepsNames]_pathVars
  BY PathStep
<1> QED
  BY <1>1, PathInvHolds, PTL DEF PathSpec, LookupsAreMonotone

\* For every volume, path and limit on link expansions: a call with a trailing
\* slash acts on a directory.
THEOREM SlashMeansDirectoryHolds == PathSpec => SlashMeansDirectory
<1>1. PathInv /\ [PathNext]_pathVars => [ActsOnDirectory]_pathVars
  BY PathStep
<1> QED
  BY <1>1, PathInvHolds, PTL DEF PathSpec, SlashMeansDirectory
=============================================================================
