-------------------------- MODULE JournalLogProofs --------------------------
(***************************************************************************)
(* The journal's entries, for logs of any length: what the loops over them *)
(* compute, and what every crash and every reader finds.  What a loop      *)
(* computes is shown by induction on the number of its turns, as the least *)
(* number of turns after which it would not hold.                          *)
(***************************************************************************)
EXTENDS JournalLog, WellFoundedInduction, FiniteSetTheorems, SequenceTheorems, TLAPS

(***************************************************************************)
(* Induction.                                                              *)
(***************************************************************************)
\* A non-empty set of natural numbers has a least member.
LEMMA LeastMember ==
  ASSUME NEW P \in SUBSET Nat, P # {}
  PROVE  \E m \in P : \A i \in P : m <= i
<1>1. PICK x \in P : \A y \in P : ~ (<<y, x>> \in OpToRel(<, Nat))
  BY WFMin, NatLessThanWellFounded, Zenon
<1>2. \A y \in P : ~ (y < x)
  BY <1>1 DEF OpToRel
<1> QED
  BY <1>2

\* Induction, on the set of the numbers of which something holds.
LEMMA Inductive ==
  ASSUME NEW P \in SUBSET Nat, 0 \in P, \A n \in P : n + 1 \in P
  PROVE  \A n \in Nat : n \in P
<1> DEFINE Q == Nat \ P
<1> SUFFICES ASSUME Q # {} PROVE FALSE
  OBVIOUS
<1>1. PICK m \in Q : \A i \in Q : m <= i
  BY LeastMember
<1>2. m # 0 /\ m \in Nat
  BY <1>1
<1>3. m - 1 \in Nat /\ m - 1 \notin Q
  BY <1>1, <1>2
<1>4. m - 1 \in P
  BY <1>3
<1>5. m - 1 + 1 = m
  BY <1>2
<1> QED
  BY <1>1, <1>4, <1>5

\* The largest of some numbers up to n.
LEMMA LargestMember ==
  ASSUME NEW n \in Nat, NEW s \in SUBSET (0 .. n), s # {}
  PROVE  Max(s) \in s /\ \A y \in s : y <= Max(s)
<1> DEFINE P == {n - y : y \in s}
<1>1. P \in SUBSET Nat /\ P # {}
  <2>1. \A y \in s : n - y \in Nat
    OBVIOUS
  <2> QED
    BY <2>1
<1>2. PICK m \in P : \A i \in P : m <= i
  BY <1>1, LeastMember
<1>3. PICK x \in s : m = n - x
  OBVIOUS
<1>4. \A y \in s : x >= y
  BY <1>2, <1>3
<1>5. Max(s) \in s /\ \A y \in s : Max(s) >= y
  BY <1>4 DEF Max
<1> QED
  BY <1>5

(***************************************************************************)
(* The loops over entries.                                                 *)
(***************************************************************************)
\* The body of each loop.
Body(loop, s, e) == IF loop = "plan" THEN PlanStep(s, e)
                    ELSE IF loop = "replay" THEN ReplayStep(s, e)
                    ELSE IF loop = "audit" THEN AuditStep(s, e)
                    ELSE ApplyWrite(s, e)

\* g runs the loop over every set of positions up to n, in order.
Runs(g, loop, base, es, n) ==
  g = [s \in SUBSET (1 .. n) |->
         IF s = {} THEN base ELSE Body(loop, g[s \ {Max(s)}], es[Max(s)])]

\* The state of the loop after n turns.
At(loop, base, es, n) == (CHOOSE g : Runs(g, loop, base, es, n))[1 .. n]

\* What a run is at each set of positions.
LEMMA RunValue ==
  ASSUME NEW g, NEW loop, NEW base, NEW es, NEW n \in Nat, Runs(g, loop, base, es, n)
  PROVE  /\ g[{}] = base
         /\ \A s \in SUBSET (1 .. n) : s # {} => g[s] = Body(loop, g[s \ {Max(s)}], es[Max(s)])
<1> DEFINE h == [s \in SUBSET (1 .. n) |->
                   IF s = {} THEN base ELSE Body(loop, g[s \ {Max(s)}], es[Max(s)])]
<1>1. g = h
  BY DEF Runs
<1>2. h[{}] = base
  OBVIOUS
<1>3. \A s \in SUBSET (1 .. n) : s # {} => h[s] = Body(loop, g[s \ {Max(s)}], es[Max(s)])
  OBVIOUS
<1> HIDE DEF h
<1>4. g[{}] = base
  BY <1>1, <1>2
<1>5. \A s \in SUBSET (1 .. n) : g[s] = h[s]
  BY <1>1
<1> QED
  BY <1>3, <1>4, <1>5

\* Every loop has a run.
LEMMA RunExists ==
  ASSUME NEW loop, NEW base, NEW es
  PROVE  \A n \in Nat : \E g : Runs(g, loop, base, es, n)
<1> DEFINE P == {n \in Nat : \E g : Runs(g, loop, base, es, n)}
<1>1. 0 \in P
  <2> DEFINE g == [s \in SUBSET (1 .. 0) |-> base]
  <2>1. \A s \in SUBSET (1 .. 0) : s = {}
    OBVIOUS
  <2>2. Runs(g, loop, base, es, 0)
    BY <2>1 DEF Runs
  <2> QED
    BY <2>2
<1>2. ASSUME NEW n \in P PROVE n + 1 \in P
  <2>1. PICK g : Runs(g, loop, base, es, n)
    OBVIOUS
  <2>a. n \in Nat
    OBVIOUS
  <2> HIDE DEF P
  <2>b. \A t \in SUBSET (1 .. n) : t # {} => g[t] = Body(loop, g[t \ {Max(t)}], es[Max(t)])
    BY <2>1, <2>a, RunValue
  <2> DEFINE m == n + 1
             F(s) == IF m \in s THEN Body(loop, g[s \ {m}], es[m]) ELSE g[s]
             h == [s \in SUBSET (1 .. m) |-> F(s)]
  <2>2. n \in Nat /\ m \in Nat /\ m \notin 1 .. n
    BY <2>a
  <2>3. ASSUME NEW s \in SUBSET (1 .. m)
        PROVE  h[s] = IF s = {} THEN base ELSE Body(loop, h[s \ {Max(s)}], es[Max(s)])
    <3>1. CASE s = {}
      BY <2>1, <2>2, <3>1, RunValue
    <3>2. CASE m \in s
      <4>1. Max(s) = m
        <5>1. s \in SUBSET (0 .. m) /\ s # {}
          BY <2>2, <3>2
        <5>2. Max(s) \in s /\ \A y \in s : y <= Max(s)
          BY <2>2, <5>1, LargestMember
        <5>3. Max(s) \in 1 .. m /\ m <= Max(s)
          BY <3>2, <5>2
        <5> HIDE DEF m
        <5> QED
          BY <2>2, <5>3
      <4>2. h[s] = Body(loop, g[s \ {m}], es[m])
        BY <3>2
      <4>3. h[s \ {m}] = g[s \ {m}]
        OBVIOUS
      <4> QED
        BY <3>2, <4>1, <4>2, <4>3
    <3>3. CASE s # {} /\ m \notin s
      <4>1. s \in SUBSET (1 .. n) /\ s \in SUBSET (0 .. n)
        BY <2>2, <3>3
      <4>2. h[s] = g[s]
        BY <3>3
      <4>3. s \ {Max(s)} \in SUBSET (1 .. m) /\ m \notin s \ {Max(s)}
        BY <3>3
      <4>4. h[s \ {Max(s)}] = g[s \ {Max(s)}]
        BY <4>3
      <4>5. g[s] = Body(loop, g[s \ {Max(s)}], es[Max(s)])
        BY <2>b, <3>3, <4>1
      <4> QED
        BY <3>3, <4>2, <4>4, <4>5
    <3> QED
      BY <3>1, <3>2, <3>3
  <2>4. Runs(h, loop, base, es, m)
    <3> DEFINE k == [s \in SUBSET (1 .. m) |->
                       IF s = {} THEN base ELSE Body(loop, h[s \ {Max(s)}], es[Max(s)])]
    <3>1. \A s \in SUBSET (1 .. m) : h[s] = k[s]
      BY <2>3
    <3>2. h = k
      BY <3>1
    <3> QED
      BY <3>2 DEF Runs
  <2> QED
    BY <2>2, <2>4 DEF P
<1>3. P \in SUBSET Nat
  OBVIOUS
<1> HIDE DEF P
<1>4. \A n \in Nat : n \in P
  BY <1>1, <1>2, <1>3, Inductive
<1> QED
  BY <1>4 DEF P

\* One turn more.
LEMMA RunTurn ==
  ASSUME NEW g, NEW loop, NEW base, NEW es, NEW n \in Nat, Runs(g, loop, base, es, n),
         NEW m \in Nat, m < n
  PROVE  g[1 .. m + 1] = Body(loop, g[1 .. m], es[m + 1])
<1> DEFINE s == 1 .. m + 1
<1>1. s \in SUBSET (1 .. n) /\ s \in SUBSET (0 .. n) /\ s # {} /\ m + 1 \in s
  OBVIOUS
<1>2. Max(s) \in s /\ \A y \in s : y <= Max(s)
  BY <1>1, LargestMember
<1>3. Max(s) = m + 1
  BY <1>1, <1>2
<1>4. s \ {m + 1} = 1 .. m
  OBVIOUS
<1>5. g[s] = Body(loop, g[s \ {Max(s)}], es[Max(s)])
  <2>1. \A t \in SUBSET (1 .. n) : t # {} => g[t] = Body(loop, g[t \ {Max(t)}], es[Max(t)])
    BY RunValue
  <2> HIDE DEF s
  <2> QED
    BY <1>1, <2>1
<1> QED
  BY <1>3, <1>4, <1>5

\* What a loop has computed after m turns depends on the first m entries only.
LEMMA RunPrefix ==
  ASSUME NEW loop, NEW base, NEW g, NEW es, NEW n \in Nat, Runs(g, loop, base, es, n),
         NEW h, NEW fs, NEW k \in Nat, Runs(h, loop, base, fs, k),
         NEW m \in Nat, m <= n, m <= k, \A x \in 1 .. m : es[x] = fs[x]
  PROVE  g[1 .. m] = h[1 .. m]
<1> DEFINE P == {x \in Nat : x <= m => g[1 .. x] = h[1 .. x]}
<1>1. 0 \in P
  <2>1. 1 .. 0 = {}
    OBVIOUS
  <2>2. g[{}] = base /\ h[{}] = base
    BY RunValue
  <2> QED
    BY <2>1, <2>2
<1>2. ASSUME NEW x \in P PROVE x + 1 \in P
  <2> SUFFICES ASSUME x + 1 <= m PROVE g[1 .. x + 1] = h[1 .. x + 1]
    OBVIOUS
  <2>1. x \in Nat /\ x < n /\ x < k /\ x <= m /\ x + 1 \in 1 .. m
    OBVIOUS
  <2>2. g[1 .. x + 1] = Body(loop, g[1 .. x], es[x + 1])
    BY <2>1, RunTurn
  <2>3. h[1 .. x + 1] = Body(loop, h[1 .. x], fs[x + 1])
    BY <2>1, RunTurn
  <2>4. g[1 .. x] = h[1 .. x] /\ es[x + 1] = fs[x + 1]
    BY <2>1
  <2> QED
    BY <2>2, <2>3, <2>4
<1>3. P \in SUBSET Nat
  OBVIOUS
<1> HIDE DEF P
<1>4. m \in P
  BY <1>1, <1>2, <1>3, Inductive
<1> QED
  BY <1>4 DEF P

\* The state of a loop, turn by turn.
LEMMA AtTurn ==
  ASSUME NEW loop, NEW base, NEW es, NEW n \in Nat
  PROVE  /\ At(loop, base, es, 0) = base
         /\ At(loop, base, es, n + 1) = Body(loop, At(loop, base, es, n), es[n + 1])
         /\ \A fs : (\A x \in 1 .. n : es[x] = fs[x]) => At(loop, base, es, n) = At(loop, base, fs, n)
<1> DEFINE g(fs, k) == CHOOSE g : Runs(g, loop, base, fs, k)
<1>1. \A fs : \A k \in Nat : Runs(g(fs, k), loop, base, fs, k)
  BY RunExists
<1>2. \A fs, k : At(loop, base, fs, k) = g(fs, k)[1 .. k]
  BY DEF At
<1> HIDE DEF g
<1>3. At(loop, base, es, 0) = base
  <2>1. g(es, 0)[{}] = base
    BY <1>1, RunValue
  <2>2. 1 .. 0 = {}
    OBVIOUS
  <2> QED
    BY <1>2, <2>1, <2>2
<1>4. At(loop, base, es, n + 1) = Body(loop, At(loop, base, es, n), es[n + 1])
  <2> DEFINE m == n + 1
  <2>1. m \in Nat /\ n < m /\ n <= m /\ n <= n
    OBVIOUS
  <2>2. Runs(g(es, m), loop, base, es, m) /\ Runs(g(es, n), loop, base, es, n)
    BY <1>1, <2>1
  <2> HIDE DEF m
  <2>3. g(es, m)[1 .. n + 1] = Body(loop, g(es, m)[1 .. n], es[n + 1])
    BY <2>1, <2>2, RunTurn
  <2>4. g(es, m)[1 .. n] = g(es, n)[1 .. n]
    BY <2>1, <2>2, RunPrefix
  <2> QED
    BY <1>2, <2>3, <2>4 DEF m
<1>5. ASSUME NEW fs, \A x \in 1 .. n : es[x] = fs[x]
      PROVE  At(loop, base, es, n) = At(loop, base, fs, n)
  <2>1. Runs(g(es, n), loop, base, es, n) /\ Runs(g(fs, n), loop, base, fs, n) /\ n <= n
    BY <1>1
  <2>2. g(es, n)[1 .. n] = g(fs, n)[1 .. n]
    BY <1>5, <2>1, RunPrefix
  <2> QED
    BY <1>2, <2>2
<1> QED
  BY <1>3, <1>4, <1>5

(***************************************************************************)
(* The four loops.                                                         *)
(***************************************************************************)
PlanStart == [ok |-> TRUE, active |-> None, pending |-> <<>>, writes |-> <<>>, commits |-> 0]
ReplayStart(home) == [ok |-> TRUE, active |-> None, pending |-> <<>>, home |-> home, commits |-> 0]
AuditStart == [ok |-> TRUE, active |-> None, writes |-> 0, commits |-> 0]

PlanAt(es, n) == At("plan", PlanStart, es, n)
ReplayAt(home, es, n) == At("replay", ReplayStart(home), es, n)
AuditAt(es, n) == At("audit", AuditStart, es, n)
HomeAt(home, es, n) == At("apply", home, es, n)

\* Any run ends where the loop does.
LEMMA RunEnds ==
  ASSUME NEW loop, NEW base, NEW es, NEW n \in Nat, NEW g, Runs(g, loop, base, es, n)
  PROVE  g[1 .. n] = At(loop, base, es, n)
<1> DEFINE h == CHOOSE h : Runs(h, loop, base, es, n)
<1>1. Runs(h, loop, base, es, n)
  BY RunExists
<1>2. At(loop, base, es, n) = h[1 .. n]
  BY DEF At
<1> HIDE DEF h
<1>3. n <= n /\ \A x \in 1 .. n : es[x] = es[x]
  OBVIOUS
<1> QED
  BY <1>1, <1>2, <1>3, RunPrefix

\* plan_recovery.
LEMMA PlanLoop ==
  ASSUME NEW es, NEW n \in Nat, DOMAIN es = 1 .. n
  PROVE  PlanRecovery(es) = PlanAt(es, n)
<1> DEFINE Is(g) == g = [s \in SUBSET (1 .. n) |->
                           IF s = {} THEN PlanStart ELSE PlanStep(g[s \ {Max(s)}], es[Max(s)])]
           h == CHOOSE g : Is(g)
<1>1. PlanRecovery(es) = h[1 .. n]
  BY DEF PlanRecovery, FoldLeft, MapThenFoldSet, PlanStart
<1>2. \A g : Is(g) <=> Runs(g, "plan", PlanStart, es, n)
  BY DEF Runs, Body
<1>3. \E g : Is(g)
  BY <1>2, RunExists
<1>4. Is(h)
  BY <1>3
<1> HIDE DEF h, Is
<1>5. Runs(h, "plan", PlanStart, es, n)
  BY <1>2, <1>4
<1> QED
  BY <1>1, <1>5, RunEnds DEF PlanAt

\* replay_into.
LEMMA ReplayLoop ==
  ASSUME NEW home, NEW es, NEW n \in Nat, DOMAIN es = 1 .. n
  PROVE  ReplayInto(home, es) = ReplayAt(home, es, n)
<1> DEFINE Is(g) == g = [s \in SUBSET (1 .. n) |->
                           IF s = {} THEN ReplayStart(home) ELSE ReplayStep(g[s \ {Max(s)}], es[Max(s)])]
           h == CHOOSE g : Is(g)
<1>1. ReplayInto(home, es) = h[1 .. n]
  BY DEF ReplayInto, FoldLeft, MapThenFoldSet, ReplayStart
<1>2. \A g : Is(g) <=> Runs(g, "replay", ReplayStart(home), es, n)
  BY DEF Runs, Body
<1>3. \E g : Is(g)
  BY <1>2, RunExists
<1>4. Is(h)
  BY <1>3
<1> HIDE DEF h, Is
<1>5. Runs(h, "replay", ReplayStart(home), es, n)
  BY <1>2, <1>4
<1> QED
  BY <1>1, <1>5, RunEnds DEF ReplayAt

\* audit_journal, validate_entries and validate_complete_entries.
LEMMA AuditLoop ==
  ASSUME NEW es, NEW n \in Nat, DOMAIN es = 1 .. n
  PROVE  AuditJournal(es) = AuditAt(es, n)
<1> DEFINE Is(g) == g = [s \in SUBSET (1 .. n) |->
                           IF s = {} THEN AuditStart ELSE AuditStep(g[s \ {Max(s)}], es[Max(s)])]
           h == CHOOSE g : Is(g)
<1>1. AuditJournal(es) = h[1 .. n]
  BY DEF AuditJournal, FoldLeft, MapThenFoldSet, AuditStart
<1>2. \A g : Is(g) <=> Runs(g, "audit", AuditStart, es, n)
  BY DEF Runs, Body
<1>3. \E g : Is(g)
  BY <1>2, RunExists
<1>4. Is(h)
  BY <1>3
<1> HIDE DEF h, Is
<1>5. Runs(h, "audit", AuditStart, es, n)
  BY <1>2, <1>4
<1> QED
  BY <1>1, <1>5, RunEnds DEF AuditAt

\* The home writes of a plan.
LEMMA ApplyLoop ==
  ASSUME NEW home, NEW es, NEW n \in Nat, DOMAIN es = 1 .. n
  PROVE  Applied(home, es) = HomeAt(home, es, n)
<1> DEFINE Is(g) == g = [s \in SUBSET (1 .. n) |->
                           IF s = {} THEN home ELSE ApplyWrite(g[s \ {Max(s)}], es[Max(s)])]
           h == CHOOSE g : Is(g)
<1>1. Applied(home, es) = h[1 .. n]
  BY DEF Applied, FoldLeft, MapThenFoldSet
<1>2. \A g : Is(g) <=> Runs(g, "apply", home, es, n)
  BY DEF Runs, Body
<1>3. \E g : Is(g)
  BY <1>2, RunExists
<1>4. Is(h)
  BY <1>3
<1> HIDE DEF h, Is
<1>5. Runs(h, "apply", home, es, n)
  BY <1>2, <1>4
<1> QED
  BY <1>1, <1>5, RunEnds DEF HomeAt

\* The loops, turn by turn.
LEMMA PlanTurn ==
  ASSUME NEW es, NEW n \in Nat
  PROVE  /\ PlanAt(es, 0) = PlanStart
         /\ PlanAt(es, n + 1) = PlanStep(PlanAt(es, n), es[n + 1])
         /\ \A fs : (\A x \in 1 .. n : es[x] = fs[x]) => PlanAt(es, n) = PlanAt(fs, n)
<1>1. \A s, e : Body("plan", s, e) = PlanStep(s, e)
  BY DEF Body
<1>2. PlanAt(es, 0) = PlanStart
  BY AtTurn DEF PlanAt
<1>3. PlanAt(es, n + 1) = Body("plan", PlanAt(es, n), es[n + 1])
  BY AtTurn DEF PlanAt
<1>4. \A fs : (\A x \in 1 .. n : es[x] = fs[x]) => PlanAt(es, n) = PlanAt(fs, n)
  BY AtTurn DEF PlanAt
<1> QED
  BY <1>1, <1>2, <1>3, <1>4

\* The loop of replay_into, turn by turn.
LEMMA ReplayTurn ==
  ASSUME NEW home, NEW es, NEW n \in Nat
  PROVE  /\ ReplayAt(home, es, 0) = ReplayStart(home)
         /\ ReplayAt(home, es, n + 1) = ReplayStep(ReplayAt(home, es, n), es[n + 1])
<1>1. \A s, e : Body("replay", s, e) = ReplayStep(s, e)
  BY DEF Body
<1>2. ReplayAt(home, es, 0) = ReplayStart(home)
  BY AtTurn DEF ReplayAt
<1>3. ReplayAt(home, es, n + 1) = Body("replay", ReplayAt(home, es, n), es[n + 1])
  BY AtTurn DEF ReplayAt
<1> QED
  BY <1>1, <1>2, <1>3

\* The loop of audit_journal, turn by turn.
LEMMA AuditTurn ==
  ASSUME NEW es, NEW n \in Nat
  PROVE  /\ AuditAt(es, 0) = AuditStart
         /\ AuditAt(es, n + 1) = AuditStep(AuditAt(es, n), es[n + 1])
<1>1. \A s, e : Body("audit", s, e) = AuditStep(s, e)
  BY DEF Body
<1>2. AuditAt(es, 0) = AuditStart
  BY AtTurn DEF AuditAt
<1>3. AuditAt(es, n + 1) = Body("audit", AuditAt(es, n), es[n + 1])
  BY AtTurn DEF AuditAt
<1> QED
  BY <1>1, <1>2, <1>3

\* The loop of recover_journal over the planned writes, turn by turn.
LEMMA HomeTurn ==
  ASSUME NEW home, NEW es, NEW n \in Nat
  PROVE  /\ HomeAt(home, es, 0) = home
         /\ HomeAt(home, es, n + 1) = ApplyWrite(HomeAt(home, es, n), es[n + 1])
<1>1. \A s, e : Body("apply", s, e) = ApplyWrite(s, e)
  BY DEF Body
<1>2. HomeAt(home, es, 0) = home
  BY AtTurn DEF HomeAt
<1>3. HomeAt(home, es, n + 1) = Body("apply", HomeAt(home, es, n), es[n + 1])
  BY AtTurn DEF HomeAt
<1> QED
  BY <1>1, <1>2, <1>3

(***************************************************************************)
(* Writes and the home blocks.                                             *)
(***************************************************************************)
HomeOrOther == HomeBlock \cup OtherBlock
WriteEntry == [kind : {"Write"}, txid : Txid, block : HomeOrOther, data : Value]

\* The write at k is the last one to its block.
IsLast(ws, n, k) == k \in 1 .. n /\ \A x \in k + 1 .. n : ws[x].block # ws[k].block

\* home after the first n writes: a block has what the last write to it left.
Overlays(new, home, ws, n) ==
  /\ new \in Home
  /\ \A b \in HomeOrOther : (\A k \in 1 .. n : ws[k].block # b) => new[b] = home[b]
  /\ \A k \in 1 .. n : IsLast(ws, n, k) => new[ws[k].block] = ws[k].data

\* After n writes every block holds the last of them that went to it.
LEMMA HomeOverlays ==
  ASSUME NEW home \in Home, NEW ws \in Seq(WriteEntry)
  PROVE  \A n \in 0 .. Len(ws) : Overlays(HomeAt(home, ws, n), home, ws, n)
<1> DEFINE P == {n \in Nat : n <= Len(ws) => Overlays(HomeAt(home, ws, n), home, ws, n)}
<1>0. Len(ws) \in Nat /\ \A k \in 1 .. Len(ws) : ws[k] \in WriteEntry
  BY LenProperties, ElementOfSeq
<1>1. 0 \in P
  BY HomeTurn DEF Overlays
<1>2. ASSUME NEW n \in P PROVE n + 1 \in P
  <2> SUFFICES ASSUME n + 1 <= Len(ws) PROVE Overlays(HomeAt(home, ws, n + 1), home, ws, n + 1)
    OBVIOUS
  <2> DEFINE old == HomeAt(home, ws, n)
             m == n + 1
             new == HomeAt(home, ws, m)
             b == ws[m].block
  <2>1. n \in Nat /\ m \in Nat /\ m \in 1 .. Len(ws) /\ n <= Len(ws)
    BY <1>0
  <2>2. Overlays(old, home, ws, n)
    BY <2>1
  <2>3. ws[m] \in WriteEntry /\ b \in HomeOrOther /\ ws[m].data \in Value
    BY <1>0, <2>1 DEF WriteEntry
  <2>4. new = [old EXCEPT ![b] = ws[m].data]
    BY <2>1, HomeTurn DEF ApplyWrite
  <2>5. m = n + 1
    OBVIOUS
  <2> HIDE DEF old, m, new, b, P
  <2>6. /\ new \in Home /\ new[b] = ws[m].data
        /\ \A c \in HomeOrOther : c # b => new[c] = old[c]
    BY <2>2, <2>3, <2>4 DEF Overlays, Home, HomeOrOther
  <2>7. ASSUME NEW c \in HomeOrOther, \A k \in 1 .. m : ws[k].block # c PROVE new[c] = home[c]
    <3>1. c # b /\ \A k \in 1 .. n : ws[k].block # c
      BY <2>1, <2>5, <2>7 DEF b
    <3> QED
      BY <2>2, <2>6, <3>1 DEF Overlays
  <2>8. ASSUME NEW k \in 1 .. m, IsLast(ws, m, k) PROVE new[ws[k].block] = ws[k].data
    <3>1. CASE k = m
      BY <2>6, <3>1 DEF b
    <3>2. CASE k # m
      <4>1. k \in 1 .. n /\ m \in k + 1 .. m
        BY <2>1, <2>5, <3>2
      <4>2. ws[k].block # b /\ IsLast(ws, n, k)
        BY <2>1, <2>5, <2>8, <4>1 DEF IsLast, b
      <4>3. ws[k].block \in HomeOrOther
        BY <1>0, <2>1, <4>1, <2>5 DEF WriteEntry
      <4> QED
        BY <2>2, <2>6, <4>1, <4>2, <4>3 DEF Overlays
    <3> QED
      BY <3>1, <3>2
  <2>9. Overlays(new, home, ws, m)
    BY <2>6, <2>7, <2>8 DEF Overlays
  <2> QED
    BY <2>9 DEF new, m
<1>3. P \in SUBSET Nat
  OBVIOUS
<1>4. \A n \in Nat : n \in P
  <2> HIDE DEF P
  <2> QED
    BY <1>1, <1>2, <1>3, Inductive
<1> QED
  BY <1>0, <1>4

\* What recovery's home writes do, without the loop.
LEMMA AppliedOverlays ==
  ASSUME NEW home \in Home, NEW ws \in Seq(WriteEntry)
  PROVE  Overlays(Applied(home, ws), home, ws, Len(ws))
<1>1. Len(ws) \in Nat /\ DOMAIN ws = 1 .. Len(ws) /\ Len(ws) \in 0 .. Len(ws)
  BY LenProperties
<1>2. Applied(home, ws) = HomeAt(home, ws, Len(ws))
  BY <1>1, ApplyLoop
<1> QED
  BY <1>1, <1>2, HomeOverlays

\* A block that is written to at all has a last write.
LEMMA LastWrite ==
  ASSUME NEW ws, NEW n \in Nat, NEW b, NEW k \in 1 .. n, ws[k].block = b
  PROVE  \E x \in 1 .. n : ws[x].block = b /\ IsLast(ws, n, x)
<1> DEFINE S == {x \in 1 .. n : ws[x].block = b}
<1>1. S \in SUBSET (0 .. n) /\ S # {}
  OBVIOUS
<1>2. Max(S) \in S /\ \A y \in S : y <= Max(S)
  BY <1>1, LargestMember
<1>3. PICK m \in S : \A y \in S : y <= m
  BY <1>2
<1>4. \A x \in m + 1 .. n : ws[x].block # b
  BY <1>3
<1> QED
  BY <1>3, <1>4 DEF IsLast

\* The home blocks are determined.
LEMMA OverlaysUnique ==
  ASSUME NEW home, NEW ws \in Seq(WriteEntry), NEW n \in 0 .. Len(ws), NEW f, NEW g,
         Overlays(f, home, ws, n), Overlays(g, home, ws, n)
  PROVE  f = g
<1>0. n \in Nat
  BY LenProperties
<1>1. ASSUME NEW b \in HomeOrOther PROVE f[b] = g[b]
  <2>1. CASE \A k \in 1 .. n : ws[k].block # b
    BY <2>1 DEF Overlays
  <2>2. CASE \E k \in 1 .. n : ws[k].block = b
    <3>1. PICK x \in 1 .. n : ws[x].block = b /\ IsLast(ws, n, x)
      BY <1>0, <2>2, LastWrite
    <3> QED
      BY <3>1 DEF Overlays
  <2> QED
    BY <2>1, <2>2
<1>2. f \in Home /\ g \in Home
  BY DEF Overlays
<1> QED
  BY <1>1, <1>2 DEF Home, HomeOrOther

\* Nothing to write.
LEMMA AppliedNothing ==
  ASSUME NEW home
  PROVE  Applied(home, <<>>) = home
<1>1. DOMAIN <<>> = 1 .. 0
  OBVIOUS
<1>2. Applied(home, <<>>) = HomeAt(home, <<>>, 0)
  BY <1>1, ApplyLoop
<1> QED
  BY <1>2, HomeTurn

\* One list of writes after the other.
LEMMA AppliedInTurn ==
  ASSUME NEW home \in Home, NEW s \in Seq(WriteEntry), NEW t \in Seq(WriteEntry)
  PROVE  Applied(home, s \o t) = Applied(Applied(home, s), t)
<1> DEFINE w == s \o t
           m == Len(s)
           n == Len(t)
           l == m + n
           f == Applied(home, s)
           g == Applied(f, t)
<1>1. /\ m \in Nat /\ n \in Nat /\ l \in Nat
      /\ w \in Seq(WriteEntry) /\ Len(w) = l
      /\ \A x \in 1 .. l : w[x] = IF x <= m THEN s[x] ELSE t[x - m]
  BY LenProperties, ConcatProperties
<1>2. Overlays(f, home, s, m)
  BY AppliedOverlays
<1>3. f \in Home
  BY <1>2 DEF Overlays
<1>4. Overlays(g, f, t, n)
  BY <1>3, AppliedOverlays
<1>5. Overlays(Applied(home, w), home, w, l)
  BY <1>1, AppliedOverlays
<1>a. \A x \in 1 .. m : s[x] \in WriteEntry
  BY ElementOfSeq
<1>b. \A x \in 1 .. m : x \in 1 .. l /\ w[x] = s[x]
  BY <1>1
<1>c. \A x \in 1 .. n : m + x \in 1 .. l /\ w[m + x] = t[x]
  BY <1>1
<1>d. l = m + n
  OBVIOUS
<1> HIDE DEF w, m, n, l, f, g
<1>6. ASSUME NEW b \in HomeOrOther, \A k \in 1 .. l : w[k].block # b PROVE g[b] = home[b]
  <2>1. \A k \in 1 .. m : s[k].block # b
    BY <1>6, <1>b
  <2>2. \A k \in 1 .. n : t[k].block # b
    BY <1>6, <1>c
  <2> QED
    BY <1>2, <1>4, <2>1, <2>2 DEF Overlays
<1>7. ASSUME NEW k \in 1 .. l, IsLast(w, l, k) PROVE g[w[k].block] = w[k].data
  <2>0. \A x \in k + 1 .. l : w[x].block # w[k].block
    BY <1>7 DEF IsLast
  <2>1. CASE k <= m
    <3>1. k \in 1 .. m /\ w[k] = s[k]
      BY <1>1, <1>b, <2>1
    <3>2. IsLast(s, m, k)
      <4>1. \A x \in k + 1 .. m : x \in k + 1 .. l /\ x \in 1 .. m
        BY <1>1, <1>d, <3>1
      <4> QED
        BY <1>b, <2>0, <3>1, <4>1 DEF IsLast
    <3>3. \A x \in 1 .. n : t[x].block # s[k].block
      <4>1. \A x \in 1 .. n : m + x \in k + 1 .. l
        BY <1>1, <1>d, <3>1
      <4> QED
        BY <1>c, <2>0, <3>1, <4>1
    <3>4. s[k].block \in HomeOrOther
      BY <1>a, <3>1 DEF WriteEntry
    <3> QED
      BY <1>2, <1>4, <3>1, <3>2, <3>3, <3>4 DEF Overlays
  <2>2. CASE ~ (k <= m)
    <3> DEFINE j == k - m
    <3>1. j \in 1 .. n /\ k = m + j
      BY <1>1, <1>d, <2>2
    <3> HIDE DEF j
    <3>2. w[k] = t[j]
      BY <1>c, <3>1
    <3>3. IsLast(t, n, j)
      <4>1. \A x \in j + 1 .. n : m + x \in k + 1 .. l /\ x \in 1 .. n
        BY <1>1, <1>d, <3>1
      <4> QED
        BY <1>c, <2>0, <3>1, <3>2, <4>1 DEF IsLast
    <3> QED
      BY <1>4, <3>1, <3>2, <3>3 DEF Overlays
  <2> QED
    BY <2>1, <2>2
<1>8. Overlays(g, home, w, l)
  BY <1>4, <1>6, <1>7 DEF Overlays
<1>9. l \in 0 .. Len(w)
  BY <1>1
<1>10. Applied(home, w) = g
  BY <1>1, <1>5, <1>8, <1>9, OverlaysUnique
<1> QED
  BY <1>10 DEF w, g, f

\* Writes that are repeated from the start leave what they leave once.
LEMMA AppliedAgain ==
  ASSUME NEW home \in Home, NEW ws \in Seq(WriteEntry), NEW n \in 0 .. Len(ws)
  PROVE  /\ Applied(home, SubSeq(ws, 1, n)) \in Home
         /\ Applied(Applied(home, SubSeq(ws, 1, n)), ws) = Applied(home, ws)
<1> DEFINE p == SubSeq(ws, 1, n)
           l == Len(ws)
           f == Applied(home, p)
           g == Applied(f, ws)
<1>1. l \in Nat /\ n \in Nat /\ n <= l /\ \A x \in 1 .. l : ws[x] \in WriteEntry
  BY LenProperties, ElementOfSeq
<1>2. p \in Seq(WriteEntry) /\ Len(p) = n /\ \A x \in 1 .. n : p[x] = ws[x]
  <2>1. 1 \in Int /\ n \in Int /\ \A x \in 1 .. n : ws[x] \in WriteEntry
    BY <1>1
  <2>2. /\ SubSeq(ws, 1, n) \in Seq(WriteEntry)
        /\ Len(SubSeq(ws, 1, n)) = IF 1 <= n THEN n - 1 + 1 ELSE 0
        /\ \A x \in 1 .. n - 1 + 1 : SubSeq(ws, 1, n)[x] = ws[1 + x - 1]
    BY <2>1, SubSeqProperties
  <2> QED
    BY <1>1, <2>2
<1> HIDE DEF p
<1>3. Overlays(f, home, p, n)
  BY <1>2, AppliedOverlays
<1>4. f \in Home
  BY <1>3 DEF Overlays
<1>5. Overlays(g, f, ws, l)
  BY <1>4, AppliedOverlays
<1>6. Overlays(Applied(home, ws), home, ws, l)
  BY AppliedOverlays
<1> HIDE DEF f, g, l
<1>7. ASSUME NEW b \in HomeOrOther, \A k \in 1 .. l : ws[k].block # b PROVE g[b] = home[b]
  <2>1. \A k \in 1 .. n : p[k].block # b
    BY <1>1, <1>2, <1>7
  <2> QED
    BY <1>3, <1>5, <1>7, <2>1 DEF Overlays
<1>8. Overlays(g, home, ws, l)
  BY <1>5, <1>7 DEF Overlays
<1>9. l \in 0 .. Len(ws)
  BY <1>1 DEF l
<1>10. g = Applied(home, ws)
  BY <1>6, <1>8, <1>9, OverlaysUnique
<1> QED
  BY <1>4, <1>10 DEF f, g, p

\* Blocks that no write targets stay as they are.
LEMMA AppliedElsewhere ==
  ASSUME NEW home \in Home, NEW ws \in Seq(WriteEntry), NEW b \in HomeOrOther,
         \A k \in 1 .. Len(ws) : ws[k].block # b
  PROVE  Applied(home, ws) \in Home /\ Applied(home, ws)[b] = home[b]
<1>1. Overlays(Applied(home, ws), home, ws, Len(ws))
  BY AppliedOverlays
<1> QED
  BY <1>1 DEF Overlays

(***************************************************************************)
(* plan_recovery.                                                          *)
(***************************************************************************)
\* The state of the loop: what it has collected comes from the entries read.
PlanState == [ok : BOOLEAN, active : Txid \cup {None}, pending : Seq(WriteEntry),
              writes : Seq(WriteEntry), commits : Nat]

PlanType(p, es, n) ==
  /\ p \in PlanState
  /\ p.ok /\ p.active = None => p.pending = <<>>
  /\ \A k \in 1 .. Len(p.pending) : \E x \in 1 .. n : p.pending[k] = es[x]
  /\ \A k \in 1 .. Len(p.writes) : \E x \in 1 .. n : p.writes[k] = es[x]

\* An entry is a begin, a write or a commit.
LEMMA EntryKinds ==
  ASSUME NEW e \in JournalEntry
  PROVE  /\ e.txid \in Txid /\ e.txid # None
         /\ e.kind \in {"Begin", "Write", "Commit"}
         /\ e.kind = "Write" => e \in WriteEntry
BY ScanAssumption DEF JournalEntry, WriteEntry, HomeOrOther, Txid, None

\* One more at the end.
LEMMA Appended ==
  ASSUME NEW S, NEW s \in Seq(S), NEW x \in S
  PROVE  /\ Append(s, x) \in Seq(S) /\ Len(Append(s, x)) = Len(s) + 1
         /\ \A k \in 1 .. Len(s) : Append(s, x)[k] = s[k]
         /\ Append(s, x)[Len(s) + 1] = x
         /\ Len(s) \in Nat
BY AppendProperties, LenProperties

\* One turn of the loop, field by field.
PlanMoves(p, q, e) ==
  /\ q.ok <=> p.ok /\ InOrder(p.active, e)
  /\ ~ q.ok => /\ q.active = p.active /\ q.pending = p.pending
               /\ q.writes = p.writes /\ q.commits = p.commits
  /\ q.ok /\ e.kind = "Begin" => /\ q.active = e.txid /\ q.pending = <<>>
                                /\ q.writes = p.writes /\ q.commits = p.commits
  /\ q.ok /\ e.kind = "Write" => /\ q.active = p.active /\ q.pending = Append(p.pending, e)
                                /\ q.writes = p.writes /\ q.commits = p.commits
  /\ q.ok /\ e.kind = "Commit" => /\ q.active = None /\ q.pending = <<>>
                                 /\ q.writes = p.writes \o p.pending /\ q.commits = p.commits + 1

\* One turn of plan_recovery, field by field.
LEMMA PlanStepMoves ==
  ASSUME NEW p \in PlanState, NEW e \in JournalEntry
  PROVE  PlanStep(p, e) \in PlanState /\ PlanMoves(p, PlanStep(p, e), e)
<1> DEFINE q == PlanStep(p, e)
<1>1. /\ e.txid \in Txid /\ e.txid # None
      /\ e.kind \in {"Begin", "Write", "Commit"}
      /\ e.kind = "Write" => e \in WriteEntry
  BY EntryKinds
<1>2. /\ p.ok \in BOOLEAN /\ p.active \in Txid \cup {None} /\ p.pending \in Seq(WriteEntry)
      /\ p.writes \in Seq(WriteEntry) /\ p.commits \in Nat
      /\ p = [ok |-> p.ok, active |-> p.active, pending |-> p.pending, writes |-> p.writes,
              commits |-> p.commits]
  BY DEF PlanState
<1>3. <<>> \in Seq(WriteEntry)
  BY EmptySeq
<1>4. CASE ~ p.ok \/ ~ InOrder(p.active, e)
  <2>1. q = [ok |-> FALSE, active |-> p.active, pending |-> p.pending, writes |-> p.writes,
             commits |-> p.commits]
    BY <1>2, <1>4 DEF PlanStep
  <2>2. q \in PlanState /\ ~ q.ok
    BY <1>2, <2>1 DEF PlanState
  <2> QED
    BY <1>4, <2>1, <2>2 DEF PlanMoves
<1>5. CASE p.ok /\ InOrder(p.active, e) /\ e.kind = "Begin"
  <2>1. q = [ok |-> TRUE, active |-> e.txid, pending |-> <<>>, writes |-> p.writes,
             commits |-> p.commits]
    BY <1>2, <1>5 DEF PlanStep
  <2>2. q \in PlanState /\ q.ok
    BY <1>1, <1>2, <1>3, <2>1 DEF PlanState
  <2> QED
    BY <1>5, <2>1, <2>2 DEF PlanMoves
<1>6. CASE p.ok /\ InOrder(p.active, e) /\ e.kind = "Write"
  <2> DEFINE u == Append(p.pending, e)
  <2>1. q = [ok |-> TRUE, active |-> p.active, pending |-> u, writes |-> p.writes,
             commits |-> p.commits]
    BY <1>2, <1>6 DEF PlanStep
  <2>2. u \in Seq(WriteEntry)
    BY <1>1, <1>2, <1>6, Appended
  <2> HIDE DEF u
  <2>3. q \in PlanState /\ q.ok
    BY <1>1, <1>2, <2>1, <2>2 DEF PlanState
  <2> QED
    BY <1>6, <2>1, <2>3 DEF PlanMoves, u
<1>7. CASE p.ok /\ InOrder(p.active, e) /\ e.kind = "Commit"
  <2> DEFINE u == p.writes \o p.pending
  <2>1. q = [ok |-> TRUE, active |-> None, pending |-> <<>>, writes |-> u,
             commits |-> p.commits + 1]
    BY <1>2, <1>7 DEF PlanStep
  <2>2. u \in Seq(WriteEntry)
    BY <1>2, ConcatProperties
  <2> HIDE DEF u
  <2>3. q \in PlanState /\ q.ok
    BY <1>1, <1>2, <1>3, <2>1, <2>2 DEF PlanState
  <2>4. q.active = None /\ q.pending = <<>> /\ q.writes = u /\ q.commits = p.commits + 1
    BY <2>1
  <2> HIDE DEF q
  <2>5. e.kind # "Begin" /\ e.kind # "Write"
    BY <1>7
  <2>6. PlanMoves(p, q, e)
    BY <1>7, <2>3, <2>4, <2>5, Zenon DEF PlanMoves, u
  <2> QED
    BY <2>3, <2>6 DEF q
<1> QED
  BY <1>1, <1>4, <1>5, <1>6, <1>7

\* Everything the loop collects is an entry it has read.
LEMMA PlanTyped ==
  ASSUME NEW es \in Seq(JournalEntry)
  PROVE  \A n \in 0 .. Len(es) : PlanType(PlanAt(es, n), es, n)
<1> DEFINE P == {n \in Nat : n <= Len(es) => PlanType(PlanAt(es, n), es, n)}
<1>0. Len(es) \in Nat /\ \A k \in 1 .. Len(es) : es[k] \in JournalEntry
  BY LenProperties, ElementOfSeq
<1>1. 0 \in P
  <2>1. PlanAt(es, 0) = PlanStart
    BY PlanTurn
  <2> DEFINE nil == <<>>
  <2>2. nil \in Seq(WriteEntry) /\ Len(nil) = 0
    BY EmptySeq
  <2>3. PlanStart = [ok |-> TRUE, active |-> None, pending |-> nil, writes |-> nil, commits |-> 0]
    BY DEF PlanStart
  <2>4. \A p, k : PlanType(p, es, k) <=>
          /\ p \in PlanState
          /\ p.ok /\ p.active = None => p.pending = nil
          /\ \A j \in 1 .. Len(p.pending) : \E x \in 1 .. k : p.pending[j] = es[x]
          /\ \A j \in 1 .. Len(p.writes) : \E x \in 1 .. k : p.writes[j] = es[x]
    BY DEF PlanType
  <2> HIDE DEF nil
  <2>5. PlanStart \in PlanState /\ PlanStart.pending = nil /\ PlanStart.writes = nil
    BY <2>2, <2>3 DEF PlanState
  <2>6. 1 .. Len(nil) = {}
    BY <2>2
  <2>7. PlanType(PlanStart, es, 0)
    BY <2>4, <2>5, <2>6
  <2> QED
    BY <2>1, <2>7
<1>2. ASSUME NEW n \in P PROVE n + 1 \in P
  <2> SUFFICES ASSUME n + 1 <= Len(es) PROVE PlanType(PlanAt(es, n + 1), es, n + 1)
    OBVIOUS
  <2> DEFINE m == n + 1
             p == PlanAt(es, n)
             q == PlanAt(es, m)
             e == es[m]
             nil == <<>>
             S == {es[x] : x \in 1 .. m}
             In(t) == \A k \in 1 .. Len(t) : t[k] \in S
  <2>1. n \in Nat /\ m \in Nat /\ m \in 1 .. Len(es) /\ n <= Len(es) /\ m \in 1 .. m /\ 1 .. n \subseteq 1 .. m
    BY <1>0
  <2>2. PlanType(p, es, n)
    BY <2>1
  <2>3. q = PlanStep(p, e)
    BY <2>1, PlanTurn
  <2>4. e \in JournalEntry
    BY <1>0, <2>1
  <2>5. /\ e.txid \in Txid /\ e.txid # None
        /\ e.kind \in {"Begin", "Write", "Commit"}
        /\ e.kind = "Write" => e \in WriteEntry
    BY <2>4, EntryKinds
  <2>6. e \in S
    BY <2>1
  <2>7. p \in PlanState /\ In(p.pending) /\ In(p.writes)
    BY <2>1, <2>2 DEF PlanType
  <2>8. q \in PlanState /\ PlanMoves(p, q, e)
    BY <2>3, <2>4, <2>7, PlanStepMoves
  <2>9. p.ok /\ p.active = None => p.pending = nil
    BY <2>2 DEF PlanType
  <2>10. nil \in Seq(WriteEntry) /\ Len(nil) = 0 /\ In(nil)
    BY EmptySeq
  <2>11. p.pending \in Seq(WriteEntry) /\ p.writes \in Seq(WriteEntry)
    BY <2>7 DEF PlanState
  <2>12. /\ q \in PlanState
         /\ q.ok /\ q.active = None => q.pending = nil
         /\ In(q.pending) /\ In(q.writes)
         => PlanType(q, es, m)
    BY DEF PlanType
  <2>13. e \in WriteEntry => In(Append(p.pending, e))
    <3> SUFFICES ASSUME e \in WriteEntry PROVE In(Append(p.pending, e))
      OBVIOUS
    <3> DEFINE u == Append(p.pending, e)
               l == Len(p.pending)
    <3>1. /\ Len(u) = l + 1 /\ \A k \in 1 .. l : u[k] = p.pending[k]
          /\ u[l + 1] = e /\ l \in Nat
      BY <2>11, Appended
    <3>2. \A k \in 1 .. l : p.pending[k] \in S
      BY <2>7
    <3> HIDE DEF u, l, S, e, p
    <3>3. \A k \in 1 .. Len(u) : u[k] \in S
      BY <2>6, <3>1, <3>2
    <3> QED
      BY <3>3 DEF u
  <2>14. In(p.writes \o p.pending)
    <3> DEFINE u == p.writes \o p.pending
               j == Len(p.writes)
               l == Len(p.pending)
    <3>1. /\ j \in Nat /\ l \in Nat /\ Len(u) = j + l
          /\ \A k \in 1 .. j + l : u[k] = IF k <= j THEN p.writes[k] ELSE p.pending[k - j]
      BY <2>11, ConcatProperties, LenProperties
    <3>2. (\A k \in 1 .. j : p.writes[k] \in S) /\ (\A k \in 1 .. l : p.pending[k] \in S)
      BY <2>7
    <3> HIDE DEF u, j, l, S, p
    <3>3. ASSUME NEW k \in 1 .. j + l PROVE u[k] \in S
      <4>1. CASE k <= j
        <5>1. k \in 1 .. j
          BY <3>1, <4>1
        <5> QED
          BY <3>1, <3>2, <4>1, <5>1
      <4>2. CASE ~ (k <= j)
        <5>1. k - j \in 1 .. l
          BY <3>1, <4>2
        <5>2. p.pending[k - j] \in S
          BY <3>2, <5>1
        <5> QED
          BY <3>1, <4>2, <5>2
      <4> QED
        BY <4>1, <4>2
    <3> QED
      BY <3>1, <3>3 DEF u
  <2> HIDE DEF m, p, q, e, P, S, In, nil
  <2>15. q.ok /\ q.active = None => q.pending = nil
    BY <2>5, <2>8, <2>9 DEF PlanMoves, InOrder, nil
  <2>16. In(q.pending)
    BY <2>5, <2>7, <2>8, <2>10, <2>13 DEF PlanMoves, nil
  <2>17. In(q.writes)
    BY <2>5, <2>7, <2>8, <2>14 DEF PlanMoves
  <2>18. PlanType(q, es, m)
    BY <2>8, <2>12, <2>15, <2>16, <2>17
  <2> QED
    BY <2>18 DEF q, m
<1>3. P \in SUBSET Nat
  OBVIOUS
<1>4. \A n \in Nat : n \in P
  <2> HIDE DEF P
  <2> QED
    BY <1>1, <1>2, <1>3, Inductive
<1> QED
  BY <1>0, <1>4

\* One turn over a log.
LEMMA PlanNext ==
  ASSUME NEW es \in Seq(JournalEntry), NEW n \in Nat, n + 1 <= Len(es)
  PROVE  /\ PlanAt(es, n) \in PlanState /\ PlanAt(es, n + 1) \in PlanState
         /\ PlanMoves(PlanAt(es, n), PlanAt(es, n + 1), es[n + 1])
         /\ es[n + 1] \in JournalEntry
<1>1. Len(es) \in Nat /\ \A k \in 1 .. Len(es) : es[k] \in JournalEntry
  BY LenProperties, ElementOfSeq
<1>2. n \in 0 .. Len(es) /\ n + 1 \in 1 .. Len(es)
  BY <1>1
<1>3. PlanType(PlanAt(es, n), es, n)
  BY <1>2, PlanTyped
<1>4. PlanAt(es, n) \in PlanState
  BY <1>3 DEF PlanType
<1>5. es[n + 1] \in JournalEntry
  BY <1>1, <1>2
<1>6. PlanAt(es, n + 1) = PlanStep(PlanAt(es, n), es[n + 1])
  BY PlanTurn
<1> QED
  BY <1>4, <1>5, <1>6, PlanStepMoves

\* The whole loop, and the loop over a prefix.
LEMMA PlanWhole ==
  ASSUME NEW es \in Seq(JournalEntry)
  PROVE  /\ PlanRecovery(es) = PlanAt(es, Len(es))
         /\ PlanType(PlanRecovery(es), es, Len(es))
         /\ PlanRecovery(es) \in PlanState
<1>1. Len(es) \in Nat /\ DOMAIN es = 1 .. Len(es) /\ Len(es) \in 0 .. Len(es)
  BY LenProperties
<1>2. PlanRecovery(es) = PlanAt(es, Len(es))
  BY <1>1, PlanLoop
<1>3. PlanType(PlanAt(es, Len(es)), es, Len(es))
  BY <1>1, PlanTyped
<1> QED
  BY <1>2, <1>3 DEF PlanType

\* The plan of a prefix is the plan as it stands after its last entry.
LEMMA PlanCut ==
  ASSUME NEW es \in Seq(JournalEntry), NEW n \in 0 .. Len(es)
  PROVE  /\ SubSeq(es, 1, n) \in Seq(JournalEntry) /\ Len(SubSeq(es, 1, n)) = n
         /\ \A x \in 1 .. n : SubSeq(es, 1, n)[x] = es[x]
         /\ PlanRecovery(SubSeq(es, 1, n)) = PlanAt(es, n)
<1> DEFINE s == SubSeq(es, 1, n)
<1>1. Len(es) \in Nat /\ n \in Nat /\ n <= Len(es) /\ \A k \in 1 .. Len(es) : es[k] \in JournalEntry
  BY LenProperties, ElementOfSeq
<1>2. 1 \in Int /\ n \in Int /\ \A x \in 1 .. n : es[x] \in JournalEntry
  BY <1>1
<1>3. /\ s \in Seq(JournalEntry)
      /\ Len(s) = IF 1 <= n THEN n - 1 + 1 ELSE 0
      /\ \A x \in 1 .. n - 1 + 1 : s[x] = es[1 + x - 1]
  BY <1>2, SubSeqProperties
<1> HIDE DEF s
<1>4. Len(s) = n /\ \A x \in 1 .. n : s[x] = es[x]
  BY <1>1, <1>3
<1>5. PlanRecovery(s) = PlanAt(s, n)
  BY <1>3, <1>4, PlanWhole
<1>6. PlanAt(s, n) = PlanAt(es, n)
  BY <1>1, <1>4, PlanTurn
<1> QED
  BY <1>3, <1>4, <1>5, <1>6 DEF s

\* A loop that has stopped at an entry does not go on.
LEMMA PlanOkEarlier ==
  ASSUME NEW es \in Seq(JournalEntry), NEW n \in 0 .. Len(es), PlanAt(es, n).ok
  PROVE  \A m \in 0 .. n : PlanAt(es, m).ok
<1> DEFINE P == {d \in Nat : d <= n => PlanAt(es, n - d).ok}
<1>0. Len(es) \in Nat /\ n \in Nat /\ n <= Len(es)
  BY LenProperties
<1>1. 0 \in P
  BY <1>0
<1>2. ASSUME NEW d \in P PROVE d + 1 \in P
  <2> SUFFICES ASSUME d + 1 <= n PROVE PlanAt(es, n - (d + 1)).ok
    OBVIOUS
  <2> DEFINE j == n - (d + 1)
  <2>1. j \in Nat /\ j + 1 = n - d /\ j + 1 <= Len(es)
    BY <1>0
  <2>2. PlanAt(es, j + 1).ok
    BY <2>1
  <2> HIDE DEF j
  <2>3. PlanMoves(PlanAt(es, j), PlanAt(es, j + 1), es[j + 1])
    BY <2>1, PlanNext
  <2>4. PlanAt(es, j).ok
    BY <2>2, <2>3 DEF PlanMoves
  <2> QED
    BY <2>4 DEF j
<1>3. P \in SUBSET Nat
  OBVIOUS
<1> HIDE DEF P
<1>4. \A d \in Nat : d \in P
  BY <1>1, <1>2, <1>3, Inductive
<1>5. ASSUME NEW m \in 0 .. n PROVE PlanAt(es, m).ok
  <2>1. n - m \in Nat /\ n - m <= n /\ n - (n - m) = m
    BY <1>0
  <2>2. n - m \in P
    BY <1>4, <2>1
  <2>3. PlanAt(es, n - (n - m)).ok
    BY <2>1, <2>2 DEF P
  <2> QED
    BY <2>1, <2>3
<1> QED
  BY <1>5

\* Three sequences in a row.
LEMMA JoinedInTurn ==
  ASSUME NEW S, NEW x \in Seq(S), NEW y \in Seq(S), NEW z \in Seq(S)
  PROVE  (x \o y) \o z = x \o (y \o z)
BY ConcatAssociative

\* Entries behind a sequence that ends between transactions are read as if they
\* were alone, although the same identifiers occur before them.
Joins(q, w, p) ==
  /\ q.ok <=> p.ok
  /\ q.active = p.active /\ q.pending = p.pending
  /\ q.writes = w.writes \o p.writes /\ q.commits = w.commits + p.commits

\* plan_recovery of one log after another: the writes and the commits of both.
LEMMA PlanJoined ==
  ASSUME NEW r \in Seq(JournalEntry), NEW es \in Seq(JournalEntry),
         PlanRecovery(r).ok, PlanRecovery(r).active = None
  PROVE  /\ r \o es \in Seq(JournalEntry) /\ Len(r \o es) = Len(r) + Len(es)
         /\ \A n \in 0 .. Len(es) : Joins(PlanAt(r \o es, Len(r) + n), PlanRecovery(r), PlanAt(es, n))
<1> DEFINE t == r \o es
           a == Len(r)
           w == PlanRecovery(r)
           P == {n \in Nat : n <= Len(es) => Joins(PlanAt(t, a + n), w, PlanAt(es, n))}
           nil == <<>>
<1>0. /\ t \in Seq(JournalEntry) /\ Len(t) = a + Len(es) /\ a \in Nat /\ Len(es) \in Nat
      /\ \A x \in 1 .. a + Len(es) : t[x] = IF x <= a THEN r[x] ELSE es[x - a]
  BY LenProperties, ConcatProperties
<1>w. w \in PlanState /\ w.ok /\ w.active = None /\ w.pending = nil /\ w = PlanAt(r, a)
  BY PlanWhole DEF PlanType
<1>v. w.writes \in Seq(WriteEntry) /\ w.commits \in Nat
  BY <1>w DEF PlanState
<1>1. 0 \in P
  <2>1. \A x \in 1 .. a : r[x] = t[x]
    BY <1>0
  <2>2. PlanAt(r, a) = PlanAt(t, a)
    BY <1>0, <2>1, PlanTurn
  <2>3. a + 0 = a
    BY <1>0
  <2>4. PlanAt(es, 0) = PlanStart
    BY PlanTurn
  <2>5. w.writes \o nil = w.writes
    BY <1>v, ConcatEmptySeq
  <2>6. /\ PlanStart.ok /\ PlanStart.active = None /\ PlanStart.pending = nil
        /\ PlanStart.writes = nil /\ PlanStart.commits = 0
    BY DEF PlanStart
  <2> HIDE DEF nil, w
  <2>7. Joins(w, w, PlanStart)
    BY <1>w, <1>v, <2>5, <2>6 DEF Joins
  <2>8. Joins(PlanAt(t, a + 0), w, PlanAt(es, 0))
    BY <1>w, <2>2, <2>3, <2>4, <2>7
  <2> HIDE DEF a, t
  <2> QED
    BY <2>8
<1>2. ASSUME NEW n \in P PROVE n + 1 \in P
  <2> SUFFICES ASSUME n + 1 <= Len(es) PROVE Joins(PlanAt(t, a + (n + 1)), w, PlanAt(es, n + 1))
    OBVIOUS
  <2> DEFINE p == PlanAt(es, n)
             pp == PlanAt(es, n + 1)
             q == PlanAt(t, a + n)
             qq == PlanAt(t, a + n + 1)
             e == es[n + 1]
  <2>1. /\ n \in Nat /\ n <= Len(es) /\ a + n \in Nat /\ (a + n) + 1 <= Len(t)
        /\ a + (n + 1) = a + n + 1 /\ a + n + 1 \in 1 .. a + Len(es) /\ ~ (a + n + 1 <= a)
        /\ a + n + 1 - a = n + 1
    BY <1>0
  <2>2. Joins(q, w, p)
    BY <2>1
  <2>3. p \in PlanState /\ pp \in PlanState /\ PlanMoves(p, pp, e) /\ e \in JournalEntry
    BY <2>1, PlanNext
  <2> HIDE DEF t
  <2>4. PlanMoves(q, qq, t[a + n + 1]) /\ q \in PlanState /\ qq \in PlanState
    BY <1>0, <2>1, PlanNext
  <2>5. t[a + n + 1] = e
    BY <1>0, <2>1
  <2>6. e.kind \in {"Begin", "Write", "Commit"}
    BY <2>3, EntryKinds
  <2>7. (w.writes \o p.writes) \o p.pending = w.writes \o (p.writes \o p.pending)
    <3>1. p.writes \in Seq(WriteEntry) /\ p.pending \in Seq(WriteEntry)
      BY <2>3 DEF PlanState
    <3> DEFINE x == w.writes
               y == p.writes
               z == p.pending
    <3>2. x \in Seq(WriteEntry) /\ y \in Seq(WriteEntry) /\ z \in Seq(WriteEntry)
      BY <1>v, <3>1
    <3> HIDE DEF x, y, z
    <3>3. (x \o y) \o z = x \o (y \o z)
      BY ONLY <3>2, JoinedInTurn
    <3> QED
      BY <3>3 DEF x, y, z
  <2>8. p.commits \in Nat /\ pp.commits \in Nat
    BY <2>3 DEF PlanState
  <2> HIDE DEF p, pp, q, qq, e, w, a, P
  <2>9. PlanMoves(q, qq, e)
    BY <2>4, <2>5
  <2>10. qq.ok <=> pp.ok
    BY <2>2, <2>3, <2>9 DEF Joins, PlanMoves
  <2>11. qq.active = pp.active
    BY <2>2, <2>3, <2>6, <2>9, <2>10 DEF Joins, PlanMoves
  <2>12. qq.pending = pp.pending
    BY <2>2, <2>3, <2>6, <2>9, <2>10 DEF Joins, PlanMoves
  <2>13. qq.writes = w.writes \o pp.writes
    BY <2>2, <2>3, <2>6, <2>7, <2>9, <2>10 DEF Joins, PlanMoves
  <2>14. qq.commits = w.commits + pp.commits
    <3>1. q.commits = w.commits + p.commits
      BY <2>2 DEF Joins
    <3>2. CASE pp.ok /\ e.kind = "Commit"
      <4>1. qq.commits = q.commits + 1 /\ pp.commits = p.commits + 1
        BY <2>3, <2>9, <2>10, <3>2 DEF PlanMoves
      <4> QED
        BY <1>v, <2>8, <3>1, <4>1
    <3>3. CASE ~ (pp.ok /\ e.kind = "Commit")
      <4>1. qq.commits = q.commits /\ pp.commits = p.commits
        BY <2>3, <2>6, <2>9, <2>10, <3>3 DEF PlanMoves
      <4> QED
        BY <3>1, <4>1
    <3> QED
      BY <3>2, <3>3
  <2>15. Joins(qq, w, pp)
    BY <2>10, <2>11, <2>12, <2>13, <2>14 DEF Joins
  <2> QED
    BY <2>1, <2>15 DEF qq, pp
<1>3. P \in SUBSET Nat
  OBVIOUS
<1>4. \A n \in Nat : n \in P
  <2> HIDE DEF P
  <2> QED
    BY <1>1, <1>2, <1>3, Inductive
<1>5. \A n \in 0 .. Len(es) : n \in Nat /\ n <= Len(es)
  BY <1>0
<1> QED
  BY <1>0, <1>4, <1>5

(***************************************************************************)
(* The audits.                                                             *)
(***************************************************************************)
AuditState == [ok : BOOLEAN, active : Txid \cup {None}, writes : Nat, commits : Nat]

\* One turn of the loop, field by field.
AuditMoves(p, q, e) ==
  /\ q.ok <=> p.ok /\ InOrder(p.active, e) /\ Targeted(e)
  /\ q.ok => /\ q.active = ActiveAfter(e)
             /\ q.commits = IF e.kind = "Commit" THEN p.commits + 1 ELSE p.commits

\* One turn of audit_journal, field by field.
LEMMA AuditStepMoves ==
  ASSUME NEW p \in AuditState, NEW e \in JournalEntry
  PROVE  AuditStep(p, e) \in AuditState /\ AuditMoves(p, AuditStep(p, e), e)
<1> DEFINE q == AuditStep(p, e)
           x == ActiveAfter(e)
           y == IF e.kind = "Write" THEN p.writes + 1 ELSE p.writes
           z == IF e.kind = "Commit" THEN p.commits + 1 ELSE p.commits
<1>1. e.txid \in Txid
  BY EntryKinds
<1>2. /\ p.ok \in BOOLEAN /\ p.active \in Txid \cup {None} /\ p.writes \in Nat /\ p.commits \in Nat
      /\ p = [ok |-> p.ok, active |-> p.active, writes |-> p.writes, commits |-> p.commits]
  BY DEF AuditState
<1>3. CASE ~ p.ok \/ ~ InOrder(p.active, e) \/ ~ Targeted(e)
  <2>1. q = [ok |-> FALSE, active |-> p.active, writes |-> p.writes, commits |-> p.commits]
    BY <1>2, <1>3 DEF AuditStep
  <2>2. q \in AuditState /\ ~ q.ok
    BY <1>2, <2>1 DEF AuditState
  <2> QED
    BY <1>3, <2>2 DEF AuditMoves
<1>4. CASE p.ok /\ InOrder(p.active, e) /\ Targeted(e)
  <2>1. q = [ok |-> TRUE, active |-> x, writes |-> y, commits |-> z]
    BY <1>2, <1>4 DEF AuditStep
  <2>2. x \in Txid \cup {None} /\ y \in Nat /\ z \in Nat
    BY <1>1, <1>2 DEF ActiveAfter
  <2> HIDE DEF x, y, z
  <2>3. q \in AuditState /\ q.ok
    BY <2>1, <2>2 DEF AuditState
  <2>4. q.active = x /\ q.commits = z
    BY <2>1
  <2> HIDE DEF q
  <2>5. AuditMoves(p, q, e)
    BY <1>4, <2>3, <2>4 DEF AuditMoves, x, z
  <2> QED
    BY <2>3, <2>5 DEF q
<1> QED
  BY <1>3, <1>4

\* Fsck accepts what recovery accepts, up to the targets, and finds the same
\* active transaction and the same number of commits.
Audits(a, p, es, n) ==
  /\ a \in AuditState
  /\ a.ok <=> p.ok /\ \A x \in 1 .. n : Targeted(es[x])
  /\ a.ok => a.active = p.active /\ a.commits = p.commits

\* The audit accepts what recovery plans and fsck allows as a target.
LEMMA AuditAgrees ==
  ASSUME NEW es \in Seq(JournalEntry)
  PROVE  \A n \in 0 .. Len(es) : Audits(AuditAt(es, n), PlanAt(es, n), es, n)
<1> DEFINE P == {n \in Nat : n <= Len(es) => Audits(AuditAt(es, n), PlanAt(es, n), es, n)}
<1>0. Len(es) \in Nat
  BY LenProperties
<1>1. 0 \in P
  <2>1. PlanAt(es, 0) = PlanStart /\ AuditAt(es, 0) = AuditStart
    BY PlanTurn, AuditTurn
  <2>2. AuditStart \in AuditState
    BY DEF AuditStart, AuditState
  <2>3. /\ AuditStart.ok /\ PlanStart.ok /\ AuditStart.active = PlanStart.active
        /\ AuditStart.commits = PlanStart.commits
    BY DEF AuditStart, PlanStart
  <2>4. Audits(AuditStart, PlanStart, es, 0)
    BY <2>2, <2>3 DEF Audits
  <2> QED
    BY <2>1, <2>4
<1>2. ASSUME NEW n \in P PROVE n + 1 \in P
  <2> SUFFICES ASSUME n + 1 <= Len(es) PROVE Audits(AuditAt(es, n + 1), PlanAt(es, n + 1), es, n + 1)
    OBVIOUS
  <2> DEFINE m == n + 1
             a == AuditAt(es, n)
             p == PlanAt(es, n)
             b == AuditAt(es, m)
             q == PlanAt(es, m)
             e == es[m]
  <2>1. n \in Nat /\ n <= Len(es) /\ m \in 1 .. m /\ 1 .. m = (1 .. n) \cup {m}
    BY <1>0
  <2>2. Audits(a, p, es, n)
    BY <2>1
  <2>3. p \in PlanState /\ q \in PlanState /\ PlanMoves(p, q, e) /\ e \in JournalEntry
    BY <2>1, PlanNext
  <2>4. b = AuditStep(a, e)
    BY <2>1, AuditTurn
  <2>5. a \in AuditState
    BY <2>2 DEF Audits
  <2>6. b \in AuditState /\ AuditMoves(a, b, e)
    BY <2>3, <2>4, <2>5, AuditStepMoves
  <2>7. e.kind \in {"Begin", "Write", "Commit"}
    BY <2>3, EntryKinds
  <2>8. (\A x \in 1 .. m : Targeted(es[x])) <=> (\A x \in 1 .. n : Targeted(es[x])) /\ Targeted(e)
    BY <2>1
  <2>9. n = m - 1
    BY <2>1
  <2> HIDE DEF m, a, p, b, q, e, P
  <2>10. b.ok <=> q.ok /\ \A x \in 1 .. m : Targeted(es[x])
    <3>1. CASE a.ok
      BY <2>2, <2>3, <2>6, <2>8, <3>1 DEF Audits, PlanMoves, AuditMoves
    <3>2. CASE ~ a.ok
      BY <2>2, <2>3, <2>6, <2>8, <3>2 DEF Audits, PlanMoves, AuditMoves
    <3> QED
      BY <3>1, <3>2
  <2>11. ASSUME b.ok PROVE b.active = q.active /\ b.commits = q.commits
    <3>1. a.ok /\ q.ok /\ InOrder(a.active, e) /\ b.active = ActiveAfter(e)
      BY <2>6, <2>10, <2>11 DEF AuditMoves
    <3>2. a.active = p.active /\ a.commits = p.commits
      BY <2>2, <3>1 DEF Audits
    <3>3. b.active = q.active
      BY <2>3, <2>7, <3>1, <3>2 DEF PlanMoves, ActiveAfter, InOrder
    <3>4. b.commits = q.commits
      BY <2>3, <2>6, <2>7, <2>11, <3>1, <3>2 DEF PlanMoves, AuditMoves
    <3> QED
      BY <3>3, <3>4
  <2>12. Audits(b, q, es, m)
    BY <2>6, <2>10, <2>11 DEF Audits
  <2> QED
    BY <2>12 DEF b, q, m
<1>3. P \in SUBSET Nat
  OBVIOUS
<1>4. \A n \in Nat : n \in P
  <2> HIDE DEF P
  <2> QED
    BY <1>1, <1>2, <1>3, Inductive
<1> QED
  BY <1>0, <1>4

\* validate_entries and validate_complete_entries, in terms of the plan.
LEMMA AuditWhole ==
  ASSUME NEW es \in Seq(JournalEntry)
  PROVE  /\ Audits(AuditJournal(es), PlanRecovery(es), es, Len(es))
         /\ ValidEntries(es) <=> PlanRecovery(es).ok /\ \A x \in 1 .. Len(es) : Targeted(es[x])
         /\ CompleteEntries(es) <=> /\ PlanRecovery(es).ok /\ \A x \in 1 .. Len(es) : Targeted(es[x])
                                    /\ PlanRecovery(es).active = None
                                    /\ PlanRecovery(es).commits > 0
<1>1. Len(es) \in Nat /\ DOMAIN es = 1 .. Len(es) /\ Len(es) \in 0 .. Len(es)
  BY LenProperties
<1>2. AuditJournal(es) = AuditAt(es, Len(es)) /\ PlanRecovery(es) = PlanAt(es, Len(es))
  BY <1>1, AuditLoop, PlanLoop
<1>3. Audits(AuditJournal(es), PlanRecovery(es), es, Len(es))
  BY <1>1, <1>2, AuditAgrees
<1> QED
  BY <1>3 DEF Audits, ValidEntries, CompleteEntries

(***************************************************************************)
(* The invariant.  The writer: at every entry of its log, recovery of the  *)
(* log so far would find the writes it has committed so far, and no other. *)
(***************************************************************************)
Since(d, n) == IF n = 0 THEN <<>> ELSE d[n]

LogOk(es, act, d, o) ==
  /\ es \in Seq(JournalEntry)
  /\ d \in Seq(Seq(WriteEntry)) /\ Len(d) = Len(es)
  /\ \A n \in 0 .. Len(es) : PlanAt(es, n).ok /\ PlanAt(es, n).writes = Since(d, n)
  /\ PlanAt(es, Len(es)).active = act
  /\ PlanAt(es, Len(es)).pending = o

LogInv == /\ Len(entries) <= MaxLog
          /\ active \in Txid \cup {None} /\ next \in Txid
          /\ LogOk(entries, active, done, open)

\* An image a crash may leave: complete, in order, and within the tables and the
\* data.
Good(x) ==
  /\ x \in [region : Seq(JournalEntry), version : {"empty", "v2", "v3"}, home : Home]
  /\ Len(x.region) <= MaxRegion
  /\ x.version = "empty" => x.region = <<>>
  /\ PlanRecovery(x.region).ok
  /\ \A k \in 1 .. Len(x.region) : Targeted(x.region[k])
  /\ \A b \in OtherBlock : x.home[b] = SomeHome[b]

\* What recovery makes of it.
Recovered(x) == Applied(x.home, PlanRecovery(x.region).writes)

DeviceInv == /\ now \in images
             /\ \A x \in images : Good(x) /\ Recovered(x) \in maybe
             /\ Recovered(now) = goal
             /\ goal \in maybe /\ maybe \subseteq Home

\* A new log.
LEMMA LogStarts == LogOk(<<>>, None, <<>>, <<>>)
<1> DEFINE nil == <<>>
<1>1. nil \in Seq(JournalEntry) /\ nil \in Seq(Seq(WriteEntry)) /\ Len(nil) = 0
  BY EmptySeq
<1>2. PlanAt(nil, 0) = PlanStart
  BY PlanTurn
<1>3. PlanStart.ok /\ PlanStart.writes = nil /\ PlanStart.active = None /\ PlanStart.pending = nil
  BY DEF PlanStart
<1>4. Since(nil, 0) = nil
  BY DEF Since
<1> HIDE DEF nil
<1>5. \A n \in 0 .. Len(nil) : n = 0
  BY <1>1
<1>6. LogOk(nil, None, nil, nil)
  BY <1>1, <1>2, <1>3, <1>4, <1>5 DEF LogOk
<1> QED
  BY <1>6 DEF nil

\* One entry more, in order.
LEMMA LogExtended ==
  ASSUME NEW es, NEW act, NEW d, NEW o, LogOk(es, act, d, o),
         NEW e \in JournalEntry, InOrder(act, e)
  PROVE  LogOk(Append(es, e), ActiveAfter(e),
               Append(d, IF e.kind = "Commit" THEN Since(d, Len(es)) \o o ELSE Since(d, Len(es))),
               IF e.kind = "Write" THEN Append(o, e) ELSE <<>>)
<1> DEFINE l == Len(es)
           m == l + 1
           t == Append(es, e)
           p == PlanAt(es, l)
           q == PlanAt(t, m)
           s == Since(d, l)
           u == IF e.kind = "Commit" THEN s \o o ELSE s
           dd == Append(d, u)
           oo == IF e.kind = "Write" THEN Append(o, e) ELSE <<>>
<1>1. /\ es \in Seq(JournalEntry) /\ d \in Seq(Seq(WriteEntry)) /\ Len(d) = l
      /\ \A n \in 0 .. l : PlanAt(es, n).ok /\ PlanAt(es, n).writes = Since(d, n)
      /\ p.active = act /\ p.pending = o
  BY DEF LogOk
<1>2. l \in Nat /\ l \in 0 .. l /\ m \in Nat /\ m # 0
  BY <1>1, LenProperties
<1>3. /\ t \in Seq(JournalEntry) /\ Len(t) = m /\ t[m] = e
      /\ \A k \in 1 .. l : t[k] = es[k]
  BY <1>1, Appended
<1>4. \A n \in 0 .. l : PlanAt(t, n) = PlanAt(es, n)
  <2> TAKE n \in 0 .. l
  <2>1. n \in Nat /\ \A x \in 1 .. n : es[x] = t[x]
    BY <1>2, <1>3
  <2> HIDE DEF t
  <2> QED
    BY <2>1, PlanTurn
<1>5. p \in PlanState /\ q \in PlanState /\ PlanMoves(p, q, e)
  <2> HIDE DEF t
  <2>1. PlanAt(t, l) \in PlanState /\ PlanAt(t, l + 1) \in PlanState
        /\ PlanMoves(PlanAt(t, l), PlanAt(t, l + 1), t[l + 1])
    BY <1>2, <1>3, PlanNext
  <2> QED
    BY <1>2, <1>3, <1>4, <2>1
<1>6. p.ok /\ p.writes = s
  BY <1>1, <1>2
<1>7. e.kind \in {"Begin", "Write", "Commit"}
  BY EntryKinds
<1>8. s \in Seq(WriteEntry) /\ o \in Seq(WriteEntry)
  BY <1>1, <1>5, <1>6 DEF PlanState
<1>9. u \in Seq(WriteEntry)
  <2>1. s \o o \in Seq(WriteEntry)
    BY <1>8, ConcatProperties
  <2> QED
    BY <1>8, <2>1
<1> HIDE DEF u
<1>10. dd \in Seq(Seq(WriteEntry)) /\ Len(dd) = m /\ dd[m] = u /\ \A k \in 1 .. l : dd[k] = d[k]
  BY <1>1, <1>9, Appended
<1>11. Since(dd, m) = u /\ \A n \in 0 .. l : Since(dd, n) = Since(d, n)
  <2> HIDE DEF dd
  <2>1. Since(dd, m) = u
    BY <1>2, <1>10 DEF Since
  <2>2. ASSUME NEW n \in 0 .. l PROVE Since(dd, n) = Since(d, n)
    <3>1. CASE n = 0
      BY <3>1 DEF Since
    <3>2. CASE n # 0
      <4>1. n \in 1 .. l
        BY <1>2, <3>2
      <4> QED
        BY <1>10, <3>2, <4>1 DEF Since
    <3> QED
      BY <3>1, <3>2
  <2> QED
    BY <2>1, <2>2
<1>12. \A n \in 0 .. m : n \in 0 .. l \/ n = m
  BY <1>2
<1> HIDE DEF l, m, t, p, q, s, dd, oo
<1>13. q.ok
  BY <1>1, <1>5, <1>6 DEF PlanMoves
<1>14. q.active = ActiveAfter(e)
  BY <1>1, <1>5, <1>7, <1>13 DEF PlanMoves, ActiveAfter, InOrder
<1>15. q.pending = oo
  BY <1>1, <1>5, <1>7, <1>13 DEF PlanMoves, oo
<1>16. q.writes = u
  BY <1>1, <1>5, <1>6, <1>7, <1>13 DEF PlanMoves, u
<1>17. \A n \in 0 .. m : PlanAt(t, n).ok /\ PlanAt(t, n).writes = Since(dd, n)
  BY <1>1, <1>4, <1>11, <1>12, <1>13, <1>16 DEF q
<1>18. LogOk(t, ActiveAfter(e), dd, oo)
  BY <1>3, <1>10, <1>14, <1>15, <1>17 DEF LogOk, q
<1> QED
  BY <1>18 DEF t, dd, oo, u, s, l

\* What the writer's operations do to its log.
LEMMA AfterIs == \A n : After(n) = Since(done, n)
BY DEF After, Since

\* The entries a writer makes.
LEMMA EntryForms ==
  ASSUME NEW t \in Txid
  PROVE  /\ Begin(t) \in JournalEntry /\ Commit(t) \in JournalEntry
         /\ \A b \in HomeBlock \cup OtherBlock, v \in Value : Write(t, b, v) \in JournalEntry
         /\ Begin(t).kind = "Begin" /\ Begin(t).txid = t
         /\ Commit(t).kind = "Commit" /\ Commit(t).txid = t
         /\ \A b, v : Write(t, b, v).kind = "Write" /\ Write(t, b, v).txid = t
BY DEF Begin, Commit, Write, JournalEntry

\* The steps of the writer keep the invariant of its log.
LEMMA WriterSteps ==
  ASSUME LogInv, LogOk(<<>>, None, <<>>, <<>>)
  PROVE  /\ NewLog => LogInv'
         /\ BeginTx => LogInv'
         /\ \A t \in Txid, d \in Data : WriteTx(t, d[1], d[2]) => LogInv'
         /\ \A t \in Txid : CommitTx(t) => LogInv'
<1>0. /\ Len(entries) <= MaxLog /\ active \in Txid \cup {None} /\ next \in Txid
      /\ LogOk(entries, active, done, open)
  BY DEF LogInv
<1>1. MaxLog \in Nat /\ MaxTxid \in Nat /\ Len(entries) \in Nat /\ entries \in Seq(JournalEntry)
  BY <1>0, ScanAssumption, EntryAssumption, LenProperties DEF LogOk
<1>2. \A e \in JournalEntry : Len(Append(entries, e)) = Len(entries) + 1
  BY <1>1, Appended
<1>a. ASSUME NewLog PROVE LogInv'
  <2>1. Len(<<>>) = 0 /\ 0 \in Txid
    BY <1>1, EmptySeq DEF Txid
  <2>2. entries' = <<>> /\ active' = None /\ next' = 0 /\ done' = <<>> /\ open' = <<>>
    BY <1>a DEF NewLog
  <2>3. LogOk(entries', active', done', open')
    BY <2>2
  <2>4. Len(entries') = 0
    BY <2>1, <2>2
  <2> QED
    BY <1>1, <2>1, <2>2, <2>3, <2>4 DEF LogInv
<1>b. ASSUME BeginTx PROVE LogInv'
  <2> DEFINE e == Begin(next)
  <2>1. e \in JournalEntry /\ e.kind = "Begin" /\ e.txid = next
    BY <1>0, EntryForms
  <2>2. InOrder(active, e)
    BY <1>b, <2>1 DEF BeginTx, InOrder
  <2>3. LogOk(Append(entries, e), ActiveAfter(e),
              Append(done, IF e.kind = "Commit" THEN Since(done, Len(entries)) \o open ELSE Since(done, Len(entries))),
              IF e.kind = "Write" THEN Append(open, e) ELSE <<>>)
    BY <1>0, <2>1, <2>2, LogExtended
  <2>4. /\ entries' = Append(entries, e) /\ active' = next /\ next' = next + 1
        /\ done' = Append(done, Since(done, Len(entries))) /\ open' = <<>>
        /\ Len(entries) < MaxLog /\ next < MaxTxid
    BY <1>b, AfterIs DEF BeginTx
  <2> HIDE DEF e
  <2>5. ActiveAfter(e) = next
    BY <2>1 DEF ActiveAfter
  <2>6. LogOk(entries', active', done', open')
    BY <2>1, <2>3, <2>4, <2>5
  <2>7. Len(entries') <= MaxLog /\ next' \in Txid /\ active' \in Txid
    BY <1>0, <1>1, <1>2, <2>1, <2>4 DEF Txid
  <2> QED
    BY <2>6, <2>7 DEF LogInv
<1>c. ASSUME NEW t \in Txid, NEW d \in Data, WriteTx(t, d[1], d[2]) PROVE LogInv'
  <2> DEFINE e == Write(t, d[1], d[2])
  <2>0. d[1] \in HomeBlock \cup OtherBlock /\ d[2] \in Value
    BY DataAssumption
  <2>1. e \in JournalEntry /\ e.kind = "Write" /\ e.txid = t
    BY <2>0, EntryForms
  <2>2. InOrder(active, e) /\ active = t
    BY <1>c, <2>1 DEF WriteTx, InOrder
  <2>3. LogOk(Append(entries, e), ActiveAfter(e),
              Append(done, IF e.kind = "Commit" THEN Since(done, Len(entries)) \o open ELSE Since(done, Len(entries))),
              IF e.kind = "Write" THEN Append(open, e) ELSE <<>>)
    BY <1>0, <2>1, <2>2, LogExtended
  <2>4. /\ entries' = Append(entries, e) /\ active' = active /\ next' = next
        /\ done' = Append(done, Since(done, Len(entries))) /\ open' = Append(open, e)
        /\ Len(entries) < MaxLog
    BY <1>c, AfterIs DEF WriteTx
  <2> HIDE DEF e
  <2>5. ActiveAfter(e) = active
    BY <2>1, <2>2 DEF ActiveAfter
  <2>6. LogOk(entries', active', done', open')
    BY <2>1, <2>3, <2>4, <2>5
  <2>7. Len(entries') <= MaxLog /\ next' \in Txid /\ active' \in Txid
    BY <1>0, <1>1, <1>2, <2>1, <2>2, <2>4
  <2> QED
    BY <2>6, <2>7 DEF LogInv
<1>d. ASSUME NEW t \in Txid, CommitTx(t) PROVE LogInv'
  <2> DEFINE e == Commit(t)
  <2>1. e \in JournalEntry /\ e.kind = "Commit" /\ e.txid = t
    BY EntryForms
  <2>2. InOrder(active, e)
    BY <1>d, <2>1 DEF CommitTx, InOrder
  <2>3. LogOk(Append(entries, e), ActiveAfter(e),
              Append(done, IF e.kind = "Commit" THEN Since(done, Len(entries)) \o open ELSE Since(done, Len(entries))),
              IF e.kind = "Write" THEN Append(open, e) ELSE <<>>)
    BY <1>0, <2>1, <2>2, LogExtended
  <2>4. /\ entries' = Append(entries, e) /\ active' = None /\ next' = next
        /\ done' = Append(done, Since(done, Len(entries)) \o open) /\ open' = <<>>
        /\ Len(entries) < MaxLog
    BY <1>d, AfterIs DEF CommitTx
  <2> HIDE DEF e
  <2>5. ActiveAfter(e) = None
    BY <2>1 DEF ActiveAfter
  <2>6. LogOk(entries', active', done', open')
    BY <2>1, <2>3, <2>4, <2>5
  <2>7. Len(entries') <= MaxLog /\ next' \in Txid /\ active' = None
    BY <1>0, <1>1, <1>2, <2>1, <2>4
  <2> QED
    BY <2>6, <2>7 DEF LogInv
<1> QED
  BY <1>a, <1>b, <1>c, <1>d

(***************************************************************************)
(* A call on the device.  Its steps are flushes and images that recover to *)
(* the goal, but for the last image, which recovers to what was asked for. *)
(***************************************************************************)
CallOk(steps, n, asked) ==
  /\ n \in Nat /\ n >= 2 /\ Len(steps) = n
  /\ steps[n] = Flush
  /\ \A x \in 1 .. n : steps[x] = Flush \/ Good(steps[x])
  /\ \A x \in 1 .. n - 2 : steps[x] # Flush => Recovered(steps[x]) = goal
  /\ steps[n - 1] # Flush => Recovered(steps[n - 1]) = asked
  /\ steps[n - 1] = Flush => asked = goal
  /\ asked \in Home

\* A flush is no image.
LEMMA FlushIsNoImage == ~ Good(Flush)
<1>1. Flush.version = "flush"
  BY DEF Flush
<1>2. Good(Flush) => Flush.version \in {"empty", "v2", "v3"}
  BY DEF Good
<1> QED
  BY <1>1, <1>2

\* What reads see.
LEMMA SeenFacts ==
  ASSUME NEW steps, NEW n, NEW asked, CallOk(steps, n, asked), DeviceInv, NEW j \in 0 .. n
  PROVE  /\ Good(Seen(steps, j))
         /\ Recovered(Seen(steps, j)) = IF j >= n - 1 THEN asked ELSE goal
         /\ \/ Seen(steps, j) = now /\ \A x \in 1 .. j : steps[x] = Flush
            \/ \E y \in 1 .. j : /\ Seen(steps, j) = steps[y] /\ steps[y] # Flush
                                 /\ \A x \in y + 1 .. j : steps[x] = Flush
<1> DEFINE W == {x \in 1 .. j : steps[x] # Flush}
<1>0. n \in Nat /\ n >= 2 /\ j \in Nat /\ j <= n
  BY DEF CallOk
<1>n. Good(now) /\ Recovered(now) = goal
  BY DEF DeviceInv
<1>1. CASE W = {}
  <2>1. Seen(steps, j) = now
    BY <1>1 DEF Seen
  <2>2. \A x \in 1 .. j : steps[x] = Flush
    BY <1>1
  <2>3. j >= n - 1 => asked = goal
    <3> SUFFICES ASSUME j >= n - 1 PROVE asked = goal
      OBVIOUS
    <3>1. n - 1 \in 1 .. j
      BY <1>0
    <3>2. steps[n - 1] = Flush
      BY <2>2, <3>1
    <3> QED
      BY <3>2 DEF CallOk
  <2> QED
    BY <1>n, <2>1, <2>2, <2>3
<1>2. CASE W # {}
  <2>1. W \in SUBSET (0 .. j)
    BY <1>0
  <2>2. Max(W) \in W /\ \A y \in W : y <= Max(W)
    BY <1>0, <1>2, <2>1, LargestMember
  <2> DEFINE y == Max(W)
  <2>3. Seen(steps, j) = steps[y]
    BY <1>2 DEF Seen
  <2>4. y \in 1 .. j /\ steps[y] # Flush /\ \A x \in W : x <= y
    BY <2>2
  <2> HIDE DEF y
  <2>5. \A x \in y + 1 .. j : steps[x] = Flush
    <3> TAKE x \in y + 1 .. j
    <3>1. x \in 1 .. j /\ ~ (x <= y)
      BY <1>0, <2>4
    <3> QED
      BY <2>4, <3>1
  <2> HIDE DEF W
  <2>6. y \in 1 .. n /\ y \in Nat
    BY <1>0, <2>4
  <2>7. Good(steps[y])
    BY <2>4, <2>6 DEF CallOk
  <2>8. y # n
    BY <2>4 DEF CallOk
  <2>9. CASE y = n - 1
    <3>1. j >= n - 1
      BY <1>0, <2>4, <2>9
    <3>2. Recovered(steps[y]) = asked
      BY <2>4, <2>9 DEF CallOk
    <3> QED
      BY <2>3, <2>4, <2>5, <2>7, <3>1, <3>2
  <2>10. CASE y # n - 1
    <3>1. y \in 1 .. n - 2
      BY <1>0, <2>6, <2>8, <2>10
    <3>2. Recovered(steps[y]) = goal
      BY <2>4, <3>1 DEF CallOk
    <3>3. ASSUME j >= n - 1 PROVE asked = goal
      <4>1. n - 1 \in y + 1 .. j
        BY <1>0, <3>1, <3>3
      <4>2. steps[n - 1] = Flush
        BY <2>5, <4>1
      <4> QED
        BY <4>2 DEF CallOk
    <3> QED
      BY <2>3, <2>4, <2>5, <2>7, <3>2, <3>3
  <2> QED
    BY <2>9, <2>10
<1> QED
  BY <1>1, <1>2

\* The last flush.
LEMMA FlushedFacts ==
  ASSUME NEW steps, NEW k \in Nat
  PROVE  /\ Flushed(steps, k) \in 0 .. k
         /\ Flushed(steps, k) # 0 => steps[Flushed(steps, k)] = Flush
         /\ \A x \in Flushed(steps, k) + 1 .. k : steps[x] # Flush
<1> DEFINE W == {0} \cup {x \in 1 .. k : steps[x] = Flush}
<1>1. W \in SUBSET (0 .. k) /\ W # {}
  OBVIOUS
<1>2. Max(W) \in W /\ \A y \in W : y <= Max(W)
  BY <1>1, LargestMember
<1> DEFINE f == Max(W)
<1>3. Flushed(steps, k) = f
  BY DEF Flushed
<1>4. f \in W /\ \A y \in W : y <= f
  BY <1>2
<1> HIDE DEF f
<1>5. f \in 0 .. k /\ (f # 0 => steps[f] = Flush)
  BY <1>4
<1>6. \A x \in f + 1 .. k : steps[x] # Flush
  <2> SUFFICES ASSUME NEW x \in f + 1 .. k, steps[x] = Flush PROVE FALSE
    OBVIOUS
  <2>1. x \in 1 .. k /\ ~ (x <= f)
    BY <1>5
  <2> QED
    BY <1>4, <2>1
<1> QED
  BY <1>3, <1>5, <1>6

\* Whatever step a call fails at, a crash finds a store that was asked for.
LEMMA CallPreserves ==
  ASSUME NEW steps, NEW n, NEW asked, CallOk(steps, n, asked), DeviceInv, Call(steps, asked)
  PROVE  DeviceInv' /\ UNCHANGED <<log, done, open>>
<1>0. n \in Nat /\ n >= 2 /\ Len(steps) = n /\ asked \in Home /\ steps[n] = Flush
  BY DEF CallOk
<1> PICK k \in 0 .. n :
       /\ now' = Seen(steps, k)
       /\ images' = (IF Flushed(steps, k) = 0 THEN images ELSE {Seen(steps, Flushed(steps, k))})
                      \cup {steps[x] : x \in Flushed(steps, k) + 1 .. k}
       /\ goal' = IF k >= n - 1 THEN asked ELSE goal
       /\ maybe' = (IF Flushed(steps, k) = 0 THEN maybe
                    ELSE IF Flushed(steps, k) = k THEN {} ELSE {goal}) \cup {goal'}
       /\ UNCHANGED <<log, done, open>>
  BY <1>0 DEF Call
<1> DEFINE f == Flushed(steps, k)
           s == Seen(steps, k)
           z == Seen(steps, f)
           T == {steps[x] : x \in f + 1 .. k}
           old == IF f = 0 THEN images ELSE {z}
           was == IF f = 0 THEN maybe ELSE IF f = k THEN {} ELSE {goal}
<1>1. f \in 0 .. k /\ (f # 0 => steps[f] = Flush) /\ \A x \in f + 1 .. k : steps[x] # Flush
  BY FlushedFacts
<1>2. k \in Nat /\ f \in Nat /\ f \in 0 .. n /\ k <= n /\ f <= k
  BY <1>0, <1>1
<1>3. /\ Good(s) /\ Recovered(s) = IF k >= n - 1 THEN asked ELSE goal
      /\ \/ s = now /\ \A x \in 1 .. k : steps[x] = Flush
         \/ \E y \in 1 .. k : /\ s = steps[y] /\ steps[y] # Flush
                              /\ \A x \in y + 1 .. k : steps[x] = Flush
  BY SeenFacts
<1>4. Good(z) /\ Recovered(z) = IF f >= n - 1 THEN asked ELSE goal
  BY <1>2, SeenFacts
<1>5. now' = s /\ images' = old \cup T /\ maybe' = was \cup {goal'}
  OBVIOUS
<1>6. goal' = IF k >= n - 1 THEN asked ELSE goal
  OBVIOUS
<1>7. /\ now \in images /\ goal \in maybe /\ maybe \subseteq Home
      /\ \A x \in images : Good(x) /\ Recovered(x) \in maybe
  BY DEF DeviceInv
<1>8. f < k => k <= n - 1
  <2> SUFFICES ASSUME f < k, k = n PROVE FALSE
    BY <1>0, <1>2
  <2>1. n \in f + 1 .. k
    BY <1>0, <1>2
  <2> QED
    BY <1>0, <1>1, <2>1
<1>9. f = k => z = s
  OBVIOUS
<1> HIDE DEF f, s, z
<1>10. s \in old \cup T
  <2>1. CASE f = k
    <3>1. CASE f = 0
      <4>1. 1 .. k = {}
        BY <1>2, <2>1, <3>1
      <4>2. s = now
        BY <1>3, <4>1
      <4> QED
        BY <1>7, <3>1, <4>2
    <3>2. CASE f # 0
      BY <1>9, <2>1, <3>2
    <3> QED
      BY <3>1, <3>2
  <2>2. CASE f # k
    <3>1. k \in f + 1 .. k /\ k \in 1 .. k
      BY <1>2, <2>2
    <3>2. steps[k] # Flush
      BY <1>1, <3>1
    <3>3. PICK y \in 1 .. k : s = steps[y] /\ steps[y] # Flush /\ \A x \in y + 1 .. k : steps[x] = Flush
      BY <1>3, <3>1, <3>2
    <3>4. y = k
      <4> SUFFICES ASSUME y # k PROVE FALSE
        OBVIOUS
      <4>1. k \in y + 1 .. k
        BY <1>2, <3>3
      <4> QED
        BY <3>2, <3>3, <4>1
    <3> QED
      BY <3>1, <3>3, <3>4
  <2> QED
    BY <2>1, <2>2
<1>11. ASSUME NEW x \in old PROVE Good(x) /\ Recovered(x) \in was \cup {goal'}
  <2>1. CASE f = 0
    BY <1>7, <1>11, <2>1
  <2>2. CASE f # 0 /\ f = k
    <3>1. x = z /\ z = s
      BY <1>9, <1>11, <2>2
    <3> QED
      BY <1>3, <1>6, <3>1
  <2>3. CASE f # 0 /\ f # k
    <3>1. x = z
      BY <1>11, <2>3
    <3>2. ~ (f >= n - 1)
      BY <1>0, <1>2, <1>8, <2>3
    <3>3. Recovered(x) = goal
      BY <1>4, <3>1, <3>2
    <3> QED
      BY <1>4, <2>3, <3>1, <3>3
  <2> QED
    BY <2>1, <2>2, <2>3
<1>12. ASSUME NEW y \in T PROVE Good(y) /\ Recovered(y) \in was \cup {goal'}
  <2>1. PICK x \in f + 1 .. k : y = steps[x]
    BY <1>12
  <2>2. x \in 1 .. n /\ x <= n - 1 /\ f # k /\ f < k
    BY <1>0, <1>2, <1>8, <2>1
  <2>3. steps[x] # Flush
    BY <1>1, <2>1
  <2>4. Good(y)
    BY <2>1, <2>2, <2>3 DEF CallOk
  <2>5. CASE x = n - 1
    <3>1. k >= n - 1
      BY <1>0, <1>2, <2>1, <2>5
    <3>2. Recovered(y) = asked
      BY <2>1, <2>3, <2>5 DEF CallOk
    <3> QED
      BY <1>6, <2>4, <3>1, <3>2
  <2>6. CASE x # n - 1
    <3>1. x \in 1 .. n - 2
      BY <1>0, <2>2, <2>6
    <3>2. Recovered(y) = goal
      BY <2>1, <2>3, <3>1 DEF CallOk
    <3>3. goal \in was
      BY <1>7, <2>2
    <3> QED
      BY <2>4, <3>2, <3>3
  <2> QED
    BY <2>5, <2>6
<1>13. goal' \in Home /\ was \subseteq Home
  BY <1>0, <1>6, <1>7
<1> HIDE DEF old, T, was
<1>14. Recovered(now') = goal'
  BY <1>3, <1>5, <1>6
<1>15. now' \in images' /\ goal' \in maybe' /\ maybe' \subseteq Home
  BY <1>5, <1>10, <1>13
<1>16. \A x \in images' : Good(x) /\ Recovered(x) \in maybe'
  BY <1>5, <1>11, <1>12
<1> QED
  BY <1>14, <1>15, <1>16 DEF DeviceInv

(***************************************************************************)
(* The images the calls write.                                             *)
(***************************************************************************)
Image == [region : Seq(JournalEntry), version : {"empty", "v2", "v3"}, home : Home]

\* No entries, no writes.
LEMMA PlanNothing ==
  /\ <<>> \in Seq(JournalEntry) /\ Len(<<>>) = 0
  /\ PlanRecovery(<<>>).ok /\ PlanRecovery(<<>>).active = None
  /\ PlanRecovery(<<>>).writes = <<>>
<1> DEFINE nil == <<>>
<1>1. nil \in Seq(JournalEntry) /\ Len(nil) = 0
  BY EmptySeq
<1>2. PlanRecovery(nil) = PlanAt(nil, 0)
  BY <1>1, PlanWhole
<1>3. PlanAt(nil, 0) = PlanStart
  BY PlanTurn
<1>4. PlanStart.ok /\ PlanStart.active = None /\ PlanStart.writes = nil
  BY DEF PlanStart
<1> HIDE DEF nil
<1>5. PlanRecovery(nil).ok /\ PlanRecovery(nil).active = None /\ PlanRecovery(nil).writes = nil
  BY <1>2, <1>3, <1>4
<1> QED
  BY <1>1, <1>5 DEF nil

\* An anchor over other entries.
LEMMA AnchoredIsGood ==
  ASSUME NEW x, Good(x), NEW es \in Seq(JournalEntry), NEW v \in {"empty", "v2", "v3"},
         Len(es) <= MaxRegion, v = "empty" => es = <<>>, PlanRecovery(es).ok,
         \A k \in 1 .. Len(es) : Targeted(es[k])
  PROVE  /\ Good(Anchored(x, es, v)) /\ Anchored(x, es, v) \in Image
         /\ Recovered(Anchored(x, es, v)) = Applied(x.home, PlanRecovery(es).writes)
<1> DEFINE y == Anchored(x, es, v)
<1>1. x \in Image /\ \A b \in OtherBlock : x.home[b] = SomeHome[b]
  BY DEF Good, Image
<1>2. y.region = es /\ y.version = v /\ y.home = x.home /\ y \in Image
  BY <1>1 DEF Anchored, Image
<1> HIDE DEF y
<1>3. Good(y)
  BY <1>1, <1>2 DEF Good, Image
<1>4. Recovered(y) = Applied(x.home, PlanRecovery(es).writes)
  BY <1>2 DEF Recovered
<1> QED
  BY <1>2, <1>3, <1>4 DEF y

\* An empty anchor over a home image.
LEMMA ClearedIsGood ==
  ASSUME NEW x, Good(x)
  PROVE  Good(Cleared(x)) /\ Cleared(x) \in Image /\ Recovered(Cleared(x)) = x.home
<1> DEFINE nil == <<>>
<1>1. nil \in Seq(JournalEntry) /\ Len(nil) = 0 /\ PlanRecovery(nil).ok /\ PlanRecovery(nil).writes = nil
  BY PlanNothing
<1>2. Applied(x.home, nil) = x.home
  BY AppliedNothing
<1>3. Cleared(x) = Anchored(x, nil, "empty")
  BY DEF Cleared
<1>4. Len(nil) <= MaxRegion /\ 1 .. Len(nil) = {}
  BY <1>1, EntryAssumption
<1>5. nil = <<>>
  OBVIOUS
<1> HIDE DEF nil
<1>6. /\ Good(Anchored(x, nil, "empty")) /\ Anchored(x, nil, "empty") \in Image
      /\ Recovered(Anchored(x, nil, "empty")) = Applied(x.home, PlanRecovery(nil).writes)
  BY <1>1, <1>4, <1>5, AnchoredIsGood
<1> QED
  BY <1>1, <1>2, <1>3, <1>6

\* Recovery's writes stay within the tables and the data.
LEMMA PlanTargets ==
  ASSUME NEW es \in Seq(JournalEntry), \A k \in 1 .. Len(es) : Targeted(es[k])
  PROVE  /\ PlanRecovery(es).writes \in Seq(WriteEntry)
         /\ \A k \in 1 .. Len(PlanRecovery(es).writes) : PlanRecovery(es).writes[k].block \in HomeBlock
<1> DEFINE p == PlanRecovery(es)
<1>1. PlanType(p, es, Len(es)) /\ p \in PlanState
  BY PlanWhole
<1>2. p.writes \in Seq(WriteEntry)
  BY <1>1 DEF PlanState
<1> HIDE DEF p
<1>3. ASSUME NEW k \in 1 .. Len(p.writes) PROVE p.writes[k].block \in HomeBlock
  <2>1. PICK x \in 1 .. Len(es) : p.writes[k] = es[x]
    BY <1>1 DEF PlanType
  <2>2. p.writes[k] \in WriteEntry
    BY <1>2, ElementOfSeq
  <2>3. p.writes[k].kind = "Write"
    BY <2>2 DEF WriteEntry
  <2> QED
    BY <2>1, <2>3 DEF Targeted
<1> QED
  BY <1>2, <1>3 DEF p

\* An image after the first of a plan's writes recovers to what it did before:
\* recovery that stops and starts again does no harm.
LEMMA ReplayedIsGood ==
  ASSUME NEW x, Good(x), NEW ws \in Seq(WriteEntry), NEW rest \in Seq(WriteEntry),
         PlanRecovery(x.region).writes = ws \o rest, NEW n \in 0 .. Len(ws),
         NEW y, y = [x EXCEPT !.home = Applied(x.home, SubSeq(ws, 1, n))]
  PROVE  /\ Good(y) /\ y \in Image /\ Recovered(y) = Recovered(x)
         /\ n = Len(ws) => y.home = Applied(x.home, ws)
<1> DEFINE h == x.home
           s == SubSeq(ws, 1, n)
           g == Applied(h, s)
<1>1. x \in Image /\ h \in Home /\ x.region \in Seq(JournalEntry)
  BY DEF Good, Image
<1>2. g \in Home /\ Applied(g, ws) = Applied(h, ws)
  BY <1>1, AppliedAgain
<1>3. y.region = x.region /\ y.version = x.version /\ y.home = g /\ y \in Image
  BY <1>1, <1>2 DEF Image
<1>4. Len(ws) \in Nat /\ n \in Nat /\ n <= Len(ws) /\ \A k \in 1 .. Len(ws) : ws[k] \in WriteEntry
  BY LenProperties, ElementOfSeq
<1>5. s \in Seq(WriteEntry) /\ Len(s) = n /\ \A k \in 1 .. n : s[k] = ws[k]
  <2>1. 1 \in Int /\ n \in Int /\ \A k \in 1 .. n : ws[k] \in WriteEntry
    BY <1>4
  <2>2. /\ SubSeq(ws, 1, n) \in Seq(WriteEntry)
        /\ Len(SubSeq(ws, 1, n)) = IF 1 <= n THEN n - 1 + 1 ELSE 0
        /\ \A k \in 1 .. n - 1 + 1 : SubSeq(ws, 1, n)[k] = ws[1 + k - 1]
    BY <2>1, SubSeqProperties
  <2> QED
    BY <1>4, <2>2
<1>6. \A k \in 1 .. Len(ws) : ws[k].block \in HomeBlock
  <2> DEFINE w == PlanRecovery(x.region).writes
  <2>1. \A k \in 1 .. Len(w) : w[k].block \in HomeBlock
    BY <1>1, PlanTargets DEF Good
  <2>2. w = ws \o rest
    OBVIOUS
  <2>3. Len(ws \o rest) = Len(ws) + Len(rest) /\ Len(rest) \in Nat
        /\ \A k \in 1 .. Len(ws) + Len(rest) :
              (ws \o rest)[k] = IF k <= Len(ws) THEN ws[k] ELSE rest[k - Len(ws)]
    BY ConcatProperties, LenProperties
  <2> HIDE DEF w
  <2>4. \A k \in 1 .. Len(ws) : k \in 1 .. Len(w) /\ w[k] = ws[k]
    BY <1>4, <2>2, <2>3
  <2> QED
    BY <2>1, <2>4
<1>7. ASSUME NEW b \in OtherBlock PROVE g[b] = SomeHome[b]
  <2>1. b \in HomeOrOther /\ b \notin HomeBlock
    BY ScanAssumption DEF HomeOrOther
  <2>2. \A k \in 1 .. Len(s) : s[k].block # b
    BY <1>4, <1>5, <1>6, <2>1
  <2> HIDE DEF s, h
  <2>3. g[b] = h[b]
    BY <1>1, <1>5, <2>1, <2>2, AppliedElsewhere
  <2> QED
    BY <2>3 DEF Good, h
<1> HIDE DEF g
<1>8. Good(y)
  BY <1>1, <1>3, <1>7 DEF Good, Image
<1>9. Recovered(y) = Recovered(x)
  <2>1. Recovered(y) = Applied(g, ws \o rest) /\ Recovered(x) = Applied(h, ws \o rest)
    BY <1>3 DEF Recovered
  <2>2. Applied(g, ws \o rest) = Applied(Applied(g, ws), rest)
    BY <1>2, AppliedInTurn
  <2>3. Applied(h, ws \o rest) = Applied(Applied(h, ws), rest)
    BY <1>1, AppliedInTurn
  <2> QED
    BY <1>2, <2>1, <2>2, <2>3
<1>10. n = Len(ws) => s = ws
  BY SubSeqFull
<1> QED
  BY <1>3, <1>8, <1>9, <1>10 DEF g

(***************************************************************************)
(* The calls.                                                              *)
(***************************************************************************)
\* The steps of a call that leaves the goal as it is.
Quiet == {Flush} \cup {x \in Image : Good(x) /\ Recovered(x) = goal}

\* A call whose images all recover to the store of before.
LEMMA QuietCall ==
  ASSUME DeviceInv, NEW steps \in Seq(Quiet), Len(steps) >= 2, steps[Len(steps)] = Flush
  PROVE  CallOk(steps, Len(steps), goal)
<1> DEFINE n == Len(steps)
<1>1. n \in Nat /\ \A x \in 1 .. n : steps[x] \in Quiet
  BY LenProperties, ElementOfSeq
<1>2. goal \in Home
  BY DEF DeviceInv
<1>3. \A x \in 1 .. n : steps[x] = Flush \/ (Good(steps[x]) /\ Recovered(steps[x]) = goal)
  BY <1>1 DEF Quiet
<1>4. n - 1 \in 1 .. n /\ \A x \in 1 .. n - 2 : x \in 1 .. n
  BY <1>1
<1> HIDE DEF n
<1>5. n >= 2 /\ Len(steps) = n /\ steps[n] = Flush
  BY DEF n
<1>6. CallOk(steps, n, goal)
  BY <1>1, <1>2, <1>3, <1>4, <1>5 DEF CallOk
<1> QED
  BY <1>6 DEF n

\* The home writes of the plan for what is stored, or for a prefix of it.
LEMMA ReplayIsQuiet ==
  ASSUME DeviceInv, NEW plan, plan.writes \in Seq(WriteEntry), NEW rest \in Seq(WriteEntry),
         PlanRecovery(region).writes = plan.writes \o rest
  PROVE  /\ ReplaySteps(plan) \in Seq(Quiet)
         /\ plan.writes # <<>> => /\ Len(ReplaySteps(plan)) >= 2
                                  /\ ReplaySteps(plan)[Len(ReplaySteps(plan))] = Flush
         /\ Good(Replayed(plan)) /\ Replayed(plan).home = Applied(now.home, plan.writes)
<1> DEFINE ws == plan.writes
           w == Len(ws)
           F(n) == [now EXCEPT !.home = Applied(now.home, SubSeq(ws, 1, n))]
           s == [n \in 1 .. w |-> F(n)]
           t == IF ws = <<>> THEN <<>> ELSE <<Flush>>
<1>1. Good(now) /\ Recovered(now) = goal /\ now \in Image
  BY DEF DeviceInv, Good, Image
<1>2. w \in Nat /\ DOMAIN ws = 1 .. w
  BY LenProperties
<1>3. \A n \in 0 .. w : /\ Good(F(n)) /\ F(n) \in Image /\ Recovered(F(n)) = Recovered(now)
                        /\ n = w => F(n).home = Applied(now.home, ws)
  BY <1>1, ReplayedIsGood DEF region
<1>4. ReplaySteps(plan) = s \o t
  BY <1>2 DEF ReplaySteps
<1>5. Replayed(plan) = F(w)
  <2>1. SubSeq(ws, 1, w) = ws
    BY SubSeqFull
  <2> QED
    BY <2>1 DEF Replayed
<1>6. Good(F(w)) /\ F(w).home = Applied(now.home, ws)
  <2>1. w \in 0 .. w
    BY <1>2
  <2> HIDE DEF F, w
  <2> QED
    BY <1>3, <2>1
<1>7. \A n \in 1 .. w : F(n) \in Quiet
  BY <1>1, <1>2, <1>3 DEF Quiet
<1> HIDE DEF F
<1>8. s \in Seq(Quiet) /\ Len(s) = w
  BY <1>2, <1>7
<1>9. t \in Seq(Quiet) /\ (ws # <<>> => Len(t) = 1 /\ t[1] = Flush)
  <2>1. Flush \in Quiet
    BY DEF Quiet
  <2> HIDE DEF ws
  <2> QED
    BY <2>1, EmptySeq
<1> HIDE DEF s, t
<1>10. /\ s \o t \in Seq(Quiet) /\ Len(s \o t) = w + Len(t)
       /\ \A x \in 1 .. w + Len(t) : (s \o t)[x] = IF x <= w THEN s[x] ELSE t[x - w]
  <2> HIDE DEF w
  <2>1. s \in Seq(Quiet) /\ t \in Seq(Quiet)
    BY <1>8, <1>9
  <2>2. /\ s \o t \in Seq(Quiet) /\ Len(s \o t) = Len(s) + Len(t)
        /\ \A x \in 1 .. Len(s) + Len(t) : (s \o t)[x] = IF x <= Len(s) THEN s[x] ELSE t[x - Len(s)]
    BY ONLY <2>1, ConcatProperties
  <2> QED
    BY <1>8, <2>2
<1>11. ASSUME ws # <<>> PROVE Len(s \o t) >= 2 /\ (s \o t)[Len(s \o t)] = Flush
  <2>1. w \in Nat \ {0}
    BY <1>11, EmptySeq
  <2>2. Len(t) = 1 /\ t[1] = Flush
    BY <1>9, <1>11
  <2> HIDE DEF ws, w
  <2>3. w + 1 \in 1 .. w + 1 /\ ~ (w + 1 <= w) /\ w + 1 - w = 1 /\ w + 1 >= 2
    BY <2>1
  <2> DEFINE c == s \o t
  <2>4. Len(c) = w + 1 /\ \A x \in 1 .. w + 1 : c[x] = IF x <= w THEN s[x] ELSE t[x - w]
    BY <1>10, <2>2
  <2> HIDE DEF c
  <2>5. c[w + 1] = t[1]
    <3> DEFINE m == w + 1
    <3>1. m \in 1 .. m /\ ~ (m <= w) /\ m - w = 1
      BY <2>1
    <3>2. \A x \in 1 .. m : c[x] = IF x <= w THEN s[x] ELSE t[x - w]
      BY <2>4
    <3> HIDE DEF m
    <3>3. c[m] = t[m - w]
      BY <3>1, <3>2
    <3> QED
      BY <3>1, <3>3 DEF m
  <2>6. Len(c) >= 2 /\ c[Len(c)] = Flush
    BY <2>2, <2>3, <2>4, <2>5
  <2> QED
    BY <2>6 DEF c
<1> QED
  BY <1>4, <1>5, <1>6, <1>10, <1>11

\* The steps that end a checkpoint, behind the home writes.
LEMMA QuietTail ==
  ASSUME DeviceInv, NEW r \in Seq(Quiet), NEW x \in Image, Good(x), Recovered(x) = goal,
         NEW tail, tail = <<x, Flush>> \/ tail = <<Flush, x, Flush>>
  PROVE  CallOk(r \o tail, Len(r \o tail), goal)
<1>1. Flush \in Quiet /\ x \in Quiet
  BY DEF Quiet
<1>2. tail \in Seq(Quiet) /\ Len(tail) >= 2 /\ Len(tail) \in Nat /\ tail[Len(tail)] = Flush
  <2>1. CASE tail = <<x, Flush>>
    BY <1>1, <2>1
  <2>2. CASE tail = <<Flush, x, Flush>>
    BY <1>1, <2>2
  <2> QED
    BY <2>1, <2>2
<1>3. /\ r \o tail \in Seq(Quiet) /\ Len(r \o tail) = Len(r) + Len(tail) /\ Len(r) \in Nat
      /\ \A k \in 1 .. Len(r) + Len(tail) : (r \o tail)[k] = IF k <= Len(r) THEN r[k] ELSE tail[k - Len(r)]
  BY <1>2, ConcatProperties, LenProperties
<1> DEFINE s == r \o tail
           a == Len(r)
           b == Len(tail)
<1>4. a + b \in 1 .. a + b /\ ~ (a + b <= a) /\ a + b - a = b /\ a + b >= 2
  BY <1>2, <1>3
<1>5. s[a + b] = Flush
  BY <1>2, <1>3, <1>4
<1>6. s \in Seq(Quiet) /\ Len(s) >= 2 /\ s[Len(s)] = Flush
  BY <1>3, <1>4, <1>5
<1> HIDE DEF s
<1>7. CallOk(s, Len(s), goal)
  BY <1>6, QuietCall
<1> QED
  BY <1>7 DEF s

\* The device as reads see it.
LEMMA NowFacts ==
  ASSUME DeviceInv
  PROVE  /\ Good(now) /\ now \in Image /\ region \in Seq(JournalEntry) /\ now.home \in Home
         /\ PlanRecovery(region).ok /\ \A k \in 1 .. Len(region) : Targeted(region[k])
         /\ Len(region) \in Nat /\ Len(region) <= MaxRegion
         /\ PlanRecovery(region).writes \in Seq(WriteEntry)
         /\ Applied(now.home, PlanRecovery(region).writes) = goal
         /\ goal \in Home
<1>1. Good(now) /\ Recovered(now) = goal /\ goal \in Home
  BY DEF DeviceInv
<1>2. now \in Image /\ region \in Seq(JournalEntry) /\ now.home \in Home
  BY <1>1 DEF Good, Image, region
<1>3. /\ PlanRecovery(region).ok /\ \A k \in 1 .. Len(region) : Targeted(region[k])
      /\ Len(region) <= MaxRegion
  BY <1>1 DEF Good, region
<1>4. PlanRecovery(region).writes \in Seq(WriteEntry)
  BY <1>2, PlanWhole DEF PlanState
<1>5. Len(region) \in Nat
  BY <1>2, LenProperties
<1> QED
  BY <1>1, <1>2, <1>3, <1>4, <1>5 DEF Recovered, region

\* The committed writes of a prefix of the log.
LEMMA LogWrites ==
  ASSUME LogInv, DeviceInv, NEW n \in 0 .. Len(entries)
  PROVE  /\ After(n) \in Seq(WriteEntry) /\ PlanRecovery(SubSeq(entries, 1, n)).writes = After(n)
         /\ Applied(goal, After(n)) \in Home
<1>1. entries \in Seq(JournalEntry) /\ PlanAt(entries, n).writes = After(n)
  BY AfterIs DEF LogInv, LogOk
<1>2. PlanAt(entries, n) \in PlanState
  BY <1>1, PlanTyped DEF PlanType
<1>3. After(n) \in Seq(WriteEntry)
  BY <1>1, <1>2 DEF PlanState
<1>4. PlanRecovery(SubSeq(entries, 1, n)) = PlanAt(entries, n)
  BY <1>1, PlanCut
<1>5. goal \in Home
  BY NowFacts
<1>6. Overlays(Applied(goal, After(n)), goal, After(n), Len(After(n)))
  BY <1>3, <1>5, AppliedOverlays
<1> QED
  BY <1>1, <1>3, <1>4, <1>6 DEF Overlays

\* store_journal_image keeps the invariant, wherever it fails.
LEMMA StoreImageKeeps ==
  ASSUME LogInv, DeviceInv, NEW n \in 0 .. Len(entries), StoreImage(n)
  PROVE  DeviceInv' /\ UNCHANGED <<log, done, open>>
<1> DEFINE image == SubSeq(entries, 1, n)
           asked == Applied(goal, After(n))
           c == Cleared(now)
           a == Anchored(now, image, "v2")
           nil == <<>>
<1>1. /\ Good(now) /\ now.home \in Home /\ goal \in Home
      /\ Applied(now.home, PlanRecovery(region).writes) = goal
  BY NowFacts
<1>2. region = nil /\ ValidEntries(image) /\ Len(image) <= MaxRegion
  BY DEF StoreImage, MayStore
<1>3. now.home = goal
  <2>1. PlanRecovery(nil).writes = nil /\ Applied(now.home, nil) = now.home
    BY PlanNothing, AppliedNothing
  <2> HIDE DEF nil
  <2> QED
    BY <1>1, <1>2, <2>1
<1>4. entries \in Seq(JournalEntry) /\ Len(entries) \in Nat /\ n \in Nat
  BY LenProperties DEF LogInv, LogOk
<1>5. image \in Seq(JournalEntry) /\ Len(image) = n
  BY <1>4, PlanCut
<1>6. PlanRecovery(image).ok /\ \A k \in 1 .. Len(image) : Targeted(image[k])
  BY <1>2, <1>5, AuditWhole
<1>7. PlanRecovery(image).writes = After(n) /\ asked \in Home
  BY LogWrites
<1>8. Good(c) /\ Recovered(c) = goal
  BY <1>1, <1>3, ClearedIsGood
<1>9. Good(a) /\ Recovered(a) = asked
  <2> HIDE DEF image
  <2>1. Good(a) /\ Recovered(a) = Applied(now.home, PlanRecovery(image).writes)
    BY <1>1, <1>2, <1>5, <1>6, AnchoredIsGood
  <2> QED
    BY <1>3, <1>7, <2>1
<1>10. c # Flush /\ a # Flush
  BY <1>8, <1>9, FlushIsNoImage
<1>11. CASE image = nil
  <2>1. Call(<<c, Flush>>, asked)
    BY <1>11 DEF StoreImage
  <2>2. asked = goal
    <3>1. n = 0
      BY <1>5, <1>11, EmptySeq
    <3>2. After(n) = nil
      BY <3>1 DEF After
    <3>3. Applied(goal, nil) = goal
      BY AppliedNothing
    <3> QED
      BY <3>2, <3>3
  <2> HIDE DEF c, asked, a, image
  <2>3. CallOk(<<c, Flush>>, 2, asked)
    <3> DEFINE s == <<c, Flush>>
    <3>1. Len(s) = 2 /\ s[1] = c /\ s[2] = Flush
      OBVIOUS
    <3>2. 1 .. 2 = {1, 2} /\ 1 .. 2 - 2 = {} /\ 2 - 1 = 1
      OBVIOUS
    <3> HIDE DEF s
    <3>3. CallOk(s, 2, asked)
      BY <1>7, <1>8, <1>10, <2>2, <3>1, <3>2 DEF CallOk
    <3> QED
      BY <3>3 DEF s
  <2> QED
    BY <2>1, <2>3, CallPreserves
<1>12. CASE image # nil
  <2>1. Call(<<c, Flush, Flush, a, Flush>>, asked)
    BY <1>12 DEF StoreImage
  <2> HIDE DEF c, asked, a, image
  <2>2. CallOk(<<c, Flush, Flush, a, Flush>>, 5, asked)
    <3> DEFINE s == <<c, Flush, Flush, a, Flush>>
    <3>1. Len(s) = 5 /\ s[1] = c /\ s[2] = Flush /\ s[3] = Flush /\ s[4] = a /\ s[5] = Flush
      OBVIOUS
    <3>2. 1 .. 5 = {1, 2, 3, 4, 5} /\ 1 .. 5 - 2 = {1, 2, 3} /\ 5 - 1 = 4
      OBVIOUS
    <3> HIDE DEF s
    <3>3. CallOk(s, 5, asked)
      BY <1>7, <1>8, <1>9, <1>10, <3>1, <3>2 DEF CallOk
    <3> QED
      BY <3>3 DEF s
  <2> QED
    BY <2>1, <2>2, CallPreserves
<1> QED
  BY <1>11, <1>12

\* append_retained_journal_entries keeps the invariant, wherever it fails.
LEMMA AppendRetainedKeeps ==
  ASSUME LogInv, DeviceInv, AppendRetained
  PROVE  DeviceInv' /\ UNCHANGED <<log, done, open>>
<1> DEFINE all == region \o entries
           asked == Applied(goal, After(Len(entries)))
           a == Anchored(now, all, "v3")
           rw == PlanRecovery(region).writes
           ew == PlanRecovery(entries).writes
<1>1. /\ Good(now) /\ now.home \in Home /\ goal \in Home /\ region \in Seq(JournalEntry)
      /\ PlanRecovery(region).ok /\ Len(region) \in Nat
      /\ \A k \in 1 .. Len(region) : Targeted(region[k])
      /\ Applied(now.home, rw) = goal /\ rw \in Seq(WriteEntry)
  BY NowFacts
<1>2. /\ CompleteEntries(entries) /\ Len(region) + Len(entries) <= MaxRegion
      /\ now.version = "v3" => CompleteEntries(region)
      /\ now.version # "v3" => region = <<>>
      /\ Call(<<Flush, a, Flush>>, asked)
  BY DEF AppendRetained
<1>3. entries \in Seq(JournalEntry) /\ Len(entries) \in Nat /\ Len(entries) \in 0 .. Len(entries)
  BY LenProperties DEF LogInv, LogOk
<1>4. /\ PlanRecovery(entries).ok /\ PlanRecovery(entries).active = None
      /\ \A k \in 1 .. Len(entries) : Targeted(entries[k])
  BY <1>2, <1>3, AuditWhole
<1>5. PlanRecovery(region).active = None
  <2>1. CASE now.version = "v3"
    BY <1>1, <1>2, <2>1, AuditWhole
  <2>2. CASE now.version # "v3"
    BY <1>2, <2>2, PlanNothing
  <2> QED
    BY <2>1, <2>2
<1>6. /\ all \in Seq(JournalEntry) /\ Len(all) = Len(region) + Len(entries)
      /\ Joins(PlanAt(all, Len(region) + Len(entries)), PlanRecovery(region), PlanAt(entries, Len(entries)))
  BY <1>1, <1>3, <1>5, PlanJoined
<1>7. PlanAt(entries, Len(entries)) = PlanRecovery(entries)
  BY <1>3, PlanWhole
<1>8. ew = After(Len(entries)) /\ ew \in Seq(WriteEntry) /\ asked \in Home
  <2>1. SubSeq(entries, 1, Len(entries)) = entries
    BY <1>3, SubSeqFull
  <2>2. /\ After(Len(entries)) \in Seq(WriteEntry) /\ asked \in Home
        /\ PlanRecovery(SubSeq(entries, 1, Len(entries))).writes = After(Len(entries))
    BY <1>3, LogWrites
  <2> QED
    BY <2>1, <2>2
<1> HIDE DEF all
<1>9. PlanRecovery(all) = PlanAt(all, Len(region) + Len(entries))
  BY <1>6, PlanWhole
<1>10. PlanRecovery(all).ok /\ PlanRecovery(all).writes = rw \o ew
  BY <1>4, <1>6, <1>7, <1>9 DEF Joins
<1>11. \A k \in 1 .. Len(all) : Targeted(all[k])
  <2> DEFINE i == Len(region)
             j == Len(entries)
  <2>1. \A k \in 1 .. i + j : all[k] = IF k <= i THEN region[k] ELSE entries[k - i]
    BY <1>1, <1>3, ConcatProperties DEF all
  <2>2. (\A k \in 1 .. i : Targeted(region[k])) /\ (\A k \in 1 .. j : Targeted(entries[k]))
    BY <1>1, <1>4
  <2>3. i \in Nat /\ j \in Nat /\ Len(all) = i + j
    BY <1>1, <1>3, <1>6
  <2> HIDE DEF i, j
  <2>4. ASSUME NEW k \in 1 .. i + j PROVE Targeted(all[k])
    <3>1. CASE k <= i
      <4>1. k \in 1 .. i /\ all[k] = region[k]
        BY <2>1, <2>3, <3>1
      <4> QED
        BY <2>2, <4>1
    <3>2. CASE ~ (k <= i)
      <4>1. k - i \in 1 .. j
        BY <2>3, <3>2
      <4>2. all[k] = entries[k - i]
        BY <2>1, <3>2
      <4> QED
        BY <2>2, <4>1, <4>2
    <3> QED
      BY <3>1, <3>2
  <2> QED
    BY <2>3, <2>4
<1>12. Good(a) /\ Recovered(a) = Applied(now.home, PlanRecovery(all).writes)
  BY <1>1, <1>2, <1>6, <1>10, <1>11, AnchoredIsGood
<1>13. Applied(now.home, rw \o ew) = Applied(Applied(now.home, rw), ew)
  BY <1>1, <1>8, AppliedInTurn
<1>14. Recovered(a) = asked
  BY <1>1, <1>8, <1>10, <1>12, <1>13
<1>15. a # Flush
  BY <1>12, FlushIsNoImage
<1> HIDE DEF a, asked
<1>16. CallOk(<<Flush, a, Flush>>, 3, asked)
  <2> DEFINE s == <<Flush, a, Flush>>
  <2>1. Len(s) = 3 /\ s[1] = Flush /\ s[2] = a /\ s[3] = Flush
    OBVIOUS
  <2>2. 1 .. 3 = {1, 2, 3} /\ 1 .. 3 - 2 = {1} /\ 3 - 1 = 2
    OBVIOUS
  <2> HIDE DEF s
  <2>3. CallOk(s, 3, asked)
    BY <1>8, <1>12, <1>14, <1>15, <2>1, <2>2 DEF CallOk
  <2> QED
    BY <2>3 DEF s
<1> QED
  BY <1>2, <1>16, CallPreserves

\* recover_journal keeps the invariant, wherever it fails.
LEMMA RecoverKeeps ==
  ASSUME DeviceInv, Recover
  PROVE  DeviceInv' /\ UNCHANGED <<log, done, open>>
<1> DEFINE plan == PlanRecovery(region)
           r == ReplaySteps(plan)
<1>1. plan.writes # <<>> /\ Call(r, goal)
  BY DEF Recover
<1>2. plan.writes \in Seq(WriteEntry)
  BY NowFacts
<1>3. <<>> \in Seq(WriteEntry) /\ plan.writes = plan.writes \o <<>>
  BY <1>2, EmptySeq, ConcatEmptySeq
<1>4. r \in Seq(Quiet) /\ Len(r) >= 2 /\ r[Len(r)] = Flush
  BY <1>1, <1>2, <1>3, ReplayIsQuiet
<1> HIDE DEF r
<1>5. CallOk(r, Len(r), goal)
  BY <1>4, QuietCall
<1> QED
  BY <1>1, <1>5, CallPreserves

\* recover_journal_and_checkpoint keeps the invariant, wherever it fails.
LEMMA CheckpointKeeps ==
  ASSUME DeviceInv, RecoverAndCheckpoint
  PROVE  DeviceInv' /\ UNCHANGED <<log, done, open>>
<1> DEFINE plan == PlanRecovery(region)
           r == ReplaySteps(plan)
           x == Cleared(Replayed(plan))
           tail == <<x, Flush>>
<1>1. Call(r \o tail, goal)
  BY DEF RecoverAndCheckpoint
<1>2. plan.writes \in Seq(WriteEntry) /\ Applied(now.home, plan.writes) = goal
  BY NowFacts
<1>3. <<>> \in Seq(WriteEntry) /\ plan.writes = plan.writes \o <<>>
  BY <1>2, EmptySeq, ConcatEmptySeq
<1>4. r \in Seq(Quiet) /\ Good(Replayed(plan)) /\ Replayed(plan).home = goal
  BY <1>2, <1>3, ReplayIsQuiet
<1>5. Good(x) /\ x \in Image /\ Recovered(x) = goal
  BY <1>4, ClearedIsGood
<1> HIDE DEF r, x
<1>6. CallOk(r \o tail, Len(r \o tail), goal)
  BY <1>4, <1>5, QuietTail
<1> HIDE DEF tail
<1> QED
  BY <1>1, <1>6, CallPreserves

(***************************************************************************)
(* The split of a retained log.                                            *)
(***************************************************************************)
LEMMA SplitPoint ==
  ASSUME NEW es \in Seq(JournalEntry), NEW max
  PROVE  /\ PrefixSplit(es, max) \in 0 .. Len(es) /\ Len(es) \in Nat
         /\ \/ PrefixSplit(es, max) = Len(es)
               /\ \A k \in 1 .. Len(es) : ~ (es[k].kind = "Commit" /\ Commits(es, k) = max)
            \/ /\ PrefixSplit(es, max) \in 1 .. Len(es)
               /\ es[PrefixSplit(es, max)].kind = "Commit"
               /\ Commits(es, PrefixSplit(es, max)) = max
<1> DEFINE ends == {k \in DOMAIN es : es[k].kind = "Commit" /\ Commits(es, k) = max}
           c == CHOOSE k \in ends : TRUE
<1>1. Len(es) \in Nat /\ DOMAIN es = 1 .. Len(es)
  BY LenProperties
<1>2. PrefixSplit(es, max) = IF ends = {} THEN Len(es) ELSE c
  BY DEF PrefixSplit
<1>3. CASE ends = {}
  BY <1>1, <1>2, <1>3
<1>4. CASE ends # {}
  <2>1. c \in ends
    BY <1>4
  <2> HIDE DEF c
  <2>2. c \in 1 .. Len(es) /\ es[c].kind = "Commit" /\ Commits(es, c) = max
    BY <1>1, <2>1
  <2> HIDE DEF ends
  <2>3. PrefixSplit(es, max) = c
    BY <1>2, <1>4
  <2>4. c \in 0 .. Len(es)
    BY <1>1, <2>2
  <2> QED
    BY <1>1, <2>2, <2>3, <2>4
<1> QED
  BY <1>3, <1>4

\* A sequence is the one part after the other.
LEMMA SplitParts ==
  ASSUME NEW es \in Seq(JournalEntry), NEW n \in 0 .. Len(es)
  PROVE  /\ SubSeq(es, 1, n) \in Seq(JournalEntry) /\ Len(SubSeq(es, 1, n)) = n
         /\ SubSeq(es, n + 1, Len(es)) \in Seq(JournalEntry)
         /\ Len(SubSeq(es, n + 1, Len(es))) = Len(es) - n
         /\ \A x \in 1 .. Len(es) - n : SubSeq(es, n + 1, Len(es))[x] = es[n + x]
         /\ es = SubSeq(es, 1, n) \o SubSeq(es, n + 1, Len(es))
<1> DEFINE l == Len(es)
           s == SubSeq(es, 1, n)
           t == SubSeq(es, n + 1, l)
<1>1. l \in Nat /\ n \in Nat /\ n <= l /\ \A k \in 1 .. l : es[k] \in JournalEntry
  BY LenProperties, ElementOfSeq
<1>2. s \in Seq(JournalEntry) /\ Len(s) = n /\ \A x \in 1 .. n : s[x] = es[x]
  BY PlanCut
<1>3. n + 1 \in Int /\ l \in Int /\ \A x \in n + 1 .. l : es[x] \in JournalEntry
  BY <1>1
<1>4. /\ t \in Seq(JournalEntry)
      /\ Len(t) = IF n + 1 <= l THEN l - (n + 1) + 1 ELSE 0
      /\ \A x \in 1 .. l - (n + 1) + 1 : t[x] = es[(n + 1) + x - 1]
  BY <1>3, SubSeqProperties
<1> HIDE DEF s, t
<1>5. Len(t) = l - n
  BY <1>1, <1>4
<1>6. \A x \in 1 .. l - n : t[x] = es[n + x]
  <2> TAKE x \in 1 .. l - n
  <2>1. x \in 1 .. l - (n + 1) + 1 /\ (n + 1) + x - 1 = n + x
    BY <1>1
  <2>2. t[x] = es[(n + 1) + x - 1]
    BY <1>4, <2>1
  <2> QED
    BY <2>1, <2>2
<1>7. /\ s \o t \in Seq(JournalEntry) /\ Len(s \o t) = n + (l - n)
      /\ \A x \in 1 .. n + (l - n) : (s \o t)[x] = IF x <= n THEN s[x] ELSE t[x - n]
  <2>1. s \in Seq(JournalEntry) /\ t \in Seq(JournalEntry)
    BY <1>2, <1>4
  <2>2. /\ s \o t \in Seq(JournalEntry) /\ Len(s \o t) = Len(s) + Len(t)
        /\ \A x \in 1 .. Len(s) + Len(t) : (s \o t)[x] = IF x <= Len(s) THEN s[x] ELSE t[x - Len(s)]
    BY ONLY <2>1, ConcatProperties
  <2> QED
    BY <1>2, <1>5, <2>2
<1>8. es = s \o t
  <2> DEFINE u == s \o t
  <2>1. u \in Seq(JournalEntry) /\ Len(u) = l
    BY <1>1, <1>7
  <2>2. \A x \in 1 .. l : u[x] = IF x <= n THEN s[x] ELSE t[x - n]
    BY <1>1, <1>7
  <2> HIDE DEF u
  <2>3. ASSUME NEW x \in 1 .. l PROVE es[x] = u[x]
    <3>1. CASE x <= n
      <4>1. x \in 1 .. n
        BY <1>1, <3>1
      <4> QED
        BY <1>2, <2>2, <3>1, <4>1
    <3>2. CASE ~ (x <= n)
      <4> DEFINE y == x - n
      <4>1. y \in 1 .. l - n /\ n + y = x
        BY <1>1, <3>2
      <4>2. u[x] = t[y]
        BY <2>2, <3>2
      <4> HIDE DEF y
      <4> QED
        BY <1>6, <4>1, <4>2
    <3> QED
      BY <3>1, <3>2
  <2>4. Len(es) = Len(u)
    BY <2>1
  <2>5. es = u
    BY <2>1, <2>3, <2>4, SeqEqual
  <2> QED
    BY <2>5 DEF u
<1> QED
  BY <1>2, <1>4, <1>5, <1>6, <1>8 DEF s, t

\* At a commit recovery is between two transactions.
LEMMA CutAtCommit ==
  ASSUME NEW es \in Seq(JournalEntry), PlanRecovery(es).ok, NEW n \in 1 .. Len(es), es[n].kind = "Commit"
  PROVE  /\ PlanRecovery(SubSeq(es, 1, n)).ok /\ PlanRecovery(SubSeq(es, 1, n)).active = None
         /\ PlanRecovery(SubSeq(es, 1, n)).commits > 0
<1> DEFINE m == n - 1
<1>1. Len(es) \in Nat /\ n \in 0 .. Len(es) /\ m \in Nat /\ m + 1 = n /\ m + 1 <= Len(es)
      /\ Len(es) \in 0 .. Len(es) /\ n \in 0 .. Len(es)
  BY LenProperties
<1> HIDE DEF m
<1>2. PlanRecovery(SubSeq(es, 1, n)) = PlanAt(es, n)
  BY <1>1, PlanCut
<1>3. PlanAt(es, Len(es)).ok
  BY PlanWhole
<1>4. PlanAt(es, n).ok
  BY <1>1, <1>3, PlanOkEarlier
<1>5. PlanMoves(PlanAt(es, m), PlanAt(es, m + 1), es[m + 1]) /\ PlanAt(es, m) \in PlanState
  BY <1>1, PlanNext
<1>6. PlanAt(es, n).active = None /\ PlanAt(es, n).commits = PlanAt(es, m).commits + 1
  BY <1>1, <1>4, <1>5 DEF PlanMoves
<1>7. PlanAt(es, m).commits \in Nat
  BY <1>5 DEF PlanState
<1> QED
  BY <1>2, <1>4, <1>6, <1>7

\* recover_retained_prefix_and_checkpoint keeps the invariant, wherever it fails.
LEMMA CheckpointPrefixKeeps ==
  ASSUME DeviceInv, NEW max \in 1 .. MaxTxid + 1, CheckpointPrefix(max)
  PROVE  DeviceInv' /\ UNCHANGED <<log, done, open>>
<1> DEFINE n == PrefixSplit(region, max)
           prefix == SubSeq(region, 1, n)
           plan == PlanRecovery(prefix)
           rest == SubSeq(region, n + 1, Len(region))
           later == PlanRecovery(rest).writes
           r == ReplaySteps(plan)
           y == Replayed(plan)
           nil == <<>>
<1>1. /\ CompleteEntries(region) /\ plan.ok
      /\ rest # nil => CompleteEntries(rest)
      /\ Call(r \o (IF rest = nil THEN <<Cleared(y), Flush>>
                    ELSE <<Flush, Anchored(y, rest, "v3"), Flush>>), goal)
  BY DEF CheckpointPrefix
<1>2. /\ Good(now) /\ region \in Seq(JournalEntry) /\ Len(region) \in Nat /\ PlanRecovery(region).ok
      /\ Len(region) <= MaxRegion /\ now.home \in Home
      /\ \A k \in 1 .. Len(region) : Targeted(region[k])
      /\ PlanRecovery(region).writes \in Seq(WriteEntry)
      /\ Applied(now.home, PlanRecovery(region).writes) = goal
  BY NowFacts
<1>3. n \in 0 .. Len(region) /\ (n = Len(region) \/ (n \in 1 .. Len(region) /\ region[n].kind = "Commit"))
  BY <1>2, SplitPoint
<1> HIDE DEF n
<1>4. /\ prefix \in Seq(JournalEntry) /\ Len(prefix) = n
      /\ rest \in Seq(JournalEntry) /\ Len(rest) = Len(region) - n
      /\ \A x \in 1 .. Len(region) - n : rest[x] = region[n + x]
      /\ region = prefix \o rest
  BY <1>2, <1>3, SplitParts
<1>5. plan.writes \in Seq(WriteEntry) /\ later \in Seq(WriteEntry)
  BY <1>4, PlanWhole DEF PlanState
<1>6. PlanRecovery(rest).ok
  <2>1. CASE rest = nil
    BY <2>1, PlanNothing
  <2>2. CASE rest # nil
    BY <1>1, <1>4, <2>2, AuditWhole
  <2> QED
    BY <2>1, <2>2
<1>7. plan.active = None
  <2>1. CASE n = Len(region)
    <3>1. prefix = region
      BY <1>2, <2>1, SubSeqFull
    <3> QED
      BY <1>1, <1>2, <3>1, AuditWhole
  <2>2. CASE n \in 1 .. Len(region) /\ region[n].kind = "Commit"
    BY <1>2, <2>2, CutAtCommit
  <2> QED
    BY <1>3, <2>1, <2>2
<1>8. PlanRecovery(region).writes = plan.writes \o later
  <2> HIDE DEF prefix, rest
  <2>1. /\ Len(prefix \o rest) = Len(prefix) + Len(rest)
        /\ \A m \in 0 .. Len(rest) :
              Joins(PlanAt(prefix \o rest, Len(prefix) + m), PlanRecovery(prefix), PlanAt(rest, m))
    BY <1>1, <1>4, <1>7, PlanJoined
  <2>2. Len(rest) \in 0 .. Len(rest)
    BY <1>4, LenProperties
  <2>3. PlanRecovery(rest) = PlanAt(rest, Len(rest))
    BY <1>4, PlanWhole
  <2>4. PlanRecovery(region) = PlanAt(region, Len(region))
    BY <1>2, PlanWhole
  <2>5. Joins(PlanAt(region, Len(region)), plan, PlanAt(rest, Len(rest)))
    BY <1>4, <2>1, <2>2
  <2> QED
    BY <2>3, <2>4, <2>5 DEF Joins
<1>9. r \in Seq(Quiet) /\ Good(y) /\ y.home = Applied(now.home, plan.writes)
  <2> HIDE DEF plan, later
  <2> QED
    BY <1>5, <1>8, ReplayIsQuiet
<1>10. goal = Applied(y.home, later)
  <2>1. Applied(now.home, plan.writes \o later) = Applied(Applied(now.home, plan.writes), later)
    BY <1>2, <1>5, AppliedInTurn
  <2> QED
    BY <1>2, <1>8, <1>9, <2>1
<1> HIDE DEF r, y, prefix, plan
<1>11. CASE rest = nil
  <2> DEFINE x == Cleared(y)
             tail == <<x, Flush>>
  <2>1. later = nil
    BY <1>11, PlanNothing
  <2>2. goal = y.home
    BY <1>10, <2>1, AppliedNothing
  <2>3. Good(x) /\ x \in Image /\ Recovered(x) = goal
    BY <1>9, <2>2, ClearedIsGood
  <2>4. Call(r \o tail, goal)
    BY <1>1, <1>11
  <2> HIDE DEF x
  <2>5. CallOk(r \o tail, Len(r \o tail), goal)
    BY <1>9, <2>3, QuietTail
  <2> HIDE DEF tail
  <2> QED
    BY <2>4, <2>5, CallPreserves
<1>12. CASE rest # nil
  <2> DEFINE x == Anchored(y, rest, "v3")
             tail == <<Flush, x, Flush>>
  <2>1. Len(rest) <= MaxRegion
    BY <1>2, <1>3, <1>4, EntryAssumption
  <2>2. \A k \in 1 .. Len(rest) : Targeted(rest[k])
    BY <1>1, <1>4, <1>12, AuditWhole
  <2>3. Good(x) /\ x \in Image /\ Recovered(x) = goal
    <3> HIDE DEF rest
    <3> QED
      BY <1>4, <1>6, <1>9, <1>10, <2>1, <2>2, AnchoredIsGood
  <2>4. Call(r \o tail, goal)
    BY <1>1, <1>12
  <2> HIDE DEF x
  <2>5. CallOk(r \o tail, Len(r \o tail), goal)
    BY <1>9, <2>3, QuietTail
  <2> HIDE DEF tail
  <2> QED
    BY <2>4, <2>5, CallPreserves
<1> QED
  BY <1>11, <1>12

\* Power loss keeps the invariant, with a new writer.
LEMMA CrashKeeps ==
  ASSUME DeviceInv, Crash
  PROVE  DeviceInv' /\ LogInv'
<1>1. PICK x \in images : /\ now' = x /\ images' = {x}
                          /\ goal' = Applied(x.home, PlanRecovery(x.region).writes)
                          /\ maybe' = {goal'}
  BY DEF Crash
<1>2. Good(x) /\ Recovered(x) \in Home
  BY <1>1 DEF DeviceInv
<1>3. goal' = Recovered(x)
  BY <1>1 DEF Recovered
<1>4. DeviceInv'
  BY <1>1, <1>2, <1>3 DEF DeviceInv
<1>5. entries' = <<>> /\ active' = None /\ next' = 0 /\ done' = <<>> /\ open' = <<>>
  BY DEF Crash
<1>6. LogOk(entries', active', done', open')
  BY <1>5, LogStarts
<1>7. Len(entries') = 0
  BY <1>5, EmptySeq
<1>8. Len(entries') <= MaxLog /\ active' \in Txid \cup {None} /\ next' \in Txid
  BY <1>5, <1>7, EntryAssumption, ScanAssumption DEF Txid
<1>9. LogInv'
  BY <1>6, <1>8 DEF LogInv
<1> QED
  BY <1>4, <1>9

(***************************************************************************)
(* The number of commits.                                                  *)
(***************************************************************************)
LEMMA CommitsTurn ==
  ASSUME NEW es, NEW n \in Nat
  PROVE  /\ Commits(es, 0) = 0 /\ Commits(es, n) \in Nat
         /\ Commits(es, n + 1) = IF es[n + 1].kind = "Commit" THEN Commits(es, n) + 1 ELSE Commits(es, n)
<1> DEFINE S(k) == {x \in 1 .. k : es[x].kind = "Commit"}
<1>1. \A k : Commits(es, k) = Cardinality(S(k))
  BY DEF Commits
<1>2. S(0) = {}
  OBVIOUS
<1>3. IsFiniteSet(S(n))
  <2>1. IsFiniteSet(1 .. n)
    BY FS_Interval
  <2>2. S(n) \in SUBSET (1 .. n)
    OBVIOUS
  <2> HIDE DEF S
  <2> QED
    BY <2>1, <2>2, FS_Subset
<1>4. S(n + 1) = IF es[n + 1].kind = "Commit" THEN S(n) \cup {n + 1} ELSE S(n)
  <2>1. 1 .. n + 1 = (1 .. n) \cup {n + 1}
    OBVIOUS
  <2> QED
    BY <2>1
<1>5. n + 1 \notin S(n)
  OBVIOUS
<1> HIDE DEF S
<1>6. Cardinality(S(n) \cup {n + 1}) = Cardinality(S(n)) + 1
  BY <1>3, <1>5, FS_AddElement
<1>7. Cardinality(S(n)) \in Nat /\ Cardinality(S(0)) = 0
  BY <1>2, <1>3, FS_CardinalityType, FS_EmptySet
<1> QED
  BY <1>1, <1>4, <1>6, <1>7

\* Recovery counts the commits.
LEMMA PlanCommits ==
  ASSUME NEW es \in Seq(JournalEntry)
  PROVE  \A n \in 0 .. Len(es) : PlanAt(es, n).ok => PlanAt(es, n).commits = Commits(es, n)
<1> DEFINE P == {n \in Nat : n <= Len(es) /\ PlanAt(es, n).ok => PlanAt(es, n).commits = Commits(es, n)}
<1>0. Len(es) \in Nat
  BY LenProperties
<1>1. 0 \in P
  <2>1. PlanAt(es, 0) = PlanStart /\ PlanStart.commits = 0
    BY PlanTurn DEF PlanStart
  <2>2. Commits(es, 0) = 0
    BY CommitsTurn
  <2> QED
    BY <2>1, <2>2
<1>2. ASSUME NEW n \in P PROVE n + 1 \in P
  <2> SUFFICES ASSUME n + 1 <= Len(es), PlanAt(es, n + 1).ok
               PROVE  PlanAt(es, n + 1).commits = Commits(es, n + 1)
    OBVIOUS
  <2> DEFINE p == PlanAt(es, n)
             q == PlanAt(es, n + 1)
             e == es[n + 1]
  <2>1. n \in Nat /\ n <= Len(es)
    BY <1>0
  <2>2. PlanMoves(p, q, e) /\ e \in JournalEntry
    BY <2>1, PlanNext
  <2>3. p.ok
    BY <2>2 DEF PlanMoves
  <2>4. p.commits = Commits(es, n)
    BY <2>1, <2>3
  <2>5. Commits(es, n + 1) = IF e.kind = "Commit" THEN Commits(es, n) + 1 ELSE Commits(es, n)
    BY <2>1, CommitsTurn
  <2>6. e.kind \in {"Begin", "Write", "Commit"}
    BY <2>2, EntryKinds
  <2>7. q.commits = IF e.kind = "Commit" THEN p.commits + 1 ELSE p.commits
    BY <2>2, <2>6 DEF PlanMoves
  <2> HIDE DEF p, q, e, P
  <2>8. q.commits = Commits(es, n + 1)
    BY <2>4, <2>5, <2>7
  <2> QED
    BY <2>8 DEF q
<1>3. P \in SUBSET Nat
  OBVIOUS
<1>4. \A n \in Nat : n \in P
  <2> HIDE DEF P
  <2> QED
    BY <1>1, <1>2, <1>3, Inductive
<1> QED
  BY <1>0, <1>4

\* Every number up to the number of commits is reached at some commit, and no
\* commit has a number above it.
LEMMA CommitReached ==
  ASSUME NEW es, NEW n \in Nat, NEW c \in Nat \ {0}, c <= Commits(es, n)
  PROVE  \E k \in 1 .. n : es[k].kind = "Commit" /\ Commits(es, k) = c
<1> DEFINE Q == {k \in Nat : Commits(es, k) >= c}
<1>1. Q \in SUBSET Nat /\ n \in Q
  BY CommitsTurn
<1>2. PICK k \in Q : \A i \in Q : k <= i
  BY <1>1, LeastMember
<1>3. k \in Nat /\ Commits(es, k) >= c /\ k <= n
  BY <1>1, <1>2
<1>4. k # 0
  BY <1>3, CommitsTurn
<1> DEFINE m == k - 1
<1>5. m \in Nat /\ k = m + 1 /\ ~ (k <= m)
  BY <1>3, <1>4
<1>6. m \notin Q
  BY <1>2, <1>5
<1>7. Commits(es, m) \in Nat /\ ~ (Commits(es, m) >= c)
  BY <1>5, <1>6, CommitsTurn
<1> HIDE DEF Q, m
<1>8. Commits(es, m + 1) = IF es[m + 1].kind = "Commit" THEN Commits(es, m) + 1 ELSE Commits(es, m)
  BY <1>5, CommitsTurn
<1>9. es[k].kind = "Commit"
  BY <1>3, <1>5, <1>7, <1>8
<1>10. Commits(es, k) = Commits(es, m) + 1
  BY <1>5, <1>8, <1>9
<1>11. Commits(es, k) = c
  BY <1>3, <1>7, <1>10
<1>12. k \in 1 .. n
  BY <1>3, <1>4
<1> QED
  BY <1>9, <1>11, <1>12

\* A longer prefix has at least as many commits.
LEMMA CommitsGrow ==
  ASSUME NEW es, NEW n \in Nat, NEW k \in 0 .. n
  PROVE  Commits(es, k) <= Commits(es, n)
<1> DEFINE S(j) == {x \in 1 .. j : es[x].kind = "Commit"}
<1>1. IsFiniteSet(S(n))
  <2>1. IsFiniteSet(1 .. n)
    BY FS_Interval
  <2>2. S(n) \in SUBSET (1 .. n)
    OBVIOUS
  <2> HIDE DEF S
  <2> QED
    BY <2>1, <2>2, FS_Subset
<1>2. S(k) \in SUBSET S(n)
  OBVIOUS
<1>3. Commits(es, n) = Cardinality(S(n)) /\ Commits(es, k) = Cardinality(S(k))
  BY DEF Commits
<1> HIDE DEF S
<1> QED
  BY <1>1, <1>2, <1>3, FS_Subset

\* Entries that end between transactions end with a commit.
LEMMA EndsWithCommit ==
  ASSUME NEW es \in Seq(JournalEntry), es # <<>>, PlanRecovery(es).ok, PlanRecovery(es).active = None
  PROVE  PlanRecovery(es).commits > 0
<1> DEFINE l == Len(es)
           m == l - 1
           p == PlanAt(es, m)
           q == PlanAt(es, m + 1)
           e == es[m + 1]
<1>1. l \in Nat \ {0}
  BY EmptySeq
<1>2. m \in Nat /\ m + 1 = l /\ m + 1 <= Len(es)
  BY <1>1
<1>3. q = PlanRecovery(es)
  BY <1>2, PlanWhole
<1> HIDE DEF m
<1>4. p \in PlanState /\ PlanMoves(p, q, e) /\ e \in JournalEntry
  BY <1>2, PlanNext
<1>5. e.txid # None /\ e.kind \in {"Begin", "Write", "Commit"}
  BY <1>4, EntryKinds
<1>6. q.ok /\ q.active = None
  BY <1>3
<1> HIDE DEF p, q, e
<1>7. e.kind = "Commit"
  BY <1>4, <1>5, <1>6 DEF PlanMoves, InOrder
<1>8. q.commits = p.commits + 1 /\ p.commits \in Nat
  BY <1>4, <1>6, <1>7 DEF PlanMoves, PlanState
<1> QED
  BY <1>3, <1>8

\* The split of complete entries, after any number of transactions.
Exact(es, max, n, home) ==
  LET prefix == SubSeq(es, 1, n)
      suffix == SubSeq(es, n + 1, Len(es))
      count == Commits(es, Len(es))
  IN /\ CompleteEntries(prefix)
     /\ suffix = <<>> \/ CompleteEntries(suffix)
     /\ PlanRecovery(prefix).commits = IF max < count THEN max ELSE count
     /\ Applied(Applied(home, PlanRecovery(prefix).writes), PlanRecovery(suffix).writes)
          = Applied(home, PlanRecovery(es).writes)

\* The split of complete entries, after any number of transactions.
LEMMA SplitExact ==
  ASSUME NEW es \in Seq(JournalEntry), CompleteEntries(es),
         NEW max \in 1 .. Commits(es, Len(es)) + 1, NEW home \in Home
  PROVE  Exact(es, max, PrefixSplit(es, max), home)
<1> DEFINE l == Len(es)
           count == Commits(es, l)
           n == PrefixSplit(es, max)
           prefix == SubSeq(es, 1, n)
           suffix == SubSeq(es, n + 1, Len(es))
<1>1. /\ PlanRecovery(es).ok /\ PlanRecovery(es).active = None /\ PlanRecovery(es).commits > 0
      /\ \A k \in 1 .. l : Targeted(es[k])
  BY AuditWhole
<1>2. /\ n \in 0 .. l /\ l \in Nat
      /\ \/ n = l /\ \A k \in 1 .. l : ~ (es[k].kind = "Commit" /\ Commits(es, k) = max)
         \/ n \in 1 .. l /\ es[n].kind = "Commit" /\ Commits(es, n) = max
  BY SplitPoint
<1>3. n \in Nat /\ count \in Nat /\ max \in Nat \ {0}
  <2>1. count \in Nat
    BY <1>2, CommitsTurn
  <2> QED
    BY <1>2, <2>1
<1> HIDE DEF n
<1>4. /\ prefix \in Seq(JournalEntry) /\ Len(prefix) = n
      /\ suffix \in Seq(JournalEntry) /\ Len(suffix) = l - n
      /\ \A x \in 1 .. l - n : suffix[x] = es[n + x]
      /\ es = prefix \o suffix
  BY <1>2, SplitParts
<1>5. \A x \in 1 .. n : prefix[x] = es[x]
  BY <1>2, PlanCut
<1>6. PlanRecovery(prefix).ok /\ PlanRecovery(prefix).active = None /\ PlanRecovery(prefix).commits > 0
  <2>1. CASE n = l
    BY <1>1, <2>1, SubSeqFull
  <2>2. CASE n # l
    BY <1>1, <1>2, <2>2, CutAtCommit
  <2> QED
    BY <2>1, <2>2
<1>a. PlanRecovery(prefix) = PlanAt(es, n)
  BY <1>2, PlanCut
<1> HIDE DEF prefix, suffix
<1>7. \A x \in 1 .. Len(prefix) : Targeted(prefix[x])
  <2>1. \A x \in 1 .. n : x \in 1 .. l
    BY <1>2
  <2>2. \A x \in 1 .. n : Targeted(prefix[x])
    BY <1>1, <1>5, <2>1
  <2>3. 1 .. Len(prefix) = 1 .. n
    BY <1>4
  <2> QED
    BY <2>2, <2>3
<1>8. CompleteEntries(prefix)
  BY <1>4, <1>6, <1>7, AuditWhole
<1>9. Joins(PlanRecovery(es), PlanRecovery(prefix), PlanRecovery(suffix))
  <2>1. /\ Len(prefix \o suffix) = Len(prefix) + Len(suffix)
        /\ \A m \in 0 .. Len(suffix) :
              Joins(PlanAt(prefix \o suffix, Len(prefix) + m), PlanRecovery(prefix), PlanAt(suffix, m))
    BY <1>4, <1>6, PlanJoined
  <2>2. Len(suffix) \in 0 .. Len(suffix)
    <3> DEFINE j == l - n
    <3> HIDE DEF l
    <3>0. l - n \in 0 .. l - n
      BY ONLY <1>2
    <3>1. j \in 0 .. j /\ Len(suffix) = j
      BY <1>4, <3>0
    <3> HIDE DEF j
    <3> QED
      BY <3>1
  <2>3. PlanRecovery(suffix) = PlanAt(suffix, Len(suffix))
    BY <1>4, PlanWhole
  <2>4. PlanRecovery(es) = PlanAt(es, l)
    BY PlanWhole
  <2>5. Joins(PlanAt(es, l), PlanRecovery(prefix), PlanAt(suffix, Len(suffix)))
    BY <1>4, <2>1, <2>2
  <2> QED
    BY <2>3, <2>4, <2>5
<1>10. suffix # <<>> => CompleteEntries(suffix)
  <2> SUFFICES ASSUME suffix # <<>> PROVE CompleteEntries(suffix)
    OBVIOUS
  <2>1. PlanRecovery(suffix).ok /\ PlanRecovery(suffix).active = None
    BY <1>1, <1>9 DEF Joins
  <2>2. PlanRecovery(suffix).commits > 0
    BY <1>4, <2>1, EndsWithCommit
  <2>3. \A x \in 1 .. Len(suffix) : Targeted(suffix[x])
    <3>1. \A x \in 1 .. l - n : n + x \in 1 .. l
      <4> HIDE DEF l, count
      <4> QED
        BY ONLY <1>2, <1>3
    <3>2. \A x \in 1 .. l - n : Targeted(suffix[x])
      BY <1>1, <1>4, <3>1
    <3>3. 1 .. Len(suffix) = 1 .. l - n
      BY <1>4
    <3> QED
      BY <3>2, <3>3
  <2> QED
    BY <1>4, <2>1, <2>2, <2>3, AuditWhole
<1>11. PlanRecovery(prefix).commits = Commits(es, n)
  <2>1. PlanAt(es, n).ok
    BY <1>6, <1>a
  <2> QED
    BY <1>2, <1>a, <2>1, PlanCommits
<1>12. Commits(es, n) = IF max < count THEN max ELSE count
  <2>1. CASE n = l /\ \A k \in 1 .. l : ~ (es[k].kind = "Commit" /\ Commits(es, k) = max)
    <3>1. ~ (max <= Commits(es, l))
      <4>1. max \in Nat \ {0} /\ l \in Nat
        BY <1>2, <1>3
      <4> HIDE DEF l
      <4> QED
        BY <2>1, <4>1, CommitReached
    <3> QED
      BY <1>3, <2>1, <3>1
  <2>2. CASE n \in 1 .. l /\ es[n].kind = "Commit" /\ Commits(es, n) = max
    <3>1. Commits(es, n) <= count
      BY <1>2, CommitsGrow
    <3> QED
      BY <1>3, <2>2, <3>1
  <2> QED
    BY <1>2, <2>1, <2>2
<1>13. Applied(Applied(home, PlanRecovery(prefix).writes), PlanRecovery(suffix).writes)
         = Applied(home, PlanRecovery(es).writes)
  <2>1. PlanRecovery(prefix).writes \in Seq(WriteEntry) /\ PlanRecovery(suffix).writes \in Seq(WriteEntry)
    BY <1>4, PlanWhole DEF PlanState
  <2>2. PlanRecovery(es).writes = PlanRecovery(prefix).writes \o PlanRecovery(suffix).writes
    BY <1>9 DEF Joins
  <2> QED
    BY <2>1, <2>2, AppliedInTurn
<1>14. PlanRecovery(prefix).commits = IF max < count THEN max ELSE count
  BY <1>11, <1>12
<1> QED
  BY <1>8, <1>10, <1>13, <1>14 DEF Exact, prefix, suffix, n

(***************************************************************************)
(* What the entries mean, without a loop.                                  *)
(***************************************************************************)
\* The entry at k is in order.
OrderedAt(es, k) ==
  IF es[k].kind = "Begin" THEN ~\E i \in 1 .. k - 1 : Opens(es, i, k - 1)
  ELSE \E i \in 1 .. k - 1 : Opens(es, i, k - 1) /\ es[i].txid = es[k].txid

\* The transaction recovery has active is the one that is open.
ActiveOpens(p, es, n) ==
  /\ p.active = None => \A i \in 1 .. n : ~ Opens(es, i, n)
  /\ p.active # None => /\ \E i \in 1 .. n : Opens(es, i, n)
                        /\ \A i \in 1 .. n : Opens(es, i, n) => es[i].txid = p.active

\* Which begins are open after one more entry.
LEMMA OpensTurn ==
  ASSUME NEW es, NEW n \in Nat
  PROVE  /\ \A i \in 1 .. n : Opens(es, i, n + 1) <=> Opens(es, i, n) /\ es[n + 1].kind # "Commit"
         /\ Opens(es, n + 1, n + 1) <=> es[n + 1].kind = "Begin"
         /\ 1 .. n + 1 = (1 .. n) \cup {n + 1}
<1>1. ASSUME NEW i \in 1 .. n
      PROVE  Opens(es, i, n + 1) <=> Opens(es, i, n) /\ es[n + 1].kind # "Commit"
  <2>1. i + 1 .. n + 1 = (i + 1 .. n) \cup {n + 1}
    OBVIOUS
  <2>2. i <= n /\ i <= n + 1
    OBVIOUS
  <2> QED
    BY <2>1, <2>2 DEF Opens
<1>2. Opens(es, n + 1, n + 1) <=> es[n + 1].kind = "Begin"
  <2>1. (n + 1) + 1 .. n + 1 = {} /\ n + 1 <= n + 1
    OBVIOUS
  <2> QED
    BY <2>1 DEF Opens
<1>3. 1 .. n + 1 = (1 .. n) \cup {n + 1}
  OBVIOUS
<1> QED
  BY <1>1, <1>2, <1>3

\* The loop accepts what is in order.
LEMMA PlanOrdered ==
  ASSUME NEW es \in Seq(JournalEntry)
  PROVE  \A n \in 0 .. Len(es) :
            /\ PlanAt(es, n).ok <=> \A k \in 1 .. n : OrderedAt(es, k)
            /\ PlanAt(es, n).ok => ActiveOpens(PlanAt(es, n), es, n)
<1> DEFINE Holds(n) == /\ PlanAt(es, n).ok <=> \A k \in 1 .. n : OrderedAt(es, k)
                       /\ PlanAt(es, n).ok => ActiveOpens(PlanAt(es, n), es, n)
           P == {n \in Nat : n <= Len(es) => Holds(n)}
<1>0. Len(es) \in Nat
  BY LenProperties
<1>1. 0 \in P
  <2>1. PlanAt(es, 0) = PlanStart /\ PlanStart.ok /\ PlanStart.active = None
    BY PlanTurn DEF PlanStart
  <2>2. 1 .. 0 = {}
    OBVIOUS
  <2>3. Holds(0)
    BY <2>1, <2>2 DEF ActiveOpens
  <2> HIDE DEF Holds
  <2> QED
    BY <2>3
<1>2. ASSUME NEW n \in P PROVE n + 1 \in P
  <2> SUFFICES ASSUME n + 1 <= Len(es) PROVE Holds(n + 1)
    OBVIOUS
  <2> DEFINE m == n + 1
             p == PlanAt(es, n)
             q == PlanAt(es, m)
             e == es[m]
  <2>1. n \in Nat /\ n <= Len(es) /\ m - 1 = n
    BY <1>0
  <2>2. Holds(n)
    BY <2>1
  <2>3. p \in PlanState /\ PlanMoves(p, q, e) /\ e \in JournalEntry
    BY <2>1, PlanNext
  <2>4. e.txid # None /\ e.kind \in {"Begin", "Write", "Commit"}
    BY <2>3, EntryKinds
  <2>5. /\ \A i \in 1 .. n : Opens(es, i, m) <=> Opens(es, i, n) /\ e.kind # "Commit"
        /\ Opens(es, m, m) <=> e.kind = "Begin"
        /\ 1 .. m = (1 .. n) \cup {m}
    BY <2>1, OpensTurn
  <2>6. OrderedAt(es, m) <=>
          IF e.kind = "Begin" THEN ~\E i \in 1 .. n : Opens(es, i, n)
          ELSE \E i \in 1 .. n : Opens(es, i, n) /\ es[i].txid = e.txid
    BY <2>1 DEF OrderedAt
  <2>7. e = es[m]
    OBVIOUS
  <2>8. /\ p.ok <=> \A k \in 1 .. n : OrderedAt(es, k)
        /\ p.ok => ActiveOpens(p, es, n)
    BY <2>2
  <2> HIDE DEF m, p, q, e, P
  <2>9. p.ok => (InOrder(p.active, e) <=> OrderedAt(es, m))
    <3> SUFFICES ASSUME p.ok PROVE InOrder(p.active, e) <=> OrderedAt(es, m)
      OBVIOUS
    <3>1. ActiveOpens(p, es, n)
      BY <2>8
    <3>2. CASE e.kind = "Begin"
      BY <2>6, <3>1, <3>2 DEF InOrder, ActiveOpens
    <3>3. CASE e.kind # "Begin"
      BY <2>4, <2>6, <3>1, <3>3 DEF InOrder, ActiveOpens
    <3> QED
      BY <3>2, <3>3
  <2>10. q.ok <=> p.ok /\ InOrder(p.active, e)
    BY <2>3 DEF PlanMoves
  <2>11. q.ok <=> \A k \in 1 .. m : OrderedAt(es, k)
    <3>1. (\A k \in 1 .. m : OrderedAt(es, k)) <=> (\A k \in 1 .. n : OrderedAt(es, k)) /\ OrderedAt(es, m)
      BY <2>5
    <3> QED
      BY <2>8, <2>9, <2>10, <3>1
  <2>12. ASSUME q.ok PROVE ActiveOpens(q, es, m)
    <3>1. p.ok /\ InOrder(p.active, e) /\ ActiveOpens(p, es, n)
      BY <2>8, <2>10, <2>12
    <3>2. CASE e.kind = "Begin"
      <4>1. q.active = e.txid /\ p.active = None
        BY <2>3, <2>12, <3>1, <3>2 DEF PlanMoves, InOrder
      <4>2. \A i \in 1 .. n : ~ Opens(es, i, m)
        BY <2>5, <3>1, <4>1 DEF ActiveOpens
      <4>3. Opens(es, m, m) /\ m \in 1 .. m
        BY <2>5, <3>2
      <4> QED
        BY <2>4, <2>5, <2>7, <4>1, <4>2, <4>3 DEF ActiveOpens
    <3>3. CASE e.kind = "Write"
      <4>1. q.active = p.active /\ p.active = e.txid
        BY <2>3, <2>12, <3>1, <3>3 DEF PlanMoves, InOrder
      <4>2. ~ Opens(es, m, m) /\ \A i \in 1 .. n : Opens(es, i, m) <=> Opens(es, i, n)
        BY <2>5, <3>3
      <4> QED
        BY <2>4, <2>5, <3>1, <4>1, <4>2 DEF ActiveOpens
    <3>4. CASE e.kind = "Commit"
      <4>1. q.active = None
        BY <2>3, <2>12, <3>1, <3>4 DEF PlanMoves
      <4>2. \A i \in 1 .. m : ~ Opens(es, i, m)
        BY <2>5, <3>4
      <4> QED
        BY <4>1, <4>2 DEF ActiveOpens
    <3> QED
      BY <2>4, <3>2, <3>3, <3>4
  <2>13. Holds(m)
    BY <2>11, <2>12 DEF q
  <2> QED
    BY <2>13 DEF m
<1>3. P \in SUBSET Nat
  OBVIOUS
<1>4. \A n \in Nat : n \in P
  <2> HIDE DEF P
  <2> QED
    BY <1>1, <1>2, <1>3, Inductive
<1> QED
  BY <1>0, <1>4

(***************************************************************************)
(* The writes of committed transactions.                                   *)
(***************************************************************************)
\* h is base with the writes at the positions S, the last one to a block on top.
Shows(h, base, es, S) ==
  /\ h \in Home
  /\ \A b \in HomeOrOther : (\A k \in S : es[k].block # b) => h[b] = base[b]
  /\ \A k \in S : (\A x \in S : es[x].block = es[k].block => x <= k) => h[es[k].block] = es[k].data

\* Writes of one set of positions, then those of a later set.
LEMMA ShowsInTurn ==
  ASSUME NEW es, NEW K \in SUBSET Nat, NEW Q \in SUBSET Nat, \A k \in K, x \in Q : k < x,
         \A k \in K \cup Q : es[k] \in WriteEntry,
         NEW base, NEW f, NEW g, Shows(f, base, es, K), Shows(g, f, es, Q)
  PROVE  Shows(g, base, es, K \cup Q)
<1>1. g \in Home
  BY DEF Shows
<1>2. ASSUME NEW b \in HomeOrOther, \A k \in K \cup Q : es[k].block # b PROVE g[b] = base[b]
  BY <1>2 DEF Shows
<1>3. ASSUME NEW k \in K \cup Q, \A x \in K \cup Q : es[x].block = es[k].block => x <= k
      PROVE  g[es[k].block] = es[k].data
  <2>1. CASE k \in Q
    BY <1>3, <2>1 DEF Shows
  <2>2. CASE k \notin Q
    <3>1. k \in K /\ \A x \in Q : es[x].block # es[k].block
      BY <1>3, <2>2
    <3>2. es[k].block \in HomeOrOther
      BY DEF WriteEntry
    <3>3. f[es[k].block] = es[k].data
      BY <1>3, <3>1 DEF Shows
    <3> QED
      BY <3>1, <3>2, <3>3 DEF Shows
  <2> QED
    BY <2>1, <2>2
<1> QED
  BY <1>1, <1>2, <1>3 DEF Shows

\* No writes.
LEMMA ShowsNothing ==
  ASSUME NEW es, NEW h \in Home
  PROVE  Shows(h, h, es, {})
BY DEF Shows

\* One write.
LEMMA ShowsWrite ==
  ASSUME NEW es, NEW m \in Nat, es[m] \in WriteEntry, NEW h \in Home
  PROVE  Shows(Applied(h, <<es[m]>>), h, es, {m})
<1> DEFINE e == es[m]
           s == <<e>>
           g == [h EXCEPT ![e.block] = e.data]
<1>1. Applied(h, s) = g
  <2>1. DOMAIN s = 1 .. 1 /\ s[1] = e
    OBVIOUS
  <2> HIDE DEF s
  <2>2. Applied(h, s) = HomeAt(h, s, 1)
    BY <2>1, ApplyLoop
  <2>3. HomeAt(h, s, 0) = h /\ HomeAt(h, s, 0 + 1) = ApplyWrite(HomeAt(h, s, 0), s[0 + 1])
    BY HomeTurn
  <2>4. 0 + 1 = 1
    OBVIOUS
  <2>5. HomeAt(h, s, 1) = ApplyWrite(h, e)
    BY <2>1, <2>3, <2>4
  <2> QED
    BY <2>2, <2>5 DEF ApplyWrite
<1>2. e.block \in HomeOrOther /\ e.data \in Value
  BY DEF WriteEntry
<1>3. e = es[m]
  OBVIOUS
<1> HIDE DEF e
<1>4. /\ g \in Home /\ g[e.block] = e.data
      /\ \A b \in HomeOrOther : b # e.block => g[b] = h[b]
  BY <1>2 DEF Home, HomeOrOther
<1> HIDE DEF g, s
<1>5. Shows(g, h, es, {m})
  BY <1>3, <1>4 DEF Shows
<1> QED
  BY <1>1, <1>3, <1>5 DEF s

\* Among the first n entries: the writes of committed transactions, and the
\* writes since the last begin or commit.
CommittedBy(es, n) ==
  {k \in 1 .. n : /\ es[k].kind = "Write"
                  /\ \E c \in k + 1 .. n : /\ es[c].kind = "Commit"
                                           /\ \A x \in k + 1 .. c : es[x].kind # "Begin"}
Held(es, n) == {k \in 1 .. n : es[k].kind = "Write" /\ \A x \in k + 1 .. n : es[x].kind = "Write"}

\* Which positions are committed and which are held after one more entry.
LEMMA PositionsTurn ==
  ASSUME NEW es, NEW n \in Nat, \A k \in 1 .. n + 1 : es[k].kind \in {"Begin", "Write", "Commit"}
  PROVE  /\ es[n + 1].kind # "Commit" => CommittedBy(es, n + 1) = CommittedBy(es, n)
         /\ es[n + 1].kind = "Commit" => CommittedBy(es, n + 1) = CommittedBy(es, n) \cup Held(es, n)
         /\ es[n + 1].kind # "Write" => Held(es, n + 1) = {}
         /\ es[n + 1].kind = "Write" => Held(es, n + 1) = Held(es, n) \cup {n + 1}
<1> DEFINE m == n + 1
           e == es[m]
           C(j) == CommittedBy(es, j)
           H(j) == Held(es, j)
<1>1. m \in Nat /\ 1 .. m = (1 .. n) \cup {m} /\ m \notin 1 .. n
  OBVIOUS
<1>2. \A k \in 1 .. n : k + 1 .. m = (k + 1 .. n) \cup {m}
  OBVIOUS
<1>3. m + 1 .. m = {}
  OBVIOUS
<1>4. \A k \in 1 .. n : \A c \in k + 1 .. n : c \in 1 .. m
  OBVIOUS
<1>k. \A k \in 1 .. m : es[k].kind \in {"Begin", "Write", "Commit"}
  OBVIOUS
<1>5. \A k \in 1 .. n : k \in C(n) <=>
        es[k].kind = "Write" /\ \E c \in k + 1 .. n : es[c].kind = "Commit" /\ \A x \in k + 1 .. c : es[x].kind # "Begin"
  BY DEF CommittedBy
<1>6. \A k \in 1 .. m : k \in C(m) <=>
        es[k].kind = "Write" /\ \E c \in k + 1 .. m : es[c].kind = "Commit" /\ \A x \in k + 1 .. c : es[x].kind # "Begin"
  BY DEF CommittedBy
<1>7. C(n) \subseteq 1 .. n /\ C(m) \subseteq 1 .. m /\ H(n) \subseteq 1 .. n /\ H(m) \subseteq 1 .. m
  BY DEF CommittedBy, Held
<1>8. \A k \in 1 .. n : k \in H(n) <=> es[k].kind = "Write" /\ \A x \in k + 1 .. n : es[x].kind = "Write"
  BY DEF Held
<1>9. \A k \in 1 .. m : k \in H(m) <=> es[k].kind = "Write" /\ \A x \in k + 1 .. m : es[x].kind = "Write"
  BY DEF Held
<1>10. e = es[m]
  OBVIOUS
<1> HIDE DEF m, e, C, H
<1>11. m \notin C(m)
  BY <1>1, <1>3, <1>6
<1>12. ASSUME e.kind # "Commit" PROVE C(m) = C(n)
  <2>1. \A k \in 1 .. n : k \in C(m) <=> k \in C(n)
    BY <1>1, <1>2, <1>5, <1>6, <1>10, <1>12
  <2> QED
    BY <1>1, <1>7, <1>11, <2>1
<1>13. ASSUME e.kind = "Commit" PROVE C(m) = C(n) \cup H(n)
  <2>1. ASSUME NEW k \in 1 .. n, k \in C(m) PROVE k \in C(n) \cup H(n)
    <3>1. PICK c \in k + 1 .. m : es[c].kind = "Commit" /\ \A x \in k + 1 .. c : es[x].kind # "Begin"
      BY <1>1, <1>6, <2>1
    <3>2. es[k].kind = "Write"
      BY <1>1, <1>6, <2>1
    <3>3. CASE c \in k + 1 .. n
      BY <1>5, <3>1, <3>2, <3>3
    <3>4. CASE c = m
      <4>1. CASE \A x \in k + 1 .. n : es[x].kind = "Write"
        BY <1>8, <3>2, <4>1
      <4>2. CASE \E x \in k + 1 .. n : es[x].kind # "Write"
        <5>1. PICK x \in k + 1 .. n : es[x].kind # "Write"
          BY <4>2
        <5>2. x \in k + 1 .. m /\ x \in 1 .. m
          BY <1>2, <1>4, <5>1
        <5>3. es[x].kind = "Commit"
          BY <1>k, <3>1, <3>4, <5>1, <5>2
        <5>4. \A y \in k + 1 .. x : y \in k + 1 .. m
          BY <1>1, <5>2
        <5>5. \A y \in k + 1 .. x : es[y].kind # "Begin"
          BY <3>1, <3>4, <5>4
        <5> QED
          BY <1>5, <3>2, <5>1, <5>3, <5>5
      <4> QED
        BY <4>1, <4>2
    <3> QED
      BY <1>2, <3>3, <3>4
  <2>2. ASSUME NEW k \in C(n) PROVE k \in C(m)
    <3>1. k \in 1 .. n /\ k \in 1 .. m
      BY <1>1, <1>7, <2>2
    <3> QED
      BY <1>2, <1>5, <1>6, <2>2, <3>1
  <2>3. ASSUME NEW k \in H(n) PROVE k \in C(m)
    <3>1. k \in 1 .. n /\ k \in 1 .. m
      BY <1>1, <1>7, <2>3
    <3>2. es[k].kind = "Write" /\ \A x \in k + 1 .. n : es[x].kind = "Write"
      BY <1>8, <2>3, <3>1
    <3>3. m \in k + 1 .. m /\ \A x \in k + 1 .. m : es[x].kind # "Begin"
      BY <1>2, <1>10, <1>13, <3>1, <3>2
    <3> QED
      BY <1>6, <1>10, <1>13, <3>1, <3>2, <3>3
  <2> QED
    BY <1>1, <1>7, <1>11, <2>1, <2>2, <2>3
<1>14. ASSUME e.kind # "Write" PROVE H(m) = {}
  <2>1. ASSUME NEW k \in 1 .. n PROVE k \notin H(m)
    BY <1>1, <1>2, <1>9, <1>10, <1>14
  <2>2. m \notin H(m)
    BY <1>1, <1>9, <1>10, <1>14
  <2> QED
    BY <1>1, <1>7, <2>1, <2>2
<1>15. ASSUME e.kind = "Write" PROVE H(m) = H(n) \cup {m}
  <2>1. ASSUME NEW k \in 1 .. n PROVE k \in H(m) <=> k \in H(n)
    BY <1>1, <1>2, <1>8, <1>9, <1>10, <1>15
  <2>2. m \in H(m)
    BY <1>1, <1>3, <1>9, <1>10, <1>15
  <2> QED
    BY <1>1, <1>7, <2>1, <2>2
<1> QED
  BY <1>12, <1>13, <1>14, <1>15 DEF m, e, C, H

\* What is held comes behind what is committed.
LEMMA HeldIsLater ==
  ASSUME NEW es, NEW n \in Nat, NEW k \in CommittedBy(es, n), NEW x \in Held(es, n)
  PROVE  k < x
<1>1. PICK c \in k + 1 .. n : es[c].kind = "Commit"
  BY DEF CommittedBy
<1>2. k \in 1 .. n /\ x \in 1 .. n /\ \A y \in x + 1 .. n : es[y].kind = "Write"
  BY DEF CommittedBy, Held
<1>3. c \notin x + 1 .. n
  BY <1>1, <1>2
<1>4. c <= x
  BY <1>1, <1>2, <1>3
<1> QED
  BY <1>1, <1>2, <1>4

\* The loop collects the writes of committed transactions, in order.
PlanShowsAt(p, es, n) ==
  /\ \A h \in Home : Shows(Applied(h, p.writes), h, es, CommittedBy(es, n))
  /\ \A h \in Home : Shows(Applied(h, p.pending), h, es, Held(es, n))

\* What plan_recovery has planned are the committed writes, and what it holds back are
\* those of the open transaction.
LEMMA PlanShows ==
  ASSUME NEW es \in Seq(JournalEntry)
  PROVE  \A n \in 0 .. Len(es) : PlanAt(es, n).ok => PlanShowsAt(PlanAt(es, n), es, n)
<1> DEFINE P == {n \in Nat : n <= Len(es) /\ PlanAt(es, n).ok => PlanShowsAt(PlanAt(es, n), es, n)}
           nil == <<>>
<1>0. Len(es) \in Nat /\ \A k \in 1 .. Len(es) : es[k] \in JournalEntry
  BY LenProperties, ElementOfSeq
<1>n. \A h \in Home : Applied(h, nil) = h /\ Shows(Applied(h, nil), h, es, {})
  <2> TAKE h \in Home
  <2>1. Applied(h, nil) = h
    BY AppliedNothing
  <2>2. Shows(h, h, es, {})
    BY ShowsNothing
  <2> HIDE DEF nil
  <2> QED
    BY <2>1, <2>2
<1>1. 0 \in P
  <2>1. PlanAt(es, 0) = PlanStart /\ PlanStart.writes = nil /\ PlanStart.pending = nil
    BY PlanTurn DEF PlanStart
  <2>2. CommittedBy(es, 0) = {} /\ Held(es, 0) = {}
    BY DEF CommittedBy, Held
  <2> HIDE DEF nil
  <2>3. PlanShowsAt(PlanStart, es, 0)
    BY <1>n, <2>1, <2>2 DEF PlanShowsAt
  <2> QED
    BY <2>1, <2>3
<1>2. ASSUME NEW n \in P PROVE n + 1 \in P
  <2> SUFFICES ASSUME n + 1 <= Len(es), PlanAt(es, n + 1).ok
               PROVE  PlanShowsAt(PlanAt(es, n + 1), es, n + 1)
    OBVIOUS
  <2> DEFINE m == n + 1
             p == PlanAt(es, n)
             q == PlanAt(es, m)
             e == es[m]
             C(j) == CommittedBy(es, j)
             H(j) == Held(es, j)
  <2>1. n \in Nat /\ n <= Len(es) /\ m \in Nat /\ \A k \in 1 .. m : k \in 1 .. Len(es)
    BY <1>0
  <2>2. p \in PlanState /\ PlanMoves(p, q, e) /\ e \in JournalEntry /\ q.ok
    BY <2>1, PlanNext
  <2>3. p.ok
    BY <2>2 DEF PlanMoves
  <2>4. PlanShowsAt(p, es, n)
    BY <2>1, <2>3
  <2>5. \A k \in 1 .. m : es[k].kind \in {"Begin", "Write", "Commit"} /\ (es[k].kind = "Write" => es[k] \in WriteEntry)
    BY <1>0, <2>1, EntryKinds
  <2>6. /\ e.kind # "Commit" => C(m) = C(n)
        /\ e.kind = "Commit" => C(m) = C(n) \cup H(n)
        /\ e.kind # "Write" => H(m) = {}
        /\ e.kind = "Write" => H(m) = H(n) \cup {m}
    BY <2>1, <2>5, PositionsTurn
  <2>7. p.pending \in Seq(WriteEntry) /\ p.writes \in Seq(WriteEntry)
    BY <2>2 DEF PlanState
  <2>8. /\ C(n) \in SUBSET Nat /\ H(n) \in SUBSET Nat /\ {m} \in SUBSET Nat
        /\ \A k \in C(n) \cup H(n) : es[k] \in WriteEntry
    <3>1. \A k \in C(n) \cup H(n) : k \in 1 .. n /\ es[k].kind = "Write"
      BY DEF CommittedBy, Held
    <3>2. \A k \in 1 .. n : k \in Nat /\ k \in 1 .. m
      BY <2>1
    <3> HIDE DEF C, H, m
    <3> QED
      BY <2>1, <2>5, <3>1, <3>2
  <2>9. \A k \in C(n), x \in H(n) : k < x
    BY <2>1, HeldIsLater
  <2>10. \A k \in H(n) : k < m
    BY <2>1 DEF Held
  <2>11. /\ \A h \in Home : Shows(Applied(h, p.writes), h, es, C(n))
         /\ \A h \in Home : Shows(Applied(h, p.pending), h, es, H(n))
    BY <2>4 DEF PlanShowsAt
  <2>12. e.kind \in {"Begin", "Write", "Commit"} /\ (e.kind = "Write" => e \in WriteEntry)
    BY <2>2, EntryKinds
  <2>13. e = es[m]
    OBVIOUS
  <2> HIDE DEF m, p, q, e, C, H, P, nil
  <2>14. ASSUME NEW h \in Home PROVE Shows(Applied(h, q.writes), h, es, C(m))
    <3>1. CASE e.kind # "Commit"
      BY <2>2, <2>6, <2>11, <2>12, <3>1 DEF PlanMoves
    <3>2. CASE e.kind = "Commit"
      <4> DEFINE f == Applied(h, p.writes)
                 g == Applied(f, p.pending)
      <4>1. q.writes = p.writes \o p.pending
        BY <2>2, <3>2 DEF PlanMoves
      <4>2. Applied(h, p.writes \o p.pending) = g
        BY <2>7, AppliedInTurn
      <4>3. Shows(f, h, es, C(n))
        BY <2>11
      <4>4. f \in Home
        BY <4>3 DEF Shows
      <4>5. Shows(g, f, es, H(n))
        BY <2>11, <4>4
      <4> HIDE DEF f, g
      <4>6. Shows(g, h, es, C(n) \cup H(n))
        BY <2>8, <2>9, <4>3, <4>5, ShowsInTurn
      <4> QED
        BY <2>6, <3>2, <4>1, <4>2, <4>6
    <3> QED
      BY <3>1, <3>2
  <2>15. ASSUME NEW h \in Home PROVE Shows(Applied(h, q.pending), h, es, H(m))
    <3>1. CASE e.kind # "Write"
      <4>1. q.pending = nil
        BY <2>2, <2>12, <3>1 DEF PlanMoves, nil
      <4> QED
        BY <1>n, <2>6, <3>1, <4>1
    <3>2. CASE e.kind = "Write"
      <4> DEFINE f == Applied(h, p.pending)
                 s == <<e>>
                 g == Applied(f, s)
      <4>1. q.pending = Append(p.pending, e)
        BY <2>2, <3>2 DEF PlanMoves
      <4>2. e \in WriteEntry
        BY <2>12, <3>2
      <4>3. Append(p.pending, e) = p.pending \o s /\ s \in Seq(WriteEntry)
        BY <2>7, <4>2, AppendIsConcat
      <4>4. Shows(f, h, es, H(n))
        BY <2>11
      <4>5. f \in Home
        BY <4>4 DEF Shows
      <4>6. Shows(g, f, es, {m})
        BY <2>1, <2>13, <4>2, <4>5, ShowsWrite
      <4> HIDE DEF s
      <4>7. Applied(h, p.pending \o s) = g
        BY <2>7, <4>3, AppliedInTurn
      <4> HIDE DEF f, g
      <4>8. /\ \A k \in H(n), x \in {m} : k < x
            /\ \A k \in H(n) \cup {m} : es[k] \in WriteEntry
        BY <2>8, <2>10, <2>13, <4>2
      <4>9. Shows(g, h, es, H(n) \cup {m})
        BY <2>8, <4>4, <4>6, <4>8, ShowsInTurn
      <4> QED
        BY <2>6, <3>2, <4>1, <4>3, <4>7, <4>9
    <3> QED
      BY <3>1, <3>2
  <2>16. PlanShowsAt(q, es, m)
    BY <2>14, <2>15 DEF PlanShowsAt, C, H
  <2> QED
    BY <2>16 DEF q, m
<1>3. P \in SUBSET Nat
  OBVIOUS
<1>4. \A n \in Nat : n \in P
  <2> HIDE DEF P
  <2> QED
    BY <1>1, <1>2, <1>3, Inductive
<1> QED
  BY <1>0, <1>4

\* The meaning of the entries is what the loop's writes make of the home blocks.
LEMMA PlanExpected ==
  ASSUME NEW es \in Seq(JournalEntry), PlanRecovery(es).ok
  PROVE  Applied(SomeHome, PlanRecovery(es).writes) = Expected(es)
<1> DEFINE l == Len(es)
           h == Applied(SomeHome, PlanRecovery(es).writes)
           S == CommittedBy(es, l)
           ks(b) == {k \in DOMAIN es : Committed(es, k) /\ es[k].block = b}
           last(b) == CHOOSE k \in ks(b) : \A x \in ks(b) : x <= k
           g == [b \in DOMAIN SomeHome |-> IF ks(b) = {} THEN SomeHome[b] ELSE es[last(b)].data]
<1>1. l \in Nat /\ l \in 0 .. l /\ DOMAIN es = 1 .. l
  BY LenProperties
<1>2. SomeHome \in Home /\ DOMAIN SomeHome = HomeOrOther
  BY ScanAssumption DEF SomeHome, Home, HomeOrOther
<1>3. PlanRecovery(es) = PlanAt(es, l)
  BY PlanWhole
<1>4. PlanShowsAt(PlanAt(es, l), es, l)
  BY <1>1, <1>3, PlanShows
<1>5. Shows(h, SomeHome, es, S)
  BY <1>2, <1>3, <1>4 DEF PlanShowsAt
<1>6. S = {k \in DOMAIN es : Committed(es, k)}
  BY <1>1 DEF CommittedBy, Committed
<1>7. Expected(es) = g
  BY DEF Expected
<1>8. \A b : ks(b) = {k \in S : es[k].block = b}
  BY <1>6
<1>9. S \in SUBSET (1 .. l)
  BY DEF CommittedBy
<1> HIDE DEF h, S, ks, l
<1>10. ASSUME NEW b \in HomeOrOther
       PROVE  h[b] = IF ks(b) = {} THEN SomeHome[b] ELSE es[last(b)].data
  <2>1. CASE ks(b) = {}
    <3>1. \A k \in S : es[k].block # b
      BY <1>8, <2>1
    <3>2. h[b] = SomeHome[b]
      BY <1>5, <3>1 DEF Shows
    <3> QED
      BY <2>1, <3>2
  <2>2. CASE ks(b) # {}
    <3>a. ks(b) \subseteq S
      BY <1>8
    <3>b. 1 .. l \subseteq 0 .. l
      BY <1>1
    <3>1. ks(b) \in SUBSET (0 .. l)
      BY <1>9, <3>a, <3>b
    <3>2. Max(ks(b)) \in ks(b) /\ \A y \in ks(b) : y <= Max(ks(b))
      BY <1>1, <2>2, <3>1, LargestMember
    <3>3. last(b) \in ks(b) /\ \A x \in ks(b) : x <= last(b)
      BY <3>2
    <3> DEFINE k == last(b)
    <3>4. k \in ks(b) /\ \A x \in ks(b) : x <= k
      BY <3>3
    <3> HIDE DEF k
    <3>5. k \in S /\ es[k].block = b /\ \A x \in S : es[x].block = es[k].block => x <= k
      BY <1>8, <3>4
    <3>6. h[b] = es[k].data
      BY <1>5, <3>5 DEF Shows
    <3> QED
      BY <2>2, <3>6 DEF k
  <2> QED
    BY <2>1, <2>2
<1> HIDE DEF last
<1>11. h \in Home
  BY <1>5 DEF Shows
<1>12. DOMAIN h = HomeOrOther /\ h = [b \in HomeOrOther |-> h[b]]
  BY <1>11 DEF Home, HomeOrOther
<1>13. h = g
  BY <1>2, <1>10, <1>12
<1> QED
  BY <1>7, <1>13 DEF h

(***************************************************************************)
(* replay_into.                                                            *)
(***************************************************************************)
\* Replay is where recovery is, with the writes already made.
Follows(r, p, home) ==
  /\ r \in [ok : BOOLEAN, active : Txid \cup {None}, pending : Seq(WriteEntry), home : Home, commits : Nat]
  /\ r.ok <=> p.ok
  /\ r.active = p.active /\ r.pending = p.pending /\ r.commits = p.commits
  /\ r.home = Applied(home, p.writes)

\* A turn of replay_into does what a turn of plan_recovery plans.
LEMMA ReplayStepFollows ==
  ASSUME NEW home \in Home, NEW p \in PlanState, NEW r, Follows(r, p, home), NEW e \in JournalEntry
  PROVE  Follows(ReplayStep(r, e), PlanStep(p, e), home)
<1> DEFINE t == ReplayStep(r, e)
           q == PlanStep(p, e)
<1>1. q \in PlanState /\ PlanMoves(p, q, e)
  BY PlanStepMoves
<1>2. /\ e.kind \in {"Begin", "Write", "Commit"}
      /\ e.txid \in Txid /\ (e.kind = "Write" => e \in WriteEntry)
  BY EntryKinds
<1>3. /\ r.ok \in BOOLEAN /\ r.active \in Txid \cup {None} /\ r.pending \in Seq(WriteEntry)
      /\ r.home \in Home /\ r.commits \in Nat
      /\ r = [ok |-> r.ok, active |-> r.active, pending |-> r.pending, home |-> r.home, commits |-> r.commits]
  BY DEF Follows
<1>4. /\ r.ok <=> p.ok
      /\ r.active = p.active /\ r.pending = p.pending /\ r.commits = p.commits
      /\ r.home = Applied(home, p.writes)
  BY DEF Follows
<1>5. <<>> \in Seq(WriteEntry) /\ p.writes \in Seq(WriteEntry)
  BY EmptySeq DEF PlanState
<1> HIDE DEF q
<1>6. CASE ~ r.ok \/ ~ InOrder(r.active, e)
  <2>1. t = [ok |-> FALSE, active |-> r.active, pending |-> r.pending, home |-> r.home, commits |-> r.commits]
    BY <1>3, <1>6 DEF ReplayStep
  <2>2. /\ ~ q.ok /\ q.active = p.active /\ q.pending = p.pending /\ q.writes = p.writes
        /\ q.commits = p.commits
    BY <1>1, <1>4, <1>6 DEF PlanMoves
  <2> QED
    BY <1>3, <1>4, <2>1, <2>2 DEF Follows, q
<1>7. CASE r.ok /\ InOrder(r.active, e) /\ e.kind = "Begin"
  <2>1. t = [ok |-> TRUE, active |-> e.txid, pending |-> <<>>, home |-> r.home, commits |-> r.commits]
    BY <1>3, <1>7 DEF ReplayStep
  <2>2. /\ q.ok /\ q.active = e.txid /\ q.pending = <<>> /\ q.writes = p.writes
        /\ q.commits = p.commits
    BY <1>1, <1>4, <1>7 DEF PlanMoves
  <2> QED
    BY <1>2, <1>3, <1>4, <1>5, <2>1, <2>2 DEF Follows, q
<1>8. CASE r.ok /\ InOrder(r.active, e) /\ e.kind = "Write"
  <2> DEFINE u == Append(r.pending, e)
  <2>1. t = [ok |-> TRUE, active |-> r.active, pending |-> u, home |-> r.home, commits |-> r.commits]
    BY <1>3, <1>8 DEF ReplayStep
  <2>2. /\ q.ok /\ q.active = p.active /\ q.pending = u /\ q.writes = p.writes
        /\ q.commits = p.commits
    BY <1>1, <1>4, <1>8 DEF PlanMoves
  <2>3. u \in Seq(WriteEntry)
    BY <1>2, <1>3, <1>8, Appended
  <2> HIDE DEF u
  <2> QED
    BY <1>3, <1>4, <2>1, <2>2, <2>3 DEF Follows, q
<1>9. CASE r.ok /\ InOrder(r.active, e) /\ e.kind = "Commit"
  <2> DEFINE f == Applied(r.home, r.pending)
             c == r.commits + 1
  <2>1. t = [ok |-> TRUE, active |-> None, pending |-> <<>>, home |-> f, commits |-> c]
    BY <1>3, <1>9 DEF ReplayStep
  <2>2. /\ q.ok /\ q.active = None /\ q.pending = <<>> /\ q.writes = p.writes \o p.pending
        /\ q.commits = p.commits + 1
    <3>1. q.ok
      BY <1>1, <1>4, <1>9 DEF PlanMoves
    <3>2. q.active = None /\ q.pending = <<>> /\ q.writes = p.writes \o p.pending
      BY <1>1, <1>9, <3>1 DEF PlanMoves
    <3>3. q.commits = p.commits + 1
      BY <1>1, <1>9, <3>1 DEF PlanMoves
    <3> QED
      BY <3>1, <3>2, <3>3
  <2>3. Overlays(f, r.home, r.pending, Len(r.pending))
    BY <1>3, AppliedOverlays
  <2>4. f \in Home /\ c \in Nat
    BY <1>3, <2>3 DEF Overlays
  <2>5. f = Applied(home, p.writes \o p.pending)
    <3>1. p.pending \in Seq(WriteEntry)
      BY <1>3, <1>4
    <3>2. Applied(home, p.writes \o p.pending) = Applied(Applied(home, p.writes), p.pending)
      BY <1>5, <3>1, AppliedInTurn
    <3> QED
      BY <1>4, <3>2
  <2>6. c = q.commits
    BY <1>4, <2>2
  <2> HIDE DEF f, c
  <2>7. /\ t.ok /\ t.active = None /\ t.pending = <<>> /\ t.home = f /\ t.commits = c
    BY <2>1
  <2>8. t \in [ok : BOOLEAN, active : Txid \cup {None}, pending : Seq(WriteEntry), home : Home, commits : Nat]
    BY <1>5, <2>1, <2>4
  <2> HIDE DEF t
  <2>9. Follows(t, q, home)
    BY <2>2, <2>5, <2>6, <2>7, <2>8 DEF Follows
  <2> QED
    BY <2>9 DEF t, q
<1> QED
  BY <1>2, <1>6, <1>7, <1>8, <1>9

\* replay_into does what plan_recovery plans.
LEMMA ReplayFollows ==
  ASSUME NEW home \in Home, NEW es \in Seq(JournalEntry)
  PROVE  Follows(ReplayInto(home, es), PlanRecovery(es), home)
<1> DEFINE P == {n \in Nat : n <= Len(es) => Follows(ReplayAt(home, es, n), PlanAt(es, n), home)}
           nil == <<>>
<1>0. Len(es) \in Nat /\ DOMAIN es = 1 .. Len(es)
  BY LenProperties
<1>1. 0 \in P
  <2>1. PlanAt(es, 0) = PlanStart /\ ReplayAt(home, es, 0) = ReplayStart(home)
    BY PlanTurn, ReplayTurn
  <2>2. nil \in Seq(WriteEntry) /\ Applied(home, nil) = home
    BY EmptySeq, AppliedNothing
  <2>3. ReplayStart(home) = [ok |-> TRUE, active |-> None, pending |-> nil, home |-> home, commits |-> 0]
    BY DEF ReplayStart
  <2>4. PlanStart.ok /\ PlanStart.active = None /\ PlanStart.pending = nil /\ PlanStart.commits = 0
        /\ PlanStart.writes = nil
    BY DEF PlanStart
  <2> HIDE DEF nil
  <2>5. Follows(ReplayStart(home), PlanStart, home)
    BY <2>2, <2>3, <2>4 DEF Follows
  <2> QED
    BY <2>1, <2>5
<1>2. ASSUME NEW n \in P PROVE n + 1 \in P
  <2> SUFFICES ASSUME n + 1 <= Len(es)
               PROVE  Follows(ReplayAt(home, es, n + 1), PlanAt(es, n + 1), home)
    OBVIOUS
  <2>1. n \in Nat /\ n <= Len(es)
    BY <1>0
  <2>2. Follows(ReplayAt(home, es, n), PlanAt(es, n), home)
    BY <2>1
  <2>3. PlanAt(es, n) \in PlanState /\ es[n + 1] \in JournalEntry
    BY <2>1, PlanNext
  <2>4. Follows(ReplayStep(ReplayAt(home, es, n), es[n + 1]), PlanStep(PlanAt(es, n), es[n + 1]), home)
    BY <2>2, <2>3, ReplayStepFollows
  <2>5. PlanAt(es, n + 1) = PlanStep(PlanAt(es, n), es[n + 1])
    BY <2>1, PlanTurn
  <2>6. ReplayAt(home, es, n + 1) = ReplayStep(ReplayAt(home, es, n), es[n + 1])
    BY <2>1, ReplayTurn
  <2> QED
    BY <2>4, <2>5, <2>6
<1>3. P \in SUBSET Nat
  OBVIOUS
<1>4. \A n \in Nat : n \in P
  <2> HIDE DEF P
  <2> QED
    BY <1>1, <1>2, <1>3, Inductive
<1>5. Follows(ReplayAt(home, es, Len(es)), PlanAt(es, Len(es)), home)
  BY <1>0, <1>4
<1>6. ReplayInto(home, es) = ReplayAt(home, es, Len(es)) /\ PlanRecovery(es) = PlanAt(es, Len(es))
  BY <1>0, ReplayLoop, PlanLoop
<1> QED
  BY <1>5, <1>6

\* Recovery, replay and fsck agree with each other and with the meaning of the
\* entries.
Agree(es) ==
  LET plan == PlanRecovery(es)
      replay == ReplayInto(SomeHome, es)
      audit == AuditJournal(es)
  IN /\ plan.ok = Ordered(es)
     /\ replay.ok = Ordered(es)
     /\ audit.ok = (Ordered(es) /\ \A k \in DOMAIN es : Targeted(es[k]))
     /\ plan.ok => /\ Applied(SomeHome, plan.writes) = Expected(es)
                   /\ replay.home = Expected(es)
                   /\ plan.commits = Commits(es, Len(es)) /\ replay.commits = plan.commits
     /\ audit.ok => audit.commits = plan.commits /\ audit.active = plan.active

\* All readers agree on all sequences of entries.
LEMMA AllAgree ==
  ASSUME NEW es \in Seq(JournalEntry)
  PROVE  Agree(es)
<1> DEFINE plan == PlanRecovery(es)
           replay == ReplayInto(SomeHome, es)
           audit == AuditJournal(es)
           l == Len(es)
<1>1. l \in Nat /\ l \in 0 .. l /\ DOMAIN es = 1 .. l
  BY LenProperties
<1>2. SomeHome \in Home
  BY ScanAssumption DEF SomeHome, Home
<1>3. plan \in PlanState /\ plan = PlanAt(es, l)
  BY PlanWhole
<1>4. Audits(audit, plan, es, l)
  BY AuditWhole
<1>5. Follows(replay, plan, SomeHome)
  BY <1>2, ReplayFollows
<1>6. plan.ok <=> \A k \in 1 .. l : OrderedAt(es, k)
  BY <1>1, <1>3, PlanOrdered
<1>7. plan.ok <=> Ordered(es)
  BY <1>1, <1>6 DEF Ordered, OrderedAt
<1>8. plan.ok => Applied(SomeHome, plan.writes) = Expected(es)
  BY PlanExpected
<1>9. plan.ok => plan.commits = Commits(es, l)
  BY <1>1, <1>3, PlanCommits
<1>10. plan.ok \in BOOLEAN /\ audit.ok \in BOOLEAN /\ replay.ok \in BOOLEAN
  BY <1>3, <1>4, <1>5 DEF PlanState, Audits, AuditState, Follows
<1>11. /\ replay.ok <=> plan.ok
       /\ replay.commits = plan.commits /\ replay.home = Applied(SomeHome, plan.writes)
  BY <1>5 DEF Follows
<1>12. /\ audit.ok <=> plan.ok /\ \A x \in 1 .. l : Targeted(es[x])
       /\ audit.ok => audit.active = plan.active /\ audit.commits = plan.commits
  BY <1>4 DEF Audits
<1> HIDE DEF plan, replay, audit
<1>13. Ordered(es) \in BOOLEAN
  BY DEF Ordered
<1>14. plan.ok = Ordered(es)
  BY <1>7, <1>10, <1>13
<1>15. replay.ok = Ordered(es)
  BY <1>7, <1>10, <1>11, <1>13
<1>16. audit.ok = (Ordered(es) /\ \A k \in DOMAIN es : Targeted(es[k]))
  BY <1>1, <1>7, <1>10, <1>12
<1>17. plan.ok => replay.home = Expected(es)
  BY <1>8, <1>11
<1> QED
  BY <1>8, <1>9, <1>11, <1>12, <1>14, <1>15, <1>16, <1>17 DEF Agree, plan, replay, audit

(***************************************************************************)
(* The theorems.                                                           *)
(***************************************************************************)
\* The inductive invariant.
JournalInv == LogInv /\ DeviceInv

\* The first state.
LEMMA JournalStarts == Init => JournalInv
<1> SUFFICES ASSUME Init PROVE JournalInv
  OBVIOUS
<1> DEFINE nil == <<>>
<1>1. entries = nil /\ active = None /\ next = 0 /\ done = nil /\ open = nil
  BY DEF Init
<1>2. LogOk(entries, active, done, open)
  BY <1>1, LogStarts
<1>3. Len(entries) = 0
  BY <1>1, EmptySeq
<1>4. Len(entries) <= MaxLog /\ active \in Txid \cup {None} /\ next \in Txid
  BY <1>1, <1>3, EntryAssumption, ScanAssumption DEF Txid
<1>5. SomeHome \in Home /\ \A b \in OtherBlock : SomeHome[b] = SomeHome[b]
  BY ScanAssumption DEF SomeHome, Home
<1>6. nil \in Seq(JournalEntry) /\ Len(nil) = 0 /\ PlanRecovery(nil).ok /\ PlanRecovery(nil).writes = nil
  BY PlanNothing
<1>7. now = [region |-> nil, version |-> "empty", home |-> SomeHome] /\ images = {now}
      /\ goal = SomeHome /\ maybe = {SomeHome}
  BY DEF Init
<1>8. Applied(SomeHome, nil) = SomeHome
  BY AppliedNothing
<1>9. nil = <<>>
  OBVIOUS
<1> HIDE DEF nil
<1>10. now.region = nil /\ now.version = "empty" /\ now.home = SomeHome /\ now \in Image
  BY <1>5, <1>6, <1>7 DEF Image
<1>11. Len(now.region) <= MaxRegion /\ 1 .. Len(now.region) = {}
  BY <1>6, <1>10, EntryAssumption
<1>12. Good(now)
  BY <1>5, <1>6, <1>9, <1>10, <1>11 DEF Good, Image
<1>13. Recovered(now) = SomeHome
  BY <1>6, <1>8, <1>10 DEF Recovered
<1>14. DeviceInv
  BY <1>5, <1>7, <1>12, <1>13 DEF DeviceInv
<1> QED
  BY <1>2, <1>4, <1>14 DEF JournalInv, LogInv

\* Calls on the device leave the log alone.
LEMMA LogKept ==
  ASSUME LogInv, UNCHANGED <<log, done, open>>
  PROVE  LogInv'
<1>1. entries' = entries /\ active' = active /\ next' = next /\ done' = done /\ open' = open
  BY DEF log
<1> QED
  BY <1>1 DEF LogInv

\* The writer leaves the device alone.
LEMMA DeviceKept ==
  ASSUME DeviceInv, UNCHANGED <<device, goal, maybe>>
  PROVE  DeviceInv'
<1>1. now' = now /\ images' = images /\ goal' = goal /\ maybe' = maybe
  BY DEF device
<1> QED
  BY <1>1 DEF DeviceInv

\* Every step keeps the invariant: one case for each operation.
LEMMA JournalStep == JournalInv /\ [Next]_vars => JournalInv'
<1> SUFFICES ASSUME LogInv, DeviceInv, [Next]_vars PROVE LogInv' /\ DeviceInv'
  BY DEF JournalInv
<1>1. CASE NewLog
  BY <1>1, LogStarts, WriterSteps, DeviceKept DEF NewLog
<1>2. CASE BeginTx
  BY <1>2, LogStarts, WriterSteps, DeviceKept DEF BeginTx
<1>3. CASE \E t \in Txid, d \in Data : WriteTx(t, d[1], d[2])
  <2>1. PICK t \in Txid, d \in Data : WriteTx(t, d[1], d[2])
    BY <1>3
  <2>2. LogInv'
    BY <2>1, LogStarts, WriterSteps
  <2>3. UNCHANGED <<device, goal, maybe>>
    BY <2>1 DEF WriteTx
  <2> QED
    BY <2>2, <2>3, DeviceKept
<1>4. CASE \E t \in Txid : CommitTx(t)
  <2>1. PICK t \in Txid : CommitTx(t)
    BY <1>4
  <2>2. LogInv'
    BY <2>1, LogStarts, WriterSteps
  <2>3. UNCHANGED <<device, goal, maybe>>
    BY <2>1 DEF CommitTx
  <2> QED
    BY <2>2, <2>3, DeviceKept
<1>5. CASE \E n \in 0 .. Len(entries) : StoreImage(n)
  BY <1>5, StoreImageKeeps, LogKept
<1>6. CASE AppendRetained
  BY <1>6, AppendRetainedKeeps, LogKept
<1>7. CASE Recover
  BY <1>7, RecoverKeeps, LogKept
<1>8. CASE RecoverAndCheckpoint
  BY <1>8, CheckpointKeeps, LogKept
<1>9. CASE \E max \in 1 .. MaxTxid + 1 : CheckpointPrefix(max)
  BY <1>9, CheckpointPrefixKeeps, LogKept
<1>10. CASE Crash
  BY <1>10, CrashKeeps
<1>11. CASE UNCHANGED vars
  <2>1. UNCHANGED <<log, done, open>> /\ UNCHANGED <<device, goal, maybe>>
    BY <1>11 DEF vars, history
  <2> QED
    BY <2>1, LogKept, DeviceKept
<1> QED
  BY <1>1, <1>2, <1>3, <1>4, <1>5, <1>6, <1>7, <1>8, <1>9, <1>10, <1>11 DEF Next

\* What the invariant says to a reader.
LEMMA InvMeans == JournalInv => CrashKeepsWhole /\ ReadsAreWhole
<1> SUFFICES ASSUME LogInv, DeviceInv PROVE CrashKeepsWhole /\ ReadsAreWhole
  BY DEF JournalInv
<1>1. /\ Len(entries) <= MaxLog /\ active \in Txid \cup {None} /\ next \in Txid
      /\ entries \in Seq(JournalEntry) /\ Len(done) = Len(entries)
  BY DEF LogInv, LogOk
<1>2. Len(entries) \in 0 .. Len(entries)
  BY <1>1, LenProperties
<1>3. PlanAt(entries, Len(entries)).ok /\ PlanAt(entries, Len(entries)).active = active
  BY <1>2 DEF LogInv, LogOk
<1>4. PlanRecovery(entries).ok /\ PlanRecovery(entries).active = active
  BY <1>1, <1>3, PlanWhole
<1>5. goal \in Home /\ maybe \subseteq Home /\ now \in images
  BY DEF DeviceInv
<1>6. ASSUME NEW x \in images
      PROVE  /\ x.region \in Seq(JournalEntry) /\ Len(x.region) <= MaxRegion
             /\ x.version \in {"empty", "v2", "v3"} /\ x.home \in Home
             /\ x.version = "empty" => x.region = <<>>
             /\ PlanRecovery(x.region).ok
             /\ Applied(x.home, PlanRecovery(x.region).writes) \in maybe
             /\ \A b \in OtherBlock : x.home[b] = SomeHome[b]
  <2>1. Good(x) /\ Recovered(x) \in maybe
    BY DEF DeviceInv
  <2> QED
    BY <2>1 DEF Good, Recovered
<1>7. TypeOK
  BY <1>1, <1>4, <1>5, <1>6 DEF TypeOK
<1>8. CrashKeepsWhole
  BY <1>6, <1>7 DEF CrashKeepsWhole
<1>9. ReadsAreWhole
  BY DEF DeviceInv, Recovered, ReadsAreWhole, region
<1> QED
  BY <1>8, <1>9

\* The invariant holds throughout.
THEOREM JournalInvHolds == Spec => []JournalInv
BY JournalStarts, JournalStep, PTL DEF Spec

\* Every crash, in any call or between calls and after any failed flush, leaves
\* entries that recover to a store some publication since the last acknowledged
\* call asked for, no transaction applied in part, and nothing written outside
\* the tables and the data: for logs and reservations of any size.
THEOREM CrashKeepsWholeHolds == Spec => []CrashKeepsWhole
<1>1. JournalInv => CrashKeepsWhole
  BY InvMeans
<1> QED
  BY <1>1, JournalInvHolds, PTL

\* The running process reads and works from the store its own last call
\* published, also when that call reported an error at its last flush.
THEOREM ReadsAreWholeHolds == Spec => []ReadsAreWhole
<1>1. JournalInv => ReadsAreWhole
  BY InvMeans
<1> QED
  BY <1>1, JournalInvHolds, PTL

\* retained_prefix_split cuts complete entries into two sequences that are
\* complete or empty, after the number of transactions asked for, and recovery of
\* the one after the other does what recovery of the whole does.
THEOREM SplitIsExactHolds == Spec => []SplitIsExact
<1>1. JournalInv => SplitIsExact
  <2> SUFFICES ASSUME DeviceInv, CompleteEntries(region), NEW max \in 1 .. Commits(region, Len(region)) + 1
               PROVE  LET n == PrefixSplit(region, max)
                          prefix == SubSeq(region, 1, n)
                          suffix == SubSeq(region, n + 1, Len(region))
                          count == Commits(region, Len(region))
                      IN /\ CompleteEntries(prefix)
                         /\ suffix = <<>> \/ CompleteEntries(suffix)
                         /\ PlanRecovery(prefix).commits = IF max < count THEN max ELSE count
                         /\ Applied(Applied(SomeHome, PlanRecovery(prefix).writes), PlanRecovery(suffix).writes)
                              = Applied(SomeHome, PlanRecovery(region).writes)
    BY DEF SplitIsExact, JournalInv
  <2>1. region \in Seq(JournalEntry)
    BY NowFacts
  <2>2. SomeHome \in Home
    BY ScanAssumption DEF SomeHome, Home
  <2>3. Exact(region, max, PrefixSplit(region, max), SomeHome)
    BY <2>1, <2>2, SplitExact
  <2> QED
    BY <2>3 DEF Exact
<1> QED
  BY <1>1, JournalInvHolds, PTL

\* All readers agree with each other and with the meaning of the entries, on what
\* is stored and on any entry that might follow it: recovery, replay and fsck
\* accept the same sequences (up to forbidden targets), apply exactly the writes
\* of committed transactions, in order, and count the same commits.
THEOREM ReadersAgreeHolds == Spec => []ReadersAgree
<1>1. JournalInv => ReadersAgree
  <2> SUFFICES ASSUME DeviceInv, NEW e \in JournalEntry PROVE Agree(Append(region, e))
    BY DEF ReadersAgree, Agree, JournalInv
  <2>1. region \in Seq(JournalEntry)
    BY NowFacts
  <2>2. Append(region, e) \in Seq(JournalEntry)
    BY <2>1, Appended
  <2> QED
    BY <2>2, AllAgree
<1> QED
  BY <1>1, JournalInvHolds, PTL
=============================================================================
