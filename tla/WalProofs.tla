------------------------------ MODULE WalProofs ------------------------------
(***************************************************************************)
(* Proofs about the write-ahead log: for every device size, every set of   *)
(* transactions, every bound and both kinds of device, the journal always  *)
(* decodes, every crash image recovers to all or nothing of a transaction, *)
(* and the log implements the atomic store.                                *)
(***************************************************************************)
EXTENDS Wal, WellFoundedInduction, SequenceTheorems, TLAPS

(***************************************************************************)
(* The order in which a log of writes takes effect, for logs and home      *)
(* images of any size.                                                     *)
(***************************************************************************)
LogOver(B, V) == Seq([block : B, val : V, commit : BOOLEAN])

\* A non-empty set of positions of a log has a largest one.
LEMMA LargestPosition ==
  ASSUME NEW n \in Nat, NEW P, P \subseteq 1 .. n, P # {}
  PROVE  \E m \in P : \A i \in P : i <= m
<1> DEFINE T == {n - i : i \in P}
<1>0. \A i \in P : i \in 1 .. n /\ n - i \in Nat
  OBVIOUS
<1>1. T \subseteq Nat /\ T # {}
  BY <1>0
<1>2. PICK x \in T : \A y \in T : ~ (<<y, x>> \in OpToRel(<, Nat))
  BY <1>1, WFMin, NatLessThanWellFounded, Zenon
<1>3. \A y \in T : ~ (y < x)
  BY <1>1, <1>2 DEF OpToRel
<1>4. PICK m \in P : x = n - m
  OBVIOUS
<1>5. \A i \in P : n - i \in T
  OBVIOUS
<1>6. \A i \in P : i <= m
  <2> SUFFICES ASSUME NEW i \in P PROVE i <= m
    OBVIOUS
  <2>1. ~ (n - i < n - m)
    BY <1>3, <1>4, <1>5
  <2> QED
    BY <2>1, <1>0, <1>4
<1> QED
  BY <1>6

\* The last write to a block that a log touches exists, and no write to that
\* block follows it.
LEMMA LastWriteExists ==
  ASSUME NEW B, NEW V, NEW log \in LogOver(B, V), NEW b \in BlocksOf(log)
  PROVE  /\ LastWrite(log, b) \in 1 .. Len(log)
         /\ log[LastWrite(log, b)].block = b
         /\ \A j \in 1 .. Len(log) : log[j].block = b => j <= LastWrite(log, b)
<1> DEFINE P == {i \in 1 .. Len(log) : log[i].block = b}
<1>1. DOMAIN log = 1 .. Len(log) /\ Len(log) \in Nat
  BY DEF LogOver
<1>2. P # {}
  BY <1>1 DEF BlocksOf
<1>3. \E m \in P : \A i \in P : i <= m
  BY <1>1, <1>2, LargestPosition
<1>4. \E i \in DOMAIN log : /\ log[i].block = b
                            /\ \A j \in DOMAIN log : log[j].block = b => j <= i
  BY <1>1, <1>3
<1> QED
  BY <1>1, <1>4 DEF LastWrite

\* A position with the defining property of the last write is the last write.
LEMMA LastWriteUnique ==
  ASSUME NEW B, NEW V, NEW log \in LogOver(B, V), NEW b,
         NEW i \in 1 .. Len(log), log[i].block = b,
         \A j \in 1 .. Len(log) : log[j].block = b => j <= i
  PROVE  b \in BlocksOf(log) /\ LastWrite(log, b) = i
<1>1. DOMAIN log = 1 .. Len(log) /\ Len(log) \in Nat
  BY DEF LogOver
<1>2. b \in BlocksOf(log)
  BY <1>1 DEF BlocksOf
<1>3. /\ LastWrite(log, b) \in 1 .. Len(log)
      /\ log[LastWrite(log, b)].block = b
      /\ \A j \in 1 .. Len(log) : log[j].block = b => j <= LastWrite(log, b)
  BY <1>2, LastWriteExists
<1> QED
  BY <1>1, <1>2, <1>3

\* Applying a log to a home image gives a home image.
LEMMA OverlayType ==
  ASSUME NEW B, NEW V, NEW log \in LogOver(B, V), NEW home \in [B -> V]
  PROVE  Overlay(home, log) \in [B -> V]
<1>1. ASSUME NEW b \in B, b \in BlocksOf(log)
      PROVE  log[LastWrite(log, b)].val \in V
  <2>1. LastWrite(log, b) \in 1 .. Len(log)
    BY <1>1, LastWriteExists
  <2>2. log[LastWrite(log, b)] \in [block : B, val : V, commit : BOOLEAN]
    BY <2>1, ElementOfSeq DEF LogOver
  <2> QED
    BY <2>2
<1> QED
  BY <1>1 DEF Overlay

\* An empty log changes nothing.
LEMMA OverlayEmpty ==
  ASSUME NEW B, NEW V, NEW home \in [B -> V]
  PROVE  Overlay(home, <<>>) = home
<1>1. BlocksOf(<<>>) = {}
  BY DEF BlocksOf
<1> QED
  BY <1>1 DEF Overlay

\* The result of a log depends only on the blocks the log does not write.
LEMMA OverlayAgree ==
  ASSUME NEW B, NEW V, NEW log, NEW g \in [B -> V], NEW h \in [B -> V],
         \A b \in B : g[b] # h[b] => b \in BlocksOf(log)
  PROVE  Overlay(g, log) = Overlay(h, log)
BY DEF Overlay

\* A log whose writes are all home leaves the home image as it is.
LEMMA OverlayAbsorbed ==
  ASSUME NEW B, NEW V, NEW log, NEW home \in [B -> V],
         \A b \in BlocksOf(log) : home[b] = log[LastWrite(log, b)].val
  PROVE  Overlay(home, log) = home
BY DEF Overlay

\* A log writes the blocks that its two parts write.
LEMMA BlocksOfConcat ==
  ASSUME NEW B, NEW V, NEW p \in LogOver(B, V), NEW s \in LogOver(B, V)
  PROVE  BlocksOf(p \o s) = BlocksOf(p) \cup BlocksOf(s)
<1>1. /\ DOMAIN p = 1 .. Len(p) /\ Len(p) \in Nat
      /\ DOMAIN s = 1 .. Len(s) /\ Len(s) \in Nat
      /\ DOMAIN (p \o s) = 1 .. Len(p) + Len(s)
  BY ConcatProperties, LenProperties DEF LogOver
<1>2. /\ \A i \in 1 .. Len(p) : (p \o s)[i] = p[i]
      /\ \A i \in 1 .. Len(s) : (p \o s)[Len(p) + i] = s[i]
  BY <1>1, ConcatProperties DEF LogOver
<1>3. ASSUME NEW i \in DOMAIN (p \o s)
      PROVE  (p \o s)[i].block \in BlocksOf(p) \cup BlocksOf(s)
  <2>1. CASE i <= Len(p)
    BY <2>1, <1>1, <1>2 DEF BlocksOf
  <2>2. CASE i > Len(p)
    <3>1. i - Len(p) \in 1 .. Len(s) /\ Len(p) + (i - Len(p)) = i
      BY <2>2, <1>1
    <3>2. (p \o s)[i] = s[i - Len(p)]
      BY <3>1, <1>2
    <3> QED
      BY <3>1, <3>2, <1>1 DEF BlocksOf
  <2> QED
    BY <2>1, <2>2, <1>1
<1>4. \A i \in DOMAIN p : p[i].block \in BlocksOf(p \o s)
  BY <1>1, <1>2 DEF BlocksOf
<1>5. ASSUME NEW i \in DOMAIN s
      PROVE  s[i].block \in BlocksOf(p \o s)
  <2>1. Len(p) + i \in DOMAIN (p \o s) /\ (p \o s)[Len(p) + i] = s[i]
    BY <1>1, <1>2
  <2> QED
    BY <2>1 DEF BlocksOf
<1> QED
  BY <1>3, <1>4, <1>5 DEF BlocksOf

\* Applying a log is applying its first part and then its second part.
LEMMA OverlayConcat ==
  ASSUME NEW B, NEW V, NEW p \in LogOver(B, V), NEW s \in LogOver(B, V),
         NEW home \in [B -> V]
  PROVE  Overlay(home, p \o s) = Overlay(Overlay(home, p), s)
<1> DEFINE w == p \o s
<1>0. w \in LogOver(B, V)
  BY ConcatProperties DEF LogOver
<1>1. /\ Len(p) \in Nat /\ Len(s) \in Nat
      /\ Len(w) = Len(p) + Len(s)
      /\ \A i \in 1 .. Len(p) : w[i] = p[i]
      /\ \A i \in 1 .. Len(s) : w[Len(p) + i] = s[i]
  BY ConcatProperties, LenProperties DEF LogOver
<1>2. BlocksOf(w) = BlocksOf(p) \cup BlocksOf(s)
  BY BlocksOfConcat
<1> HIDE DEF w
<1>3. ASSUME NEW b \in BlocksOf(s)
      PROVE  w[LastWrite(w, b)] = s[LastWrite(s, b)]
  <2> DEFINE l == LastWrite(s, b)
  <2>1. /\ l \in 1 .. Len(s) /\ s[l].block = b
        /\ \A j \in 1 .. Len(s) : s[j].block = b => j <= l
    BY LastWriteExists
  <2> HIDE DEF l
  <2>2. ASSUME NEW j \in 1 .. Len(w), w[j].block = b
        PROVE  j <= Len(p) + l
    <3>1. CASE j <= Len(p)
      BY <3>1, <2>1, <1>1
    <3>2. CASE j > Len(p)
      <4>1. j - Len(p) \in 1 .. Len(s) /\ Len(p) + (j - Len(p)) = j
        BY <3>2, <1>1
      <4>2. s[j - Len(p)].block = b
        BY <4>1, <1>1, <2>2
      <4> QED
        BY <4>1, <4>2, <2>1, <1>1
    <3> QED
      BY <3>1, <3>2, <1>1
  <2>3. Len(p) + l \in 1 .. Len(w) /\ w[Len(p) + l] = s[l]
    BY <2>1, <1>1
  <2>4. LastWrite(w, b) = Len(p) + l
    <3>1. w[Len(p) + l].block = b
      BY <2>1, <2>3
    <3>2. \A j \in 1 .. Len(w) : w[j].block = b => j <= Len(p) + l
      BY <2>2
    <3> QED
      BY <2>3, <3>1, <3>2, <1>0, LastWriteUnique
  <2> QED
    BY <2>3, <2>4 DEF l
<1>4. ASSUME NEW b \in BlocksOf(p), b \notin BlocksOf(s)
      PROVE  w[LastWrite(w, b)] = p[LastWrite(p, b)]
  <2> DEFINE l == LastWrite(p, b)
  <2>1. /\ l \in 1 .. Len(p) /\ p[l].block = b
        /\ \A j \in 1 .. Len(p) : p[j].block = b => j <= l
    BY LastWriteExists
  <2> HIDE DEF l
  <2>2. ASSUME NEW j \in 1 .. Len(w), w[j].block = b
        PROVE  j <= l
    <3>1. CASE j <= Len(p)
      BY <3>1, <2>1, <2>2, <1>1
    <3>2. CASE j > Len(p)
      <4>1. j - Len(p) \in 1 .. Len(s) /\ Len(p) + (j - Len(p)) = j
        BY <3>2, <1>1
      <4>2. s[j - Len(p)].block = b
        BY <4>1, <1>1, <2>2
      <4> QED
        BY <4>1, <4>2, <1>4, LenProperties DEF BlocksOf, LogOver
    <3> QED
      BY <3>1, <3>2, <1>1
  <2>3. l \in 1 .. Len(w) /\ w[l] = p[l]
    BY <2>1, <1>1
  <2>4. LastWrite(w, b) = l
    <3>1. w[l].block = b
      BY <2>1, <2>3
    <3>2. \A j \in 1 .. Len(w) : w[j].block = b => j <= l
      BY <2>2
    <3> QED
      BY <2>3, <3>1, <3>2, <1>0, LastWriteUnique
  <2> QED
    BY <2>3, <2>4 DEF l
<1>5. DOMAIN Overlay(home, p) = B /\ DOMAIN home = B
  BY DEF Overlay
<1>6. ASSUME NEW b \in B
      PROVE  Overlay(home, w)[b] = Overlay(Overlay(home, p), s)[b]
  <2>1. CASE b \in BlocksOf(s)
    BY <2>1, <1>2, <1>3, <1>5 DEF Overlay
  <2>2. CASE b \notin BlocksOf(s) /\ b \in BlocksOf(p)
    BY <2>2, <1>2, <1>4, <1>5 DEF Overlay
  <2>3. CASE b \notin BlocksOf(s) /\ b \notin BlocksOf(p)
    BY <2>3, <1>2, <1>5 DEF Overlay
  <2> QED
    BY <2>1, <2>2, <2>3
<1> QED
  BY <1>5, <1>6 DEF Overlay, w

(***************************************************************************)
(* The inductive invariant.                                                *)
(***************************************************************************)
\* A journal image whose anchor is backed by the blocks it covers.
Sound(j) ==
  /\ j[0].kind \in {"empty", "active", "snapshot"}
  /\ j[0].kind = "empty" => j[0] = EmptyAnchor
  /\ j[0].kind # "empty" => j[0].log # <<>>
  /\ j[0].kind = "active" =>
        \A i \in 1 .. JournalBlocks - 1 : j[i] = TailBlock(j[0].log, i)
  /\ j[0].kind = "snapshot" =>
        /\ BankBlocks > 0
        /\ j[0].at \in {0, 1}
        /\ \A i \in 0 .. BankBlocks - 1 :
              j[BankStart(j[0].at) + i] = BankBlock(j[0].log, i)

\* The first n blocks of bank c hold the image of log.
BankHolds(j, c, log, n) ==
  \A i \in 0 .. n - 1 : j[BankStart(c) + i] = BankBlock(log, i)

\* The tail blocks from n on hold the image of log.
TailHolds(j, log, n) == \A i \in n .. JournalBlocks - 1 : j[i] = TailBlock(log, i)

PublishingV2 == pc \in {"clear", "clearFlush", "tail", "tailFlush", "active",
                        "activeFlush"}
PublishingV3 == pc \in {"bank", "bankFlush", "anchor", "anchorFlush"}

\* All payload blocks are durable: an anchor that names them is written.
Staged == pc \in {"active", "activeFlush", "anchor", "anchorFlush"}

\* The blocks that an anchor covers hold its log.
Backed(anchor, j) ==
  /\ anchor.kind = "active" => TailHolds(j, anchor.log, 1)
  /\ anchor.kind = "snapshot" => BankHolds(j, anchor.at, anchor.log, BankBlocks)

\* Except while a commit flush is outstanding, both views have one anchor.
AnchorInv == /\ Sound(jVol) /\ Sound(jDur)
             /\ pc \notin CommitFlush => jVol[0] = jDur[0]
             /\ Staged => \A i \in JIndex \ {0} : jVol[i] = jDur[i]
             /\ pc = "collapseFlush" => Backed(jDur[0], jVol)
             /\ WriteThrough => jVol = jDur /\ homeVol = homeDur

\* Home blocks that are not yet durable are covered by the durable log.
HomeInv == \A b \in Home : homeVol[b] # homeDur[b] => b \in BlocksOf(Load(jDur))

V2Inv == PublishingV2 =>
  /\ JournalBlocks > 1
  /\ img # <<>>
  /\ homeVol = homeDur
  /\ call \in {"tx", "txCheckpoint"}
  /\ Overlay(homeDur, img) = goal
  /\ pc # "activeFlush" => jVol[0] = EmptyAnchor
  /\ pc = "tail" => k \in 1 .. JournalBlocks - 1 /\ TailHolds(jVol, img, k + 1)
  /\ pc \in {"tailFlush", "active", "activeFlush"} => TailHolds(jVol, img, 1)
  /\ pc = "activeFlush" => jVol[0] = ActiveAnchor(img)

ReplayInv == pc \in {"replay", "replayFlush"} =>
  /\ plan # <<>>
  /\ Load(jVol) = plan \o img
  /\ img # <<>> => jVol[0].kind = "snapshot"
  /\ pc = "replay" => k \in 1 .. Len(plan)
  /\ pc = "replayFlush" => k = Len(plan) + 1
  /\ \A b \in BlocksOf(plan) :
        LastWrite(plan, b) < k => homeVol[b] = plan[LastWrite(plan, b)].val
  /\ Recovered(homeDur, jDur) = goal

CollapseInv == pc \in {"collapse", "collapseFlush"} =>
  /\ homeVol = homeDur
  /\ Recovered(homeDur, jDur) = homeDur
  /\ homeDur = goal
  /\ pc = "collapseFlush" => jVol[0] = EmptyAnchor

V3Inv == PublishingV3 =>
  /\ BankBlocks > 0
  /\ img # <<>>
  /\ \A b \in Home : homeVol[b] # homeDur[b] => b \in BlocksOf(img)
  /\ Overlay(homeDur, img) = goal
  /\ pc # "anchorFlush" => jVol[0].kind # "active"
  /\ pc = "bank" => /\ k \in 0 .. BankBlocks - 1
                    /\ BankHolds(jVol, TargetBank(jVol[0]), img, k)
  /\ pc \in {"bankFlush", "anchor"} =>
        BankHolds(jVol, TargetBank(jVol[0]), img, BankBlocks)
  /\ pc = "anchorFlush" => jVol[0].kind = "snapshot" /\ jVol[0].log = img

Inv == /\ TypeOK /\ AnchorInv /\ HomeInv /\ V2Inv /\ ReplayInv /\ CollapseInv
       /\ V3Inv /\ AllOrNothing

(***************************************************************************)
(* Lemmas about the reservation and the device.                            *)
(***************************************************************************)
\* The two banks lie inside the reservation, behind the anchor, and do not
\* overlap (v3_bank_layout, v3_bank_start).
LEMMA BankPlaces ==
  /\ BankBlocks \in Nat
  /\ BankBlocks <= JournalBlocks
  /\ \A c \in {0, 1} : \A i \in 0 .. BankBlocks - 1 :
        BankStart(c) + i \in JIndex \ {0}
  /\ \A i, m \in 0 .. BankBlocks - 1 : BankStart(0) + i # BankStart(1) + m
  /\ \A c \in {0, 1} : \A i, m \in 0 .. BankBlocks - 1 :
        BankStart(c) + i = BankStart(c) + m => i = m
<1>1. /\ BankBlocks \in Int /\ 2 * BankBlocks <= JournalBlocks - 1
      /\ 0 <= BankBlocks
  BY SizeAssumption DEF BankBlocks
<1>2. BankStart(0) = 1 /\ BankStart(1) = 1 + BankBlocks
  BY <1>1 DEF BankStart
<1> QED
  BY <1>1, <1>2, SizeAssumption DEF JIndex

\* The anchor block is in the reservation.
LEMMA AnchorPlace == 0 \in JIndex /\ JIndex \subseteq Nat
BY SizeAssumption DEF JIndex

\* Logs and home images have their types in every state.
LEMMA LogTypes ==
  ASSUME TypeOK
  PROVE  /\ Seq(Write) = LogOver(Home, Value)
         /\ Load(jVol) \in LogOver(Home, Value)
         /\ Load(jDur) \in LogOver(Home, Value)
         /\ img \in LogOver(Home, Value)
         /\ plan \in LogOver(Home, Value)
         /\ Recovered(homeVol, jVol) \in [Home -> Value]
         /\ Recovered(homeDur, jDur) \in [Home -> Value]
<1>1. Seq(Write) = LogOver(Home, Value)
  BY DEF Write, LogOver
<1>2. /\ Load(jVol) \in Seq(Write) /\ Load(jDur) \in Seq(Write)
      /\ img \in Seq(Write) /\ plan \in Seq(Write)
  BY AnchorPlace DEF TypeOK, Load, JBlock
<1>3. /\ homeVol \in [Home -> Value] /\ homeDur \in [Home -> Value]
  BY DEF TypeOK
<1> QED
  BY <1>1, <1>2, <1>3, OverlayType DEF Recovered

\* Every block the code writes to the reservation is a journal block.
LEMMA BlockTypes ==
  /\ ZeroBlock \in JBlock /\ EmptyAnchor \in JBlock
  /\ \A log \in Seq(Write) : ActiveAnchor(log) \in JBlock
  /\ \A log \in Seq(Write), i \in JIndex :
        TailBlock(log, i) \in JBlock /\ BankBlock(log, i) \in JBlock
  /\ \A log \in Seq(Write), c \in {0, 1} :
        BankBlocks > 0 => SnapshotAnchor(log, c) \in JBlock
<1>1. 0 \in JIndex /\ <<>> \in Seq(Write)
  BY AnchorPlace
<1>2. BankBlocks > 0 => 1 \in JIndex
  BY SizeAssumption DEF BankBlocks, JIndex
<1> QED
  BY <1>1, <1>2 DEF JBlock, ZeroBlock, EmptyAnchor, ActiveAnchor, TailBlock,
                    BankBlock, SnapshotAnchor

\* Writing a journal block keeps the types of both views of the device.
LEMMA WriteJournalType ==
  ASSUME TypeOK, NEW i \in JIndex, NEW blk \in JBlock, WriteJournal(i, blk)
  PROVE  /\ homeVol' \in [Home -> Value] /\ homeDur' \in [Home -> Value]
         /\ jVol' \in [JIndex -> JBlock] /\ jDur' \in [JIndex -> JBlock]
BY DEF TypeOK, WriteJournal

\* A sound reservation decodes.
LEMMA SoundDecodes ==
  ASSUME NEW j, Sound(j)
  PROVE  Decodable(j)
BY DEF Sound, Decodable

(***************************************************************************)
(* The invariant holds initially.                                          *)
(***************************************************************************)
\* A freshly formatted device, with its empty anchor, satisfies the invariant.
LEMMA InitInv ==
  ASSUME Init, ~ZeroedJournal
  PROVE  Inv
<1>1. homeVol \in [Home -> Value] /\ homeDur = homeVol
  BY CleanAssumption DEF Init
<1>2. jVol \in [JIndex -> JBlock] /\ jVol[0] = EmptyAnchor /\ jDur = jVol
  BY BlockTypes, AnchorPlace DEF Init
<1>3. TypeOK
  BY <1>1, <1>2, SizeAssumption DEF Init, TypeOK, Label, Call
<1>4. AnchorInv
  BY <1>1, <1>2 DEF Init, AnchorInv, Sound, EmptyAnchor
<1>5. HomeInv
  BY <1>1 DEF HomeInv
<1>6. V2Inv /\ ReplayInv /\ CollapseInv /\ V3Inv
  BY DEF Init, V2Inv, ReplayInv, CollapseInv, V3Inv, PublishingV2, PublishingV3
<1>7. AllOrNothing
  <2>1. Load(jDur) = <<>>
    BY <1>2 DEF Load, EmptyAnchor
  <2>2. Recovered(homeDur, jDur) = homeVol
    BY <1>1, <2>1, OverlayEmpty DEF Recovered
  <2> QED
    BY <2>2 DEF AllOrNothing, Init
<1> QED
  BY <1>3, <1>4, <1>5, <1>6, <1>7 DEF Inv

(***************************************************************************)
(* Issuing a call.                                                         *)
(***************************************************************************)
\* Between calls both views recover to the same store.
LEMMA IdleAgree ==
  ASSUME Inv, pc = "idle"
  PROVE  /\ jVol[0] = jDur[0]
         /\ Recovered(homeVol, jVol) = Recovered(homeDur, jDur)
         /\ Load(jVol) = <<>> => homeVol = homeDur /\ jVol[0] = EmptyAnchor
<1>1. jVol[0] = jDur[0]
  BY DEF Inv, AnchorInv, CommitFlush
<1>2. homeVol \in [Home -> Value] /\ homeDur \in [Home -> Value]
  BY DEF Inv, TypeOK
<1>3. Recovered(homeVol, jVol) = Recovered(homeDur, jDur)
  BY <1>1, <1>2, OverlayAgree DEF Inv, HomeInv, Recovered, Load
<1>4. ASSUME Load(jVol) = <<>>
      PROVE  homeVol = homeDur /\ jVol[0] = EmptyAnchor
  <2>1. BlocksOf(Load(jDur)) = {}
    BY <1>1, <1>4 DEF Load, BlocksOf
  <2>2. homeVol = homeDur
    BY <1>2, <2>1 DEF Inv, HomeInv
  <2>3. jVol[0] = EmptyAnchor
    BY <1>4 DEF Inv, AnchorInv, Sound, Load
  <2> QED
    BY <2>2, <2>3
<1> QED
  BY <1>1, <1>3, <1>4

\* A primitive that finds the journal empty starts with nothing outstanding:
\* home is durable, and its goal is home overlaid with the new image.
LEMMA BeginTxInv ==
  ASSUME Inv, NEW t \in Tx, NEW c \in {"tx", "txCheckpoint"}, BeginTx(t, c)
  PROVE  Inv'
<1> USE DEF BeginTx, device
<1>1. /\ pc = "idle" /\ Load(jVol) = <<>> /\ t \in Seq(Write) /\ t # <<>>
  BY TxAssumption DEF MayPublishOver, IsTransaction
<1>2. /\ homeVol = homeDur /\ jVol[0] = EmptyAnchor /\ jVol[0] = jDur[0]
      /\ Recovered(homeVol, jVol) = Recovered(homeDur, jDur)
  BY <1>1, IdleAgree
<1>3. TypeOK'
  <2>1. Overlay(homeVol, t) \in [Home -> Value]
    BY <1>1, LogTypes, OverlayType DEF Inv, TypeOK
  <2>2. Recovered(homeVol, jVol) \in [Home -> Value]
    BY LogTypes DEF Inv
  <2> QED
    BY <1>1, <2>1, <2>2, SizeAssumption DEF Inv, TypeOK, Label, Call
<1>4. AnchorInv'
  BY <1>2 DEF Inv, AnchorInv, Sound, CommitFlush, Staged
<1>5. HomeInv'
  BY DEF Inv, HomeInv, Load
<1>6. V2Inv'
  <2>1. JournalBlocks > 1
    BY <1>1, SizeAssumption DEF Fits
  <2> QED
    BY <1>1, <1>2, <2>1 DEF V2Inv, PublishingV2
<1>7. ReplayInv' /\ CollapseInv' /\ V3Inv'
  BY DEF ReplayInv, CollapseInv, V3Inv, PublishingV3
<1>8. AllOrNothing'
  BY <1>2 DEF AllOrNothing, Recovered, Load
<1> QED
  BY <1>3, <1>4, <1>5, <1>6, <1>7, <1>8 DEF Inv

\* An unchanged table on a drained journal: home itself is what is durable.
LEMMA NoOpTxInv ==
  ASSUME Inv, NoOpTx, ~StaleCalls
  PROVE  Inv'
<1> USE DEF NoOpTx, device
<1>1. /\ homeVol = homeDur /\ jVol[0] = EmptyAnchor /\ jVol[0] = jDur[0]
  BY IdleAgree
<1>2. TypeOK'
  BY DEF Inv, TypeOK
<1>3. AnchorInv' /\ HomeInv'
  BY DEF Inv, AnchorInv, HomeInv, Sound, CommitFlush, Staged, Load
<1>4. V2Inv' /\ ReplayInv' /\ CollapseInv' /\ V3Inv'
  BY DEF V2Inv, ReplayInv, CollapseInv, V3Inv, PublishingV2, PublishingV3
<1>5. AllOrNothing'
  <2>1. homeDur \in [Home -> Value]
    BY DEF Inv, TypeOK
  <2> QED
    BY <1>1, <2>1, OverlayEmpty DEF AllOrNothing, Recovered, Load, EmptyAnchor
<1> QED
  BY <1>2, <1>3, <1>4, <1>5 DEF Inv

\* A retained append keeps the old log as a prefix of the new snapshot, so
\* volatile home blocks stay covered.
LEMMA BeginAppendInv ==
  ASSUME Inv, NEW t \in Tx, BeginAppend(t)
  PROVE  Inv'
<1> USE DEF BeginAppend, device
<1>1. /\ pc = "idle" /\ t \in Seq(Write) /\ t # <<>>
  BY TxAssumption DEF IsTransaction
<1>2. /\ jVol[0] = jDur[0]
      /\ Recovered(homeVol, jVol) = Recovered(homeDur, jDur)
  BY <1>1, IdleAgree
<1>3. /\ Load(jVol) \in Seq(Write) /\ Load(jVol) \o t \in Seq(Write)
      /\ Load(jVol) \o t # <<>>
  BY <1>1, LogTypes, ConcatProperties, EmptySeq DEF Inv
<1>4. BlocksOf(Load(jVol)) \subseteq BlocksOf(Load(jVol) \o t)
  BY <1>1, <1>3, LogTypes, BlocksOfConcat DEF Inv
<1>5. homeVol \in [Home -> Value] /\ homeDur \in [Home -> Value]
  BY DEF Inv, TypeOK
<1>6. \A b \in Home : homeVol[b] # homeDur[b] => b \in BlocksOf(Load(jVol) \o t)
  BY <1>2, <1>4 DEF Inv, HomeInv, Load
<1>7. Overlay(homeDur, Load(jVol) \o t) = Overlay(homeVol, Load(jVol) \o t)
  <2> DEFINE w == Load(jVol) \o t
  <2> HIDE DEF w
  <2>1. \A b \in Home : homeDur[b] # homeVol[b] => b \in BlocksOf(w)
    BY <1>6 DEF w
  <2>2. Overlay(homeDur, w) = Overlay(homeVol, w)
    BY <1>5, <2>1 DEF Overlay
  <2> QED
    BY <2>2 DEF w
<1>8. TypeOK'
  <2>1. Overlay(homeVol, Load(jVol) \o t) \in [Home -> Value]
    BY <1>3, <1>5, LogTypes, OverlayType DEF Inv
  <2>2. Recovered(homeVol, jVol) \in [Home -> Value]
    BY LogTypes DEF Inv
  <2> QED
    BY <1>3, <2>1, <2>2, SizeAssumption DEF Inv, TypeOK, Label, Call
<1>9. AnchorInv'
  BY <1>2 DEF Inv, AnchorInv, Sound, CommitFlush, Staged
<1>10. HomeInv'
  BY DEF Inv, HomeInv, Load
<1>11. V2Inv' /\ ReplayInv' /\ CollapseInv'
  BY DEF V2Inv, ReplayInv, CollapseInv, PublishingV2
<1>12. V3Inv'
  BY <1>3, <1>6, <1>7, BankPlaces DEF V3Inv, PublishingV3, BankHolds
<1>13. AllOrNothing'
  BY <1>2 DEF AllOrNothing, Recovered, Load
<1> QED
  BY <1>8, <1>9, <1>10, <1>11, <1>12, <1>13 DEF Inv

\* All recovery calls begin alike.
LEMMA BeginReplayInv ==
  ASSUME Inv, pc = "idle",
         NEW c \in {"recover", "recoverCheckpoint", "checked", "prefix"},
         NEW writes \in Seq(Write), NEW rest \in Seq(Write), writes # <<>>,
         Load(jVol) = writes \o rest, rest # <<>> => jVol[0].kind = "snapshot",
         BeginReplay(c, writes, rest)
  PROVE  Inv'
<1> USE DEF BeginReplay, device
<1>1. /\ jVol[0] = jDur[0]
      /\ Recovered(homeVol, jVol) = Recovered(homeDur, jDur)
  BY IdleAgree
<1>2. TypeOK'
  <2>1. Recovered(homeVol, jVol) \in [Home -> Value]
    BY LogTypes DEF Inv
  <2>2. Len(writes) \in Nat
    OBVIOUS
  <2> QED
    BY <2>1, <2>2, SizeAssumption DEF Inv, TypeOK, Label, Call
<1>3. AnchorInv'
  BY <1>1 DEF Inv, AnchorInv, Sound, CommitFlush, Staged
<1>4. HomeInv'
  BY DEF Inv, HomeInv, Load
<1>5. V2Inv' /\ V3Inv' /\ CollapseInv'
  BY DEF V2Inv, V3Inv, CollapseInv, PublishingV2, PublishingV3
<1>6. ReplayInv'
  <2>1. \A b \in BlocksOf(writes) : LastWrite(writes, b) >= 1
    BY LogTypes, LastWriteExists DEF Inv
  <2>2. 1 \in 1 .. Len(writes)
    BY EmptySeq
  <2>3. \A b \in BlocksOf(plan') : ~ (LastWrite(plan', b) < k')
    BY <2>1, LogTypes, LastWriteExists DEF Inv
  <2>4. Load(jVol)' = plan' \o img' /\ Recovered(homeDur, jDur)' = goal'
    BY <1>1 DEF Load, Recovered
  <2> QED
    BY <2>2, <2>3, <2>4 DEF ReplayInv
<1>7. AllOrNothing'
  BY <1>1 DEF AllOrNothing, Recovered, Load
<1> QED
  BY <1>2, <1>3, <1>4, <1>5, <1>6, <1>7 DEF Inv

\* Plain recovery replays the whole log and means to leave none of it.
LEMMA BeginRecoverInv ==
  ASSUME Inv, NEW c \in {"recover", "recoverCheckpoint"}, BeginRecover(c)
  PROVE  Inv'
<1>1. Load(jVol) \in Seq(Write) /\ Load(jVol) \o <<>> = Load(jVol)
  BY LogTypes, ConcatEmptySeq DEF Inv
<1>2. /\ pc = "idle" /\ Load(jVol) # <<>> /\ <<>> \in Seq(Write)
      /\ BeginReplay(c, Load(jVol), <<>>)
  BY DEF BeginRecover
<1> QED
  BY <1>1, <1>2, BeginReplayInv

\* A checkpoint of a fully processed log starts from a collapsible state.
LEMMA BeginCheckpointInv ==
  ASSUME Inv, BeginCheckpoint
  PROVE  Inv'
<1> USE DEF BeginCheckpoint, device
<1>1. TypeOK'
  BY DEF Inv, TypeOK, Label, Call
<1>2. jVol[0] = jDur[0] /\ Recovered(homeVol, jVol) = Recovered(homeDur, jDur)
  BY IdleAgree
<1>3. AnchorInv'
  BY <1>2 DEF Inv, AnchorInv, Sound, CommitFlush, Staged
<1>4. HomeInv'
  BY DEF Inv, HomeInv, Load
<1>5. AllOrNothing' /\ CollapseInv'
  BY <1>2 DEF AllOrNothing, CollapseInv, Recovered, Load
<1>6. V2Inv' /\ ReplayInv' /\ V3Inv'
  BY DEF V2Inv, ReplayInv, V3Inv, PublishingV2, PublishingV3
<1> QED
  BY <1>1, <1>3, <1>4, <1>5, <1>6 DEF Inv

\* Checked recovery replays the whole log.
LEMMA BeginCheckedInv ==
  ASSUME Inv, BeginChecked
  PROVE  Inv'
<1>1. Load(jVol) \in Seq(Write) /\ Load(jVol) \o <<>> = Load(jVol)
  BY LogTypes, ConcatEmptySeq DEF Inv
<1>2. /\ pc = "idle" /\ Load(jVol) # <<>> /\ <<>> \in Seq(Write)
      /\ BeginReplay("checked", Load(jVol), <<>>)
  BY DEF BeginChecked
<1> QED
  BY <1>1, <1>2, BeginReplayInv

\* A prefix checkpoint splits the log into replayed writes and kept suffix.
LEMMA BeginPrefixInv ==
  ASSUME Inv, NEW n \in DOMAIN Load(jVol), BeginPrefix(n)
  PROVE  Inv'
<1> DEFINE log == Load(jVol)
           p == SubSeq(log, 1, n)
           s == SubSeq(log, n + 1, Len(log))
<1>1. log \in Seq(Write) /\ n \in 1 .. Len(log) /\ Len(log) \in Nat
  BY LogTypes, LenProperties DEF Inv
<1>2. jVol[0].kind = "snapshot"
  BY DEF BeginPrefix
<1>3. p \o s = log
  <2>1. p \o s = SubSeq(log, 1, Len(log))
    <3>1. /\ 1 \in 1 .. Len(log) + 1 /\ n \in 1 - 1 .. Len(log)
          /\ Len(log) \in n .. Len(log)
      BY <1>1
    <3> HIDE DEF log
    <3> QED
      BY <1>1, <3>1, ConcatAdjacentSubSeq
  <2> QED
    BY <1>1, <2>1, SubSeqFull
<1>4. p \in Seq(Write) /\ s \in Seq(Write) /\ p # <<>>
  <2>1. /\ \A i \in 1 .. n : log[i] \in Write
        /\ \A i \in n + 1 .. Len(log) : log[i] \in Write
    BY <1>1
  <2>2. p \in Seq(Write) /\ Len(p) = n
    BY <1>1, <2>1, SubSeqProperties
  <2>3. s \in Seq(Write)
    BY <1>1, <2>1, SubSeqProperties
  <2> QED
    BY <1>1, <2>2, <2>3
<1> HIDE DEF log, p, s
<1>5. pc = "idle" /\ BeginReplay("prefix", p, s) /\ log = Load(jVol)
  BY DEF BeginPrefix, log, p, s
<1> QED
  BY <1>2, <1>3, <1>4, <1>5, BeginReplayInv

(***************************************************************************)
(* store_journal_image.                                                    *)
(***************************************************************************)
\* Rewriting the empty anchor of an empty journal changes no view of it.
LEMMA ClearInv ==
  ASSUME Inv, Clear
  PROVE  Inv'
<1> USE DEF Clear, Goto
<1>1. jVol[0] = EmptyAnchor /\ jDur[0] = EmptyAnchor
  BY DEF Inv, V2Inv, PublishingV2, AnchorInv, CommitFlush
<1>2. /\ jVol' = jVol /\ jDur' = jDur
      /\ homeVol' = homeVol /\ homeDur' = homeDur
  BY <1>1, AnchorPlace DEF WriteJournal, Inv, TypeOK
<1>3. TypeOK'
  BY <1>2 DEF Inv, TypeOK, Label
<1>4. AnchorInv' /\ HomeInv' /\ AllOrNothing'
  BY <1>1, <1>2 DEF Inv, AnchorInv, HomeInv, AllOrNothing, Sound, CommitFlush,
                    Staged, Load, Recovered
<1>5. V2Inv'
  BY <1>2 DEF Inv, V2Inv, PublishingV2
<1>6. ReplayInv' /\ CollapseInv' /\ V3Inv'
  BY DEF ReplayInv, CollapseInv, V3Inv, PublishingV3
<1> QED
  BY <1>3, <1>4, <1>5, <1>6 DEF Inv

\* The flush of the empty anchor; the tail loop starts at the last block.
LEMMA ClearFlushInv ==
  ASSUME Inv, ClearFlush
  PROVE  Inv'
<1> USE DEF ClearFlush, Goto, Flush
<1>1. /\ jVol[0] = EmptyAnchor /\ jDur[0] = EmptyAnchor /\ homeVol = homeDur
      /\ JournalBlocks > 1
  BY DEF Inv, V2Inv, PublishingV2, AnchorInv, CommitFlush
<1>2. TypeOK'
  <2>1. JournalBlocks - 1 \in 0 .. JournalBlocks + Len(plan)
    BY <1>1, SizeAssumption DEF Inv, TypeOK
  <2> QED
    BY <2>1 DEF Inv, TypeOK, Label
<1>3. AnchorInv'
  BY <1>1 DEF Inv, AnchorInv, Sound, CommitFlush, Staged
<1>4. HomeInv'
  BY DEF HomeInv
<1>5. AllOrNothing'
  BY <1>1 DEF Inv, AllOrNothing, Load, Recovered
<1>6. V2Inv'
  BY <1>1, SizeAssumption DEF Inv, V2Inv, PublishingV2, TailHolds
<1>7. ReplayInv' /\ CollapseInv' /\ V3Inv'
  BY DEF ReplayInv, CollapseInv, V3Inv, PublishingV3
<1> QED
  BY <1>2, <1>3, <1>4, <1>5, <1>6, <1>7 DEF Inv

\* Staging one tail block while the anchor says empty is invisible.
LEMMA StageTailInv ==
  ASSUME Inv, StageTail
  PROVE  Inv'
<1> USE DEF StageTail, Goto
<1>1. /\ k \in 1 .. JournalBlocks - 1 /\ k \in JIndex \ {0}
      /\ jVol[0] = EmptyAnchor /\ jDur[0] = EmptyAnchor /\ homeVol = homeDur
  BY SizeAssumption DEF Inv, V2Inv, PublishingV2, AnchorInv, CommitFlush, JIndex
<1>2. TailBlock(img, k) \in JBlock
  BY <1>1, BlockTypes DEF Inv, TypeOK
<1>3. /\ jVol \in [JIndex -> JBlock] /\ jDur \in [JIndex -> JBlock]
      /\ jVol' = [jVol EXCEPT ![k] = TailBlock(img, k)]
      /\ jDur' = jDur \/ jDur' = [jDur EXCEPT ![k] = TailBlock(img, k)]
      /\ WriteThrough => jDur' = [jDur EXCEPT ![k] = TailBlock(img, k)]
      /\ homeVol' = homeVol /\ homeDur' = homeDur
  BY DEF WriteJournal, Inv, TypeOK
<1>4. jVol'[0] = EmptyAnchor /\ jDur'[0] = EmptyAnchor
  BY <1>1, <1>3, AnchorPlace
<1>5. TypeOK'
  <2>1. k - 1 \in 0 .. JournalBlocks + Len(plan)
    BY <1>1, SizeAssumption DEF Inv, TypeOK
  <2> QED
    BY <1>1, <1>2, <2>1, WriteJournalType DEF Inv, TypeOK, Label
<1>6. AnchorInv'
  BY <1>1, <1>3, <1>4 DEF Inv, AnchorInv, Sound, CommitFlush, Staged, EmptyAnchor
<1>7. HomeInv'
  BY <1>1, <1>3 DEF HomeInv
<1>8. AllOrNothing'
  BY <1>1, <1>3, <1>4 DEF Inv, AllOrNothing, Load, Recovered
<1>9. V2Inv'
  <2>0. TailHolds(jVol, img, k + 1)
    BY DEF Inv, V2Inv, PublishingV2
  <2>1. ASSUME NEW i \in k .. JournalBlocks - 1
        PROVE  jVol'[i] = TailBlock(img, i)
    <3>1. i \in JIndex /\ (i = k \/ i \in k + 1 .. JournalBlocks - 1)
      BY <1>1, SizeAssumption DEF JIndex
    <3> QED
      BY <1>1, <1>3, <2>0, <3>1 DEF TailHolds
  <2>2. pc' = "tail" => k' \in 1 .. JournalBlocks - 1 /\ TailHolds(jVol', img', k' + 1)
    <3>1. k' = k - 1 /\ k' + 1 = k /\ img' = img /\ (pc' = "tail" => k # 1)
      BY <1>1
    <3>2. pc' = "tail" => k' \in 1 .. JournalBlocks - 1
      BY <1>1, <3>1, SizeAssumption
    <3>3. TailHolds(jVol', img', k' + 1)
      BY <2>1, <3>1 DEF TailHolds
    <3> QED
      BY <3>2, <3>3
  <2>3. pc' = "tailFlush" => TailHolds(jVol', img', 1)
    <3>1. img' = img /\ (pc' = "tailFlush" => k = 1)
      BY <1>1
    <3> QED
      BY <2>1, <3>1 DEF TailHolds
  <2> QED
    BY <1>3, <1>4, <2>2, <2>3 DEF Inv, V2Inv, PublishingV2
<1>10. ReplayInv' /\ CollapseInv' /\ V3Inv'
  BY DEF ReplayInv, CollapseInv, V3Inv, PublishingV3
<1> QED
  BY <1>5, <1>6, <1>7, <1>8, <1>9, <1>10 DEF Inv

\* The publication barrier: all tail blocks are durable from here on.
LEMMA TailFlushInv ==
  ASSUME Inv, TailFlush
  PROVE  Inv'
<1> USE DEF TailFlush, Goto, Flush
<1>1. jVol[0] = EmptyAnchor /\ jDur[0] = EmptyAnchor /\ homeVol = homeDur
  BY DEF Inv, V2Inv, PublishingV2, AnchorInv, CommitFlush
<1>2. TypeOK'
  BY DEF Inv, TypeOK, Label
<1>3. AnchorInv'
  BY <1>1 DEF Inv, AnchorInv, Sound, CommitFlush, Staged
<1>4. HomeInv'
  BY DEF HomeInv
<1>5. AllOrNothing'
  BY <1>1 DEF Inv, AllOrNothing, Load, Recovered
<1>6. V2Inv'
  BY <1>1 DEF Inv, V2Inv, PublishingV2, TailHolds
<1>7. ReplayInv' /\ CollapseInv' /\ V3Inv'
  BY DEF ReplayInv, CollapseInv, V3Inv, PublishingV3
<1> QED
  BY <1>2, <1>3, <1>4, <1>5, <1>6, <1>7 DEF Inv

\* The active anchor may reach the medium at once: its tail is there already.
LEMMA ActiveInv ==
  ASSUME Inv, Active
  PROVE  Inv'
<1> USE DEF Active, Goto
<1>1. /\ jVol[0] = EmptyAnchor /\ jDur[0] = EmptyAnchor /\ homeVol = homeDur
      /\ TailHolds(jVol, img, 1) /\ img # <<>> /\ Overlay(homeDur, img) = goal
      /\ \A i \in JIndex \ {0} : jVol[i] = jDur[i]
  BY DEF Inv, V2Inv, PublishingV2, AnchorInv, CommitFlush, Staged
<1>2. ActiveAnchor(img) \in JBlock
  BY BlockTypes DEF Inv, TypeOK
<1>3. /\ jVol \in [JIndex -> JBlock] /\ jDur \in [JIndex -> JBlock]
      /\ jVol' = [jVol EXCEPT ![0] = ActiveAnchor(img)]
      /\ jDur' = jDur \/ jDur' = [jDur EXCEPT ![0] = ActiveAnchor(img)]
      /\ WriteThrough => jDur' = [jDur EXCEPT ![0] = ActiveAnchor(img)]
      /\ homeVol' = homeVol /\ homeDur' = homeDur
  BY DEF WriteJournal, Inv, TypeOK
<1>4. /\ jVol'[0] = ActiveAnchor(img)
      /\ jDur'[0] \in {EmptyAnchor, ActiveAnchor(img)}
      /\ \A i \in JIndex \ {0} : jVol'[i] = jVol[i] /\ jDur'[i] = jVol[i]
  BY <1>1, <1>3, AnchorPlace
<1>5. TypeOK'
  BY <1>2, AnchorPlace, WriteJournalType DEF Inv, TypeOK, Label
<1>6. TailHolds(jVol', img, 1) /\ TailHolds(jDur', img, 1)
  BY <1>1, <1>4, SizeAssumption DEF TailHolds, JIndex
<1>7. Sound(jVol') /\ Sound(jDur')
  BY <1>1, <1>4, <1>6 DEF Sound, ActiveAnchor, EmptyAnchor, TailHolds
<1>8. AnchorInv'
  BY <1>3, <1>4, <1>7 DEF Inv, AnchorInv, CommitFlush, Staged
<1>9. HomeInv'
  BY <1>1, <1>3 DEF HomeInv
<1>10. AllOrNothing'
  <2>1. CASE jDur'[0] = EmptyAnchor
    BY <1>1, <1>3, <2>1 DEF Inv, AllOrNothing, Load, Recovered
  <2>2. CASE jDur'[0] = ActiveAnchor(img)
    BY <1>1, <1>3, <2>2 DEF AllOrNothing, Load, Recovered, ActiveAnchor
  <2> QED
    BY <1>4, <2>1, <2>2
<1>11. V2Inv'
  BY <1>1, <1>3, <1>4, <1>6 DEF Inv, V2Inv, PublishingV2
<1>12. ReplayInv' /\ CollapseInv' /\ V3Inv'
  BY DEF ReplayInv, CollapseInv, V3Inv, PublishingV3
<1> QED
  BY <1>5, <1>8, <1>9, <1>10, <1>11, <1>12 DEF Inv

\* The commit flush: the durable log is the published image.
LEMMA ActiveFlushInv ==
  ASSUME Inv, ActiveFlush
  PROVE  Inv'
<1> USE DEF ActiveFlush, Goto, Flush
<1>1. /\ jVol[0] = ActiveAnchor(img) /\ Load(jVol) = img /\ homeVol = homeDur
      /\ img # <<>> /\ Overlay(homeDur, img) = goal /\ Sound(jVol)
  BY DEF Inv, V2Inv, PublishingV2, AnchorInv, Load, ActiveAnchor
<1>2. TypeOK'
  <2>1. 1 \in 0 .. JournalBlocks + Len(img)
    BY SizeAssumption DEF Inv, TypeOK
  <2> QED
    BY <1>1, <2>1 DEF Inv, TypeOK, Label
<1>3. AnchorInv'
  BY <1>1 DEF AnchorInv, Sound, CommitFlush, Staged
<1>4. HomeInv'
  BY DEF HomeInv
<1>5. Recovered(homeDur, jDur)' = goal
  BY <1>1 DEF Load, Recovered
<1>6. ReplayInv'
  <2>1. img \o <<>> = img /\ 1 \in 1 .. Len(img)
    BY <1>1, ConcatEmptySeq, EmptySeq DEF Inv, TypeOK
  <2>2. \A b \in BlocksOf(plan') : ~ (LastWrite(plan', b) < k')
    BY <1>1, LogTypes, LastWriteExists DEF Inv
  <2>3. Load(jVol)' = plan' \o img'
    BY <1>1, <2>1 DEF Load
  <2> QED
    BY <1>1, <1>5, <2>1, <2>2, <2>3 DEF ReplayInv
<1>7. AllOrNothing'
  BY <1>5 DEF AllOrNothing
<1>8. V2Inv' /\ CollapseInv' /\ V3Inv'
  BY DEF V2Inv, CollapseInv, V3Inv, PublishingV2, PublishingV3
<1> QED
  BY <1>2, <1>3, <1>4, <1>6, <1>7, <1>8 DEF Inv

(***************************************************************************)
(* Replay and checkpoint.                                                  *)
(***************************************************************************)
\* One home write of replay: the block is covered by the durable log, and its
\* value is the last one the plan has for it so far.
LEMMA ReplayStepInv ==
  ASSUME Inv, Replay
  PROVE  Inv'
<1> USE DEF Replay, Goto
<1> DEFINE w == plan[k]
<1>0. k \in 1 .. Len(plan) /\ Len(plan) \in Nat /\ k \in Int
  BY LenProperties DEF Inv, ReplayInv, TypeOK
<1>1. plan \in LogOver(Home, Value) /\ w.block \in Home /\ w.val \in Value
  <2>1. plan \in Seq(Write)
    BY DEF Inv, TypeOK
  <2>2. w \in Write
    BY <1>0, <2>1, ElementOfSeq
  <2> QED
    BY <2>1, <2>2 DEF Write, LogOver
<1>2. w.block \in BlocksOf(plan)
  <2>1. DOMAIN plan = 1 .. Len(plan)
    BY <1>1, LenProperties DEF LogOver
  <2> QED
    BY <1>0, <2>1 DEF BlocksOf
<1>3. /\ jVol[0] = jDur[0] /\ Load(jVol) = Load(jDur)
      /\ Load(jDur) = plan \o img
  BY DEF Inv, AnchorInv, ReplayInv, CommitFlush, Load
<1>4. w.block \in BlocksOf(Load(jDur))
  BY <1>2, <1>3, LogTypes, BlocksOfConcat DEF Inv
<1>5. /\ homeVol \in [Home -> Value] /\ homeDur \in [Home -> Value]
      /\ homeVol' = [homeVol EXCEPT ![w.block] = w.val]
      /\ homeDur' = homeDur \/ homeDur' = [homeDur EXCEPT ![w.block] = w.val]
      /\ WriteThrough => homeDur' = [homeDur EXCEPT ![w.block] = w.val]
      /\ jVol' = jVol /\ jDur' = jDur
  BY DEF WriteHome, Inv, TypeOK
<1> HIDE DEF w
<1>6. homeVol' \in [Home -> Value] /\ homeDur' \in [Home -> Value]
  BY <1>1, <1>5
<1>7. TypeOK'
  <2>1. k + 1 \in 0 .. JournalBlocks + Len(plan)
    BY <1>0, SizeAssumption
  <2> QED
    BY <1>5, <1>6, <2>1 DEF Inv, TypeOK, Label
<1>8. AnchorInv'
  BY <1>5 DEF Inv, AnchorInv, Sound, CommitFlush, Staged
<1>9. HomeInv'
  BY <1>1, <1>4, <1>5 DEF Inv, HomeInv, Load
<1>10. Recovered(homeDur', jDur') = Recovered(homeDur, jDur)
  <2>1. \A b \in Home : homeDur'[b] # homeDur[b] => b \in BlocksOf(Load(jDur))
    BY <1>1, <1>4, <1>5
  <2>2. Overlay(homeDur', Load(jDur)) = Overlay(homeDur, Load(jDur))
    BY <1>5, <1>6, <2>1 DEF Overlay
  <2> QED
    BY <1>5, <2>2 DEF Recovered, Load
<1>11. ReplayInv'
  <2>1. ASSUME NEW b \in BlocksOf(plan), LastWrite(plan, b) < k + 1
        PROVE  homeVol'[b] = plan[LastWrite(plan, b)].val
    <3>1. /\ LastWrite(plan, b) \in 1 .. Len(plan)
          /\ plan[LastWrite(plan, b)].block = b
          /\ \A j \in 1 .. Len(plan) : plan[j].block = b => j <= LastWrite(plan, b)
      BY <1>1, LastWriteExists
    <3>2. b \in Home
      <4>1. plan[LastWrite(plan, b)] \in [block : Home, val : Value, commit : BOOLEAN]
        BY <1>1, <3>1, ElementOfSeq DEF LogOver
      <4> QED
        BY <3>1, <4>1
    <3>3. CASE w.block = b
      <4>1. k <= LastWrite(plan, b)
        BY <1>0, <3>1, <3>3 DEF w
      <4>2. LastWrite(plan, b) = k
        BY <1>0, <2>1, <3>1, <4>1
      <4> QED
        BY <1>5, <3>2, <3>3, <4>2 DEF w
    <3>4. CASE w.block # b
      <4>0. LastWrite(plan, b) # k
        BY <3>1, <3>4 DEF w
      <4>1. LastWrite(plan, b) < k
        BY <1>0, <2>1, <3>1, <4>0
      <4> QED
        BY <1>5, <3>2, <3>4, <4>1 DEF Inv, ReplayInv
    <3> QED
      BY <3>3, <3>4
  <2>2. /\ pc' = "replay" => k' \in 1 .. Len(plan')
        /\ pc' = "replayFlush" => k' = Len(plan') + 1
    <3>1. plan' = plan /\ k' = k + 1
      OBVIOUS
    <3>2. CASE k = Len(plan)
      BY <1>0, <3>1, <3>2
    <3>3. CASE k # Len(plan)
      BY <1>0, <3>1, <3>3
    <3> QED
      BY <3>2, <3>3
  <2>3. Recovered(homeDur, jDur)' = goal'
    BY <1>10 DEF Inv, ReplayInv, Recovered, Load
  <2>4. Load(jVol)' = plan' \o img'
    BY <1>5 DEF Inv, ReplayInv, Load
  <2>5. plan' = plan /\ k' = k + 1 /\ plan' # <<>>
        /\ (img' # <<>> => jVol'[0].kind = "snapshot")
    BY <1>5 DEF Inv, ReplayInv
  <2>6. \A b \in BlocksOf(plan') :
           LastWrite(plan', b) < k' => homeVol'[b] = plan'[LastWrite(plan', b)].val
    BY <2>1, <2>5
  <2> HIDE DEF Replay, Goto
  <2> QED
    BY <2>2, <2>3, <2>4, <2>5, <2>6 DEF ReplayInv
<1>12. AllOrNothing'
  BY <1>10 DEF Inv, AllOrNothing, Recovered, Load
<1>13. V2Inv' /\ CollapseInv' /\ V3Inv'
  BY DEF V2Inv, CollapseInv, V3Inv, PublishingV2, PublishingV3
<1> QED
  BY <1>7, <1>8, <1>9, <1>11, <1>12, <1>13 DEF Inv

\* Once every write of the plan is home, the plan has nothing left to do.
LEMMA ReplayDone ==
  ASSUME Inv, pc = "replayFlush"
  PROVE  /\ Overlay(homeVol, plan) = homeVol
         /\ Recovered(homeVol, jVol) = goal
         /\ Overlay(homeVol, img) = goal
<1>1. /\ homeVol \in [Home -> Value] /\ homeDur \in [Home -> Value]
      /\ plan \in LogOver(Home, Value) /\ img \in LogOver(Home, Value)
  BY LogTypes DEF Inv, TypeOK
<1>2. /\ k = Len(plan) + 1 /\ Load(jVol) = plan \o img
      /\ jVol[0] = jDur[0] /\ Recovered(homeDur, jDur) = goal
  BY DEF Inv, ReplayInv, AnchorInv, CommitFlush
<1>3. \A b \in BlocksOf(plan) : homeVol[b] = plan[LastWrite(plan, b)].val
  <2> SUFFICES ASSUME NEW b \in BlocksOf(plan)
               PROVE  homeVol[b] = plan[LastWrite(plan, b)].val
    OBVIOUS
  <2>1. LastWrite(plan, b) \in 1 .. Len(plan) /\ Len(plan) \in Nat
    BY <1>1, LastWriteExists, LenProperties DEF LogOver
  <2>2. LastWrite(plan, b) < k
    BY <1>2, <2>1
  <2> QED
    BY <2>2 DEF Inv, ReplayInv
<1>4. Overlay(homeVol, plan) = homeVol
  BY <1>1, <1>3 DEF Overlay
<1>5. Recovered(homeVol, jVol) = Recovered(homeDur, jDur)
  BY <1>1, <1>2 DEF Inv, HomeInv, Recovered, Load, Overlay
<1>6. Overlay(homeVol, plan \o img) = Overlay(Overlay(homeVol, plan), img)
  BY <1>1, OverlayConcat
<1> QED
  BY <1>2, <1>4, <1>5, <1>6 DEF Recovered

\* The home flush: every planned block is durable, so the log may be cut.
LEMMA ReplayFlushInv ==
  ASSUME Inv, ReplayFlush
  PROVE  Inv'
<1> USE DEF ReplayFlush, Flush
<1>1. /\ Overlay(homeVol, plan) = homeVol
      /\ Recovered(homeVol, jVol) = goal
      /\ Overlay(homeVol, img) = goal
  BY ReplayDone
<1>2. /\ Sound(jVol)' /\ Sound(jDur)'
      /\ img # <<>> => jVol[0].kind = "snapshot"
      /\ jVol'[0] = jDur'[0]
      /\ \A i \in JIndex \ {0} : jVol'[i] = jDur'[i]
      /\ jVol' = jDur' /\ homeVol' = homeDur'
  BY DEF Inv, ReplayInv, AnchorInv, Sound
<1>3. Recovered(homeDur, jDur)' = goal
  BY <1>1 DEF Recovered, Load
<1>4. HomeInv'
  BY DEF HomeInv
<1>5. CASE KeepsLog(call)
  <2> USE <1>5 DEF Return, Idle
  <2>1. TypeOK'
    BY SizeAssumption DEF Inv, TypeOK, Label, Call
  <2>2. AnchorInv'
    BY <1>2 DEF AnchorInv
  <2>3. AllOrNothing'
    BY <1>3 DEF AllOrNothing
  <2>4. V2Inv' /\ ReplayInv' /\ CollapseInv' /\ V3Inv'
    BY DEF V2Inv, ReplayInv, CollapseInv, V3Inv, PublishingV2, PublishingV3
  <2> QED
    BY <1>4, <2>1, <2>2, <2>3, <2>4 DEF Inv
<1>6. CASE ~KeepsLog(call)
  <2> USE <1>6 DEF CutLog, Goto
  <2>1. TypeOK'
    BY SizeAssumption DEF Inv, TypeOK, Label
  <2>2. AnchorInv'
    BY <1>2 DEF AnchorInv
  <2>3. AllOrNothing'
    BY <1>3 DEF AllOrNothing
  <2>4. V2Inv' /\ ReplayInv'
    BY DEF V2Inv, ReplayInv, PublishingV2
  <2>5. CollapseInv'
    <3>1. ASSUME img = <<>> PROVE homeVol = goal
      BY <1>1, <3>1, OverlayEmpty DEF Inv, TypeOK
    <3> QED
      BY <1>3, <3>1 DEF CollapseInv
  <2>6. V3Inv'
    <3>1. ASSUME img # <<>>
          PROVE  BankBlocks > 0 /\ jVol[0].kind # "active"
      BY <1>2, <3>1 DEF Inv, AnchorInv, Sound
    <3> QED
      BY <1>1, <3>1, BankPlaces DEF V3Inv, PublishingV3, BankHolds
  <2> QED
    BY <1>4, <2>1, <2>2, <2>3, <2>4, <2>5, <2>6 DEF Inv
<1> QED
  BY <1>5, <1>6

\* The empty anchor replaces a log that home has absorbed.
LEMMA CollapseStepInv ==
  ASSUME Inv, Collapse
  PROVE  Inv'
<1> USE DEF Collapse, Goto
<1>1. /\ homeVol = homeDur /\ Recovered(homeDur, jDur) = homeDur /\ homeDur = goal
      /\ jVol[0] = jDur[0]
      /\ Sound(jVol) /\ Sound(jDur)
  BY DEF Inv, CollapseInv, AnchorInv, CommitFlush
<1>2. /\ jVol \in [JIndex -> JBlock] /\ jDur \in [JIndex -> JBlock]
      /\ jVol' = [jVol EXCEPT ![0] = EmptyAnchor]
      /\ jDur' = jDur \/ jDur' = [jDur EXCEPT ![0] = EmptyAnchor]
      /\ WriteThrough => jDur' = [jDur EXCEPT ![0] = EmptyAnchor]
      /\ homeVol' = homeVol /\ homeDur' = homeDur
  BY DEF WriteJournal, Inv, TypeOK
<1>3. TypeOK'
  BY BlockTypes, AnchorPlace, WriteJournalType DEF Inv, TypeOK, Label
<1>4. /\ jVol'[0] = EmptyAnchor /\ (jDur' = jDur \/ jDur'[0] = EmptyAnchor)
      /\ \A i \in JIndex \ {0} : jVol'[i] = jVol[i]
  BY <1>1, <1>2, AnchorPlace
<1>5. Sound(jVol') /\ Sound(jDur')
  BY <1>1, <1>4 DEF Sound, EmptyAnchor
<1>a. Backed(jDur'[0], jVol')
  <2>1. CASE jDur'[0] = EmptyAnchor
    BY <2>1 DEF Backed, EmptyAnchor
  <2>2. CASE jDur' = jDur
    <3>1. ASSUME jDur[0].kind = "active"
          PROVE  TailHolds(jVol', jDur[0].log, 1)
      BY <1>1, <1>4, <3>1, SizeAssumption DEF Sound, TailHolds, JIndex
    <3>2. ASSUME jDur[0].kind = "snapshot"
          PROVE  BankHolds(jVol', jDur[0].at, jDur[0].log, BankBlocks)
      BY <1>1, <1>4, <3>2, BankPlaces DEF Sound, BankHolds
    <3> QED
      BY <2>2, <3>1, <3>2 DEF Backed
  <2> QED
    BY <1>4, <2>1, <2>2
<1>b. WriteThrough => jVol' = jDur' /\ homeVol' = homeDur'
  BY <1>1, <1>2 DEF Inv, AnchorInv
<1>6. AnchorInv'
  BY <1>5, <1>a, <1>b DEF AnchorInv, CommitFlush, Staged
<1>7. HomeInv'
  BY <1>1, <1>2 DEF HomeInv
<1>8. Recovered(homeDur', jDur') = homeDur
  <2>1. CASE jDur' = jDur
    BY <1>1, <1>2, <2>1
  <2>2. CASE jDur'[0] = EmptyAnchor
    <3>1. homeDur \in [Home -> Value] /\ Load(jDur') = <<>>
      BY <2>2 DEF Inv, TypeOK, Load, EmptyAnchor
    <3> QED
      BY <1>2, <3>1, OverlayEmpty DEF Recovered
  <2> QED
    BY <1>4, <2>1, <2>2
<1>9. CollapseInv' /\ AllOrNothing'
  BY <1>1, <1>2, <1>4, <1>8 DEF CollapseInv, AllOrNothing, Recovered, Load
<1>10. V2Inv' /\ ReplayInv' /\ V3Inv'
  BY DEF V2Inv, ReplayInv, V3Inv, PublishingV2, PublishingV3
<1> QED
  BY <1>3, <1>6, <1>7, <1>9, <1>10 DEF Inv

\* The flush that ends a checkpoint.
LEMMA CollapseFlushInv ==
  ASSUME Inv, CollapseFlush
  PROVE  Inv'
<1> USE DEF CollapseFlush, Flush, Return, Idle
<1>1. /\ homeVol = homeDur /\ homeDur = goal /\ jVol[0] = EmptyAnchor
      /\ Sound(jVol)
  BY DEF Inv, CollapseInv, AnchorInv
<1>2. TypeOK'
  BY SizeAssumption DEF Inv, TypeOK, Label, Call
<1>3. AnchorInv' /\ HomeInv'
  BY <1>1 DEF AnchorInv, HomeInv, Sound, CommitFlush, Staged
<1>4. AllOrNothing'
  <2>1. homeVol \in [Home -> Value] /\ Load(jVol) = <<>>
    BY <1>1 DEF Inv, TypeOK, Load, EmptyAnchor
  <2>2. Recovered(homeVol, jVol) = homeVol
    BY <2>1, OverlayEmpty DEF Recovered
  <2> QED
    BY <1>1, <2>2 DEF AllOrNothing, Recovered, Load
<1>5. V2Inv' /\ ReplayInv' /\ CollapseInv' /\ V3Inv'
  BY DEF V2Inv, ReplayInv, CollapseInv, V3Inv, PublishingV2, PublishingV3
<1> QED
  BY <1>2, <1>3, <1>4, <1>5 DEF Inv

(***************************************************************************)
(* publish_v3_snapshot.                                                    *)
(***************************************************************************)
\* The bank being written is a bank, and not the one the anchor names.
LEMMA TargetIsOther ==
  ASSUME NEW j, Sound(j)
  PROVE  /\ TargetBank(j[0]) \in {0, 1}
         /\ j[0].kind = "snapshot" => TargetBank(j[0]) # j[0].at
BY DEF Sound, TargetBank

\* Writing the other bank keeps a reservation sound.
LEMMA OtherBankSound ==
  ASSUME NEW j, Sound(j), j[0].kind # "active",
         NEW c, c = TargetBank(j[0]), NEW i \in 0 .. BankBlocks - 1,
         NEW j2, \A m \in JIndex : m # BankStart(c) + i => j2[m] = j[m]
  PROVE  Sound(j2) /\ j2[0] = j[0]
<1>1. c \in {0, 1} /\ (j[0].kind = "snapshot" => c # j[0].at)
  BY TargetIsOther
<1>2. BankStart(c) + i \in JIndex \ {0}
  BY <1>1, BankPlaces
<1>3. j2[0] = j[0]
  BY <1>2, AnchorPlace
<1>4. ASSUME j[0].kind = "snapshot", NEW m \in 0 .. BankBlocks - 1
      PROVE  j2[BankStart(j[0].at) + m] = j[BankStart(j[0].at) + m]
  <2>1. j[0].at \in {0, 1} /\ c # j[0].at
    BY <1>1, <1>4 DEF Sound
  <2>2. BankStart(j[0].at) + m # BankStart(c) + i
    BY <1>1, <2>1, BankPlaces
  <2>3. BankStart(j[0].at) + m \in JIndex
    BY <2>1, BankPlaces
  <2> QED
    BY <2>2, <2>3
<1> QED
  BY <1>3, <1>4 DEF Sound

\* Writing a block of the inactive bank leaves the active snapshot intact.
LEMMA BankInv ==
  ASSUME Inv, Bank
  PROVE  Inv'
<1> USE DEF Bank, Goto
<1> DEFINE t == TargetBank(jVol[0])
           at == BankStart(t) + k
           blk == BankBlock(img, k)
<1>1. /\ BankBlocks > 0 /\ img # <<>> /\ jVol[0].kind # "active"
      /\ k \in 0 .. BankBlocks - 1 /\ BankHolds(jVol, t, img, k)
      /\ jVol[0] = jDur[0] /\ Sound(jVol) /\ Sound(jDur)
  BY DEF Inv, V3Inv, PublishingV3, AnchorInv, CommitFlush
<1>2. t \in {0, 1}
  BY <1>1, TargetIsOther
<1>3. at \in JIndex \ {0} /\ k \in JIndex /\ BankBlocks \in Nat
  BY <1>1, <1>2, BankPlaces, SizeAssumption DEF JIndex
<1>4. blk \in JBlock
  BY <1>3, BlockTypes DEF Inv, TypeOK
<1>5. /\ jVol \in [JIndex -> JBlock] /\ jDur \in [JIndex -> JBlock]
      /\ jVol' = [jVol EXCEPT ![at] = blk]
      /\ jDur' = jDur \/ jDur' = [jDur EXCEPT ![at] = blk]
      /\ WriteThrough => jDur' = [jDur EXCEPT ![at] = blk]
      /\ homeVol' = homeVol /\ homeDur' = homeDur
  BY DEF WriteJournal, Inv, TypeOK
<1>6. Sound(jVol') /\ jVol'[0] = jVol[0]
  <2>1. \A m \in JIndex : m # at => jVol'[m] = jVol[m]
    BY <1>5
  <2> HIDE DEF Bank
  <2> QED
    BY <1>1, <2>1, OtherBankSound
<1>7. Sound(jDur') /\ jDur'[0] = jDur[0]
  <2>1. \A m \in JIndex : m # at => jDur'[m] = jDur[m]
    BY <1>5
  <2>2. t = TargetBank(jDur[0]) /\ jDur[0].kind # "active"
    BY <1>1
  <2> HIDE DEF Bank, t
  <2> QED
    BY <1>1, <2>1, <2>2, OtherBankSound
<1>8. TypeOK'
  <2>1. k + 1 \in 0 .. JournalBlocks + Len(plan)
    BY <1>1, BankPlaces, SizeAssumption DEF Inv, TypeOK
  <2> QED
    BY <1>3, <1>4, <2>1, WriteJournalType DEF Inv, TypeOK, Label
<1>9. AnchorInv'
  BY <1>1, <1>5, <1>6, <1>7 DEF Inv, AnchorInv, CommitFlush, Staged
<1>10. HomeInv' /\ AllOrNothing'
  BY <1>5, <1>7 DEF Inv, HomeInv, AllOrNothing, Recovered, Load
<1>11. V3Inv'
  <2>1. BankHolds(jVol', t, img, k + 1)
    <3> SUFFICES ASSUME NEW i \in 0 .. k PROVE jVol'[BankStart(t) + i] = BankBlock(img, i)
      BY <1>1 DEF BankHolds
    <3>1. i \in 0 .. BankBlocks - 1 /\ BankStart(t) + i \in JIndex
      BY <1>1, <1>2, BankPlaces
    <3>2. CASE i = k
      BY <1>3, <1>5, <3>2
    <3>3. CASE i # k
      <4>1. BankStart(t) + i # at /\ i \in 0 .. k - 1
        BY <1>1, <1>2, <3>1, <3>3, BankPlaces
      <4>2. jVol[BankStart(t) + i] = BankBlock(img, i)
        BY <1>1, <4>1 DEF BankHolds
      <4> QED
        BY <1>5, <3>1, <4>1, <4>2
    <3> QED
      BY <3>2, <3>3
  <2>2. TargetBank(jVol'[0]) = t /\ k' = k + 1 /\ img' = img /\ goal' = goal
    BY <1>6
  <2>3. pc' = "bank" => k' \in 0 .. BankBlocks - 1
    BY <1>1, <1>3
  <2>4. pc' = "bankFlush" => k' = BankBlocks
    OBVIOUS
  <2>5. /\ \A b \in Home : homeVol'[b] # homeDur'[b] => b \in BlocksOf(img')
        /\ Overlay(homeDur', img') = goal' /\ jVol'[0].kind # "active"
    BY <1>1, <1>5, <1>6 DEF Inv, V3Inv, PublishingV3
  <2>6. pc' \in {"bank", "bankFlush"}
    OBVIOUS
  <2> HIDE DEF Bank, Goto, t, at, blk
  <2> QED
    BY <1>1, <2>1, <2>2, <2>3, <2>4, <2>5, <2>6 DEF V3Inv
<1>12. V2Inv' /\ ReplayInv' /\ CollapseInv'
  BY DEF V2Inv, ReplayInv, CollapseInv, PublishingV2
<1> QED
  BY <1>8, <1>9, <1>10, <1>11, <1>12 DEF Inv

\* In the V3 phases a home flush changes neither the recovered store nor the
\* store the snapshot leads to.
LEMMA V3FlushAgree ==
  ASSUME Inv, PublishingV3
  PROVE  /\ Overlay(homeVol, img) = goal
         /\ Overlay(homeVol, Load(jDur)) = Recovered(homeDur, jDur)
BY DEF Inv, TypeOK, V3Inv, HomeInv, Recovered, Overlay

\* The barrier before the anchor flips: the whole bank is durable.
LEMMA BankFlushInv ==
  ASSUME Inv, BankFlush
  PROVE  Inv'
<1> USE DEF BankFlush, Goto, Flush
<1>1. /\ BankBlocks > 0 /\ img # <<>> /\ jVol[0].kind # "active"
      /\ BankHolds(jVol, TargetBank(jVol[0]), img, BankBlocks)
      /\ jVol[0] = jDur[0] /\ Sound(jVol)
  BY DEF Inv, V3Inv, PublishingV3, AnchorInv, CommitFlush
<1>2. /\ Overlay(homeVol, img) = goal
      /\ Overlay(homeVol, Load(jDur)) = Recovered(homeDur, jDur)
  BY V3FlushAgree DEF PublishingV3
<1>3. TypeOK'
  BY DEF Inv, TypeOK, Label
<1>4. AnchorInv'
  <2>1. Sound(jVol)' /\ Sound(jDur)' /\ jVol' = jDur' /\ homeVol' = homeDur'
    BY <1>1 DEF Sound
  <2> QED
    BY <2>1 DEF AnchorInv
<1>5. HomeInv'
  BY DEF HomeInv
<1>6. AllOrNothing'
  BY <1>1, <1>2 DEF Inv, AllOrNothing, Recovered, Load
<1>7. V3Inv'
  BY <1>1, <1>2 DEF V3Inv, PublishingV3, BankHolds
<1>8. V2Inv' /\ ReplayInv' /\ CollapseInv'
  BY DEF V2Inv, ReplayInv, CollapseInv, PublishingV2
<1> QED
  BY <1>3, <1>4, <1>5, <1>6, <1>7, <1>8 DEF Inv

\* The flipped anchor may reach the medium at once: its bank is there already.
LEMMA AnchorStepInv ==
  ASSUME Inv, Anchor
  PROVE  Inv'
<1> USE DEF Anchor, Goto
<1> DEFINE t == TargetBank(jVol[0])
           a == SnapshotAnchor(img, t)
<1>1. /\ BankBlocks > 0 /\ img # <<>> /\ jVol[0].kind # "active"
      /\ BankHolds(jVol, t, img, BankBlocks)
      /\ jVol[0] = jDur[0] /\ Sound(jVol) /\ Sound(jDur)
      /\ \A i \in JIndex \ {0} : jVol[i] = jDur[i]
      /\ Overlay(homeDur, img) = goal
      /\ \A b \in Home : homeVol[b] # homeDur[b] => b \in BlocksOf(img)
  BY DEF Inv, V3Inv, PublishingV3, AnchorInv, CommitFlush, Staged
<1>2. t \in {0, 1}
  BY <1>1, TargetIsOther
<1>3. a \in JBlock /\ a.log = img /\ a.kind = "snapshot" /\ a.at = t
  BY <1>1, <1>2, BlockTypes DEF Inv, TypeOK, SnapshotAnchor
<1>4. /\ jVol \in [JIndex -> JBlock] /\ jDur \in [JIndex -> JBlock]
      /\ jVol' = [jVol EXCEPT ![0] = a]
      /\ jDur' = jDur \/ jDur' = [jDur EXCEPT ![0] = a]
      /\ WriteThrough => jDur' = [jDur EXCEPT ![0] = a]
      /\ homeVol' = homeVol /\ homeDur' = homeDur
  BY DEF WriteJournal, Inv, TypeOK
<1>5. TypeOK'
  BY <1>3, AnchorPlace, WriteJournalType DEF Inv, TypeOK, Label
<1> HIDE DEF a, t
<1>6. /\ jVol'[0] = a /\ (jDur' = jDur \/ jDur'[0] = a)
      /\ \A i \in JIndex \ {0} : jVol'[i] = jVol[i] /\ jDur'[i] = jVol[i]
  BY <1>1, <1>4, AnchorPlace
<1>7. \A i \in 0 .. BankBlocks - 1 : BankStart(t) + i \in JIndex \ {0}
  BY <1>2, BankPlaces
<1>8. Sound(jVol') /\ Sound(jDur')
  <2>1. /\ \A i \in 0 .. BankBlocks - 1 : jVol'[BankStart(t) + i] = BankBlock(img, i)
        /\ \A i \in 0 .. BankBlocks - 1 : jDur'[BankStart(t) + i] = BankBlock(img, i)
    BY <1>1, <1>6, <1>7 DEF BankHolds
  <2>2. Sound(jVol')
    BY <1>1, <1>2, <1>3, <1>6, <2>1 DEF Sound
  <2>3. CASE jDur' = jDur
    BY <1>1, <2>2, <2>3
  <2>4. CASE jDur'[0] = a
    <3>1. Sound(jDur')
      BY <1>1, <1>2, <1>3, <2>1, <2>4 DEF Sound
    <3> QED
      BY <2>2, <3>1
  <2> QED
    BY <1>6, <2>2, <2>3, <2>4
<1>9. AnchorInv'
  BY <1>4, <1>6, <1>8 DEF Inv, AnchorInv, CommitFlush, Staged
<1>10. HomeInv' /\ AllOrNothing'
  <2>1. CASE jDur' = jDur
    BY <1>4, <2>1 DEF Inv, HomeInv, AllOrNothing, Recovered, Load
  <2>2. CASE jDur'[0] = a
    <3>1. Load(jDur') = img
      BY <1>3, <2>2 DEF Load
    <3> QED
      BY <1>1, <1>4, <3>1 DEF HomeInv, AllOrNothing, Recovered
  <2> QED
    BY <1>6, <2>1, <2>2
<1>11. V3Inv'
  BY <1>1, <1>3, <1>4, <1>6 DEF V3Inv, PublishingV3
<1>12. V2Inv' /\ ReplayInv' /\ CollapseInv'
  BY DEF V2Inv, ReplayInv, CollapseInv, PublishingV2
<1> QED
  BY <1>5, <1>9, <1>10, <1>11, <1>12 DEF Inv

\* The flush that ends a retained publication.
LEMMA AnchorFlushInv ==
  ASSUME Inv, AnchorFlush
  PROVE  Inv'
<1> USE DEF AnchorFlush, Flush, Return, Idle
<1>1. /\ Load(jVol) = img /\ Sound(jVol)
  BY DEF Inv, V3Inv, PublishingV3, AnchorInv, Load
<1>2. Overlay(homeVol, img) = goal
  BY V3FlushAgree DEF PublishingV3
<1>3. TypeOK'
  BY SizeAssumption DEF Inv, TypeOK, Label, Call
<1>4. AnchorInv'
  <2>1. Sound(jVol)' /\ Sound(jDur)' /\ jVol' = jDur' /\ homeVol' = homeDur'
    BY <1>1 DEF Sound
  <2> QED
    BY <2>1 DEF AnchorInv
<1>5. HomeInv'
  BY DEF HomeInv
<1>6. AllOrNothing'
  BY <1>1, <1>2 DEF AllOrNothing, Recovered, Load
<1>7. V2Inv' /\ ReplayInv' /\ CollapseInv' /\ V3Inv'
  BY DEF V2Inv, ReplayInv, CollapseInv, V3Inv, PublishingV2, PublishingV3
<1> QED
  BY <1>3, <1>4, <1>5, <1>6, <1>7 DEF Inv

(***************************************************************************)
(* The device on its own, and faults.                                      *)
(***************************************************************************)
\* A home block that persists early is covered by the durable log.
LEMMA PersistHomeInv ==
  ASSUME Inv, NEW b \in Home, PersistHome(b)
  PROVE  Inv'
<1> USE DEF PersistHome
<1>1. /\ homeVol \in [Home -> Value] /\ homeDur \in [Home -> Value]
      /\ homeVol # homeDur /\ b \in BlocksOf(Load(jDur))
  BY DEF Inv, TypeOK, HomeInv
<1>2. /\ homeDur' \in [Home -> Value]
      /\ \A d \in Home : homeDur'[d] = homeDur[d] \/ d = b
      /\ homeDur'[b] = homeVol[b]
  BY <1>1
<1>3. Recovered(homeDur', jDur') = Recovered(homeDur, jDur)
  BY <1>1, <1>2 DEF Recovered, Load, Overlay
<1>4. TypeOK'
  BY <1>2 DEF Inv, TypeOK
<1>5. AnchorInv'
  BY <1>1 DEF Inv, AnchorInv, Sound, CommitFlush, Staged
<1>6. HomeInv'
  BY <1>2 DEF Inv, HomeInv, Load
<1>7. V2Inv' /\ CollapseInv'
  BY <1>1 DEF Inv, V2Inv, CollapseInv, PublishingV2
<1>8. ReplayInv'
  <2>1. Recovered(homeDur, jDur)' = Recovered(homeDur, jDur)
    BY <1>3
  <2> QED
    BY <2>1 DEF Inv, ReplayInv, Load
<1>9. V3Inv'
  <2> SUFFICES ASSUME PublishingV3 PROVE V3Inv'
    BY DEF V3Inv, PublishingV3
  <2>1. b \in BlocksOf(img)
    BY <1>1 DEF Inv, V3Inv
  <2>2. Overlay(homeDur', img) = Overlay(homeDur, img)
    BY <1>1, <1>2, <2>1 DEF Overlay
  <2>3. \A d \in Home : homeVol'[d] # homeDur'[d] => d \in BlocksOf(img')
    BY <1>2 DEF Inv, V3Inv
  <2> QED
    BY <2>2, <2>3 DEF Inv, V3Inv, PublishingV3, BankHolds
<1>10. AllOrNothing'
  <2>1. Recovered(homeDur, jDur)' = Recovered(homeDur, jDur)
    BY <1>3
  <2> QED
    BY <2>1 DEF Inv, AllOrNothing
<1> QED
  BY <1>4, <1>5, <1>6, <1>7, <1>8, <1>9, <1>10 DEF Inv

\* A journal block that persists early is an anchor with its payload durable,
\* or a payload block that no durable anchor covers differently.
LEMMA PersistJournalInv ==
  ASSUME Inv, NEW i \in JIndex, PersistJournal(i)
  PROVE  Inv'
<1> USE DEF PersistJournal
<1>1. /\ jVol \in [JIndex -> JBlock] /\ jDur \in [JIndex -> JBlock]
      /\ ~WriteThrough /\ Sound(jVol) /\ Sound(jDur)
  BY DEF Inv, TypeOK, AnchorInv
<1>2. TypeOK'
  BY <1>1 DEF Inv, TypeOK
<1>3. /\ jDur' \in [JIndex -> JBlock] /\ jDur'[i] = jVol[i]
      /\ \A m \in JIndex : m # i => jDur'[m] = jDur[m]
  BY <1>1
<1>4. CASE i = 0
  <2>1. pc \in CommitFlush /\ (Staged \/ pc = "collapseFlush")
    BY <1>4 DEF Inv, AnchorInv, Staged, CommitFlush
  <2>2. jDur'[0] = jVol[0]
    BY <1>3, <1>4
  <2>a. ASSUME Staged PROVE jDur' = jVol
    <3>1. \A m \in JIndex : jDur'[m] = jVol[m]
      BY <1>3, <1>4, <2>a DEF Inv, AnchorInv
    <3> QED
      BY <1>1, <1>3, <3>1
  <2>3. AnchorInv'
    <3>1. CASE Staged
      BY <1>1, <2>a, <3>1 DEF AnchorInv, Sound, Staged
    <3>2. CASE pc = "collapseFlush"
      <4>1. jVol[0] = EmptyAnchor
        BY <3>2 DEF Inv, CollapseInv
      <4>2. Sound(jDur') /\ Backed(jDur'[0], jVol)
        BY <2>2, <4>1 DEF Sound, EmptyAnchor, Backed
      <4> QED
        BY <1>1, <2>2, <3>2, <4>2 DEF AnchorInv, Sound, Staged, Backed, TailHolds,
                                      BankHolds
    <3> QED
      BY <2>1, <3>1, <3>2
  <2>4. /\ \A b \in Home : homeVol[b] # homeDur[b] => b \in BlocksOf(Load(jVol))
        /\ Overlay(homeDur, Load(jVol)) = goal
    <3>1. CASE pc = "activeFlush"
      BY <3>1 DEF Inv, V2Inv, PublishingV2, Load, ActiveAnchor
    <3>2. CASE pc = "anchorFlush"
      BY <3>2 DEF Inv, V3Inv, PublishingV3, Load
    <3>3. CASE pc = "collapseFlush"
      <4>1. homeVol = homeDur /\ homeDur = goal /\ Load(jVol) = <<>>
        BY <3>3 DEF Inv, CollapseInv, Load, EmptyAnchor
      <4>2. Overlay(homeDur, <<>>) = homeDur
        BY OverlayEmpty DEF Inv, TypeOK
      <4> QED
        BY <4>1, <4>2
    <3> QED
      BY <2>1, <3>1, <3>2, <3>3 DEF CommitFlush
  <2>5. HomeInv' /\ AllOrNothing'
    BY <2>2, <2>4 DEF HomeInv, AllOrNothing, Recovered, Load
  <2>6. V2Inv' /\ V3Inv'
    BY DEF Inv, V2Inv, V3Inv, PublishingV2, PublishingV3, TailHolds, BankHolds
  <2>7. CollapseInv'
    <3>1. pc = "collapseFlush" => homeDur = goal
      BY DEF Inv, CollapseInv
    <3>2. Recovered(homeDur, jDur)' = goal
      BY <2>2, <2>4 DEF Recovered, Load
    <3> QED
      BY <2>1, <3>1, <3>2 DEF Inv, CollapseInv, CommitFlush
  <2>8. ReplayInv'
    BY <2>1 DEF ReplayInv, CommitFlush
  <2> QED
    BY <1>2, <2>3, <2>5, <2>6, <2>7, <2>8 DEF Inv
<1>5. CASE i # 0
  <2>1. ~Staged
    BY <1>5 DEF Inv, AnchorInv
  <2>2. jDur'[0] = jDur[0]
    BY <1>3, <1>5, AnchorPlace
  <2>a. pc = "collapseFlush" \/ jVol[0] = jDur[0]
    BY <2>1 DEF Inv, AnchorInv, Staged, CommitFlush
  <2>b. Backed(jDur[0], jVol)
    <3>1. CASE pc = "collapseFlush"
      BY <3>1 DEF Inv, AnchorInv
    <3>2. CASE jVol[0] = jDur[0]
      BY <1>1, <3>2 DEF Sound, Backed, TailHolds, BankHolds
    <3> QED
      BY <2>a, <3>1, <3>2
  <2>3. Sound(jDur')
    <3>1. ASSUME jDur[0].kind = "active"
          PROVE  \A m \in 1 .. JournalBlocks - 1 :
                    jDur'[m] = TailBlock(jDur[0].log, m)
      BY <1>1, <1>3, <2>b, <3>1, SizeAssumption DEF Sound, Backed, TailHolds, JIndex
    <3>2. ASSUME jDur[0].kind = "snapshot"
          PROVE  \A m \in 0 .. BankBlocks - 1 :
                    jDur'[BankStart(jDur[0].at) + m] = BankBlock(jDur[0].log, m)
      <4> SUFFICES ASSUME NEW m \in 0 .. BankBlocks - 1
                   PROVE  jDur'[BankStart(jDur[0].at) + m] = BankBlock(jDur[0].log, m)
        OBVIOUS
      <4>1. BankStart(jDur[0].at) + m \in JIndex
        BY <1>1, <3>2, BankPlaces DEF Sound
      <4>2. /\ jVol[BankStart(jDur[0].at) + m] = BankBlock(jDur[0].log, m)
            /\ jDur[BankStart(jDur[0].at) + m] = BankBlock(jDur[0].log, m)
        BY <1>1, <2>b, <3>2 DEF Sound, Backed, BankHolds
      <4> QED
        BY <1>3, <4>1, <4>2
    <3> QED
      BY <1>1, <2>2, <3>1, <3>2 DEF Sound
  <2>4. AnchorInv'
    <3>1. Backed(jDur'[0], jVol') /\ Sound(jVol')
      BY <1>1, <2>2, <2>b DEF Backed, TailHolds, BankHolds, Sound
    <3>2. (pc' \notin CommitFlush => jVol'[0] = jDur'[0]) /\ ~Staged'
      BY <2>1, <2>2, <2>a DEF CommitFlush, Staged
    <3> QED
      BY <1>1, <2>3, <3>1, <3>2 DEF AnchorInv
  <2>5. Load(jDur)' = Load(jDur) /\ Recovered(homeDur, jDur)' = Recovered(homeDur, jDur)
    BY <2>2 DEF Load, Recovered
  <2>6. HomeInv' /\ AllOrNothing'
    BY <2>5 DEF Inv, HomeInv, AllOrNothing
  <2>7. V2Inv' /\ V3Inv'
    BY DEF Inv, V2Inv, V3Inv, PublishingV2, PublishingV3, TailHolds, BankHolds
  <2>8. ReplayInv' /\ CollapseInv'
    BY <2>5 DEF Inv, ReplayInv, CollapseInv, Load
  <2> QED
    BY <1>2, <2>4, <2>6, <2>7, <2>8 DEF Inv
<1> QED
  BY <1>4, <1>5

\* After a crash both views are the durable one, which was sound.
LEMMA CrashInv ==
  ASSUME Inv, Crash
  PROVE  Inv'
<1> USE DEF Crash, Idle
<1>1. TypeOK'
  BY SizeAssumption DEF Inv, TypeOK, Label, Call
<1>2. AnchorInv'
  <2>1. Sound(jVol)' /\ Sound(jDur)' /\ jVol' = jDur' /\ homeVol' = homeDur'
    BY DEF Inv, AnchorInv, Sound
  <2> QED
    BY <2>1 DEF AnchorInv
<1>3. HomeInv'
  BY DEF HomeInv
<1>4. AllOrNothing'
  BY DEF Inv, AllOrNothing, Recovered, Load
<1>5. V2Inv' /\ ReplayInv' /\ CollapseInv' /\ V3Inv'
  BY DEF V2Inv, ReplayInv, CollapseInv, V3Inv, PublishingV2, PublishingV3
<1> QED
  BY <1>1, <1>2, <1>3, <1>4, <1>5 DEF Inv

\* A failed call leaves the device as it was, between two anchors.
LEMMA FailInv ==
  ASSUME Inv, Fail
  PROVE  Inv'
<1> USE DEF Fail, Idle, device
<1>1. TypeOK'
  BY SizeAssumption DEF Inv, TypeOK, Label, Call
<1>2. AnchorInv'
  <2>1. jVol[0] = jDur[0]
    BY DEF Inv, AnchorInv
  <2> QED
    BY <2>1 DEF Inv, AnchorInv, Sound, CommitFlush, Staged
<1>3. HomeInv'
  BY DEF Inv, HomeInv, Load
<1>4. AllOrNothing'
  BY DEF Inv, AllOrNothing, Recovered, Load
<1>5. V2Inv' /\ ReplayInv' /\ CollapseInv' /\ V3Inv'
  BY DEF V2Inv, ReplayInv, CollapseInv, V3Inv, PublishingV2, PublishingV3
<1> QED
  BY <1>1, <1>2, <1>3, <1>4, <1>5 DEF Inv

\* The invariant speaks of the variables only.
LEMMA StutterInv ==
  ASSUME Inv, UNCHANGED vars
  PROVE  Inv'
BY DEF Inv, vars, TypeOK, AnchorInv, HomeInv, V2Inv, ReplayInv, CollapseInv, V3Inv,
       AllOrNothing, Sound, CommitFlush, Staged, Backed, PublishingV2, PublishingV3,
       TailHolds, BankHolds, Recovered, Load

(***************************************************************************)
(* The theorems.                                                           *)
(***************************************************************************)
\* Every step of the log keeps the invariant.
LEMMA NextInv ==
  ASSUME Inv, [Next]_vars, ~StaleCalls
  PROVE  Inv'
<1>1. ASSUME NEW t \in Tx, NEW c \in {"tx", "txCheckpoint"}, BeginTx(t, c)
      PROVE  Inv'
  BY <1>1, BeginTxInv
<1>2. ASSUME NoOpTx PROVE Inv'
  BY <1>2, NoOpTxInv
<1>3. ASSUME NEW t \in Tx, BeginAppend(t) PROVE Inv'
  BY <1>3, BeginAppendInv
<1>4. ASSUME NEW c \in {"recover", "recoverCheckpoint"}, BeginRecover(c)
      PROVE  Inv'
  BY <1>4, BeginRecoverInv
<1>5. ASSUME BeginChecked \/ BeginCheckpoint PROVE Inv'
  BY <1>5, BeginCheckedInv, BeginCheckpointInv
<1>6. ASSUME NEW n \in DOMAIN Load(jVol), BeginPrefix(n) PROVE Inv'
  BY <1>6, BeginPrefixInv
<1>7. CASE Step
  BY <1>7, ClearInv, ClearFlushInv, StageTailInv, TailFlushInv, ActiveInv,
     ActiveFlushInv, ReplayStepInv, ReplayFlushInv, CollapseStepInv,
     CollapseFlushInv, BankInv, BankFlushInv, AnchorStepInv, AnchorFlushInv
     DEF Step
<1>8. CASE Persist
  BY <1>8, PersistHomeInv, PersistJournalInv DEF Persist
<1>9. CASE Crash \/ Fail
  BY <1>9, CrashInv, FailInv
<1>10. CASE UNCHANGED vars
  BY <1>10, StutterInv
<1> QED
  BY <1>1, <1>2, <1>3, <1>4, <1>5, <1>6, <1>7, <1>8, <1>9, <1>10 DEF Next, Begin

\* The inductive invariant holds in every reachable state of a device that
\* was formatted by this code and whose primitives run on a drained journal.
THEOREM InvAlways ==
  ASSUME ~ZeroedJournal, ~StaleCalls
  PROVE  Spec => []Inv
<1>1. Init => Inv
  BY InitInv
<1>2. Inv /\ [Next]_vars => Inv'
  BY NextInv
<1> QED
  BY <1>1, <1>2, PTL DEF Spec

\* Every loop of publication, replay and bank writing stays in its bounds, for
\* every reservation size and every log (write_region_block, write_v3_bank).
THEOREM TypeAlways ==
  ASSUME ~ZeroedJournal, ~StaleCalls
  PROVE  Spec => []TypeOK
<1>1. Inv => TypeOK
  BY DEF Inv
<1> QED
  BY <1>1, InvAlways, PTL

\* load_journal_image never rejects a reservation that only this code wrote,
\* whatever blocks reached the medium before a crash.
THEOREM DecodableAlways ==
  ASSUME ~ZeroedJournal, ~StaleCalls
  PROVE  Spec => []JournalDecodable
<1>1. Inv => JournalDecodable
  BY SoundDecodes DEF Inv, AnchorInv, JournalDecodable
<1> QED
  BY <1>1, InvAlways, PTL

\* Crash atomicity: what recovery rebuilds from the durable image is the store
\* before the running call or the store the call asked for.
THEOREM AtomicityAlways ==
  ASSUME ~ZeroedJournal, ~StaleCalls
  PROVE  Spec => []AllOrNothing
<1>1. Inv => AllOrNothing
  BY DEF Inv
<1> QED
  BY <1>1, InvAlways, PTL

\* Durability of an acknowledged call (store_journal_image + recover_journal).
THEOREM AckedAlways ==
  ASSUME ~ZeroedJournal, ~StaleCalls
  PROVE  Spec => []AckedPersists
<1>1. Inv => AckedPersists
  BY DEF Inv, AllOrNothing, AckedPersists
<1> QED
  BY <1>1, InvAlways, PTL

\* Between calls the running instance and a rebooted one agree on the store.
THEOREM FreshBaseAlways ==
  ASSUME ~ZeroedJournal, ~StaleCalls
  PROVE  Spec => []FreshBase
<1>1. Inv => FreshBase
  BY IdleAgree DEF FreshBase
<1> QED
  BY <1>1, InvAlways, PTL

(***************************************************************************)
(* Checked recovery and prefix checkpoints end on an accepted image.       *)
(***************************************************************************)
\* A call that had its projection checked: while it replays, home is on its way
\* to the accepted image; once the home flush is done, home is that image, in
\* both views; and it asks for no other store than the one it found.
CheckedInv == call \in {"checked", "prefix"} =>
  /\ before = goal
  /\ pc \in {"replay", "replayFlush", "collapse", "collapseFlush", "bank",
             "bankFlush", "anchor", "anchorFlush"}
  /\ pc \in {"replay", "replayFlush"} => Overlay(homeVol, plan) \in Clean
  /\ pc \notin {"replay", "replayFlush"} => homeVol = homeDur /\ homeVol \in Clean

\* One home write of the plan does not change what the plan makes of home.
LEMMA ReplayKeepsProjection ==
  ASSUME Inv, Replay
  PROVE  Overlay(homeVol, plan)' = Overlay(homeVol, plan)
<1>0. k \in 1 .. Len(plan) /\ plan \in Seq(Write) /\ plan' = plan
  BY DEF Inv, ReplayInv, TypeOK, Replay
<1>1. plan[k] \in Write
  BY <1>0, ElementOfSeq
<1>2. plan[k].block \in BlocksOf(plan)
  BY <1>0, LenProperties DEF BlocksOf
<1>3. /\ homeVol \in [Home -> Value]
      /\ homeVol' = [homeVol EXCEPT ![plan[k].block] = plan[k].val]
  BY DEF Inv, TypeOK, Replay, WriteHome
<1>4. homeVol' \in [Home -> Value]
  BY <1>1, <1>3 DEF Write
<1>5. \A b \in Home : homeVol'[b] # homeVol[b] => b \in BlocksOf(plan)
  BY <1>2, <1>3
<1>6. Overlay(homeVol', plan) = Overlay(homeVol, plan)
  BY <1>3, <1>4, <1>5 DEF Overlay
<1> QED
  BY <1>0, <1>6

\* Every step keeps it: fsck's verdict on the projection is still true of home
\* when the log is cut.
LEMMA CheckedStep ==
  ASSUME Inv, CheckedInv, [Next]_vars
  PROVE  CheckedInv'
<1>1. ASSUME Begin PROVE CheckedInv'
  <2>1. ASSUME NEW t \in Tx, NEW c \in {"tx", "txCheckpoint"}, BeginTx(t, c)
        PROVE  CheckedInv'
    BY <2>1 DEF BeginTx, CheckedInv
  <2>2. ASSUME NoOpTx PROVE CheckedInv'
    BY <2>2 DEF NoOpTx, CheckedInv
  <2>3. ASSUME NEW t \in Tx, BeginAppend(t) PROVE CheckedInv'
    BY <2>3 DEF BeginAppend, CheckedInv
  <2>4. ASSUME NEW c \in {"recover", "recoverCheckpoint"}, BeginRecover(c)
        PROVE  CheckedInv'
    BY <2>4 DEF BeginRecover, BeginReplay, CheckedInv
  <2>5. ASSUME BeginCheckpoint PROVE CheckedInv'
    BY <2>5 DEF BeginCheckpoint, CheckedInv
  <2>6. ASSUME BeginChecked PROVE CheckedInv'
    BY <2>6 DEF BeginChecked, BeginReplay, CheckedInv, device
  <2>7. ASSUME NEW n \in DOMAIN Load(jVol), BeginPrefix(n) PROVE CheckedInv'
    BY <2>7 DEF BeginPrefix, BeginReplay, CheckedInv, device
  <2> QED
    BY <1>1, <2>1, <2>2, <2>3, <2>4, <2>5, <2>6, <2>7 DEF Begin
<1>2. ASSUME Clear \/ ClearFlush \/ StageTail \/ TailFlush \/ Active \/ ActiveFlush
      PROVE  CheckedInv'
  BY <1>2 DEF CheckedInv, Clear, ClearFlush, StageTail, TailFlush, Active,
              ActiveFlush, Goto
<1>3. ASSUME Replay PROVE CheckedInv'
  BY <1>3, ReplayKeepsProjection DEF CheckedInv, Replay, Goto
<1>4. ASSUME ReplayFlush PROVE CheckedInv'
  <2>1. Overlay(homeVol, plan) = homeVol
    BY <1>4, ReplayDone DEF ReplayFlush
  <2>2. CASE KeepsLog(call)
    BY <1>4, <2>2 DEF CheckedInv, ReplayFlush, Return, Idle
  <2>3. CASE ~KeepsLog(call)
    BY <1>4, <2>1, <2>3 DEF CheckedInv, ReplayFlush, Flush, CutLog, Goto
  <2> QED
    BY <2>2, <2>3
<1>5. ASSUME Collapse \/ Bank \/ BankFlush \/ Anchor PROVE CheckedInv'
  BY <1>5 DEF CheckedInv, Collapse, Bank, BankFlush, Anchor, Goto, Flush,
              WriteJournal
<1>6. ASSUME CollapseFlush \/ AnchorFlush \/ Crash \/ Fail PROVE CheckedInv'
  BY <1>6 DEF CheckedInv, CollapseFlush, AnchorFlush, Crash, Fail, Return, Idle
<1>7. ASSUME Persist PROVE CheckedInv'
  <2>1. ASSUME NEW b \in Home, PersistHome(b) PROVE CheckedInv'
    BY <2>1 DEF CheckedInv, PersistHome
  <2>2. ASSUME NEW i \in JIndex, PersistJournal(i) PROVE CheckedInv'
    BY <2>2 DEF CheckedInv, PersistJournal
  <2> QED
    BY <1>7, <2>1, <2>2 DEF Persist
<1>8. ASSUME UNCHANGED vars PROVE CheckedInv'
  BY <1>8 DEF CheckedInv, vars
<1> QED
  BY <1>1, <1>2, <1>3, <1>4, <1>5, <1>6, <1>7, <1>8 DEF Next, Step

\* recover_journal_and_checkpoint_checked and recover_retained_prefix_and_checkpoint
\* return Ok only with a home image that fsck accepts and a log that is empty or
\* leads from that image to the store the caller knew, for every log, split and
\* order of persistence.
THEOREM CheckedAlways ==
  ASSUME ~ZeroedJournal, ~StaleCalls
  PROVE  Spec => CheckedEndsClean
<1> DEFINE Ends == /\ CollapseFlush /\ call \in {"checked", "prefix"}
                         => homeDur' \in Clean /\ Load(jDur') = <<>>
                   /\ AnchorFlush /\ call = "prefix"
                         => homeDur' \in Clean /\ Recovered(homeDur', jDur') = before
<1>1. Init => CheckedInv
  BY DEF Init, CheckedInv
<1>2. Inv /\ CheckedInv /\ [Next]_vars => CheckedInv'
  BY CheckedStep
<1>3. Inv /\ CheckedInv => Ends
  <2> SUFFICES ASSUME Inv, CheckedInv PROVE Ends
    OBVIOUS
  <2>1. ASSUME CollapseFlush, call \in {"checked", "prefix"}
        PROVE  homeDur' \in Clean /\ Load(jDur') = <<>>
    BY <2>1 DEF CollapseFlush, Flush, Inv, CollapseInv, CheckedInv, Load, EmptyAnchor
  <2>2. ASSUME AnchorFlush, call = "prefix"
        PROVE  homeDur' \in Clean /\ Recovered(homeDur', jDur') = before
    <3>1. Overlay(homeVol, img) = goal
      BY <2>2, V3FlushAgree DEF AnchorFlush, PublishingV3
    <3>2. Load(jVol) = img
      BY <2>2 DEF Inv, V3Inv, PublishingV3, AnchorFlush, Load
    <3> QED
      BY <2>2, <3>1, <3>2 DEF AnchorFlush, Flush, CheckedInv, Recovered
  <2> QED
    BY <2>1, <2>2
<1>4. Spec => [](Inv /\ CheckedInv)
  BY <1>1, <1>2, InvAlways, PTL DEF Spec
<1>5. Spec => [][Ends]_vars
  BY <1>3, <1>4, PTL
<1> QED
  BY <1>5 DEF CheckedEndsClean

(***************************************************************************)
(* The log implements the atomic store: every device operation, early      *)
(* persistence, crash and failure is a Submit, a Commit, a Drop or a       *)
(* stuttering step of AtomicStore.                                         *)
(***************************************************************************)
\* The store as recovery would rebuild it, and the store asked for.
Store == Recovered(homeDur, jDur)
Target == IF Publishing THEN goal ELSE Store

\* While an image is being published, the outstanding store is the goal.
LEMMA TargetIsGoal ==
  ASSUME Inv
  PROVE  Target = IF Publishing THEN Overlay(homeDur, img) ELSE Store
BY DEF Inv, V2Inv, V3Inv, PublishingV2, PublishingV3, Publishing, Target

\* The store depends on the journal through its anchor alone.
LEMMA SameStore ==
  ASSUME homeDur' = homeDur, jDur'[0] = jDur[0]
  PROVE  Store' = Store
BY DEF Store, Recovered, Load

\* A flush that makes no anchor durable leaves the store alone: the home
\* blocks it makes durable are covered by the log.
LEMMA FlushKeepsStore ==
  ASSUME Inv, Flush, pc \notin CommitFlush
  PROVE  Store' = Store
<1>1. jDur'[0] = jDur[0] /\ homeDur' = homeVol
  BY DEF Flush, Inv, AnchorInv
<1>2. /\ homeVol \in [Home -> Value] /\ homeDur \in [Home -> Value]
      /\ \A b \in Home : homeVol[b] # homeDur[b] => b \in BlocksOf(Load(jDur))
  BY DEF Inv, TypeOK, HomeInv
<1>3. Overlay(homeVol, Load(jDur)) = Overlay(homeDur, Load(jDur))
  BY <1>2 DEF Overlay
<1> QED
  BY <1>1, <1>3 DEF Store, Recovered, Load

\* Writing a payload block leaves the store alone.
LEMMA PayloadKeepsStore ==
  ASSUME Inv, NEW i \in JIndex \ {0}, NEW blk, WriteJournal(i, blk)
  PROVE  Store' = Store
<1>1. jDur \in [JIndex -> JBlock] /\ 0 \in JIndex
  BY AnchorPlace DEF Inv, TypeOK
<1>2. jDur'[0] = jDur[0] /\ homeDur' = homeDur
  BY <1>1 DEF WriteJournal
<1> QED
  BY <1>2, SameStore

\* Writing the anchor of the published log commits it or changes nothing yet.
LEMMA AnchorCommits ==
  ASSUME Inv, Publishing, NEW blk \in JBlock, blk.log = img, WriteJournal(0, blk)
  PROVE  Store' \in {Store, goal}
<1>1. jDur \in [JIndex -> JBlock] /\ 0 \in JIndex
  BY AnchorPlace DEF Inv, TypeOK
<1>2. homeDur' = homeDur /\ (jDur'[0] = jDur[0] \/ jDur'[0] = blk)
  BY <1>1 DEF WriteJournal
<1>3. CASE jDur'[0] = jDur[0]
  BY <1>2, <1>3, SameStore
<1>4. CASE jDur'[0] = blk
  <2>1. Overlay(homeDur, img) = goal
    BY DEF Inv, V2Inv, V3Inv, PublishingV2, PublishingV3, Publishing
  <2> QED
    BY <1>2, <1>4, <2>1 DEF Store, Recovered, Load
<1> QED
  BY <1>2, <1>3, <1>4

\* A step of the outstanding transaction: it commits, or nothing happens.
CommitOrStutter == Store' \in {Store, Target} /\ Target' = Target

\* Publication: only an anchor changes the store, and only to the goal.
LEMMA PublishStep ==
  ASSUME Inv, Publishing, Publishing', goal' = goal, Store' \in {Store, goal}
  PROVE  CommitOrStutter
BY DEF CommitOrStutter, Target

\* Outside publication the store is the goal and stays it.
LEMMA SettledStep ==
  ASSUME Inv, ~Publishing, ~Publishing', Store' = Store
  PROVE  CommitOrStutter
BY DEF CommitOrStutter, Target

\* The steps of store_journal_image up to the active anchor.
LEMMA V2Steps ==
  ASSUME Inv, Clear \/ ClearFlush \/ StageTail \/ TailFlush \/ Active
  PROVE  CommitOrStutter
<1>1. Publishing /\ Publishing' /\ goal' = goal
  BY DEF Clear, ClearFlush, StageTail, TailFlush, Active, Goto, Publishing
<1>2. ASSUME Clear PROVE Store' = Store
  <2>1. jDur[0] = EmptyAnchor /\ jDur \in [JIndex -> JBlock] /\ 0 \in JIndex
    BY <1>2, AnchorPlace DEF Clear, Inv, V2Inv, PublishingV2, AnchorInv, CommitFlush, TypeOK
  <2>2. jDur'[0] = jDur[0] /\ homeDur' = homeDur
    BY <1>2, <2>1 DEF Clear, WriteJournal
  <2> QED
    BY <2>2, SameStore
<1>3. ASSUME ClearFlush \/ TailFlush PROVE Store' = Store
  BY <1>3, FlushKeepsStore DEF ClearFlush, TailFlush, CommitFlush
<1>4. ASSUME StageTail PROVE Store' = Store
  <2>1. k \in JIndex \ {0} /\ WriteJournal(k, TailBlock(img, k))
    BY <1>4, SizeAssumption DEF StageTail, Inv, V2Inv, PublishingV2, JIndex
  <2> QED
    BY <2>1, PayloadKeepsStore
<1>5. ASSUME Active PROVE Store' \in {Store, goal}
  <2>1. ActiveAnchor(img) \in JBlock /\ ActiveAnchor(img).log = img
    BY BlockTypes DEF Inv, TypeOK, ActiveAnchor
  <2> QED
    BY <1>1, <1>5, <2>1, AnchorCommits DEF Active
<1>6. Store' \in {Store, goal}
  BY <1>2, <1>3, <1>4, <1>5
<1> QED
  BY <1>1, <1>6, PublishStep

\* The steps of publish_v3_snapshot up to the anchor.
LEMMA V3Steps ==
  ASSUME Inv, Bank \/ BankFlush \/ Anchor
  PROVE  CommitOrStutter
<1>1. Publishing /\ Publishing' /\ goal' = goal
  BY DEF Bank, BankFlush, Anchor, Goto, Publishing
<1>2. TargetBank(jVol[0]) \in {0, 1}
  BY TargetIsOther DEF Inv, AnchorInv
<1>3. ASSUME Bank PROVE Store' = Store
  <2>1. k \in 0 .. BankBlocks - 1
    BY <1>3 DEF Bank, Inv, V3Inv, PublishingV3
  <2>2. BankStart(TargetBank(jVol[0])) + k \in JIndex \ {0}
    BY <1>2, <2>1, BankPlaces
  <2> QED
    BY <1>3, <2>2, PayloadKeepsStore DEF Bank
<1>4. ASSUME BankFlush PROVE Store' = Store
  BY <1>4, FlushKeepsStore DEF BankFlush, CommitFlush
<1>5. ASSUME Anchor PROVE Store' \in {Store, goal}
  <2>1. BankBlocks > 0 /\ img \in Seq(Write)
    BY <1>5 DEF Anchor, Inv, TypeOK, V3Inv, PublishingV3
  <2>2. /\ SnapshotAnchor(img, TargetBank(jVol[0])) \in JBlock
        /\ SnapshotAnchor(img, TargetBank(jVol[0])).log = img
    BY <1>2, <2>1, BlockTypes DEF SnapshotAnchor
  <2> QED
    BY <1>1, <1>5, <2>2, AnchorCommits DEF Anchor
<1>6. Store' \in {Store, goal}
  BY <1>3, <1>4, <1>5
<1> QED
  BY <1>1, <1>6, PublishStep

\* The flush of an anchor ends publication with the goal in the store.
LEMMA CommitSteps ==
  ASSUME Inv, Inv', ActiveFlush \/ AnchorFlush
  PROVE  CommitOrStutter
<1>1. Publishing /\ ~Publishing' /\ goal' = goal
  BY DEF ActiveFlush, AnchorFlush, Goto, Return, Idle, Publishing
<1>2. ASSUME ActiveFlush PROVE Store' = goal
  BY <1>1, <1>2 DEF ActiveFlush, Goto, Inv, ReplayInv, Store
<1>3. ASSUME AnchorFlush PROVE Store' = goal
  BY <1>3 DEF AnchorFlush, Return, Inv, AllOrNothing, Store
<1> QED
  BY <1>1, <1>2, <1>3 DEF CommitOrStutter, Target

\* Replay and the collapse of the log are invisible.
LEMMA ReplaySteps ==
  ASSUME Inv, Inv', Replay \/ ReplayFlush \/ Collapse \/ CollapseFlush
  PROVE  CommitOrStutter
<1>1. ~Publishing /\ goal' = goal /\ Store = goal
  BY DEF Replay, ReplayFlush, Collapse, CollapseFlush, CutLog, Goto, Return,
         Publishing, Inv, ReplayInv, CollapseInv, Store
<1>2. CASE ReplayFlush
  <2>1. Store' = Store
    BY <1>2, FlushKeepsStore DEF ReplayFlush, CommitFlush
  <2>2. Target = goal /\ Target' = goal
    BY <1>1, <2>1 DEF Target
  <2> QED
    BY <2>1, <2>2 DEF CommitOrStutter
<1>3. CASE Replay \/ Collapse
  <2>1. ~Publishing' /\ Store' = goal
    BY <1>1, <1>3 DEF Replay, Collapse, Goto, Publishing, Inv, ReplayInv, CollapseInv, Store
  <2> QED
    BY <1>1, <2>1, SettledStep
<1>4. CASE CollapseFlush
  <2>1. ~Publishing' /\ Store' = goal
    BY <1>4 DEF CollapseFlush, Return, Idle, Publishing, Inv, AllOrNothing, Store
  <2> QED
    BY <1>1, <2>1, SettledStep
<1> QED
  BY <1>2, <1>3, <1>4

\* A block that persists early commits the outstanding transaction when it is
\* the anchor, and is invisible otherwise.
LEMMA PersistSteps ==
  ASSUME Inv, Inv', Persist
  PROVE  CommitOrStutter
<1>1. /\ Publishing' = Publishing /\ goal' = goal
  BY DEF Persist, PersistHome, PersistJournal, Publishing
<1>2. ASSUME NEW b \in Home, PersistHome(b) PROVE Store' = Store
  <2>1. /\ homeVol \in [Home -> Value] /\ homeDur \in [Home -> Value]
        /\ b \in BlocksOf(Load(jDur)) /\ jDur' = jDur
        /\ homeDur' = [homeDur EXCEPT ![b] = homeVol[b]]
    BY <1>2 DEF Inv, TypeOK, HomeInv, PersistHome
  <2>2. Overlay(homeDur', Load(jDur)) = Overlay(homeDur, Load(jDur))
    BY <2>1 DEF Overlay
  <2> QED
    BY <2>1, <2>2 DEF Store, Recovered
<1>3. ASSUME NEW i \in JIndex, PersistJournal(i)
      PROVE  Store' = Store \/ Store' = goal
  <2>1. jDur \in [JIndex -> JBlock] /\ homeDur' = homeDur
    BY <1>3 DEF Inv, TypeOK, PersistJournal
  <2>2. CASE i # 0
    <3>1. jDur'[0] = jDur[0]
      BY <1>3, <2>1, <2>2, AnchorPlace DEF PersistJournal
    <3> QED
      BY <2>1, <3>1, SameStore
  <2>3. CASE i = 0
    <3>1. pc \in CommitFlush /\ jDur'[0] = jVol[0] /\ pc' = pc
      BY <1>3, <2>1, <2>3 DEF PersistJournal, Inv, AnchorInv
    <3>2. CASE pc = "activeFlush"
      BY <2>1, <3>1, <3>2
         DEF Inv, V2Inv, PublishingV2, ActiveAnchor, Store, Recovered, Load
    <3>3. CASE pc = "anchorFlush"
      BY <2>1, <3>1, <3>3 DEF Inv, V3Inv, PublishingV3, Store, Recovered, Load
    <3>4. CASE pc = "collapseFlush"
      BY <1>1, <3>1, <3>4 DEF Inv, CollapseInv, Store
    <3> QED
      BY <3>1, <3>2, <3>3, <3>4 DEF CommitFlush
  <2> QED
    BY <2>2, <2>3
<1>4. Store' = Store \/ Store' = goal
  BY <1>2, <1>3 DEF Persist
<1>5. CASE Publishing
  BY <1>1, <1>4, <1>5, PublishStep
<1>6. CASE ~Publishing
  <2>1. Store' = Store
    <3>1. CASE pc = "collapseFlush"
      <4>1. pc' = pc
        BY DEF Persist, PersistHome, PersistJournal
      <4> QED
        BY <1>1, <3>1, <4>1 DEF Inv, CollapseInv, Store
    <3>2. CASE pc \notin CommitFlush
      <4>1. ASSUME NEW i \in JIndex, PersistJournal(i) PROVE Store' = Store
        <5>1. i # 0 /\ jDur \in [JIndex -> JBlock]
          BY <3>2, <4>1 DEF PersistJournal, Inv, AnchorInv, TypeOK
        <5>2. jDur'[0] = jDur[0] /\ homeDur' = homeDur
          BY <4>1, <5>1, AnchorPlace DEF PersistJournal
        <5> QED
          BY <5>2, SameStore
      <4> QED
        BY <1>2, <4>1 DEF Persist
    <3> QED
      BY <1>6, <3>1, <3>2 DEF CommitFlush, Publishing
  <2> QED
    BY <1>1, <1>6, <2>1, SettledStep
<1> QED
  BY <1>5, <1>6

\* A crash or a failed call drops the outstanding transaction.
LEMMA FaultSteps ==
  ASSUME Crash \/ Fail
  PROVE  Store' = Store /\ Target' = Store
BY DEF Crash, Fail, Idle, device, Store, Target, Publishing, Recovered, Load

\* The calls that publish submit their transaction, from a settled store.
LEMMA SubmitSteps ==
  ASSUME Inv, NEW t \in Tx, BeginAppend(t) \/ \E c \in {"tx", "txCheckpoint"} : BeginTx(t, c)
  PROVE  Target = Store /\ Store' = Store /\ Target' = Overlay(Store, t)
<1>1. pc = "idle" /\ homeDur' = homeDur /\ jDur' = jDur /\ Publishing'
  BY DEF BeginAppend, BeginTx, device, Publishing
<1>2. Target = Store /\ Store' = Store /\ Target' = goal'
  BY <1>1 DEF Target, Publishing, Store
<1>3. /\ jVol[0] = jDur[0] /\ Recovered(homeVol, jVol) = Store
      /\ Load(jVol) = <<>> => homeVol = homeDur
  BY <1>1, IdleAgree DEF Store
<1>4. ASSUME NEW c \in {"tx", "txCheckpoint"}, BeginTx(t, c)
      PROVE  goal' = Overlay(Store, t)
  <2>1. Load(jVol) = <<>> /\ goal' = Overlay(homeVol, t)
    BY <1>4 DEF BeginTx, MayPublishOver
  <2>2. Recovered(homeVol, jVol) = homeVol
    <3>1. homeVol \in [Home -> Value]
      BY DEF Inv, TypeOK
    <3> QED
      BY <2>1, <3>1, OverlayEmpty DEF Recovered
  <2> QED
    BY <1>3, <2>1, <2>2
<1>5. ASSUME BeginAppend(t)
      PROVE  goal' = Overlay(Store, t)
  <2>1. goal' = Overlay(homeVol, Load(jVol) \o t)
    BY <1>5 DEF BeginAppend
  <2>2. /\ Load(jVol) \in LogOver(Home, Value) /\ t \in LogOver(Home, Value)
        /\ homeVol \in [Home -> Value]
    BY LogTypes, TxAssumption DEF Inv, TypeOK
  <2>3. Overlay(homeVol, Load(jVol) \o t) = Overlay(Overlay(homeVol, Load(jVol)), t)
    BY <2>2, OverlayConcat
  <2> QED
    BY <1>3, <2>1, <2>3 DEF Recovered
<1> QED
  BY <1>2, <1>4, <1>5

\* The other calls leave the store and the outstanding store alone.
LEMMA OtherCalls ==
  ASSUME \/ NoOpTx \/ BeginCheckpoint \/ BeginChecked
         \/ \E c \in {"recover", "recoverCheckpoint"} : BeginRecover(c)
         \/ \E n \in DOMAIN Load(jVol) : BeginPrefix(n)
  PROVE  Store' = Store /\ Target' = Target
<1>1. homeDur' = homeDur /\ jDur' = jDur /\ ~Publishing /\ ~Publishing'
  BY DEF NoOpTx, BeginCheckpoint, BeginChecked, BeginRecover, BeginPrefix,
         BeginReplay, device, Publishing
<1> QED
  BY <1>1 DEF Store, Target

\* Every step of the log is a step of the atomic store or a stutter.
LEMMA StepSimulation ==
  ASSUME Inv, Inv', [Next]_vars
  PROVE  \/ \E t \in Tx : Target = Store /\ Target' = Overlay(Store, t) /\ Store' = Store
         \/ Store' = Target /\ Target' = Target
         \/ Target' = Store /\ Store' = Store
         \/ Store' = Store /\ Target' = Target
<1>1. CASE Begin
  BY <1>1, SubmitSteps, OtherCalls DEF Begin
<1>2. CASE Step
  <2>1. CommitOrStutter
    BY <1>2, V2Steps, V3Steps, CommitSteps, ReplaySteps DEF Step
  <2> QED
    BY <2>1 DEF CommitOrStutter
<1>3. CASE Persist
  BY <1>3, PersistSteps DEF CommitOrStutter
<1>4. CASE Crash \/ Fail
  BY <1>4, FaultSteps
<1>5. CASE UNCHANGED vars
  BY <1>5 DEF vars, Store, Target, Publishing, Recovered, Load
<1> QED
  BY <1>1, <1>2, <1>3, <1>4, <1>5 DEF Next

\* The write-ahead log implements the atomic store: transactions are applied
\* whole or dropped, and recovery, checkpointing and bank switching cannot be
\* seen (store_journal_image, recover_journal, checkpoint_journal and
\* append_retained_journal_entries together).
THEOREM Refinement ==
  ASSUME ~ZeroedJournal, ~StaleCalls
  PROVE  Spec => ImplementsAtomicStore
<1> DEFINE st == Recovered(homeDur, jDur)
           tg == IF Publishing THEN Overlay(homeDur, img) ELSE Recovered(homeDur, jDur)
<1>1. Init => Abstract!Init
  <2> SUFFICES ASSUME Init PROVE Abstract!Init
    OBVIOUS
  <2>1. Inv /\ ~Publishing
    BY InitInv DEF Init, Publishing
  <2>2. st \in [Home -> Value]
    BY <2>1, LogTypes DEF Inv
  <2> QED
    BY <2>1, <2>2 DEF Abstract!Init
<1>2. Inv /\ Inv' /\ [Next]_vars => [Abstract!Next]_<<st, tg>>
  <2> SUFFICES ASSUME Inv, Inv', [Next]_vars PROVE [Abstract!Next]_<<st, tg>>
    OBVIOUS
  <2>1. st = Store /\ st' = Store' /\ tg = Target
    BY TargetIsGoal DEF Store
  <2>2. tg' = Target'
    <3>1. (Publishing => Overlay(homeDur, img) = goal)'
      BY DEF Inv, V2Inv, V3Inv, PublishingV2, PublishingV3, Publishing
    <3> QED
      BY <3>1 DEF Target, Store
  <2>3. \/ \E t \in Tx : tg = st /\ tg' = Overlay(st, t) /\ st' = st
        \/ st' = tg /\ tg' = tg
        \/ tg' = st /\ st' = st
        \/ st' = st /\ tg' = tg
    BY <2>1, <2>2, StepSimulation
  <2>4. \A h, t : Abstract!Overlay(h, t) = Overlay(h, t)
    BY DEF Overlay, LastWrite, BlocksOf, Abstract!Overlay, Abstract!LastWrite,
           Abstract!BlocksOf
  <2> QED
    BY <2>3, <2>4 DEF Abstract!Next, Abstract!Submit, Abstract!Commit, Abstract!Drop
<1> QED
  BY <1>1, <1>2, InvAlways, PTL DEF Spec, ImplementsAtomicStore, Abstract!Spec
=============================================================================

