----------------------------- MODULE Mixer_proofs -----------------------------
(***************************************************************************)
(* Proofs about Mixer, for any number of connections, tokens and LEDs: the *)
(* overlays stay in order, no change of theirs is overlooked, and changes  *)
(* wait for their strobe.                                                  *)
(***************************************************************************)
EXTENDS Mixer, WellFoundedInduction, FiniteSetTheorems, SequenceTheorems, TLAPS

(* Where a connection can be while its own overlay is registered, and while it
   writes to the overlay it was assigned *)
Holding == {"ready", "strobe_mixer", "strobe_notify", "free", "free_mixer", "free_remove"}
Strobing == {"strobe_mixer", "strobe_notify"}
Freeing  == {"free", "free_mixer", "free_remove", "free_notify"}

(* The list of overlays, its order of priorities aside *)
ListIsSound ==
  /\ Len(overlays) > 0 /\ overlays[1] = BACKGROUND
  /\ \A i, j \in DOMAIN overlays : i # j => overlays[i] # overlays[j]
  /\ \A p \in Persistent : p \in Registered

(* The list is in the order of the priorities. *)
ListIsSorted ==
  /\ priority[BACKGROUND] = BOTTOM
  /\ \A i, j \in DOMAIN overlays :
       i < j => priority[overlays[i]] <= priority[overlays[j]]

(* What a connection knows about its overlay *)
Known(c) ==
  /\ overlay[c] \in {NONE, c} \cup Persistent
  /\ c \in Registered => overlay[c] = c /\ client[c] \in Holding
  /\ client[c] \in {"ready"} \cup Strobing => overlay[c] \in Registered \cup {NONE}
  /\ client[c] \in Strobing => overlay[c] # NONE
  /\ client[c] \in Freeing => overlay[c] = c

OverlayIsKnown == \A c \in Client : Known(c)

(* An overlay's marks: where its buffers differ, the back is dirty, and what is
   dirty has a colour. *)
DirtyIsMarked ==
  \A o \in Overlay, led \in Led :
    /\ front[o][led] # back[o][led] => led \in backDirty[o]
    /\ led \in backDirty[o] => back[o][led] # UNSET
    /\ led \in frontDirty[o] => front[o][led] # UNSET

Typed == TypeOK /\ priority \in [Overlay -> {p \in Int : p >= BOTTOM}]

IInv == /\ Typed /\ ListIsSound /\ ListIsSorted /\ OverlayIsKnown
        /\ DirtyIsMarked /\ StaleIsDirty

-----------------------------------------------------------------------------
(* Lists *)

LEMMA LessThan ==
  ASSUME NEW m \in Nat, NEW n \in Nat, m < n
  PROVE  <<m, n>> \in OpToRel(<, Nat)
<1>1. <<m, n>> \in Nat \X Nat
  OBVIOUS
<1>2. <<m, n>>[1] < <<m, n>>[2]
  OBVIOUS
<1> QED
  BY <1>1, <1>2, Zenon DEF OpToRel

(* A set of naturals that is not empty has a smallest element, *)
LEMMA Smallest ==
  ASSUME NEW S \in SUBSET Nat, S # {}
  PROVE  /\ Min(S) \in S
         /\ \A n \in S : Min(S) <= n
<1>1. PICK m \in S : \A n \in S : <<n, m>> \notin OpToRel(<, Nat)
  BY NatLessThanWellFounded, WFMin, Zenon
<1>2. \A n \in S : ~ n < m
  BY <1>1, LessThan, Zenon
<1>3. \A n \in S : m <= n
  BY <1>2
<1> QED
  BY <1>3 DEF Min

(* and one with an upper bound a largest: the bound less the smallest distance
   to it. *)
LEMMA Largest ==
  ASSUME NEW bound \in Nat, NEW S \in SUBSET (0 .. bound), S # {}
  PROVE  /\ Max(S) \in S
         /\ \A n \in S : n <= Max(S)
<1> DEFINE T == {bound - n : n \in S}
<1>1. \A n \in S : bound - n \in Nat
  OBVIOUS
<1>2. T \in SUBSET Nat /\ T # {}
  BY <1>1, Zenon
<1>3. Min(T) \in T /\ \A t \in T : Min(T) <= t
  BY <1>2, Smallest, Zenon
<1>4. PICK m \in S : Min(T) = bound - m
  BY <1>3, Zenon
<1>5. \A n \in S : bound - m <= bound - n
  BY <1>3, <1>4, Zenon
<1>6. \A n \in S : n <= m
  BY <1>5
<1> QED
  BY <1>6 DEF Max

LEMMA InsertAtProperties ==
  ASSUME NEW S, NEW s \in Seq(S), NEW e \in S, NEW i \in 1 .. Len(s) + 1
  PROVE  /\ InsertAt(s, i, e) \in Seq(S)
         /\ Len(InsertAt(s, i, e)) = Len(s) + 1
         /\ InsertAt(s, i, e)[i] = e
         /\ \A j \in 1 .. i - 1 : InsertAt(s, i, e)[j] = s[j]
         /\ \A j \in i .. Len(s) : InsertAt(s, i, e)[j + 1] = s[j]
<1> DEFINE a == SubSeq(s, 1, i - 1)
           b == SubSeq(s, i, Len(s))
           ae == a \o <<e>>
<1>1. /\ a \in Seq(S) /\ Len(a) = i - 1
      /\ \A j \in 1 .. i - 1 : a[j] = s[j]
  BY SubSeqProperties
<1>2. /\ b \in Seq(S) /\ Len(b) = Len(s) - i + 1
      /\ \A j \in 1 .. Len(s) - i + 1 : b[j] = s[i + j - 1]
  BY SubSeqProperties
<1>3. /\ ae \in Seq(S) /\ Len(ae) = i
      /\ \A j \in 1 .. i : ae[j] = IF j < i THEN a[j] ELSE e
  <2>1. <<e>> \in Seq(S) /\ Len(<<e>>) = 1 /\ <<e>>[1] = e
    OBVIOUS
  <2> QED
    BY <1>1, <2>1, ConcatProperties
<1>4. InsertAt(s, i, e) = ae \o b
  BY DEF InsertAt
<1> HIDE DEF a, b, ae
<1>5. /\ ae \o b \in Seq(S) /\ Len(ae \o b) = Len(s) + 1
      /\ \A j \in 1 .. Len(s) + 1 :
           (ae \o b)[j] = IF j <= i THEN ae[j] ELSE b[j - i]
  <2>1. Len(s) \in Nat /\ i + (Len(s) - i + 1) = Len(s) + 1
    OBVIOUS
  <2>2. /\ ae \o b \in Seq(S) /\ Len(ae \o b) = Len(ae) + Len(b)
        /\ \A j \in 1 .. Len(ae) + Len(b) :
             (ae \o b)[j] = IF j <= Len(ae) THEN ae[j] ELSE b[j - Len(ae)]
    BY <1>2, <1>3, ConcatProperties, Zenon
  <2> QED
    BY <1>2, <1>3, <2>1, <2>2
<1>6. ASSUME NEW j \in i .. Len(s)
      PROVE  (ae \o b)[j + 1] = s[j]
  <2>1. (j + 1) - i \in 1 .. Len(s) - i + 1 /\ i + ((j + 1) - i) - 1 = j
    OBVIOUS
  <2>2. b[(j + 1) - i] = s[j]
    BY <1>2, <2>1
  <2> QED
    BY <1>5, <2>2
<1> QED
  BY <1>1, <1>3, <1>4, <1>5, <1>6

LEMMA RemoveAtProperties ==
  ASSUME NEW S, NEW s \in Seq(S), NEW i \in 1 .. Len(s)
  PROVE  /\ RemoveAt(s, i) \in Seq(S)
         /\ Len(RemoveAt(s, i)) = Len(s) - 1
         /\ \A j \in 1 .. i - 1 : RemoveAt(s, i)[j] = s[j]
         /\ \A j \in i .. Len(s) - 1 : RemoveAt(s, i)[j] = s[j + 1]
<1> DEFINE a == SubSeq(s, 1, i - 1)
           b == SubSeq(s, i + 1, Len(s))
<1>1. /\ a \in Seq(S) /\ Len(a) = i - 1
      /\ \A j \in 1 .. i - 1 : a[j] = s[j]
  BY SubSeqProperties
<1>2. /\ b \in Seq(S) /\ Len(b) = Len(s) - i
      /\ \A j \in 1 .. Len(s) - i : b[j] = s[i + 1 + j - 1]
  BY SubSeqProperties
<1>3. RemoveAt(s, i) = a \o b
  BY DEF RemoveAt
<1> HIDE DEF a, b
<1>4. /\ a \o b \in Seq(S) /\ Len(a \o b) = Len(s) - 1
      /\ \A j \in 1 .. Len(s) - 1 :
           (a \o b)[j] = IF j <= i - 1 THEN a[j] ELSE b[j - (i - 1)]
  <2>1. Len(s) \in Nat /\ i - 1 + (Len(s) - i) = Len(s) - 1
    OBVIOUS
  <2>2. /\ a \o b \in Seq(S) /\ Len(a \o b) = Len(a) + Len(b)
        /\ \A j \in 1 .. Len(a) + Len(b) :
             (a \o b)[j] = IF j <= Len(a) THEN a[j] ELSE b[j - Len(a)]
    BY <1>1, <1>2, ConcatProperties, Zenon
  <2> QED
    BY <1>1, <1>2, <2>1, <2>2
<1>5. ASSUME NEW j \in i .. Len(s) - 1
      PROVE  (a \o b)[j] = s[j + 1]
  <2>1. j - (i - 1) \in 1 .. Len(s) - i /\ i + 1 + (j - (i - 1)) - 1 = j + 1
    OBVIOUS
  <2>2. b[j - (i - 1)] = s[j + 1]
    BY <1>2, <2>1
  <2> QED
    BY <1>4, <2>2
<1> QED
  BY <1>1, <1>3, <1>4, <1>5

(* The one occurrence of an element is removed. *)
LEMMA RemoveFirstProperties ==
  ASSUME NEW S, NEW s \in Seq(S), NEW e,
         \A i, j \in DOMAIN s : i # j => s[i] # s[j]
  PROVE  \/ RemoveFirst(s, e) = s /\ \A i \in DOMAIN s : s[i] # e
         \/ \E i \in DOMAIN s : s[i] = e /\ RemoveFirst(s, e) = RemoveAt(s, i)
<1> DEFINE I == {i \in 1 .. Len(s) : s[i] = e}
<1>0. DOMAIN s = 1 .. Len(s)
  OBVIOUS
<1>1. CASE I = {}
  <2>1. ~ \E i \in 1 .. Len(s) : s[i] = e
    BY <1>1
  <2> QED
    BY <1>0, <2>1, Zenon DEF RemoveFirst
<1>2. CASE I # {}
  <2>1. Min(I) \in I
    BY <1>2, Smallest
  <2>2. SelectInSeq(s, LAMBDA v : v = e) = Min(I)
    BY <1>2 DEF SelectInSeq
  <2>3. RemoveFirst(s, e) = RemoveAt(s, SelectInSeq(s, LAMBDA v : v = e))
    BY <1>2 DEF RemoveFirst
  <2>4. Min(I) \in DOMAIN s /\ s[Min(I)] = e
    BY <1>0, <2>1
  <2>5. RemoveFirst(s, e) = RemoveAt(s, Min(I))
    BY <2>2, <2>3, Zenon
  <2> QED
    BY <2>4, <2>5, Zenon
<1> QED
  BY <1>1, <1>2

(* t is the list s with one more element, at i. *)
Shift(i, j) == IF j < i THEN j ELSE j + 1

HasAt(t, i, s) ==
  /\ s \in Seq(Overlay) /\ t \in Seq(Overlay)
  /\ Len(t) = Len(s) + 1 /\ i \in 1 .. Len(t)
  /\ \A j \in 1 .. Len(s) : t[Shift(i, j)] = s[j]

LEMMA InsertedAt ==
  ASSUME NEW s \in Seq(Overlay), NEW e \in Overlay, NEW i \in 1 .. Len(s) + 1
  PROVE  HasAt(InsertAt(s, i, e), i, s) /\ InsertAt(s, i, e)[i] = e
<1>1. /\ InsertAt(s, i, e) \in Seq(Overlay)
      /\ Len(InsertAt(s, i, e)) = Len(s) + 1
      /\ InsertAt(s, i, e)[i] = e
      /\ \A j \in 1 .. i - 1 : InsertAt(s, i, e)[j] = s[j]
      /\ \A j \in i .. Len(s) : InsertAt(s, i, e)[j + 1] = s[j]
  BY InsertAtProperties
<1> QED
  BY <1>1 DEF HasAt, Shift

LEMMA RemovedAt ==
  ASSUME NEW t \in Seq(Overlay), NEW i \in 1 .. Len(t)
  PROVE  HasAt(t, i, RemoveAt(t, i))
<1>1. /\ RemoveAt(t, i) \in Seq(Overlay)
      /\ Len(RemoveAt(t, i)) = Len(t) - 1
      /\ \A j \in 1 .. i - 1 : RemoveAt(t, i)[j] = t[j]
      /\ \A j \in i .. Len(t) - 1 : RemoveAt(t, i)[j] = t[j + 1]
  BY RemoveAtProperties
<1> QED
  BY <1>1 DEF HasAt, Shift

(* The places of t are i and those of s, shifted; their order is kept. *)
LEMMA Places ==
  ASSUME NEW s, NEW t, NEW i, HasAt(t, i, s)
  PROVE  /\ DOMAIN s = 1 .. Len(s) /\ DOMAIN t = 1 .. Len(s) + 1
         /\ \A j \in DOMAIN s : Shift(i, j) \in DOMAIN t \ {i}
         /\ \A k \in DOMAIN t \ {i} : \E j \in DOMAIN s : k = Shift(i, j)
         /\ \A j, k \in DOMAIN s : j < k <=> Shift(i, j) < Shift(i, k)
<1>1. DOMAIN s = 1 .. Len(s) /\ DOMAIN t = 1 .. Len(s) + 1
  BY DEF HasAt
<1>2. Len(s) \in Nat /\ i \in 1 .. Len(s) + 1
  BY DEF HasAt
<1>3. ASSUME NEW k \in (1 .. Len(s) + 1) \ {i}
      PROVE  \E j \in 1 .. Len(s) : k = Shift(i, j)
  <2>1. CASE k < i
    BY <1>2, <2>1 DEF Shift
  <2>2. CASE k > i
    <3>1. k - 1 \in 1 .. Len(s) /\ k = Shift(i, k - 1)
      BY <1>2, <2>2 DEF Shift
    <3> QED
      BY <3>1
  <2> QED
    BY <1>2, <2>1, <2>2
<1>4. \A j \in 1 .. Len(s) : Shift(i, j) \in (1 .. Len(s) + 1) \ {i}
  BY <1>2 DEF Shift
<1>5. \A j, k \in 1 .. Len(s) : j < k <=> Shift(i, j) < Shift(i, k)
  BY <1>2 DEF Shift
<1> QED
  BY <1>1, <1>3, <1>4, <1>5

LEMMA Elements ==
  ASSUME NEW s, NEW t, NEW i, HasAt(t, i, s)
  PROVE  Range(t) = Range(s) \cup {t[i]}
<1>1. ASSUME NEW o \in Range(t), o # t[i] PROVE o \in Range(s)
  <2>1. PICK k \in DOMAIN t : t[k] = o
    BY DEF Range
  <2>2. PICK j \in DOMAIN s : k = Shift(i, j)
    BY <1>1, <2>1, Places
  <2>3. s[j] = o
    BY <2>1, <2>2, Places DEF HasAt
  <2> QED
    BY <2>3 DEF Range
<1>2. ASSUME NEW o \in Range(s) PROVE o \in Range(t)
  <2>1. PICK j \in DOMAIN s : s[j] = o
    BY DEF Range
  <2>2. t[Shift(i, j)] = o /\ Shift(i, j) \in DOMAIN t
    BY <2>1, Places DEF HasAt
  <2> QED
    BY <2>2 DEF Range
<1>3. t[i] \in Range(t)
  BY DEF HasAt, Range
<1> QED
  BY <1>1, <1>2, <1>3, Zenon

-----------------------------------------------------------------------------
(* Blending *)

BlendOf(s, f, led) ==
  LET visible == {i \in DOMAIN s : f[s[i]][led] \in Opaque}
  IN  IF visible = {} THEN BLACK ELSE f[s[Max(visible)]][led]

LEMMA BlendedIs == \A led : Blended(led) = BlendOf(overlays, front, led)
BY DEF Blended, BlendOf

LEMMA BlendedIsNext == \A led : Blended(led)' = BlendOf(overlays', front', led)
BY DEF Blended, BlendOf

(* Whether none is visible or one is on top, the colour is that. *)
LEMMA BlendNone ==
  ASSUME NEW s, NEW f, NEW led, \A i \in DOMAIN s : f[s[i]][led] \notin Opaque
  PROVE  BlendOf(s, f, led) = BLACK
BY DEF BlendOf

OnTop(s, f, led, i) ==
  /\ i \in DOMAIN s /\ f[s[i]][led] \in Opaque
  /\ \A j \in DOMAIN s : i < j => f[s[j]][led] \notin Opaque

LEMMA BlendTop ==
  ASSUME NEW s \in Seq(Overlay), NEW f, NEW led
  PROVE  /\ \A i \in DOMAIN s : OnTop(s, f, led, i) => BlendOf(s, f, led) = f[s[i]][led]
         /\ \/ \A i \in DOMAIN s : f[s[i]][led] \notin Opaque
            \/ \E i \in DOMAIN s : OnTop(s, f, led, i)
<1> DEFINE V == {i \in DOMAIN s : f[s[i]][led] \in Opaque}
<1>1. CASE V = {}
  BY <1>1 DEF OnTop
<1>2. CASE V # {}
  <2>1. V \in SUBSET (0 .. Len(s)) /\ Len(s) \in Nat
    OBVIOUS
  <2>2. Max(V) \in V /\ \A n \in V : n <= Max(V)
    BY <1>2, <2>1, Largest
  <2>3. ASSUME NEW j \in V, Max(V) < j PROVE FALSE
    <3>1. j \in Int /\ Max(V) \in Int /\ j <= Max(V)
      BY <2>1, <2>2
    <3> QED
      BY <2>3, <3>1
  <2>4. OnTop(s, f, led, Max(V))
    BY <2>2, <2>3 DEF OnTop
  <2>5. ASSUME NEW i \in DOMAIN s, OnTop(s, f, led, i) PROVE i = Max(V)
    BY <2>1, <2>2, <2>5 DEF OnTop
  <2>6. BlendOf(s, f, led) = f[s[Max(V)]][led]
    BY <1>2 DEF BlendOf
  <2> QED
    BY <2>2, <2>4, <2>5, <2>6
<1> QED
  BY <1>1, <1>2

(* What the overlays do not show makes no difference. *)
LEMMA BlendSame ==
  ASSUME NEW s \in Seq(Overlay), NEW f, NEW g, NEW led,
         \A i \in DOMAIN s : f[s[i]][led] = g[s[i]][led]
  PROVE  BlendOf(s, f, led) = BlendOf(s, g, led)
<1>1. CASE \A i \in DOMAIN s : f[s[i]][led] \notin Opaque
  BY <1>1, BlendNone
<1>2. ASSUME NEW i \in DOMAIN s, OnTop(s, f, led, i)
      PROVE  BlendOf(s, f, led) = BlendOf(s, g, led)
  <2>1. OnTop(s, g, led, i)
    BY <1>2 DEF OnTop
  <2> QED
    BY <1>2, <2>1, BlendTop
<1> QED
  BY <1>1, <1>2, BlendTop

(* An overlay that has no opaque colour for a LED may come or go. *)
LEMMA BlendWithout ==
  ASSUME NEW s, NEW t, NEW i, HasAt(t, i, s), NEW f, NEW led,
         f[t[i]][led] \notin Opaque
  PROVE  BlendOf(t, f, led) = BlendOf(s, f, led)
<1>1. s \in Seq(Overlay) /\ t \in Seq(Overlay)
  BY DEF HasAt
<1>2. \A j \in DOMAIN s : t[Shift(i, j)] = s[j] /\ Shift(i, j) \in DOMAIN t
  BY Places DEF HasAt
<1>3. \A k \in DOMAIN t \ {i} : \E j \in DOMAIN s : k = Shift(i, j)
  BY Places
<1>4. CASE \A j \in DOMAIN s : f[s[j]][led] \notin Opaque
  <2>1. \A k \in DOMAIN t : f[t[k]][led] \notin Opaque
    BY <1>2, <1>3, <1>4
  <2> QED
    BY <1>4, <2>1, BlendNone
<1>5. ASSUME NEW j \in DOMAIN s, OnTop(s, f, led, j)
      PROVE  BlendOf(t, f, led) = BlendOf(s, f, led)
  <2>1. ASSUME NEW k \in DOMAIN t, Shift(i, j) < k PROVE f[t[k]][led] \notin Opaque
    <3>1. CASE k = i
      BY <3>1
    <3>2. CASE k # i
      <4>1. PICK l \in DOMAIN s : k = Shift(i, l)
        BY <1>3, <3>2
      <4>2. j < l
        BY <2>1, <4>1, Places
      <4> QED
        BY <1>2, <1>5, <4>1, <4>2 DEF OnTop
    <3> QED
      BY <3>1, <3>2
  <2>2. OnTop(t, f, led, Shift(i, j))
    BY <1>2, <1>5, <2>1 DEF OnTop
  <2> QED
    BY <1>1, <1>2, <1>5, <2>2, BlendTop
<1> QED
  BY <1>1, <1>4, <1>5, BlendTop

-----------------------------------------------------------------------------
(* Initially *)

LEMMA UnsetType == Unset \in [Led -> Colour \cup {UNSET}]
BY DEF Unset

(* SetToSeqs lists each element once. *)
LEMMA ListedOnce ==
  ASSUME NEW S, IsFiniteSet(S), NEW s \in SetToSeqs(S)
  PROVE  /\ s \in Seq(S) /\ Range(s) = S
         /\ \A i, j \in DOMAIN s : i # j => s[i] # s[j]
<1> DEFINE n == Cardinality(S)
<1>1. n \in Nat
  BY FS_CardinalityType
<1>2. s \in [1 .. n -> S] /\ \A i, j \in 1 .. n : i # j => s[i] # s[j]
  BY DEF SetToSeqs
<1>3. s \in Injection(1 .. n, S)
  BY <1>2 DEF Injection, IsInjective
<1>4. Cardinality(1 .. n) = n
  BY <1>1, FS_Interval
<1>5. s \in Surjection(1 .. n, S)
  BY <1>3, <1>4, FS_Injection
<1>6. Range(s) = S
  BY <1>2, <1>5 DEF Range, Surjection
<1> QED
  BY <1>1, <1>2, <1>6

LEMMA InitLists ==
  ASSUME Init
  PROVE  /\ overlays \in Seq(Overlay)
         /\ Registered = {BACKGROUND} \cup Persistent
         /\ ListIsSound /\ ListIsSorted
<1>1. PICK rest \in SetToSeqs(Persistent) :
        /\ \A i, j \in DOMAIN rest :
             i < j => priority[rest[i]] <= priority[rest[j]]
        /\ overlays = <<BACKGROUND>> \o rest
  BY DEF Init
<1>2. /\ rest \in Seq(Persistent) /\ Range(rest) = Persistent
      /\ \A i, j \in DOMAIN rest : i # j => rest[i] # rest[j]
  BY MixerAssumption, ListedOnce
<1>3. <<BACKGROUND>> \in Seq(Overlay) /\ rest \in Seq(Overlay)
  BY <1>2 DEF Overlay
<1>4. /\ overlays \in Seq(Overlay) /\ Len(overlays) = 1 + Len(rest)
      /\ \A i \in 1 .. 1 + Len(rest) :
           overlays[i] = IF i <= 1 THEN BACKGROUND ELSE rest[i - 1]
  BY <1>1, <1>3, ConcatProperties
<1>5. /\ DOMAIN overlays = 1 .. 1 + Len(rest) /\ DOMAIN rest = 1 .. Len(rest)
      /\ overlays[1] = BACKGROUND
      /\ \A i \in DOMAIN rest : i + 1 \in DOMAIN overlays /\ overlays[i + 1] = rest[i]
      /\ \A i \in DOMAIN overlays : i # 1 => i - 1 \in DOMAIN rest /\ overlays[i] = rest[i - 1]
  <2>1. /\ DOMAIN overlays = 1 .. 1 + Len(rest) /\ DOMAIN rest = 1 .. Len(rest)
        /\ Len(rest) \in Nat
    BY <1>3, <1>4
  <2>2. ASSUME NEW i \in DOMAIN rest
        PROVE  i + 1 \in DOMAIN overlays /\ overlays[i + 1] = rest[i]
    <3>1. i + 1 \in 1 .. 1 + Len(rest) /\ ~ i + 1 <= 1 /\ (i + 1) - 1 = i
      BY <2>1
    <3> QED
      BY <1>4, <2>1, <3>1
  <2>3. ASSUME NEW i \in DOMAIN overlays, i # 1
        PROVE  i - 1 \in DOMAIN rest /\ overlays[i] = rest[i - 1]
    <3>1. i \in 1 .. 1 + Len(rest) /\ ~ i <= 1 /\ i - 1 \in 1 .. Len(rest)
      BY <2>1, <2>3
    <3> QED
      BY <1>4, <2>1, <3>1
  <2>4. overlays[1] = BACKGROUND
    BY <1>4, <2>1
  <2> QED
    BY <2>1, <2>2, <2>3, <2>4
<1>6. Registered = {BACKGROUND} \cup Persistent
  <2>1. ASSUME NEW o \in Persistent PROVE o \in Registered
    <3>1. PICK i \in DOMAIN rest : rest[i] = o
      BY <1>2 DEF Range
    <3>2. i + 1 \in DOMAIN overlays /\ overlays[i + 1] = o
      BY <1>5, <3>1
    <3> QED
      BY <3>2 DEF Registered, Range
  <2>2. BACKGROUND \in Registered
    BY <1>4, <1>5 DEF Registered, Range
  <2>3. ASSUME NEW o \in Registered PROVE o \in {BACKGROUND} \cup Persistent
    <3>1. PICK i \in DOMAIN overlays : overlays[i] = o
      BY DEF Registered, Range
    <3>2. i = 1 \/ (i - 1 \in DOMAIN rest /\ o = rest[i - 1])
      BY <1>5, <3>1
    <3> QED
      BY <1>2, <1>5, <3>1, <3>2 DEF Range
  <2> QED
    BY <2>1, <2>2, <2>3
<1>7. ASSUME NEW i \in DOMAIN overlays, NEW j \in DOMAIN overlays, i < j
      PROVE  /\ overlays[i] # overlays[j]
             /\ priority[overlays[i]] <= priority[overlays[j]]
  <2>1. j - 1 \in DOMAIN rest /\ overlays[j] = rest[j - 1]
    BY <1>4, <1>5, <1>7
  <2>2. overlays[j] \in Persistent
    BY <1>2, <2>1
  <2>3. CASE i = 1
    <3>1. overlays[i] = BACKGROUND
      BY <1>5, <2>3
    <3>2. priority[BACKGROUND] = BOTTOM
      BY MixerAssumption DEF Init, Overlay
    <3>3. priority[overlays[j]] = Priority[overlays[j]] /\ overlays[j] \in Token
      BY <2>2 DEF Init, Overlay, Token
    <3> QED
      BY <2>2, <3>1, <3>2, <3>3, MixerAssumption DEF BOTTOM
  <2>4. CASE i # 1
    <3>1. i - 1 \in DOMAIN rest /\ overlays[i] = rest[i - 1]
      BY <1>5, <2>4
    <3>2. i - 1 < j - 1 /\ i - 1 # j - 1
      BY <1>4, <1>5, <1>7
    <3> QED
      BY <1>1, <1>2, <2>1, <3>1, <3>2
  <2> QED
    BY <2>3, <2>4
<1>8. ListIsSound
  <2>1. Len(overlays) > 0
    BY <1>3, <1>4
  <2>2. \A i, j \in DOMAIN overlays : i # j => i < j \/ j < i
    BY <1>5
  <2>3. \A i, j \in DOMAIN overlays : i # j => overlays[i] # overlays[j]
    BY <1>7, <2>2
  <2> QED
    BY <1>5, <1>6, <2>1, <2>3 DEF ListIsSound
<1>9. ListIsSorted
  BY <1>7, MixerAssumption DEF ListIsSorted, Init, Overlay
<1> QED
  BY <1>4, <1>6, <1>8, <1>9

LEMMA InitIInv == Init => IInv
<1> SUFFICES ASSUME Init PROVE IInv
  OBVIOUS
<1>1. priority \in [Overlay -> {p \in Int : p >= BOTTOM}]
  <2>1. ASSUME NEW o \in Persistent PROVE Priority[o] \in {p \in Int : p >= BOTTOM}
    BY MixerAssumption DEF Token
  <2>2. BOTTOM \in {p \in Int : p >= BOTTOM}
    BY DEF BOTTOM
  <2> QED
    BY <2>1, <2>2 DEF Init
<1>2. TypeOK
  <2>1. /\ front \in [Overlay -> [Led -> Colour \cup {UNSET}]]
        /\ back \in [Overlay -> [Led -> Colour \cup {UNSET}]]
    BY UnsetType DEF Init
  <2>2. /\ overlays \in Seq(Overlay) /\ requests \in 0 .. MaxRequests
    <3>1. 0 \in 0 .. MaxRequests
      BY MixerAssumption
    <3> QED
      BY InitLists, <3>1 DEF Init
  <2> QED
    BY <2>1, <2>2 DEF Init, TypeOK
<1>3. OverlayIsKnown
  <2>1. ASSUME NEW c \in Client PROVE c \notin Registered
    BY InitLists, MixerAssumption
  <2> QED
    BY <2>1 DEF Init, OverlayIsKnown, Known, Strobing, Freeing
<1>4. DirtyIsMarked
  BY DEF Init, DirtyIsMarked
<1>5. StaleIsDirty
  <2>1. ASSUME NEW led \in Led PROVE Blended(led) = BLACK
    <3>1. \A i \in DOMAIN overlays : overlays[i] \in Overlay
      BY InitLists
    <3>2. UNSET \notin Opaque
      BY MixerAssumption DEF Colour
    <3>3. \A i \in DOMAIN overlays : front[overlays[i]][led] \notin Opaque
      BY <3>1, <3>2 DEF Init, Unset
    <3> QED
      BY <3>3, BlendNone, BlendedIs
  <2> QED
    BY <2>1 DEF Init, StaleIsDirty
<1> QED
  BY <1>1, <1>2, <1>3, <1>4, <1>5, InitLists DEF IInv, Typed

-----------------------------------------------------------------------------
(* Types *)

BuffersTyped ==
  /\ front' \in [Overlay -> [Led -> Colour \cup {UNSET}]]
  /\ back' \in [Overlay -> [Led -> Colour \cup {UNSET}]]
  /\ frontDirty' \in [Overlay -> SUBSET Led]
  /\ backDirty' \in [Overlay -> SUBSET Led]

(* A new front that is marked dirty wherever it differs *)
LEMMA SwapKeeps ==
  ASSUME Typed, DirtyIsMarked, NEW o \in Overlay,
         NEW newBack \in [Led -> Colour \cup {UNSET}], NEW newDirty \in SUBSET Led,
         \A led \in Led : newBack[led] # front[o][led] => led \in newDirty,
         \A led \in newDirty : newBack[led] # UNSET,
         Swap(o, newBack, newDirty)
  PROVE  /\ BuffersTyped /\ DirtyIsMarked'
         /\ \A p \in Overlay : frontDirty[p] \subseteq frontDirty'[p]
         /\ newDirty \subseteq frontDirty'[o]
         /\ \A p \in Overlay, led \in Led :
              p # o \/ led \notin newDirty => front'[p][led] = front[p][led]
<1>1. BuffersTyped
  BY DEF Typed, TypeOK, Swap, BuffersTyped
<1>2. /\ front'[o] = newBack /\ back'[o] = newBack /\ backDirty'[o] = {}
      /\ frontDirty'[o] = frontDirty[o] \cup newDirty
  BY DEF Typed, TypeOK, Swap
<1>3. \A p \in Overlay : p # o =>
        /\ front'[p] = front[p] /\ back'[p] = back[p]
        /\ frontDirty'[p] = frontDirty[p] /\ backDirty'[p] = backDirty[p]
  BY DEF Typed, TypeOK, Swap
<1>4. ASSUME NEW p \in Overlay, NEW led \in Led
      PROVE  /\ front'[p][led] # back'[p][led] => led \in backDirty'[p]
             /\ led \in backDirty'[p] => back'[p][led] # UNSET
             /\ led \in frontDirty'[p] => front'[p][led] # UNSET
  <2>1. CASE p = o
    BY <1>2, <2>1 DEF DirtyIsMarked
  <2>2. CASE p # o
    BY <1>3, <2>2 DEF DirtyIsMarked
  <2> QED
    BY <2>1, <2>2
<1>5. DirtyIsMarked'
  BY <1>4 DEF DirtyIsMarked
<1> QED
  BY <1>1, <1>2, <1>3, <1>5

(* Overlay.strobe: the back becomes the front. *)
LEMMA StrobeSwaps ==
  ASSUME IInv, NEW c \in Client, StrobeSwap(c)
  PROVE  LET o == overlay[c] IN
         /\ o \in Registered /\ o \in Overlay
         /\ BuffersTyped /\ DirtyIsMarked'
         /\ \A p \in Overlay : frontDirty[p] \subseteq frontDirty'[p]
         /\ backDirty[o] \subseteq frontDirty'[o]
         /\ \A p \in Overlay, led \in Led :
              p # o \/ led \notin backDirty[o] => front'[p][led] = front[p][led]
<1> DEFINE o == overlay[c]
<1>1. client[c] = "strobe_mixer" /\ Swap(o, back[o], backDirty[o])
  BY DEF StrobeSwap
<1>2. o \in Registered /\ o \in Overlay
  <2>1. o \in Registered
    BY <1>1 DEF IInv, OverlayIsKnown, Known, Strobing
  <2>2. Registered \subseteq Overlay
    BY DEF IInv, Typed, TypeOK, Registered, Range
  <2> QED
    BY <2>1, <2>2
<1>3. back[o] \in [Led -> Colour \cup {UNSET}] /\ backDirty[o] \in SUBSET Led
  BY <1>2 DEF IInv, Typed, TypeOK
<1>4. /\ \A led \in Led : back[o][led] # front[o][led] => led \in backDirty[o]
      /\ \A led \in backDirty[o] : back[o][led] # UNSET
  BY <1>2, <1>3 DEF IInv, DirtyIsMarked
<1>5. Typed /\ DirtyIsMarked
  BY DEF IInv
<1> HIDE DEF o
<1>6. /\ BuffersTyped /\ DirtyIsMarked'
      /\ \A p \in Overlay : frontDirty[p] \subseteq frontDirty'[p]
      /\ backDirty[o] \subseteq frontDirty'[o]
      /\ \A p \in Overlay, led \in Led :
           p # o \/ led \notin backDirty[o] => front'[p][led] = front[p][led]
  BY <1>1, <1>2, <1>3, <1>4, <1>5, SwapKeeps
<1> QED
  BY <1>2, <1>6 DEF o

(* The LEDs that Mixer.markBackgroundDirty is given, and all it marks *)
Freed(c)  == {led \in Led : front[c][led] # UNSET}
Marked(c) == backDirty[BACKGROUND] \cup Freed(c)

(* Mixer.markBackgroundDirty *)
LEMMA FreeSwaps ==
  ASSUME IInv, NEW c \in Client, FreeRemove(c)
  PROVE  /\ BuffersTyped /\ DirtyIsMarked'
         /\ \A p \in Overlay : frontDirty[p] \subseteq frontDirty'[p]
         /\ Marked(c) \subseteq frontDirty'[BACKGROUND]
         /\ \A p \in Overlay, led \in Led :
              p # BACKGROUND \/ led \notin Marked(c) => front'[p][led] = front[p][led]
<1> DEFINE b == BACKGROUND
           new == [led \in Led |-> IF led \in Freed(c) THEN TRANSPARENT
                                   ELSE back[b][led]]
<1>1. Swap(b, new, Marked(c))
  BY DEF FreeRemove, Marked, Freed
<1>2. b \in Overlay /\ Typed /\ DirtyIsMarked
  BY DEF Overlay, IInv
<1>3. TRANSPARENT \in Colour /\ TRANSPARENT # UNSET
  BY MixerAssumption DEF Colour
<1>4. new \in [Led -> Colour \cup {UNSET}] /\ Marked(c) \in SUBSET Led
  BY <1>2, <1>3 DEF Typed, TypeOK, Marked, Freed
<1>5. ASSUME NEW led \in Led, new[led] # front[b][led] PROVE led \in Marked(c)
  BY <1>2, <1>5 DEF DirtyIsMarked, Marked
<1>6. ASSUME NEW led \in Marked(c) PROVE new[led] # UNSET
  BY <1>2, <1>3, <1>4 DEF DirtyIsMarked, Marked
<1> HIDE DEF new, b
<1>7. /\ BuffersTyped /\ DirtyIsMarked'
      /\ \A p \in Overlay : frontDirty[p] \subseteq frontDirty'[p]
      /\ Marked(c) \subseteq frontDirty'[b]
      /\ \A p \in Overlay, led \in Led :
           p # b \/ led \notin Marked(c) => front'[p][led] = front[p][led]
  BY <1>1, <1>2, <1>4, <1>5, <1>6, SwapKeeps
<1> QED
  BY <1>7 DEF b

-----------------------------------------------------------------------------
(* The list of overlays *)

LEMMA ListFacts ==
  ASSUME IInv
  PROVE  /\ overlays \in Seq(Overlay) /\ DOMAIN overlays = 1 .. Len(overlays)
         /\ Len(overlays) \in Nat /\ 1 \in DOMAIN overlays
         /\ \A i \in DOMAIN overlays : /\ overlays[i] \in Overlay
                                       /\ priority[overlays[i]] \in Int
                                       /\ priority[overlays[i]] >= BOTTOM
<1>1. overlays \in Seq(Overlay) /\ Len(overlays) > 0
  BY DEF IInv, Typed, TypeOK, ListIsSound
<1>2. /\ DOMAIN overlays = 1 .. Len(overlays) /\ Len(overlays) \in Nat
      /\ 1 \in DOMAIN overlays
  BY <1>1
<1>3. \A i \in DOMAIN overlays : overlays[i] \in Overlay
  BY <1>1
<1> QED
  BY <1>1, <1>2, <1>3 DEF IInv, Typed

(* Mixer.register inserts between the overlays whose priority is not greater
   and those whose priority is. *)
LEMMA PositionIs ==
  ASSUME IInv, NEW p \in Int, p >= BOTTOM
  PROVE  /\ Position(p) \in 2 .. Len(overlays) + 1
         /\ \A i \in DOMAIN overlays :
              /\ i < Position(p) => priority[overlays[i]] <= p
              /\ i >= Position(p) => p < priority[overlays[i]]
<1> DEFINE P == {i \in DOMAIN overlays : priority[overlays[i]] <= p}
           Q == {0} \cup P
           m == Max(Q)
<1>1. Q \in SUBSET (0 .. Len(overlays)) /\ Q # {} /\ Len(overlays) \in Nat
  BY ListFacts
<1>2. m \in Q /\ \A i \in Q : i <= m
  <2> HIDE DEF Q
  <2> QED BY <1>1, Largest
<1>3. 1 \in P
  <2>1. overlays[1] = BACKGROUND /\ priority[BACKGROUND] = BOTTOM
    BY DEF IInv, ListIsSound, ListIsSorted
  <2> QED
    BY <2>1, ListFacts DEF BOTTOM
<1>4. m \in P /\ m >= 1
  BY <1>2, <1>3, ListFacts
<1>5. Position(p) = 1 + m
  BY DEF Position
<1>6. Position(p) \in 2 .. Len(overlays) + 1
  BY <1>1, <1>2, <1>4, <1>5
<1>7. ASSUME NEW i \in DOMAIN overlays, i < Position(p)
      PROVE  priority[overlays[i]] <= p
  <2>1. i \in Int /\ m \in Int /\ i <= m
    BY <1>4, <1>5, <1>7, ListFacts
  <2>2. priority[overlays[i]] <= priority[overlays[m]]
    <3>1. CASE i = m
      BY <3>1, ListFacts
    <3>2. CASE i < m
      BY <1>4, <3>2 DEF IInv, ListIsSorted
    <3> QED
      BY <2>1, <3>1, <3>2
  <2>3. priority[overlays[m]] <= p
    BY <1>4
  <2>4. priority[overlays[i]] \in Int /\ priority[overlays[m]] \in Int
    BY <1>4, ListFacts
  <2> QED
    BY <2>2, <2>3, <2>4
<1>8. ASSUME NEW i \in DOMAIN overlays, i >= Position(p)
      PROVE  p < priority[overlays[i]]
  <2>1. i \in Int /\ m \in Int /\ ~ i <= m
    BY <1>4, <1>5, <1>8, ListFacts
  <2>2. i \notin P
    BY <1>2, <2>1
  <2> QED
    BY <2>2, ListFacts
<1> QED
  BY <1>6, <1>7, <1>8

(* A token's overlay is registered: the list gets one more element, behind all
   that have its priority. *)
LEMMA Registers ==
  ASSUME IInv, NEW c \in Client, client[c] = "assign", next[c] \in Private, Register(c)
  PROVE  /\ \E i \in DOMAIN overlays' : HasAt(overlays', i, overlays) /\ overlays'[i] = c
         /\ c \notin Registered /\ Registered' = Registered \cup {c}
         /\ ListIsSound' /\ ListIsSorted'
         /\ priority' \in [Overlay -> {p \in Int : p >= BOTTOM}]
<1> DEFINE p == Priority[next[c]]
           i == Position(p)
<1>1. c \in Overlay /\ c # BACKGROUND /\ c \notin Registered
  BY MixerAssumption DEF Overlay, IInv, OverlayIsKnown, Known, Holding
<1>2. p \in Int /\ p >= BOTTOM
  BY MixerAssumption DEF Token
<1>3. i \in 2 .. Len(overlays) + 1
  BY <1>2, PositionIs
<1>4. \A j \in DOMAIN overlays : /\ j < i => priority[overlays[j]] <= p
                                 /\ j >= i => p < priority[overlays[j]]
  BY <1>2, PositionIs
<1>5. overlays' = InsertAt(overlays, i, c) /\ priority' = [priority EXCEPT ![c] = p]
  BY DEF Register
<1> HIDE DEF p, i
<1>6. i \in 1 .. Len(overlays) + 1 /\ i \in Int /\ i > 1
  BY <1>3, ListFacts
<1>7. HasAt(overlays', i, overlays) /\ overlays'[i] = c
  BY <1>1, <1>5, <1>6, ListFacts, InsertedAt
<1>8. /\ DOMAIN overlays' = 1 .. Len(overlays) + 1
      /\ \A j \in DOMAIN overlays : /\ Shift(i, j) \in DOMAIN overlays' \ {i}
                                    /\ overlays'[Shift(i, j)] = overlays[j]
      /\ \A k \in DOMAIN overlays' \ {i} : \E j \in DOMAIN overlays : k = Shift(i, j)
      /\ \A j, k \in DOMAIN overlays : j < k <=> Shift(i, j) < Shift(i, k)
  <2>1. /\ DOMAIN overlays = 1 .. Len(overlays)
        /\ DOMAIN overlays' = 1 .. Len(overlays) + 1
        /\ \A j \in DOMAIN overlays : Shift(i, j) \in DOMAIN overlays' \ {i}
        /\ \A k \in DOMAIN overlays' \ {i} : \E j \in DOMAIN overlays : k = Shift(i, j)
        /\ \A j, k \in DOMAIN overlays : j < k <=> Shift(i, j) < Shift(i, k)
    BY <1>7, Places
  <2>2. \A j \in 1 .. Len(overlays) : overlays'[Shift(i, j)] = overlays[j]
    BY <1>7, Zenon DEF HasAt
  <2> QED
    BY <2>1, <2>2, Zenon
<1>9. Registered' = Registered \cup {c}
  BY <1>7, Elements DEF Registered
<1>10. \A j \in DOMAIN overlays : overlays[j] # c
  BY <1>1 DEF Registered, Range
<1>11. priority' \in [Overlay -> {q \in Int : q >= BOTTOM}]
  BY <1>1, <1>2, <1>5 DEF IInv, Typed
<1>12. priority'[c] = p /\ \A o \in Overlay : o # c => priority'[o] = priority[o]
  BY <1>1, <1>5 DEF IInv, Typed
<1>13. ListIsSound'
  <2>1. Len(overlays') > 0
    BY <1>7, ListFacts DEF HasAt
  <2>2. overlays'[1] = BACKGROUND
    <3>1. Shift(i, 1) = 1
      BY <1>6 DEF Shift
    <3> QED
      BY <1>8, <3>1, ListFacts DEF IInv, ListIsSound
  <2>3. ASSUME NEW k \in DOMAIN overlays', NEW l \in DOMAIN overlays', k # l
        PROVE  overlays'[k] # overlays'[l]
    <3>1. CASE k = i \/ l = i
      BY <1>7, <1>8, <1>10, <2>3, <3>1
    <3>2. CASE k # i /\ l # i
      BY <1>8, <2>3, <3>2 DEF IInv, ListIsSound
    <3> QED
      BY <3>1, <3>2
  <2>4. \A q \in Persistent : q \in Registered'
    BY <1>9 DEF IInv, ListIsSound
  <2> QED
    BY <2>1, <2>2, <2>3, <2>4 DEF ListIsSound
<1>14. ASSUME NEW k \in DOMAIN overlays', NEW l \in DOMAIN overlays', k < l
       PROVE  priority'[overlays'[k]] <= priority'[overlays'[l]]
  <2>1. ASSUME NEW j \in DOMAIN overlays
        PROVE  priority'[overlays'[Shift(i, j)]] = priority[overlays[j]]
    BY <1>8, <1>10, <1>12, ListFacts
  <2>2. CASE k = i
    <3>1. PICK j \in DOMAIN overlays : l = Shift(i, j)
      BY <1>6, <1>8, <1>14, <2>2
    <3>2. j >= i
      BY <1>6, <1>14, <2>2, <3>1, ListFacts DEF Shift
    <3> QED
      BY <1>2, <1>4, <1>7, <1>12, <2>1, <2>2, <3>1, <3>2, ListFacts DEF p
  <2>3. CASE l = i
    <3>1. PICK j \in DOMAIN overlays : k = Shift(i, j)
      BY <1>6, <1>8, <1>14, <2>3
    <3>2. j < i
      BY <1>6, <1>14, <2>3, <3>1, ListFacts DEF Shift
    <3> QED
      BY <1>4, <1>7, <1>12, <2>1, <2>3, <3>1, <3>2
  <2>4. CASE k # i /\ l # i
    <3>1. PICK j \in DOMAIN overlays : k = Shift(i, j)
      BY <1>8, <2>4
    <3>2. PICK m \in DOMAIN overlays : l = Shift(i, m)
      BY <1>8, <2>4
    <3>3. j < m
      BY <1>8, <1>14, <3>1, <3>2
    <3>4. priority[overlays[j]] <= priority[overlays[m]]
      BY <3>3 DEF IInv, ListIsSorted
    <3> QED
      BY <2>1, <3>1, <3>2, <3>4
  <2> QED
    BY <2>2, <2>3, <2>4
<1>15. ListIsSorted'
  <2>1. priority'[BACKGROUND] = BOTTOM
    BY <1>1, <1>12 DEF IInv, ListIsSorted, Overlay
  <2> QED
    BY <1>14, <2>1 DEF ListIsSorted
<1> QED
  BY <1>1, <1>7, <1>8, <1>9, <1>11, <1>13, <1>15, <1>6

(* It is removed again, if it is there. *)
LEMMA Removes ==
  ASSUME IInv, NEW c \in Client, FreeRemove(c)
  PROVE  /\ \/ overlays' = overlays
            \/ \E i \in DOMAIN overlays : HasAt(overlays, i, overlays') /\ overlays[i] = c
         /\ overlays' \in Seq(Overlay)
         /\ Registered' = Registered \ {c}
         /\ ListIsSound' /\ ListIsSorted'
<1>1. overlays' = RemoveFirst(overlays, c) /\ UNCHANGED priority
  BY DEF FreeRemove
<1>2. c # BACKGROUND /\ c \notin Persistent
  BY MixerAssumption
<1>3. \/ RemoveFirst(overlays, c) = overlays /\ \A i \in DOMAIN overlays : overlays[i] # c
      \/ \E i \in DOMAIN overlays :
           overlays[i] = c /\ RemoveFirst(overlays, c) = RemoveAt(overlays, i)
  BY ListFacts, RemoveFirstProperties DEF IInv, ListIsSound
<1>4. CASE overlays' = overlays /\ \A i \in DOMAIN overlays : overlays[i] # c
  <2>1. Registered' = Registered /\ c \notin Registered
    BY <1>4 DEF Registered, Range
  <2>2. Registered' = Registered \ {c}
    BY <2>1
  <2>3. ListIsSound' /\ ListIsSorted'
    BY <1>1, <1>4, <2>1 DEF IInv, ListIsSound, ListIsSorted
  <2> QED
    BY <1>4, <2>2, <2>3, ListFacts
<1>5. ASSUME NEW i \in DOMAIN overlays, overlays[i] = c,
             overlays' = RemoveAt(overlays, i)
      PROVE  /\ HasAt(overlays, i, overlays') /\ overlays' \in Seq(Overlay)
             /\ Registered' = Registered \ {c}
             /\ ListIsSound' /\ ListIsSorted'
  <2>1. HasAt(overlays, i, overlays')
    BY <1>5, ListFacts, RemovedAt
  <2>2. /\ overlays' \in Seq(Overlay) /\ Len(overlays) = Len(overlays') + 1
        /\ DOMAIN overlays' = 1 .. Len(overlays') /\ Len(overlays') \in Nat
    BY <2>1 DEF HasAt
  <2>3. /\ \A j \in DOMAIN overlays' : /\ Shift(i, j) \in DOMAIN overlays \ {i}
                                       /\ overlays'[j] = overlays[Shift(i, j)]
        /\ \A j, k \in DOMAIN overlays' : j < k <=> Shift(i, j) < Shift(i, k)
    BY <2>1, <2>2, Places DEF HasAt
  <2>4. i > 1
    BY <1>2, <1>5, ListFacts DEF IInv, ListIsSound
  <2>5. Len(overlays') > 0 /\ 1 \in DOMAIN overlays'
    BY <2>2, <2>4, ListFacts
  <2>6. overlays'[1] = BACKGROUND
    <3>1. Shift(i, 1) = 1
      BY <2>4 DEF Shift
    <3> QED
      BY <2>3, <2>5, <3>1 DEF IInv, ListIsSound
  <2>7. ASSUME NEW k \in DOMAIN overlays', NEW l \in DOMAIN overlays', k # l
        PROVE  overlays'[k] # overlays'[l]
    <3>1. Shift(i, k) # Shift(i, l)
      BY <2>2, <2>7, ListFacts DEF Shift
    <3> QED
      BY <2>3, <3>1 DEF IInv, ListIsSound
  <2>8. Registered = Registered' \cup {c}
    BY <1>5, <2>1, Elements DEF Registered
  <2>9. c \notin Registered'
    <3>1. \A j \in DOMAIN overlays' : overlays'[j] # c
      BY <1>5, <2>3 DEF IInv, ListIsSound
    <3> QED
      BY <3>1 DEF Registered, Range
  <2>10. Registered' = Registered \ {c}
    BY <2>8, <2>9
  <2>11. ListIsSound'
    <3>1. \A q \in Persistent : q \in Registered'
      BY <1>2, <2>10 DEF IInv, ListIsSound
    <3> QED
      BY <2>5, <2>6, <2>7, <3>1 DEF ListIsSound
  <2>12. ASSUME NEW k \in DOMAIN overlays', NEW l \in DOMAIN overlays', k < l
         PROVE  priority'[overlays'[k]] <= priority'[overlays'[l]]
    BY <1>1, <2>3, <2>12 DEF IInv, ListIsSorted
  <2>13. ListIsSorted'
    BY <1>1, <2>12 DEF IInv, ListIsSorted
  <2> QED
    BY <2>1, <2>2, <2>10, <2>11, <2>13
<1> QED
  BY <1>1, <1>3, <1>4, <1>5

-----------------------------------------------------------------------------
(* What is kept by steps that change something else *)

LEMMA KnownOthers ==
  ASSUME IInv, NEW c \in Client,
         \A o \in Overlay : o # c => (o \in Registered' <=> o \in Registered),
         \A d \in Client : d # c => client'[d] = client[d] /\ overlay'[d] = overlay[d],
         Known(c)'
  PROVE  OverlayIsKnown'
<1>1. ASSUME NEW d \in Client, d # c PROVE Known(d)'
  <2>1. Known(d) /\ client'[d] = client[d] /\ overlay'[d] = overlay[d]
    BY <1>1 DEF IInv, OverlayIsKnown
  <2>2. d \in Overlay /\ (d \in Registered' <=> d \in Registered)
    BY <1>1 DEF Overlay
  <2>3. overlay[d] \in {NONE, d} \cup Persistent
    BY <2>1 DEF Known
  <2>4. overlay[d] = NONE \/ (overlay[d] \in Registered' <=> overlay[d] \in Registered)
    BY <2>2, <2>3, MixerAssumption DEF Overlay
  <2> QED
    BY <2>1, <2>2, <2>4 DEF Known
<1> QED
  BY <1>1 DEF OverlayIsKnown

LEMMA ListsKept ==
  ASSUME IInv, UNCHANGED lists
  PROVE  ListIsSound' /\ ListIsSorted' /\ Registered' = Registered
BY DEF IInv, lists, ListIsSound, ListIsSorted, Registered

(* A LED that was shown right and does not become dirty is still shown right. *)
LEMMA StaleKept ==
  ASSUME IInv, UNCHANGED shown, mixer' # "dead" => mixer # "dead",
         \A led \in Led : led \notin Dirty' =>
           led \notin Dirty /\ Blended(led)' = Blended(led)
  PROVE  StaleIsDirty'
BY DEF IInv, StaleIsDirty

LEMMA DisplayKept ==
  ASSUME IInv, UNCHANGED <<lists, fronts, shown>>, mixer' # "dead" => mixer # "dead"
  PROVE  StaleIsDirty'
<1>1. Dirty' = Dirty
  BY DEF lists, fronts, Dirty, Registered
<1>2. \A led : Blended(led)' = Blended(led)
  BY BlendedIs, BlendedIsNext DEF lists, fronts
<1> QED
  BY <1>1, <1>2, StaleKept

(* A step that concerns neither overlays nor LEDs *)
LEMMA Quiet ==
  ASSUME IInv, UNCHANGED <<lists, fronts, backs, shown>>,
         TypeOK', OverlayIsKnown', mixer' # "dead" => mixer # "dead"
  PROVE  IInv'
<1>1. Typed'
  BY DEF IInv, Typed, lists
<1>2. DirtyIsMarked'
  BY DEF IInv, DirtyIsMarked, fronts, backs
<1> QED
  BY <1>1, <1>2, ListsKept, DisplayKept DEF IInv

(* Such a step of a connection *)
LEMMA Moves ==
  ASSUME IInv, NEW c \in Client,
         UNCHANGED <<lists, fronts, backs, shown>>,
         holder' \in [Overlay \cup {MIXER} -> Client \cup {MIXER, NONE}],
         realWakeup' \in BOOLEAN,
         mixer' = mixer \/ (mixer = "waiting" /\ mixer' = "check"),
         NEW pc \in {"closed", "ready", "free", "free_mixer", "free_remove",
                     "free_notify", "assign", "strobe_mixer", "strobe_notify"},
         Goto(c, pc),
         overlay' \in [Client -> Overlay \cup {NONE}],
         \A d \in Client : d # c => overlay'[d] = overlay[d],
         next' \in [Client -> Token \cup {UNKNOWN, QUIT, BROKEN}],
         staged' \in [Client -> SUBSET Led], requests' \in 0 .. MaxRequests,
         overlay'[c] \in {NONE, c} \cup Persistent,
         c \in Registered => overlay'[c] = c /\ pc \in Holding,
         pc \in {"ready"} \cup Strobing => overlay'[c] \in Registered \cup {NONE},
         pc \in Strobing => overlay'[c] # NONE,
         pc \in Freeing => overlay'[c] = c
  PROVE  IInv'
<1>1. client \in [Client -> {"closed", "ready", "free", "free_mixer",
                             "free_remove", "free_notify", "assign",
                             "strobe_mixer", "strobe_notify"}]
  BY DEF IInv, Typed, TypeOK
<1>2. /\ client' \in [Client -> {"closed", "ready", "free", "free_mixer",
                                 "free_remove", "free_notify", "assign",
                                 "strobe_mixer", "strobe_notify"}]
      /\ client'[c] = pc /\ \A d \in Client : d # c => client'[d] = client[d]
  BY <1>1 DEF Goto
<1>3. TypeOK'
  <2>1. mixer' \in {"check", "waiting", "strobe", "blend", "dead"}
    BY DEF IInv, Typed, TypeOK
  <2> QED
    BY <1>2, <2>1 DEF IInv, Typed, TypeOK, lists, fronts, backs
<1>4. Registered' = Registered
  BY ListsKept
<1>5. Known(c)'
  BY <1>2, <1>4 DEF Known
<1>6. OverlayIsKnown'
  BY <1>2, <1>4, <1>5, KnownOthers
<1> QED
  BY <1>3, <1>6, Quiet

LEMMA HolderType ==
  ASSUME IInv, NEW thread \in Client \cup {MIXER}
  PROVE  /\ UNCHANGED holder =>
              holder' \in [Overlay \cup {MIXER} -> Client \cup {MIXER, NONE}]
         /\ \A monitor : Acquire(monitor, thread) =>
              holder' \in [Overlay \cup {MIXER} -> Client \cup {MIXER, NONE}]
         /\ Release(thread) =>
              holder' \in [Overlay \cup {MIXER} -> Client \cup {MIXER, NONE}]
BY DEF IInv, Typed, TypeOK, Acquire, Release

LEMMA Current ==
  ASSUME IInv, NEW c \in Client
  PROVE  /\ Known(c) /\ overlay[c] \in {NONE, c} \cup Persistent
         /\ c \in Registered => overlay[c] = c
         /\ overlay \in [Client -> Overlay \cup {NONE}]
         /\ next \in [Client -> Token \cup {UNKNOWN, QUIT, BROKEN}]
         /\ staged \in [Client -> SUBSET Led] /\ requests \in 0 .. MaxRequests
         /\ realWakeup \in BOOLEAN
         /\ next[c] \in Token \cup {UNKNOWN, QUIT, BROKEN}
BY DEF IInv, OverlayIsKnown, Known, Typed, TypeOK

LEMMA RequestCounts ==
  ASSUME IInv, requests < MaxRequests, requests' = requests + 1
  PROVE  requests' \in 0 .. MaxRequests
BY MixerAssumption DEF IInv, Typed, TypeOK

LEMMA ConnectIInv == ASSUME IInv, NEW c \in Client, Connect(c) PROVE IInv'
<1>1. /\ client[c] = "closed" /\ requests < MaxRequests /\ requests' = requests + 1
      /\ Goto(c, "ready") /\ overlay' = [overlay EXCEPT ![c] = NONE]
      /\ staged' = [staged EXCEPT ![c] = {}]
      /\ UNCHANGED <<lists, fronts, backs, holder, delay, next, shown>>
  BY DEF Connect
<1>2. c \notin Registered
  BY <1>1, Current DEF Known, Holding
<1>3. staged' \in [Client -> SUBSET Led] /\ requests' \in 0 .. MaxRequests
  BY <1>1, Current, RequestCounts
<1>4. /\ overlay' \in [Client -> Overlay \cup {NONE}] /\ overlay'[c] = NONE
      /\ \A d \in Client : d # c => overlay'[d] = overlay[d]
  BY <1>1, Current
<1> QED
  BY <1>1, <1>2, <1>3, <1>4, HolderType, Current, Moves
  DEF delay, Strobing, Freeing

LEMMA AuthIInv ==
  ASSUME IInv, NEW c \in Client, NEW token \in Token \cup {UNKNOWN}, Auth(c, token)
  PROVE  IInv'
<1> DEFINE pc == IF overlay[c] = c THEN "free" ELSE "assign"
<1>1. /\ client[c] = "ready" /\ requests < MaxRequests /\ requests' = requests + 1
      /\ next' = [next EXCEPT ![c] = token]
      /\ Goto(c, pc)
      /\ UNCHANGED <<lists, fronts, backs, holder, delay, overlay, shown, staged>>
  BY DEF Auth, Request
<1>2. c \in Registered => pc = "free"
  BY Current DEF Known
<1>3. pc = "free" => overlay[c] = c
  OBVIOUS
<1>4. next' \in [Client -> Token \cup {UNKNOWN, QUIT, BROKEN}]
  BY <1>1, Current
<1>5. pc \in {"free", "assign"}
  OBVIOUS
<1>6. requests' \in 0 .. MaxRequests
  BY <1>1, RequestCounts
<1> HIDE DEF pc
<1> QED
  BY <1>1, <1>2, <1>3, <1>4, <1>5, <1>6, HolderType, Current, Moves
  DEF delay, Holding, Strobing, Freeing

LEMMA CloseIInv ==
  ASSUME IInv, NEW c \in Client, NEW how \in {QUIT, BROKEN}, Close(c, how)
  PROVE  IInv'
<1> DEFINE pc == IF overlay[c] = c THEN "free" ELSE "closed"
<1>1. /\ client[c] = "ready" /\ next' = [next EXCEPT ![c] = how]
      /\ Goto(c, pc)
      /\ UNCHANGED <<lists, fronts, backs, holder, delay, overlay, shown, staged,
                     requests>>
  BY DEF Close
<1>2. c \in Registered => pc = "free"
  BY Current DEF Known
<1>3. pc = "free" => overlay[c] = c
  OBVIOUS
<1>4. next' \in [Client -> Token \cup {UNKNOWN, QUIT, BROKEN}]
  BY <1>1, Current
<1>5. pc \in {"free", "closed"}
  OBVIOUS
<1> HIDE DEF pc
<1> QED
  BY <1>1, <1>2, <1>3, <1>4, <1>5, HolderType, Current, Moves
  DEF delay, Holding, Strobing, Freeing

LEMMA StrobeIInv == ASSUME IInv, NEW c \in Client, Strobe(c) PROVE IInv'
<1>1. /\ client[c] = "ready" /\ requests < MaxRequests /\ requests' = requests + 1
      /\ overlay[c] # NONE /\ Acquire(overlay[c], c) /\ Goto(c, "strobe_mixer")
      /\ UNCHANGED <<lists, fronts, backs, delay, conns, shown, staged>>
  BY DEF Strobe, Request
<1>2. overlay[c] \in Registered
  BY <1>1, Current DEF Known
<1>3. requests' \in 0 .. MaxRequests
  BY <1>1, RequestCounts
<1> QED
  BY <1>1, <1>2, <1>3, HolderType, Current, Moves
  DEF delay, conns, Holding, Strobing, Freeing

LEMMA RequestRunType ==
  ASSUME IInv, RequestRun
  PROVE  /\ realWakeup' \in BOOLEAN
         /\ mixer' = mixer \/ (mixer = "waiting" /\ mixer' = "check")
BY DEF RequestRun

LEMMA StrobeNotifyIInv == ASSUME IInv, NEW c \in Client, StrobeNotify(c) PROVE IInv'
<1>1. /\ client[c] = "strobe_notify" /\ RequestRun /\ Release(c) /\ Goto(c, "ready")
      /\ UNCHANGED <<lists, fronts, backs, conns, shown, staged, requests>>
  BY DEF StrobeNotify
<1>2. overlay[c] \in Registered \cup {NONE}
  BY <1>1, Current DEF Known, Strobing
<1> QED
  BY <1>1, <1>2, HolderType, RequestRunType, Current, Moves
  DEF conns, Holding, Strobing, Freeing

LEMMA FreeOverlayIInv == ASSUME IInv, NEW c \in Client, FreeOverlay(c) PROVE IInv'
<1>1. /\ client[c] = "free" /\ Acquire(overlay[c], c) /\ Goto(c, "free_mixer")
      /\ UNCHANGED <<lists, fronts, backs, delay, conns, shown, staged, requests>>
  BY DEF FreeOverlay
<1>2. overlay[c] = c
  BY <1>1, Current DEF Known, Freeing
<1> QED
  BY <1>1, <1>2, HolderType, Current, Moves DEF delay, conns, Holding, Strobing, Freeing

LEMMA FreeMixerIInv == ASSUME IInv, NEW c \in Client, FreeMixer(c) PROVE IInv'
<1>1. /\ client[c] = "free_mixer" /\ Acquire(MIXER, c) /\ Goto(c, "free_remove")
      /\ UNCHANGED <<lists, fronts, backs, delay, conns, shown, staged, requests>>
  BY DEF FreeMixer
<1>2. overlay[c] = c
  BY <1>1, Current DEF Known, Freeing
<1> QED
  BY <1>1, <1>2, HolderType, Current, Moves DEF delay, conns, Holding, Strobing, Freeing

LEMMA FreeNotifyIInv == ASSUME IInv, NEW c \in Client, FreeNotify(c) PROVE IInv'
<1> DEFINE pc == IF next[c] = BROKEN THEN "free"
                 ELSE IF next[c] = QUIT THEN "closed" ELSE "assign"
<1>1. /\ client[c] = "free_notify" /\ RequestRun /\ Release(c) /\ Goto(c, pc)
      /\ next' = [next EXCEPT ![c] = IF @ = BROKEN THEN QUIT ELSE @]
      /\ UNCHANGED <<lists, fronts, backs, overlay, shown, staged, requests>>
  BY DEF FreeNotify
<1>2. overlay[c] = c /\ c \notin Registered
  BY <1>1, Current DEF Known, Holding, Freeing
<1>3. next' \in [Client -> Token \cup {UNKNOWN, QUIT, BROKEN}]
  BY <1>1, Current
<1>4. pc \in {"free", "closed", "assign"}
  OBVIOUS
<1> HIDE DEF pc
<1> QED
  BY <1>1, <1>2, <1>3, <1>4, HolderType, RequestRunType, Current, Moves
  DEF Holding, Strobing, Freeing

-----------------------------------------------------------------------------
(* Steps that change overlays *)

LEMMA SetIInv ==
  ASSUME IInv, NEW c \in Client, NEW led \in Led, NEW colour \in Colour,
         Set(c, led, colour)
  PROVE  IInv'
<1> DEFINE o == overlay[c]
<1>1. /\ o # NONE /\ requests < MaxRequests /\ requests' = requests + 1
      /\ back' = [back EXCEPT ![o][led] = colour]
      /\ backDirty' = [backDirty EXCEPT ![o] = @ \cup {led}]
      /\ staged' = [staged EXCEPT ![c] = @ \cup {led}]
      /\ UNCHANGED <<lists, fronts, holder, delay, client, conns, shown>>
  BY DEF Set, Request
<1>2. o \in Overlay /\ colour # UNSET
  BY <1>1, Current, MixerAssumption DEF Overlay
<1>3. back \in [Overlay -> [Led -> Colour \cup {UNSET}]] /\ backDirty \in [Overlay -> SUBSET Led]
  BY DEF IInv, Typed, TypeOK
<1>4. /\ back' \in [Overlay -> [Led -> Colour \cup {UNSET}]]
      /\ backDirty' \in [Overlay -> SUBSET Led]
  BY <1>1, <1>2, <1>3
<1>5. requests' \in 0 .. MaxRequests /\ staged' \in [Client -> SUBSET Led]
  BY <1>1, RequestCounts, Current
<1>6. TypeOK'
  BY <1>1, <1>4, <1>5 DEF IInv, Typed, TypeOK, lists, fronts, delay, conns
<1>7. DirtyIsMarked'
  <2>1. ASSUME NEW p \in Overlay, NEW l \in Led
        PROVE  /\ front'[p][l] # back'[p][l] => l \in backDirty'[p]
               /\ l \in backDirty'[p] => back'[p][l] # UNSET
               /\ l \in frontDirty'[p] => front'[p][l] # UNSET
    <3>1. front'[p][l] = front[p][l] /\ frontDirty'[p] = frontDirty[p]
      BY <1>1 DEF fronts
    <3>2. CASE p = o /\ l = led
      <4>1. back'[p][l] = colour /\ l \in backDirty'[p]
        BY <1>1, <1>2, <1>3, <3>2
      <4> QED
        BY <1>2, <3>1, <4>1 DEF IInv, DirtyIsMarked
    <3>3. CASE ~ (p = o /\ l = led)
      <4>1. back'[p][l] = back[p][l] /\ (l \in backDirty'[p] <=> l \in backDirty[p])
        BY <1>1, <1>2, <1>3, <3>3
      <4> QED
        BY <3>1, <4>1 DEF IInv, DirtyIsMarked
    <3> QED
      BY <3>2, <3>3
  <2> QED
    BY <2>1 DEF DirtyIsMarked
<1>8. OverlayIsKnown'
  BY <1>1, ListsKept DEF IInv, OverlayIsKnown, Known, conns
<1>9. StaleIsDirty' /\ ListIsSound' /\ ListIsSorted'
  BY <1>1, DisplayKept, ListsKept DEF delay
<1> QED
  BY <1>1, <1>6, <1>7, <1>8, <1>9 DEF IInv, Typed, lists

LEMMA StrobeSwapIInv == ASSUME IInv, NEW c \in Client, StrobeSwap(c) PROVE IInv'
<1> DEFINE o == overlay[c]
<1>1. /\ client[c] = "strobe_mixer" /\ Acquire(MIXER, c) /\ Goto(c, "strobe_notify")
      /\ staged' = [staged EXCEPT ![c] = {}]
      /\ UNCHANGED <<lists, delay, conns, shown, requests>>
  BY DEF StrobeSwap
<1>2. /\ o \in Registered /\ BuffersTyped /\ DirtyIsMarked'
      /\ \A p \in Overlay : frontDirty[p] \subseteq frontDirty'[p]
      /\ backDirty[o] \subseteq frontDirty'[o]
      /\ \A p \in Overlay, led \in Led :
           p # o \/ led \notin backDirty[o] => front'[p][led] = front[p][led]
  BY StrobeSwaps
<1>3. Registered' = Registered /\ ListIsSound' /\ ListIsSorted' /\ Registered \subseteq Overlay
  BY <1>1, ListsKept, ListFacts DEF Registered, Range
<1>4. /\ client' \in [Client -> {"closed", "ready", "free", "free_mixer",
                                 "free_remove", "free_notify", "assign",
                                 "strobe_mixer", "strobe_notify"}]
      /\ client'[c] = "strobe_notify"
      /\ \A d \in Client : d # c => client'[d] = client[d]
  BY <1>1 DEF Goto, IInv, Typed, TypeOK
<1>5. OverlayIsKnown'
  <2>1. Known(c)'
    BY <1>1, <1>3, <1>4, Current DEF Known, conns, Holding, Strobing, Freeing
  <2> QED
    BY <1>1, <1>3, <1>4, <2>1, KnownOthers DEF conns
<1>6. TypeOK'
  <2>1. holder' \in [Overlay \cup {MIXER} -> Client \cup {MIXER, NONE}]
    BY <1>1, HolderType
  <2>2. staged' \in [Client -> SUBSET Led]
    BY <1>1, Current
  <2> QED
    BY <1>1, <1>2, <1>4, <2>1, <2>2
    DEF IInv, Typed, TypeOK, BuffersTyped, lists, delay, conns
<1>7. ASSUME NEW led \in Led, led \notin Dirty'
      PROVE  led \notin Dirty /\ Blended(led)' = Blended(led)
  <2>1. \A p \in Registered : led \notin frontDirty'[p]
    BY <1>3, <1>7 DEF Dirty
  <2>2. led \notin Dirty
    BY <1>2, <1>3, <2>1 DEF Dirty
  <2>3. led \notin backDirty[o]
    BY <1>2, <2>1
  <2>4. \A i \in DOMAIN overlays : front[overlays[i]][led] = front'[overlays[i]][led]
    BY <1>2, <2>3, ListFacts
  <2>5. BlendOf(overlays, front, led) = BlendOf(overlays, front', led)
    BY <2>4, ListFacts, BlendSame
  <2> QED
    BY <1>1, <2>2, <2>5, BlendedIs, BlendedIsNext DEF lists
<1>8. StaleIsDirty'
  BY <1>1, <1>7, StaleKept DEF delay
<1> QED
  BY <1>1, <1>2, <1>3, <1>5, <1>6, <1>8 DEF IInv, Typed, lists

LEMMA FreeRemoveIInv == ASSUME IInv, NEW c \in Client, FreeRemove(c) PROVE IInv'
<1> DEFINE b == BACKGROUND
<1>1. /\ client[c] = "free_remove" /\ Acquire(b, c) /\ Goto(c, "free_notify")
      /\ UNCHANGED <<priority, delay, conns, shown, staged, requests>>
  BY DEF FreeRemove
<1>2. /\ BuffersTyped /\ DirtyIsMarked'
      /\ \A p \in Overlay : frontDirty[p] \subseteq frontDirty'[p]
      /\ Marked(c) \subseteq frontDirty'[b]
      /\ \A p \in Overlay, led \in Led :
           p # b \/ led \notin Marked(c) => front'[p][led] = front[p][led]
  BY FreeSwaps
<1>3. /\ \/ overlays' = overlays
         \/ \E i \in DOMAIN overlays : HasAt(overlays, i, overlays') /\ overlays[i] = c
      /\ overlays' \in Seq(Overlay)
      /\ Registered' = Registered \ {c}
      /\ ListIsSound' /\ ListIsSorted'
  BY Removes
<1>4. /\ client' \in [Client -> {"closed", "ready", "free", "free_mixer",
                                 "free_remove", "free_notify", "assign",
                                 "strobe_mixer", "strobe_notify"}]
      /\ client'[c] = "free_notify"
      /\ \A d \in Client : d # c => client'[d] = client[d]
  BY <1>1 DEF Goto, IInv, Typed, TypeOK
<1>5. OverlayIsKnown'
  <2>1. Known(c)'
    BY <1>1, <1>3, <1>4, Current DEF Known, conns, Holding, Strobing, Freeing
  <2> QED
    BY <1>1, <1>3, <1>4, <2>1, KnownOthers DEF conns
<1>6. TypeOK'
  <2>1. holder' \in [Overlay \cup {MIXER} -> Client \cup {MIXER, NONE}]
    BY <1>1, HolderType
  <2> QED
    BY <1>1, <1>2, <1>3, <1>4, <2>1
    DEF IInv, Typed, TypeOK, BuffersTyped, delay, conns
<1>7. ASSUME NEW led \in Led, led \notin Dirty'
      PROVE  led \notin Dirty /\ Blended(led)' = Blended(led)
  <2>1. b \in Registered' /\ Registered \subseteq Overlay /\ c \in Overlay
    <3>1. 1 \in DOMAIN overlays' /\ overlays'[1] = b
      BY <1>3 DEF ListIsSound
    <3> QED
      BY <3>1, ListFacts DEF Registered, Range, Overlay
  <2>2. \A p \in Registered' : led \notin frontDirty'[p]
    BY <1>7 DEF Dirty
  <2>3. led \notin Marked(c)
    BY <1>2, <2>1, <2>2
  <2>4. front[c][led] = UNSET
    BY <2>3 DEF Marked, Freed
  <2>5. led \notin Dirty
    <3>1. led \notin frontDirty[c]
      BY <2>1, <2>4 DEF IInv, DirtyIsMarked
    <3>2. \A p \in Registered : p # c => led \notin frontDirty[p]
      BY <1>2, <1>3, <2>1, <2>2
    <3> QED
      BY <3>1, <3>2 DEF Dirty
  <2>6. \A p \in Overlay : front[p][led] = front'[p][led]
    BY <1>2, <2>3
  <2>7. BlendOf(overlays', front, led) = BlendOf(overlays', front', led)
    <3>1. \A i \in DOMAIN overlays' : overlays'[i] \in Overlay
      BY <1>3
    <3> QED
      BY <1>3, <2>6, <3>1, BlendSame
  <2>8. BlendOf(overlays, front, led) = BlendOf(overlays', front, led)
    <3>1. UNSET \notin Opaque
      BY MixerAssumption DEF Colour
    <3>2. ASSUME NEW i \in DOMAIN overlays, HasAt(overlays, i, overlays'), overlays[i] = c
          PROVE  BlendOf(overlays, front, led) = BlendOf(overlays', front, led)
      BY <2>4, <3>1, <3>2, BlendWithout
    <3> QED
      BY <1>3, <3>2
  <2> QED
    BY <2>5, <2>7, <2>8, BlendedIs, BlendedIsNext
<1>8. StaleIsDirty'
  BY <1>1, <1>7, StaleKept DEF delay
<1> QED
  BY <1>1, <1>2, <1>3, <1>5, <1>6, <1>8 DEF IInv, Typed

LEMMA RegisterIInv ==
  ASSUME IInv, NEW c \in Client, Assign(c), next[c] \in Private, Register(c)
  PROVE  IInv'
<1>1. /\ client[c] = "assign" /\ Goto(c, "ready")
      /\ staged' = [staged EXCEPT ![c] = {}]
      /\ UNCHANGED <<holder, delay, next, shown, requests>>
  BY DEF Assign
<1>2. /\ front' = [front EXCEPT ![c] = Unset]
      /\ back' = [back EXCEPT ![c] = Unset]
      /\ frontDirty' = [frontDirty EXCEPT ![c] = {}]
      /\ backDirty' = [backDirty EXCEPT ![c] = {}]
      /\ overlay' = [overlay EXCEPT ![c] = c]
  BY DEF Register
<1>3. /\ \E i \in DOMAIN overlays' : HasAt(overlays', i, overlays) /\ overlays'[i] = c
      /\ c \notin Registered /\ Registered' = Registered \cup {c}
      /\ ListIsSound' /\ ListIsSorted'
      /\ priority' \in [Overlay -> {p \in Int : p >= BOTTOM}]
  BY <1>1, Registers
<1>4. c \in Overlay /\ Registered \subseteq Overlay
  BY ListFacts DEF Overlay, Registered, Range
<1>5. BuffersTyped
  BY <1>2, <1>4, UnsetType DEF IInv, Typed, TypeOK, BuffersTyped
<1>6. /\ front'[c] = Unset /\ back'[c] = Unset /\ frontDirty'[c] = {} /\ backDirty'[c] = {}
      /\ \A p \in Overlay : p # c =>
           /\ front'[p] = front[p] /\ back'[p] = back[p]
           /\ frontDirty'[p] = frontDirty[p] /\ backDirty'[p] = backDirty[p]
  BY <1>2, <1>4 DEF IInv, Typed, TypeOK
<1>7. DirtyIsMarked'
  BY <1>6 DEF IInv, DirtyIsMarked
<1>8. /\ client' \in [Client -> {"closed", "ready", "free", "free_mixer",
                                 "free_remove", "free_notify", "assign",
                                 "strobe_mixer", "strobe_notify"}]
      /\ client'[c] = "ready"
      /\ \A d \in Client : d # c => client'[d] = client[d]
  BY <1>1 DEF Goto, IInv, Typed, TypeOK
<1>9. /\ overlay' \in [Client -> Overlay \cup {NONE}] /\ overlay'[c] = c
      /\ \A d \in Client : d # c => overlay'[d] = overlay[d]
  BY <1>2, <1>4, Current
<1>10. OverlayIsKnown'
  <2>1. Known(c)'
    BY <1>3, <1>8, <1>9 DEF Known, Holding, Strobing, Freeing
  <2> QED
    BY <1>3, <1>8, <1>9, <2>1, KnownOthers
<1>11. TypeOK'
  <2>1. staged' \in [Client -> SUBSET Led]
    BY <1>1, Current
  <2>2. overlays' \in Seq(Overlay)
    BY <1>3 DEF HasAt
  <2> QED
    BY <1>1, <1>5, <1>8, <1>9, <2>1, <2>2 DEF IInv, Typed, TypeOK, BuffersTyped, delay
<1>12. ASSUME NEW led \in Led, led \notin Dirty'
       PROVE  led \notin Dirty /\ Blended(led)' = Blended(led)
  <2>1. led \notin Dirty
    BY <1>3, <1>4, <1>6, <1>12 DEF Dirty
  <2>2. \A i \in DOMAIN overlays : front[overlays[i]][led] = front'[overlays[i]][led]
    BY <1>3, <1>6, ListFacts DEF Registered, Range
  <2>3. BlendOf(overlays, front, led) = BlendOf(overlays, front', led)
    BY <2>2, ListFacts, BlendSame
  <2>4. front'[c][led] \notin Opaque
    BY <1>6, MixerAssumption DEF Unset, Colour
  <2>5. BlendOf(overlays', front', led) = BlendOf(overlays, front', led)
    <3>1. ASSUME NEW i \in DOMAIN overlays', HasAt(overlays', i, overlays), overlays'[i] = c
          PROVE  BlendOf(overlays', front', led) = BlendOf(overlays, front', led)
      BY <2>4, <3>1, BlendWithout
    <3> QED
      BY <1>3, <3>1
  <2> QED
    BY <2>1, <2>3, <2>5, BlendedIs, BlendedIsNext
<1>13. StaleIsDirty'
  BY <1>1, <1>12, StaleKept DEF delay
<1> QED
  BY <1>3, <1>7, <1>10, <1>11, <1>13 DEF IInv, Typed

LEMMA AssignIInv == ASSUME IInv, NEW c \in Client, Assign(c) PROVE IInv'
<1>1. /\ client[c] = "assign" /\ Goto(c, "ready")
      /\ staged' = [staged EXCEPT ![c] = {}]
      /\ UNCHANGED <<holder, delay, next, shown, requests>>
  BY DEF Assign
<1>2. staged' \in [Client -> SUBSET Led] /\ c \notin Registered
  BY <1>1, Current DEF Known, Holding
<1>3. CASE next[c] \in Private /\ Register(c)
  BY <1>3, RegisterIInv
<1>4. ASSUME NEW o \in Registered \cup {NONE}, o \in {NONE} \cup Persistent,
             overlay' = [overlay EXCEPT ![c] = o], UNCHANGED <<lists, fronts, backs>>
      PROVE  IInv'
  <2>1. o \in Overlay \cup {NONE}
    BY <1>4 DEF Overlay
  <2>2. /\ overlay' \in [Client -> Overlay \cup {NONE}] /\ overlay'[c] = o
        /\ \A d \in Client : d # c => overlay'[d] = overlay[d]
    BY <1>4, <2>1, Current
  <2> QED
    BY <1>1, <1>2, <1>4, <2>2, HolderType, Current, Moves
    DEF delay, Holding, Strobing, Freeing
<1>5. CASE next[c] \in Persistent /\ overlay' = [overlay EXCEPT ![c] = next[c]]
           /\ UNCHANGED <<lists, fronts, backs>>
  <2>1. next[c] \in Registered
    BY <1>5 DEF IInv, ListIsSound
  <2> QED
    BY <1>4, <1>5, <2>1
<1>6. CASE overlay' = [overlay EXCEPT ![c] = NONE] /\ UNCHANGED <<lists, fronts, backs>>
  BY <1>4, <1>6
<1> QED
  BY <1>3, <1>5, <1>6 DEF Assign

-----------------------------------------------------------------------------
(* The mixer thread *)

LEMMA MixerQuiet ==
  ASSUME IInv, AwaitRun \/ SpuriousWakeup \/ LockMixer
  PROVE  IInv'
<1>1. UNCHANGED <<lists, fronts, backs, client, conns, staged, requests, shown>>
  BY DEF AwaitRun, SpuriousWakeup, LockMixer, mixerUnchanged, fronts, backs
<1>2. mixer' \in {"check", "waiting", "strobe", "blend"} /\ mixer # "dead"
      /\ realWakeup' \in BOOLEAN
  BY DEF AwaitRun, SpuriousWakeup, LockMixer, IInv, Typed, TypeOK
<1>3. holder' \in [Overlay \cup {MIXER} -> Client \cup {MIXER, NONE}]
  BY HolderType DEF AwaitRun, SpuriousWakeup, LockMixer
<1>4. TypeOK'
  BY <1>1, <1>2, <1>3 DEF IInv, Typed, TypeOK, lists, fronts, backs, conns
<1>5. OverlayIsKnown'
  BY <1>1, ListsKept DEF IInv, OverlayIsKnown, Known, conns
<1> QED
  BY <1>1, <1>2, <1>4, <1>5, Quiet

LEMMA BlendType ==
  ASSUME IInv, NEW led \in Led
  PROVE  Blended(led) \in Opaque \cup {BLACK}
<1>1. CASE \A i \in DOMAIN overlays : front[overlays[i]][led] \notin Opaque
  BY <1>1, BlendNone, BlendedIs
<1>2. ASSUME NEW i \in DOMAIN overlays, OnTop(overlays, front, led, i)
      PROVE  Blended(led) \in Opaque
  BY <1>2, ListFacts, BlendTop, BlendedIs DEF OnTop
<1> QED
  BY <1>1, <1>2, ListFacts, BlendTop

(* The overlays on display have been seen, dead or alive. *)
LEMMA SeenKeeps ==
  ASSUME IInv, Seen, Release(MIXER), UNCHANGED <<mixerUnchanged, realWakeup>>,
         shown' \in [Led -> Opaque \cup {BLACK}], mixer' \in {"check", "dead"}
  PROVE  /\ Typed' /\ ListIsSound' /\ ListIsSorted' /\ OverlayIsKnown' /\ DirtyIsMarked'
         /\ \A led : Blended(led)' = Blended(led)
<1>1. \A o \in Overlay : /\ frontDirty'[o] \in SUBSET Led
                         /\ frontDirty'[o] \subseteq frontDirty[o]
  BY DEF Seen, IInv, Typed, TypeOK
<1>2. frontDirty' \in [Overlay -> SUBSET Led]
  BY <1>1 DEF Seen
<1>3. UNCHANGED <<lists, front, backs, client, conns, staged, requests, realWakeup>>
  BY DEF mixerUnchanged
<1>4. holder' \in [Overlay \cup {MIXER} -> Client \cup {MIXER, NONE}]
  BY HolderType
<1>5. Typed'
  BY <1>2, <1>3, <1>4 DEF IInv, Typed, TypeOK, lists, backs, conns
<1>6. ListIsSound' /\ ListIsSorted'
  BY <1>3, ListsKept
<1>7. OverlayIsKnown'
  BY <1>3, ListsKept DEF IInv, OverlayIsKnown, Known, conns
<1>8. DirtyIsMarked'
  BY <1>1, <1>3 DEF IInv, DirtyIsMarked, backs
<1>9. \A led : Blended(led)' = Blended(led)
  BY <1>3, BlendedIs, BlendedIsNext DEF lists
<1> QED
  BY <1>5, <1>6, <1>7, <1>8, <1>9

LEMMA BlendIInv == ASSUME IInv, Blend PROVE IInv'
<1>1. /\ mixer = "blend" /\ mixer' = "check"
      /\ shown' = [led \in Led |-> IF led \in Dirty THEN Blended(led) ELSE shown[led]]
      /\ Seen /\ Release(MIXER) /\ UNCHANGED <<mixerUnchanged, realWakeup>>
  BY DEF Blend
<1>2. shown \in [Led -> Opaque \cup {BLACK}]
  BY DEF IInv, Typed, TypeOK
<1>3. \A led \in Led :
        (IF led \in Dirty THEN Blended(led) ELSE shown[led]) \in Opaque \cup {BLACK}
  BY <1>2, BlendType
<1>4. shown' \in [Led -> Opaque \cup {BLACK}]
  BY <1>1, <1>3, Zenon
<1>5. /\ Typed' /\ ListIsSound' /\ ListIsSorted' /\ OverlayIsKnown' /\ DirtyIsMarked'
      /\ \A led : Blended(led)' = Blended(led)
  BY <1>1, <1>4, SeenKeeps
<1>6. \A led \in Led : shown[led] = Blended(led) \/ led \in Dirty
  BY <1>1 DEF IInv, StaleIsDirty
<1>7. \A led \in Led : shown'[led] = Blended(led)
  BY <1>1, <1>6
<1>8. StaleIsDirty'
  BY <1>5, <1>7 DEF StaleIsDirty
<1> QED
  BY <1>5, <1>8 DEF IInv

LEMMA BlendFailsIInv == ASSUME IInv, BlendFails PROVE IInv'
<1>1. /\ mixer' = "dead" /\ shown' = shown
      /\ Seen /\ Release(MIXER) /\ UNCHANGED <<mixerUnchanged, realWakeup>>
  BY DEF BlendFails
<1>2. shown' \in [Led -> Opaque \cup {BLACK}]
  BY <1>1 DEF IInv, Typed, TypeOK
<1>3. Typed' /\ ListIsSound' /\ ListIsSorted' /\ OverlayIsKnown' /\ DirtyIsMarked'
  BY <1>1, <1>2, SeenKeeps
<1> QED
  BY <1>1, <1>3 DEF IInv, StaleIsDirty

-----------------------------------------------------------------------------
(* The theorems *)

LEMMA HandleIInv == ASSUME IInv, NEW c \in Client, Handle(c) PROVE IInv'
BY StrobeSwapIInv, StrobeNotifyIInv, FreeOverlayIInv, FreeMixerIInv, FreeRemoveIInv,
   FreeNotifyIInv, AssignIInv
DEF Handle

LEMMA StepIInv == IInv /\ [Next]_vars => IInv'
<1> SUFFICES ASSUME IInv, [Next]_vars PROVE IInv'
  OBVIOUS
<1>1. CASE UNCHANGED vars
  <2>1. UNCHANGED <<lists, fronts, backs, holder, delay, client, conns, shown, staged,
                    requests>>
    BY <1>1 DEF vars
  <2>2. TypeOK'
    BY <2>1 DEF IInv, Typed, TypeOK, lists, fronts, backs, delay, conns
  <2>3. OverlayIsKnown'
    BY <2>1, ListsKept DEF IInv, OverlayIsKnown, Known, conns
  <2> QED
    BY <2>1, <2>2, <2>3, Quiet DEF delay
<1>2. ASSUME NEW c \in Client, Connect(c) \/ Strobe(c) PROVE IInv'
  BY <1>2, ConnectIInv, StrobeIInv
<1>3. ASSUME NEW c \in Client, NEW how \in {QUIT, BROKEN}, Close(c, how) PROVE IInv'
  BY <1>3, CloseIInv
<1>4. ASSUME NEW c \in Client, NEW token \in Token \cup {UNKNOWN}, Auth(c, token) PROVE IInv'
  BY <1>4, AuthIInv
<1>5. ASSUME NEW c \in Client, NEW led \in Led, NEW colour \in Colour, Set(c, led, colour)
      PROVE  IInv'
  BY <1>5, SetIInv
<1>6. ASSUME NEW c \in Client, Handle(c) PROVE IInv'
  BY <1>6, HandleIInv
<1>7. CASE MixerThread \/ SpuriousWakeup \/ BlendFails
  BY <1>7, MixerQuiet, BlendIInv, BlendFailsIInv DEF MixerThread
<1> QED
  BY <1>1, <1>2, <1>3, <1>4, <1>5, <1>6, <1>7 DEF Next

LEMMA Invariance == Spec => []IInv
BY InitIInv, StepIInv, PTL DEF Spec

(* The lists, buffers, monitors and program counters are of their types. *)
THEOREM MixerTypeOK == Spec => []TypeOK
<1>1. IInv => TypeOK
  BY DEF IInv, Typed
<1> QED
  BY <1>1, Invariance, PTL

(* However many connections register, free and authenticate, the overlays stay
   in the order of their priorities above the background, none twice, and no
   connection leaves one behind or writes to one that is not on display. *)
THEOREM OverlaysStayInOrder == Spec => []OverlaysInOrder
<1>1. ASSUME IInv PROVE OverlaysInOrder
  <2>1. overlays[1] = BACKGROUND
    BY <1>1 DEF IInv, ListIsSound
  <2>2. ASSUME NEW i \in DOMAIN overlays, NEW j \in DOMAIN overlays, i < j
        PROVE  priority[overlays[i]] <= priority[overlays[j]] /\ overlays[i] # overlays[j]
    <3>1. i # j
      BY <1>1, <2>2, ListFacts
    <3> QED
      BY <1>1, <2>2, <3>1 DEF IInv, ListIsSound, ListIsSorted
  <2>3. ASSUME NEW c \in Client
        PROVE  /\ c \in Registered => overlay[c] = c /\ client[c] # "closed"
               /\ client[c] \in {"ready", "strobe_mixer", "strobe_notify"} =>
                    overlay[c] \in Registered \cup {NONE}
    BY <1>1, Current DEF Known, Holding, Strobing
  <2> QED
    BY <2>1, <2>2, <2>3 DEF OverlaysInOrder
<1> QED
  BY <1>1, Invariance, PTL

(* While the mixer thread lives, whatever the LEDs do not show yet is marked
   dirty in an overlay it will look at: no change is overlooked. *)
THEOREM NothingOverlooked == Spec => []StaleIsDirty
<1>1. IInv => StaleIsDirty
  BY DEF IInv
<1> QED
  BY <1>1, Invariance, PTL

(* What a connection has staged in an overlay of its own gets to the front only
   by the strobe, or the freeing, that leaves it nothing staged. *)
THEOREM StagedUntilStrobe == Spec => ChangesWaitForStrobe
<1> DEFINE Waits == \A c \in Client : \A led \in staged[c] :
                      overlay[c] = c
                      /\ front'[overlay[c]][led] # front[overlay[c]][led]
                      => staged'[c] = {}
<1>1. ASSUME IInv, [Next]_vars PROVE Waits
  <2> SUFFICES ASSUME NEW c \in Client, NEW led \in staged[c], overlay[c] = c,
                      front'[c][led] # front[c][led]
               PROVE  staged'[c] = {}
    OBVIOUS
  <2>1. led \in Led /\ c \in Overlay /\ c # BACKGROUND /\ c # NONE /\ c \notin Persistent
    BY <1>1, Current, MixerAssumption DEF Overlay
  <2>2. front' # front
    OBVIOUS
  <2>3. PICK d \in Client : StrobeSwap(d) \/ FreeRemove(d) \/ Assign(d)
    BY <1>1, <2>2
    DEF vars, fronts, Next, Connect, Strobe, Close, Auth, Set, Handle, StrobeNotify,
        FreeOverlay, FreeMixer, FreeNotify, MixerThread, AwaitRun, SpuriousWakeup,
        LockMixer, Blend, BlendFails, mixerUnchanged
  <2>4. front \in [Overlay -> [Led -> Colour \cup {UNSET}]] /\ staged \in [Client -> SUBSET Led]
    BY <1>1 DEF IInv, Typed, TypeOK
  <2>5. CASE StrobeSwap(d)
    <3>1. overlay[d] = c
      <4>1. front' = [front EXCEPT ![overlay[d]] = back[overlay[d]]]
        BY <2>5 DEF StrobeSwap, Swap
      <4> QED
        BY <2>1, <2>4, <4>1
    <3>2. d = c
      BY <1>1, <2>1, <3>1, Current
    <3> QED
      BY <2>4, <2>5, <3>2 DEF StrobeSwap
  <2>6. CASE FreeRemove(d)
    BY <1>1, <2>1, <2>6, FreeSwaps
  <2>7. CASE Assign(d)
    <3>1. front' = [front EXCEPT ![d] = Unset] /\ staged' = [staged EXCEPT ![d] = {}]
      BY <2>2, <2>7 DEF Assign, Register, fronts
    <3>2. d = c
      BY <2>1, <2>4, <3>1
    <3> QED
      BY <2>4, <3>1, <3>2
  <2> QED
    BY <2>3, <2>5, <2>6, <2>7
<1>2. Spec => [][Waits]_vars
  BY <1>1, Invariance, PTL DEF Spec
<1> QED
  BY <1>2 DEF ChangesWaitForStrobe

=============================================================================
