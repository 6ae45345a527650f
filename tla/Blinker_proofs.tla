--------------------------- MODULE Blinker_proofs ---------------------------
(***************************************************************************)
(* Proofs about Blinker, for any number of LED ids and of threads, any     *)
(* options and colours, and fades in any number of steps:                  *)
(*                                                                         *)
(* - ThreadsConsistent: the inductive invariant,                           *)
(* - BlinkerTypeCorrect: its part about the types,                         *)
(* - FadesAreTogether: each write sets the LEDs of one thread to one       *)
(*   colour, one step of a fade away from the one before.                  *)
(***************************************************************************)
EXTENDS Blinker, SequenceTheorems, WellFoundedInduction, TLAPS

-----------------------------------------------------------------------------
(* The inductive invariant *)

Id == 0 .. ID_LIMIT - 1
Byte == 0 .. 255

(* What the buffer of commands may hold *)
Command == (Id \X Byte) \union {STROBE}

TypeOK ==
  /\ option \in LedOptions
  /\ colorset \in SUBSET Colors
  /\ async \in BOOLEAN
  /\ LEDs \in Seq(Id)
  /\ main \in {"init", "start", "poll", "join", "ended", "aborted"}
  /\ threads \in Seq(Seq(Id))
  /\ signal \in BOOLEAN
  /\ thread_return_flag \in BOOLEAN
  /\ pc \in [Thread -> {"pick", "lock", "set", "returned"}]
  /\ last_color \in [Thread -> Byte]
  /\ new_color \in [Thread -> Byte]
  /\ step \in [Thread -> 0 .. fade_steps]
  /\ next \in [Thread -> Nat \ {0}]
  /\ holder \in Thread \union {NONE}
  /\ cmd_buffer \in Seq(Command)
  /\ written \in [Thread -> Seq(Command)]

(* Threads are started when the LEDs are known, and there is room for them. *)
StartInv ==
  /\ Len(threads) <= MaxThreads
  /\ main = "init" => threads = <<>>
  /\ main = "start" => Len(LEDs) <= MaxThreads

(* A thread that was not started has done nothing. *)
IdleInv ==
  \A t \in Thread \ DOMAIN threads : pc[t] = "pick" /\ written[t] = <<>>

(* The thread in set_leds is the one that holds the mutex. *)
MutexInv == \A t \in Thread : pc[t] = "set" <=> holder = t

(* The buffer is what the holder has put there, in this call of set_leds. *)
Filled(leds, n, color) == [i \in 1 .. n |-> <<leds[i], color>>]

BufferInv ==
  Running =>
    /\ holder = NONE => cmd_buffer = <<>>
    /\ holder # NONE =>
         /\ next[holder] - 1 <= Len(threads[holder])
         /\ cmd_buffer = Filled(threads[holder], next[holder] - 1, Color(holder))

(* A fade's colour in a step *)
Level(old, new, s) == (old * (fade_steps - s) + new * s) \div fade_steps

(* The colour that the LEDs of a thread had last *)
Shown(t) ==
  IF pc[t] \in {"pick", "returned"} \/ step[t] = 0 THEN last_color[t]
  ELSE Level(last_color[t], new_color[t], step[t] - 1)

WrittenInv ==
  \A t \in DOMAIN threads :
    written[t] # <<>> => written[t] = Commands(threads[t], Shown(t))

IInv == TypeOK /\ StartInv /\ IdleInv /\ MutexInv /\ BufferInv /\ WrittenInv

-----------------------------------------------------------------------------
(* Quotients and fades *)

LEMMA Quotient ==
  ASSUME NEW a \in Int, NEW d \in Nat, d # 0
  PROVE  /\ a \div d \in Int
         /\ d * (a \div d) <= a
         /\ a < d * (a \div d) + d
  OBVIOUS

LEMMA Monotone ==
  ASSUME NEW a \in Int, NEW b \in Int, NEW d \in Nat, a <= b
  PROVE  a * d <= b * d
  <1>1. (b - a) \in Nat
    OBVIOUS
  <1>2. (b - a) * d \in Nat
    BY <1>1
  <1>3. (b - a) * d = b * d - a * d
    OBVIOUS
  <1> QED BY <1>2, <1>3

LEMMA QuotientIs ==
  ASSUME NEW a \in Int, NEW d \in Nat, d # 0
  PROVE  (a * d) \div d = a
  OBVIOUS

LEMMA QuotientBound ==
  ASSUME NEW a \in Int, NEW d \in Nat, d # 0, NEW m \in Nat, a <= m * d, 0 <= a
  PROVE  a \div d \in 0 .. m
  <1> DEFINE q == a \div d
  <1>1. q \in Int /\ d * q <= a /\ a < d * q + d
    BY Quotient
  <1> HIDE DEF q
  <1>2. CASE q < 0
    <2>1. q + 1 <= 0
      BY <1>1, <1>2
    <2>2. (q + 1) * d <= 0 * d
      BY <2>1, <1>1, Monotone
    <2>3. (q + 1) * d = d * q + d
      BY <1>1
    <2> QED BY <1>1, <2>2, <2>3
  <1>3. CASE m + 1 <= q
    <2>1. (m + 1) * d <= q * d
      BY <1>3, <1>1, Monotone
    <2>2. (m + 1) * d = m * d + d /\ q * d = d * q
      BY <1>1
    <2> QED BY <1>1, <2>1, <2>2
  <1>4. q \in 0 .. m
    BY <1>1, <1>2, <1>3
  <1> QED BY <1>4 DEF q

(* A byte for every step of a fade, from the old colour to the new one *)
LEMMA Levels ==
  ASSUME NEW old \in Byte, NEW new \in Byte, NEW s \in 0 .. fade_steps
  PROVE  /\ Level(old, new, s) \in Byte
         /\ Level(old, new, 0) = old
         /\ Level(old, new, fade_steps) = new
  <1> DEFINE x == old * (fade_steps - s)
             y == new * s
  <1>1. fade_steps \in Nat /\ fade_steps # 0 /\ s \in Nat /\ fade_steps - s \in Nat
    BY BlinkerAssumption
  <1>2. old \in Nat /\ new \in Nat /\ old <= 255 /\ new <= 255
    BY DEF Byte
  <1>3. x \in Nat /\ y \in Nat
    BY <1>1, <1>2
  <1>4. x <= 255 * (fade_steps - s) /\ y <= 255 * s
    BY <1>1, <1>2, Monotone
  <1>5. 255 * (fade_steps - s) + 255 * s = 255 * fade_steps
    BY <1>1
  <1>6. Level(old, new, s) = (x + y) \div fade_steps
    BY DEF Level
  <1> HIDE DEF x, y
  <1>7. x + y \in Int /\ 0 <= x + y /\ x + y <= 255 * fade_steps
    BY <1>1, <1>3, <1>4, <1>5
  <1>8. (x + y) \div fade_steps \in 0 .. 255
    BY <1>1, <1>7, QuotientBound
  <1>9. Level(old, new, 0) = old
    <2>1. old * (fade_steps - 0) + new * 0 = old * fade_steps
      BY <1>1, <1>2
    <2> QED BY <1>1, <1>2, <2>1, QuotientIs DEF Level
  <1>10. Level(old, new, fade_steps) = new
    <2>1. old * (fade_steps - fade_steps) + new * fade_steps = new * fade_steps
      BY <1>1, <1>2
    <2> QED BY <1>1, <1>2, <2>1, QuotientIs DEF Level
  <1> QED BY <1>6, <1>8, <1>9, <1>10 DEF Byte

(* Quotients of numbers that are at most a byte apart *)
LEMMA NearQuotients ==
  ASSUME NEW a \in Int, NEW b \in Int, a - b <= 255, b - a <= 255
  PROVE  Near(a \div fade_steps, b \div fade_steps)
  <1> DEFINE p == a \div fade_steps
             q == b \div fade_steps
  <1>1. fade_steps \in Nat /\ fade_steps # 0
    BY BlinkerAssumption
  <1>2. /\ p \in Int /\ fade_steps * p <= a /\ a < fade_steps * p + fade_steps
        /\ q \in Int /\ fade_steps * q <= b /\ b < fade_steps * q + fade_steps
    BY <1>1, Quotient
  <1> HIDE DEF p, q
  <1>3. /\ (q - p) * fade_steps = fade_steps * q - fade_steps * p
        /\ (p - q) * fade_steps = fade_steps * p - fade_steps * q
        /\ fade_steps * p \in Int /\ fade_steps * q \in Int
    BY <1>1, <1>2
  <1>4. /\ (q - p) * fade_steps <= 255 + fade_steps - 1
        /\ (p - q) * fade_steps <= 255 + fade_steps - 1
    BY <1>1, <1>2, <1>3
  <1>5. Near(p, q)
    BY <1>4 DEF Near
  <1> QED BY <1>5 DEF p, q

LEMMA LevelsNear ==
  ASSUME NEW old \in Byte, NEW new \in Byte, NEW s \in 0 .. fade_steps - 1
  PROVE  Near(Level(old, new, s), Level(old, new, s + 1))
  <1> DEFINE a == old * (fade_steps - s) + new * s
             b == old * (fade_steps - (s + 1)) + new * (s + 1)
  <1>1. fade_steps \in Nat /\ s \in Nat
    BY BlinkerAssumption
  <1>2. old \in Nat /\ new \in Nat /\ old <= 255 /\ new <= 255
    BY DEF Byte
  <1>3. a \in Int /\ b \in Int /\ b - a = new - old
    BY <1>1, <1>2
  <1>4. Near(a \div fade_steps, b \div fade_steps)
    <2> HIDE DEF a, b
    <2> QED BY <1>2, <1>3, NearQuotients
  <1> QED BY <1>4 DEF Level

LEMMA NearItself ==
  ASSUME NEW a \in Int
  PROVE  Near(a, a)
  <1>1. a - a = 0 /\ 0 * fade_steps = 0 /\ 0 <= 255 + fade_steps - 1
    BY BlinkerAssumption
  <1>2. ~(a < a)
    OBVIOUS
  <1> QED BY <1>1, <1>2 DEF Near

-----------------------------------------------------------------------------
(* The list of LEDs *)

(* What str_to_ids has found so far *)
Reading == [list : Seq(Id), word : Id \union {NONE}, tmp_id : Id,
            in_range : BOOLEAN, error : BOOLEAN]

LEMMA UnreadTyped == Unread \in Reading
  <1>1. 0 \in Id
    BY BlinkerAssumption DEF Id
  <1>2. <<>> \in Seq(Id)
    BY EmptySeq
  <1> QED BY <1>1, <1>2 DEF Unread, Reading

LEMMA EndOfWordTyped ==
  ASSUME NEW s \in Reading
  PROVE  EndOfWord(s) \in Reading
  <1>1. /\ s.list \in Seq(Id) /\ s.word \in Id \union {NONE} /\ s.tmp_id \in Id
        /\ s.in_range \in BOOLEAN /\ s.error \in BOOLEAN
    BY DEF Reading
  <1>2. CASE s.word = NONE
    BY <1>2 DEF EndOfWord, Reading
  <1>3. CASE s.word # NONE /\ ~s.in_range
    <2>1. Append(s.list, s.word) \in Seq(Id)
      BY <1>1, <1>3, AppendProperties
    <2> QED BY <1>3, <2>1 DEF EndOfWord, Reading
  <1>4. CASE s.word # NONE /\ s.in_range
    <2>1. CASE s.word < s.tmp_id \/ s.word = ID_LIMIT - 1
      BY <1>4, <2>1 DEF EndOfWord, Reading
    <2>2. CASE ~(s.word < s.tmp_id \/ s.word = ID_LIMIT - 1)
      <3> DEFINE n == s.word - s.tmp_id + 1
                 ids == [i \in 1 .. n |-> s.tmp_id + i - 1]
      <3>1. n \in Nat /\ \A i \in 1 .. n : s.tmp_id + i - 1 \in Id
        BY <1>1, <1>4, <2>2, BlinkerAssumption DEF Id
      <3>2. ids \in Seq(Id)
        BY <3>1, IsASeq
      <3> HIDE DEF n
      <3> HIDE DEF ids
      <3>3. s.list \o ids \in Seq(Id)
        BY <1>1, <3>2, ConcatProperties
      <3>4. EndOfWord(s) = [s EXCEPT !.list = s.list \o ids, !.word = NONE]
        BY <1>4, <2>2 DEF EndOfWord, ids, n
      <3> QED BY <3>3, <3>4 DEF Reading
    <2> QED BY <2>1, <2>2
  <1> QED BY <1>1, <1>2, <1>3, <1>4

LEMMA AnyNumber ==
  ASSUME NEW n \in Nat
  PROVE  n % ID_LIMIT \in Id
  BY BlinkerAssumption DEF Id

LEMMA ScanTyped ==
  ASSUME NEW s \in Reading, NEW item \in Item
  PROVE  Scan(s, item) \in Reading
  <1>1. item.is \in {"number", ",", "-", "other"} /\ item.value \in Nat
    BY DEF Item
  <1>2. CASE s.error \/ item.is = "other"
    BY <1>2 DEF Scan, Reading
  <1>3. CASE ~(s.error \/ item.is = "other") /\ item.is = "number"
    <2>1. item.value % ID_LIMIT \in Id
      BY <1>1, AnyNumber, Zenon
    <2>2. Scan(s, item) = [s EXCEPT !.word = item.value % ID_LIMIT]
      BY <1>3 DEF Scan
    <2> HIDE DEF Id
    <2> QED BY <2>1, <2>2 DEF Reading
  <1>4. CASE ~(s.error \/ item.is = "other") /\ item.is = ","
    BY <1>4, EndOfWordTyped DEF Scan
  <1>5. CASE ~(s.error \/ item.is = "other") /\ item.is = "-"
    <2>1. Scan(s, item) = IF s.in_range \/ s.word = NONE THEN [s EXCEPT !.error = TRUE]
                          ELSE [s EXCEPT !.in_range = TRUE, !.tmp_id = s.word, !.word = NONE]
      BY <1>5 DEF Scan
    <2> QED BY <2>1 DEF Reading
  <1> QED BY <1>1, <1>2, <1>3, <1>4, <1>5

(* A set of numbers that holds 0, and n + 1 with each n, holds them all. *)
LEMMA Induction ==
  ASSUME NEW S, 0 \in S, \A n \in Nat : n \in S => n + 1 \in S
  PROVE  Nat \subseteq S
  <1> DEFINE Others == Nat \ S
  <1>1. CASE Others # {}
    <2>1. PICK m \in Others : \A n \in Others : <<n, m>> \notin OpToRel(<, Nat)
      BY <1>1, NatLessThanWellFounded, WFMin, Zenon
    <2>2. m # 0 /\ m \in Nat /\ m - 1 \in Nat /\ m - 1 < m /\ (m - 1) + 1 = m
      OBVIOUS
    <2>3. <<m - 1, m>> \in OpToRel(<, Nat)
      <3>1. <<m - 1, m>> \in Nat \X Nat /\ <<m - 1, m>>[1] < <<m - 1, m>>[2]
        BY <2>2
      <3> QED BY <3>1, Zenon DEF OpToRel
    <2>4. m - 1 \in S
      BY <2>1, <2>2, <2>3
    <2> QED BY <2>2, <2>4
  <1> QED BY <1>1

(* f holds what was found after each item. *)
Scanned(f, items) ==
  f = [n \in 0 .. Len(items) |-> IF n = 0 THEN Unread ELSE Scan(f[n - 1], items[n])]

LEMMA ScannedExists ==
  ASSUME NEW items \in Seq(Item)
  PROVE  \E f : Scanned(f, items)
  <1> DEFINE Upto(f, k) ==
        f = [n \in 0 .. k |-> IF n = 0 THEN Unread ELSE Scan(f[n - 1], items[n])]
             S == {k \in Nat : \E f : Upto(f, k)}
  <1>1. 0 \in S
    <2> DEFINE f == [n \in 0 .. 0 |-> Unread]
    <2>1. Upto(f, 0)
      OBVIOUS
    <2> QED BY <2>1
  <1>2. ASSUME NEW k \in Nat, k \in S PROVE k + 1 \in S
    <2>1. PICK f : Upto(f, k)
      BY <1>2
    <2> DEFINE g == [n \in 0 .. k + 1 |-> IF n = k + 1 THEN Scan(f[k], items[k + 1]) ELSE f[n]]
    <2>2. ASSUME NEW n \in 0 .. k + 1
          PROVE  g[n] = IF n = 0 THEN Unread ELSE Scan(g[n - 1], items[n])
      <3>1. CASE n = k + 1
        <4>1. n - 1 = k /\ n # 0 /\ k \in 0 .. k + 1 /\ k # k + 1
          BY <3>1
        <4>2. g[n - 1] = f[k] /\ g[n] = Scan(f[k], items[k + 1])
          BY <3>1, <4>1
        <4> QED BY <3>1, <4>1, <4>2
      <3>2. CASE n # k + 1 /\ n # 0
        <4>1. n \in 0 .. k /\ n - 1 \in 0 .. k + 1 /\ n - 1 # k + 1
          BY <3>2
        <4>2. g[n] = f[n] /\ g[n - 1] = f[n - 1]
          BY <3>2, <4>1
        <4>3. f[n] = Scan(f[n - 1], items[n])
          BY <2>1, <3>2, <4>1
        <4> QED BY <3>2, <4>2, <4>3
      <3>3. CASE n = 0
        <4>1. 0 \in 0 .. k /\ 0 # k + 1 /\ 0 \in 0 .. k + 1
          OBVIOUS
        <4>2. g[0] = f[0] /\ f[0] = Unread
          BY <2>1, <4>1
        <4> QED BY <3>3, <4>2
      <3> QED BY <3>1, <3>2, <3>3
    <2>3. g = [n \in 0 .. k + 1 |-> g[n]]
      OBVIOUS
    <2> HIDE DEF g
    <2>4. Upto(g, k + 1)
      BY <2>2, <2>3
    <2> QED BY <2>4
  <1>3. Len(items) \in S
    <2>1. Nat \subseteq S
      <3> HIDE DEF S
      <3> QED BY <1>1, <1>2, Induction
    <2>2. Len(items) \in Nat
      BY LenProperties
    <2> QED BY <2>1, <2>2
  <1> QED BY <1>3 DEF Scanned

(* Whatever the option is, the list holds ids. *)
LEMMA ListOfIds ==
  ASSUME NEW items \in Seq(Item)
  PROVE  str_to_ids(items).list \in Seq(Id)
  <1> DEFINE f == CHOOSE g : Scanned(g, items)
             s == f[Len(items)]
             S == {n \in Nat : n <= Len(items) => f[n] \in Reading}
  <1>1. Len(items) \in Nat
    BY LenProperties
  <1>2. str_to_ids(items) = IF s.word = NONE \/ s.error THEN s ELSE EndOfWord(s)
    BY Zenon DEF str_to_ids, Scanned
  <1>3. Scanned(f, items)
    BY ScannedExists
  <1> HIDE DEF f
  <1>4. 0 \in S
    <2>1. f[0] = Unread
      BY <1>1, <1>3 DEF Scanned
    <2> QED BY <2>1, UnreadTyped
  <1>5. ASSUME NEW n \in Nat, n \in S PROVE n + 1 \in S
    <2>1. CASE n + 1 <= Len(items)
      <3>1. n <= Len(items) /\ n + 1 \in 0 .. Len(items) /\ n + 1 # 0 /\ (n + 1) - 1 = n
            /\ n + 1 \in 1 .. Len(items)
        BY <1>1, <2>1
      <3>2. f[n] \in Reading
        BY <1>5, <3>1
      <3>3. items[n + 1] \in Item
        BY <3>1, ElementOfSeq
      <3>4. f[n + 1] = Scan(f[n], items[n + 1])
        BY <1>3, <3>1 DEF Scanned
      <3>5. f[n + 1] \in Reading
        BY <3>2, <3>3, <3>4, ScanTyped
      <3> QED BY <3>5
    <2> QED BY <2>1
  <1>6. Len(items) \in S
    <2>1. Nat \subseteq S
      <3> HIDE DEF S
      <3> QED BY <1>4, <1>5, Induction
    <2> QED BY <1>1, <2>1
  <1>7. s \in Reading
    BY <1>1, <1>6
  <1> HIDE DEF s
  <1>8. str_to_ids(items) \in Reading
    BY <1>2, <1>7, EndOfWordTyped
  <1> QED BY <1>8 DEF Reading

-----------------------------------------------------------------------------
(* What is put in the buffer *)

LEMMA FilledProperties ==
  ASSUME NEW leds \in Seq(Id), NEW n \in 0 .. Len(leds), NEW color \in Byte
  PROVE  /\ Filled(leds, n, color) \in Seq(Command)
         /\ Len(Filled(leds, n, color)) = n
         /\ \A i \in 1 .. n : Filled(leds, n, color)[i] = <<leds[i], color>>
  <1>1. n \in Nat /\ n <= Len(leds)
    BY LenProperties
  <1>2. \A i \in 1 .. n : <<leds[i], color>> \in Command
    <2> SUFFICES ASSUME NEW i \in 1 .. n PROVE <<leds[i], color>> \in Command
      OBVIOUS
    <2>1. i \in 1 .. Len(leds)
      BY <1>1, LenProperties
    <2>2. leds[i] \in Id
      BY <2>1, ElementOfSeq
    <2> QED BY <2>2 DEF Command
  <1>3. Filled(leds, n, color) \in Seq(Command)
    BY <1>1, <1>2, IsASeq DEF Filled
  <1>4. DOMAIN Filled(leds, n, color) = 1 .. n
    BY DEF Filled
  <1>5. Len(Filled(leds, n, color)) = n
    BY <1>1, <1>3, <1>4, LenProperties
  <1> QED BY <1>3, <1>5 DEF Filled

LEMMA StrobeIsCommand == STROBE \in Command
  BY DEF Command

LEMMA FilledNext ==
  ASSUME NEW leds \in Seq(Id), NEW n \in 1 .. Len(leds), NEW color \in Byte
  PROVE  Append(Filled(leds, n - 1, color), <<leds[n], color>>) = Filled(leds, n, color)
  <1> DEFINE f == Filled(leds, n - 1, color)
             g == Filled(leds, n, color)
             e == <<leds[n], color>>
  <1>1. Len(leds) \in Nat /\ n \in Nat /\ n - 1 \in 0 .. Len(leds) /\ n \in 0 .. Len(leds)
        /\ n \in 1 .. n /\ (n - 1) + 1 = n
    BY LenProperties
  <1>2. /\ f \in Seq(Command) /\ Len(f) = n - 1
        /\ \A i \in 1 .. n - 1 : f[i] = <<leds[i], color>>
    BY <1>1, FilledProperties
  <1>3. /\ g \in Seq(Command) /\ Len(g) = n
        /\ \A i \in 1 .. n : g[i] = <<leds[i], color>>
    BY <1>1, FilledProperties
  <1>4. e \in Command
    <2>1. leds[n] \in Id
      BY ElementOfSeq
    <2> QED BY <2>1 DEF Command
  <1>5. g[n] = e
    BY <1>1, <1>3
  <1> HIDE DEF f
  <1> HIDE DEF g
  <1> HIDE DEF e
  <1>6. /\ Append(f, e) \in Seq(Command) /\ Len(Append(f, e)) = n
        /\ \A i \in 1 .. n - 1 : Append(f, e)[i] = f[i]
        /\ Append(f, e)[n] = e
    <2>1. /\ Append(f, e) \in Seq(Command) /\ Len(Append(f, e)) = (n - 1) + 1
          /\ \A i \in 1 .. n - 1 : Append(f, e)[i] = f[i]
          /\ Append(f, e)[(n - 1) + 1] = e
      BY <1>2, <1>4, AppendProperties
    <2> QED BY <1>1, <2>1
  <1>7. \A i \in 1 .. n : Append(f, e)[i] = g[i]
    <2> SUFFICES ASSUME NEW i \in 1 .. n PROVE Append(f, e)[i] = g[i]
      OBVIOUS
    <2>1. CASE i = n
      BY <1>5, <1>6, <2>1
    <2>2. CASE i # n
      <3>1. i \in 1 .. n - 1
        BY <1>1, <2>2
      <3> QED BY <1>2, <1>3, <1>6, <3>1
    <2> QED BY <2>1, <2>2
  <1>8. Append(f, e) = g
    BY <1>3, <1>6, <1>7, SeqEqual
  <1> QED BY <1>8 DEF e, f, g

LEMMA CommandsAre ==
  ASSUME NEW leds \in Seq(Id), NEW color
  PROVE  Commands(leds, color) = Append(Filled(leds, Len(leds), color), STROBE)
  <1>1. DOMAIN leds = 1 .. Len(leds)
    BY LenProperties
  <1> QED BY <1>1, Zenon DEF Commands, Filled

(* Of the commands for the LEDs of a thread, the first tells their colour. *)
LEMMA FirstCommand ==
  ASSUME NEW leds \in Seq(Id), NEW color \in Byte
  PROVE  /\ Commands(leds, color) \in Seq(Command)
         /\ Commands(leds, color) # <<>>
         /\ leds # <<>> => Commands(leds, color)[1][2] = color
         /\ leds = <<>> => Commands(leds, color) = <<STROBE>>
  <1> DEFINE f == Filled(leds, Len(leds), color)
  <1>1. Len(leds) \in Nat /\ Len(leds) \in 0 .. Len(leds)
    BY LenProperties
  <1>2. /\ f \in Seq(Command) /\ Len(f) = Len(leds)
        /\ \A i \in 1 .. Len(leds) : f[i] = <<leds[i], color>>
    BY <1>1, FilledProperties
  <1>3. Commands(leds, color) = Append(f, STROBE)
    BY CommandsAre
  <1> HIDE DEF f
  <1>4. /\ Append(f, STROBE) \in Seq(Command) /\ Append(f, STROBE) # <<>>
        /\ \A i \in 1 .. Len(leds) : Append(f, STROBE)[i] = f[i]
    BY <1>2, StrobeIsCommand, AppendProperties
  <1>5. ASSUME leds # <<>> PROVE Commands(leds, color)[1][2] = color
    <2>1. 1 \in 1 .. Len(leds)
      BY <1>1, <1>5, EmptySeq
    <2>2. Append(f, STROBE)[1] = <<leds[1], color>>
      BY <1>2, <1>4, <2>1
    <2> QED BY <1>3, <2>2
  <1>6. ASSUME leds = <<>> PROVE Commands(leds, color) = <<STROBE>>
    <2>1. f = <<>>
      <3>1. Len(f) = 0
        BY <1>2, <1>6, EmptySeq
      <3> QED BY <1>2, <3>1, EmptySeq
    <2>2. Append(<<>>, STROBE) = <<STROBE>>
      OBVIOUS
    <2> QED BY <1>3, <2>1, <2>2
  <1> QED BY <1>3, <1>4, <1>5, <1>6

(* Two writes of a thread are as far apart as their colours. *)
LEMMA NearCommands ==
  ASSUME NEW leds \in Seq(Id), NEW a \in Byte, NEW b \in Byte, Near(a, b)
  PROVE  LET c == Commands(leds, b)[1][2] IN
         /\ Commands(leds, b) = Commands(leds, c)
         /\ Near(Commands(leds, a)[1][2], c)
  <1>1. CASE leds = <<>>
    <2>1. Commands(leds, a) = <<STROBE>> /\ Commands(leds, b) = <<STROBE>>
      BY <1>1, FirstCommand
    <2>2. <<STROBE>>[1][2] = NONE
      BY DEF STROBE
    <2>3. Commands(leds, NONE) = <<STROBE>>
      <3>1. Len(leds) = 0
        BY <1>1, EmptySeq
      <3>2. Filled(leds, 0, NONE) = Filled(leds, 0, b)
        BY DEF Filled
      <3> QED BY <2>1, <3>1, <3>2, CommandsAre
    <2>4. NONE \in Int
      BY DEF NONE
    <2>5. Near(NONE, NONE)
      BY <2>4, NearItself
    <2> QED BY <2>1, <2>2, <2>3, <2>5
  <1>2. CASE leds # <<>>
    <2>1. Commands(leds, a)[1][2] = a /\ Commands(leds, b)[1][2] = b
      BY <1>2, FirstCommand
    <2> QED BY <2>1
  <1> QED BY <1>1, <1>2

-----------------------------------------------------------------------------
(* The initial states and the steps of the main thread *)

LEMMA Constants ==
  /\ ID_LIMIT \in Nat /\ ID_LIMIT # 0
  /\ fade_steps \in Nat /\ fade_steps # 0
  /\ MaxThreads \in Nat /\ MaxThreads # 0
  /\ Colors \subseteq Byte
  /\ Drawn \subseteq Colors \union colorset
  /\ NONE \notin Thread
  BY BlinkerAssumption DEF Byte, Drawn, NONE, Thread

LEMMA InitKeeps ==
  ASSUME Init
  PROVE  IInv
  <1>1. 0 \in Byte /\ 0 \in 0 .. fade_steps /\ 1 \in Nat \ {0}
    BY Constants DEF Byte
  <1>2. /\ <<>> \in Seq(Id) /\ <<>> \in Seq(Command) /\ <<>> \in Seq(Seq(Id))
        /\ Len(<<>>) = 0
    BY EmptySeq
  <1>3. TypeOK
    BY <1>1, <1>2 DEF Init, TypeOK, BLACK
  <1>4. StartInv
    BY <1>2, Constants DEF Init, StartInv
  <1>5. IdleInv /\ MutexInv
    BY Constants DEF Init, IdleInv, MutexInv
  <1>6. BufferInv /\ WrittenInv
    <2>1. DOMAIN threads = {}
      BY <1>2 DEF Init
    <2> QED BY <2>1 DEF Init, BufferInv, WrittenInv
  <1> QED BY <1>3, <1>4, <1>5, <1>6 DEF IInv

LEMMA ThreadsFit ==
  ASSUME TypeOK, StartInv
  PROVE  /\ DOMAIN threads = 1 .. Len(threads) /\ Len(threads) \in Nat
         /\ DOMAIN threads \subseteq Thread
         /\ \A t \in DOMAIN threads : threads[t] \in Seq(Id)
  <1>1. threads \in Seq(Seq(Id))
    BY DEF TypeOK
  <1>2. DOMAIN threads = 1 .. Len(threads) /\ Len(threads) \in Nat
    BY <1>1, LenProperties
  <1>3. \A t \in DOMAIN threads : threads[t] \in Seq(Id)
    BY <1>1, <1>2, ElementOfSeq
  <1>4. DOMAIN threads \subseteq Thread
    BY <1>2, Constants DEF StartInv, Thread
  <1> QED BY <1>2, <1>3, <1>4

LEMMA ConnectKeeps ==
  ASSUME IInv, Connect
  PROVE  IInv'
  <1> USE DEF IInv
  <1>1. str_to_ids(option).list \in Seq(Id)
    <2>1. option \in Seq(Item)
      BY BlinkerAssumption DEF TypeOK
    <2> QED BY <2>1, ListOfIds
  <1>2. TypeOK'
    BY <1>1 DEF Connect, TypeOK, settings, locals, client
  <1>3. StartInv'
    <2>1. CASE main' = "start" /\ ~str_to_ids(option).error
      <3>1. Len(str_to_ids(option).list) <= MaxThreads
        BY <2>1, ThreadsAssumption DEF TypeOK
      <3> QED BY <2>1, <3>1 DEF Connect, StartInv
    <2>2. CASE main' = "ended"
      BY <2>2 DEF Connect, StartInv
    <2> QED BY <2>1, <2>2 DEF Connect
  <1>4. IdleInv' /\ MutexInv'
    BY DEF Connect, IdleInv, MutexInv, locals, client
  <1>5. BufferInv'
    BY DEF Connect, BufferInv, Running, Color, locals, client
  <1>6. WrittenInv'
    BY DEF Connect, WrittenInv, Shown, locals, client
  <1> QED BY <1>2, <1>3, <1>4, <1>5, <1>6

LEMMA StartedTyped ==
  ASSUME TypeOK
  PROVE  /\ Started \in Seq(Seq(Id))
         /\ async => Len(Started) = Len(LEDs)
         /\ ~async => Len(Started) = 1
  <1>1. LEDs \in Seq(Id) /\ Len(LEDs) \in Nat /\ DOMAIN LEDs = 1 .. Len(LEDs)
    BY LenProperties DEF TypeOK
  <1>2. CASE async
    <2>1. Started = [i \in 1 .. Len(LEDs) |-> <<LEDs[i]>>]
      BY <1>1, <1>2 DEF Started
    <2>2. \A i \in 1 .. Len(LEDs) : <<LEDs[i]>> \in Seq(Id)
      <3> SUFFICES ASSUME NEW i \in 1 .. Len(LEDs) PROVE <<LEDs[i]>> \in Seq(Id)
        OBVIOUS
      <3>1. LEDs[i] \in Id
        BY <1>1, ElementOfSeq
      <3> QED BY <3>1
    <2>3. [i \in 1 .. Len(LEDs) |-> <<LEDs[i]>>] \in Seq(Seq(Id))
      BY <1>1, <2>2, IsASeq
    <2>4. DOMAIN Started = 1 .. Len(LEDs)
      BY <2>1
    <2>5. Len(Started) = Len(LEDs)
      BY <1>1, <2>1, <2>3, <2>4, LenProperties
    <2> QED BY <1>2, <2>1, <2>3, <2>5
  <1>3. CASE ~async
    <2>1. Started = <<LEDs>>
      BY <1>3 DEF Started
    <2> QED BY <1>1, <1>3, <2>1
  <1> QED BY <1>2, <1>3

LEMMA StartThreadKeeps ==
  ASSUME IInv, StartThread
  PROVE  IInv'
  <1> USE DEF IInv
  <1>1. /\ DOMAIN threads = 1 .. Len(threads) /\ Len(threads) \in Nat
        /\ DOMAIN threads \subseteq Thread
        /\ \A t \in DOMAIN threads : threads[t] \in Seq(Id)
    BY ThreadsFit
  <1>2. main = "start"
    BY DEF StartThread
  <1>3. CASE Len(threads) < Len(Started)
    <2> DEFINE n == Len(threads) + 1
    <2>1. threads' = Append(threads, Started[n]) /\ main' = main
      BY <1>3 DEF StartThread
    <2>2. Started \in Seq(Seq(Id)) /\ Len(Started) \in Nat
      BY StartedTyped, LenProperties
    <2>3. Started[n] \in Seq(Id)
      <3>1. n \in 1 .. Len(Started)
        BY <1>1, <1>3, <2>2
      <3> QED BY <2>2, <3>1, ElementOfSeq
    <2>4. /\ threads' \in Seq(Seq(Id)) /\ Len(threads') = n
          /\ \A i \in 1 .. Len(threads) : threads'[i] = threads[i]
      <3> HIDE DEF IInv
      <3>1. threads \in Seq(Seq(Id))
        BY DEF IInv, TypeOK
      <3> QED BY <2>1, <2>3, <3>1, AppendProperties
    <2>5. Len(Started) <= MaxThreads
      <3>1. Len(LEDs) <= MaxThreads
        BY <1>2 DEF StartInv
      <3>2. 1 <= MaxThreads
        BY Constants
      <3> QED BY <3>1, <3>2, StartedTyped DEF TypeOK
    <2>6. n <= MaxThreads
      BY <1>1, <1>3, <2>2, <2>5, Constants
    <2>7. DOMAIN threads' = 1 .. n
      BY <2>4, LenProperties
    <2>8. n \in Thread \ DOMAIN threads /\ DOMAIN threads \subseteq DOMAIN threads'
          /\ DOMAIN threads' = DOMAIN threads \union {n}
      BY <1>1, <2>6, <2>7, Constants DEF Thread
    <2>9. pc' = pc /\ written' = written /\ holder' = holder /\ next' = next
          /\ last_color' = last_color /\ new_color' = new_color /\ step' = step
          /\ cmd_buffer' = cmd_buffer /\ LEDs' = LEDs
      BY DEF StartThread, locals, client
    <2>10. TypeOK'
      BY <2>1, <2>4 DEF StartThread, TypeOK, settings, locals, client
    <2>11. StartInv'
      BY <1>2, <2>1, <2>4, <2>6, <2>9 DEF StartInv
    <2>12. IdleInv'
      BY <2>8, <2>9 DEF IdleInv
    <2>13. MutexInv'
      BY <2>9 DEF MutexInv
    <2>14. BufferInv'
      <3>1. CASE holder = NONE
        BY <1>2, <2>1, <2>9, <3>1 DEF BufferInv, Running
      <3>2. CASE holder # NONE
        <4>1. holder \in DOMAIN threads
          BY <3>2 DEF TypeOK, MutexInv, IdleInv
        <4>2. threads'[holder] = threads[holder]
          BY <1>1, <2>4, <4>1
        <4>3. Color(holder)' = Color(holder)
          BY <2>9 DEF Color
        <4>4. Running
          BY <1>2 DEF Running
        <4>5. next[holder] - 1 <= Len(threads[holder])
              /\ cmd_buffer = Filled(threads[holder], next[holder] - 1, Color(holder))
          BY <3>2, <4>4 DEF BufferInv
        <4> QED BY <2>9, <3>2, <4>2, <4>3, <4>5 DEF BufferInv
      <3> QED BY <3>1, <3>2
    <2>15. WrittenInv'
      <3> SUFFICES ASSUME NEW t \in DOMAIN threads', written[t] # <<>>
                   PROVE  written[t] = Commands(threads'[t], Shown(t)')
        BY <2>9 DEF WrittenInv
      <3>1. t \in DOMAIN threads
        BY <2>8 DEF IdleInv
      <3>2. threads'[t] = threads[t]
        BY <1>1, <2>4, <3>1
      <3>3. Shown(t)' = Shown(t)
        BY <2>9 DEF Shown
      <3> QED BY <3>1, <3>2, <3>3 DEF WrittenInv
    <2> QED BY <2>10, <2>11, <2>12, <2>13, <2>14, <2>15
  <1>4. CASE ~(Len(threads) < Len(Started))
    <2>1. threads' = threads /\ main' = "poll"
      BY <1>4 DEF StartThread
    <2>2. TypeOK'
      BY <2>1 DEF StartThread, TypeOK, settings, locals, client
    <2>3. StartInv'
      BY <2>1 DEF StartThread, StartInv
    <2>4. IdleInv' /\ MutexInv'
      BY <2>1 DEF StartThread, IdleInv, MutexInv, locals, client
    <2>5. BufferInv'
      BY <1>2, <2>1 DEF StartThread, BufferInv, Running, Color, locals, client
    <2>6. WrittenInv'
      BY <2>1 DEF StartThread, WrittenInv, Shown, locals, client
    <2> QED BY <2>2, <2>3, <2>4, <2>5, <2>6
  <1> QED BY <1>3, <1>4

LEMMA PollKeeps ==
  ASSUME IInv, Poll
  PROVE  IInv'
  <1> USE DEF IInv
  <1>1. TypeOK'
    BY DEF Poll, TypeOK, settings, locals, client
  <1>2. StartInv'
    BY DEF Poll, StartInv
  <1>3. IdleInv' /\ MutexInv'
    BY DEF Poll, IdleInv, MutexInv, locals, client
  <1>4. BufferInv'
    BY DEF Poll, BufferInv, Running, Color, locals, client
  <1>5. WrittenInv'
    BY DEF Poll, WrittenInv, Shown, locals, client
  <1> QED BY <1>1, <1>2, <1>3, <1>4, <1>5

LEMMA JoinKeeps ==
  ASSUME IInv, Join
  PROVE  IInv'
  <1> USE DEF IInv
  <1>1. TypeOK'
    BY DEF Join, TypeOK, settings, locals, client
  <1>2. StartInv'
    BY DEF Join, StartInv
  <1>3. IdleInv' /\ MutexInv'
    BY DEF Join, IdleInv, MutexInv, locals, client
  <1>4. BufferInv'
    BY DEF Join, BufferInv, Running
  <1>5. WrittenInv'
    BY DEF Join, WrittenInv, Shown, locals, client
  <1> QED BY <1>1, <1>2, <1>3, <1>4, <1>5

LEMMA SignalKeeps ==
  ASSUME IInv, signal_handler
  PROVE  IInv'
  <1> USE DEF IInv
  <1>1. TypeOK'
    BY DEF signal_handler, TypeOK, settings, locals, client
  <1>2. StartInv'
    BY DEF signal_handler, StartInv
  <1>3. IdleInv' /\ MutexInv'
    BY DEF signal_handler, IdleInv, MutexInv, locals, client
  <1>4. BufferInv'
    BY DEF signal_handler, BufferInv, Running, Color, locals, client
  <1>5. WrittenInv'
    BY DEF signal_handler, WrittenInv, Shown, locals, client
  <1> QED BY <1>1, <1>2, <1>3, <1>4, <1>5

(* When the program is aborted *)
LEMMA AbortKeeps ==
  ASSUME IInv, main' = "aborted", cmd_buffer' \in Seq(Command),
         UNCHANGED <<settings, LEDs, threads, signal, thread_return_flag, locals, holder,
                     written>>
  PROVE  IInv'
  <1> USE DEF IInv
  <1>1. TypeOK'
    BY DEF TypeOK, settings, locals
  <1>2. StartInv'
    BY DEF StartInv
  <1>3. IdleInv' /\ MutexInv'
    BY DEF IdleInv, MutexInv, locals
  <1>4. BufferInv'
    BY DEF BufferInv, Running
  <1>5. WrittenInv'
    BY DEF WrittenInv, Shown, locals
  <1> QED BY <1>1, <1>2, <1>3, <1>4, <1>5

LEMMA StutterKeeps ==
  ASSUME IInv, UNCHANGED vars
  PROVE  IInv'
  <1> USE DEF IInv, vars, settings, locals, client
  <1>1. TypeOK'
    BY DEF TypeOK
  <1>2. StartInv'
    BY DEF StartInv
  <1>3. IdleInv' /\ MutexInv'
    BY DEF IdleInv, MutexInv
  <1>4. BufferInv'
    BY DEF BufferInv, Running, Color
  <1>5. WrittenInv'
    BY DEF WrittenInv, Shown
  <1> QED BY <1>1, <1>2, <1>3, <1>4, <1>5

-----------------------------------------------------------------------------
(* The steps of the other threads *)

LEMMA PickKeeps ==
  ASSUME IInv, NEW t \in DOMAIN threads, Running, Pick(t)
  PROVE  IInv'
  <1> USE DEF IInv
  <1>1. t \in Thread
    BY ThreadsFit
  <1>2. /\ main' = main /\ threads' = threads /\ LEDs' = LEDs /\ next' = next
        /\ last_color' = last_color /\ holder' = holder /\ cmd_buffer' = cmd_buffer
        /\ written' = written /\ thread_return_flag' = thread_return_flag
        /\ option' = option /\ colorset' = colorset /\ async' = async /\ signal' = signal
    BY DEF Pick, settings, client
  <1>3. pc[t] = "pick"
    BY DEF Pick
  <1>4. /\ \A u \in Thread \ {t} : /\ pc'[u] = pc[u] /\ step'[u] = step[u]
                                   /\ new_color'[u] = new_color[u]
        /\ pc' \in [Thread -> {"pick", "lock", "set", "returned"}]
        /\ new_color' \in [Thread -> Byte]
        /\ step' \in [Thread -> 0 .. fade_steps]
        /\ pc'[t] = "returned" \/ (pc'[t] = "lock" /\ step'[t] = 0)
    <2>1. CASE thread_return_flag
      BY <1>1, <2>1 DEF Pick, TypeOK
    <2>2. CASE ~thread_return_flag
      <3>1. PICK c \in Drawn : /\ pc' = [pc EXCEPT ![t] = "lock"]
                               /\ new_color' = [new_color EXCEPT ![t] = c]
                               /\ step' = [step EXCEPT ![t] = 0]
        BY <2>2 DEF Pick
      <3>2. c \in Byte /\ 0 \in 0 .. fade_steps
        BY Constants DEF TypeOK
      <3> QED BY <1>1, <3>1, <3>2 DEF TypeOK
    <2> QED BY <2>1, <2>2
  <1>5. TypeOK'
    BY <1>2, <1>4 DEF TypeOK
  <1>6. StartInv'
    BY <1>2 DEF StartInv
  <1>7. IdleInv'
    BY <1>1, <1>2, <1>4 DEF IdleInv
  <1>8. MutexInv'
    BY <1>1, <1>2, <1>3, <1>4 DEF MutexInv
  <1>9. BufferInv'
    <2>1. holder # t
      BY <1>1, <1>3 DEF MutexInv
    <2>2. ASSUME holder # NONE PROVE Color(holder)' = Color(holder)
      <3>1. holder \in Thread \ {t}
        BY <2>1, <2>2 DEF TypeOK
      <3> QED BY <1>2, <1>4, <3>1 DEF Color
    <2> QED BY <1>2, <2>2 DEF BufferInv, Running
  <1>10. WrittenInv'
    <2> SUFFICES ASSUME NEW u \in DOMAIN threads PROVE Shown(u)' = Shown(u)
      BY <1>2 DEF WrittenInv
    <2>1. u \in Thread
      BY ThreadsFit
    <2> QED BY <1>2, <1>3, <1>4, <2>1 DEF Shown
  <1> QED BY <1>5, <1>6, <1>7, <1>8, <1>9, <1>10

LEMMA LockKeeps ==
  ASSUME IInv, NEW t \in DOMAIN threads, Running, Lock(t)
  PROVE  IInv'
  <1> USE DEF IInv
  <1>1. t \in Thread /\ threads[t] \in Seq(Id) /\ Len(threads[t]) \in Nat
    BY ThreadsFit, LenProperties
  <1>2. /\ main' = main /\ threads' = threads /\ LEDs' = LEDs /\ last_color' = last_color
        /\ new_color' = new_color /\ step' = step /\ cmd_buffer' = cmd_buffer
        /\ written' = written /\ thread_return_flag' = thread_return_flag
        /\ option' = option /\ colorset' = colorset /\ async' = async /\ signal' = signal
    BY DEF Lock, settings
  <1>3. /\ pc[t] = "lock" /\ holder = NONE /\ holder' = t
        /\ pc' = [pc EXCEPT ![t] = "set"] /\ next' = [next EXCEPT ![t] = 1]
    BY DEF Lock
  <1>4. pc'[t] = "set" /\ next'[t] = 1 /\ \A u \in Thread \ {t} : pc'[u] = pc[u]
    BY <1>1, <1>3 DEF TypeOK
  <1>5. TypeOK'
    <2>1. 1 \in Nat \ {0}
      OBVIOUS
    <2> QED BY <1>1, <1>2, <1>3, <2>1 DEF TypeOK
  <1>6. StartInv'
    BY <1>2 DEF StartInv
  <1>7. IdleInv'
    BY <1>2, <1>4 DEF IdleInv
  <1>8. MutexInv'
    <2> SUFFICES ASSUME NEW u \in Thread PROVE pc'[u] = "set" <=> t = u
      BY <1>3 DEF MutexInv
    <2>1. pc[u] # "set"
      BY <1>3, Constants DEF MutexInv
    <2> QED BY <1>4, <2>1
  <1>9. BufferInv'
    <2>1. cmd_buffer = <<>>
      BY <1>3 DEF BufferInv
    <2>2. Filled(threads[t], 0, Color(t)') = <<>>
      BY DEF Filled
    <2>3. t # NONE /\ next'[t] - 1 = 0 /\ 0 <= Len(threads[t])
      BY <1>1, <1>4, Constants
    <2> QED BY <1>2, <1>3, <2>1, <2>2, <2>3 DEF BufferInv
  <1>10. WrittenInv'
    <2> SUFFICES ASSUME NEW u \in DOMAIN threads PROVE Shown(u)' = Shown(u)
      BY <1>2 DEF WrittenInv
    <2>1. u \in Thread
      BY ThreadsFit
    <2>2. pc'[u] \in {"pick", "returned"} <=> pc[u] \in {"pick", "returned"}
      BY <1>3, <1>4, <2>1
    <2> QED BY <1>2, <2>2 DEF Shown
  <1> QED BY <1>5, <1>6, <1>7, <1>8, <1>9, <1>10

(* What is known of the thread that is in set_leds *)
LEMMA Holder ==
  ASSUME IInv, NEW t \in DOMAIN threads, Running, pc[t] = "set"
  PROVE  /\ t \in Thread /\ holder = t /\ t # NONE
         /\ threads[t] \in Seq(Id) /\ Len(threads[t]) \in Nat
         /\ next[t] \in Nat \ {0} /\ next[t] - 1 <= Len(threads[t])
         /\ last_color[t] \in Byte /\ new_color[t] \in Byte /\ step[t] \in 0 .. fade_steps
         /\ Color(t) = Level(last_color[t], new_color[t], step[t])
         /\ Color(t) \in Byte
         /\ cmd_buffer = Filled(threads[t], next[t] - 1, Color(t))
  <1> USE DEF IInv
  <1>1. t \in Thread /\ threads[t] \in Seq(Id) /\ Len(threads[t]) \in Nat
    BY ThreadsFit, LenProperties
  <1>2. holder = t /\ t # NONE
    BY <1>1, Constants DEF MutexInv
  <1>3. /\ next[t] \in Nat \ {0} /\ last_color[t] \in Byte /\ new_color[t] \in Byte
        /\ step[t] \in 0 .. fade_steps
    BY <1>1 DEF TypeOK
  <1>4. Color(t) = Level(last_color[t], new_color[t], step[t])
    BY DEF Color, Level
  <1>5. Color(t) \in Byte
    BY <1>3, <1>4, Levels
  <1>6. /\ next[t] - 1 <= Len(threads[t])
        /\ cmd_buffer = Filled(threads[t], next[t] - 1, Color(t))
    BY <1>2 DEF BufferInv
  <1> QED BY <1>1, <1>2, <1>3, <1>4, <1>5, <1>6

LEMMA SetLedKeeps ==
  ASSUME IInv, NEW t \in DOMAIN threads, Running, set_led(t)
  PROVE  IInv'
  <1> USE DEF IInv
  <1>1. /\ main' = main /\ threads' = threads /\ LEDs' = LEDs /\ last_color' = last_color
        /\ new_color' = new_color /\ step' = step /\ pc' = pc /\ holder' = holder
        /\ written' = written /\ thread_return_flag' = thread_return_flag
        /\ option' = option /\ colorset' = colorset /\ async' = async /\ signal' = signal
    BY DEF set_led, settings
  <1>2. /\ pc[t] = "set" /\ next[t] <= Len(threads[t])
        /\ next' = [next EXCEPT ![t] = @ + 1]
        /\ cmd_buffer' = Append(cmd_buffer, <<threads[t][next[t]], Color(t)>>)
    BY DEF set_led
  <1>3. /\ t \in Thread /\ holder = t /\ t # NONE
        /\ threads[t] \in Seq(Id) /\ Len(threads[t]) \in Nat
        /\ next[t] \in Nat \ {0} /\ Color(t) \in Byte
        /\ cmd_buffer = Filled(threads[t], next[t] - 1, Color(t))
    BY <1>2, Holder
  <1>4. next[t] \in 1 .. Len(threads[t]) /\ next[t] + 1 \in Nat \ {0}
        /\ (next[t] + 1) - 1 = next[t]
    BY <1>2, <1>3
  <1>5. next'[t] = next[t] + 1
    BY <1>2, <1>3 DEF TypeOK
  <1>6. cmd_buffer' = Filled(threads[t], next[t], Color(t))
    BY <1>2, <1>3, <1>4, FilledNext
  <1>7. cmd_buffer' \in Seq(Command)
    <2>1. next[t] \in 0 .. Len(threads[t])
      BY <1>4
    <2> QED BY <1>3, <1>6, <2>1, FilledProperties
  <1>8. TypeOK'
    <2>1. next' \in [Thread -> Nat \ {0}]
      BY <1>2, <1>3, <1>4 DEF TypeOK
    <2> QED BY <1>1, <1>7, <2>1 DEF TypeOK
  <1>9. StartInv'
    BY <1>1 DEF StartInv
  <1>10. IdleInv' /\ MutexInv'
    BY <1>1 DEF IdleInv, MutexInv
  <1>11. BufferInv'
    <2>1. Color(t)' = Color(t)
      BY <1>1 DEF Color
    <2>2. next'[t] - 1 = next[t]
      BY <1>4, <1>5
    <2> QED BY <1>1, <1>2, <1>3, <1>6, <2>1, <2>2 DEF BufferInv
  <1>12. WrittenInv'
    BY <1>1 DEF WrittenInv, Shown
  <1> QED BY <1>8, <1>9, <1>10, <1>11, <1>12

(* Every LED of the thread is in the buffer. *)
LEMMA Complete ==
  ASSUME IInv, NEW t \in DOMAIN threads, Running, flush(t)
  PROVE  Append(cmd_buffer, STROBE) = Commands(threads[t], Color(t))
  <1>1. pc[t] = "set" /\ next[t] > Len(threads[t])
    BY DEF flush
  <1>2. /\ threads[t] \in Seq(Id) /\ Len(threads[t]) \in Nat
        /\ next[t] \in Nat \ {0} /\ next[t] - 1 <= Len(threads[t])
        /\ cmd_buffer = Filled(threads[t], next[t] - 1, Color(t))
    BY <1>1, Holder
  <1>3. next[t] - 1 = Len(threads[t])
    BY <1>1, <1>2
  <1> QED BY <1>2, <1>3, CommandsAre

LEMMA FlushKeeps ==
  ASSUME IInv, NEW t \in DOMAIN threads, Running, flush(t)
  PROVE  IInv'
  <1> USE DEF IInv
  <1>1. /\ main' = main /\ threads' = threads /\ LEDs' = LEDs /\ new_color' = new_color
        /\ next' = next /\ thread_return_flag' = thread_return_flag
        /\ option' = option /\ colorset' = colorset /\ async' = async /\ signal' = signal
    BY DEF flush, settings
  <1>2. /\ pc[t] = "set" /\ cmd_buffer' = <<>> /\ holder' = NONE
        /\ written' = [written EXCEPT ![t] = Append(cmd_buffer, STROBE)]
    BY DEF flush
  <1>3. /\ t \in Thread /\ holder = t /\ threads[t] \in Seq(Id)
        /\ last_color[t] \in Byte /\ new_color[t] \in Byte /\ step[t] \in 0 .. fade_steps
        /\ Color(t) = Level(last_color[t], new_color[t], step[t])
        /\ Color(t) \in Byte
    BY <1>2, Holder
  <1>4. written' = [written EXCEPT ![t] = Commands(threads[t], Color(t))]
    BY <1>2, Complete
  <1>5. /\ \A u \in Thread \ {t} : /\ pc'[u] = pc[u] /\ step'[u] = step[u]
                                   /\ last_color'[u] = last_color[u]
                                   /\ written'[u] = written[u]
        /\ pc'[t] \in {"lock", "pick"}
        /\ pc' \in [Thread -> {"pick", "lock", "set", "returned"}]
        /\ last_color' \in [Thread -> Byte]
        /\ step' \in [Thread -> 0 .. fade_steps]
    <2>1. CASE step[t] < fade_steps
      <3>1. step[t] + 1 \in 0 .. fade_steps
        BY <1>3, <2>1, Constants
      <3> QED BY <1>3, <1>4, <2>1, <3>1 DEF flush, TypeOK
    <2>2. CASE ~(step[t] < fade_steps)
      BY <1>3, <1>4, <2>2 DEF flush, TypeOK
    <2> QED BY <2>1, <2>2
  <1>6. written'[t] = Commands(threads[t], Color(t))
    BY <1>3, <1>4 DEF TypeOK
  <1>7. TypeOK'
    <2>1. Commands(threads[t], Color(t)) \in Seq(Command) /\ <<>> \in Seq(Command)
      BY <1>3, FirstCommand, EmptySeq
    <2>2. written' \in [Thread -> Seq(Command)]
      BY <1>3, <1>4, <2>1 DEF TypeOK
    <2> QED BY <1>1, <1>2, <1>5, <2>1, <2>2 DEF TypeOK
  <1>8. StartInv'
    BY <1>1 DEF StartInv
  <1>9. IdleInv'
    BY <1>1, <1>5 DEF IdleInv
  <1>10. MutexInv'
    <2> SUFFICES ASSUME NEW u \in Thread PROVE pc'[u] # "set"
      BY <1>2, Constants DEF MutexInv
    <2>1. CASE u = t
      BY <1>5, <2>1
    <2>2. CASE u # t
      BY <1>3, <1>5, <2>2 DEF MutexInv
    <2> QED BY <2>1, <2>2
  <1>11. BufferInv'
    BY <1>2 DEF BufferInv
  <1>12. WrittenInv'
    <2> SUFFICES ASSUME NEW u \in DOMAIN threads, written'[u] # <<>>
                 PROVE  written'[u] = Commands(threads[u], Shown(u)')
      BY <1>1 DEF WrittenInv
    <2>1. u \in Thread
      BY ThreadsFit
    <2>2. CASE u # t
      <3>1. Shown(u)' = Shown(u)
        BY <1>1, <1>5, <2>1, <2>2 DEF Shown
      <3> QED BY <1>5, <2>1, <2>2, <3>1 DEF WrittenInv
    <2>3. CASE u = t
      <3>1. Shown(t)' = Color(t)
        <4>1. CASE step[t] < fade_steps
          <5>1. /\ pc'[t] = "lock" /\ step'[t] = step[t] + 1
                /\ last_color' = last_color
            BY <1>3, <4>1 DEF flush, TypeOK
          <5>2. step[t] + 1 # 0 /\ (step[t] + 1) - 1 = step[t]
            BY <1>3, Constants
          <5> QED BY <1>1, <1>3, <5>1, <5>2 DEF Shown
        <4>2. CASE ~(step[t] < fade_steps)
          <5>1. pc'[t] = "pick" /\ last_color'[t] = new_color[t]
            BY <1>3, <4>2 DEF flush, TypeOK
          <5>2. step[t] = fade_steps
            BY <1>3, <4>2, Constants
          <5>3. Color(t) = new_color[t]
            BY <1>3, <5>2, Levels
          <5> QED BY <5>1, <5>3 DEF Shown
        <4> QED BY <4>1, <4>2
      <3> QED BY <1>6, <2>3, <3>1
    <2> QED BY <2>2, <2>3
  <1> QED BY <1>7, <1>8, <1>9, <1>10, <1>11, <1>12

-----------------------------------------------------------------------------
(* The theorems *)

LEMMA NextKeeps ==
  ASSUME IInv, [Next]_vars
  PROVE  IInv'
  <1>1. CASE Connect
    BY <1>1, ConnectKeeps
  <1>2. CASE StartThread
    BY <1>2, StartThreadKeeps
  <1>3. CASE Poll
    BY <1>3, PollKeeps
  <1>4. CASE Join
    BY <1>4, JoinKeeps
  <1>5. CASE signal_handler
    BY <1>5, SignalKeeps
  <1>6. ASSUME NEW t \in Thread, ThreadStep(t) PROVE IInv'
    <2>1. t \in DOMAIN threads /\ Running
      BY <1>6 DEF ThreadStep
    <2> QED BY <1>6, <2>1, PickKeeps, LockKeeps, SetLedKeeps, FlushKeeps DEF ThreadStep
  <1>7. ASSUME NEW t \in DOMAIN threads, PickCrashes(t) PROVE IInv'
    <2>1. /\ main' = "aborted" /\ cmd_buffer' = cmd_buffer
          /\ UNCHANGED <<settings, LEDs, threads, signal, thread_return_flag, locals,
                         holder, written>>
      BY <1>7 DEF PickCrashes, client
    <2>2. cmd_buffer' \in Seq(Command)
      BY <2>1 DEF IInv, TypeOK
    <2> QED BY <2>1, <2>2, AbortKeeps
  <1>8. ASSUME NEW t \in DOMAIN threads, WriteFails(t) PROVE IInv'
    <2>1. /\ main' = "aborted" /\ cmd_buffer' = <<>>
          /\ UNCHANGED <<settings, LEDs, threads, signal, thread_return_flag, locals,
                         holder, written>>
      BY <1>8 DEF WriteFails
    <2>2. cmd_buffer' \in Seq(Command)
      BY <2>1, EmptySeq
    <2> QED BY <2>1, <2>2, AbortKeeps
  <1>9. CASE UNCHANGED vars
    BY <1>9, StutterKeeps
  <1> QED BY <1>1, <1>2, <1>3, <1>4, <1>5, <1>6, <1>7, <1>8, <1>9 DEF Next, Main

(* The invariant holds in every state: what is in the common buffer was put
   there by the thread that holds the mutex of set_leds, in this call, and each
   thread's last write is the colour its fade has reached. *)
THEOREM ThreadsConsistent == Spec => []IInv
  <1>1. Init => IInv
    BY InitKeeps
  <1>2. IInv /\ [Next]_vars => IInv'
    BY NextKeeps
  <1> QED BY <1>1, <1>2, PTL DEF Spec

(* Ids and bytes stay in their ranges, whatever option and colours the blinker
   is called with. *)
THEOREM BlinkerTypeCorrect == Spec => []TypeOK
  <1>1. IInv => TypeOK
    BY DEF IInv
  <1> QED BY <1>1, ThreadsConsistent, PTL

(* A step of a fade *)
LEMMA FadeStep ==
  ASSUME IInv, NEW t \in DOMAIN threads, Running, flush(t)
  PROVE  Near(Shown(t), Color(t)) /\ Shown(t) \in Byte
  <1>1. /\ last_color[t] \in Byte /\ new_color[t] \in Byte /\ step[t] \in 0 .. fade_steps
        /\ Color(t) = Level(last_color[t], new_color[t], step[t])
        /\ pc[t] = "set"
    BY Holder DEF flush
  <1>2. CASE step[t] = 0
    <2>1. Shown(t) = last_color[t]
      BY <1>2 DEF Shown
    <2>2. Level(last_color[t], new_color[t], 0) = last_color[t]
      BY <1>1, Levels
    <2>3. Color(t) = last_color[t]
      BY <1>1, <1>2, <2>2
    <2>4. last_color[t] \in Int
      BY <1>1 DEF Byte
    <2> QED BY <1>1, <2>1, <2>3, <2>4, NearItself
  <1>3. CASE step[t] # 0
    <2> DEFINE s == step[t] - 1
    <2>1. s \in 0 .. fade_steps - 1 /\ s \in 0 .. fade_steps /\ s + 1 = step[t]
      BY <1>1, <1>3, Constants
    <2>2. Shown(t) = Level(last_color[t], new_color[t], s)
      BY <1>1, <1>3 DEF Shown
    <2> HIDE DEF s
    <2>3. Level(last_color[t], new_color[t], s) \in Byte
      BY <1>1, <2>1, Levels
    <2>4. Near(Level(last_color[t], new_color[t], s), Level(last_color[t], new_color[t], s + 1))
      BY <1>1, <2>1, LevelsNear
    <2> QED BY <1>1, <2>1, <2>2, <2>3, <2>4
  <1> QED BY <1>2, <1>3

LEMMA WritesTogether ==
  ASSUME IInv, Next, NEW t \in DOMAIN threads, written'[t] # written[t]
  PROVE  LET c == written'[t][1][2] IN
         /\ written'[t] = Commands(threads[t], c)
         /\ written[t] # <<>> => Near(written[t][1][2], c)
  <1>1. t \in Thread /\ threads[t] \in Seq(Id)
    BY ThreadsFit DEF IInv
  <1>2. Running /\ flush(t)
    <2>1. PICK u \in DOMAIN threads : Running /\ flush(u)
      BY DEF Next, Main, Connect, StartThread, Poll, Join, signal_handler, ThreadStep,
             Pick, Lock, set_led, PickCrashes, WriteFails, client
    <2>2. u = t
      BY <1>1, <2>1 DEF flush, IInv, TypeOK
    <2> QED BY <2>1, <2>2
  <1>3. written'[t] = Commands(threads[t], Color(t))
    BY <1>1, <1>2, Complete DEF flush, IInv, TypeOK
  <1>4. Color(t) \in Byte /\ Shown(t) \in Byte /\ Near(Shown(t), Color(t))
    BY <1>2, Holder, FadeStep DEF flush
  <1>5. written[t] # <<>> => written[t] = Commands(threads[t], Shown(t))
    BY DEF IInv, WrittenInv
  <1>6. LET c == Commands(threads[t], Color(t))[1][2] IN
        /\ Commands(threads[t], Color(t)) = Commands(threads[t], c)
        /\ Near(Commands(threads[t], Shown(t))[1][2], c)
    BY <1>1, <1>4, NearCommands
  <1> QED BY <1>3, <1>5, <1>6

(* However the threads of the blinker are scheduled, what one of them writes
   sets all its LEDs, and no others, to one colour, which is one step of its
   fade away from the colour it wrote before: the mutex of set_leds keeps the
   commands of the threads in the common buffer apart. *)
THEOREM FadesAreTogether == Spec => FadesTogether
  <1> DEFINE A == \A t \in DOMAIN threads :
               written'[t] # written[t] =>
                 LET c == written'[t][1][2] IN
                 /\ written'[t] = Commands(threads[t], c)
                 /\ written[t] # <<>> => Near(written[t][1][2], c)
  <1>1. IInv /\ [Next]_vars => [A]_vars
    BY WritesTogether
  <1>2. Spec => [][A]_vars
    BY <1>1, ThreadsConsistent, PTL DEF Spec
  <1> QED BY <1>2 DEF FadesTogether

=============================================================================
