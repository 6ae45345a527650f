---------------------------- MODULE Protocol_proofs ----------------------------
(***************************************************************************)
(* Proofs about the network protocol end to end: for every library, any    *)
(* number of connections and calls, all tokens, LEDs and colours, and      *)
(* however TCP cuts, delays and loses the bytes.                           *)
(***************************************************************************)
EXTENDS Protocol, SequenceTheorems, WellFoundedInduction, TLAPS

-----------------------------------------------------------------------------
(* Sequences of bytes *)

LEMMA Associative ==
  ASSUME NEW a \in Seq(Byte), NEW b \in Seq(Byte), NEW c \in Seq(Byte)
  PROVE  (a \o b) \o c = a \o (b \o c)
  BY ConcatAssociative

LEMMA EmptyNeutral ==
  ASSUME NEW a \in Seq(Byte)
  PROVE  a \o <<>> = a /\ <<>> \o a = a
  BY ConcatEmptySeq

(* The elements of two sequences, one after the other *)
LEMMA ConcatElements ==
  ASSUME NEW a \in Seq(Byte), NEW b \in Seq(Byte)
  PROVE  /\ a \o b \in Seq(Byte)
         /\ Len(a \o b) = Len(a) + Len(b)
         /\ \A i \in 1 .. Len(a) : (a \o b)[i] = a[i]
         /\ \A i \in 1 .. Len(b) : (a \o b)[Len(a) + i] = b[i]
  <1>1. Len(a) \in Nat /\ Len(b) \in Nat
    OBVIOUS
  <1>2. /\ a \o b \in Seq(Byte)
        /\ Len(a \o b) = Len(a) + Len(b)
        /\ \A i \in 1 .. Len(a) + Len(b) :
             (a \o b)[i] = IF i <= Len(a) THEN a[i] ELSE b[i - Len(a)]
    BY ConcatProperties
  <1>3. \A i \in 1 .. Len(a) : i \in 1 .. Len(a) + Len(b) /\ i <= Len(a)
    BY <1>1
  <1>4. \A i \in 1 .. Len(b) : /\ Len(a) + i \in 1 .. Len(a) + Len(b)
                              /\ ~(Len(a) + i <= Len(a))
                              /\ (Len(a) + i) - Len(a) = i
    BY <1>1
  <1> QED BY <1>2, <1>3, <1>4

(* A sequence is its first element and the rest. *)
LEMMA HeadAndTail ==
  ASSUME NEW a \in Seq(Byte), a # <<>>
  PROVE  /\ Head(a) \in Byte /\ Tail(a) \in Seq(Byte)
         /\ a = <<Head(a)>> \o Tail(a)
         /\ Len(Tail(a)) = Len(a) - 1
  OBVIOUS

(* Two ways to read the first element *)
LEMMA SameHead ==
  ASSUME NEW x \in Byte, NEW y \in Byte, NEW a \in Seq(Byte), NEW b \in Seq(Byte),
         <<x>> \o a = <<y>> \o b
  PROVE  x = y /\ a = b
  <1> DEFINE s == <<x>> \o a
             t == <<y>> \o b
  <1>1. /\ Len(s) = 1 + Len(a) /\ s[1] = x
        /\ \A i \in 1 .. Len(a) : s[i + 1] = a[i]
    OBVIOUS
  <1>2. /\ Len(t) = 1 + Len(b) /\ t[1] = y
        /\ \A i \in 1 .. Len(b) : t[i + 1] = b[i]
    OBVIOUS
  <1>3. s = t
    OBVIOUS
  <1> HIDE DEF s, t
  <1>4. Len(a) = Len(b) /\ Len(a) \in Nat
    BY <1>1, <1>2, <1>3
  <1>5. \A i \in 1 .. Len(a) : a[i] = b[i]
    BY <1>1, <1>2, <1>3, <1>4
  <1>6. a = b
    BY <1>4, <1>5, SeqEqual
  <1> QED BY <1>1, <1>2, <1>3, <1>6

(* Two ways to cut a sequence: the shorter first part p is a prefix of the
   longer one, and what is left of this comes before x in the second part. *)
LEMMA CutPrefix ==
  ASSUME NEW a \in Seq(Byte), NEW x \in Seq(Byte), NEW p \in Seq(Byte), NEW y \in Seq(Byte),
         a \o x = p \o y, Len(p) <= Len(a)
  PROVE  /\ SubSeq(a, 1, Len(p)) = p
         /\ SubSeq(a, Len(p) + 1, Len(a)) \in Seq(Byte)
         /\ SubSeq(a, Len(p) + 1, Len(a)) \o x = y
  <1> DEFINE s == a \o x
             t == p \o y
             b == SubSeq(a, 1, Len(p))
             c == SubSeq(a, Len(p) + 1, Len(a))
             d == c \o x
  <1>1. Len(a) \in Nat /\ Len(x) \in Nat /\ Len(p) \in Nat /\ Len(y) \in Nat
    OBVIOUS
  <1>2. /\ Len(s) = Len(a) + Len(x)
        /\ \A i \in 1 .. Len(a) : s[i] = a[i]
        /\ \A i \in 1 .. Len(x) : s[Len(a) + i] = x[i]
    BY ConcatElements
  <1>3. /\ Len(t) = Len(p) + Len(y)
        /\ \A i \in 1 .. Len(p) : t[i] = p[i]
        /\ \A i \in 1 .. Len(y) : t[Len(p) + i] = y[i]
    BY ConcatElements
  <1>4. s = t
    OBVIOUS
  <1>5. /\ b \in Seq(Byte) /\ Len(b) = Len(p)
        /\ \A i \in 1 .. Len(p) : b[i] = a[i]
    <2>1. 1 \in 1 .. Len(a) + 1 /\ Len(p) \in 0 .. Len(a)
      BY <1>1
    <2> QED BY <1>1, <2>1, SubSeqProperties
  <1>6. /\ c \in Seq(Byte) /\ Len(c) = Len(a) - Len(p)
        /\ \A i \in 1 .. Len(a) - Len(p) : c[i] = a[Len(p) + i]
    <2>1. Len(p) + 1 \in 1 .. Len(a) + 1 /\ Len(a) \in Len(p) .. Len(a)
      BY <1>1
    <2> QED BY <1>1, <2>1, SubSeqProperties
  <1>7. /\ d \in Seq(Byte) /\ Len(d) = Len(c) + Len(x)
        /\ \A i \in 1 .. Len(c) : d[i] = c[i]
        /\ \A i \in 1 .. Len(x) : d[Len(c) + i] = x[i]
    <2> HIDE DEF c
    <2> QED BY <1>6, ConcatElements
  <1> HIDE DEF s, t, b, c, d
  <1>8. b = p
    <2>1. \A i \in 1 .. Len(p) : b[i] = p[i]
      BY <1>1, <1>2, <1>3, <1>4, <1>5
    <2> QED BY <1>5, <2>1, SeqEqual
  <1>9. d = y
    <2>1. Len(d) = Len(y)
      BY <1>1, <1>2, <1>3, <1>4, <1>6, <1>7
    <2>2. ASSUME NEW i \in 1 .. Len(y) PROVE d[i] = y[i]
      <3>1. y[i] = s[Len(p) + i]
        BY <1>3, <1>4
      <3>2. CASE i <= Len(c)
        <4>1. i \in 1 .. Len(c) /\ i \in 1 .. Len(a) - Len(p) /\ Len(p) + i \in 1 .. Len(a)
          BY <1>1, <1>6, <3>2
        <4> QED BY <1>2, <1>6, <1>7, <3>1, <4>1
      <3>3. CASE ~(i <= Len(c))
        <4> DEFINE j == i - Len(c)
        <4>1. j \in 1 .. Len(x) /\ Len(c) + j = i /\ Len(a) + j = Len(p) + i
          BY <1>1, <1>6, <1>7, <2>1, <3>3
        <4> QED BY <1>2, <1>7, <3>1, <4>1
      <3> QED BY <3>2, <3>3
    <2> QED BY <1>7, <2>1, <2>2, SeqEqual
  <1> QED BY <1>6, <1>8, <1>9 DEF b, c, d

-----------------------------------------------------------------------------
(* Commands *)

Sets8(call)  == call.op \in {"rgb8", "set8"}
Sets16(call) == call.op \in {"rgb16", "set16"}

LEMMA CallKinds ==
  ASSUME NEW call \in Calls
  PROVE  \/ call.op = "strobe" /\ call = [op |-> "strobe"]
         \/ call.op = "auth" /\ call.token \in Seq(Byte)
         \/ Sets8(call) /\ call.led \in Word
         \/ Sets16(call) /\ call.led \in Word
  BY ProtocolAssumption DEF Calls, Sets8, Sets16

LEMMA OfLength ==
  ASSUME NEW S, NEW n \in Nat, NEW f \in [1 .. n -> S]
  PROVE  f \in Seq(S) /\ Len(f) = n
  <1>1. f \in Seq(S)
    BY SeqDef
  <1>2. Len(f) \in Nat /\ DOMAIN f = 1 .. Len(f) /\ DOMAIN f = 1 .. n
    BY <1>1, LenProperties
  <1>3. \A m \in Nat : 1 .. m = 1 .. n => m = n
    OBVIOUS
  <1> QED BY <1>1, <1>2, <1>3

(* A colour without alpha, and one with it *)
LEMMA Opaque ==
  ASSUME NEW S, NEW c \in [1 .. 3 -> S], NEW alpha \in S
  PROVE  Append(c, alpha) \in Seq(S) /\ Len(Append(c, alpha)) = 4
  <1>1. c \in Seq(S) /\ Len(c) = 3
    BY OfLength
  <1>2. \A d \in Seq(S) : Append(d, alpha) \in Seq(S) /\ Len(Append(d, alpha)) = Len(d) + 1
    BY AppendProperties
  <1>3. Append(c, alpha) \in Seq(S) /\ Len(Append(c, alpha)) = Len(c) + 1
    BY <1>1, <1>2, Zenon
  <1>4. Len(c) + 1 = 4
    BY <1>1
  <1> QED BY <1>3, <1>4

LEMMA OpaqueParts ==
  ASSUME NEW S, NEW c \in [1 .. 3 -> S], NEW alpha \in S, NEW k \in 1 .. 4
  PROVE  Append(c, alpha)[k] = IF k \notin DOMAIN c THEN alpha ELSE c[k]
  <1>1. c \in Seq(S) /\ Len(c) = 3 /\ DOMAIN c = 1 .. 3
    BY OfLength
  <1>2. \A d \in Seq(S) : /\ Append(d, alpha)[Len(d) + 1] = alpha
                          /\ \A j \in 1 .. Len(d) : Append(d, alpha)[j] = d[j]
    BY AppendProperties
  <1>3. k = Len(c) + 1 \/ k \in 1 .. Len(c)
    BY <1>1
  <1> QED BY <1>1, <1>2, <1>3

LEMMA RgbaBytes ==
  ASSUME NEW call \in Calls, Sets8(call)
  PROVE  Rgba(call) \in Seq(Byte) /\ Len(Rgba(call)) = 4
  <1>1. CASE call.op = "rgb8"
    <2>1. call.colour \in [1 .. 3 -> Byte] /\ 255 \in Byte
      BY <1>1, ProtocolAssumption DEF Calls, Byte
    <2>2. Rgba(call) = Append(call.colour, 255)
      BY <1>1 DEF Rgba
    <2>4. ASSUME NEW alpha \in Byte
          PROVE  Append(call.colour, alpha) \in Seq(Byte) /\ Len(Append(call.colour, alpha)) = 4
      BY <2>1, Opaque
    <2> QED BY <2>1, <2>2, <2>4
  <1>2. CASE call.op = "set8"
    <2>1. call.colour \in [1 .. 4 -> Byte]
      BY <1>2, ProtocolAssumption DEF Calls
    <2>2. Rgba(call) = call.colour
      BY <1>2 DEF Rgba
    <2>3. call.colour \in Seq(Byte) /\ Len(call.colour) = 4
      BY <2>1, OfLength
    <2> QED BY <2>2, <2>3, Zenon
  <1> QED BY <1>1, <1>2 DEF Sets8

LEMMA RgbaWords ==
  ASSUME NEW call \in Calls, Sets16(call)
  PROVE  Rgba(call) \in Seq(Word) /\ Len(Rgba(call)) = 4
  <1>1. CASE call.op = "rgb16"
    <2>1. call.colour \in [1 .. 3 -> Word]
      BY <1>1, ProtocolAssumption DEF Calls
    <2>3. 255 \in Word /\ 65535 \in Word
      BY DEF Word
    <2>2. \E alpha \in Word : Rgba(call) = Append(call.colour, alpha)
      BY <1>1, <2>3 DEF Rgba
    <2>4. ASSUME NEW alpha \in Word
          PROVE  Append(call.colour, alpha) \in Seq(Word) /\ Len(Append(call.colour, alpha)) = 4
      BY <2>1, Opaque
    <2> QED BY <2>1, <2>2, <2>3, <2>4
  <1>2. CASE call.op = "set16"
    <2>1. call.colour \in [1 .. 4 -> Word]
      BY <1>2, ProtocolAssumption DEF Calls
    <2>2. Rgba(call) = call.colour
      BY <1>2 DEF Rgba
    <2>3. call.colour \in Seq(Word) /\ Len(call.colour) = 4
      BY <2>1, OfLength
    <2> QED BY <2>2, <2>3, Zenon
  <1> QED BY <1>1, <1>2 DEF Sets16

LEMMA WordBytes ==
  ASSUME NEW v \in Word
  PROVE  /\ v \div 256 \in Byte /\ v % 256 \in Byte
         /\ 256 * (v \div 256) + (v % 256) = v
         /\ Int16(v) \in Seq(Byte) /\ Len(Int16(v)) = 2
         /\ Int16(v)[1] = v \div 256 /\ Int16(v)[2] = v % 256
  <1>1. /\ v \div 256 \in Byte /\ v % 256 \in Byte
        /\ 256 * (v \div 256) + (v % 256) = v
    BY DEF Word, Byte
  <1> QED BY <1>1 DEF Int16

LEMMA TwoMore ==
  ASSUME NEW a \in Seq(Byte), NEW n \in Nat, Len(a) = n,
         NEW b \in Seq(Byte), Len(b) = 2
  PROVE  /\ a \o b \in Seq(Byte) /\ Len(a \o b) = n + 2
         /\ \A i \in 1 .. n : (a \o b)[i] = a[i]
         /\ (a \o b)[n + 1] = b[1] /\ (a \o b)[n + 2] = b[2]
  <1>1. /\ a \o b \in Seq(Byte) /\ Len(a \o b) = Len(a) + Len(b)
        /\ \A i \in 1 .. Len(a) : (a \o b)[i] = a[i]
        /\ \A i \in 1 .. Len(b) : (a \o b)[Len(a) + i] = b[i]
    BY ConcatElements
  <1>2. 1 \in 1 .. Len(b) /\ 2 \in 1 .. Len(b)
    OBVIOUS
  <1> QED BY <1>1, <1>2, Zenon

LEMMA ColourWords ==
  ASSUME NEW c \in Seq(Word), Len(c) = 4
  PROVE  /\ Int16s(c) \in Seq(Byte) /\ Len(Int16s(c)) = 8
         /\ \A i \in 1 .. 4 : /\ Int16s(c)[2 * i - 1] = c[i] \div 256
                              /\ Int16s(c)[2 * i] = c[i] % 256
  <1>1. \A i \in 1 .. 4 : c[i] \in Word
    BY ElementOfSeq
  <1> DEFINE b(i) == Int16(c[i])
             s == b(1) \o b(2)
             t == s \o b(3)
             u == t \o b(4)
  <1>2. \A i \in 1 .. 4 : /\ b(i) \in Seq(Byte) /\ Len(b(i)) = 2
                          /\ b(i)[1] = c[i] \div 256 /\ b(i)[2] = c[i] % 256
    <2> SUFFICES ASSUME NEW i \in 1 .. 4
                 PROVE  /\ b(i) \in Seq(Byte) /\ Len(b(i)) = 2
                        /\ b(i)[1] = c[i] \div 256 /\ b(i)[2] = c[i] % 256
      OBVIOUS
    <2>1. c[i] \in Word
      BY <1>1
    <2> QED BY <2>1, WordBytes
  <1>3. Int16s(c) = u
    BY DEF Int16s
  <1> HIDE DEF b
  <1>4. /\ s \in Seq(Byte) /\ Len(s) = 4
        /\ s[1] = b(1)[1] /\ s[2] = b(1)[2] /\ s[3] = b(2)[1] /\ s[4] = b(2)[2]
    <2>1. /\ s \in Seq(Byte) /\ Len(s) = 4
          /\ \A i \in 1 .. 2 : s[i] = b(1)[i]
          /\ s[3] = b(2)[1] /\ s[4] = b(2)[2]
      BY <1>2, TwoMore
    <2> HIDE DEF s
    <2> QED BY <2>1
  <1>5. /\ t \in Seq(Byte) /\ Len(t) = 6
        /\ t[1] = s[1] /\ t[2] = s[2] /\ t[3] = s[3] /\ t[4] = s[4]
        /\ t[5] = b(3)[1] /\ t[6] = b(3)[2]
    <2> HIDE DEF s
    <2>2. b(3) \in Seq(Byte) /\ Len(b(3)) = 2
      BY <1>2
    <2>3. s \in Seq(Byte) /\ Len(s) = 4 /\ 4 \in Nat
      BY <1>4
    <2>1. /\ t \in Seq(Byte) /\ Len(t) = 4 + 2
          /\ \A i \in 1 .. 4 : t[i] = s[i]
          /\ t[4 + 1] = b(3)[1] /\ t[4 + 2] = b(3)[2]
      BY <2>2, <2>3, TwoMore, Zenon
    <2> HIDE DEF t
    <2> QED BY <2>1
  <1>6. /\ u \in Seq(Byte) /\ Len(u) = 8
        /\ u[1] = t[1] /\ u[2] = t[2] /\ u[3] = t[3] /\ u[4] = t[4]
        /\ u[5] = t[5] /\ u[6] = t[6] /\ u[7] = b(4)[1] /\ u[8] = b(4)[2]
    <2> HIDE DEF t
    <2>2. b(4) \in Seq(Byte) /\ Len(b(4)) = 2
      BY <1>2
    <2>3. t \in Seq(Byte) /\ Len(t) = 6 /\ 6 \in Nat
      BY <1>5
    <2>1. /\ u \in Seq(Byte) /\ Len(u) = 6 + 2
          /\ \A i \in 1 .. 6 : u[i] = t[i]
          /\ u[6 + 1] = b(4)[1] /\ u[6 + 2] = b(4)[2]
      BY <2>2, <2>3, TwoMore, Zenon
    <2> HIDE DEF u
    <2> QED BY <2>1
  <1> HIDE DEF s, t, u
  <1>7. ASSUME NEW i \in 1 .. 4
        PROVE  u[2 * i - 1] = b(i)[1] /\ u[2 * i] = b(i)[2]
    <2>1. i = 1 \/ i = 2 \/ i = 3 \/ i = 4
      OBVIOUS
    <2> QED BY <1>4, <1>5, <1>6, <2>1
  <1> QED BY <1>2, <1>3, <1>6, <1>7

(* The payload of a call that sets a LED is the LED's number and the colour. *)
LEMMA SetPayload ==
  ASSUME NEW call \in Calls, call.led \in Word,
         NEW colour \in Seq(Byte), Payload(call) = Int16(call.led) \o colour
  PROVE  /\ Payload(call) \in Seq(Byte) /\ Len(Payload(call)) = 2 + Len(colour)
         /\ 256 * Payload(call)[1] + Payload(call)[2] = call.led
         /\ \A i \in 1 .. Len(colour) : Payload(call)[2 + i] = colour[i]
  <1> DEFINE a == Int16(call.led)
             p == Payload(call)
  <1>1. /\ a \in Seq(Byte) /\ Len(a) = 2
        /\ a[1] = call.led \div 256 /\ a[2] = call.led % 256
        /\ 256 * (call.led \div 256) + (call.led % 256) = call.led
    BY WordBytes
  <1> HIDE DEF a
  <1>2. p = a \o colour
    BY DEF a
  <1> HIDE DEF p
  <1>3. /\ p \in Seq(Byte) /\ Len(p) = Len(a) + Len(colour)
        /\ \A i \in 1 .. Len(a) : p[i] = a[i]
        /\ \A i \in 1 .. Len(colour) : p[Len(a) + i] = colour[i]
    BY <1>1, <1>2, ConcatElements
  <1>4. p[1] = a[1] /\ p[2] = a[2]
    <2>1. 1 \in 1 .. Len(a) /\ 2 \in 1 .. Len(a)
      BY <1>1
    <2> QED BY <1>3, <2>1, Zenon
  <1> QED BY <1>1, <1>3, <1>4 DEF p, a

LEMMA OpcodeKinds ==
  ASSUME NEW call \in Calls
  PROVE  /\ Opcode[call.op] \in {1, 2, 3, 255}
         /\ call.op = "strobe" => Opcode[call.op] = 255 /\ payloadLength[255] = 0
         /\ call.op = "auth" => Opcode[call.op] = 2 /\ payloadLength[2] = TOKEN_SIZE
         /\ Sets8(call) => Opcode[call.op] = 1 /\ payloadLength[1] = 6
         /\ Sets16(call) => Opcode[call.op] = 3 /\ payloadLength[3] = 10
  <1>1. Opcode["strobe"] = 255 /\ Opcode["auth"] = 2 /\ Opcode["rgb8"] = 1
        /\ Opcode["set8"] = 1 /\ Opcode["rgb16"] = 3 /\ Opcode["set16"] = 3
    BY DEF Opcode
  <1>2. /\ payloadLength[255] = 0 /\ payloadLength[2] = TOKEN_SIZE
        /\ payloadLength[1] = 6 /\ payloadLength[3] = 10
    BY DEF payloadLength
  <1> QED BY <1>1, <1>2, CallKinds DEF Sets8, Sets16

LEMMA PayloadOfSets ==
  ASSUME NEW call \in Calls
  PROVE  /\ Sets8(call) => Payload(call) = Int16(call.led) \o Rgba(call)
         /\ Sets16(call) => Payload(call) = Int16(call.led) \o Int16s(Rgba(call))
  <1>1. Sets8(call) => call.op \notin {"strobe", "auth"} /\ Opcode[call.op] = 1
    BY OpcodeKinds DEF Sets8
  <1>2. Sets16(call) => call.op \notin {"strobe", "auth"} /\ Opcode[call.op] # 1
    BY OpcodeKinds DEF Sets16
  <1> QED BY <1>1, <1>2, Zenon DEF Payload

(* Calls that set a LED have the length the daemon expects. *)
LEMMA SetsFit ==
  ASSUME NEW call \in Calls, Sets8(call) \/ Sets16(call)
  PROVE  Payload(call) \in Seq(Byte) /\ ~Misfit(call)
  <1>1. call.led \in Word
    BY CallKinds DEF Sets8, Sets16
  <1>2. CASE Sets8(call)
    <2>1. Rgba(call) \in Seq(Byte) /\ Len(Rgba(call)) = 4
      BY <1>2, RgbaBytes
    <2>2. Payload(call) = Int16(call.led) \o Rgba(call)
      BY <1>2, PayloadOfSets
    <2>3. Payload(call) \in Seq(Byte) /\ Len(Payload(call)) = 2 + Len(Rgba(call))
      BY <1>1, <2>1, <2>2, SetPayload
    <2> QED BY <1>2, <2>1, <2>3, OpcodeKinds DEF Misfit
  <1>3. CASE Sets16(call)
    <2>1. Int16s(Rgba(call)) \in Seq(Byte) /\ Len(Int16s(Rgba(call))) = 8
      BY <1>3, RgbaWords, ColourWords
    <2>2. Payload(call) = Int16(call.led) \o Int16s(Rgba(call))
      BY <1>3, PayloadOfSets
    <2>3. Payload(call) \in Seq(Byte) /\ Len(Payload(call)) = 2 + Len(Int16s(Rgba(call)))
      BY <1>1, <2>1, <2>2, SetPayload
    <2> QED BY <1>3, <2>1, <2>3, OpcodeKinds DEF Misfit
  <1> QED BY <1>2, <1>3

LEMMA TokenPayload ==
  ASSUME NEW call \in Calls, call.op = "auth"
  PROVE  /\ Payload(call) \in Seq(Byte)
         /\ Len(Payload(call)) = TOKEN_SIZE => Payload(call) = Padded(call.token)
  <1>1. call.token \in Seq(Byte)
    BY CallKinds DEF Sets8, Sets16
  <1>2. Payload(call) = TokenBytes(call.token)
    BY DEF Payload
  <1>3. Padded(call.token) \in Seq(Byte)
    <2>1. 0 \in Byte
      BY DEF Byte
    <2> QED BY <1>1, <2>1, ProtocolAssumption DEF Padded
  <1>4. CASE Payload(call) = Padded(call.token)
    BY <1>3, <1>4
  <1>5. CASE Payload(call) = call.token
    <2>1. ASSUME Len(call.token) = TOKEN_SIZE PROVE call.token = Padded(call.token)
      <3>1. call.token = [i \in 1 .. TOKEN_SIZE |-> call.token[i]]
        BY <1>1, <2>1
      <3>2. \A i \in 1 .. TOKEN_SIZE : i <= Len(call.token)
        BY <2>1, ProtocolAssumption
      <3> QED BY <3>1, <3>2 DEF Padded
    <2> QED BY <1>1, <1>5, <2>1
  <1> QED BY <1>2, <1>4, <1>5 DEF TokenBytes

(* A command is its opcode and its payload. *)
LEMMA EncodedProperties ==
  ASSUME NEW call \in Calls
  PROVE  /\ Encoded(call) = <<Opcode[call.op]>> \o Payload(call)
         /\ Opcode[call.op] \in Byte /\ Opcode[call.op] \in DOMAIN payloadLength
         /\ Payload(call) \in Seq(Byte)
         /\ Encoded(call) \in Seq(Byte) /\ Encoded(call) # <<>>
         /\ Len(Encoded(call)) = 1 + Len(Payload(call))
  <1>1. Opcode[call.op] \in {1, 2, 3, 255}
    BY OpcodeKinds
  <1>2. Opcode[call.op] \in Byte /\ Opcode[call.op] \in DOMAIN payloadLength
    BY <1>1 DEF Byte, payloadLength
  <1>3. Payload(call) \in Seq(Byte)
    <2>1. CASE call.op = "strobe"
      BY <2>1 DEF Payload
    <2> QED BY <2>1, CallKinds, SetsFit, TokenPayload
  <1> QED BY <1>2, <1>3 DEF Encoded

(* What the command that a library makes of a call says, which is what the call
   means unless it is one of Java's faint colours *)
Says(call) ==
  IF call.op = "strobe" THEN call
  ELSE IF call.op = "auth" THEN [op |-> "auth", token |-> Padded(call.token)]
  ELSE [op |-> "set", led |-> call.led,
        colour |-> [i \in 1 .. 4 |-> IF Opcode[call.op] = 1 THEN 257 * Rgba(call)[i]
                                     ELSE Rgba(call)[i]]]

LEMMA SaidAsMeant ==
  ASSUME NEW call \in Calls, ~Faint(call)
  PROVE  Says(call) = Meant(call)
  <1>1. CASE call.op \in {"strobe", "auth"}
    BY <1>1 DEF Says, Meant
  <1>2. CASE call.op = "rgb8"
    <2>1. call.colour \in [1 .. 3 -> Byte]
      BY <1>2, ProtocolAssumption DEF Calls
    <2>2. ASSUME NEW k \in 1 .. 4
          PROVE  257 * Rgba(call)[k] = IF k \notin DOMAIN call.colour THEN 65535
                                       ELSE 257 * call.colour[k]
      <3>1. 255 \in Byte /\ Rgba(call) = Append(call.colour, 255)
        BY <1>2 DEF Byte, Rgba
      <3>2. \A alpha \in Byte :
              Append(call.colour, alpha)[k] = IF k \notin DOMAIN call.colour THEN alpha
                                              ELSE call.colour[k]
        BY <2>1, OpaqueParts
      <3>3. Rgba(call)[k] = IF k \notin DOMAIN call.colour THEN 255 ELSE call.colour[k]
        BY <3>1, <3>2, Zenon
      <3> QED BY <3>3
    <2> QED BY <1>2, <2>2 DEF Says, Meant, Opcode
  <1>3. CASE call.op = "set8"
    <2>1. DOMAIN call.colour = 1 .. 4
      BY <1>3, ProtocolAssumption DEF Calls
    <2> QED BY <1>3, <2>1 DEF Says, Meant, Opcode, Rgba
  <1>4. CASE call.op = "rgb16"
    <2>1. call.colour \in [1 .. 3 -> Word] /\ library # "java"
      BY <1>4, ProtocolAssumption DEF Calls, Faint
    <2>2. ASSUME NEW k \in 1 .. 4
          PROVE  Rgba(call)[k] = IF k \notin DOMAIN call.colour THEN 65535
                                 ELSE call.colour[k]
      <3> DEFINE opaque == 65535
      <3>1. opaque \in Word
        BY DEF Word
      <3>2. Rgba(call) = Append(call.colour, opaque)
        BY <1>4, <2>1 DEF Rgba
      <3> HIDE DEF opaque
      <3>3. Rgba(call)[k] = IF k \notin DOMAIN call.colour THEN opaque ELSE call.colour[k]
        BY <2>1, <3>1, <3>2, OpaqueParts
      <3> QED BY <3>3 DEF opaque
    <2> QED BY <1>4, <2>2 DEF Says, Meant, Opcode
  <1>5. CASE call.op = "set16"
    <2>1. DOMAIN call.colour = 1 .. 4
      BY <1>5, ProtocolAssumption DEF Calls
    <2> QED BY <1>5, <2>1 DEF Says, Meant, Opcode, Rgba
  <1>6. call.op \in {"strobe", "auth", "rgb8", "set8", "rgb16", "set16"}
    BY ProtocolAssumption DEF Calls
  <1> QED BY <1>1, <1>2, <1>3, <1>4, <1>5, <1>6

(* What the daemon makes of a command is what the command says. *)
LEMMA ParsedAsSaid ==
  ASSUME NEW call \in Calls, ~Misfit(call)
  PROVE  Parse(Opcode[call.op], Payload(call)) = Says(call)
  <1>1. CASE call.op = "strobe"
    BY <1>1, OpcodeKinds, CallKinds DEF Parse, Says, Sets8, Sets16
  <1>2. CASE call.op = "auth"
    <2>1. Payload(call) = Padded(call.token)
      BY <1>2, OpcodeKinds, TokenPayload DEF Misfit
    <2> QED BY <1>2, <2>1, OpcodeKinds DEF Parse, Says
  <1>3. CASE Sets8(call)
    <2>1. call.led \in Word /\ call.op \notin {"strobe", "auth"} /\ Opcode[call.op] = 1
      BY <1>3, CallKinds, OpcodeKinds DEF Sets8, Sets16
    <2> DEFINE c == Rgba(call)
               p == Payload(call)
    <2>2. c \in Seq(Byte) /\ Len(c) = 4
      BY <1>3, RgbaBytes
    <2>3. /\ 256 * p[1] + p[2] = call.led
          /\ \A i \in 1 .. 4 : p[2 + i] = c[i]
      BY <1>3, <2>1, <2>2, PayloadOfSets, SetPayload
    <2>4. \A i \in 1 .. 4 : 256 * p[2 + i] + p[2 + i] = 257 * c[i]
      <3> HIDE DEF c, p
      <3>1. \A i \in 1 .. 4 : c[i] \in Byte
        BY <2>2, ElementOfSeq
      <3>2. \A i \in 1 .. 4 : c[i] \in Int
        BY <3>1 DEF Byte
      <3> QED BY <2>3, <3>2
    <2>5. Parse(1, p) = [op |-> "set", led |-> 256 * p[1] + p[2],
                         colour |-> [i \in 1 .. 4 |-> 256 * p[2 + i] + p[2 + i]]]
      BY DEF Parse
    <2>6. Says(call) = [op |-> "set", led |-> call.led,
                         colour |-> [i \in 1 .. 4 |-> 257 * c[i]]]
      BY <2>1 DEF Says
    <2> HIDE DEF c, p
    <2> QED BY <2>1, <2>3, <2>4, <2>5, <2>6 DEF p
  <1>4. CASE Sets16(call)
    <2>1. call.led \in Word /\ call.op \notin {"strobe", "auth"} /\ Opcode[call.op] = 3
      BY <1>4, CallKinds, OpcodeKinds DEF Sets8, Sets16
    <2> DEFINE c == Rgba(call)
               d == Int16s(c)
               p == Payload(call)
    <2>2. c \in Seq(Word) /\ Len(c) = 4
      BY <1>4, RgbaWords
    <2>3. /\ d \in Seq(Byte) /\ Len(d) = 8
          /\ \A i \in 1 .. 4 : d[2 * i - 1] = c[i] \div 256 /\ d[2 * i] = c[i] % 256
      BY <2>2, ColourWords
    <2>4. /\ 256 * p[1] + p[2] = call.led
          /\ \A i \in 1 .. 8 : p[2 + i] = d[i]
      BY <1>4, <2>1, <2>3, PayloadOfSets, SetPayload
    <2>5. ASSUME NEW i \in 1 .. 4
          PROVE  256 * p[2 * i + 1] + p[2 * i + 2] = c[i]
      <3>1. 2 * i - 1 \in 1 .. 8 /\ 2 + (2 * i - 1) = 2 * i + 1
            /\ 2 * i \in 1 .. 8 /\ 2 + 2 * i = 2 * i + 2
        OBVIOUS
      <3> HIDE DEF c, d, p
      <3>2. c[i] \in Word
        BY <2>2, ElementOfSeq
      <3>3. p[2 * i + 1] = d[2 * i - 1] /\ p[2 * i + 2] = d[2 * i]
        BY <2>4, <3>1
      <3>4. 256 * (c[i] \div 256) + (c[i] % 256) = c[i]
        BY <3>2, WordBytes
      <3> QED BY <2>3, <3>3, <3>4
    <2>6. Parse(3, p) = [op |-> "set", led |-> 256 * p[1] + p[2],
                         colour |-> [i \in 1 .. 4 |-> 256 * p[2 * i + 1] + p[2 * i + 2]]]
      BY DEF Parse
    <2>7. Says(call) = [op |-> "set", led |-> call.led, colour |-> [i \in 1 .. 4 |-> c[i]]]
      BY <2>1 DEF Says
    <2> HIDE DEF c, p
    <2> QED BY <2>1, <2>4, <2>5, <2>6, <2>7 DEF p
  <1> QED BY <1>1, <1>2, <1>3, <1>4, CallKinds

-----------------------------------------------------------------------------
(* Calls and what becomes of them *)

(* r[k] are the bytes that stand for what follows the first k of the calls cs. *)
IsRest(r, cs) ==
  /\ r \in [0 .. Len(cs) -> Seq(Byte)]
  /\ r[Len(cs)] = <<>>
  /\ \A k \in 0 .. Len(cs) - 1 : r[k] = Encoded(cs[k + 1]) \o r[k + 1]

IsStream(bytes, cs) == \E r : IsRest(r, cs) /\ r[0] = bytes

LEMMA StreamOfNone == IsStream(<<>>, <<>>)
  <1> DEFINE r == [k \in 0 .. 0 |-> <<>>]
  <1>1. r \in [0 .. 0 -> Seq(Byte)] /\ r[0] = <<>>
    OBVIOUS
  <1>2. Len(<<>>) = 0 /\ 0 .. 0 - 1 = {}
    OBVIOUS
  <1> HIDE DEF r
  <1>3. IsRest(r, <<>>)
    BY <1>1, <1>2 DEF IsRest
  <1> QED BY <1>1, <1>3 DEF IsStream

LEMMA StreamOfOne ==
  ASSUME NEW c \in Calls
  PROVE  IsStream(Encoded(c), <<c>>)
  <1> DEFINE r == [k \in 0 .. 1 |-> IF k = 0 THEN Encoded(c) ELSE <<>>]
  <1>1. Encoded(c) \in Seq(Byte) /\ <<>> \in Seq(Byte)
    BY EncodedProperties, EmptySeq, Zenon
  <1>2. r[0] = Encoded(c) /\ r[1] = <<>> /\ r \in [0 .. 1 -> Seq(Byte)]
    BY <1>1
  <1>3. Len(<<c>>) = 1 /\ <<c>>[1] = c /\ \A k \in 0 .. 1 - 1 : k = 0
    OBVIOUS
  <1>4. Encoded(c) \o <<>> = Encoded(c)
    BY <1>1, EmptyNeutral
  <1> HIDE DEF r
  <1>5. r \in [0 .. Len(<<c>>) -> Seq(Byte)] /\ r[Len(<<c>>)] = <<>>
    BY <1>2, <1>3
  <1>6. ASSUME NEW k \in 0 .. Len(<<c>>) - 1
        PROVE  r[k] = Encoded(<<c>>[k + 1]) \o r[k + 1]
    <2>1. k = 0 /\ k + 1 = 1
      BY <1>3
    <2> QED BY <1>2, <1>3, <1>4, <2>1
  <1>7. IsRest(r, <<c>>)
    BY <1>5, <1>6 DEF IsRest
  <1> QED BY <1>2, <1>7 DEF IsStream

(* More calls: what is left behind each of the earlier ones grows by their
   bytes. *)
Joins(p, r, cs, q, ds) ==
  /\ IsRest(p, cs \o ds)
  /\ \A k \in 0 .. Len(cs) : p[k] = r[k] \o q[0]

LEMMA RestJoin ==
  ASSUME NEW cs \in Seq(Calls), NEW ds \in Seq(Calls),
         NEW r, NEW q, IsRest(r, cs), IsRest(q, ds)
  PROVE  \E p : Joins(p, r, cs, q, ds)
  <1> DEFINE m == Len(cs)
             n == Len(ds)
             es == cs \o ds
             p == [k \in 0 .. m + n |-> IF k <= m THEN r[k] \o q[0] ELSE q[k - m]]
  <1>1. m \in Nat /\ n \in Nat
    OBVIOUS
  <1>2. /\ Len(es) = m + n
        /\ \A k \in 1 .. m + n : es[k] = IF k <= m THEN cs[k] ELSE ds[k - m]
    BY ConcatProperties
  <1>3. /\ r \in [0 .. m -> Seq(Byte)] /\ r[m] = <<>>
        /\ \A k \in 0 .. m - 1 : r[k] = Encoded(cs[k + 1]) \o r[k + 1]
    BY DEF IsRest
  <1>4. /\ q \in [0 .. n -> Seq(Byte)] /\ q[n] = <<>>
        /\ \A k \in 0 .. n - 1 : q[k] = Encoded(ds[k + 1]) \o q[k + 1]
    BY DEF IsRest
  <1>5. q[0] \in Seq(Byte)
    BY <1>1, <1>4
  <1>6. \A k \in 0 .. m : p[k] = r[k] \o q[0]
    <2> SUFFICES ASSUME NEW k \in 0 .. m PROVE p[k] = r[k] \o q[0]
      OBVIOUS
    <2>1. k \in 0 .. m + n /\ k <= m
      BY <1>1
    <2> QED BY <2>1
  <1>7. \A k \in 0 .. n : p[m + k] = q[k]
    <2> SUFFICES ASSUME NEW k \in 0 .. n PROVE p[m + k] = q[k]
      OBVIOUS
    <2>1. m + k \in 0 .. m + n /\ (m + k) - m = k
      BY <1>1
    <2>2. CASE k = 0
      <3>1. p[m] = r[m] \o q[0] /\ m + k = m /\ m \in 0 .. m
        BY <1>1, <1>6, <2>2
      <3>2. <<>> \o q[0] = q[0]
        BY <1>5, EmptyNeutral
      <3> HIDE DEF p
      <3> QED BY <1>3, <2>2, <3>1, <3>2
    <2>3. CASE k # 0
      <3>1. ~(m + k <= m)
        BY <1>1, <2>3
      <3> QED BY <2>1, <3>1
    <2> QED BY <2>2, <2>3
  <1>8. p \in [0 .. m + n -> Seq(Byte)]
    <2> SUFFICES ASSUME NEW k \in 0 .. m + n PROVE p[k] \in Seq(Byte)
      OBVIOUS
    <2>1. CASE k <= m
      <3>1. k \in 0 .. m
        BY <1>1, <2>1
      <3>2. r[k] \in Seq(Byte) /\ p[k] = r[k] \o q[0]
        BY <1>3, <1>6, <3>1
      <3> HIDE DEF p
      <3> QED BY <1>5, <3>2, ConcatElements
    <2>2. CASE ~(k <= m)
      <3>1. k - m \in 0 .. n /\ m + (k - m) = k
        BY <1>1, <2>2
      <3> HIDE DEF p
      <3> QED BY <1>4, <1>7, <3>1
    <2> QED BY <2>1, <2>2
  <1> HIDE DEF p, es, m, n
  <1>9. p[m + n] = <<>>
    BY <1>1, <1>4, <1>7
  <1>10. ASSUME NEW k \in 0 .. (m + n) - 1
         PROVE  p[k] = Encoded(es[k + 1]) \o p[k + 1]
    <2>1. CASE k < m
      <3>1. k \in 0 .. m /\ k \in 0 .. m - 1 /\ k + 1 \in 0 .. m /\ k + 1 \in 1 .. m
            /\ k + 1 \in 1 .. m + n /\ k + 1 <= m
        BY <1>1, <2>1
      <3>2. p[k] = r[k] \o q[0] /\ p[k + 1] = r[k + 1] \o q[0]
        BY <1>6, <3>1
      <3>3. r[k] = Encoded(cs[k + 1]) \o r[k + 1] /\ es[k + 1] = cs[k + 1]
        BY <1>2, <1>3, <3>1
      <3>4. cs[k + 1] \in Calls
        BY <3>1, ElementOfSeq DEF m
      <3>5. Encoded(cs[k + 1]) \in Seq(Byte) /\ r[k + 1] \in Seq(Byte)
        BY <1>3, <3>1, <3>4, EncodedProperties
      <3>6. (Encoded(cs[k + 1]) \o r[k + 1]) \o q[0] = Encoded(cs[k + 1]) \o (r[k + 1] \o q[0])
        BY <1>5, <3>5, Associative
      <3> QED BY <3>2, <3>3, <3>6, Zenon
    <2>2. CASE ~(k < m)
      <3> DEFINE j == k - m
      <3>1. j \in 0 .. n /\ j \in 0 .. n - 1 /\ j + 1 \in 0 .. n
            /\ k + 1 \in 1 .. m + n /\ ~(k + 1 <= m)
            /\ (k + 1) - m = j + 1 /\ m + j = k /\ m + (j + 1) = k + 1
        BY <1>1, <2>2
      <3> HIDE DEF j
      <3>2. p[k] = q[j] /\ p[k + 1] = q[j + 1]
        <4>1. p[m + j] = q[j] /\ p[m + (j + 1)] = q[j + 1]
          BY <1>7, <3>1, Zenon
        <4> QED BY <3>1, <4>1
      <3>3. q[j] = Encoded(ds[j + 1]) \o q[j + 1] /\ es[k + 1] = ds[j + 1]
        BY <1>2, <1>4, <3>1
      <3> QED BY <3>2, <3>3, Zenon
    <2> QED BY <2>1, <2>2
  <1>11. IsRest(p, es)
    BY <1>2, <1>8, <1>9, <1>10 DEF IsRest
  <1> QED BY <1>6, <1>11 DEF es, m, Joins

LEMMA StreamAppend ==
  ASSUME NEW cs \in Seq(Calls), NEW c \in Calls, NEW bytes, IsStream(bytes, cs)
  PROVE  IsStream(bytes \o Encoded(c), Append(cs, c))
  <1> DEFINE one == <<c>>
  <1>1. PICK r : IsRest(r, cs) /\ r[0] = bytes
    BY DEF IsStream
  <1>2. PICK q : IsRest(q, one) /\ q[0] = Encoded(c)
    BY StreamOfOne DEF IsStream
  <1>3. one \in Seq(Calls) /\ Append(cs, c) = cs \o one
    BY AppendIsConcat
  <1>4. 0 \in 0 .. Len(cs)
    OBVIOUS
  <1> HIDE DEF one
  <1>5. PICK p : Joins(p, r, cs, q, one)
    BY <1>1, <1>2, <1>3, RestJoin
  <1> QED BY <1>1, <1>2, <1>3, <1>4, <1>5, Zenon DEF IsStream, Joins

LEMMA StreamType ==
  ASSUME NEW cs \in Seq(Calls), NEW bytes, IsStream(bytes, cs)
  PROVE  bytes \in Seq(Byte)
  <1>1. 0 \in 0 .. Len(cs)
    OBVIOUS
  <1> QED BY <1>1 DEF IsStream, IsRest

(* run[k] is the daemon's end of a connection after the first k of n calls. *)
IsRun(run, cs, n) ==
  /\ run[0] = Fresh
  /\ \A k \in 1 .. n : run[k] = Dispatch(run[k - 1], Says(cs[k]))

LEMMA RunGoesOn ==
  ASSUME NEW n \in Nat, NEW cs, NEW run, IsRun(run, cs, n)
  PROVE  \E longer : /\ IsRun(longer, cs, n + 1)
                     /\ longer[n + 1] = Dispatch(run[n], Says(cs[n + 1]))
  <1> DEFINE l == [k \in 0 .. n + 1 |->
                     IF k = n + 1 THEN Dispatch(run[n], Says(cs[n + 1])) ELSE run[k]]
  <1>1. l[n + 1] = Dispatch(run[n], Says(cs[n + 1]))
    OBVIOUS
  <1>2. \A k \in 0 .. n : l[k] = run[k]
    OBVIOUS
  <1> HIDE DEF l
  <1>3. l[0] = Fresh
    BY <1>2 DEF IsRun
  <1>4. ASSUME NEW k \in 1 .. n + 1
        PROVE  l[k] = Dispatch(l[k - 1], Says(cs[k]))
    <2>1. k - 1 \in 0 .. n /\ l[k - 1] = run[k - 1]
      BY <1>2
    <2>2. CASE k = n + 1
      <3>1. k - 1 = n
        BY <2>2
      <3> QED BY <1>1, <2>1, <2>2, <3>1, Zenon
    <2>3. CASE k # n + 1
      <3>1. k \in 1 .. n /\ k \in 0 .. n
        BY <2>3
      <3>2. run[k] = Dispatch(run[k - 1], Says(cs[k]))
        BY <3>1 DEF IsRun
      <3> QED BY <1>2, <2>1, <3>1, <3>2, Zenon
    <2> QED BY <2>2, <2>3
  <1>5. IsRun(l, cs, n + 1)
    BY <1>3, <1>4 DEF IsRun
  <1> QED BY <1>1, <1>5

(* The same for what the calls mean *)
IsMeantRun(run, cs, n) ==
  /\ run[0] = Fresh
  /\ \A k \in 1 .. n : run[k] = Dispatch(run[k - 1], Meant(cs[k]))

LEMMA RunAsMeant ==
  ASSUME NEW i, NEW n \in 0 .. Len(calls[i]), NEW run, IsRun(run, calls[i], n),
         calls[i] \in Seq(Calls), ~AnyFaint(i)
  PROVE  IsMeantRun(run, calls[i], n)
  <1>1. ASSUME NEW k \in 1 .. n
        PROVE  run[k] = Dispatch(run[k - 1], Meant(calls[i][k]))
    <2>1. k \in 1 .. Len(calls[i])
      OBVIOUS
    <2>2. calls[i][k] \in Calls /\ ~Faint(calls[i][k])
      BY <2>1, ElementOfSeq DEF AnyFaint
    <2>3. Says(calls[i][k]) = Meant(calls[i][k])
      BY <2>2, SaidAsMeant
    <2>4. run[k] = Dispatch(run[k - 1], Says(calls[i][k]))
      BY DEF IsRun
    <2> QED BY <2>3, <2>4
  <1> QED BY <1>1 DEF IsRun, IsMeantRun

(* A number in a set of numbers without 0 that holds with each number the one
   before it would have a least one. *)
LEMMA NoneIsLeast ==
  ASSUME NEW S \in SUBSET Nat, 0 \notin S, \A k \in S : k - 1 \in S
  PROVE  S = {}
  <1> SUFFICES ASSUME S # {} PROVE FALSE
    OBVIOUS
  <1>1. PICK m \in S : \A k \in S : <<k, m>> \notin OpToRel(<, Nat)
    BY NatLessThanWellFounded, WFMin, Zenon
  <1>2. m \in Nat /\ m # 0 /\ m - 1 \in S
    OBVIOUS
  <1>3. <<m - 1, m>> \in Nat \X Nat /\ <<m - 1, m>>[1] < <<m - 1, m>>[2]
    BY <1>2
  <1>4. <<m - 1, m>> \in OpToRel(<, Nat)
    BY <1>3, Zenon DEF OpToRel
  <1> QED BY <1>1, <1>2, <1>4

(* After is what such a run says it is. *)
LEMMA AfterRun ==
  ASSUME NEW i, NEW n \in Nat, NEW run, IsMeantRun(run, calls[i], n)
  PROVE  After(i, n) = run[n]
  <1> DEFINE IsAfter(f) ==
               f = [k \in 0 .. n |-> IF k = 0 THEN Fresh
                                     ELSE Dispatch(f[k - 1], Meant(calls[i][k]))]
             g == [k \in 0 .. n |-> run[k]]
             c == CHOOSE f : IsAfter(f)
  <1>1. IsAfter(g)
    <2>1. ASSUME NEW k \in 0 .. n
          PROVE  run[k] = IF k = 0 THEN Fresh ELSE Dispatch(g[k - 1], Meant(calls[i][k]))
      <3>1. CASE k = 0
        BY <3>1 DEF IsMeantRun
      <3>2. CASE k # 0
        <4>1. k \in 1 .. n /\ k - 1 \in 0 .. n
          BY <3>2
        <4>2. g[k - 1] = run[k - 1]
          BY <4>1
        <4>3. run[k] = Dispatch(run[k - 1], Meant(calls[i][k]))
          BY <4>1 DEF IsMeantRun
        <4> HIDE DEF g
        <4> QED BY <3>2, <4>2, <4>3, Zenon
      <3> QED BY <3>1, <3>2
    <2>2. [k \in 0 .. n |-> run[k]]
            = [k \in 0 .. n |-> IF k = 0 THEN Fresh ELSE Dispatch(g[k - 1], Meant(calls[i][k]))]
      <3> HIDE DEF g
      <3> QED BY <2>1, Zenon
    <2> QED BY <2>2
  <1>2. IsAfter(c)
    <2> HIDE DEF IsAfter, g
    <2> QED BY <1>1
  <1>3. After(i, n) = c[n]
    BY DEF After
  <1>4. /\ c[0] = Fresh
        /\ \A k \in 1 .. n : c[k] = Dispatch(c[k - 1], Meant(calls[i][k]))
    <2> HIDE DEF c
    <2>1. \A k \in 0 .. n : c[k] = IF k = 0 THEN Fresh
                                   ELSE Dispatch(c[k - 1], Meant(calls[i][k]))
      BY <1>2, Zenon
    <2>2. 0 \in 0 .. n /\ \A k \in 1 .. n : k \in 0 .. n /\ k # 0
      OBVIOUS
    <2> HIDE DEF IsAfter
    <2> QED BY <2>1, <2>2, Zenon
  <1> HIDE DEF c, IsAfter
  <1> DEFINE Wrong == {k \in 0 .. n : c[k] # run[k]}
  <1>5. 0 \notin Wrong
    BY <1>4 DEF IsMeantRun
  <1>6. ASSUME NEW k \in Wrong PROVE k - 1 \in Wrong
    <2>1. k \in 1 .. n /\ k - 1 \in 0 .. n
      BY <1>5
    <2>2. run[k] = Dispatch(run[k - 1], Meant(calls[i][k]))
      BY <2>1 DEF IsMeantRun
    <2>3. c[k] = Dispatch(c[k - 1], Meant(calls[i][k]))
      BY <1>4, <2>1
    <2>4. c[k] # run[k]
      OBVIOUS
    <2>5. c[k - 1] # run[k - 1]
      BY <2>2, <2>3, <2>4, Zenon
    <2> QED BY <2>1, <2>5
  <1>7. Wrong \in SUBSET Nat
    OBVIOUS
  <1> HIDE DEF Wrong
  <1>8. Wrong = {}
    BY <1>5, <1>6, <1>7, NoneIsLeast
  <1>9. n \in 0 .. n
    OBVIOUS
  <1> QED BY <1>3, <1>8, <1>9 DEF Wrong

-----------------------------------------------------------------------------
(* The inductive invariant *)

Colours == UNION {[S -> [1 .. 4 -> Word]] : S \in SUBSET Word}
Overlay == [overlay : BOOLEAN, back : Colours, front : Colours]

TypeOK ==
  /\ library \in Library
  /\ todo = <<>> \/ \E call \in Calls : todo = <<call>>
  /\ using \in 0 .. MaxConnections
  /\ cmd_buffer \in Seq(Byte) /\ collected \in Seq(Calls)
  /\ wire \in [Connection -> Seq(Byte)]
  /\ link \in [Connection -> {"none", "up", "down"}]
  /\ status \in [Connection -> {"none", "open", "closed", "refused"}]
  /\ buffer \in [Connection -> Seq(Byte)]
  /\ nextOp \in [Connection -> {NONE} \cup DOMAIN payloadLength]
  /\ client \in [Connection -> Overlay]
  /\ calls \in [Connection -> Seq(Calls)]
  /\ garbled \in [Connection -> BOOLEAN]
  /\ made \in 0 .. MaxCalls

(* A connection the library has not opened is untouched, one the daemon has
   not accepted or has closed has nothing in the decoder.  The decoder keeps
   an opcode only if it has a payload. *)
Opened(i) ==
  /\ using # 0 /\ i > using => link[i] = "none"
  /\ link[i] = "none" => status[i] = "none" /\ wire[i] = <<>> /\ calls[i] = <<>>
  /\ status[i] = "none" => buffer[i] = <<>> /\ nextOp[i] = NONE /\ client[i] = Fresh
  /\ status[i] \in {"closed", "refused"} => link[i] = "down"
  /\ status[i] = "refused" => garbled[i]
  /\ nextOp[i] # NONE => payloadLength[nextOp[i]] > 0

(* C++: the buffer is the bytes of the calls that wait for a flush. *)
Collected ==
  /\ IsStream(cmd_buffer, collected)
  /\ \A k \in 1 .. Len(collected) : ~Misfit(collected[k])

(* What has been written on a connection and the daemon has not run *)
Pending(i) ==
  (IF nextOp[i] = NONE THEN <<>> ELSE <<nextOp[i]>>) \o (buffer[i] \o wire[i])

Fits(cs) == \A k \in 1 .. Len(cs) : ~Misfit(cs[k])

(* The daemon has run the first n calls; the bytes of the others are pending,
   but for those at the end that were lost with the connection. *)
CarriedOut(i, n, r, run, lost) ==
  /\ n \in 0 .. Len(calls[i])
  /\ IsRest(r, calls[i])
  /\ lost \in Seq(Byte) /\ Pending(i) \o lost = r[n]
  /\ link[i] = "up" => lost = <<>>
  /\ IsRun(run, calls[i], n) /\ client[i] = run[n]

Following(i) ==
  ~garbled[i] /\ status[i] \in {"none", "open"} =>
    /\ Fits(calls[i])
    /\ \E n, r, run, lost : CarriedOut(i, n, r, run, lost)

IInv ==
  /\ TypeOK
  /\ Collected
  /\ \A i \in Connection : Opened(i) /\ Following(i)

-----------------------------------------------------------------------------
(* What a step leaves as it is *)

LEMMA SameMeaning ==
  ASSUME library' = library
  PROVE  \A c : /\ Encoded(c)' = Encoded(c)
                /\ Misfit(c)' <=> Misfit(c)
                /\ Says(c)' = Says(c)
  BY DEF Encoded, Misfit, Says, Payload, Rgba, TokenBytes

LEMMA SameStreams ==
  ASSUME library' = library
  PROVE  /\ \A r, cs : IsRest(r, cs)' <=> IsRest(r, cs)
         /\ \A bytes, cs : IsStream(bytes, cs)' <=> IsStream(bytes, cs)
         /\ \A run, cs, n : IsRun(run, cs, n)' <=> IsRun(run, cs, n)
         /\ \A cs : Fits(cs)' <=> Fits(cs)
  <1>1. \A c : /\ Encoded(c)' = Encoded(c)
               /\ Misfit(c)' <=> Misfit(c)
               /\ Says(c)' = Says(c)
    BY SameMeaning
  <1>2. \A r, cs : IsRest(r, cs)' <=> IsRest(r, cs)
    BY <1>1, Zenon DEF IsRest
  <1>3. \A bytes, cs : IsStream(bytes, cs)' <=> IsStream(bytes, cs)
    BY <1>2, Zenon DEF IsStream
  <1>4. \A run, cs, n : IsRun(run, cs, n)' <=> IsRun(run, cs, n)
    BY <1>1, Zenon DEF IsRun
  <1>5. \A cs : Fits(cs)' <=> Fits(cs)
    BY <1>1, Zenon DEF Fits
  <1> QED BY <1>2, <1>3, <1>4, <1>5

ConnectionState(i) ==
  <<wire[i], link[i], status[i], buffer[i], nextOp[i], client[i], calls[i], garbled[i]>>

LEMMA Untouched ==
  ASSUME NEW i, library' = library, UNCHANGED ConnectionState(i), Following(i)
  PROVE  Following(i)'
  <1>1. /\ wire[i]' = wire[i] /\ link[i]' = link[i] /\ status[i]' = status[i]
        /\ buffer[i]' = buffer[i] /\ nextOp[i]' = nextOp[i] /\ client[i]' = client[i]
        /\ calls[i]' = calls[i] /\ garbled[i]' = garbled[i]
    BY DEF ConnectionState
  <1>2. Pending(i)' = Pending(i)
    BY <1>1, Zenon DEF Pending
  <1> QED BY <1>1, <1>2, SameStreams, Zenon DEF Following, CarriedOut

LEMMA CollectedKept ==
  ASSUME library' = library, UNCHANGED buffering, Collected
  PROVE  Collected'
  <1>1. cmd_buffer' = cmd_buffer /\ collected' = collected
    BY DEF buffering
  <1> QED BY <1>1, SameStreams, SameMeaning, Zenon DEF Collected

(* Every step leaves library alone and what does not concern it. *)
LEMMA SameLibrary ==
  ASSUME [Next]_vars
  PROVE  library' = library
  BY DEF Next, vars, Animation, Collect, Write, ShortWrite, FailingWrite, Writing, Break,
         Handle, Accept, Receive, Decode, Refuse, Close, Kill, Shut, OnlyDaemon

-----------------------------------------------------------------------------
(* The libraries' steps *)

LEMMA WhatIsWritten ==
  ASSUME TypeOK, Collected, NEW call \in Calls
  PROVE  /\ Written(call) \in Seq(Calls)
         /\ IsStream(Bytes(call), Written(call))
         /\ Bytes(call) \in Seq(Byte) /\ Bytes(call) # <<>>
         /\ ~Misfit(call) => Fits(Written(call))
  <1>1. Encoded(call) \in Seq(Byte) /\ Encoded(call) # <<>>
    BY EncodedProperties
  <1>2. CASE call.op = "strobe"
    <2>1. Bytes(call) = cmd_buffer \o Encoded(call) /\ Written(call) = Append(collected, call)
      BY <1>2 DEF Bytes, Written
    <2>2. cmd_buffer \in Seq(Byte) /\ collected \in Seq(Calls)
      BY DEF TypeOK
    <2>3. Append(collected, call) \in Seq(Calls)
          /\ Len(Append(collected, call)) = Len(collected) + 1
          /\ \A k \in 1 .. Len(collected) : Append(collected, call)[k] = collected[k]
          /\ Append(collected, call)[Len(collected) + 1] = call
      BY <2>2, AppendProperties
    <2>4. IsStream(cmd_buffer \o Encoded(call), Append(collected, call))
      BY <2>2, StreamAppend DEF Collected
    <2>5. cmd_buffer \o Encoded(call) \in Seq(Byte) /\ cmd_buffer \o Encoded(call) # <<>>
      <3>1. /\ cmd_buffer \o Encoded(call) \in Seq(Byte)
            /\ Len(cmd_buffer \o Encoded(call)) = Len(cmd_buffer) + Len(Encoded(call))
        BY <1>1, <2>2, ConcatElements
      <3>2. Len(cmd_buffer) \in Nat /\ Len(Encoded(call)) \in Nat \ {0} /\ Len(<<>>) = 0
        BY <1>1, <2>2, EmptySeq, LenProperties
      <3>3. Len(cmd_buffer \o Encoded(call)) # Len(<<>>)
        BY <3>1, <3>2
      <3> QED BY <3>1, <3>3, Zenon
    <2>6. ASSUME ~Misfit(call) PROVE Fits(Append(collected, call))
      <3>1. SUFFICES ASSUME NEW k \in 1 .. Len(Append(collected, call))
                     PROVE  ~Misfit(Append(collected, call)[k])
        BY DEF Fits
      <3>2. k \in 1 .. Len(collected) \/ k = Len(collected) + 1
        <4>1. Len(collected) \in Nat
          BY <2>2, LenProperties
        <4> QED BY <2>3, <3>1, <4>1
      <3>3. CASE k \in 1 .. Len(collected)
        <4>1. ~Misfit(collected[k])
          BY <3>3 DEF Collected
        <4> QED BY <2>3, <3>3, <4>1
      <3>4. CASE k = Len(collected) + 1
        BY <2>3, <2>6, <3>4
      <3> QED BY <3>2, <3>3, <3>4
    <2> QED BY <2>1, <2>3, <2>4, <2>5, <2>6
  <1>3. CASE call.op # "strobe"
    <2>1. Bytes(call) = Encoded(call) /\ Written(call) = <<call>>
      BY <1>3 DEF Bytes, Written
    <2>2. <<call>> \in Seq(Calls) /\ Len(<<call>>) = 1 /\ <<call>>[1] = call
      OBVIOUS
    <2>3. ~Misfit(call) => Fits(<<call>>)
      <3>1. \A k \in 1 .. Len(<<call>>) : <<call>>[k] = call
        BY <2>2
      <3> QED BY <3>1 DEF Fits
    <2> QED BY <1>1, <2>1, <2>2, <2>3, StreamOfOne, Zenon
  <1> QED BY <1>2, <1>3

LEMMA PendingType ==
  ASSUME TypeOK, NEW i \in Connection
  PROVE  /\ buffer[i] \in Seq(Byte) /\ wire[i] \in Seq(Byte)
         /\ nextOp[i] # NONE => nextOp[i] \in Byte /\ nextOp[i] \in DOMAIN payloadLength
         /\ (IF nextOp[i] = NONE THEN <<>> ELSE <<nextOp[i]>>) \in Seq(Byte)
         /\ Pending(i) \in Seq(Byte)
         /\ calls[i] \in Seq(Calls)
  <1>1. buffer[i] \in Seq(Byte) /\ wire[i] \in Seq(Byte) /\ calls[i] \in Seq(Calls)
    BY DEF TypeOK
  <1>2. nextOp[i] # NONE => nextOp[i] \in {1, 2, 3, 255}
    BY DEF TypeOK, payloadLength
  <1>3. nextOp[i] # NONE => nextOp[i] \in Byte /\ nextOp[i] \in DOMAIN payloadLength
    BY <1>2 DEF Byte, payloadLength
  <1>4. (IF nextOp[i] = NONE THEN <<>> ELSE <<nextOp[i]>>) \in Seq(Byte)
    <2>1. CASE nextOp[i] = NONE
      BY <2>1, EmptySeq
    <2>2. CASE nextOp[i] # NONE
      BY <1>3, <2>2
    <2> QED BY <2>1, <2>2
  <1>5. buffer[i] \o wire[i] \in Seq(Byte)
    BY <1>1, ConcatElements
  <1>6. Pending(i) \in Seq(Byte)
    BY <1>4, <1>5, ConcatElements DEF Pending
  <1> QED BY <1>1, <1>3, <1>4, <1>6

(* The calls of a connection go on with others. *)
LEMMA MoreCalls ==
  ASSUME NEW cs \in Seq(Calls), NEW ds \in Seq(Calls)
  PROVE  /\ cs \o ds \in Seq(Calls) /\ Len(cs \o ds) = Len(cs) + Len(ds)
         /\ Fits(cs) /\ Fits(ds) => Fits(cs \o ds)
         /\ \A n \in 0 .. Len(cs) : \A run : IsRun(run, cs, n) => IsRun(run, cs \o ds, n)
  <1> DEFINE es == cs \o ds
  <1>1. Len(cs) \in Nat /\ Len(ds) \in Nat
    OBVIOUS
  <1>2. /\ es \in Seq(Calls) /\ Len(es) = Len(cs) + Len(ds)
        /\ \A k \in 1 .. Len(cs) + Len(ds) :
             es[k] = IF k <= Len(cs) THEN cs[k] ELSE ds[k - Len(cs)]
    BY ConcatProperties
  <1> HIDE DEF es
  <1>3. ASSUME Fits(cs), Fits(ds) PROVE Fits(es)
    <2>1. SUFFICES ASSUME NEW k \in 1 .. Len(es) PROVE ~Misfit(es[k])
      BY DEF Fits
    <2>2. CASE k <= Len(cs)
      <3>1. k \in 1 .. Len(cs) /\ es[k] = cs[k]
        BY <1>1, <1>2, <2>2
      <3> QED BY <1>3, <3>1 DEF Fits
    <2>3. CASE ~(k <= Len(cs))
      <3>1. k - Len(cs) \in 1 .. Len(ds) /\ es[k] = ds[k - Len(cs)]
        BY <1>1, <1>2, <2>3
      <3> QED BY <1>3, <3>1 DEF Fits
    <2> QED BY <2>2, <2>3
  <1>4. ASSUME NEW n \in 0 .. Len(cs), NEW run, IsRun(run, cs, n)
        PROVE  IsRun(run, es, n)
    <2>1. \A k \in 1 .. n : es[k] = cs[k]
      BY <1>1, <1>2
    <2> QED BY <1>4, <2>1, Zenon DEF IsRun
  <1> QED BY <1>2, <1>3, <1>4 DEF es

(* A call of which b is written, and the rest is lost *)
LEMMA Wrote ==
  ASSUME TypeOK, Collected, NEW u \in Connection, Opened(u), Following(u),
         link[u] = "up", NEW call \in Calls,
         NEW b \in Seq(Byte), NEW rest \in Seq(Byte), Bytes(call) = b \o rest,
         library' = library,
         wire'[u] = wire[u] \o b,
         calls'[u] = calls[u] \o Written(call),
         garbled'[u] = (garbled[u] \/ Misfit(call)),
         link'[u] = "up" => rest = <<>>,
         UNCHANGED <<status[u], buffer[u], nextOp[u], client[u]>>
  PROVE  Following(u)'
  <1>1. SUFFICES ASSUME ~garbled'[u], status'[u] \in {"none", "open"}
                 PROVE  /\ Fits(calls[u])'
                        /\ \E n, r, run, lost : CarriedOut(u, n, r, run, lost)'
    BY Zenon DEF Following
  <1>2. ~garbled[u] /\ ~Misfit(call) /\ status[u] \in {"none", "open"}
        /\ buffer'[u] = buffer[u] /\ nextOp'[u] = nextOp[u] /\ client'[u] = client[u]
    BY <1>1
  <1>3. Fits(calls[u]) /\ \E n, r, run, lost : CarriedOut(u, n, r, run, lost)
    BY <1>2 DEF Following
  <1>4. PICK n, r, run, lost : CarriedOut(u, n, r, run, lost)
    BY <1>3
  <1> DEFINE cs == calls[u]
             ds == Written(call)
             p == Pending(u)
  <1>5. /\ n \in 0 .. Len(cs) /\ IsRest(r, cs) /\ IsRun(run, cs, n) /\ client[u] = run[n]
        /\ lost = <<>> /\ p \o lost = r[n]
    BY <1>4 DEF CarriedOut
  <1>6. cs \in Seq(Calls) /\ p \in Seq(Byte)
    BY PendingType
  <1>7. ds \in Seq(Calls) /\ IsStream(Bytes(call), ds) /\ Fits(ds)
    BY <1>2, WhatIsWritten
  <1>8. PICK q : IsRest(q, ds) /\ q[0] = Bytes(call)
    BY <1>7 DEF IsStream
  <1>9. PICK joined : Joins(joined, r, cs, q, ds)
    BY <1>5, <1>6, <1>7, <1>8, RestJoin
  <1>10. IsRest(joined, cs \o ds) /\ joined[n] = r[n] \o Bytes(call)
    BY <1>5, <1>8, <1>9, Zenon DEF Joins
  <1>11. r[n] = p
    BY <1>5, <1>6, EmptyNeutral
  <1>12. Pending(u)' = p \o b
    <2> DEFINE o == IF nextOp[u] = NONE THEN <<>> ELSE <<nextOp[u]>>
    <2>1. o \in Seq(Byte) /\ buffer[u] \in Seq(Byte) /\ wire[u] \in Seq(Byte)
      BY PendingType
    <2>2. Pending(u)' = o \o (buffer[u] \o (wire[u] \o b)) /\ p = o \o (buffer[u] \o wire[u])
      BY <1>2, Zenon DEF Pending
    <2> HIDE DEF o, p
    <2>3. buffer[u] \o wire[u] \in Seq(Byte)
          /\ buffer[u] \o (wire[u] \o b) = (buffer[u] \o wire[u]) \o b
      <3>1. buffer[u] \o wire[u] \in Seq(Byte)
        BY <2>1, ConcatElements
      <3>2. (buffer[u] \o wire[u]) \o b = buffer[u] \o (wire[u] \o b)
        BY <2>1, Associative
      <3> QED BY <3>1, <3>2, Zenon
    <2>4. o \o ((buffer[u] \o wire[u]) \o b) = (o \o (buffer[u] \o wire[u])) \o b
      BY <2>1, <2>3, Associative
    <2> QED BY <2>2, <2>3, <2>4, Zenon
  <1> HIDE DEF p
  <1>13. Pending(u)' \o rest = joined[n]
    <2>1. (p \o b) \o rest = p \o (b \o rest)
      BY <1>6, Associative
    <2> QED BY <1>10, <1>11, <1>12, <2>1, Zenon
  <1> HIDE DEF cs, ds
  <1>14. /\ Len(cs \o ds) = Len(cs) + Len(ds) /\ Fits(cs \o ds) /\ IsRun(run, cs \o ds, n)
    <2>1. Fits(cs)
      BY <1>3 DEF cs
    <2> QED BY <1>5, <1>6, <1>7, <2>1, MoreCalls
  <1>15. n \in 0 .. Len(cs \o ds)
    <2>1. Len(cs) \in Nat /\ Len(ds) \in Nat
      BY <1>6, <1>7, LenProperties
    <2> QED BY <1>5, <1>14, <2>1
  <1>16. PICK es : es = cs \o ds
    OBVIOUS
  <1>17. calls'[u] = es
    BY <1>16 DEF cs, ds
  <1>18. /\ IsRest(joined, es) /\ Fits(es) /\ IsRun(run, es, n) /\ n \in 0 .. Len(es)
    BY <1>10, <1>14, <1>15, <1>16, Zenon
  <1>19. /\ IsRest(joined, es)' /\ Fits(es)' /\ IsRun(run, es, n)'
    BY <1>18, SameStreams, Zenon
  <1>20. client'[u] = run[n]
    BY <1>2, <1>5
  <1>21. CarriedOut(u, n, joined, run, rest)'
    BY <1>13, <1>17, <1>18, <1>19, <1>20, Zenon DEF CarriedOut
  <1> QED BY <1>17, <1>19, <1>21, Zenon

-----------------------------------------------------------------------------
(* The daemon's steps *)

(* A sequence cut into the first n elements and the others *)
LEMMA Cut ==
  ASSUME NEW a \in Seq(Byte), NEW n \in Nat, n <= Len(a)
  PROVE  /\ SubSeq(a, 1, n) \in Seq(Byte) /\ Len(SubSeq(a, 1, n)) = n
         /\ SubSeq(a, n + 1, Len(a)) \in Seq(Byte)
         /\ SubSeq(a, 1, n) \o SubSeq(a, n + 1, Len(a)) = a
  <1> DEFINE x == SubSeq(a, 1, n)
             y == SubSeq(a, n + 1, Len(a))
  <1>1. Len(a) \in Nat
    OBVIOUS
  <1>2. x \in Seq(Byte) /\ Len(x) = n
    <2>1. 1 \in 1 .. Len(a) + 1 /\ n \in 1 - 1 .. Len(a)
      BY <1>1
    <2> QED BY <1>1, <2>1, SubSeqProperties
  <1>3. y \in Seq(Byte)
    <2>1. n + 1 \in 1 .. Len(a) + 1 /\ Len(a) \in n .. Len(a)
      BY <1>1
    <2> QED BY <1>1, <2>1, SubSeqProperties
  <1>4. x \o y = SubSeq(a, 1, Len(a))
    <2>1. 1 \in 1 .. Len(a) + 1 /\ n \in 1 - 1 .. Len(a) /\ Len(a) \in n .. Len(a)
      BY <1>1
    <2> QED BY <1>1, <2>1, ConcatAdjacentSubSeq
  <1> QED BY <1>2, <1>3, <1>4, SubSeqFull

LEMMA FreshType == Fresh \in Overlay
  <1>1. {} \in SUBSET Word /\ <<>> \in [{} -> [1 .. 4 -> Word]]
    OBVIOUS
  <1>2. <<>> \in Colours
    BY <1>1, Zenon DEF Colours
  <1> QED BY <1>2 DEF Fresh, Overlay

LEMMA DispatchType ==
  ASSUME NEW state \in Overlay, NEW op \in DOMAIN payloadLength,
         NEW p \in Seq(Byte), Len(p) = payloadLength[op]
  PROVE  Dispatch(state, Parse(op, p)) \in Overlay
  <1> DEFINE m == Parse(op, p)
  <1>1. Fresh \in Overlay
    BY FreshType
  <1>2. op \in {1, 2, 3, 255}
    BY DEF payloadLength
  <1>3. CASE op = 255
    <2>1. m.op = "strobe"
      BY <1>3 DEF Parse
    <2> HIDE DEF m
    <2>2. Dispatch(state, m) = IF ~state.overlay THEN state ELSE [state EXCEPT !.front = state.back]
      BY <2>1 DEF Dispatch
    <2> QED BY <2>2 DEF Overlay, m
  <1>4. CASE op = 2
    <2>1. m.op = "auth"
      BY <1>4 DEF Parse
    <2> HIDE DEF m
    <2>2. Dispatch(state, m) = [Fresh EXCEPT !.overlay = m.token \in Known]
      BY <2>1 DEF Dispatch
    <2>3. (m.token \in Known) \in BOOLEAN
      OBVIOUS
    <2> QED BY <1>1, <2>2, <2>3 DEF Overlay, m
  <1>5. CASE op \in {1, 3}
    <2> DEFINE col == [i \in 1 .. 4 |-> IF op = 1 THEN 256 * p[2 + i] + p[2 + i]
                                         ELSE 256 * p[2 * i + 1] + p[2 * i + 2]]
    <2>1. m = [op |-> "set", led |-> 256 * p[1] + p[2], colour |-> col]
      BY <1>5 DEF Parse
    <2>2. \A x, y \in Byte : 256 * x + y \in Word
      BY DEF Byte, Word
    <2>3. \A k \in 1 .. Len(p) : p[k] \in Byte
      BY ElementOfSeq
    <2>4. Len(p) = IF op = 1 THEN 6 ELSE 10
      BY <1>5 DEF payloadLength
    <2>5. 256 * p[1] + p[2] \in Word
      <3>1. 1 \in 1 .. Len(p) /\ 2 \in 1 .. Len(p)
        BY <2>4
      <3> QED BY <2>2, <2>3, <3>1
    <2>6. col \in [1 .. 4 -> Word]
      <3>1. SUFFICES ASSUME NEW i \in 1 .. 4 PROVE col[i] \in Word
        OBVIOUS
      <3>2. CASE op = 1
        <4>1. 2 + i \in 1 .. Len(p) /\ col[i] = 256 * p[2 + i] + p[2 + i]
          BY <2>4, <3>2
        <4> HIDE DEF col
        <4> QED BY <2>2, <2>3, <4>1
      <3>3. CASE op # 1
        <4>1. 2 * i + 1 \in 1 .. Len(p) /\ 2 * i + 2 \in 1 .. Len(p)
              /\ col[i] = 256 * p[2 * i + 1] + p[2 * i + 2]
          BY <2>4, <3>3
        <4> HIDE DEF col
        <4> QED BY <2>2, <2>3, <4>1
      <3> QED BY <3>2, <3>3
    <2>7. m.op = "set" /\ m.led \in Word /\ m.colour \in [1 .. 4 -> Word]
      <3> HIDE DEF col
      <3> QED BY <2>1, <2>5, <2>6
    <2> HIDE DEF m, col
    <2> DEFINE back == [led \in DOMAIN state.back \cup {m.led} |->
                          IF led = m.led THEN m.colour ELSE state.back[led]]
    <2>8. Dispatch(state, m) = IF ~state.overlay THEN state ELSE [state EXCEPT !.back = back]
      BY <2>7 DEF Dispatch
    <2>9. back \in Colours
      <3>1. PICK S \in SUBSET Word : state.back \in [S -> [1 .. 4 -> Word]]
        BY DEF Overlay, Colours
      <3>2. back \in [S \cup {m.led} -> [1 .. 4 -> Word]]
        <4>1. DOMAIN state.back = S
          BY <3>1
        <4>2. \A led \in S \cup {m.led} :
                (IF led = m.led THEN m.colour ELSE state.back[led]) \in [1 .. 4 -> Word]
          BY <2>7, <3>1
        <4> QED BY <4>1, <4>2
      <3>3. S \cup {m.led} \in SUBSET Word
        BY <2>7, <3>1
      <3> HIDE DEF back
      <3> QED BY <3>2, <3>3, Zenon DEF Colours
    <2> HIDE DEF back
    <2> QED BY <2>8, <2>9 DEF Overlay, m
  <1> QED BY <1>2, <1>3, <1>4, <1>5

(* The decoder's view of what is pending: an opcode and what follows *)
LEMMA PendingSplit ==
  ASSUME TypeOK, NEW i \in Connection, ~Waiting(i)
  PROVE  /\ OpcodeOf(i) \in Byte /\ Rest(i) \in Seq(Byte)
         /\ Pending(i) = <<OpcodeOf(i)>> \o (Rest(i) \o wire[i])
         /\ nextOp[i] # NONE => /\ OpcodeOf(i) = nextOp[i] /\ Rest(i) = buffer[i]
                                /\ Len(Rest(i)) >= payloadLength[nextOp[i]]
  <1> DEFINE b == buffer[i]
             w == wire[i]
  <1>1. /\ b \in Seq(Byte) /\ w \in Seq(Byte)
        /\ nextOp[i] # NONE => nextOp[i] \in Byte /\ nextOp[i] \in DOMAIN payloadLength
    BY PendingType
  <1>2. b \o w \in Seq(Byte)
    BY <1>1, ConcatElements
  <1>3. b # <<>>
    BY DEF Waiting
  <1>4. CASE nextOp[i] = NONE
    <2>1. OpcodeOf(i) = Head(b) /\ Rest(i) = Tail(b)
      BY <1>4 DEF OpcodeOf, Rest
    <2>2. Pending(i) = <<>> \o (b \o w)
      BY <1>4 DEF Pending
    <2> HIDE DEF b, w
    <2>3. Head(b) \in Byte /\ Tail(b) \in Seq(Byte) /\ b = <<Head(b)>> \o Tail(b)
      BY <1>1, <1>3, HeadAndTail
    <2>4. <<>> \o (b \o w) = b \o w
      BY <1>2, EmptyNeutral
    <2>5. <<Head(b)>> \in Seq(Byte)
      BY <2>3
    <2>6. (<<Head(b)>> \o Tail(b)) \o w = <<Head(b)>> \o (Tail(b) \o w)
      BY <1>1, <2>3, <2>5, Associative
    <2> QED BY <1>4, <2>1, <2>2, <2>3, <2>4, <2>6, Zenon DEF w
  <1>5. CASE nextOp[i] # NONE
    <2>1. OpcodeOf(i) = nextOp[i] /\ Rest(i) = b /\ Pending(i) = <<nextOp[i]>> \o (b \o w)
      BY <1>5 DEF OpcodeOf, Rest, Pending
    <2>2. ~(Len(b) < payloadLength[nextOp[i]])
      BY <1>5 DEF Waiting
    <2>3. payloadLength[nextOp[i]] \in Nat /\ Len(b) \in Nat
      <3>1. nextOp[i] \in {1, 2, 3, 255}
        BY <1>1, <1>5 DEF payloadLength
      <3>2. payloadLength[nextOp[i]] \in Nat
        BY <3>1, ProtocolAssumption DEF payloadLength
      <3> QED BY <1>1, <3>2
    <2> QED BY <1>1, <1>5, <2>1, <2>2, <2>3
  <1> QED BY <1>4, <1>5

(* What the decoder goes on with is the next call. *)
LEMMA NextCall ==
  ASSUME TypeOK, NEW i \in Connection, ~Waiting(i), status[i] = "open",
         Following(i), ~garbled[i]
  PROVE  \E n, r, run, lost :
           /\ CarriedOut(i, n, r, run, lost)
           /\ n + 1 \in 1 .. Len(calls[i]) /\ n \in Nat
           /\ calls[i][n + 1] \in Calls /\ ~Misfit(calls[i][n + 1])
           /\ OpcodeOf(i) = Opcode[calls[i][n + 1].op]
           /\ r[n + 1] \in Seq(Byte)
           /\ Rest(i) \o (wire[i] \o lost) = Payload(calls[i][n + 1]) \o r[n + 1]
  <1>1. Fits(calls[i]) /\ \E n, r, run, lost : CarriedOut(i, n, r, run, lost)
    BY DEF Following
  <1>2. PICK n, r, run, lost : CarriedOut(i, n, r, run, lost)
    BY <1>1
  <1> DEFINE cs == calls[i]
             o == OpcodeOf(i)
             a == Rest(i)
             w == wire[i]
             c == cs[n + 1]
  <1>3. /\ n \in 0 .. Len(cs) /\ lost \in Seq(Byte) /\ Pending(i) \o lost = r[n]
        /\ IsRest(r, cs)
    BY <1>2 DEF CarriedOut
  <1>4. cs \in Seq(Calls) /\ w \in Seq(Byte) /\ Len(cs) \in Nat
    BY PendingType
  <1>5. o \in Byte /\ a \in Seq(Byte) /\ Pending(i) = <<o>> \o (a \o w)
    BY PendingSplit
  <1> HIDE DEF cs, o, a, w
  <1>6. /\ <<o>> \in Seq(Byte) /\ a \o w \in Seq(Byte) /\ w \o lost \in Seq(Byte)
    BY <1>3, <1>4, <1>5, ConcatElements
  <1>7. a \o (w \o lost) \in Seq(Byte)
    BY <1>5, <1>6, ConcatElements
  <1>8. r[n] = <<o>> \o (a \o (w \o lost))
    <2>1. (<<o>> \o (a \o w)) \o lost = <<o>> \o ((a \o w) \o lost)
      BY <1>3, <1>6, Associative
    <2>2. (a \o w) \o lost = a \o (w \o lost)
      BY <1>3, <1>4, <1>5, Associative
    <2> QED BY <1>3, <1>5, <2>1, <2>2, Zenon
  <1>9. n # Len(cs)
    <2>1. r[Len(cs)] = <<>>
      BY <1>3 DEF IsRest
    <2>2. Len(<<o>> \o (a \o (w \o lost))) = Len(<<o>>) + Len(a \o (w \o lost))
      BY <1>6, <1>7, ConcatElements
    <2>3. Len(<<o>>) = 1 /\ Len(a \o (w \o lost)) \in Nat /\ Len(<<>>) = 0
      BY <1>7, LenProperties
    <2> QED BY <1>8, <2>1, <2>2, <2>3
  <1>10. n \in Nat /\ n \in 0 .. Len(cs) - 1 /\ n + 1 \in 0 .. Len(cs) /\ n + 1 \in 1 .. Len(cs)
    BY <1>3, <1>4, <1>9
  <1>11. c \in Calls /\ ~Misfit(c)
    <2>1. c \in Calls
      BY <1>4, <1>10, ElementOfSeq
    <2> QED BY <1>1, <1>10, <2>1 DEF Fits, cs
  <1>12. r[n] = Encoded(c) \o r[n + 1] /\ r[n + 1] \in Seq(Byte)
    BY <1>3, <1>10 DEF IsRest
  <1> HIDE DEF c
  <1>13. /\ Encoded(c) = <<Opcode[c.op]>> \o Payload(c)
         /\ Opcode[c.op] \in Byte /\ Payload(c) \in Seq(Byte)
    BY <1>11, EncodedProperties
  <1>14. r[n] = <<Opcode[c.op]>> \o (Payload(c) \o r[n + 1])
    <2>1. <<Opcode[c.op]>> \in Seq(Byte)
      BY <1>13
    <2>2. (<<Opcode[c.op]>> \o Payload(c)) \o r[n + 1]
            = <<Opcode[c.op]>> \o (Payload(c) \o r[n + 1])
      BY <1>12, <1>13, <2>1, Associative
    <2> QED BY <1>12, <1>13, <2>2, Zenon
  <1>15. Payload(c) \o r[n + 1] \in Seq(Byte)
    BY <1>12, <1>13, ConcatElements
  <1>16. o = Opcode[c.op] /\ a \o (w \o lost) = Payload(c) \o r[n + 1]
    <2> DEFINE x == a \o (w \o lost)
               y == Payload(c) \o r[n + 1]
               v == Opcode[c.op]
    <2>1. x \in Seq(Byte) /\ y \in Seq(Byte) /\ <<o>> \o x = <<v>> \o y
      BY <1>7, <1>8, <1>14, <1>15, Zenon
    <2>2. o \in Byte /\ v \in Byte
      BY <1>5, <1>13
    <2> HIDE DEF x, y, v
    <2>3. o = v /\ x = y
      BY <2>1, <2>2, SameHead
    <2> QED BY <2>3 DEF x, y, v
  <1> QED BY <1>2, <1>10, <1>11, <1>12, <1>16 DEF cs, o, a, w, c

(* Bytes handed to the decoder *)
LEMMA Received ==
  ASSUME TypeOK, NEW i \in Connection, Following(i), library' = library,
         NEW n \in 1 .. Len(wire[i]),
         buffer'[i] = buffer[i] \o SubSeq(wire[i], 1, n),
         wire'[i] = SubSeq(wire[i], n + 1, Len(wire[i])),
         UNCHANGED <<link[i], status[i], nextOp[i], client[i], calls[i], garbled[i]>>
  PROVE  Following(i)'
  <1> DEFINE w == wire[i]
             x == SubSeq(w, 1, n)
             y == SubSeq(w, n + 1, Len(w))
  <1>1. buffer[i] \in Seq(Byte) /\ w \in Seq(Byte) /\ Len(w) \in Nat
    BY PendingType
  <1>2. n \in Nat /\ n <= Len(w)
    BY <1>1
  <1>3. x \in Seq(Byte) /\ y \in Seq(Byte) /\ x \o y = w
    BY <1>1, <1>2, Cut
  <1>4. Pending(i)' = Pending(i)
    <2>1. buffer'[i] \o wire'[i] = (buffer[i] \o x) \o y
      OBVIOUS
    <2> HIDE DEF x, y
    <2>2. (buffer[i] \o x) \o y = buffer[i] \o (x \o y)
      BY <1>1, <1>3, Associative
    <2>3. buffer'[i] \o wire'[i] = buffer[i] \o wire[i]
      BY <1>3, <2>1, <2>2, Zenon DEF w
    <2>4. nextOp'[i] = nextOp[i]
      OBVIOUS
    <2> QED BY <2>3, <2>4, Zenon DEF Pending
  <1>5. /\ link'[i] = link[i] /\ status'[i] = status[i] /\ client'[i] = client[i]
        /\ calls'[i] = calls[i] /\ garbled'[i] = garbled[i]
    OBVIOUS
  <1> QED BY <1>4, <1>5, SameStreams, Zenon DEF Following, CarriedOut

(* An opcode whose payload has not come yet *)
LEMMA OpcodeKept ==
  ASSUME TypeOK, NEW i \in Connection, Following(i), library' = library,
         ~Waiting(i), OpcodeOf(i) \in DOMAIN payloadLength,
         buffer'[i] = Rest(i), nextOp'[i] = OpcodeOf(i),
         UNCHANGED <<wire[i], link[i], status[i], client[i], calls[i], garbled[i]>>
  PROVE  Following(i)'
  <1>1. OpcodeOf(i) # NONE
    BY DEF payloadLength, NONE
  <1>2. /\ wire'[i] = wire[i] /\ link'[i] = link[i] /\ status'[i] = status[i]
        /\ client'[i] = client[i] /\ calls'[i] = calls[i] /\ garbled'[i] = garbled[i]
    OBVIOUS
  <1>3. Pending(i)' = <<OpcodeOf(i)>> \o (Rest(i) \o wire[i])
    BY <1>1, <1>2 DEF Pending
  <1>4. Pending(i)' = Pending(i)
    BY <1>3, PendingSplit
  <1> QED BY <1>2, <1>4, SameStreams, Zenon DEF Following, CarriedOut

(* A command that is run *)
LEMMA CommandRun ==
  ASSUME TypeOK, NEW i \in Connection, Following(i), library' = library,
         status[i] = "open", ~Waiting(i), OpcodeOf(i) \in DOMAIN payloadLength,
         NEW length, length = payloadLength[OpcodeOf(i)],
         Len(Rest(i)) >= length,
         client'[i] = Dispatch(client[i], Parse(OpcodeOf(i), SubSeq(Rest(i), 1, length))),
         buffer'[i] = SubSeq(Rest(i), length + 1, Len(Rest(i))),
         nextOp'[i] = NONE,
         UNCHANGED <<wire[i], link[i], status[i], calls[i], garbled[i]>>
  PROVE  Following(i)'
  <1>1. /\ wire'[i] = wire[i] /\ link'[i] = link[i] /\ status'[i] = status[i]
        /\ calls'[i] = calls[i] /\ garbled'[i] = garbled[i]
    OBVIOUS
  <1>2. SUFFICES ASSUME ~garbled[i]
                 PROVE  /\ Fits(calls[i])
                        /\ \E n, r, run, lost : CarriedOut(i, n, r, run, lost)'
    BY <1>1, SameStreams, Zenon DEF Following
  <1>3. Fits(calls[i])
    BY <1>2 DEF Following
  <1>4. PICK n, r, run, lost :
           /\ CarriedOut(i, n, r, run, lost)
           /\ n + 1 \in 1 .. Len(calls[i]) /\ n \in Nat
           /\ calls[i][n + 1] \in Calls /\ ~Misfit(calls[i][n + 1])
           /\ OpcodeOf(i) = Opcode[calls[i][n + 1].op]
           /\ r[n + 1] \in Seq(Byte)
           /\ Rest(i) \o (wire[i] \o lost) = Payload(calls[i][n + 1]) \o r[n + 1]
    BY <1>2, NextCall
  <1> DEFINE c == calls[i][n + 1]
             a == Rest(i)
             w == wire[i]
             p == Payload(c)
             b == SubSeq(a, length + 1, Len(a))
  <1>5. /\ IsRest(r, calls[i]) /\ lost \in Seq(Byte)
        /\ link[i] = "up" => lost = <<>>
        /\ IsRun(run, calls[i], n) /\ client[i] = run[n]
    BY <1>4 DEF CarriedOut
  <1>6. c \in Calls /\ ~Misfit(c) /\ OpcodeOf(i) = Opcode[c.op] /\ a \o (w \o lost) = p \o r[n + 1]
    BY <1>4
  <1>7. a \in Seq(Byte) /\ w \in Seq(Byte)
    BY PendingSplit, PendingType
  <1>8. p \in Seq(Byte) /\ Len(p) = length
    BY <1>6, EncodedProperties DEF Misfit
  <1>9. w \o lost \in Seq(Byte)
    BY <1>5, <1>7, ConcatElements
  <1>10. /\ SubSeq(a, 1, length) = p
         /\ b \in Seq(Byte)
         /\ b \o (w \o lost) = r[n + 1]
    <2>1. Len(p) <= Len(a)
      BY <1>7, <1>8
    <2> HIDE DEF p, a, w, b
    <2>2. /\ SubSeq(a, 1, Len(p)) = p
          /\ SubSeq(a, Len(p) + 1, Len(a)) \in Seq(Byte)
          /\ SubSeq(a, Len(p) + 1, Len(a)) \o (w \o lost) = r[n + 1]
      <3> DEFINE v == w \o lost
                 z == r[n + 1]
      <3>1. v \in Seq(Byte) /\ z \in Seq(Byte) /\ a \o v = p \o z
        BY <1>4, <1>6, <1>9, Zenon
      <3> HIDE DEF v, z
      <3>2. /\ SubSeq(a, 1, Len(p)) = p
            /\ SubSeq(a, Len(p) + 1, Len(a)) \in Seq(Byte)
            /\ SubSeq(a, Len(p) + 1, Len(a)) \o v = z
        BY <1>7, <1>8, <2>1, <3>1, CutPrefix
      <3> QED BY <3>2, Zenon DEF v, z
    <2> QED BY <1>8, <2>2, Zenon DEF b
  <1>11. Pending(i)' \o lost = r[n + 1]
    <2>1. Pending(i)' = <<>> \o (b \o w)
      BY <1>1 DEF Pending
    <2> HIDE DEF p, a, w, b
    <2>2. <<>> \o (b \o w) = b \o w /\ (b \o w) \o lost = b \o (w \o lost)
      <3>1. b \o w \in Seq(Byte)
        BY <1>7, <1>10, ConcatElements
      <3>2. <<>> \o (b \o w) = b \o w
        BY <3>1, EmptyNeutral
      <3>3. (b \o w) \o lost = b \o (w \o lost)
        BY <1>5, <1>7, <1>10, Associative
      <3> QED BY <3>2, <3>3
    <2> QED BY <1>10, <2>1, <2>2, Zenon
  <1>12. client'[i] = Dispatch(run[n], Says(c))
    <2>1. Parse(OpcodeOf(i), p) = Says(c)
      BY <1>6, ParsedAsSaid, Zenon
    <2> QED BY <1>5, <1>10, <2>1, Zenon
  <1>13. PICK longer : /\ IsRun(longer, calls[i], n + 1)
                       /\ longer[n + 1] = Dispatch(run[n], Says(c))
    BY <1>4, <1>5, RunGoesOn
  <1>14. n + 1 \in 0 .. Len(calls[i])
    BY <1>4
  <1>15. client'[i] = longer[n + 1]
    BY <1>12, <1>13
  <1>16. CarriedOut(i, n + 1, r, longer, lost)'
    BY <1>1, <1>5, <1>11, <1>13, <1>14, <1>15, SameStreams, Zenon DEF CarriedOut
  <1> QED BY <1>3, <1>16, Zenon

-----------------------------------------------------------------------------
(* The steps preserve the invariant. *)

LEMMA InitInvariant == Init => IInv
  <1> SUFFICES ASSUME Init PROVE IInv
    OBVIOUS
  <1>1. 1 \in Connection /\ 1 \in 0 .. MaxConnections
    BY ProtocolAssumption DEF Connection
  <1>2. <<>> \in Seq(Byte) /\ <<>> \in Seq(Calls)
    BY EmptySeq
  <1>3. Fresh \in Overlay
    BY FreshType
  <1>4. TypeOK
    <2>1. using \in 0 .. MaxConnections /\ made \in 0 .. MaxCalls
      BY <1>1, ProtocolAssumption DEF Init
    <2>2. /\ wire \in [Connection -> Seq(Byte)]
          /\ buffer \in [Connection -> Seq(Byte)]
          /\ calls \in [Connection -> Seq(Calls)]
          /\ client \in [Connection -> Overlay]
          /\ nextOp \in [Connection -> {NONE} \cup DOMAIN payloadLength]
          /\ garbled \in [Connection -> BOOLEAN]
      BY <1>2, <1>3, Zenon DEF Init
    <2>3. /\ link \in [Connection -> {"none", "up", "down"}]
          /\ status \in [Connection -> {"none", "open", "closed", "refused"}]
      BY DEF Init
    <2> QED BY <1>2, <2>1, <2>2, <2>3 DEF TypeOK, Init
  <1>5. Collected
    <2>1. \A k \in 1 .. Len(<<>>) : FALSE
      OBVIOUS
    <2> QED BY <2>1, StreamOfNone, Zenon DEF Collected, Init
  <1>6. ASSUME NEW i \in Connection PROVE Opened(i)
    <2>1. /\ using = 1 /\ wire[i] = <<>> /\ buffer[i] = <<>> /\ nextOp[i] = NONE
          /\ client[i] = Fresh /\ calls[i] = <<>>
          /\ link[i] = IF i = 1 THEN "up" ELSE "none"
          /\ status[i] = IF i = 1 THEN "open" ELSE "none"
      BY <1>6 DEF Init
    <2>2. i \in Nat
      BY ProtocolAssumption DEF Connection
    <2> QED BY <2>1, <2>2 DEF Opened
  <1>7. ASSUME NEW i \in Connection PROVE Following(i)
    <2>1. /\ wire[i] = <<>> /\ buffer[i] = <<>> /\ nextOp[i] = NONE
          /\ client[i] = Fresh /\ calls[i] = <<>>
      BY <1>7 DEF Init
    <2>2. PICK r : IsRest(r, <<>>) /\ r[0] = <<>>
      BY StreamOfNone DEF IsStream
    <2>3. Pending(i) = <<>> \o (<<>> \o <<>>)
      BY <2>1 DEF Pending
    <2>4. <<>> \o <<>> = <<>>
      BY <1>2, EmptyNeutral
    <2> DEFINE run == [k \in {0} |-> Fresh]
    <2>5. run[0] = Fresh /\ \A k \in 1 .. 0 : FALSE
      OBVIOUS
    <2>6. IsRun(run, <<>>, 0)
      BY <2>5 DEF IsRun
    <2> HIDE DEF run
    <2>7. 0 \in 0 .. Len(<<>>) /\ \A k \in 1 .. Len(<<>>) : FALSE
      OBVIOUS
    <2>8. Fits(<<>>)
      BY <2>7 DEF Fits
    <2>9. CarriedOut(i, 0, r, run, <<>>)
      BY <1>2, <2>1, <2>2, <2>3, <2>4, <2>5, <2>6, <2>7, Zenon DEF CarriedOut
    <2> QED BY <2>1, <2>8, <2>9, Zenon DEF Following
  <1> QED BY <1>4, <1>5, <1>6, <1>7 DEF IInv

LEMMA UsingConnection ==
  ASSUME TypeOK, NEW call, Calling(call)
  PROVE  using \in Connection
  BY ProtocolAssumption DEF TypeOK, Calling, Connection

LEMMA MadeType ==
  ASSUME TypeOK, NEW call, Calling(call)
  PROVE  made' \in 0 .. MaxCalls
  BY ProtocolAssumption DEF TypeOK, Calling

(* A step of one of the libraries *)
LEMMA TypeOfLibraries ==
  ASSUME IInv, Animation
  PROVE  TypeOK'
  <1> USE DEF IInv
  <1>1. PICK call \in Calls :
          Collect(call) \/ Write(call) \/ ShortWrite(call) \/ FailingWrite(call)
    BY DEF Animation
  <1>2. /\ Encoded(call) \in Seq(Byte) /\ Bytes(call) \in Seq(Byte)
        /\ Written(call) \in Seq(Calls)
    BY EncodedProperties, WhatIsWritten
  <1>3. CASE Collect(call)
    <2>1. made' \in 0 .. MaxCalls
      BY <1>3, MadeType DEF Collect
    <2>2. cmd_buffer \o Encoded(call) \in Seq(Byte) /\ Append(collected, call) \in Seq(Calls)
      BY <1>2, ConcatElements, AppendProperties DEF TypeOK
    <2> QED BY <1>3, <2>1, <2>2 DEF Collect, TypeOK, connection, daemon
  <1>4. ASSUME Writing(call)
        PROVE  /\ using \in Connection /\ made' \in 0 .. MaxCalls
               /\ cmd_buffer' \in Seq(Byte) /\ collected' \in Seq(Calls)
               /\ library' = library /\ UNCHANGED daemon
    <2>1. <<>> \in Seq(Byte) /\ <<>> \in Seq(Calls)
      BY EmptySeq
    <2> QED BY <1>4, <2>1, UsingConnection, MadeType, Zenon DEF Writing, TypeOK, buffering
  <1>5. \A b \in Seq(Byte) : using \in Connection =>
          [wire EXCEPT ![using] = @ \o b] \in [Connection -> Seq(Byte)]
    <2> SUFFICES ASSUME NEW b \in Seq(Byte), using \in Connection
                 PROVE  [wire EXCEPT ![using] = @ \o b] \in [Connection -> Seq(Byte)]
      OBVIOUS
    <2>1. wire[using] \in Seq(Byte) /\ wire \in [Connection -> Seq(Byte)]
      BY DEF TypeOK
    <2>2. wire[using] \o b \in Seq(Byte)
      BY <2>1, ConcatElements
    <2> QED BY <2>1, <2>2, Zenon
  <1>6. using \in Connection =>
          [calls EXCEPT ![using] = @ \o Written(call)] \in [Connection -> Seq(Calls)]
    <2> SUFFICES ASSUME using \in Connection
                 PROVE  [calls EXCEPT ![using] = @ \o Written(call)] \in [Connection -> Seq(Calls)]
      OBVIOUS
    <2>1. calls[using] \in Seq(Calls) /\ calls \in [Connection -> Seq(Calls)]
      BY DEF TypeOK
    <2>2. calls[using] \o Written(call) \in Seq(Calls)
      BY <1>2, <2>1, ConcatProperties
    <2> QED BY <2>1, <2>2, Zenon
  <1>7. \A n \in Int : n <= Len(Bytes(call)) => SubSeq(Bytes(call), 1, n) \in Seq(Byte)
    <2> DEFINE b == Bytes(call)
    <2> SUFFICES ASSUME NEW n \in Int, n <= Len(b) PROVE SubSeq(b, 1, n) \in Seq(Byte)
      OBVIOUS
    <2> HIDE DEF b
    <2>1. \A k \in 1 .. Len(b) : b[k] \in Byte
      BY <1>2, ElementOfSeq DEF b
    <2>2. Len(b) \in Nat
      BY <1>2 DEF b
    <2>3. \A k \in 1 .. n : b[k] \in Byte
      BY <2>1, <2>2
    <2>4. 1 \in Int
      OBVIOUS
    <2> QED BY <2>3, <2>4, SubSeqProperties
  <1>8. Len(Bytes(call)) \in Nat
    BY <1>2
  <1>9. \A x : [garbled EXCEPT ![using] = @ \/ x] \in [Connection -> BOOLEAN]
    BY DEF TypeOK
  <1>10. CASE Write(call)
    <2>1. Writing(call)
      BY <1>10 DEF Write
    <2>2. /\ wire' \in [Connection -> Seq(Byte)] /\ calls' \in [Connection -> Seq(Calls)]
          /\ garbled' \in [Connection -> BOOLEAN]
      <3>1. wire \in [Connection -> Seq(Byte)] /\ calls \in [Connection -> Seq(Calls)]
            /\ garbled \in [Connection -> BOOLEAN]
        BY DEF TypeOK
      <3> QED BY <1>2, <1>4, <1>5, <1>6, <1>9, <1>10, <2>1, <3>1, Zenon DEF Write
    <2> QED BY <1>4, <1>10, <2>1, <2>2 DEF Write, TypeOK, daemon
  <1>11. CASE ShortWrite(call)
    <2>1. Writing(call)
      BY <1>11 DEF ShortWrite
    <2>2. PICK n \in 1 .. Len(Bytes(call)) - 1 :
            wire' = [wire EXCEPT ![using] = @ \o SubSeq(Bytes(call), 1, n)]
      BY <1>11 DEF ShortWrite
    <2>3. n \in Int /\ n <= Len(Bytes(call))
      BY <1>8
    <2>4. wire' \in [Connection -> Seq(Byte)]
      BY <1>4, <1>5, <1>7, <2>1, <2>2, <2>3, Zenon
    <2>5. garbled' \in [Connection -> BOOLEAN]
      BY <1>11 DEF ShortWrite, TypeOK
    <2>6. calls' \in [Connection -> Seq(Calls)]
      BY <1>4, <1>6, <1>11, <2>1 DEF ShortWrite
    <2> QED BY <1>4, <1>11, <2>1, <2>4, <2>5, <2>6 DEF ShortWrite, TypeOK, daemon
  <1>12. CASE FailingWrite(call)
    <2>1. Writing(call)
      BY <1>12 DEF FailingWrite
    <2>2. Len(Bytes(call)) - 1 \in Int /\ Len(Bytes(call)) - 1 <= Len(Bytes(call))
      BY <1>8
    <2>3. /\ wire' \in [Connection -> Seq(Byte)] /\ calls' \in [Connection -> Seq(Calls)]
          /\ garbled' \in [Connection -> BOOLEAN]
      <3>1. /\ wire \in [Connection -> Seq(Byte)] /\ calls \in [Connection -> Seq(Calls)]
            /\ garbled \in [Connection -> BOOLEAN]
        BY DEF TypeOK
      <3> DEFINE b == SubSeq(Bytes(call), 1, Len(Bytes(call)) - 1)
      <3>2. b \in Seq(Byte)
        BY <1>7, <2>2
      <3>3. CASE link[using] = "up"
        <4>1. /\ wire' = [wire EXCEPT ![using] = @ \o b]
              /\ calls' = [calls EXCEPT ![using] = @ \o Written(call)]
              /\ garbled' = [garbled EXCEPT ![using] = @ \/ Misfit(call)]
          BY <1>12, <3>3 DEF FailingWrite
        <4>2. using \in Connection
          BY <1>4, <2>1
        <4> HIDE DEF b
        <4>3. wire' \in [Connection -> Seq(Byte)]
          BY <1>5, <3>2, <4>1, <4>2, Zenon
        <4>4. garbled' \in [Connection -> BOOLEAN]
          BY <1>9, <4>1, Zenon
        <4> QED BY <1>6, <4>1, <4>2, <4>3, <4>4, Zenon
      <3>4. CASE link[using] # "up"
        <4>1. wire' = wire /\ calls' = calls /\ garbled' = garbled
          BY <1>12, <3>4 DEF FailingWrite
        <4> QED BY <3>1, <4>1
      <3> QED BY <3>3, <3>4
    <2>4. /\ todo' = <<>> \/ \E c \in Calls : todo' = <<c>>
          /\ using' \in 0 .. MaxConnections
          /\ link' \in [Connection -> {"none", "up", "down"}]
      <3>1. CASE library # "java"
        BY <1>12, <3>1 DEF FailingWrite, TypeOK
      <3>2. CASE library = "java"
        <4>1. /\ using' \in {0} \cup ({using + 1} \cap Connection)
              /\ todo' = IF using' = 0 \/ call.op \in {"auth", "strobe"} THEN <<>> ELSE <<call>>
              /\ link' = [i \in Connection |->
                   IF i = using THEN "down" ELSE IF i = using' THEN "up" ELSE link[i]]
          BY <1>12, <3>2 DEF FailingWrite
        <4>2. using' \in 0 .. MaxConnections
          BY <4>1, ProtocolAssumption DEF Connection
        <4> QED BY <4>1, <4>2 DEF TypeOK
      <3> QED BY <3>1, <3>2
    <2> QED BY <1>4, <2>1, <2>3, <2>4 DEF TypeOK, daemon
  <1> QED BY <1>1, <1>3, <1>10, <1>11, <1>12


(* The end of a connection *)
LEMMA TypeOfShut ==
  ASSUME TypeOK, NEW i \in Connection, NEW why \in {"closed", "refused"}, Shut(i, why)
  PROVE  TypeOK'
  <1>1. <<>> \in Seq(Byte) /\ <<>> \in Seq(Calls)
    BY EmptySeq
  <1>2. /\ wire' \in [Connection -> Seq(Byte)] /\ buffer' \in [Connection -> Seq(Byte)]
        /\ calls' \in [Connection -> Seq(Calls)] /\ client' \in [Connection -> Overlay]
    BY <1>1, FreshType, Zenon DEF TypeOK, Shut
  <1>3. /\ link' \in [Connection -> {"none", "up", "down"}]
        /\ status' \in [Connection -> {"none", "open", "closed", "refused"}]
        /\ nextOp' \in [Connection -> {NONE} \cup DOMAIN payloadLength]
    BY DEF TypeOK, Shut
  <1> QED BY <1>2, <1>3 DEF TypeOK, Shut, buffering

(* What the decoder goes on with has a payload of some length. *)
LEMMA KnownLength ==
  ASSUME NEW op \in DOMAIN payloadLength
  PROVE  payloadLength[op] \in Nat /\ op # NONE
  BY ProtocolAssumption DEF payloadLength, NONE

(* A step of the daemon, and the end of a connection *)
LEMMA TypeOfDaemon ==
  ASSUME TypeOK, NEW i \in Connection, Handle(i) \/ Kill(i)
  PROVE  TypeOK'
  <1>1. /\ wire \in [Connection -> Seq(Byte)] /\ buffer \in [Connection -> Seq(Byte)]
        /\ wire[i] \in Seq(Byte) /\ buffer[i] \in Seq(Byte)
        /\ client \in [Connection -> Overlay] /\ client[i] \in Overlay
        /\ nextOp \in [Connection -> {NONE} \cup DOMAIN payloadLength]
    BY DEF TypeOK
  <1>2. CASE Accept(i)
    BY <1>2 DEF Accept, OnlyDaemon, TypeOK, buffering, connection
  <1>3. CASE Receive(i)
    <2>1. PICK n \in 1 .. Len(wire[i]) :
            /\ buffer' = [buffer EXCEPT ![i] = @ \o SubSeq(wire[i], 1, n)]
            /\ wire' = [wire EXCEPT ![i] = SubSeq(@, n + 1, Len(@))]
      BY <1>3 DEF Receive
    <2>2. SubSeq(wire[i], 1, n) \in Seq(Byte) /\ SubSeq(wire[i], n + 1, Len(wire[i])) \in Seq(Byte)
      BY <1>1, Cut
    <2>3. buffer[i] \o SubSeq(wire[i], 1, n) \in Seq(Byte)
      BY <1>1, <2>2, ConcatElements
    <2>4. buffer' \in [Connection -> Seq(Byte)] /\ wire' \in [Connection -> Seq(Byte)]
      BY <1>1, <2>1, <2>2, <2>3, Zenon
    <2> QED BY <1>3, <2>4 DEF Receive, OnlyDaemon, TypeOK, buffering
  <1>4. CASE Decode(i)
    <2> DEFINE op == OpcodeOf(i)
               length == payloadLength[op]
               a == Rest(i)
    <2>1. /\ ~Waiting(i) /\ op \in DOMAIN payloadLength
          /\ IF Len(a) >= length
             THEN /\ client' = [client EXCEPT ![i] = Dispatch(@, Parse(op, SubSeq(a, 1, length)))]
                  /\ buffer' = [buffer EXCEPT ![i] = SubSeq(a, length + 1, Len(a))]
                  /\ nextOp' = [nextOp EXCEPT ![i] = NONE]
             ELSE /\ buffer' = [buffer EXCEPT ![i] = a]
                  /\ nextOp' = [nextOp EXCEPT ![i] = op]
                  /\ UNCHANGED client
      BY <1>4 DEF Decode
    <2>2. a \in Seq(Byte)
      BY <2>1, PendingSplit
    <2>3. length \in Nat
      BY <2>1, KnownLength
    <2> HIDE DEF op, length, a
    <2>4. /\ buffer' \in [Connection -> Seq(Byte)] /\ client' \in [Connection -> Overlay]
          /\ nextOp' \in [Connection -> {NONE} \cup DOMAIN payloadLength]
      <3>1. CASE Len(a) >= length
        <4> DEFINE x == SubSeq(a, 1, length)
                   y == SubSeq(a, length + 1, Len(a))
        <4>1. x \in Seq(Byte) /\ Len(x) = length /\ y \in Seq(Byte)
          BY <2>2, <2>3, <3>1, Cut
        <4> HIDE DEF x, y
        <4>2. Dispatch(client[i], Parse(op, x)) \in Overlay
          BY <1>1, <2>1, <4>1, DispatchType DEF length
        <4>3. /\ client' = [client EXCEPT ![i] = Dispatch(@, Parse(op, x))]
              /\ buffer' = [buffer EXCEPT ![i] = y]
              /\ nextOp' = [nextOp EXCEPT ![i] = NONE]
          BY <2>1, <3>1 DEF x, y
        <4> QED BY <1>1, <4>1, <4>2, <4>3, Zenon
      <3>2. CASE ~(Len(a) >= length)
        <4>1. buffer' = [buffer EXCEPT ![i] = a] /\ nextOp' = [nextOp EXCEPT ![i] = op]
              /\ client' = client
          BY <2>1, <3>2
        <4> QED BY <1>1, <2>1, <2>2, <4>1, Zenon
      <3> QED BY <3>1, <3>2
    <2> QED BY <1>4, <2>4 DEF Decode, OnlyDaemon, TypeOK, buffering, connection
  <1>5. CASE Refuse(i)
    BY <1>5, TypeOfShut DEF Refuse
  <1>6. CASE Close(i) \/ Kill(i)
    BY <1>6, TypeOfShut DEF Close, Kill
  <1> QED BY <1>2, <1>3, <1>4, <1>5, <1>6 DEF Handle

LEMMA TypeInvariant == IInv /\ [Next]_vars => TypeOK'
  <1> SUFFICES ASSUME IInv, [Next]_vars PROVE TypeOK'
    OBVIOUS
  <1>1. TypeOK
    BY DEF IInv
  <1>2. CASE Animation
    BY <1>2, TypeOfLibraries
  <1>3. CASE Break
    BY <1>1, <1>3 DEF Break, TypeOK, buffering, daemon
  <1>4. CASE \E i \in Connection : Handle(i) \/ Kill(i)
    BY <1>1, <1>4, TypeOfDaemon
  <1>5. CASE UNCHANGED vars
    BY <1>1, <1>5 DEF vars, TypeOK, buffering, connection, daemon
  <1> QED BY <1>2, <1>3, <1>4, <1>5 DEF Next

-----------------------------------------------------------------------------
(* What becomes of a connection in a step *)

LEMMA OpenedKept ==
  ASSUME NEW j \in Connection, Opened(j), UNCHANGED <<using, ConnectionState(j)>>
  PROVE  Opened(j)'
  <1>1. /\ wire[j]' = wire[j] /\ link[j]' = link[j] /\ status[j]' = status[j]
        /\ buffer[j]' = buffer[j] /\ nextOp[j]' = nextOp[j] /\ client[j]' = client[j]
        /\ calls[j]' = calls[j] /\ garbled[j]' = garbled[j] /\ using' = using
    BY DEF ConnectionState
  <1> QED BY <1>1, Zenon DEF Opened

(* Nothing is promised of a connection that is closed, or on which something
   else than commands was written. *)
LEMMA NothingPromised ==
  ASSUME NEW j, garbled'[j] \/ status'[j] \in {"closed", "refused"}
  PROVE  Following(j)'
  BY DEF Following

(* A connection breaks, or the daemon accepts it. *)
LEMMA LinkLost ==
  ASSUME NEW j, Following(j), library' = library,
         link'[j] # "up" \/ link'[j] = link[j],
         status'[j] = status[j] \/ status[j] = "none",
         UNCHANGED <<wire[j], buffer[j], nextOp[j], client[j], calls[j], garbled[j]>>
  PROVE  Following(j)'
  <1>1. SUFFICES ASSUME ~garbled'[j], status'[j] \in {"none", "open"}
                 PROVE  /\ Fits(calls[j])'
                        /\ \E n, r, run, lost : CarriedOut(j, n, r, run, lost)'
    BY Zenon DEF Following
  <1>2. /\ wire'[j] = wire[j] /\ buffer'[j] = buffer[j] /\ nextOp'[j] = nextOp[j]
        /\ client'[j] = client[j] /\ calls'[j] = calls[j] /\ garbled'[j] = garbled[j]
    OBVIOUS
  <1>3. Fits(calls[j]) /\ \E n, r, run, lost : CarriedOut(j, n, r, run, lost)
    BY <1>1, <1>2 DEF Following
  <1>4. Pending(j)' = Pending(j)
    BY <1>2, Zenon DEF Pending
  <1>5. PICK n, r, run, lost : CarriedOut(j, n, r, run, lost)
    BY <1>3
  <1>6. CarriedOut(j, n, r, run, lost)'
    BY <1>2, <1>4, <1>5, SameStreams, Zenon DEF CarriedOut
  <1>7. Fits(calls[j])'
    BY <1>2, <1>3, SameStreams, Zenon
  <1> QED BY <1>6, <1>7

(* A new connection *)
LEMMA NewConnection ==
  ASSUME TypeOK, NEW j \in Connection, Following(j), library' = library,
         calls[j] = <<>>,
         UNCHANGED <<wire[j], status[j], buffer[j], nextOp[j], client[j], calls[j], garbled[j]>>
  PROVE  Following(j)'
  <1>1. SUFFICES ASSUME ~garbled'[j], status'[j] \in {"none", "open"}
                 PROVE  /\ Fits(calls[j])'
                        /\ \E n, r, run, lost : CarriedOut(j, n, r, run, lost)'
    BY Zenon DEF Following
  <1>2. /\ wire'[j] = wire[j] /\ buffer'[j] = buffer[j] /\ nextOp'[j] = nextOp[j]
        /\ client'[j] = client[j] /\ calls'[j] = calls[j] /\ garbled'[j] = garbled[j]
        /\ status'[j] = status[j]
    OBVIOUS
  <1>3. Fits(calls[j]) /\ \E n, r, run, lost : CarriedOut(j, n, r, run, lost)
    BY <1>1, <1>2 DEF Following
  <1>4. Pending(j)' = Pending(j)
    BY <1>2, Zenon DEF Pending
  <1>5. PICK n, r, run, lost : CarriedOut(j, n, r, run, lost)
    BY <1>3
  <1>6. lost = <<>>
    <2>1. Len(calls[j]) = 0
      OBVIOUS
    <2>2. n = 0 /\ r[0] = <<>>
      BY <1>5, <2>1 DEF CarriedOut, IsRest
    <2>3. Pending(j) \o lost = <<>> /\ lost \in Seq(Byte)
      BY <1>5, <2>2 DEF CarriedOut
    <2>4. Len(Pending(j) \o lost) = Len(Pending(j)) + Len(lost)
          /\ Len(Pending(j)) \in Nat /\ Len(lost) \in Nat
      BY <2>3, PendingType, ConcatElements
    <2>5. Len(Pending(j) \o lost) = 0
      BY <2>3
    <2>6. Len(lost) = 0
      BY <2>4, <2>5
    <2> QED BY <2>3, <2>6
  <1>7. CarriedOut(j, n, r, run, lost)'
    BY <1>2, <1>4, <1>5, <1>6, SameStreams, Zenon DEF CarriedOut
  <1>8. Fits(calls[j])'
    BY <1>2, <1>3, SameStreams, Zenon
  <1> QED BY <1>7, <1>8

(* A strobe takes what has been collected with it. *)
LEMMA CollectedAfterWriting ==
  ASSUME IInv, NEW call, Writing(call)
  PROVE  Collected'
  <1>1. library' = library /\ Collected
    BY DEF IInv, Writing
  <1>2. CASE call.op = "strobe"
    <2>1. cmd_buffer' = <<>> /\ collected' = <<>>
      BY <1>2 DEF Writing
    <2>2. \A k \in 1 .. Len(<<>>) : FALSE
      OBVIOUS
    <2>3. IsStream(<<>>, <<>>)'
      BY <1>1, StreamOfNone, SameStreams, Zenon
    <2> QED BY <2>1, <2>2, <2>3, Zenon DEF Collected
  <1>3. CASE call.op # "strobe"
    BY <1>1, <1>3, CollectedKept DEF Writing
  <1> QED BY <1>2, <1>3

-----------------------------------------------------------------------------
(* Each step preserves what the invariant says of the connections. *)

Consistent == Collected /\ \A j \in Connection : Opened(j) /\ Following(j)

LEMMA CollectStep ==
  ASSUME IInv, NEW call \in Calls, Collect(call)
  PROVE  Consistent'
  <1>1. /\ TypeOK /\ Collected /\ library' = library /\ call.op \in {"rgb8", "set8"}
        /\ cmd_buffer' = cmd_buffer \o Encoded(call)
        /\ collected' = Append(collected, call)
    BY DEF IInv, Collect
  <1>2. \A j \in Connection : UNCHANGED <<using, ConnectionState(j)>>
    BY DEF Collect, connection, daemon, ConnectionState
  <1>3. \A j \in Connection : Opened(j)' /\ Following(j)'
    BY <1>1, <1>2, OpenedKept, Untouched DEF IInv
  <1>4. cmd_buffer \in Seq(Byte) /\ collected \in Seq(Calls)
    BY <1>1 DEF TypeOK
  <1>5. IsStream(cmd_buffer \o Encoded(call), Append(collected, call))
    BY <1>1, <1>4, StreamAppend DEF Collected
  <1>6. ~Misfit(call)
    BY <1>1, CallKinds, SetsFit DEF Sets8, Sets16
  <1>7. ASSUME NEW k \in 1 .. Len(Append(collected, call))
        PROVE  ~Misfit(Append(collected, call)[k])
    <2>1. /\ Len(Append(collected, call)) = Len(collected) + 1
          /\ \A n \in 1 .. Len(collected) : Append(collected, call)[n] = collected[n]
          /\ Append(collected, call)[Len(collected) + 1] = call
          /\ Len(collected) \in Nat
      BY <1>4, AppendProperties
    <2>2. CASE k = Len(collected) + 1
      BY <1>6, <2>1, <2>2
    <2>3. CASE k # Len(collected) + 1
      <3>1. k \in 1 .. Len(collected)
        BY <2>1, <2>3
      <3>2. ~Misfit(collected[k])
        BY <1>1, <3>1 DEF Collected
      <3> QED BY <2>1, <3>1, <3>2
    <2> QED BY <2>2, <2>3
  <1> DEFINE x == cmd_buffer \o Encoded(call)
             y == Append(collected, call)
  <1>8. IsStream(x, y) /\ \A k \in 1 .. Len(y) : ~Misfit(y[k])
    BY <1>5, <1>7
  <1>9. PICK u, v : u = x /\ v = y
    OBVIOUS
  <1>10. cmd_buffer' = u /\ collected' = v
    BY <1>1, <1>9
  <1> HIDE DEF x, y
  <1>11. IsStream(u, v)' /\ \A k \in 1 .. Len(v) : ~Misfit(v[k])'
    BY <1>1, <1>8, <1>9, SameStreams, SameMeaning, Zenon
  <1>12. Collected'
    BY <1>10, <1>11, Zenon DEF Collected
  <1> QED BY <1>3, <1>12 DEF Consistent

LEMMA WriteStep ==
  ASSUME IInv, NEW call \in Calls, Write(call)
  PROVE  Consistent'
  <1>1. Writing(call) /\ library' = library /\ TypeOK /\ Collected /\ UNCHANGED daemon
        /\ UNCHANGED <<using, link>>
    BY DEF IInv, Write, Writing
  <1>2. using \in Connection
    BY <1>1, UsingConnection DEF Writing
  <1>3. Collected'
    BY <1>1, CollectedAfterWriting
  <1>4. ASSUME NEW j \in Connection PROVE Opened(j)' /\ Following(j)'
    <2>1. Opened(j) /\ Following(j)
      BY DEF IInv
    <2>2. /\ status'[j] = status[j] /\ buffer'[j] = buffer[j] /\ nextOp'[j] = nextOp[j]
          /\ client'[j] = client[j] /\ link'[j] = link[j]
      BY <1>1 DEF daemon
    <2>3. CASE link[using] = "up" /\ j = using
      <3>1. /\ wire' = [wire EXCEPT ![using] = @ \o Bytes(call)]
            /\ calls' = [calls EXCEPT ![using] = @ \o Written(call)]
            /\ garbled' = [garbled EXCEPT ![using] = @ \/ Misfit(call)]
        BY <2>3 DEF Write
      <3>2. /\ wire'[j] = wire[j] \o Bytes(call) /\ calls'[j] = calls[j] \o Written(call)
            /\ garbled'[j] = (garbled[j] \/ Misfit(call))
        BY <1>1, <2>3, <3>1 DEF TypeOK
      <3>3. Bytes(call) \in Seq(Byte) /\ <<>> \in Seq(Byte)
            /\ Bytes(call) = Bytes(call) \o <<>>
        BY <1>1, WhatIsWritten, EmptyNeutral, EmptySeq
      <3>4. link[j] = "up"
        BY <2>3
      <3> DEFINE b == Bytes(call)
                 none == <<>>
      <3> HIDE DEF b, none
      <3>5. Following(j)'
        <4>1. b \in Seq(Byte) /\ none \in Seq(Byte) /\ Bytes(call) = b \o none
              /\ wire'[j] = wire[j] \o b /\ (link'[j] = "up" => none = <<>>)
          BY <3>2, <3>3 DEF b, none
        <4> QED BY <1>1, <2>1, <2>2, <3>2, <3>4, <4>1, Wrote
      <3>6. Opened(j)'
        BY <1>1, <2>1, <2>2, <3>2, <3>4 DEF Opened
      <3> QED BY <3>5, <3>6
    <2>4. CASE ~(link[using] = "up" /\ j = using)
      <3>1. wire'[j] = wire[j] /\ calls'[j] = calls[j] /\ garbled'[j] = garbled[j]
        BY <1>1, <2>4 DEF Write, TypeOK
      <3> QED BY <1>1, <2>1, <2>2, <3>1, OpenedKept, Untouched DEF ConnectionState
    <2> QED BY <2>3, <2>4
  <1> QED BY <1>3, <1>4 DEF Consistent

LEMMA ShortWriteStep ==
  ASSUME IInv, NEW call \in Calls, ShortWrite(call)
  PROVE  Consistent'
  <1>1. Writing(call) /\ library' = library /\ TypeOK /\ Collected /\ UNCHANGED daemon
        /\ UNCHANGED <<using, link>> /\ link[using] = "up"
        /\ garbled' = [garbled EXCEPT ![using] = TRUE]
    BY DEF IInv, ShortWrite, Writing
  <1>2. PICK x, y : /\ wire' = [wire EXCEPT ![using] = x]
                    /\ calls' = [calls EXCEPT ![using] = y]
    BY DEF ShortWrite
  <1>3. using \in Connection
    BY <1>1, UsingConnection DEF Writing
  <1>4. Collected'
    BY <1>1, CollectedAfterWriting
  <1>5. ASSUME NEW j \in Connection PROVE Opened(j)' /\ Following(j)'
    <2>1. Opened(j) /\ Following(j)
      BY DEF IInv
    <2>2. /\ status'[j] = status[j] /\ buffer'[j] = buffer[j] /\ nextOp'[j] = nextOp[j]
          /\ client'[j] = client[j] /\ link'[j] = link[j]
      BY <1>1 DEF daemon
    <2>3. CASE j = using
      <3>1. garbled'[j] /\ link[j] = "up"
        BY <1>1, <2>3 DEF TypeOK
      <3>2. Opened(j)'
        BY <1>1, <2>1, <2>2, <3>1 DEF Opened
      <3> QED BY <3>1, <3>2, NothingPromised
    <2>4. CASE j # using
      <3>1. wire'[j] = wire[j] /\ garbled'[j] = garbled[j] /\ calls'[j] = calls[j]
        BY <1>1, <1>2, <2>4 DEF TypeOK
      <3> QED BY <1>1, <2>1, <2>2, <3>1, OpenedKept, Untouched DEF ConnectionState
    <2> QED BY <2>3, <2>4
  <1> QED BY <1>4, <1>5 DEF Consistent

LEMMA FailingWriteStep ==
  ASSUME IInv, NEW call \in Calls, FailingWrite(call)
  PROVE  Consistent'
  <1>1. Writing(call) /\ library' = library /\ TypeOK /\ Collected /\ UNCHANGED daemon
    BY DEF IInv, FailingWrite, Writing
  <1>2. using \in Connection
    BY <1>1, UsingConnection DEF Writing
  <1>3. Collected'
    BY <1>1, CollectedAfterWriting
  <1>4. \/ using' = using /\ link' = [link EXCEPT ![using] = "down"]
        \/ /\ using' = 0 \/ using' = using + 1
           /\ link' = [i \in Connection |->
                IF i = using THEN "down" ELSE IF i = using' THEN "up" ELSE link[i]]
    BY DEF FailingWrite
  <1>5. ASSUME NEW j \in Connection
        PROVE  /\ j = using => link'[j] = "down"
               /\ j # using /\ j # using' => link'[j] = link[j]
               /\ j = using' => j = using \/ (using # 0 /\ j > using)
               /\ using' # 0 /\ j > using' => using # 0 /\ j > using
               /\ j \in Nat
    <2>1. j \in Nat /\ using \in Nat \ {0} /\ link \in [Connection -> {"none", "up", "down"}]
      BY <1>1, <1>2, ProtocolAssumption DEF Connection, TypeOK
    <2>2. CASE using' = using /\ link' = [link EXCEPT ![using] = "down"]
      BY <2>1, <2>2
    <2>3. CASE /\ using' = 0 \/ using' = using + 1
               /\ link' = [i \in Connection |->
                    IF i = using THEN "down" ELSE IF i = using' THEN "up" ELSE link[i]]
      <3>1. /\ j = using => link'[j] = "down"
            /\ j # using /\ j # using' => link'[j] = link[j]
        BY <2>3
      <3>2. \A u : u = 0 \/ u = using + 1 =>
                    /\ j = u => using # 0 /\ j > using
                    /\ u # 0 /\ j > u => using # 0 /\ j > using
        <4>1. j \in Nat \ {0}
          BY ProtocolAssumption DEF Connection
        <4> QED BY <2>1, <4>1
      <3> QED BY <2>1, <2>3, <3>1, <3>2
    <2> QED BY <1>4, <2>2, <2>3
  <1>6. ASSUME NEW j \in Connection PROVE Opened(j)' /\ Following(j)'
    <2>1. Opened(j) /\ Following(j)
      BY DEF IInv
    <2>2. /\ status'[j] = status[j] /\ buffer'[j] = buffer[j] /\ nextOp'[j] = nextOp[j]
          /\ client'[j] = client[j]
      BY <1>1 DEF daemon
    <2>3. CASE link[using] = "up" /\ j = using
      <3> DEFINE a == Bytes(call)
                 n == Len(a) - 1
                 b == SubSeq(a, 1, n)
                 rest == SubSeq(a, n + 1, Len(a))
      <3>1. /\ wire' = [wire EXCEPT ![using] = @ \o b]
            /\ calls' = [calls EXCEPT ![using] = @ \o Written(call)]
            /\ garbled' = [garbled EXCEPT ![using] = @ \/ Misfit(call)]
        BY <2>3 DEF FailingWrite
      <3>2. a \in Seq(Byte) /\ a # <<>>
        BY <1>1, WhatIsWritten
      <3> HIDE DEF a
      <3>3. n \in Nat /\ n <= Len(a)
        BY <3>2
      <3>4. b \in Seq(Byte) /\ rest \in Seq(Byte) /\ b \o rest = a
        BY <3>2, <3>3, Cut
      <3> HIDE DEF n, b, rest
      <3>5. /\ wire'[j] = wire[j] \o b /\ calls'[j] = calls[j] \o Written(call)
            /\ garbled'[j] = (garbled[j] \/ Misfit(call))
            /\ link[j] = "up" /\ link'[j] = "down"
        BY <1>1, <1>5, <2>3, <3>1 DEF TypeOK
      <3>6. Bytes(call) = b \o rest /\ (link'[j] = "up" => rest = <<>>)
        BY <3>4, <3>5 DEF a
      <3>7. Following(j)'
        BY <1>1, <2>1, <2>2, <3>4, <3>5, <3>6, Wrote
      <3>8. Opened(j)'
        <4>1. ~(using' # 0 /\ j > using')
          BY <1>2, <1>5, <2>3
        <4> QED BY <2>1, <2>2, <3>5, <4>1 DEF Opened
      <3> QED BY <3>7, <3>8
    <2>4. CASE ~(link[using] = "up" /\ j = using)
      <3>1. wire'[j] = wire[j] /\ calls'[j] = calls[j] /\ garbled'[j] = garbled[j]
        BY <1>1, <2>4 DEF FailingWrite, TypeOK
      <3>2. CASE j = using
        <4>1. link'[j] = "down" /\ ~(using' # 0 /\ j > using')
          BY <1>2, <1>5, <3>2
        <4>2. Following(j)'
          BY <1>1, <2>1, <2>2, <3>1, <4>1, LinkLost
        <4> QED BY <2>1, <2>2, <3>1, <4>1, <4>2 DEF Opened
      <3>3. CASE j # using /\ j = using'
        <4>1. link[j] = "none" /\ status[j] = "none" /\ calls[j] = <<>>
              /\ ~(using' # 0 /\ j > using')
          BY <1>5, <2>1, <3>3 DEF Opened
        <4>2. link'[j] = "up"
          BY <1>4, <3>3
        <4>3. Following(j)'
          BY <1>1, <2>1, <2>2, <3>1, <4>1, NewConnection
        <4> QED BY <2>1, <2>2, <3>1, <4>1, <4>2, <4>3 DEF Opened
      <3>4. CASE j # using /\ j # using'
        <4>1. link'[j] = link[j] /\ (using' # 0 /\ j > using' => using # 0 /\ j > using)
          BY <1>5, <3>4
        <4>2. Following(j)'
          BY <1>1, <2>1, <2>2, <3>1, <4>1, Untouched DEF ConnectionState
        <4> QED BY <2>1, <2>2, <3>1, <4>1, <4>2 DEF Opened
      <3> QED BY <3>2, <3>3, <3>4
    <2> QED BY <2>3, <2>4
  <1> QED BY <1>3, <1>6 DEF Consistent

LEMMA BreakStep ==
  ASSUME IInv, Break
  PROVE  Consistent'
  <1>1. PICK i \in Connection : link[i] = "up" /\ link' = [link EXCEPT ![i] = "down"]
    BY DEF Break
  <1>2. library' = library /\ UNCHANGED <<using, buffering, wire, daemon, calls, garbled>>
        /\ TypeOK /\ Collected
    BY DEF IInv, Break
  <1>3. ASSUME NEW j \in Connection PROVE Opened(j)' /\ Following(j)'
    <2>1. Opened(j) /\ Following(j)
      BY DEF IInv
    <2>2. /\ status'[j] = status[j] /\ buffer'[j] = buffer[j] /\ nextOp'[j] = nextOp[j]
          /\ client'[j] = client[j] /\ wire'[j] = wire[j] /\ calls'[j] = calls[j]
          /\ garbled'[j] = garbled[j] /\ using' = using
      BY <1>2 DEF daemon
    <2>3. link'[j] = link[j] \/ (link[j] = "up" /\ link'[j] = "down")
      BY <1>1, <1>2 DEF TypeOK
    <2>4. Following(j)'
      BY <1>2, <2>1, <2>2, <2>3, LinkLost
    <2> QED BY <2>1, <2>2, <2>3, <2>4 DEF Opened
  <1> QED BY <1>2, <1>3, CollectedKept DEF Consistent

LEMMA ShutStep ==
  ASSUME IInv, NEW i \in Connection, NEW why \in {"closed", "refused"}, Shut(i, why),
         status[i] = "open", why = "refused" => garbled[i]
  PROVE  Consistent'
  <1>1. library' = library /\ UNCHANGED <<using, buffering, garbled>> /\ TypeOK /\ Collected
    BY DEF IInv, Shut
  <1>2. ASSUME NEW j \in Connection PROVE Opened(j)' /\ Following(j)'
    <2>1. Opened(j) /\ Following(j)
      BY DEF IInv
    <2>2. CASE j = i
      <3>1. /\ status'[j] = why /\ link'[j] = "down" /\ wire'[j] = <<>> /\ calls'[j] = <<>>
            /\ buffer'[j] = <<>> /\ nextOp'[j] = NONE /\ client'[j] = Fresh
            /\ garbled'[j] = garbled[j] /\ using' = using
        BY <1>1, <2>2 DEF TypeOK, Shut
      <3>2. using # 0 => ~(j > using)
        BY <2>1, <2>2 DEF Opened
      <3>3. Opened(j)'
        BY <2>2, <3>1, <3>2 DEF Opened, NONE
      <3> QED BY <3>1, <3>3, NothingPromised
    <2>3. CASE j # i
      <3>1. UNCHANGED <<using, ConnectionState(j)>>
        BY <1>1, <2>3 DEF TypeOK, Shut, ConnectionState
      <3> QED BY <1>1, <2>1, <3>1, OpenedKept, Untouched
    <2> QED BY <2>2, <2>3
  <1> QED BY <1>1, <1>2, CollectedKept DEF Consistent

LEMMA AcceptStep ==
  ASSUME IInv, NEW i \in Connection, Accept(i)
  PROVE  Consistent'
  <1>1. /\ status[i] = "none" /\ link[i] # "none"
        /\ status' = [status EXCEPT ![i] = "open"]
        /\ library' = library /\ TypeOK /\ Collected
        /\ UNCHANGED <<using, buffering, connection, buffer, nextOp, client, calls, garbled>>
    BY DEF IInv, Accept, OnlyDaemon
  <1>2. ASSUME NEW j \in Connection PROVE Opened(j)' /\ Following(j)'
    <2>1. Opened(j) /\ Following(j)
      BY DEF IInv
    <2>2. /\ link'[j] = link[j] /\ buffer'[j] = buffer[j] /\ nextOp'[j] = nextOp[j]
          /\ client'[j] = client[j] /\ wire'[j] = wire[j] /\ calls'[j] = calls[j]
          /\ garbled'[j] = garbled[j] /\ using' = using
      BY <1>1 DEF connection
    <2>3. status'[j] = status[j]
            \/ (status[j] = "none" /\ status'[j] = "open" /\ link[j] # "none")
      BY <1>1 DEF TypeOK
    <2>4. Following(j)'
      BY <1>1, <2>1, <2>2, <2>3, LinkLost
    <2> QED BY <2>1, <2>2, <2>3, <2>4 DEF Opened
  <1> QED BY <1>1, <1>2, CollectedKept DEF Consistent

LEMMA ReceiveStep ==
  ASSUME IInv, NEW i \in Connection, Receive(i)
  PROVE  Consistent'
  <1>1. PICK n \in 1 .. Len(wire[i]) :
           /\ buffer' = [buffer EXCEPT ![i] = @ \o SubSeq(wire[i], 1, n)]
           /\ wire' = [wire EXCEPT ![i] = SubSeq(@, n + 1, Len(@))]
    BY DEF Receive
  <1>2. /\ status[i] = "open" /\ library' = library /\ TypeOK /\ Collected
        /\ UNCHANGED <<using, buffering, link, status, nextOp, client, calls, garbled>>
    BY DEF IInv, Receive, OnlyDaemon
  <1>3. ASSUME NEW j \in Connection PROVE Opened(j)' /\ Following(j)'
    <2>1. Opened(j) /\ Following(j)
      BY DEF IInv
    <2>2. /\ link'[j] = link[j] /\ status'[j] = status[j] /\ nextOp'[j] = nextOp[j]
          /\ client'[j] = client[j] /\ calls'[j] = calls[j] /\ garbled'[j] = garbled[j]
          /\ using' = using
      BY <1>2
    <2>3. CASE j = i
      <3>1. /\ buffer'[j] = buffer[j] \o SubSeq(wire[j], 1, n)
            /\ wire'[j] = SubSeq(wire[j], n + 1, Len(wire[j]))
            /\ n \in 1 .. Len(wire[j])
        BY <1>1, <1>2, <2>3 DEF TypeOK
      <3>2. Following(j)'
        BY <1>2, <2>1, <2>2, <3>1, Received
      <3>3. status[j] = "open"
        BY <1>2, <2>3
      <3> QED BY <2>1, <2>2, <3>2, <3>3 DEF Opened
    <2>4. CASE j # i
      <3>1. buffer'[j] = buffer[j] /\ wire'[j] = wire[j]
        BY <1>1, <1>2, <2>4 DEF TypeOK
      <3> QED BY <1>2, <2>1, <2>2, <3>1, OpenedKept, Untouched DEF ConnectionState
    <2> QED BY <2>3, <2>4
  <1> QED BY <1>2, <1>3, CollectedKept DEF Consistent

LEMMA DecodeStep ==
  ASSUME IInv, NEW i \in Connection, Decode(i)
  PROVE  Consistent'
  <1> DEFINE op == OpcodeOf(i)
             length == payloadLength[op]
             a == Rest(i)
  <1>1. /\ status[i] = "open" /\ ~Waiting(i) /\ op \in DOMAIN payloadLength
        /\ \/ /\ Len(a) >= length
              /\ client' = [client EXCEPT ![i] = Dispatch(@, Parse(op, SubSeq(a, 1, length)))]
              /\ buffer' = [buffer EXCEPT ![i] = SubSeq(a, length + 1, Len(a))]
              /\ nextOp' = [nextOp EXCEPT ![i] = NONE]
           \/ /\ ~(Len(a) >= length)
              /\ buffer' = [buffer EXCEPT ![i] = a]
              /\ nextOp' = [nextOp EXCEPT ![i] = op]
              /\ client' = client
    BY DEF Decode
  <1>2. /\ library' = library /\ TypeOK /\ Collected
        /\ UNCHANGED <<using, buffering, wire, link, status, calls, garbled>>
    BY DEF IInv, Decode, OnlyDaemon, connection
  <1>3. a \in Seq(Byte) /\ length \in Nat /\ op # NONE
    BY <1>1, <1>2, PendingSplit, KnownLength
  <1> HIDE DEF op, length, a
  <1>4. PICK dispatched :
          dispatched = Dispatch(client[i], Parse(op, SubSeq(a, 1, length)))
    OBVIOUS
  <1>5. ASSUME NEW j \in Connection PROVE Opened(j)' /\ Following(j)'
    <2>1. Opened(j) /\ Following(j)
      BY DEF IInv
    <2>2. /\ wire'[j] = wire[j] /\ link'[j] = link[j] /\ status'[j] = status[j]
          /\ calls'[j] = calls[j] /\ garbled'[j] = garbled[j] /\ using' = using
      BY <1>2
    <2>3. CASE j = i /\ Len(a) >= length
      <3>1. /\ client'[j] = dispatched /\ buffer'[j] = SubSeq(a, length + 1, Len(a))
            /\ nextOp'[j] = NONE
        BY <1>1, <1>2, <1>4, <2>3 DEF TypeOK
      <3>2. Following(j)'
        BY <1>1, <1>2, <1>4, <2>1, <2>2, <2>3, <3>1, CommandRun DEF op, a, length
      <3>3. status[j] = "open"
        BY <1>1, <2>3
      <3> QED BY <2>1, <2>2, <3>1, <3>2, <3>3 DEF Opened
    <2>4. CASE j = i /\ ~(Len(a) >= length)
      <3>1. buffer'[j] = a /\ nextOp'[j] = op /\ client'[j] = client[j]
        BY <1>1, <1>2, <2>4 DEF TypeOK
      <3>2. Following(j)'
        BY <1>1, <1>2, <2>1, <2>2, <2>4, <3>1, OpcodeKept DEF op, a
      <3>3. payloadLength[op] > 0
        <4>1. Len(a) \in Nat
          BY <1>3
        <4>2. length > 0
          BY <1>3, <2>4, <4>1
        <4> QED BY <4>2 DEF length
      <3>4. status[j] = "open"
        BY <1>1, <2>4
      <3> QED BY <2>1, <2>2, <3>1, <3>2, <3>3, <3>4 DEF Opened
    <2>5. CASE j # i
      <3>1. client'[j] = client[j] /\ buffer'[j] = buffer[j] /\ nextOp'[j] = nextOp[j]
        BY <1>1, <1>2, <2>5 DEF TypeOK
      <3> QED BY <1>2, <2>1, <2>2, <3>1, OpenedKept, Untouched DEF ConnectionState
    <2> QED BY <2>3, <2>4, <2>5
  <1> QED BY <1>2, <1>5, CollectedKept DEF Consistent

(* What is pending of a connection on which only commands were written begins
   with one, so that only a connection with something else is refused. *)
LEMMA RefuseStep ==
  ASSUME IInv, NEW i \in Connection, Refuse(i)
  PROVE  Consistent'
  <1>1. /\ status[i] = "open" /\ ~Waiting(i) /\ OpcodeOf(i) \notin DOMAIN payloadLength
        /\ Shut(i, "refused")
    BY DEF Refuse
  <1>2. TypeOK /\ Following(i)
    BY DEF IInv
  <1>3. garbled[i]
    <2> SUFFICES ASSUME ~garbled[i] PROVE FALSE
      OBVIOUS
    <2>1. PICK n : /\ calls[i][n + 1] \in Calls
                   /\ OpcodeOf(i) = Opcode[calls[i][n + 1].op]
      BY <1>1, <1>2, NextCall
    <2>2. Opcode[calls[i][n + 1].op] \in DOMAIN payloadLength
      BY <2>1, EncodedProperties
    <2> QED BY <1>1, <2>1, <2>2
  <1> QED BY <1>1, <1>3, ShutStep

LEMMA StepInvariant == IInv /\ [Next]_vars => IInv'
  <1> SUFFICES ASSUME IInv, [Next]_vars PROVE IInv'
    OBVIOUS
  <1>1. TypeOK'
    BY TypeInvariant
  <1>2. Consistent'
    <2>1. CASE Animation
      <3>1. PICK call \in Calls :
              Collect(call) \/ Write(call) \/ ShortWrite(call) \/ FailingWrite(call)
        BY <2>1 DEF Animation
      <3> QED BY <3>1, CollectStep, WriteStep, ShortWriteStep, FailingWriteStep
    <2>2. CASE Break
      BY <2>2, BreakStep
    <2>3. ASSUME NEW i \in Connection, Handle(i) \/ Kill(i)
          PROVE  Consistent'
      <3>1. CASE Accept(i)
        BY <3>1, AcceptStep
      <3>2. CASE Receive(i)
        BY <3>2, ReceiveStep
      <3>3. CASE Decode(i)
        BY <3>3, DecodeStep
      <3>4. CASE Refuse(i)
        BY <3>4, RefuseStep
      <3>5. CASE Close(i) \/ Kill(i)
        BY <3>5, ShutStep DEF Close, Kill
      <3> QED BY <2>3, <3>1, <3>2, <3>3, <3>4, <3>5 DEF Handle
    <2>4. CASE UNCHANGED vars
      <3>1. library' = library /\ UNCHANGED buffering /\ Collected
            /\ \A j \in Connection : UNCHANGED <<using, ConnectionState(j)>>
        BY <2>4 DEF IInv, vars, connection, daemon, ConnectionState
      <3> QED BY <3>1, OpenedKept, Untouched, CollectedKept DEF IInv, Consistent
    <2> QED BY <2>1, <2>2, <2>3, <2>4 DEF Next
  <1> QED BY <1>1, <1>2 DEF IInv, Consistent

-----------------------------------------------------------------------------
(* What the invariant implies *)

LEMMA InvariantMeant == IInv => CallsAsMeant
  <1> SUFFICES ASSUME IInv, NEW i \in Connection, ~garbled[i]
               PROVE  /\ status[i] # "refused"
                      /\ ~AnyFaint(i) => CarriesOut(i)
    BY DEF CallsAsMeant
  <1>1. TypeOK /\ Opened(i) /\ Following(i)
    BY DEF IInv
  <1>2. ASSUME ~AnyFaint(i), status[i] = "open"
        PROVE  \E n \in 0 .. Len(calls[i]) : client[i] = After(i, n)
    <2>1. PICK n, r, run, lost : CarriedOut(i, n, r, run, lost)
      BY <1>1, <1>2 DEF Following
    <2>2. n \in 0 .. Len(calls[i]) /\ n \in Nat /\ IsRun(run, calls[i], n) /\ client[i] = run[n]
      BY <2>1 DEF CarriedOut
    <2>3. IsMeantRun(run, calls[i], n)
      BY <1>1, <1>2, <2>2, RunAsMeant DEF TypeOK
    <2>4. After(i, n) = run[n]
      BY <2>2, <2>3, AfterRun
    <2> QED BY <2>2, <2>4
  <1> QED BY <1>1, <1>2 DEF Opened, CarriesOut

(* A command that has not been run would be there as a whole. *)
LEMMA InvariantHoldsNothing == IInv => NothingHeldBack
  <1> SUFFICES ASSUME IInv, NEW i \in Connection,
                      status[i] = "open", link[i] = "up", ~garbled[i],
                      ~AnyFaint(i), wire[i] = <<>>, Waiting(i)
               PROVE  client[i] = After(i, Len(calls[i]))
    BY DEF NothingHeldBack
  <1>1. TypeOK /\ Opened(i) /\ Following(i)
    BY DEF IInv
  <1>2. Fits(calls[i]) /\ \E n, r, run, lost : CarriedOut(i, n, r, run, lost)
    BY <1>1 DEF Following
  <1>3. PICK n, r, run, lost : CarriedOut(i, n, r, run, lost)
    BY <1>2
  <1> DEFINE b == buffer[i]
             p == Pending(i)
  <1>4. /\ n \in 0 .. Len(calls[i]) /\ IsRest(r, calls[i]) /\ lost = <<>> /\ p \o lost = r[n]
        /\ IsRun(run, calls[i], n) /\ client[i] = run[n]
    BY <1>3 DEF CarriedOut
  <1>5. /\ b \in Seq(Byte) /\ p \in Seq(Byte) /\ calls[i] \in Seq(Calls)
        /\ nextOp[i] # NONE => nextOp[i] \in Byte
    BY <1>1, PendingType
  <1>6. p = r[n]
    BY <1>4, <1>5, EmptyNeutral
  <1>7. p = (IF nextOp[i] = NONE THEN <<>> ELSE <<nextOp[i]>>) \o b
    <2>1. b \o <<>> = b
      BY <1>5, EmptyNeutral
    <2> QED BY <2>1, Zenon DEF Pending
  <1>8. n = Len(calls[i])
    <2> SUFFICES ASSUME n # Len(calls[i]) PROVE FALSE
      OBVIOUS
    <2> DEFINE c == calls[i][n + 1]
               z == r[n + 1]
    <2>1. Len(calls[i]) \in Nat
      BY <1>5
    <2>2. n \in 0 .. Len(calls[i]) - 1 /\ n + 1 \in 1 .. Len(calls[i])
          /\ n + 1 \in 0 .. Len(calls[i])
      BY <1>4, <2>1
    <2>3. c \in Calls
      BY <1>5, <2>2, ElementOfSeq
    <2>4. ~Misfit(c)
      BY <1>2, <2>2 DEF Fits
    <2>5. z \in Seq(Byte) /\ r[n] = Encoded(c) \o z
      BY <1>4, <2>2 DEF IsRest
    <2> HIDE DEF c, z, b, p
    <2>6. /\ Encoded(c) = <<Opcode[c.op]>> \o Payload(c)
          /\ Opcode[c.op] \in Byte /\ Payload(c) \in Seq(Byte)
          /\ <<Opcode[c.op]>> \in Seq(Byte)
      BY <2>3, EncodedProperties
    <2>7. Len(Payload(c)) = payloadLength[Opcode[c.op]]
      BY <2>4 DEF Misfit
    <2>8. p = <<Opcode[c.op]>> \o (Payload(c) \o z)
      <3>1. (<<Opcode[c.op]>> \o Payload(c)) \o z = <<Opcode[c.op]>> \o (Payload(c) \o z)
        BY <2>5, <2>6, Associative
      <3> QED BY <1>6, <2>5, <2>6, <3>1, Zenon
    <2>9. Payload(c) \o z \in Seq(Byte) /\ Len(Payload(c) \o z) = Len(Payload(c)) + Len(z)
      BY <2>5, <2>6, ConcatElements
    <2>10. CASE nextOp[i] = NONE
      <3>1. p = b
        <4>1. p = <<>> \o b
          BY <1>7, <2>10
        <4> QED BY <1>5, <4>1, EmptyNeutral DEF b
      <3>2. b = <<>>
        BY <2>10 DEF Waiting, b
      <3> DEFINE x == Payload(c) \o z
                 o == Opcode[c.op]
      <3>3. x \in Seq(Byte) /\ o \in Byte /\ <<o>> \o x = <<>>
        BY <2>6, <2>8, <2>9, <3>1, <3>2
      <3> HIDE DEF x, o
      <3>4. Len(<<o>> \o x) = 1 + Len(x) /\ Len(x) \in Nat
        BY <3>3
      <3> QED BY <3>3, <3>4
    <2>11. CASE nextOp[i] # NONE
      <3>1. p = <<nextOp[i]>> \o b
        BY <1>7, <2>11
      <3> DEFINE x == Payload(c) \o z
                 o == Opcode[c.op]
                 k == nextOp[i]
      <3>2. nextOp[i] = Opcode[c.op] /\ b = Payload(c) \o z
        <4>1. /\ k \in Byte /\ o \in Byte /\ b \in Seq(Byte) /\ x \in Seq(Byte)
              /\ <<k>> \o b = <<o>> \o x
          BY <1>5, <2>6, <2>8, <2>9, <2>11, <3>1, Zenon DEF b
        <4> HIDE DEF x, o, k
        <4>2. k = o /\ b = x
          BY <4>1, SameHead
        <4> QED BY <4>2 DEF x, o, k
      <3> HIDE DEF x, o, k
      <3>3. Len(b) >= payloadLength[nextOp[i]]
        <4>1. Len(z) \in Nat /\ Len(Payload(c)) \in Nat
          BY <2>5, <2>6
        <4> QED BY <2>7, <2>9, <3>2, <4>1
      <3>4. payloadLength[nextOp[i]] > 0
        BY <1>1, <2>11 DEF Opened
      <3>5. payloadLength[nextOp[i]] \in Nat
        BY <2>6, <2>7, <3>2
      <3>6. b = <<>> \/ Len(b) < payloadLength[nextOp[i]]
        BY DEF Waiting, b
      <3>7. Len(b) \in Nat /\ (b = <<>> => Len(b) = 0)
        BY <1>5 DEF b
      <3> QED BY <3>3, <3>4, <3>5, <3>6, <3>7
    <2> QED BY <2>10, <2>11
  <1>9. n \in Nat
    BY <1>4
  <1>10. IsMeantRun(run, calls[i], n)
    BY <1>1, <1>4, RunAsMeant DEF TypeOK
  <1>11. After(i, n) = run[n]
    BY <1>9, <1>10, AfterRun
  <1> QED BY <1>4, <1>8, <1>11

-----------------------------------------------------------------------------
(* What is proved *)

(* What has been written on a connection and the daemon has not run is always
   the bytes of the calls that follow those it has run, but for what was lost
   with the connection; what C++ keeps is the bytes of the calls that wait for
   a strobe. *)
THEOREM ConnectionsConsistent == Spec => []IInv
  <1> QED BY InitInvariant, StepInvariant, PTL DEF Spec

(* The variables have their types: bytes stay bytes through all divisions of
   the encoding and the decoding (Int16, Parse), and colours fit 16 bits. *)
THEOREM ProtocolTypeCorrect == Spec => []TypeOK
  <1>1. IInv => TypeOK
    BY DEF IInv
  <1> QED BY <1>1, ConnectionsConsistent, PTL

(* The daemon runs the calls of a connection as they were meant, in order and
   each once, and refuses no connection on which only commands were written;
   connections with a colour that Java made faint are excepted from the first
   (VaporlightFrameDecoder.decode, Message.parse, Client.dispatch). *)
THEOREM CallsMeant == Spec => []CallsAsMeant
  BY ConnectionsConsistent, InvariantMeant, PTL

(* When the decoder waits for more and no more is under way, every call has
   been carried out (VaporlightFrameDecoder.decode keeps the opcode only while
   its payload is incomplete). *)
THEOREM NothingIsHeldBack == Spec => []NothingHeldBack
  BY ConnectionsConsistent, InvariantHoldsNothing, PTL
=============================================================================
