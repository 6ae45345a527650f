--------------------------- MODULE Usart1_proofs ---------------------------
(* Proofs about the console's serial port, for rings of any size, any
   thresholds in the right order and a terminal with any lag.  What the proofs
   need beside TypeOK is UartConsistent, PutcharConsistent and
   FlowConsistent; the inductive invariant is IInv.  That the rings implement
   CharQueue takes OutputLinked and InputLinked besides: where the next
   character goes. *)
EXTENDS Usart1, SequenceTheorems, TLAPS

(* The transmitter's flags agree with each other and with what waits. *)
UartConsistent ==
  /\ line = EMPTY => TDR = EMPTY
  /\ isr = "entered" /\ sr.TXE => TDR = EMPTY
  /\ output_idle = ~TXEIE
  /\ output_pending > 0 \/ urgent_send # NUL => TXEIE

(* What usart1_putchar has seen before interrupts are off still holds: there
   is space, or else the ring has been full a character's time ago. *)
PutcharConsistent ==
  halted = "no" =>
  /\ main = "enqueue" => output_pending < OUTPUT_BUFFER_LENGTH
  /\ main = "full" =>
       /\ TXEIE /\ line # EMPTY
       /\ \/ output_pending = OUTPUT_BUFFER_LENGTH
          \/ output_pending = OUTPUT_BUFFER_LENGTH - 1 /\ TDR # EMPTY

(* Between the thresholds a terminal that is to stop has not had its XON. *)
FlowConsistent ==
  LastWord = XOFF =>
  /\ input_pending >= XON_TRESHOLD
  /\ input_pending <= XOFF_TRESHOLD => ~xon_sent

IInv == TypeOK /\ UartConsistent /\ PutcharConsistent /\ FlowConsistent

-----------------------------------------------------------------------------
(* The rings' and the line's parts *)

(* An index of a ring is followed by one. *)
LEMMA WrapType ==
  ASSUME NEW length \in Nat \ {0}, NEW index \in 0 .. length - 1
  PROVE  Wrap(index, length) \in 0 .. length - 1
  BY DEF Wrap

LEMMA NextCharType ==
  ASSUME NEW char
  PROVE  NextChar(char) \in Text
  BY TextAssumption DEF NextChar, Text, FIRST_CHAR

(* No character of text is a flow control character, and none is missing. *)
LEMMA TextIsPlain ==
  /\ \A char \in Text : char \notin {NUL, XON, XOFF, EMPTY}
  /\ EMPTY \notin Char
  /\ FIRST_CHAR \in Text
  BY TextAssumption
     DEF Text, FIRST_CHAR, NUL, XON, XOFF, EMPTY, Char

(* What a write to the data register does if the register was empty *)
LEMMA LoadType ==
  ASSUME TypeOK, NEW char \in Char, Load(char), TDR = EMPTY
  PROVE  /\ line' \in Char \union {EMPTY}
         /\ TDR' \in Char \union {EMPTY}
         /\ met' \in BOOLEAN
         /\ line' # EMPTY
         /\ line = EMPTY => line' = char /\ TDR' = EMPTY
         /\ line # EMPTY => line' = line /\ TDR' = char
  BY TextIsPlain DEF Load, TypeOK

LEMMA InitIInv == Init => IInv
  <1> SUFFICES ASSUME Init PROVE IInv
    OBVIOUS
  <1>1. TypeOK
    <2>1. /\ 0 \in OutputIndex
          /\ 0 \in InputIndex
          /\ 0 \in 0 .. OUTPUT_BUFFER_LENGTH
          /\ 0 \in 0 .. INPUT_BUFFER_LENGTH
          /\ 0 \in 0 .. Lag
      BY BufferAssumption DEF OutputIndex, InputIndex
    <2> QED BY <2>1, TextIsPlain DEF Init, TypeOK, NoStatus
  <1>2. UartConsistent /\ PutcharConsistent
    BY DEF Init, UartConsistent, PutcharConsistent, NoStatus
  <1>3. FlowConsistent
    BY DEF Init, FlowConsistent, LastWord, NUL, XON, XOFF, EMPTY
  <1> QED BY <1>1, <1>2, <1>3 DEF IInv

-----------------------------------------------------------------------------
(* The handler *)

LEMMA EnterHandlerIInv == IInv /\ EnterHandler => IInv'
  <1> SUFFICES ASSUME IInv, EnterHandler PROVE IInv'
    OBVIOUS
  <1> USE DEF IInv, EnterHandler, outputVars, outputRing, inputVars, lineVars,
              peerVars
  <1>1. TypeOK'
    BY DEF TypeOK
  <1>2. UartConsistent' /\ PutcharConsistent'
    BY DEF UartConsistent, PutcharConsistent
  <1>3. FlowConsistent'
    BY DEF FlowConsistent, LastWord
  <1> QED BY <1>1, <1>2, <1>3

(* Serving the transmitter takes the urgent character first, which keeps the
   last word. *)
LEMMA ReadDataIInv == IInv /\ ReadData => IInv'
  <1> SUFFICES ASSUME IInv, ReadData PROVE IInv'
    OBVIOUS
  <1> USE DEF IInv, ReadData, inputVars, peerVars
  <1>1. CASE ~sr.TXE
    <2> USE <1>1 DEF outputVars, outputRing, lineVars
    <2>1. TypeOK'
      BY DEF TypeOK, NoStatus
    <2>2. UartConsistent' /\ PutcharConsistent'
      BY DEF UartConsistent, PutcharConsistent, NoStatus
    <2>3. FlowConsistent'
      BY DEF FlowConsistent, LastWord
    <2> QED BY <2>1, <2>2, <2>3
  <1>2. CASE sr.TXE /\ SendUrgent
    <2> USE <1>2 DEF SendUrgent, outputRing
    <2>1. TDR = EMPTY
      BY DEF UartConsistent
    <2>2. urgent_send \in Char /\ Load(urgent_send) /\ urgent_send \in {XON, XOFF}
      BY DEF TypeOK, Char
    <2>3. /\ line' \in Char \union {EMPTY}
          /\ TDR' \in Char \union {EMPTY}
          /\ met' \in BOOLEAN
          /\ line' # EMPTY
          /\ line = EMPTY => line' = urgent_send /\ TDR' = EMPTY
          /\ line # EMPTY => line' = line /\ TDR' = urgent_send
      BY <2>1, <2>2, LoadType
    <2>4. TypeOK'
      BY <2>3 DEF TypeOK, NoStatus
    <2>5. UartConsistent' /\ PutcharConsistent'
      BY <2>1, <2>3 DEF UartConsistent, PutcharConsistent, NoStatus
    <2>6. LastWord = urgent_send /\ LastWord' = urgent_send
      BY <2>2, <2>3 DEF LastWord, NUL, XON, XOFF, EMPTY
    <2>7. FlowConsistent'
      BY <2>6 DEF FlowConsistent
    <2> QED BY <2>4, <2>5, <2>7
  <1>3. CASE sr.TXE /\ SendPending
    <2> DEFINE char == output_buffer[output_read_index]
    <2> USE <1>3 DEF SendPending
    <2>1. TDR = EMPTY
      BY DEF UartConsistent
    <2>2. char \in Text \union {NUL} /\ char \in Char
      BY DEF TypeOK, Char
    <2>3. /\ line' \in Char \union {EMPTY}
          /\ TDR' \in Char \union {EMPTY}
          /\ met' \in BOOLEAN
          /\ line' # EMPTY
          /\ line = EMPTY => line' = char /\ TDR' = EMPTY
          /\ line # EMPTY => line' = line /\ TDR' = char
      BY <2>1, <2>2, LoadType
    <2>4. output_read_index' \in OutputIndex
      BY WrapType, BufferAssumption DEF TypeOK, OutputIndex
    <2>5. output_pending' \in 0 .. OUTPUT_BUFFER_LENGTH
      BY BufferAssumption DEF TypeOK
    <2>6. TypeOK'
      BY <2>3, <2>4, <2>5 DEF TypeOK, NoStatus
    <2>7. UartConsistent'
      BY <2>1, <2>3, <2>5 DEF UartConsistent, NoStatus, TypeOK
    <2>8. PutcharConsistent'
      <3>1. output_pending' = output_pending - 1 /\ output_pending \in Nat
        BY DEF TypeOK
      <3>2. ASSUME halted = "no", main = "full"
            PROVE  /\ TXEIE
                   /\ line # EMPTY
                   /\ output_pending = OUTPUT_BUFFER_LENGTH
        BY <2>1, <3>2 DEF PutcharConsistent
      <3>3. char # EMPTY
        BY <2>2, TextIsPlain
      <3>4. ASSUME halted = "no", main = "full"
            PROVE  /\ line' # EMPTY
                   /\ TDR' # EMPTY
                   /\ output_pending' = OUTPUT_BUFFER_LENGTH - 1
        BY <2>3, <3>1, <3>2, <3>3, <3>4
      <3>5. ASSUME halted = "no", main = "enqueue"
            PROVE  output_pending' < OUTPUT_BUFFER_LENGTH
        BY <3>1, <3>5, BufferAssumption DEF PutcharConsistent
      <3> HIDE DEF char
      <3> QED BY <3>2, <3>4, <3>5 DEF PutcharConsistent
    <2>9. LastWord' = LastWord
      BY <2>1, <2>2, <2>3, TextIsPlain DEF LastWord, NUL, XON, XOFF, EMPTY
    <2>10. FlowConsistent'
      BY <2>9 DEF FlowConsistent
    <2> QED BY <2>6, <2>7, <2>8, <2>10
  <1>4. CASE sr.TXE /\ BecomeIdle
    <2> USE <1>4 DEF BecomeIdle, outputRing, lineVars
    <2>1. TypeOK'
      BY DEF TypeOK, NoStatus
    <2>2. UartConsistent'
      <3>1. output_idle' = ~TXEIE'
        BY Zenon
      <3>2. ~(output_pending' > 0) /\ urgent_send' = NUL
        OBVIOUS
      <3> QED BY <3>1, <3>2 DEF UartConsistent, NoStatus
    <2>4. PutcharConsistent'
      <3>1. TDR = EMPTY
        BY DEF UartConsistent
      <3>2. OUTPUT_BUFFER_LENGTH > 0
        BY BufferAssumption
      <3>3. halted = "no" => main # "full"
        BY <3>1, <3>2 DEF PutcharConsistent
      <3> QED BY <3>2, <3>3 DEF PutcharConsistent
    <2>3. FlowConsistent'
      BY DEF FlowConsistent, LastWord
    <2> QED BY <2>1, <2>2, <2>3, <2>4
  <1> QED BY <1>1, <1>2, <1>3, <1>4 DEF isr_ready_to_send

(* XOFF is the last word from now on, and the ring is above both thresholds. *)
LEMMA ReadInputIInv == IInv /\ isr_read_input => IInv'
  <1> SUFFICES ASSUME IInv, isr_read_input PROVE IInv'
    OBVIOUS
  <1> USE DEF IInv, isr_read_input, lineVars
  <1>1. CASE input_pending >= INPUT_BUFFER_LENGTH /\ halted' = "overflow"
             /\ UNCHANGED <<inputVars, outputVars, typed>>
    <2> USE <1>1 DEF inputVars, outputVars, outputRing
    <2>1. TypeOK'
      BY DEF TypeOK
    <2>2. UartConsistent' /\ PutcharConsistent'
      BY DEF UartConsistent, PutcharConsistent
    <2>3. FlowConsistent'
      BY DEF FlowConsistent, LastWord
    <2> QED BY <2>1, <2>2, <2>3
  <1>2. CASE input_pending < INPUT_BUFFER_LENGTH
    <2>1. /\ input_buffer' = [input_buffer EXCEPT ![input_write_index] = typed]
          /\ input_write_index' = Wrap(input_write_index, INPUT_BUFFER_LENGTH)
          /\ input_pending' = input_pending + 1
          /\ typed' = NextChar(typed)
          /\ UNCHANGED <<input_read_index, xon_sent, halted>>
      BY <1>2, BufferAssumption DEF TypeOK
    <2>2. input_pending' \in 0 .. INPUT_BUFFER_LENGTH
      BY <1>2, <2>1, BufferAssumption DEF TypeOK
    <2>3. input_write_index' \in InputIndex
      BY <2>1, WrapType, BufferAssumption DEF TypeOK, InputIndex
    <2>4. input_buffer' \in [InputIndex -> Text \union {NUL}]
      BY <2>1 DEF TypeOK
    <2>5. typed' \in Text
      BY <2>1, NextCharType
    <2>6. CASE input_pending' > XOFF_TRESHOLD
      <3>1. usart1_urgent_send(XOFF)
        BY <1>2, <2>6, BufferAssumption DEF AboveXoff, TypeOK
      <3> USE <3>1 DEF usart1_urgent_send, WakeTransmitter, outputRing
      <3>2. TypeOK'
        BY <2>1, <2>2, <2>3, <2>4, <2>5 DEF TypeOK
      <3>3. TXEIE'
        BY DEF UartConsistent, TypeOK
      <3>4. UartConsistent' /\ PutcharConsistent'
        BY <3>3, <2>1 DEF UartConsistent, PutcharConsistent, TypeOK
      <3>5. FlowConsistent'
        BY <2>1, <2>2, <2>6, BufferAssumption DEF FlowConsistent
      <3> QED BY <3>2, <3>4, <3>5
    <2>7. CASE ~(input_pending' > XOFF_TRESHOLD)
      <3> USE DEF outputVars, outputRing
      <3>1. UNCHANGED outputVars
        BY <1>2, <2>7, BufferAssumption DEF AboveXoff, TypeOK
      <3>2. TypeOK'
        BY <2>1, <2>2, <2>3, <2>4, <2>5, <3>1 DEF TypeOK
      <3>3. UartConsistent' /\ PutcharConsistent'
        BY <2>1, <3>1 DEF UartConsistent, PutcharConsistent
      <3>4. LastWord' = LastWord
        BY <3>1 DEF LastWord
      <3>5. FlowConsistent'
        BY <2>1, <2>2, <3>4, BufferAssumption DEF FlowConsistent, TypeOK
      <3> QED BY <3>2, <3>3, <3>5
    <2> QED BY <2>6, <2>7
  <1> QED BY <1>1, <1>2

LEMMA CrashIInv == IInv /\ Crash => IInv'
  <1> SUFFICES ASSUME IInv, Crash PROVE IInv'
    OBVIOUS
  <1> USE DEF IInv, Crash, outputVars, outputRing, inputVars, lineVars,
              peerVars, isrVars
  <1>1. TypeOK'
    BY DEF TypeOK
  <1>2. UartConsistent' /\ PutcharConsistent'
    BY DEF UartConsistent, PutcharConsistent
  <1>3. FlowConsistent'
    BY DEF FlowConsistent, LastWord
  <1> QED BY <1>1, <1>2, <1>3

-----------------------------------------------------------------------------
(* The main program *)

(* With no interrupt pending and the transmitter's switched on, the UART is
   busy with two characters. *)
LEMMA WaitForSpaceIInv == IInv /\ WaitForSpace => IInv'
  <1> SUFFICES ASSUME IInv, WaitForSpace PROVE IInv'
    OBVIOUS
  <1> USE DEF IInv, WaitForSpace, MainRuns, outputVars, outputRing, inputVars,
              lineVars, peerVars, isrVars
  <1>1. TypeOK'
    BY DEF TypeOK
  <1>2. UartConsistent'
    BY DEF UartConsistent
  <1>3. PutcharConsistent'
    <2>1. CASE output_pending >= OUTPUT_BUFFER_LENGTH
      <3>1. output_pending = OUTPUT_BUFFER_LENGTH /\ output_pending > 0
        BY <2>1, BufferAssumption DEF TypeOK
      <3>2. TXEIE /\ TDR # EMPTY /\ line # EMPTY
        BY <3>1 DEF UartConsistent, InterruptPending
      <3> QED BY <2>1, <3>1, <3>2 DEF PutcharConsistent
    <2>2. CASE ~(output_pending >= OUTPUT_BUFFER_LENGTH)
      BY <2>2, BufferAssumption DEF PutcharConsistent, TypeOK
    <2> QED BY <2>1, <2>2
  <1>4. FlowConsistent'
    BY DEF FlowConsistent, LastWord
  <1> QED BY <1>1, <1>2, <1>3, <1>4

LEMMA CheckTransmitterIInv == IInv /\ CheckTransmitter => IInv' /\ halted' = "no"
  <1> SUFFICES ASSUME IInv, CheckTransmitter PROVE IInv' /\ halted' = "no"
    OBVIOUS
  <1> USE DEF IInv, CheckTransmitter, MainRuns, outputVars, outputRing,
              inputVars, lineVars, peerVars, isrVars
  <1>1. TypeOK'
    BY DEF TypeOK
  <1>2. UartConsistent'
    BY DEF UartConsistent
  <1>3. PutcharConsistent' /\ halted' = "no"
    BY DEF PutcharConsistent
  <1>4. FlowConsistent'
    BY DEF FlowConsistent, LastWord
  <1> QED BY <1>1, <1>2, <1>3, <1>4

(* Putting a character, in the main program or in a panic *)
LEMMA EnqueueIInv ==
  ASSUME IInv, NEW char \in Text, Enqueue(char),
         output_pending < OUTPUT_BUFFER_LENGTH,
         halted # "no" \/ main' = "console",
         main' \in {"console", "wait", "full", "enqueue"},
         UNCHANGED <<inputVars, lineVars, peerVars, isrVars, RXNE, halted>>
  PROVE  IInv'
  <1> USE DEF IInv, Enqueue, WakeTransmitter, inputVars, lineVars, peerVars,
              isrVars
  <1>1. output_pending' \in 0 .. OUTPUT_BUFFER_LENGTH
    <2>1. /\ output_pending \in 0 .. OUTPUT_BUFFER_LENGTH
          /\ output_pending' = output_pending + 1
      BY DEF TypeOK
    <2> QED BY <2>1, BufferAssumption
  <1>2. output_write_index' \in OutputIndex
    BY WrapType, BufferAssumption DEF TypeOK, OutputIndex
  <1>3. output_buffer' \in [OutputIndex -> Text \union {NUL}]
    BY DEF TypeOK
  <1>4. TypeOK'
    <2>1. /\ UNCHANGED <<output_read_index, urgent_send>>
          /\ UNCHANGED <<inputVars, lineVars, peerVars, isrVars, RXNE, halted>>
          /\ main' \in {"console", "wait", "full", "enqueue"}
      OBVIOUS
    <2>2. output_idle' \in BOOLEAN /\ TXEIE' \in BOOLEAN
      BY DEF TypeOK
    <2> QED BY <1>1, <1>2, <1>3, <2>1, <2>2 DEF TypeOK
  <1>5. TXEIE' /\ output_idle' = FALSE
    BY DEF UartConsistent, TypeOK
  <1>6. UartConsistent'
    BY <1>5 DEF UartConsistent
  <1>7. PutcharConsistent'
    BY DEF PutcharConsistent
  <1>8. FlowConsistent'
    BY DEF FlowConsistent, LastWord
  <1> QED BY <1>4, <1>6, <1>7, <1>8

LEMMA PutcharIInv == IInv /\ (Putchar \/ PanicPutchar) => IInv'
  <1> SUFFICES ASSUME IInv, Putchar \/ PanicPutchar PROVE IInv'
    OBVIOUS
  <1>1. CASE Putchar
    <2>1. NextChar(LastPut) \in Text
      BY NextCharType
    <2>2. output_pending < OUTPUT_BUFFER_LENGTH
      BY <1>1 DEF IInv, PutcharConsistent, Putchar, MainRuns
    <2>3. Enqueue(NextChar(LastPut)) /\ main' = "console"
          /\ UNCHANGED <<inputVars, lineVars, peerVars, isrVars, RXNE, halted>>
      BY <1>1 DEF Putchar
    <2> QED BY <2>1, <2>2, <2>3, EnqueueIInv
  <1>2. CASE PanicPutchar
    <2>1. main' \in {"console", "wait", "full", "enqueue"}
      BY <1>2 DEF PanicPutchar, IInv, TypeOK
    <2> QED BY <1>2, <2>1, TextIsPlain, EnqueueIInv DEF PanicPutchar
  <1> QED BY <1>1, <1>2

(* The only place where XON is sent: below XON_TRESHOLD. *)
LEMMA GetcharIInv == IInv /\ usart1_getchar => IInv'
  <1> SUFFICES ASSUME IInv, usart1_getchar PROVE IInv'
    OBVIOUS
  <1> USE DEF IInv, usart1_getchar, MainRuns, lineVars, peerVars, isrVars
  <1>1. input_pending' = input_pending - 1
        /\ input_pending' \in 0 .. INPUT_BUFFER_LENGTH
    BY BufferAssumption DEF TypeOK
  <1>2. input_read_index' \in InputIndex
    BY WrapType, BufferAssumption DEF TypeOK, InputIndex
  <1>3. CASE /\ input_pending' < XON_TRESHOLD
             /\ ~xon_sent
             /\ usart1_urgent_send(XON)
             /\ xon_sent' = TRUE
    <2> USE <1>3 DEF usart1_urgent_send, WakeTransmitter, outputRing
    <2>1. TypeOK'
      BY <1>1, <1>2 DEF TypeOK
    <2>2. TXEIE' /\ output_idle' = FALSE
      BY DEF UartConsistent, TypeOK
    <2>3. UartConsistent'
      BY <2>2 DEF UartConsistent
    <2>4. PutcharConsistent'
      BY DEF PutcharConsistent
    <2>5. LastWord' = XON
      BY DEF LastWord, NUL, XON
    <2>6. FlowConsistent'
      BY <2>5 DEF FlowConsistent, XON, XOFF
    <2> QED BY <2>1, <2>3, <2>4, <2>6
  <1>4. CASE UNCHANGED outputVars /\ ~(input_pending' < XON_TRESHOLD /\ ~xon_sent)
    <2> USE <1>4 DEF outputVars, outputRing
    <2>1. xon_sent' \in BOOLEAN
          /\ (input_pending' < XON_TRESHOLD => xon_sent' = xon_sent)
          /\ (input_pending' >= XON_TRESHOLD => ~xon_sent')
      <3>1. input_pending' >= XON_TRESHOLD <=> ~(input_pending' < XON_TRESHOLD)
        BY <1>1, BufferAssumption
      <3>2. xon_sent \in BOOLEAN
        BY DEF TypeOK
      <3>3. RequestInput
        OBVIOUS
      <3>4. \/ input_pending' < XON_TRESHOLD /\ xon_sent' = xon_sent
            \/ input_pending' >= XON_TRESHOLD /\ xon_sent' = FALSE
        BY <1>4, <3>3, Zenon DEF RequestInput
      <3> QED BY <3>1, <3>2, <3>4, Zenon
    <2>2. TypeOK'
      BY <1>1, <1>2, <2>1 DEF TypeOK
    <2>3. UartConsistent' /\ PutcharConsistent'
      BY DEF UartConsistent, PutcharConsistent
    <2>4. LastWord' = LastWord
      BY DEF LastWord
    <2>5. FlowConsistent'
      BY <1>1, <2>1, <2>4, BufferAssumption DEF FlowConsistent, TypeOK
    <2> QED BY <2>2, <2>3, <2>5
  <1>5. \/ /\ input_pending' < XON_TRESHOLD
           /\ ~xon_sent
           /\ usart1_urgent_send(XON)
           /\ xon_sent' = TRUE
        \/ UNCHANGED outputVars /\ ~(input_pending' < XON_TRESHOLD /\ ~xon_sent)
    BY <1>1, BufferAssumption DEF RequestInput
  <1> QED BY <1>3, <1>4, <1>5

-----------------------------------------------------------------------------
(* The line *)

(* What moves along the line stays in order, so the last word stays the same. *)
LEMMA TransmitIInv == IInv /\ Transmit => IInv'
  <1> SUFFICES ASSUME IInv, Transmit PROVE IInv'
    OBVIOUS
  <1> USE DEF IInv, Transmit, outputVars, outputRing, inputVars, isrVars
  <1>1. TypeOK'
    <2>1. told' \in {XON, XOFF}
      BY DEF TypeOK
    <2>2. after' \in 0 .. Lag
      <3>1. after \in 0 .. Lag
        BY DEF TypeOK
      <3>2. 0 \in 0 .. Lag
        BY BufferAssumption
      <3>3. after' = 0 \/ after' = after
        OBVIOUS
      <3> QED BY <3>1, <3>2, <3>3
    <2>3. /\ line' = TDR
          /\ TDR' = EMPTY
          /\ met' = FALSE
          /\ UNCHANGED <<outputVars, inputVars, isrVars, RXNE, typed, main,
                         halted>>
      OBVIOUS
    <2> QED BY <2>1, <2>2, <2>3 DEF TypeOK
  <1>2. UartConsistent'
    BY DEF UartConsistent
  <1>3. PutcharConsistent'
    BY DEF PutcharConsistent
  <1>4. LastWord' = LastWord
    BY DEF LastWord, EMPTY, XON, XOFF
  <1>5. FlowConsistent'
    BY <1>4 DEF FlowConsistent
  <1> QED BY <1>1, <1>2, <1>3, <1>5

LEMMA ArriveIInv == IInv /\ Arrive => IInv'
  <1> SUFFICES ASSUME IInv, Arrive PROVE IInv'
    OBVIOUS
  <1> USE DEF IInv, Arrive, outputVars, outputRing, inputVars, isrVars
  <1>1. TypeOK'
    <2>1. after' \in 0 .. Lag
      <3>1. after \in 0 .. Lag /\ Lag \in Nat
        BY BufferAssumption DEF TypeOK
      <3>2. told = XOFF => after < Lag /\ after' = after + 1
        BY DEF XON, XOFF
      <3>3. told # XOFF => after' = after
        OBVIOUS
      <3> QED BY <3>1, <3>2, <3>3
    <2>2. /\ RXNE' \in BOOLEAN
          /\ met' \in BOOLEAN
          /\ UNCHANGED <<outputVars, inputVars, TDR, line, told, typed,
                         isrVars, main, halted>>
      OBVIOUS
    <2> QED BY <2>1, <2>2 DEF TypeOK
  <1>2. UartConsistent' /\ PutcharConsistent'
    BY DEF UartConsistent, PutcharConsistent
  <1>3. FlowConsistent'
    BY DEF FlowConsistent, LastWord
  <1> QED BY <1>1, <1>2, <1>3

-----------------------------------------------------------------------------
(* The results *)

LEMMA StutterIInv == IInv /\ UNCHANGED vars => IInv'
  <1> SUFFICES ASSUME IInv, UNCHANGED vars PROVE IInv'
    OBVIOUS
  <1> USE DEF IInv, vars, outputVars, outputRing, inputVars, lineVars,
              peerVars, isrVars
  <1>1. TypeOK'
    <2>1. /\ UNCHANGED <<output_buffer, output_write_index, output_read_index,
                         output_pending, output_idle, urgent_send>>
          /\ UNCHANGED <<input_buffer, input_write_index, input_read_index,
                         input_pending, xon_sent>>
          /\ UNCHANGED <<TXEIE, RXNE, TDR, line, told, after, met, typed>>
          /\ UNCHANGED <<isr, sr, main, halted>>
      OBVIOUS
    <2> QED BY <2>1, ZenonT(60) DEF TypeOK
  <1>2. UartConsistent' /\ PutcharConsistent'
    BY DEF UartConsistent, PutcharConsistent
  <1>3. FlowConsistent'
    BY DEF FlowConsistent, LastWord
  <1> QED BY <1>1, <1>2, <1>3

LEMMA Inductive == Spec => []IInv
  <1>1. IInv /\ [Next]_vars => IInv'
    <2> SUFFICES ASSUME IInv, [Next]_vars PROVE IInv'
      OBVIOUS
    <2>1. CASE Handler
      BY <2>1, EnterHandlerIInv, ReadDataIInv, ReadInputIInv DEF Handler
    <2>2. CASE Crash
      BY <2>2, CrashIInv
    <2>3. CASE Main \/ PanicPutchar
      BY <2>3, WaitForSpaceIInv, CheckTransmitterIInv, PutcharIInv,
         GetcharIInv DEF Main
    <2>4. CASE Transmit \/ Arrive
      BY <2>4, TransmitIInv, ArriveIInv
    <2>5. CASE UNCHANGED vars
      BY <2>5, StutterIInv
    <2> QED BY <2>1, <2>2, <2>3, <2>4, <2>5 DEF Next
  <1> QED BY <1>1, InitIInv, PTL DEF Spec

(* The variables of usart1.c keep their ranges: no index leaves its ring, and
   neither count its bounds. *)
THEOREM ConsoleTypeCorrect == Spec => []TypeOK
  <1>1. IInv => TypeOK
    BY DEF IInv
  <1> QED BY <1>1, Inductive, PTL

(* However the thresholds are chosen, if only XON_TRESHOLD is not above
   XOFF_TRESHOLD, a terminal that is or will be stopped has input in the ring
   that will make usart1_getchar send XON: the console never waits for a
   terminal that waits for XON. *)
THEOREM StopMeansFull == Spec => []StoppedIsFull
  <1>1. IInv => StoppedIsFull
    BY DEF IInv, FlowConsistent, StoppedIsFull
  <1> QED BY <1>1, Inductive, PTL

(* The assertion "TXEIE lost" of usart1_putchar never fails, for a ring of any
   size, and nothing waits for a transmitter that is switched off. *)
THEOREM TransmitterAlwaysWorks == Spec => []TransmitterWorks
  <1> DEFINE Works == IInv /\ halted # "TXEIE lost"
  <1>1. Init => Works
    BY InitIInv DEF Init
  <1>2. Works /\ [Next]_vars => Works'
    <2> SUFFICES ASSUME Works, [Next]_vars PROVE Works'
      OBVIOUS
    <2>1. CASE CheckTransmitter
      BY <2>1, CheckTransmitterIInv
    <2>2. CASE EnterHandler \/ ReadData \/ isr_read_input
      BY <2>2, EnterHandlerIInv, ReadDataIInv, ReadInputIInv
         DEF EnterHandler, ReadData, isr_read_input
    <2>3. CASE Crash
      BY <2>3, CrashIInv DEF Crash
    <2>4. CASE WaitForSpace \/ Putchar \/ PanicPutchar
      BY <2>4, WaitForSpaceIInv, PutcharIInv
         DEF WaitForSpace, Putchar, PanicPutchar
    <2>5. CASE usart1_getchar
      BY <2>5, GetcharIInv DEF usart1_getchar
    <2>6. CASE Transmit \/ Arrive
      BY <2>6, TransmitIInv, ArriveIInv DEF Transmit, Arrive
    <2>7. CASE UNCHANGED vars
      BY <2>7, StutterIInv DEF vars
    <2> QED BY <2>1, <2>2, <2>3, <2>4, <2>5, <2>6, <2>7
            DEF Next, Handler, Main
  <1>3. Works => TransmitterWorks
    BY DEF IInv, UartConsistent, TransmitterWorks
  <1> QED BY <1>1, <1>2, <1>3, PTL DEF Spec

-----------------------------------------------------------------------------
(* Flow control *)

(* What may still be received while the character on the line is sent *)
Meanwhile == IF met THEN 0 ELSE 1

(* What has been received and is not stored yet *)
Unread == (IF RXNE THEN 1 ELSE 0) + (IF isr = "receive" THEN 1 ELSE 0)

(* The handler runs, and will not serve the transmitter this time. *)
SkipsTX == isr = "entered" /\ ~sr.TXE

(* What the terminal may still send before it stops, counted from the place of
   the first XOFF that no XON follows: at the terminal, on the line, in TDR, or
   waiting in urgent_send behind one character, or none *)
Remaining ==
  IF told = XOFF /\ XON \notin {line, TDR, urgent_send} THEN Lag - after
  ELSE IF line = XOFF /\ XON \notin {TDR, urgent_send} THEN Meanwhile + Lag
  ELSE IF TDR = XOFF /\ urgent_send # XON THEN Meanwhile + 1 + Lag
  ELSE IF TDR # EMPTY THEN Meanwhile + 2 + Lag
  ELSE IF (line # EMPTY /\ ~met) \/ ~RXNE \/ SkipsTX THEN 2 + Lag
  ELSE 1 + Lag

HandlerConsistent ==
  /\ SkipsTX => RXNE
  /\ isr = "entered" /\ sr.RXNE => RXNE
  /\ isr = "receive" => ~RXNE

(* From the request for XOFF on, what is in the ring, what is about to be
   stored and what may still come do not grow. *)
MarginKept ==
  /\ LastWord = XOFF =>
       input_pending + Unread + Remaining <= XOFF_TRESHOLD + 4 + Lag
  /\ LastWord # XOFF => input_pending <= XOFF_TRESHOLD

MarginInv == IInv /\ HandlerConsistent /\ MarginKept

LEMMA CountTypes ==
  ASSUME TypeOK
  PROVE  /\ Meanwhile \in 0 .. 1
         /\ Unread \in 0 .. 2
         /\ Remaining \in 0 .. Lag + 3
         /\ Lag \in Nat
         /\ XOFF_TRESHOLD \in Nat
         /\ input_pending \in Nat
  <1>1. Lag \in Nat /\ XOFF_TRESHOLD \in Nat /\ input_pending \in Nat
    <2>1. Lag \in Nat /\ XOFF_TRESHOLD \in Nat
      BY BufferAssumption
    <2>2. input_pending \in 0 .. INPUT_BUFFER_LENGTH
      BY DEF TypeOK
    <2> QED BY <2>1, <2>2, BufferAssumption
  <1>2. Meanwhile \in 0 .. 1 /\ Unread \in 0 .. 2
    BY DEF Meanwhile, Unread
  <1>3. after \in 0 .. Lag
    BY DEF TypeOK
  <1>4. Remaining \in 0 .. Lag + 3
    <2> HIDE DEF Meanwhile
    <2> QED BY <1>1, <1>2, <1>3 DEF Remaining
  <1> QED BY <1>1, <1>2, <1>4

LEMMA NextRemainingType == TypeOK' => Remaining' \in 0 .. Lag + 3
  <1>1. TypeOK => Remaining \in 0 .. Lag + 3
    BY CountTypes
  <1>2. (TypeOK => Remaining \in 0 .. Lag + 3)'
    BY <1>1, PTL
  <1> QED BY <1>2

(* A step that leaves the flow control alone *)
LEMMA SameMargin ==
  ASSUME MarginKept,
         UNCHANGED <<input_pending, RXNE, isr, sr, told, after, met, line, TDR,
                     urgent_send>>
  PROVE  MarginKept'
  <1>1. LastWord' = LastWord
    BY DEF LastWord
  <1>2. Remaining' = Remaining /\ Unread' = Unread
    BY DEF Remaining, Meanwhile, SkipsTX, Unread
  <1> QED BY <1>1, <1>2 DEF MarginKept

(* Arrivals are what Remaining counts. *)
LEMMA ArriveMargin ==
  ASSUME MarginInv, Arrive
  PROVE  MarginKept'
  <1> USE DEF Arrive, MarginInv, IInv, outputVars, outputRing, inputVars,
              isrVars
  <1>1. LastWord' = LastWord /\ input_pending' = input_pending
    BY DEF LastWord
  <1>2. Unread' = Unread + 1
    BY DEF Unread
  <1>3. ASSUME LastWord = XOFF PROVE Remaining' = Remaining - 1
    <2>1. ~SkipsTX /\ ~SkipsTX'
      BY DEF HandlerConsistent, SkipsTX
    <2>2. Lag \in Nat /\ after \in 0 .. Lag
      BY BufferAssumption DEF TypeOK
    <2>3. line = EMPTY => TDR = EMPTY
      BY DEF UartConsistent
    <2>4. Meanwhile = 1 /\ Meanwhile' = IF line = EMPTY THEN 1 ELSE 0
      BY DEF Meanwhile
    <2>5. CASE told = XOFF /\ XON \notin {line, TDR, urgent_send}
      <3>1. Remaining = Lag - after /\ Remaining' = Lag - after'
        BY <2>5 DEF Remaining
      <3> QED BY <3>1, <2>2, <2>5
    <2>6. CASE ~(told = XOFF /\ XON \notin {line, TDR, urgent_send})
               /\ line = EMPTY
      <3>1. urgent_send = XOFF
        BY <1>3, <2>3, <2>6 DEF LastWord, TypeOK, NUL, XON, XOFF, EMPTY
      <3>2. Remaining = 2 + Lag /\ Remaining' = 1 + Lag
        BY <2>1, <2>3, <2>6, <3>1 DEF Remaining, XOFF, EMPTY
      <3> QED BY <3>2, <2>2
    <2>7. CASE ~(told = XOFF /\ XON \notin {line, TDR, urgent_send})
               /\ line # EMPTY
      <3>1. met' = TRUE /\ ~met /\ RXNE'
            /\ UNCHANGED <<told, line, TDR, urgent_send>>
        BY <2>7
      <3>2. CASE line = XOFF /\ XON \notin {TDR, urgent_send}
        <4>1. Remaining = 1 + Lag /\ Remaining' = 0 + Lag
          BY <2>4, <2>7, <3>1, <3>2 DEF Remaining
        <4> QED BY <4>1, <2>2
      <3>3. CASE ~(line = XOFF /\ XON \notin {TDR, urgent_send})
                 /\ TDR = XOFF /\ urgent_send # XON
        <4>1. Remaining = 1 + 1 + Lag /\ Remaining' = 0 + 1 + Lag
          BY <2>4, <2>7, <3>1, <3>3 DEF Remaining
        <4> QED BY <4>1, <2>2
      <3>4. CASE ~(line = XOFF /\ XON \notin {TDR, urgent_send})
                 /\ ~(TDR = XOFF /\ urgent_send # XON) /\ TDR # EMPTY
        <4>1. Remaining = 1 + 2 + Lag /\ Remaining' = 0 + 2 + Lag
          BY <2>4, <2>7, <3>1, <3>4 DEF Remaining
        <4> QED BY <4>1, <2>2
      <3>5. CASE ~(line = XOFF /\ XON \notin {TDR, urgent_send})
                 /\ ~(TDR = XOFF /\ urgent_send # XON) /\ TDR = EMPTY
        <4>1. Remaining = 2 + Lag /\ Remaining' = 1 + Lag
          BY <2>1, <2>7, <3>1, <3>5 DEF Remaining
        <4> QED BY <4>1, <2>2
      <3> QED BY <3>2, <3>3, <3>4, <3>5
    <2> QED BY <2>5, <2>6, <2>7
  <1>4. TypeOK'
    BY ArriveIInv
  <1> QED BY <1>1, <1>2, <1>3, CountTypes DEF MarginKept

(* A character sent moves XOFF on by the time it took. *)
LEMMA TransmitMargin ==
  ASSUME MarginInv, Transmit
  PROVE  MarginKept'
  <1> USE DEF Transmit, MarginInv, IInv, outputVars, outputRing, inputVars,
              isrVars
  <1>1. LastWord' = LastWord /\ input_pending' = input_pending
    BY DEF LastWord, EMPTY, XON, XOFF
  <1>2. Unread' = Unread
    BY DEF Unread
  <1>3. TypeOK'
    BY TransmitIInv
  <1>4. Lag \in Nat /\ after \in 0 .. Lag /\ after' \in 0 .. Lag
    BY <1>3, BufferAssumption DEF TypeOK
  <1>5. Meanwhile' = 1 /\ Meanwhile \in 0 .. 1
    BY DEF Meanwhile
  <1>6. SkipsTX' = SkipsTX
    BY DEF SkipsTX
  <1>7. ASSUME LastWord = XOFF PROVE Remaining' <= Remaining
    <2>1. CASE told = XOFF /\ XON \notin {line, TDR, urgent_send}
      <3>1. told' = XOFF /\ after' = after
            /\ XON \notin {line', TDR', urgent_send'}
        BY <2>1 DEF EMPTY, XON
      <3>2. Remaining = Lag - after /\ Remaining' = Lag - after
        BY <2>1, <3>1 DEF Remaining
      <3> QED BY <3>2, <1>4
    <2>2. CASE ~(told = XOFF /\ XON \notin {line, TDR, urgent_send})
               /\ line = XOFF /\ XON \notin {TDR, urgent_send}
      <3>1. told' = XOFF /\ XON \notin {line', TDR', urgent_send'}
        BY <2>2 DEF EMPTY, XON
      <3>2. Remaining = Meanwhile + Lag /\ Remaining' = Lag - after'
        BY <2>2, <3>1 DEF Remaining
      <3> QED BY <3>2, <1>4, <1>5
    <2>3. CASE ~(told = XOFF /\ XON \notin {line, TDR, urgent_send})
               /\ ~(line = XOFF /\ XON \notin {TDR, urgent_send})
               /\ TDR = XOFF /\ urgent_send # XON
      <3>1. Remaining = Meanwhile + 1 + Lag
        BY <2>3 DEF Remaining
      <3>2. line' = XOFF /\ XON \notin {TDR', urgent_send'}
        BY <2>3 DEF EMPTY, XON
      <3>3. Remaining' \in {Lag - after', Meanwhile' + Lag}
        BY <3>2 DEF Remaining
      <3> QED BY <3>1, <3>3, <1>4, <1>5
    <2>4. CASE ~(told = XOFF /\ XON \notin {line, TDR, urgent_send})
               /\ ~(line = XOFF /\ XON \notin {TDR, urgent_send})
               /\ ~(TDR = XOFF /\ urgent_send # XON) /\ TDR # EMPTY
      <3>1. Remaining = Meanwhile + 2 + Lag
        BY <2>4 DEF Remaining
      <3>2. TDR' = EMPTY /\ TDR' # XOFF
        BY DEF EMPTY, XOFF
      <3>3. Remaining' \in {Lag - after', Meanwhile' + Lag, 2 + Lag, 1 + Lag}
        BY <3>2 DEF Remaining
      <3> QED BY <3>1, <3>3, <1>4, <1>5
    <2>5. CASE ~(told = XOFF /\ XON \notin {line, TDR, urgent_send})
               /\ ~(line = XOFF /\ XON \notin {TDR, urgent_send})
               /\ ~(TDR = XOFF /\ urgent_send # XON) /\ TDR = EMPTY
      <3>1. Remaining = IF ~met \/ ~RXNE \/ SkipsTX THEN 2 + Lag ELSE 1 + Lag
        BY <2>5 DEF Remaining
      <3>2. line' = EMPTY /\ TDR' = EMPTY /\ EMPTY # XOFF /\ RXNE' = RXNE
        BY <2>5 DEF EMPTY, XOFF
      <3>3. \/ Remaining' = Lag - after'
            \/ Remaining' = IF ~RXNE \/ SkipsTX THEN 2 + Lag ELSE 1 + Lag
        BY <3>2, <1>6 DEF Remaining
      <3> QED BY <3>1, <3>3, <1>4
    <2> QED BY <2>1, <2>2, <2>3, <2>4, <2>5
  <1>8. Remaining' \in Int
    BY <1>3, <1>4, NextRemainingType
  <1> QED BY <1>1, <1>2, <1>7, <1>8, CountTypes DEF MarginKept

LEMMA EnterHandlerMargin ==
  ASSUME MarginInv, EnterHandler
  PROVE  MarginKept' /\ HandlerConsistent'
  <1> USE DEF EnterHandler, MarginInv, IInv, outputVars, outputRing, inputVars,
              lineVars, peerVars
  <1>1. LastWord' = LastWord /\ input_pending' = input_pending
    BY DEF LastWord
  <1>2. Unread' = Unread
    BY DEF Unread, InterruptPending
  <1>3. ~SkipsTX /\ (TDR = EMPTY => ~SkipsTX')
    BY DEF SkipsTX, InterruptPending
  <1>4. Remaining' = Remaining
    BY <1>3 DEF Remaining, Meanwhile
  <1>5. HandlerConsistent'
    BY DEF HandlerConsistent, SkipsTX, InterruptPending
  <1> QED BY <1>1, <1>2, <1>4, <1>5 DEF MarginKept

(* With nothing urgent and TDR empty, the terminal has been told to stop, or
   is being told. *)
LEMMA StopOnLine ==
  ASSUME TypeOK, LastWord = XOFF, urgent_send = NUL, TDR = EMPTY
  PROVE  \/ told = XOFF /\ XON \notin {line, TDR, urgent_send}
         \/ line = XOFF /\ XON \notin {TDR, urgent_send}
  <1> USE DEF NUL, XON, XOFF, EMPTY
  <1>1. CASE line \in {XON, XOFF}
    <2>1. LastWord = line
      BY <1>1 DEF LastWord
    <2> QED BY <2>1
  <1>2. CASE line \notin {XON, XOFF}
    <2>1. LastWord = told
      BY <1>2 DEF LastWord
    <2> QED BY <1>2, <2>1
  <1> QED BY <1>1, <1>2

(* Loading XOFF into the UART keeps its place in the row. *)
LEMMA SendUrgentRemaining ==
  ASSUME MarginInv, ReadData, sr.TXE, SendUrgent, LastWord = XOFF
  PROVE  Remaining' <= Remaining
  <1> USE DEF MarginInv, IInv, ReadData, peerVars
  <1>1. TDR = EMPTY /\ urgent_send = XOFF /\ urgent_send' = NUL
    BY DEF SendUrgent, UartConsistent, LastWord
  <1>2. /\ line = EMPTY => line' = XOFF /\ TDR' = EMPTY /\ met' = FALSE
        /\ line # EMPTY => line' = line /\ TDR' = XOFF /\ met' = met
    BY <1>1 DEF SendUrgent, Load
  <1>3. told' = told /\ after' = after
    OBVIOUS
  <1>4. Lag \in Nat /\ after \in 0 .. Lag
    BY BufferAssumption DEF TypeOK
  <1> USE DEF NUL, XON, XOFF, EMPTY
  <1>5. CASE told = XOFF /\ XON \notin {line, TDR, urgent_send}
    <2>1. XON \notin {line', TDR', urgent_send'}
      BY <1>1, <1>2, <1>5
    <2>2. Remaining = Lag - after /\ Remaining' = Lag - after
      BY <1>3, <1>5, <2>1 DEF Remaining
    <2> QED BY <2>2, <1>4
  <1>6. CASE ~(told = XOFF /\ XON \notin {line, TDR, urgent_send})
             /\ line = XOFF
    <2>1. line' = XOFF /\ XON \notin {line', TDR', urgent_send'} /\ met' = met
      BY <1>1, <1>2, <1>6
    <2>2. told # XOFF /\ told' # XOFF
      BY <1>1, <1>3, <1>6
    <2>3. Remaining = Meanwhile + Lag /\ Remaining' = Meanwhile + Lag
      BY <1>1, <1>6, <2>1, <2>2 DEF Remaining, Meanwhile
    <2> QED BY <2>3, <1>4 DEF Meanwhile
  <1>7. CASE ~(told = XOFF /\ XON \notin {line, TDR, urgent_send})
             /\ line = EMPTY
    <2>1. told' # XOFF
      BY <1>1, <1>3, <1>7
    <2>2. line' = XOFF /\ XON \notin {TDR', urgent_send'} /\ Meanwhile' = 1
      BY <1>1, <1>2, <1>7 DEF Meanwhile
    <2>3. Remaining' = 1 + Lag
      BY <2>1, <2>2 DEF Remaining
    <2>4. Remaining \in {1 + Lag, 2 + Lag}
      BY <1>1, <1>7 DEF Remaining
    <2> QED BY <2>3, <2>4, <1>4
  <1>8. CASE ~(told = XOFF /\ XON \notin {line, TDR, urgent_send})
             /\ line # XOFF /\ line # EMPTY
    <2>1. line' = line /\ TDR' = XOFF /\ met' = met
      BY <1>2, <1>8
    <2>2. ~(told' = XOFF /\ XON \notin {line', TDR', urgent_send'})
      BY <1>1, <1>3, <1>8, <2>1
    <2>3. Remaining' = Meanwhile + 1 + Lag
      BY <1>1, <1>8, <2>1, <2>2 DEF Remaining, Meanwhile
    <2>4. \/ ~met /\ Meanwhile = 1 /\ Remaining = 2 + Lag
          \/ met /\ Meanwhile = 0 /\ Remaining \in {1 + Lag, 2 + Lag}
      BY <1>1, <1>8 DEF Remaining, Meanwhile
    <2> QED BY <2>3, <2>4, <1>4
  <1> QED BY <1>5, <1>6, <1>7, <1>8

(* A text character, or none, goes behind XOFF. *)
LEMMA SendTextRemaining ==
  ASSUME MarginInv, ReadData, sr.TXE, SendPending \/ BecomeIdle,
         LastWord = XOFF
  PROVE  Remaining' = Remaining
  <1> USE DEF MarginInv, IInv, ReadData, peerVars
  <1>1. TDR = EMPTY /\ urgent_send = NUL /\ urgent_send' = NUL
    BY DEF SendPending, BecomeIdle, UartConsistent, outputRing
  <1>2. \/ told = XOFF /\ XON \notin {line, TDR, urgent_send}
        \/ line = XOFF /\ XON \notin {TDR, urgent_send}
    BY <1>1, StopOnLine
  <1>3. told' = told /\ after' = after
    OBVIOUS
  <1>4. /\ line' = line \/ (line = EMPTY /\ line' # XON)
        /\ TDR' # XON
        /\ line # EMPTY => met' = met
    <2>1. CASE SendPending
      <3>1. output_buffer[output_read_index] # XON
        BY TextIsPlain DEF TypeOK, NUL, XON
      <3> QED BY <2>1, <3>1, <1>1 DEF SendPending, Load, EMPTY, XON
    <2>2. CASE BecomeIdle
      BY <2>2, <1>1 DEF BecomeIdle, lineVars, EMPTY, XON
    <2> QED BY <2>1, <2>2
  <1> USE DEF NUL, XON, XOFF, EMPTY
  <1>5. CASE told = XOFF /\ XON \notin {line, TDR, urgent_send}
    <2>1. told' = XOFF /\ XON \notin {line', TDR', urgent_send'}
      BY <1>1, <1>3, <1>4, <1>5
    <2> QED BY <1>3, <1>5, <2>1 DEF Remaining
  <1>6. CASE told # XOFF /\ line = XOFF
    <2>1. line' = XOFF /\ XON \notin {TDR', urgent_send'} /\ met' = met
          /\ told' # XOFF
      BY <1>1, <1>3, <1>4, <1>6
    <2>2. XON \notin {TDR, urgent_send}
      BY <1>1
    <2> QED BY <1>6, <2>1, <2>2 DEF Remaining, Meanwhile
  <1> QED BY <1>1, <1>2, <1>5, <1>6

LEMMA ReadDataMargin ==
  ASSUME MarginInv, ReadData
  PROVE  MarginKept' /\ HandlerConsistent'
  <1> USE DEF MarginInv, IInv, inputVars, peerVars
  <1>1. input_pending' = input_pending /\ RXNE' = FALSE
    BY DEF ReadData
  <1>2. Unread' <= Unread /\ Unread' \in 0 .. 2 /\ Unread \in 0 .. 2
    BY DEF ReadData, Unread, HandlerConsistent
  <1>3. HandlerConsistent' /\ ~SkipsTX'
    BY DEF ReadData, HandlerConsistent, SkipsTX
  <1>4. LastWord' = LastWord
    <2>1. CASE ~sr.TXE
      BY <2>1 DEF ReadData, outputVars, outputRing, lineVars, LastWord
    <2>2. CASE sr.TXE /\ SendUrgent
      <3>1. TDR = EMPTY /\ urgent_send \in {XON, XOFF}
        BY <2>2 DEF ReadData, UartConsistent, SendUrgent, TypeOK
      <3>2. /\ line = EMPTY => line' = urgent_send /\ TDR' = EMPTY
            /\ line # EMPTY => line' = line /\ TDR' = urgent_send
        BY <2>2, <3>1 DEF SendUrgent, Load
      <3> QED BY <2>2, <3>1, <3>2
              DEF SendUrgent, LastWord, NUL, XON, XOFF, EMPTY
    <2>3. CASE sr.TXE /\ SendPending
      <3>1. TDR = EMPTY
        BY <2>3 DEF ReadData, UartConsistent
      <3>2. output_buffer[output_read_index] \notin {XON, XOFF}
        <4>1. output_buffer[output_read_index] \in Text \union {NUL}
          BY DEF TypeOK
        <4> QED BY <4>1, TextIsPlain DEF NUL, XON, XOFF
      <3>3. /\ line = EMPTY => line' \notin {XON, XOFF} /\ TDR' = EMPTY
            /\ line # EMPTY => line' = line /\ TDR' \notin {XON, XOFF}
        BY <2>3, <3>1, <3>2 DEF SendPending, Load
      <3>4. told' = told /\ urgent_send = NUL /\ urgent_send' = NUL
        BY <2>3 DEF ReadData, SendPending
      <3> QED BY <3>1, <3>3, <3>4 DEF LastWord, NUL, XON, XOFF, EMPTY
    <2>4. CASE sr.TXE /\ BecomeIdle
      BY <2>4 DEF ReadData, BecomeIdle, outputRing, lineVars, LastWord
    <2> QED BY <2>1, <2>2, <2>3, <2>4 DEF ReadData, isr_ready_to_send
  <1>5. ASSUME LastWord = XOFF PROVE Remaining' <= Remaining
    <2>1. Remaining \in Int
      BY CountTypes
    <2>2. CASE ~sr.TXE
      <3>1. SkipsTX
        BY <2>2 DEF ReadData, SkipsTX
      <3>2. UNCHANGED <<told, after, line, TDR, urgent_send, met>>
        BY <2>2 DEF ReadData, outputVars, outputRing, lineVars
      <3>3. Remaining' = Remaining
        BY <1>1, <3>1, <3>2 DEF Remaining, Meanwhile
      <3> QED BY <2>1, <3>3
    <2>3. CASE sr.TXE /\ SendUrgent
      BY <1>5, <2>3, SendUrgentRemaining
    <2>4. CASE sr.TXE /\ (SendPending \/ BecomeIdle)
      BY <1>5, <2>1, <2>4, SendTextRemaining
    <2> QED BY <2>2, <2>3, <2>4 DEF ReadData, isr_ready_to_send
  <1>6. TypeOK'
    BY ReadDataIInv
  <1>7. Remaining' \in 0 .. Lag + 3
    BY <1>6, NextRemainingType
  <1> QED BY <1>1, <1>2, <1>3, <1>4, <1>5, <1>7, CountTypes DEF MarginKept

(* Another XOFF after the first does not give the terminal more time. *)
LEMMA ReadInputMargin ==
  ASSUME MarginInv, isr_read_input
  PROVE  MarginKept' /\ HandlerConsistent'
  <1> USE DEF MarginInv, IInv, isr_read_input, lineVars
  <1>1. HandlerConsistent' /\ ~SkipsTX /\ ~SkipsTX'
    BY DEF HandlerConsistent, SkipsTX
  <1>2. Unread = 1 /\ Unread' = 0
    BY DEF Unread, HandlerConsistent
  <1>3. UNCHANGED <<told, after, line, TDR, met, RXNE>>
    OBVIOUS
  <1>4. /\ input_pending \in Nat
        /\ XOFF_TRESHOLD \in Nat
        /\ Lag \in Nat
        /\ Remaining \in 0 .. Lag + 3
    BY CountTypes
  <1>5. Remaining' \in 0 .. Lag + 3
    BY ReadInputIInv, NextRemainingType
  <1>6. CASE /\ UNCHANGED urgent_send
             /\ \/ input_pending' = input_pending
                \/ /\ input_pending' = input_pending + 1
                   /\ input_pending' <= XOFF_TRESHOLD
    <2>1. LastWord' = LastWord
      BY <1>3, <1>6 DEF LastWord
    <2>2. Remaining' = Remaining
      BY <1>1, <1>3, <1>6 DEF Remaining, Meanwhile
    <2> QED BY <1>1, <1>2, <1>4, <1>6, <2>1, <2>2 DEF MarginKept
  <1>7. CASE urgent_send' = XOFF /\ input_pending' = input_pending + 1
    <2>1. LastWord' = XOFF
      BY <1>7 DEF LastWord, NUL, XOFF
    <2>2. CASE LastWord = XOFF
      <3>1. urgent_send # XON
        BY <2>2 DEF LastWord, NUL, XON, XOFF
      <3>2. Remaining' = Remaining
        BY <1>1, <1>3, <1>7, <3>1 DEF Remaining, Meanwhile, XON, XOFF
      <3> QED BY <1>1, <1>2, <1>4, <1>7, <2>1, <2>2, <3>2 DEF MarginKept
    <2>3. CASE LastWord # XOFF
      <3>1. input_pending <= XOFF_TRESHOLD
        BY <2>3 DEF MarginKept
      <3>2. input_pending' + Unread' + Remaining' <= XOFF_TRESHOLD + 4 + Lag
        <4>1. input_pending' = input_pending + 1 /\ Unread' = 0
          BY <1>2, <1>7
        <4>2. Remaining' \in Int /\ Remaining' <= Lag + 3
          BY <1>4, <1>5
        <4>3. \A r, u, p \in Int : p = input_pending + 1 /\ u = 0 /\ r <= Lag + 3
                => p + u + r <= XOFF_TRESHOLD + 4 + Lag
          BY <1>4, <3>1
        <4>4. input_pending' \in Int /\ Unread' \in Int
          BY <1>4, <4>1
        <4> HIDE DEF MarginInv, IInv, isr_read_input
        <4> QED BY <4>1, <4>2, <4>3, <4>4
      <3> QED BY <1>1, <2>1, <3>2 DEF MarginKept
    <2> QED BY <2>2, <2>3
  <1>8. \/ /\ UNCHANGED urgent_send
           /\ \/ input_pending' = input_pending
              \/ /\ input_pending' = input_pending + 1
                 /\ input_pending' <= XOFF_TRESHOLD
        \/ urgent_send' = XOFF /\ input_pending' = input_pending + 1
    <2>1. CASE UNCHANGED <<inputVars, outputVars, typed>>
      BY <2>1 DEF inputVars, outputVars
    <2>2. CASE /\ input_pending' = input_pending + 1
               /\ IF AboveXoff(input_pending') THEN usart1_urgent_send(XOFF)
                  ELSE UNCHANGED outputVars
      BY <1>4, <2>2 DEF AboveXoff, usart1_urgent_send, outputVars
    <2> QED BY <2>1, <2>2
  <1> QED BY <1>6, <1>7, <1>8

(* The console takes a character out, or says XON with room to spare. *)
LEMMA GetcharMargin ==
  ASSUME MarginInv, usart1_getchar
  PROVE  MarginKept'
  <1> USE DEF MarginInv, IInv, usart1_getchar, lineVars, peerVars, isrVars
  <1>1. /\ input_pending \in Nat
        /\ XOFF_TRESHOLD \in Nat
        /\ Lag \in Nat
        /\ Remaining \in 0 .. Lag + 3
        /\ Unread \in 0 .. 2
    BY CountTypes
  <1>2. input_pending' = input_pending - 1
    OBVIOUS
  <1>3. CASE UNCHANGED outputVars
    <2>1. UNCHANGED urgent_send
      BY <1>3 DEF outputVars
    <2>2. LastWord' = LastWord /\ Remaining' = Remaining /\ Unread' = Unread
      BY <2>1 DEF LastWord, Remaining, Unread, Meanwhile, SkipsTX
    <2> QED BY <1>1, <1>2, <2>2 DEF MarginKept
  <1>4. CASE usart1_urgent_send(XON) /\ input_pending' < XON_TRESHOLD
    <2>1. LastWord' = XON
      BY <1>4 DEF usart1_urgent_send, LastWord, NUL, XON
    <2>2. input_pending' <= XOFF_TRESHOLD
      BY <1>1, <1>2, <1>4, BufferAssumption
    <2> QED BY <2>1, <2>2 DEF MarginKept, XON, XOFF
  <1> QED BY <1>3, <1>4 DEF RequestInput

LEMMA MarginInductive == Spec => []MarginInv
  <1>1. Init => MarginInv
    <2> SUFFICES ASSUME Init PROVE MarginInv
      OBVIOUS
    <2>1. HandlerConsistent
      BY DEF Init, HandlerConsistent, SkipsTX
    <2>2. LastWord # XOFF /\ input_pending <= XOFF_TRESHOLD
      BY BufferAssumption DEF Init, LastWord, NUL, XON, XOFF, EMPTY
    <2> QED BY <2>1, <2>2, InitIInv DEF MarginInv, MarginKept
  <1>2. MarginInv /\ [Next]_vars => MarginInv'
    <2> SUFFICES ASSUME MarginInv, [Next]_vars PROVE MarginInv'
      OBVIOUS
    <2> DEFINE Quiet == UNCHANGED <<input_pending, RXNE, isr, sr, told, after,
                                    met, line, TDR, urgent_send>>
    <2>1. ASSUME Quiet, IInv' PROVE MarginInv'
      <3>1. HandlerConsistent'
        BY <2>1 DEF MarginInv, HandlerConsistent, SkipsTX
      <3> QED BY <2>1, <3>1, SameMargin DEF MarginInv
    <2>2. CASE EnterHandler
      BY <2>2, EnterHandlerMargin, EnterHandlerIInv DEF MarginInv
    <2>3. CASE ReadData
      BY <2>3, ReadDataMargin, ReadDataIInv DEF MarginInv
    <2>4. CASE isr_read_input
      BY <2>4, ReadInputMargin, ReadInputIInv DEF MarginInv
    <2>5. CASE Crash
      <3>1. Quiet
        BY <2>5 DEF Crash, outputVars, inputVars, lineVars, peerVars, isrVars
      <3> QED BY <2>1, <2>5, <3>1, CrashIInv DEF MarginInv
    <2>6. CASE WaitForSpace \/ CheckTransmitter
      <3>1. Quiet
        BY <2>6 DEF WaitForSpace, CheckTransmitter, outputVars, inputVars,
                    lineVars, peerVars, isrVars
      <3> QED BY <2>1, <2>6, <3>1, WaitForSpaceIInv, CheckTransmitterIInv
              DEF MarginInv
    <2>7. CASE Putchar \/ PanicPutchar
      <3>1. Quiet
        BY <2>7 DEF Putchar, PanicPutchar, Enqueue, inputVars, lineVars,
                    peerVars, isrVars
      <3> QED BY <2>1, <2>7, <3>1, PutcharIInv DEF MarginInv
    <2>8. CASE usart1_getchar
      <3>1. HandlerConsistent'
        BY <2>8 DEF usart1_getchar, isrVars, MarginInv, HandlerConsistent,
                    SkipsTX
      <3> QED BY <2>8, <3>1, GetcharMargin, GetcharIInv DEF MarginInv
    <2>9. CASE Transmit
      <3>1. HandlerConsistent'
        BY <2>9 DEF Transmit, isrVars, MarginInv, HandlerConsistent, SkipsTX
      <3> QED BY <2>9, <3>1, TransmitMargin, TransmitIInv DEF MarginInv
    <2>10. CASE Arrive
      <3>1. HandlerConsistent'
        BY <2>10 DEF Arrive, isrVars, MarginInv, HandlerConsistent, SkipsTX
      <3> QED BY <2>10, <3>1, ArriveMargin, ArriveIInv DEF MarginInv
    <2>11. CASE UNCHANGED vars
      <3>1. Quiet
        BY <2>11 DEF vars, outputVars, inputVars, lineVars, peerVars, isrVars
      <3> QED BY <2>1, <2>11, <3>1, StutterIInv DEF MarginInv
    <2> QED BY <2>2, <2>3, <2>4, <2>5, <2>6, <2>7, <2>8, <2>9, <2>10, <2>11
            DEF Next, Handler, Main
  <1> QED BY <1>1, <1>2, PTL DEF Spec

(* The assertion "Input buffer overflow (flow control failed)" of
   isr_read_input never fails, if the ring has space for four characters and
   the terminal's lag above XOFF_TRESHOLD: one more that is being received,
   two that are sent before XOFF, XOFF itself.  With the board's 50 and 40,
   the terminal may lag six characters behind. *)
THEOREM FlowControlWorks ==
  ASSUME INPUT_BUFFER_LENGTH >= XOFF_TRESHOLD + 4 + Lag
  PROVE  Spec => []FlowControlHolds
  <1>1. Init => FlowControlHolds
    BY DEF Init, FlowControlHolds
  <1>2. MarginInv /\ FlowControlHolds /\ [Next]_vars => FlowControlHolds'
    <2> SUFFICES ASSUME MarginInv, FlowControlHolds, [Next]_vars
                 PROVE  FlowControlHolds'
      OBVIOUS
    <2> USE DEF FlowControlHolds
    <2>1. CASE isr_read_input
      <3>1. Unread = 1
        BY <2>1 DEF isr_read_input, Unread, MarginInv, HandlerConsistent
      <3>2. /\ input_pending \in Nat
            /\ XOFF_TRESHOLD \in Nat
            /\ Lag \in Nat
            /\ Remaining \in 0 .. Lag + 3
        BY CountTypes DEF MarginInv, IInv
      <3>3. \/ input_pending + Unread + Remaining <= XOFF_TRESHOLD + 4 + Lag
            \/ input_pending <= XOFF_TRESHOLD
        BY DEF MarginInv, MarginKept
      <3>4. INPUT_BUFFER_LENGTH \in Nat
        BY BufferAssumption
      <3>5. ~(input_pending >= INPUT_BUFFER_LENGTH)
        BY <3>1, <3>2, <3>3, <3>4
      <3> QED BY <2>1, <3>5 DEF isr_read_input
    <2>2. CASE EnterHandler \/ ReadData
      BY <2>2 DEF EnterHandler, ReadData
    <2>3. CASE Crash
      BY <2>3 DEF Crash
    <2>4. CASE WaitForSpace \/ CheckTransmitter \/ Putchar \/ PanicPutchar
      BY <2>4 DEF WaitForSpace, CheckTransmitter, Putchar, PanicPutchar
    <2>5. CASE usart1_getchar \/ Transmit \/ Arrive
      BY <2>5 DEF usart1_getchar, Transmit, Arrive
    <2>6. CASE UNCHANGED vars
      BY <2>6 DEF vars
    <2> QED BY <2>1, <2>2, <2>3, <2>4, <2>5, <2>6 DEF Next, Handler, Main
  <1> QED BY <1>1, <1>2, MarginInductive, PTL DEF Spec

-----------------------------------------------------------------------------
(* The rings as queues *)

(* The place of the i-th character of a ring of this length *)
Place(first, i, length) ==
  IF first + i - 1 < length THEN first + i - 1 ELSE first + i - 1 - length

(* A ring of characters of S *)
IsRing(S, buffer, first, count, length) ==
  /\ length \in Nat \ {0} /\ first \in 0 .. length - 1 /\ count \in 0 .. length
  /\ buffer \in [0 .. length - 1 -> S]

LEMMA RingPlace ==
  ASSUME NEW length \in Nat \ {0}, NEW first \in 0 .. length - 1, NEW i \in 1 .. length
  PROVE  /\ Place(first, i, length) \in 0 .. length - 1
         /\ (first + i - 1) % length = Place(first, i, length)
  <1>1. CASE first + i - 1 < length
    BY <1>1 DEF Place
  <1>2. CASE ~(first + i - 1 < length)
    <2>1. first + i - 1 \in length .. length + length - 1
      BY <1>2
    <2>2. (first + i - 1) % length = first + i - 1 - length
      BY <2>1
    <2> QED BY <1>2, <2>1, <2>2 DEF Place
  <1> QED BY <1>1, <1>2

LEMMA RingIs ==
  ASSUME NEW S, NEW buffer, NEW first, NEW count, NEW length,
         IsRing(S, buffer, first, count, length)
  PROVE  /\ \A i \in 1 .. count :
              Ring(buffer, first, count, length)[i] = buffer[Place(first, i, length)]
         /\ Ring(buffer, first, count, length) \in Seq(S)
         /\ Len(Ring(buffer, first, count, length)) = count
  <1>1. /\ length \in Nat \ {0} /\ first \in 0 .. length - 1 /\ count \in 0 .. length
        /\ buffer \in [0 .. length - 1 -> S]
    BY DEF IsRing
  <1>2. \A i \in 1 .. count : i \in 1 .. length
    BY <1>1
  <1>3. \A i \in 1 .. count : /\ (first + i - 1) % length = Place(first, i, length)
                              /\ buffer[Place(first, i, length)] \in S
    BY <1>1, <1>2, RingPlace
  <1>4. Ring(buffer, first, count, length)
          = [i \in 1 .. count |-> buffer[Place(first, i, length)]]
    BY <1>3 DEF Ring
  <1>5. count \in Nat
    BY <1>1
  <1> QED BY <1>3, <1>4, <1>5

(* What storing e behind the last character, and taking out the first, do *)
Stores(buffer, write, count, length, e, buffer2, write2, count2) ==
  /\ count < length /\ count2 = count + 1
  /\ buffer2 = [buffer EXCEPT ![write] = e]
  /\ write2 = Wrap(write, length)

Takes(first, count, length, first2, count2) ==
  count > 0 /\ first2 = Wrap(first, length) /\ count2 = count - 1

(* A character stored behind the last is put at the end of the queue, *)
LEMMA RingPut ==
  ASSUME NEW S, NEW buffer, NEW first, NEW count, NEW length, NEW e \in S,
         IsRing(S, buffer, first, count, length),
         NEW write, write = Place(first, count + 1, length),
         NEW new, NEW next, NEW more,
         Stores(buffer, write, count, length, e, new, next, more)
  PROVE  /\ Ring(new, first, more, length) = Append(Ring(buffer, first, count, length), e)
         /\ next = Place(first, more + 1, length)
  <1> DEFINE r == Ring(buffer, first, count, length)
             s == Ring(new, first, more, length)
  <1>1. /\ length \in Nat \ {0} /\ first \in 0 .. length - 1 /\ count \in 0 .. length - 1
        /\ buffer \in [0 .. length - 1 -> S] /\ more = count + 1
    BY DEF IsRing, Stores
  <1>2. count + 1 \in 1 .. length
    BY <1>1
  <1>3. write \in 0 .. length - 1
    BY <1>1, <1>2, RingPlace
  <1>4. IsRing(S, new, first, more, length)
    BY <1>1, <1>2, <1>3 DEF IsRing, Stores
  <1>5. /\ \A i \in 1 .. count : r[i] = buffer[Place(first, i, length)]
        /\ r \in Seq(S) /\ Len(r) = count
    BY RingIs
  <1>6. /\ \A i \in 1 .. more : s[i] = new[Place(first, i, length)]
        /\ s \in Seq(S) /\ Len(s) = more
    BY <1>4, RingIs
  <1>7. \A i \in 1 .. count : /\ Place(first, i, length) # write
                              /\ Place(first, i, length) \in 0 .. length - 1
    BY <1>1 DEF Place
  <1>8. next = Place(first, more + 1, length)
    BY <1>1 DEF Wrap, Place, Stores
  <1> HIDE DEF r, s
  <1>9. \A i \in 1 .. count :
          /\ i \in 1 .. more
          /\ new[Place(first, i, length)] = buffer[Place(first, i, length)]
    BY <1>1, <1>3, <1>7 DEF Stores
  <1>10. \A i \in 1 .. count : s[i] = r[i]
    BY <1>5, <1>6, <1>9, Zenon
  <1>11. s[count + 1] = e
    BY <1>1, <1>2, <1>3, <1>6 DEF Stores
  <1>12. s = Append(r, e)
    <2>1. Append(r, e) \in Seq(S) /\ Len(Append(r, e)) = count + 1
          /\ Append(r, e)[count + 1] = e /\ \A i \in 1 .. count : Append(r, e)[i] = r[i]
      BY <1>5
    <2>2. \A i \in 1 .. count + 1 : s[i] = Append(r, e)[i]
      BY <1>1, <1>10, <1>11, <2>1
    <2> QED BY <1>1, <1>6, <2>1, <2>2, SeqEqual
  <1> QED BY <1>8, <1>12 DEF r, s

(* and the one that is read is the first. *)
Gets(buffer, write, first, count, second, less, length) ==
  LET r == Ring(buffer, first, count, length)
      s == Ring(buffer, second, less, length)
  IN  /\ r # <<>> /\ s = Tail(r) /\ r[1] = buffer[first]
      /\ r = <<buffer[first]>> \o s
      /\ write = Place(second, less + 1, length)

LEMMA RingGet ==
  ASSUME NEW S, NEW buffer, NEW first, NEW count, NEW length,
         IsRing(S, buffer, first, count, length),
         NEW write, write = Place(first, count + 1, length),
         NEW second, NEW less, Takes(first, count, length, second, less)
  PROVE  Gets(buffer, write, first, count, second, less, length)
  <1> DEFINE r == Ring(buffer, first, count, length)
             s == Ring(buffer, second, less, length)
  <1>1. /\ length \in Nat \ {0} /\ first \in 0 .. length - 1 /\ count \in 1 .. length
        /\ buffer \in [0 .. length - 1 -> S]
        /\ second = Wrap(first, length) /\ less = count - 1
    BY DEF IsRing, Takes
  <1>2. IsRing(S, buffer, second, less, length)
    BY <1>1 DEF IsRing, Wrap
  <1>3. /\ \A i \in 1 .. count : r[i] = buffer[Place(first, i, length)]
        /\ r \in Seq(S) /\ Len(r) = count
    BY RingIs
  <1>4. /\ \A i \in 1 .. less : s[i] = buffer[Place(second, i, length)]
        /\ s \in Seq(S) /\ Len(s) = less
    BY <1>2, RingIs
  <1>5. \A i \in 1 .. less : /\ i + 1 \in 1 .. count
                             /\ Place(second, i, length) = Place(first, i + 1, length)
    BY <1>1 DEF Place, Wrap
  <1>6. write = Place(second, less + 1, length)
    BY <1>1 DEF Place, Wrap
  <1>7. r[1] = buffer[first]
    <2>1. 1 \in 1 .. count /\ Place(first, 1, length) = first
      BY <1>1 DEF Place
    <2> QED BY <1>3, <2>1
  <1> HIDE DEF r, s
  <1>8. \A i \in 1 .. less : s[i] = r[i + 1]
    BY <1>3, <1>4, <1>5
  <1>9. r # <<>> /\ s = Tail(r)
    <2>1. r # <<>>
      BY <1>1, <1>3
    <2>2. Tail(r) \in Seq(S) /\ Len(Tail(r)) = less
          /\ \A i \in 1 .. less : Tail(r)[i] = r[i + 1]
      BY <1>1, <1>3, <2>1, HeadTailProperties
    <2> QED BY <1>4, <1>8, <2>1, <2>2, SeqEqual
  <1>10. r = <<buffer[first]>> \o s
    <2>1. Len(r) \in Nat /\ Len(r) # 0
      BY <1>1, <1>3
    <2> QED BY <1>3, <1>7, <1>9, <2>1
  <1> QED BY <1>6, <1>7, <1>9, <1>10 DEF r, s, Gets

-----------------------------------------------------------------------------
(* The refinement of CharQueue *)

OutputRing ==
  Ring(output_buffer, output_read_index, output_pending, OUTPUT_BUFFER_LENGTH)
InputRing ==
  Ring(input_buffer, input_read_index, input_pending, INPUT_BUFFER_LENGTH)

(* The write index is where the next character goes, and only text waits. *)
OutputLinked ==
  /\ output_write_index
       = Place(output_read_index, output_pending + 1, OUTPUT_BUFFER_LENGTH)
  /\ OutputRing \in Seq(Text)

InputLinked ==
  input_write_index = Place(input_read_index, input_pending + 1, INPUT_BUFFER_LENGTH)

LEMMA AreRings ==
  ASSUME TypeOK
  PROVE  /\ IsRing(Text \union {NUL}, output_buffer, output_read_index, output_pending,
                   OUTPUT_BUFFER_LENGTH)
         /\ IsRing(Text \union {NUL}, input_buffer, input_read_index, input_pending,
                   INPUT_BUFFER_LENGTH)
  BY BufferAssumption DEF TypeOK, IsRing, OutputIndex, InputIndex

LEMMA RingTypes ==
  ASSUME TypeOK
  PROVE  /\ OutputRing \in Seq(Text \union {NUL}) /\ Len(OutputRing) = output_pending
         /\ InputRing \in Seq(Text \union {NUL}) /\ Len(InputRing) = input_pending
  BY AreRings, RingIs DEF OutputRing, InputRing

LEMMA RingsKept ==
  /\ UNCHANGED outputRing =>
       /\ OutputRing' = OutputRing
       /\ UNCHANGED <<output_write_index, output_read_index, output_pending>>
  /\ UNCHANGED <<input_buffer, input_write_index, input_read_index, input_pending>> =>
       InputRing' = InputRing
  BY DEF outputRing, OutputRing, InputRing

(* The output ring *)

OutputPuts(e) ==
  /\ Stores(output_buffer, output_write_index, output_pending,
                  OUTPUT_BUFFER_LENGTH, e,
            output_buffer', output_write_index', output_pending')
  /\ UNCHANGED output_read_index

OutputTakes ==
  /\ Takes(output_read_index, output_pending, OUTPUT_BUFFER_LENGTH,
           output_read_index', output_pending')
  /\ UNCHANGED <<output_buffer, output_write_index>>

LEMMA OutputPut ==
  ASSUME IInv, OutputLinked, NEW e \in Text, OutputPuts(e)
  PROVE  OutputRing' = Append(OutputRing, e) /\ OutputLinked'
  <1> DEFINE r == Ring(output_buffer, output_read_index, output_pending,
                       OUTPUT_BUFFER_LENGTH)
             s == Ring(output_buffer', output_read_index, output_pending',
                       OUTPUT_BUFFER_LENGTH)
  <1>1. /\ IsRing(Text \union {NUL}, output_buffer, output_read_index, output_pending,
                  OUTPUT_BUFFER_LENGTH)
        /\ output_write_index
             = Place(output_read_index, output_pending + 1, OUTPUT_BUFFER_LENGTH)
        /\ Stores(output_buffer, output_write_index, output_pending,
                  OUTPUT_BUFFER_LENGTH, e,
                  output_buffer', output_write_index', output_pending')
        /\ e \in Text \union {NUL}
    BY AreRings DEF IInv, OutputLinked, OutputPuts
  <1>2. s = Append(r, e)
    BY <1>1, RingPut
  <1>3. output_write_index'
          = Place(output_read_index, output_pending' + 1, OUTPUT_BUFFER_LENGTH)
    BY <1>1, RingPut
  <1>4. OutputRing' = Append(OutputRing, e)
    BY <1>2 DEF OutputRing, OutputPuts
  <1>5. Append(OutputRing, e) \in Seq(Text)
    BY DEF OutputLinked
  <1> QED BY <1>3, <1>4, <1>5 DEF OutputLinked, OutputPuts

LEMMA OutputGet ==
  ASSUME IInv, OutputLinked, OutputTakes
  PROVE  /\ OutputRing = <<output_buffer[output_read_index]>> \o OutputRing'
         /\ output_buffer[output_read_index] \in Text /\ OutputRing' \in Seq(Text)
         /\ OutputLinked'
  <1> DEFINE r == Ring(output_buffer, output_read_index, output_pending,
                       OUTPUT_BUFFER_LENGTH)
             s == Ring(output_buffer, output_read_index', output_pending',
                       OUTPUT_BUFFER_LENGTH)
  <1>1. /\ IsRing(Text \union {NUL}, output_buffer, output_read_index, output_pending,
                  OUTPUT_BUFFER_LENGTH)
        /\ output_write_index
             = Place(output_read_index, output_pending + 1, OUTPUT_BUFFER_LENGTH)
        /\ Takes(output_read_index, output_pending, OUTPUT_BUFFER_LENGTH,
                 output_read_index', output_pending')
    BY AreRings DEF IInv, OutputLinked, OutputTakes
  <1>2. Gets(output_buffer, output_write_index, output_read_index, output_pending,
             output_read_index', output_pending', OUTPUT_BUFFER_LENGTH)
    BY <1>1, RingGet
  <1>8. /\ r # <<>>
        /\ s = Tail(r)
        /\ r[1] = output_buffer[output_read_index]
        /\ r = <<output_buffer[output_read_index]>> \o s
        /\ output_write_index
             = Place(output_read_index', output_pending' + 1, OUTPUT_BUFFER_LENGTH)
    BY <1>2 DEF Gets
  <1>3. r = OutputRing /\ s = OutputRing'
    BY DEF OutputRing, OutputTakes
  <1>4. OutputRing \in Seq(Text)
    BY DEF OutputLinked
  <1> HIDE DEF r, s
  <1>5. OutputRing' \in Seq(Text)
    BY <1>8, <1>3, <1>4
  <1>6. output_buffer[output_read_index] \in Text
    <2>1. OutputRing # <<>> /\ output_buffer[output_read_index] = OutputRing[1]
      BY <1>8, <1>3
    <2> QED BY <1>4, <2>1
  <1>7. output_write_index'
          = Place(output_read_index', output_pending' + 1, OUTPUT_BUFFER_LENGTH)
    BY <1>8 DEF OutputTakes
  <1> QED BY <1>8, <1>3, <1>5, <1>6, <1>7 DEF OutputLinked

(* The input ring *)

InputPuts ==
  /\ Stores(input_buffer, input_write_index, input_pending,
                  INPUT_BUFFER_LENGTH, typed,
            input_buffer', input_write_index', input_pending')
  /\ UNCHANGED input_read_index

InputTakes ==
  /\ Takes(input_read_index, input_pending, INPUT_BUFFER_LENGTH,
           input_read_index', input_pending')
  /\ UNCHANGED <<input_buffer, input_write_index>>

LEMMA InputPut ==
  ASSUME IInv, InputLinked, InputPuts
  PROVE  InputRing' = Append(InputRing, typed) /\ InputLinked'
  <1> DEFINE r == Ring(input_buffer, input_read_index, input_pending,
                       INPUT_BUFFER_LENGTH)
             s == Ring(input_buffer', input_read_index, input_pending',
                       INPUT_BUFFER_LENGTH)
  <1>1. /\ IsRing(Text \union {NUL}, input_buffer, input_read_index, input_pending,
                  INPUT_BUFFER_LENGTH)
        /\ input_write_index
             = Place(input_read_index, input_pending + 1, INPUT_BUFFER_LENGTH)
        /\ Stores(input_buffer, input_write_index, input_pending,
                  INPUT_BUFFER_LENGTH, typed,
                  input_buffer', input_write_index', input_pending')
        /\ typed \in Text \union {NUL}
    BY AreRings DEF IInv, TypeOK, InputLinked, InputPuts
  <1>2. s = Append(r, typed)
    BY <1>1, RingPut
  <1>3. input_write_index'
          = Place(input_read_index, input_pending' + 1, INPUT_BUFFER_LENGTH)
    BY <1>1, RingPut
  <1> QED BY <1>2, <1>3 DEF InputRing, InputLinked, InputPuts

LEMMA InputGet ==
  ASSUME IInv, InputLinked, InputTakes
  PROVE  InputRing # <<>> /\ InputRing' = Tail(InputRing) /\ InputLinked'
  <1> DEFINE r == Ring(input_buffer, input_read_index, input_pending,
                       INPUT_BUFFER_LENGTH)
             s == Ring(input_buffer, input_read_index', input_pending',
                       INPUT_BUFFER_LENGTH)
  <1>1. /\ IsRing(Text \union {NUL}, input_buffer, input_read_index, input_pending,
                  INPUT_BUFFER_LENGTH)
        /\ input_write_index
             = Place(input_read_index, input_pending + 1, INPUT_BUFFER_LENGTH)
        /\ Takes(input_read_index, input_pending, INPUT_BUFFER_LENGTH,
                 input_read_index', input_pending')
    BY AreRings DEF IInv, InputLinked, InputTakes
  <1>2. Gets(input_buffer, input_write_index, input_read_index, input_pending,
             input_read_index', input_pending', INPUT_BUFFER_LENGTH)
    BY <1>1, RingGet
  <1>8. /\ r # <<>>
        /\ s = Tail(r)
        /\ r[1] = input_buffer[input_read_index]
        /\ r = <<input_buffer[input_read_index]>> \o s
        /\ input_write_index
             = Place(input_read_index', input_pending' + 1, INPUT_BUFFER_LENGTH)
    BY <1>2 DEF Gets
  <1>4. r = InputRing /\ s = InputRing'
    BY DEF InputRing, InputTakes
  <1> HIDE DEF r, s
  <1> QED BY <1>8, <1>4 DEF InputLinked, InputTakes

(* What is on its way out *)
OutQueue == InUart \o OutputRing

(* Steps of CharQueue: a character is put, the first one is taken out, the
   board panics, or nothing happens to the queue. *)
Grows(queue, new, limit) ==
  \E char \in Text : Len(queue) < limit /\ new = Append(queue, char)

Shrinks(queue, new) == queue # <<>> /\ new = Tail(queue)

SamePanic == (halted' # "no") = (halted # "no")

OutputStep ==
  \/ Grows(OutQueue, OutQueue', OUTPUT_BUFFER_LENGTH + 2) /\ SamePanic
  \/ Shrinks(OutQueue, OutQueue') /\ SamePanic
  \/ OutQueue' = OutQueue /\ ((halted' # "no") = TRUE \/ SamePanic)

LEMMA PlainType ==
  ASSUME NEW char
  PROVE  /\ Plain(char) \in Seq(Text) /\ Len(Plain(char)) \in 0 .. 1
         /\ char \in Text => Plain(char) = <<char>>
         /\ char \notin Text => Plain(char) = <<>>
  BY DEF Plain

LEMMA InUartType == InUart \in Seq(Text) /\ Len(InUart) \in 0 .. 2
  <1>1. /\ Plain(line) \in Seq(Text) /\ Len(Plain(line)) \in 0 .. 1
        /\ Plain(TDR) \in Seq(Text) /\ Len(Plain(TDR)) \in 0 .. 1
    BY PlainType
  <1>2. /\ Plain(line) \o Plain(TDR) \in Seq(Text)
        /\ Len(Plain(line) \o Plain(TDR)) = Len(Plain(line)) + Len(Plain(TDR))
    BY <1>1, ConcatProperties
  <1>3. \A m, n \in 0 .. 1 : m + n \in 0 .. 2
    OBVIOUS
  <1> QED BY <1>1, <1>2, <1>3, Zenon DEF InUart

(* Putting a character puts it behind all that is in the UART. *)
LEMMA EnqueueStep ==
  ASSUME IInv, OutputLinked, NEW char \in Text, Enqueue(char),
         output_pending < OUTPUT_BUFFER_LENGTH, UNCHANGED <<line, TDR, halted>>
  PROVE  OutputLinked' /\ OutputStep
  <1>1. OutputPuts(char)
    BY DEF Enqueue, OutputPuts, Stores
  <1>2. OutputRing' = Append(OutputRing, char) /\ OutputLinked'
    BY <1>1, OutputPut
  <1>3. OutputRing \in Seq(Text) /\ Len(OutputRing) = output_pending
    BY RingTypes DEF OutputLinked, IInv
  <1>4. InUart' = InUart
    BY DEF InUart
  <1>5. OutQueue' = Append(OutQueue, char)
    BY <1>2, <1>3, <1>4, InUartType DEF OutQueue
  <1>6. Len(OutQueue) = Len(InUart) + output_pending
    BY <1>3, InUartType, ConcatProperties DEF OutQueue
  <1>7. Len(OutQueue) < OUTPUT_BUFFER_LENGTH + 2
    <2>1. OUTPUT_BUFFER_LENGTH \in Int
      BY BufferAssumption
    <2>2. output_pending \in Int
      BY <1>3
    <2>3. \A m \in 0 .. 2, n, limit \in Int : n < limit => m + n < limit + 2
      OBVIOUS
    <2> QED BY <1>6, <2>1, <2>2, <2>3, InUartType, Zenon
  <1> QED BY <1>2, <1>5, <1>7 DEF OutputStep, Grows, SamePanic

(* A character that goes from the ring to the UART keeps its place. *)
LEMMA SendPendingStep ==
  ASSUME IInv, OutputLinked, SendPending, TDR = EMPTY, UNCHANGED halted
  PROVE  OutputLinked' /\ OutputStep
  <1> DEFINE char == output_buffer[output_read_index]
  <1>1. OutputTakes
    BY DEF SendPending, OutputTakes, Takes
  <1>2. /\ OutputRing = <<char>> \o OutputRing' /\ char \in Text
        /\ OutputRing' \in Seq(Text) /\ OutputLinked'
    BY <1>1, OutputGet
  <1>3. char \in Char
    BY <1>2 DEF Char
  <1>4. /\ line = EMPTY => line' = char /\ TDR' = EMPTY
        /\ line # EMPTY => line' = line /\ TDR' = char
    BY <1>3, LoadType DEF SendPending, IInv
  <1> HIDE DEF char
  <1>5. EMPTY \notin Text
    BY TextIsPlain
  <1>6. Plain(EMPTY) = <<>> /\ Plain(char) = <<char>> /\ Plain(line) \in Seq(Text)
        /\ <<char>> \in Seq(Text)
    BY <1>2, <1>5, PlainType
  <1>7. InUart = Plain(line)
    BY <1>6, ConcatEmptySeq DEF InUart
  <1>8. InUart' = Plain(line) \o <<char>>
    <2>1. CASE line = EMPTY
      <3>1. InUart' = <<char>> \o <<>>
        BY <1>4, <1>6, <2>1 DEF InUart, Plain
      <3> QED BY <1>6, <2>1, <3>1, ConcatEmptySeq
    <2>2. CASE line # EMPTY
      BY <1>2, <1>4, <1>6, <2>2 DEF InUart, Plain
    <2> QED BY <2>1, <2>2
  <1>9. OutQueue' = OutQueue
    BY <1>2, <1>6, <1>7, <1>8, ConcatAssociative DEF OutQueue
  <1> QED BY <1>2, <1>9 DEF OutputStep, SamePanic

(* Only text that has been sent leaves the queue. *)
LEMMA TransmitStep ==
  ASSUME IInv, OutputLinked, Transmit
  PROVE  OutputLinked' /\ OutputStep
  <1>1. /\ OutputRing' = OutputRing
        /\ UNCHANGED <<output_write_index, output_read_index, output_pending, halted>>
        /\ line' = TDR /\ TDR' = EMPTY
    BY RingsKept DEF Transmit, outputVars
  <1>2. OutputLinked'
    BY <1>1 DEF OutputLinked
  <1>3. OutputRing \in Seq(Text)
    BY DEF OutputLinked
  <1>4. Plain(TDR) \in Seq(Text) /\ Plain(EMPTY) = <<>>
    BY PlainType, TextIsPlain
  <1>5. InUart' = Plain(TDR)
    <2>1. InUart' = Plain(TDR) \o Plain(EMPTY)
      BY <1>1 DEF InUart, Plain
    <2> QED BY <1>4, <2>1, ConcatEmptySeq
  <1>6. CASE line \in Text
    <2>1. InUart = <<line>> \o Plain(TDR) /\ <<line>> \in Seq(Text)
      BY <1>6, PlainType DEF InUart
    <2>2. OutQueue = <<line>> \o OutQueue'
      BY <1>1, <1>3, <1>4, <1>5, <2>1, ConcatAssociative DEF OutQueue
    <2>3. OutQueue' \in Seq(Text)
      BY <1>1, <1>3, <1>4, <1>5 DEF OutQueue
    <2>4. OutQueue # <<>> /\ OutQueue' = Tail(OutQueue)
      <3> DEFINE q == OutQueue'
      <3>1. \A s \in Seq(Text) : <<line>> \o s # <<>> /\ Tail(<<line>> \o s) = s
        BY <1>6
      <3> HIDE DEF q
      <3> QED BY <2>2, <2>3, <3>1
    <2> QED BY <1>1, <1>2, <2>4 DEF OutputStep, Shrinks, SamePanic
  <1>7. CASE line \notin Text
    <2>1. InUart = <<>> \o Plain(TDR)
      BY <1>7, PlainType DEF InUart
    <2>2. InUart' = InUart
      BY <1>4, <1>5, <2>1, ConcatEmptySeq
    <2> QED BY <1>1, <1>2, <2>2 DEF OutputStep, OutQueue, SamePanic
  <1> QED BY <1>6, <1>7

(* Everything else leaves the text alone. *)
LEMMA OutputKept ==
  ASSUME OutputLinked, UNCHANGED <<outputRing, InUart>>,
         UNCHANGED halted \/ halted' # "no"
  PROVE  OutputLinked' /\ OutputStep
  <1>1. OutputRing' = OutputRing
        /\ UNCHANGED <<output_write_index, output_read_index, output_pending>>
    BY RingsKept
  <1> QED BY <1>1 DEF OutputLinked, OutQueue, OutputStep, SamePanic

LEMMA ReadDataStep ==
  ASSUME IInv, OutputLinked, ReadData
  PROVE  OutputLinked' /\ OutputStep
  <1>1. UNCHANGED halted
    BY DEF ReadData
  <1>2. CASE ~sr.TXE
    BY <1>1, <1>2, OutputKept DEF ReadData, outputVars, lineVars, InUart
  <1>3. CASE sr.TXE
    <2>1. TDR = EMPTY
      BY <1>3 DEF ReadData, IInv, UartConsistent
    <2>2. CASE SendUrgent
      <3>1. urgent_send \in {XON, XOFF} /\ urgent_send \in Char /\ Load(urgent_send)
        BY <2>2 DEF SendUrgent, IInv, TypeOK, Char
      <3>2. /\ line = EMPTY => line' = urgent_send /\ TDR' = EMPTY
            /\ line # EMPTY => line' = line /\ TDR' = urgent_send
        BY <2>1, <3>1, LoadType DEF IInv
      <3>3. urgent_send \notin Text /\ EMPTY \notin Text
        BY <3>1, TextIsPlain
      <3>4. InUart' = InUart
        <4>1. Plain(line') = Plain(line) /\ Plain(TDR') = Plain(TDR)
          BY <2>1, <3>2, <3>3, PlainType
        <4> QED BY <4>1 DEF InUart, Plain
      <3> QED BY <1>1, <2>2, <3>4, OutputKept DEF SendUrgent
    <2>3. CASE SendPending
      BY <1>1, <2>1, <2>3, SendPendingStep
    <2>4. CASE BecomeIdle
      BY <1>1, <2>4, OutputKept DEF BecomeIdle, lineVars, InUart
    <2> QED BY <1>3, <2>2, <2>3, <2>4 DEF ReadData, isr_ready_to_send
  <1> QED BY <1>2, <1>3

LEMMA OutputSteps ==
  ASSUME IInv, OutputLinked, [Next]_vars
  PROVE  OutputLinked' /\ OutputStep
  <1>1. CASE ReadData
    BY <1>1, ReadDataStep
  <1>2. CASE isr_read_input
    <2>1. UNCHANGED outputRing
      BY <1>2 DEF isr_read_input, usart1_urgent_send, outputVars
    <2>2. UNCHANGED <<line, TDR>> /\ (UNCHANGED halted \/ halted' # "no")
      BY <1>2 DEF isr_read_input, lineVars
    <2> QED BY <2>1, <2>2, OutputKept DEF InUart
  <1>3. CASE Putchar
    <2>1. NextChar(LastPut) \in Text
      BY NextCharType
    <2>2. output_pending < OUTPUT_BUFFER_LENGTH
      BY <1>3 DEF Putchar, MainRuns, IInv, PutcharConsistent
    <2>3. Enqueue(NextChar(LastPut)) /\ UNCHANGED <<line, TDR, halted>>
      BY <1>3 DEF Putchar, lineVars
    <2> QED BY <2>1, <2>2, <2>3, EnqueueStep
  <1>4. CASE PanicPutchar
    <2>1. Enqueue(FIRST_CHAR) /\ output_pending < OUTPUT_BUFFER_LENGTH
          /\ UNCHANGED <<line, TDR, halted>>
      BY <1>4 DEF PanicPutchar, lineVars
    <2> QED BY <2>1, TextIsPlain, EnqueueStep
  <1>5. CASE usart1_getchar
    <2>1. UNCHANGED outputRing
      BY <1>5 DEF usart1_getchar, RequestInput, usart1_urgent_send, outputVars
    <2>2. UNCHANGED <<line, TDR, halted>>
      BY <1>5 DEF usart1_getchar, lineVars
    <2> QED BY <2>1, <2>2, OutputKept DEF InUart
  <1>6. CASE Transmit
    BY <1>6, TransmitStep
  <1>7. CASE EnterHandler \/ Crash \/ WaitForSpace \/ CheckTransmitter \/ Arrive
             \/ UNCHANGED vars
    <2>1. UNCHANGED outputRing
      BY <1>7 DEF EnterHandler, Crash, WaitForSpace, CheckTransmitter, Arrive,
                  vars, outputVars
    <2>2. UNCHANGED <<line, TDR>>
      BY <1>7 DEF EnterHandler, Crash, WaitForSpace, CheckTransmitter, Arrive,
                  vars, lineVars
    <2>3. UNCHANGED halted \/ halted' # "no"
      BY <1>7 DEF EnterHandler, Crash, WaitForSpace, CheckTransmitter, MainRuns,
                  Arrive, vars
    <2> QED BY <2>1, <2>2, <2>3, OutputKept DEF InUart
  <1> QED BY <1>1, <1>2, <1>3, <1>4, <1>5, <1>6, <1>7 DEF Next, Handler, Main

(* The characters that usart1_putchar puts are sent in that order, each at
   most once, whatever flow control characters overtake them: the safety part
   of OutputIsSent. *)
THEOREM OutputInOrder == Spec => OutputQueue!Spec
  <1>1. Init => OutputQueue!Init /\ OutputLinked
    <2> SUFFICES ASSUME Init PROVE OutputQueue!Init /\ OutputLinked
      OBVIOUS
    <2>1. OutputRing \in Seq(Text \union {NUL}) /\ Len(OutputRing) = 0
      BY RingTypes, InitIInv DEF IInv, Init
    <2>2. OutputRing = <<>>
      BY <2>1
    <2>3. InUart = <<>>
      <3>1. EMPTY \notin Text
        BY TextIsPlain
      <3> QED BY <3>1, PlainType DEF Init, InUart
    <2>4. OutputLinked
      <3>1. 0 = Place(0, 0 + 1, OUTPUT_BUFFER_LENGTH)
        BY BufferAssumption DEF Place
      <3> QED BY <2>2, <3>1 DEF OutputLinked, Init
    <2>5. halted = "no"
      BY DEF Init
    <2> QED BY <2>2, <2>3, <2>4, <2>5 DEF OutputQueue!Init, OutputRing
  <1>2. IInv /\ OutputLinked /\ [Next]_vars
          => OutputLinked' /\ [OutputQueue!Next]_(OutputQueue!vars)
    <2> SUFFICES ASSUME IInv, OutputLinked, [Next]_vars
                 PROVE  OutputLinked' /\ [OutputQueue!Next]_(OutputQueue!vars)
      OBVIOUS
    <2>1. OutputLinked' /\ OutputStep
      BY OutputSteps
    <2>2. ASSUME Grows(OutQueue, OutQueue', OUTPUT_BUFFER_LENGTH + 2), SamePanic
          PROVE  OutputQueue!Next
      BY <2>2, Zenon
         DEF Grows, SamePanic, OutQueue, OutputRing, OutputQueue!Next, OutputQueue!Put
    <2>3. ASSUME Shrinks(OutQueue, OutQueue'), SamePanic
          PROVE  OutputQueue!Next
      BY <2>3, Zenon
         DEF Shrinks, SamePanic, OutQueue, OutputRing, OutputQueue!Next, OutputQueue!Get
    <2>4. ASSUME OutQueue' = OutQueue, (halted' # "no") = TRUE
          PROVE  OutputQueue!Next
      BY <2>4, Zenon DEF OutQueue, OutputRing, OutputQueue!Next, OutputQueue!Panic
    <2>5. ASSUME OutQueue' = OutQueue, SamePanic
          PROVE  UNCHANGED OutputQueue!vars
      BY <2>5, Zenon DEF OutQueue, OutputRing, SamePanic, OutputQueue!vars
    <2> QED BY <2>1, <2>2, <2>3, <2>4, <2>5, Zenon DEF OutputStep
  <1> QED BY <1>1, <1>2, Inductive, PTL DEF Spec, OutputQueue!Spec

(* The input *)

InputStep ==
  \/ Grows(InputRing, InputRing', INPUT_BUFFER_LENGTH) /\ SamePanic
  \/ Shrinks(InputRing, InputRing') /\ SamePanic
  \/ InputRing' = InputRing /\ ((halted' # "no") = TRUE \/ SamePanic)

LEMMA InputKept ==
  ASSUME InputLinked,
         UNCHANGED <<input_buffer, input_write_index, input_read_index, input_pending>>,
         UNCHANGED halted \/ halted' # "no"
  PROVE  InputLinked' /\ InputStep
  <1>1. InputRing' = InputRing
    BY RingsKept
  <1> QED BY <1>1 DEF InputLinked, InputStep, SamePanic

(* Every character is stored behind the others, or the board panics; *)
LEMMA ReadInputStep ==
  ASSUME IInv, InputLinked, isr_read_input
  PROVE  InputLinked' /\ InputStep
  <1>1. CASE halted' = "overflow" /\ UNCHANGED inputVars
    BY <1>1, InputKept DEF inputVars
  <1>2. CASE /\ input_pending < INPUT_BUFFER_LENGTH
             /\ input_buffer' = [input_buffer EXCEPT ![input_write_index] = typed]
             /\ input_write_index' = Wrap(input_write_index, INPUT_BUFFER_LENGTH)
             /\ input_pending' = input_pending + 1
             /\ UNCHANGED <<input_read_index, halted>>
    <2>1. InputPuts
      BY <1>2 DEF InputPuts, Stores
    <2>2. InputRing' = Append(InputRing, typed) /\ InputLinked'
      BY <2>1, InputPut
    <2>3. Len(InputRing) < INPUT_BUFFER_LENGTH
      BY <1>2, RingTypes DEF IInv
    <2>4. typed \in Text
      BY DEF IInv, TypeOK
    <2> QED BY <1>2, <2>2, <2>3, <2>4 DEF InputStep, Grows, SamePanic
  <1> QED BY <1>1, <1>2 DEF isr_read_input

(* and usart1_getchar takes the first. *)
LEMMA GetcharStep ==
  ASSUME IInv, InputLinked, usart1_getchar
  PROVE  InputLinked' /\ InputStep
  <1>1. InputTakes
    BY DEF usart1_getchar, InputTakes, Takes
  <1>2. InputRing # <<>> /\ InputRing' = Tail(InputRing) /\ InputLinked'
    BY <1>1, InputGet
  <1> QED BY <1>2 DEF InputStep, Shrinks, SamePanic, usart1_getchar

LEMMA InputSteps ==
  ASSUME IInv, InputLinked, [Next]_vars
  PROVE  InputLinked' /\ InputStep
  <1>1. CASE isr_read_input
    BY <1>1, ReadInputStep
  <1>2. CASE usart1_getchar
    BY <1>2, GetcharStep
  <1>3. CASE EnterHandler \/ ReadData \/ Crash \/ WaitForSpace \/ CheckTransmitter
             \/ Putchar \/ PanicPutchar \/ Transmit \/ Arrive \/ UNCHANGED vars
    <2>1. UNCHANGED inputVars
      BY <1>3 DEF EnterHandler, ReadData, Crash, WaitForSpace, CheckTransmitter,
                  Putchar, PanicPutchar, Transmit, Arrive, vars
    <2>2. UNCHANGED halted \/ halted' # "no"
      BY <1>3 DEF EnterHandler, ReadData, Crash, WaitForSpace, CheckTransmitter,
                  MainRuns, Putchar, PanicPutchar, Transmit, Arrive, vars
    <2> QED BY <2>1, <2>2, InputKept DEF inputVars
  <1> QED BY <1>1, <1>2, <1>3 DEF Next, Handler, Main

(* usart1_getchar returns the characters that the handler stored, each at most
   once and in order, for rings of any length. *)
THEOREM InputInOrder == Spec => InputIsRead
  <1>1. Init => InputQueue!Init /\ InputLinked
    <2> SUFFICES ASSUME Init PROVE InputQueue!Init /\ InputLinked
      OBVIOUS
    <2>1. InputRing \in Seq(Text \union {NUL}) /\ Len(InputRing) = 0
      BY RingTypes, InitIInv DEF IInv, Init
    <2>2. InputRing = <<>>
      BY <2>1
    <2>3. InputLinked
      <3>1. 0 = Place(0, 0 + 1, INPUT_BUFFER_LENGTH)
        BY BufferAssumption DEF Place
      <3> QED BY <3>1 DEF InputLinked, Init
    <2>4. halted = "no"
      BY DEF Init
    <2> QED BY <2>2, <2>3, <2>4 DEF InputQueue!Init, InputRing
  <1>2. IInv /\ InputLinked /\ [Next]_vars
          => InputLinked' /\ [InputQueue!Next]_(InputQueue!vars)
    <2> SUFFICES ASSUME IInv, InputLinked, [Next]_vars
                 PROVE  InputLinked' /\ [InputQueue!Next]_(InputQueue!vars)
      OBVIOUS
    <2>1. InputLinked' /\ InputStep
      BY InputSteps
    <2>2. ASSUME Grows(InputRing, InputRing', INPUT_BUFFER_LENGTH), SamePanic
          PROVE  InputQueue!Next
      BY <2>2, Zenon DEF Grows, SamePanic, InputRing, InputQueue!Next, InputQueue!Put
    <2>3. ASSUME Shrinks(InputRing, InputRing'), SamePanic
          PROVE  InputQueue!Next
      BY <2>3, Zenon DEF Shrinks, SamePanic, InputRing, InputQueue!Next, InputQueue!Get
    <2>4. ASSUME InputRing' = InputRing, (halted' # "no") = TRUE
          PROVE  InputQueue!Next
      BY <2>4, Zenon DEF InputRing, InputQueue!Next, InputQueue!Panic
    <2>5. ASSUME InputRing' = InputRing, SamePanic
          PROVE  UNCHANGED InputQueue!vars
      BY <2>5, Zenon DEF InputRing, SamePanic, InputQueue!vars
    <2> QED BY <2>1, <2>2, <2>3, <2>4, <2>5, Zenon DEF InputStep
  <1> QED BY <1>1, <1>2, Inductive, PTL DEF Spec, InputIsRead, InputQueue!Spec

=============================================================================
