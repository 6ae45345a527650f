------------------------------ MODULE Bus_proofs ------------------------------
(***************************************************************************)
(* Proofs about the LED bus.                                               *)
(*                                                                         *)
(* First about Usart2, the receiver, for every number and length of        *)
(* buffers, every byte set, every address and every failure threshold; of  *)
(* the constants they use the assumptions of Usart2 and Fail only.         *)
(*                                                                         *)
(* Then, on top of them, about Bus, the bus end to end: for every number   *)
(* of modules, channels and buffers, all colours, and every loss and       *)
(* damage the line may do.                                                 *)
(***************************************************************************)
EXTENDS Bus, SequenceTheorems, WellFoundedInduction, FiniteSetTheorems, TLAPS

-----------------------------------------------------------------------------
(* The receiver *)

(* A failure record of FAIL_BITS bits stays one. *)
LEMMA FailEventType ==
  ASSUME NEW record \in Record, NEW failed \in BOOLEAN
  PROVE  FailEvent(record, failed) \in Record
  <1>1. ASSUME NEW b \in record \ {FAIL_BITS - 1}
        PROVE  b + 1 \in 0 .. FAIL_BITS - 1
    BY FailBitsAssumption DEF Record
  <1>2. 0 \in 0 .. FAIL_BITS - 1
    BY FailBitsAssumption
  <1>3. FailEvent(record, failed) \subseteq 0 .. FAIL_BITS - 1
    BY <1>1, <1>2, Zenon DEF FailEvent
  <1> QED BY <1>3, Zenon DEF Record

(* The ring has a next buffer. *)
LEMMA AdvanceType ==
  ASSUME NEW b \in Buffer
  PROVE  Advance(b) \in Buffer
  BY LengthAssumption DEF Advance, Buffer

(* No command is longer than a buffer, and length_check never asks for less
   than minus the bytes it has. *)
LEMMA TotalLengthType ==
  ASSUME NEW code
  PROVE  TotalLength(code) \in 0 .. CMD_BUFFER_LEN
  BY LengthAssumption DEF TotalLength

(* The bytes that can follow isr_escape decode to bytes. *)
LEMMA DecodedType ==
  ASSUME NEW in_byte \in Byte
  PROVE  Decoded(in_byte) \in Byte
  BY ByteAssumption DEF Decoded, ESCAPE_MARK, START_MARK

-----------------------------------------------------------------------------
(* The inductive invariant.  OnTrack bounds the length check's result, which
   the type of isr_bytes_remaining needs; RingConsistent bounds
   commands_pending. *)
IInv == TypeOK /\ RingConsistent /\ OnTrack

LEMMA InitIInv == Init => IInv
  <1> SUFFICES ASSUME Init PROVE IInv
    OBVIOUS
  <1>1. TypeOK
    <2>1. isr_buffers \in [Buffer -> [Index -> Byte]]
      BY ByteAssumption DEF Init
    <2>2. isr_usart_fails \in Record
      BY DEF Init, NoFailures, Record
    <2>3. /\ 0 \in 0 .. USART_BUFFER_COUNT
          /\ 0 \in Buffer
          /\ 0 \in 0 .. CMD_BUFFER_LEN
          /\ 0 \in -1 .. CMD_BUFFER_LEN
      BY LengthAssumption DEF Buffer
    <2> QED BY <2>1, <2>2, <2>3 DEF Init, TypeOK
  <1>2. RingConsistent /\ OnTrack
    BY LengthAssumption DEF Init, RingConsistent, OnTrack, Slot
  <1> QED BY <1>1, <1>2 DEF IInv

(* A step of the main loop only touches the reading end of the ring. *)
LEMMA MainLoopIInv == IInv /\ MainLoop => IInv'
  <1> SUFFICES ASSUME IInv, MainLoop PROVE IInv'
    OBVIOUS
  <1> USE LengthAssumption DEF IInv, TypeOK, MainLoop, isrVars, writeVars
  <1>1. CASE FreeCommand
    <2>1. /\ read_buffer' \in Buffer
          /\ is_reading' \in BOOLEAN
          /\ commands_pending' \in 0 .. USART_BUFFER_COUNT
      <3>1. Advance(read_buffer) \in Buffer
        BY AdvanceType
      <3>2. CASE is_reading
        <4>1. /\ read_buffer' = Advance(read_buffer)
              /\ is_reading' = FALSE
              /\ commands_pending' = commands_pending - 1
          BY <1>1, <3>2 DEF FreeCommand
        <4>2. commands_pending > 0
          BY <3>2 DEF RingConsistent
        <4>3. commands_pending - 1 \in 0 .. USART_BUFFER_COUNT
          BY <4>2
        <4> QED BY <3>1, <4>1, <4>3
      <3>3. CASE ~is_reading
        BY <1>1, <3>3 DEF FreeCommand
      <3> QED BY <3>2, <3>3
    <2>2. TypeOK'
      BY <1>1, <2>1 DEF FreeCommand
    <2>3. RingConsistent'
      <3>1. CASE is_reading
        <4>1. commands_pending > 0
          BY <3>1 DEF RingConsistent
        <4> QED BY <1>1, <3>1, <4>1 DEF FreeCommand, RingConsistent, Slot, Advance, Buffer
      <3>2. CASE ~is_reading
        BY <1>1, <3>2 DEF FreeCommand, RingConsistent, Slot
      <3> QED BY <3>1, <3>2
    <2>4. OnTrack'
      BY <1>1 DEF FreeCommand, OnTrack, TotalLength
    <2> QED BY <2>2, <2>3, <2>4
  <1>2. CASE ReportOverflow
    BY <1>2 DEF ReportOverflow, RingConsistent, Slot, OnTrack, TotalLength
  <1>3. CASE ResetOverflow
    BY <1>3 DEF ResetOverflow, RingConsistent, Slot, OnTrack, TotalLength
  <1>4. CASE PollCommand
    BY <1>4 DEF PollCommand, RingConsistent, Slot, OnTrack, TotalLength
  <1>5. CASE RunCommand
    BY <1>5 DEF RunCommand, RingConsistent, Slot, OnTrack, TotalLength
  <1> QED BY <1>1, <1>2, <1>3, <1>4, <1>5

(* A failure, of the line or of an escape sequence, ends the reception. *)
LEMMA ReadErrorIInv ==
  ASSUME IInv, UNCHANGED mainVars, isr_escape' \in BOOLEAN,
         NEW record \in Record, isr_read_error(record)
  PROVE  IInv'
  <1>1. isr_usart_fails' \in Record
    BY FailEventType DEF isr_read_error
  <1>2. halted' \in BOOLEAN
    BY DEF isr_read_error, TooManyFailures
  <1>3. TypeOK'
    <2>1. /\ isr_write_idx' = 0
          /\ isr_state' = "IDLE"
          /\ UNCHANGED <<isr_buffers, isr_write_buffer, isr_bytes_remaining,
                         commands_pending, command_overflow>>
      BY DEF isr_read_error
    <2>2. 0 \in 0 .. CMD_BUFFER_LEN
      BY LengthAssumption
    <2> QED BY <1>1, <1>2, <2>1, <2>2 DEF IInv, TypeOK, mainVars
  <1>4. RingConsistent'
    BY DEF isr_read_error, IInv, RingConsistent, Slot, mainVars
  <1>5. OnTrack'
    BY DEF isr_read_error, OnTrack
  <1> QED BY <1>3, <1>4, <1>5 DEF IInv

(* After a byte is stored the handler awaits the rest of the command whose
   code is now in the buffer. *)
LEMMA StoreByteAwaits ==
  ASSUME IInv, NEW value \in Byte, StoreByte(value)
  PROVE  LET n     == isr_write_idx
             total == TotalLength(isr_buffers'[isr_write_buffer][0])
         IN  /\ n \in Index
             /\ isr_write_idx' = n + 1
             /\ isr_buffers' \in [Buffer -> [Index -> Byte]]
             /\ total \in 0 .. CMD_BUFFER_LEN
             /\ n > 0 => total >= n + 1
             /\ isr_bytes_remaining' = total - (n + 1)
  <1> USE LengthAssumption DEF IInv, TypeOK
  <1> DEFINE b == isr_write_buffer
             n == isr_write_idx
  <1>1. n \in Index
    BY DEF StoreByte, OnTrack, TotalLength, Index
  <1>2. isr_buffers' \in [Buffer -> [Index -> Byte]]
    BY <1>1 DEF StoreByte
  <1>3. isr_buffers'[b][0] = IF n = 0 THEN value ELSE isr_buffers[b][0]
    BY <1>1 DEF StoreByte, Index
  <1>4. isr_write_idx' = n + 1
    BY DEF StoreByte
  <1> DEFINE total == TotalLength(isr_buffers'[b][0])
  <1>5. total \in 0 .. CMD_BUFFER_LEN
    BY TotalLengthType
  <1>6. isr_bytes_remaining' = total - (n + 1)
    <2>1. n = 0 => isr_bytes_remaining = 1
      BY DEF StoreByte, OnTrack
    <2>2. n > 0 => n + isr_bytes_remaining = total
      BY <1>1, <1>3 DEF StoreByte, OnTrack, Index
    <2>3. length_check(isr_buffers'[b], n + 1) = total - (n + 1)
      BY <1>1 DEF length_check, Index
    <2> HIDE DEF total
    <2> QED BY <1>5, <2>1, <2>2, <2>3, <1>1 DEF StoreByte, Index
  <1>7. n > 0 => total >= n + 1
    BY <1>1, <1>3 DEF StoreByte, OnTrack, Index
  <1> QED BY <1>1, <1>2, <1>4, <1>5, <1>6, <1>7

(* Storing a byte is where the ring grows. *)
LEMMA StoreByteIInv ==
  ASSUME IInv, UNCHANGED <<mainVars, halted>>, isr_escape' \in BOOLEAN,
         isr_usart_fails' \in Record,
         NEW value \in Byte, StoreByte(value)
  PROVE  IInv'
  <1> USE LengthAssumption DEF IInv, TypeOK, mainVars
  <1> DEFINE n     == isr_write_idx
             total == TotalLength(isr_buffers'[isr_write_buffer][0])
  <1>1. n \in Index
    BY StoreByteAwaits
  <1>2. isr_buffers' \in [Buffer -> [Index -> Byte]]
    BY StoreByteAwaits
  <1>4. isr_write_idx' = n + 1
    BY StoreByteAwaits
  <1>5. total \in 0 .. CMD_BUFFER_LEN
    BY StoreByteAwaits
  <1>6. isr_bytes_remaining' = total - (n + 1)
    BY StoreByteAwaits
  <1>7. isr_bytes_remaining' \in -1 .. CMD_BUFFER_LEN
    <2>1. n > 0 => total >= n + 1
      BY StoreByteAwaits
    <2> HIDE DEF total
    <2> QED BY <2>1, <1>1, <1>5, <1>6 DEF Index
  <1>8. CASE isr_bytes_remaining' > 0
    <2>1. UNCHANGED <<isr_state, isr_write_buffer, commands_pending>>
      BY <1>8 DEF StoreByte
    <2>2. OnTrack'
      BY <1>1, <1>4, <1>6, <1>8, <2>1, <1>5 DEF OnTrack, StoreByte, Index
    <2>3. TypeOK'
      BY <1>1, <1>2, <1>4, <1>7, <2>1 DEF StoreByte, Index
    <2>4. RingConsistent'
      BY <2>1 DEF RingConsistent, Slot, StoreByte
    <2> QED BY <2>2, <2>3, <2>4
  <1>9. CASE isr_bytes_remaining' <= 0
    <2>1. /\ commands_pending' = commands_pending + 1
          /\ isr_write_buffer' = Advance(isr_write_buffer)
          /\ isr_state' = "IDLE"
      BY <1>9, <1>7 DEF StoreByte
    <2>2. TypeOK'
      BY <1>1, <1>2, <1>4, <1>7, <2>1, AdvanceType
      DEF StoreByte, Index, RingConsistent
    <2>3. RingConsistent'
      BY <2>1 DEF RingConsistent, Slot, StoreByte, Advance, Buffer
    <2>4. OnTrack'
      BY <2>1 DEF OnTrack
    <2> QED BY <2>2, <2>3, <2>4
  <1> QED BY <1>8, <1>9, <1>7

(* Every other byte leaves the ring alone. *)
LEMMA InterruptIInv == IInv /\ Interrupt => IInv'
  <1> SUFFICES ASSUME IInv, Interrupt PROVE IInv'
    OBVIOUS
  <1>1. CASE LineError
    BY <1>1, ReadErrorIInv DEF LineError, IInv, TypeOK
  <1>2. ASSUME NEW in_byte \in Byte, ReceiveByte(in_byte)
        PROVE  IInv'
    <2>1. UNCHANGED mainVars
      BY <1>2 DEF ReceiveByte
    <2>2. CASE BadEscape(in_byte)
      <3>1. FailEvent(isr_usart_fails, FALSE) \in Record
        BY FailEventType DEF IInv, TypeOK
      <3> QED BY <2>1, <2>2, <3>1, ReadErrorIInv DEF BadEscape
    <2>3. CASE /\ \/ EscapeMark(in_byte)
                  \/ StartMark(in_byte)
                  \/ /\ IsData(in_byte)
                     /\ isr_escape' = FALSE
                     /\ DataByte(Decoded(in_byte))
               /\ isr_usart_fails' = FailEvent(isr_usart_fails, FALSE)
               /\ UNCHANGED halted
      <3>1. isr_usart_fails' \in Record
        BY <2>3, FailEventType DEF IInv, TypeOK
      <3>2. isr_escape' \in BOOLEAN
        BY <2>3 DEF EscapeMark, StartMark, IInv, TypeOK
      <3> DEFINE value == Decoded(in_byte)
      <3>3. value \in Byte
        BY DecodedType
      <3> USE LengthAssumption
          DEF IInv, TypeOK, RingConsistent, OnTrack, Slot, mainVars, writeVars
      <3>4. CASE EscapeMark(in_byte)
        BY <2>1, <2>3, <3>1, <3>4 DEF EscapeMark, TotalLength
      <3>5. CASE StartMark(in_byte)
        BY <2>1, <2>3, <3>1, <3>5 DEF StartMark, TotalLength
      <3>6. CASE IgnoreData
        BY <2>1, <2>3, <3>1, <3>2, <3>6 DEF IgnoreData
      <3>7. CASE RejectAddress(value)
        BY <2>1, <2>3, <3>1, <3>2, <3>7 DEF RejectAddress
      <3>8. CASE DropCommand(value)
        BY <2>1, <2>3, <3>1, <3>2, <3>8 DEF DropCommand
      <3>9. CASE BeginCommand(value)
        <4>1. 1 \in -1 .. CMD_BUFFER_LEN /\ 0 \in 0 .. CMD_BUFFER_LEN
          OBVIOUS
        <4>2. TypeOK'
          BY <2>1, <2>3, <3>1, <3>2, <3>9, <4>1 DEF BeginCommand
        <4>3. RingConsistent'
          BY <2>1, <3>9 DEF BeginCommand, RingFull
        <4>4. OnTrack'
          BY <3>9 DEF BeginCommand
        <4> QED BY <4>2, <4>3, <4>4
      <3>10. CASE StoreByte(value)
        BY <2>1, <2>3, <3>1, <3>2, <3>3, <3>10, StoreByteIInv
      <3> QED
        BY <2>3, <3>4, <3>5, <3>6, <3>7, <3>8, <3>9, <3>10 DEF DataByte
    <2> QED BY <1>2, <2>2, <2>3 DEF ReceiveByte
  <1> QED BY <1>1, <1>2 DEF Interrupt

LEMMA Invariance == Spec => []IInv
  <1>1. IInv /\ UNCHANGED vars => IInv'
    BY DEF IInv, TypeOK, RingConsistent, OnTrack, Slot, TotalLength,
           vars, mainVars, isrVars, writeVars
  <1>2. IInv /\ [Next]_vars => IInv'
    BY <1>1, MainLoopIInv, InterruptIInv DEF Next
  <1> QED BY <1>2, InitIInv, PTL DEF Spec

-----------------------------------------------------------------------------
(* The theorems *)

(* Every variable of the receiver and the main loop keeps its type: in
   particular the handler's write index and the two ring indices stay within
   the arrays they index. *)
THEOREM TypeCorrect == Spec => []TypeOK
  BY Invariance, PTL DEF IInv

(* The handler and the main loop agree on the ring of command buffers at every
   moment at which an interrupt can be taken. *)
THEOREM RingSafe == Spec => []RingConsistent
  BY Invariance, PTL DEF IInv

(* No sequence of bytes and line errors makes the handler store a byte outside
   of a command buffer. *)
THEOREM NoBufferOverrun == Spec => []WithinBuffer
  <1>1. IInv => WithinBuffer
    BY LengthAssumption, TotalLengthType
    DEF IInv, TypeOK, OnTrack, WithinBuffer
  <1> QED BY <1>1, Invariance, PTL

(* The handler's buffer is never one that holds a command. *)
LEMMA WriterNotPending ==
  ASSUME IInv, isr_state = "READING"
  PROVE  isr_write_buffer \notin Pending
  BY LengthAssumption DEF IInv, TypeOK, RingConsistent, Pending, Slot, Buffer

LEMMA StoreByteUntouched ==
  ASSUME IInv, NEW value, StoreByte(value)
  PROVE  \A b \in Pending : isr_buffers'[b] = isr_buffers[b]
  <1>1. isr_write_buffer \notin Pending
    BY WriterNotPending DEF StoreByte
  <1>2. Pending \subseteq Buffer
    BY LengthAssumption DEF IInv, TypeOK, Pending, Slot, Buffer
  <1> QED BY <1>1, <1>2 DEF StoreByte, IInv, TypeOK

(* No step touches a pending command. *)
LEMMA StepUntouched ==
  ASSUME IInv, [Next]_vars
  PROVE  \A b \in Pending : isr_buffers'[b] = isr_buffers[b]
  <1> DEFINE Untouched ==
               \A b \in Pending : isr_buffers'[b] = isr_buffers[b]
  <1>1. CASE UNCHANGED isr_buffers
    BY <1>1
  <1>2. ASSUME NEW value, StoreByte(value)
        PROVE  Untouched
    BY <1>2, StoreByteUntouched
  <1>3. CASE LineError \/ MainLoop \/ UNCHANGED vars
    BY <1>1, <1>3 DEF LineError, isr_read_error, MainLoop, vars, isrVars,
                      writeVars
  <1>4. ASSUME NEW in_byte \in Byte, ReceiveByte(in_byte)
        PROVE  Untouched
    BY <1>1, <1>2, <1>4
    DEF ReceiveByte, BadEscape, isr_read_error, EscapeMark, StartMark,
        DataByte, IgnoreData, RejectAddress, DropCommand, BeginCommand,
        writeVars
  <1> QED BY <1>3, <1>4 DEF Next, Interrupt

(* No step changes a command that waits in the ring or is being run. *)
THEOREM CommandsStable == Spec => PendingUntouched
  <1> DEFINE Untouched ==
               \A b \in Pending : isr_buffers'[b] = isr_buffers[b]
  <1>1. IInv /\ [Next]_vars => [Untouched]_vars
    BY StepUntouched
  <1> QED BY <1>1, Invariance, PTL DEF Spec, PendingUntouched

(* A command is handed over exactly when all bytes run_command will read of it
   have been stored since its start mark. *)
THEOREM CommandsComplete == Spec => HandsOverComplete
  <1> DEFINE Complete ==
               commands_pending' > commands_pending =>
                 isr_write_idx' =
                   CommandLength(isr_buffers'[isr_write_buffer][0])
  <1>1. ASSUME IInv, NEW value \in Byte, StoreByte(value)
        PROVE  Complete
    <2> DEFINE n     == isr_write_idx
               total == TotalLength(isr_buffers'[isr_write_buffer][0])
    <2>1. /\ n \in Index
          /\ isr_write_idx' = n + 1
          /\ total \in 0 .. CMD_BUFFER_LEN
          /\ n > 0 => total >= n + 1
          /\ isr_bytes_remaining' = total - (n + 1)
      BY <1>1, StoreByteAwaits
    <2>2. commands_pending' > commands_pending => isr_bytes_remaining' <= 0
      BY <1>1 DEF StoreByte, IInv, TypeOK
    <2>3. CommandLength(isr_buffers'[isr_write_buffer][0]) =
            IF total = 0 THEN 1 ELSE total
      BY DEF CommandLength
    <2> HIDE DEF total
    <2> QED BY <2>1, <2>2, <2>3, LengthAssumption DEF Index
  <1>2. ASSUME IInv, UNCHANGED commands_pending
        PROVE  Complete
    BY <1>2 DEF IInv, TypeOK
  <1>3. ASSUME IInv, MainLoop
        PROVE  Complete
    BY <1>3
    DEF MainLoop, FreeCommand, ReportOverflow, ResetOverflow, PollCommand,
        RunCommand, IInv, TypeOK
  <1>4. IInv /\ [Next]_vars => Complete
    <2> SUFFICES ASSUME IInv, [Next]_vars PROVE Complete
      OBVIOUS
    <2>1. CASE LineError \/ UNCHANGED vars
      <3>1. UNCHANGED commands_pending
        BY <2>1 DEF LineError, isr_read_error, vars
      <3> QED BY <1>2, <3>1
    <2>2. ASSUME NEW in_byte \in Byte, ReceiveByte(in_byte)
          PROVE  Complete
      <3>1. \/ StoreByte(Decoded(in_byte))
            \/ UNCHANGED commands_pending
        BY <2>2
        DEF ReceiveByte, BadEscape, isr_read_error, EscapeMark, StartMark,
            DataByte, IgnoreData, RejectAddress, DropCommand, BeginCommand
      <3> QED BY <1>1, <1>2, <3>1, DecodedType
    <2> QED BY <1>3, <2>1, <2>2 DEF Next, Interrupt
  <1> QED BY <1>4, Invariance, PTL DEF Spec, HandsOverComplete

-----------------------------------------------------------------------------
(* The receiver implements CommandQueue. *)

LEMMA PendingCommandsType ==
  IInv => /\ PendingCommands \in Seq(Commands)
          /\ Len(PendingCommands) = commands_pending
  <1> SUFFICES ASSUME IInv
               PROVE  /\ PendingCommands \in Seq(Commands)
                      /\ Len(PendingCommands) = commands_pending
    OBVIOUS
  <1>1. commands_pending \in Nat
    BY LengthAssumption DEF IInv, TypeOK
  <1>2. ASSUME NEW k \in 1 .. commands_pending
        PROVE  CommandIn(isr_buffers[Slot(k - 1)]) \in Commands
    <2>1. Slot(k - 1) \in Buffer
      BY LengthAssumption DEF IInv, TypeOK, Slot, Buffer
    <2> QED BY <2>1 DEF Commands, IInv, TypeOK
  <1>3. PendingCommands \in [1 .. commands_pending -> Commands]
    BY <1>2 DEF PendingCommands
  <1> QED BY <1>1, <1>3 DEF PendingCommands

LEMMA PendingCommandsTypeNext ==
  IInv' => /\ PendingCommands' \in Seq(Commands)
           /\ Len(PendingCommands') = commands_pending'
  <1>1. (IInv => /\ PendingCommands \in Seq(Commands)
                 /\ Len(PendingCommands) = commands_pending)'
    BY PendingCommandsType, PTL
  <1>2. Commands' = Commands
    BY DEF Commands
  <1> QED BY <1>1, <1>2

(* What the queue holds depends on nothing but the pending buffers. *)
LEMMA QueueUnchanged ==
  ASSUME IInv, UNCHANGED <<read_buffer, commands_pending>>,
         \A b \in Pending : isr_buffers'[b] = isr_buffers[b]
  PROVE  UNCHANGED PendingCommands
  <1>1. ASSUME NEW k \in 1 .. commands_pending
        PROVE  isr_buffers'[Slot(k - 1)] = isr_buffers[Slot(k - 1)]
    <2>1. k - 1 \in 0 .. commands_pending - 1
      BY DEF IInv, TypeOK
    <2> QED BY <2>1 DEF Pending
  <1>2. \A k : Slot(k)' = Slot(k)
    BY DEF Slot
  <1> QED BY <1>1, <1>2 DEF PendingCommands

LEMMA FreeFinishes ==
  ASSUME IInv, IInv', FreeCommand, is_reading, UNCHANGED isr_buffers
  PROVE  PendingCommands' = Tail(PendingCommands)
  <1> DEFINE q == PendingCommands
  <1>1. /\ read_buffer' = Advance(read_buffer)
        /\ commands_pending' = commands_pending - 1
        /\ commands_pending > 0
    BY DEF FreeCommand, IInv, RingConsistent
  <1>2. /\ q \in Seq(Commands)
        /\ Len(q) = commands_pending
        /\ q' \in Seq(Commands)
        /\ Len(q') = commands_pending - 1
    BY <1>1, PendingCommandsType, PendingCommandsTypeNext
  <1>3. q # <<>>
    BY <1>1, <1>2 DEF IInv, RingConsistent
  <1>4. /\ Tail(q) \in Seq(Commands)
        /\ Len(Tail(q)) = commands_pending - 1
        /\ \A k \in 1 .. commands_pending - 1 : Tail(q)[k] = q[k + 1]
    BY <1>2, <1>3, HeadTailProperties
  <1>5. ASSUME NEW k \in 1 .. commands_pending - 1
        PROVE  q'[k] = q[k + 1]
    <2>1. Slot(k - 1)' = Slot(k)
      BY <1>1, LengthAssumption DEF IInv, TypeOK, Slot, Advance, Buffer
    <2>2. (k + 1) - 1 = k
      OBVIOUS
    <2>3. q'[k] = CommandIn(isr_buffers'[Slot(k - 1)'])
      BY <1>1 DEF PendingCommands
    <2>4. q[k + 1] = CommandIn(isr_buffers[Slot(k)])
      BY <2>2 DEF PendingCommands, IInv, TypeOK
    <2> QED BY <2>1, <2>3, <2>4
  <1> QED BY <1>2, <1>4, <1>5, SeqEqual

LEMMA StoreArrives ==
  ASSUME IInv, IInv', NEW value \in Byte, StoreByte(value),
         UNCHANGED read_buffer
  PROVE  \/ UNCHANGED PendingCommands
         \/ \E command \in Commands :
              /\ Len(PendingCommands) < USART_BUFFER_COUNT
              /\ PendingCommands' = Append(PendingCommands, command)
  <1> DEFINE q == PendingCommands
             new == CommandIn(isr_buffers'[isr_write_buffer])
  <1>1. CASE UNCHANGED commands_pending
    BY <1>1, StoreByteUntouched, QueueUnchanged
  <1>2. CASE commands_pending' = commands_pending + 1
    <2>1. /\ q \in Seq(Commands)
          /\ Len(q) = commands_pending
          /\ q' \in Seq(Commands)
          /\ Len(q') = commands_pending + 1
      BY <1>2, PendingCommandsType, PendingCommandsTypeNext
    <2>2. new \in Commands
      BY StoreByteAwaits DEF Commands, IInv, TypeOK
    <2>3. /\ commands_pending < USART_BUFFER_COUNT
          /\ isr_write_buffer = Slot(commands_pending)
      BY LengthAssumption DEF StoreByte, IInv, TypeOK, RingConsistent
    <2>4. \A k : Slot(k)' = Slot(k)
      BY DEF Slot
    <2>5. ASSUME NEW k \in 1 .. commands_pending
          PROVE  q'[k] = q[k]
      <3>1. k - 1 \in 0 .. commands_pending - 1
        BY DEF IInv, TypeOK
      <3>2. isr_buffers'[Slot(k - 1)] = isr_buffers[Slot(k - 1)]
        BY <3>1, StoreByteUntouched DEF Pending
      <3>3. q'[k] = CommandIn(isr_buffers'[Slot(k - 1)'])
        BY <1>2 DEF PendingCommands, IInv, TypeOK
      <3>4. q[k] = CommandIn(isr_buffers[Slot(k - 1)])
        BY DEF PendingCommands
      <3> QED BY <2>4, <3>2, <3>3, <3>4
    <2>6. q'[commands_pending + 1] = new
      <3>1. \A k \in 1 .. commands_pending' :
              q'[k] = CommandIn(isr_buffers'[Slot(k - 1)])
        BY <2>4 DEF PendingCommands
      <3>2. /\ (commands_pending + 1) - 1 = commands_pending
            /\ commands_pending + 1 \in 1 .. commands_pending'
        BY <1>2 DEF IInv, TypeOK
      <3> QED BY <2>3, <3>1, <3>2
    <2>7. /\ Append(q, new) \in Seq(Commands)
          /\ Len(Append(q, new)) = commands_pending + 1
          /\ \A k \in 1 .. commands_pending : Append(q, new)[k] = q[k]
          /\ Append(q, new)[commands_pending + 1] = new
      <3> HIDE DEF q, new
      <3> QED BY <2>1, <2>2
    <2>8. q' = Append(q, new)
      <3>1. \A k \in 1 .. Len(q') : q'[k] = Append(q, new)[k]
        <4>1. \A k \in 1 .. Len(q') :
                k \in 1 .. commands_pending \/ k = commands_pending + 1
          BY <2>1 DEF IInv, TypeOK
        <4> HIDE DEF q, new
        <4> QED BY <4>1, <2>5, <2>6, <2>7
      <3> QED BY <2>1, <2>7, <3>1, SeqEqual
    <2> QED BY <2>1, <2>2, <2>3, <2>8
  <1> QED BY <1>1, <1>2 DEF StoreByte, IInv, TypeOK

(* A step of the receiver is a step of the queue or leaves it as it is. *)
LEMMA StepImplements ==
  ASSUME IInv, IInv', [Next]_vars
  PROVE  [Queue!Next]_(Queue!vars)
  <1> USE DEF Queue!vars, Queue!Next
  <1>1. CASE UNCHANGED vars
    <2>1. UNCHANGED PendingCommands
      BY <1>1, QueueUnchanged DEF vars, mainVars, isrVars, writeVars
    <2> QED BY <1>1, <2>1 DEF vars, mainVars
  <1>2. ASSUME isr_read_error(isr_usart_fails) \/
               isr_read_error(FailEvent(isr_usart_fails, FALSE)),
               UNCHANGED mainVars, ~halted
        PROVE  [Queue!Next]_(Queue!vars)
    <2>1. UNCHANGED PendingCommands
      BY <1>2, QueueUnchanged DEF isr_read_error, mainVars
    <2>2. halted' = TRUE \/ UNCHANGED halted
      BY <1>2 DEF IInv, TypeOK
    <2> QED BY <1>2, <2>1, <2>2 DEF mainVars, Queue!Halt
  <1>3. CASE LineError
    BY <1>2, <1>3 DEF LineError
  <1>4. ASSUME NEW in_byte \in Byte, ReceiveByte(in_byte)
        PROVE  [Queue!Next]_(Queue!vars)
    <2>1. UNCHANGED mainVars /\ ~halted
      BY <1>4 DEF ReceiveByte
    <2>2. CASE BadEscape(in_byte)
      BY <1>2, <2>1, <2>2 DEF BadEscape
    <2>3. CASE UNCHANGED <<isr_buffers, commands_pending, halted>>
      <3>1. UNCHANGED PendingCommands
        BY <2>1, <2>3, QueueUnchanged DEF mainVars
      <3> QED BY <2>1, <2>3, <3>1 DEF mainVars
    <2>4. CASE StoreByte(Decoded(in_byte)) /\ UNCHANGED halted
      <3>1. \/ UNCHANGED PendingCommands
            \/ \E command \in Commands :
                 /\ Len(PendingCommands) < USART_BUFFER_COUNT
                 /\ PendingCommands' = Append(PendingCommands, command)
        BY <2>1, <2>4, StoreArrives, DecodedType DEF mainVars
      <3> QED BY <2>1, <2>4, <3>1 DEF mainVars, Queue!Arrive
    <2> QED
      BY <1>4, <2>2, <2>3, <2>4
      DEF ReceiveByte, EscapeMark, StartMark, DataByte, IgnoreData,
          RejectAddress, DropCommand, BeginCommand, writeVars
  <1>5. CASE MainLoop
    <2>1. UNCHANGED <<isr_buffers, halted>> /\ ~halted
      BY <1>5 DEF MainLoop, isrVars, writeVars
    <2>2. CASE FreeCommand /\ is_reading
      <3>1. PendingCommands' = Tail(PendingCommands)
        BY <2>1, <2>2, FreeFinishes
      <3> QED BY <2>1, <2>2, <3>1 DEF FreeCommand, Queue!Finish
    <2>3. CASE UNCHANGED <<read_buffer, commands_pending>>
      <3>1. UNCHANGED PendingCommands
        BY <2>1, <2>3, QueueUnchanged
      <3>2. CASE UNCHANGED is_reading
        BY <2>1, <3>1, <3>2
      <3>3. CASE PollCommand /\ commands_pending > 0
        <4>1. PendingCommands # <<>>
          BY <3>3, PendingCommandsType DEF IInv, TypeOK
        <4>2. ~is_reading /\ is_reading' = TRUE
          BY <3>3 DEF PollCommand, IInv, RingConsistent
        <4> QED BY <2>1, <3>1, <4>1, <4>2 DEF Queue!Start
      <3>4. CASE FreeCommand /\ ~is_reading
        BY <3>2, <3>4 DEF FreeCommand
      <3> QED
        BY <1>5, <2>2, <3>2, <3>3, <3>4
        DEF MainLoop, FreeCommand, ReportOverflow, ResetOverflow, PollCommand,
            RunCommand
    <2> QED
      BY <1>5, <2>2, <2>3
      DEF MainLoop, FreeCommand, ReportOverflow, ResetOverflow, PollCommand,
          RunCommand
  <1> QED BY <1>1, <1>3, <1>4, <1>5 DEF Next, Interrupt

(* The main loop gets from usart2_next_command the commands the handler
   stored, in their order and each once, unchanged. *)
THEOREM ImplementsQueue == Spec => QueueSafety
  <1>1. Init => Queue!Init
    <2> SUFFICES ASSUME Init PROVE Queue!Init
      OBVIOUS
    <2>1. PendingCommands = <<>>
      <3>1. PendingCommands \in Seq(Commands) /\ Len(PendingCommands) = 0
        BY InitIInv, PendingCommandsType DEF Init
      <3> QED BY <3>1, EmptySeq
    <2> QED BY <2>1 DEF Init, Queue!Init
  <1>2. IInv /\ IInv' /\ [Next]_vars => [Queue!Next]_(Queue!vars)
    BY StepImplements
  <1> QED
    BY <1>1, <1>2, Invariance, PTL DEF Spec, QueueSafety, Queue!Spec

-----------------------------------------------------------------------------
(* Concatenated sequences *)

(* Induction over a set of numbers: one that is missing has a smallest. *)
LEMMA SetInduction ==
  ASSUME NEW S, 0 \in S, \A n \in Nat : n \in S => n + 1 \in S
  PROVE  Nat \subseteq S
  <1> DEFINE Missing == Nat \ S
  <1> SUFFICES ASSUME Missing # {} PROVE FALSE
    OBVIOUS
  <1>1. PICK m \in Missing : \A n \in Missing : <<n, m>> \notin OpToRel(<, Nat)
    BY NatLessThanWellFounded, WFMin, Zenon
  <1>2. m \in Nat /\ m # 0 /\ m \notin S
    OBVIOUS
  <1>3. m - 1 \in Nat /\ m - 1 < m /\ (m - 1) + 1 = m
    BY <1>2
  <1>4. \A a, b \in Nat : a < b => <<a, b>> \in OpToRel(<, Nat)
    <2> SUFFICES ASSUME NEW a \in Nat, NEW b \in Nat, a < b
                 PROVE  <<a, b>> \in OpToRel(<, Nat)
      OBVIOUS
    <2>1. <<a, b>> \in Nat \X Nat /\ <<a, b>>[1] < <<a, b>>[2]
      OBVIOUS
    <2> QED BY <2>1, Zenon DEF OpToRel
  <1>5. m - 1 \notin Missing
    BY <1>1, <1>2, <1>3, <1>4, Zenon
  <1> QED BY <1>2, <1>3, <1>5

(* The function that FlattenSeq defines recursively, up to j *)
Flattens(g, s, j) ==
  g = [i \in 1 .. j |-> IF i = 1 THEN s[i] ELSE g[i - 1] \o s[i]]

(* FlattenSeq goes through the prefixes of its sequence. *)
LEMMA FlattenSteps ==
  ASSUME NEW S, NEW s \in Seq(Seq(S))
  PROVE  \E f \in [0 .. Len(s) -> Seq(S)] :
           /\ f[0] = <<>>
           /\ \A i \in 0 .. Len(s) - 1 : f[i + 1] = f[i] \o s[i + 1]
           /\ f[Len(s)] = FlattenSeq(s)
  <1> DEFINE n == Len(s)
             Has == {j \in Nat : j > n \/ \E g \in [1 .. j -> Seq(S)] : Flattens(g, s, j)}
  <1>1. n \in Nat /\ \A i \in 1 .. n : s[i] \in Seq(S)
    OBVIOUS
  <1>2. 0 \in Has
    <2> DEFINE g == [i \in 1 .. 0 |-> <<>>]
    <2>1. Flattens(g, s, 0) /\ g \in [1 .. 0 -> Seq(S)]
      BY DEF Flattens
    <2> QED BY <2>1
  <1>3. ASSUME NEW j \in Nat, j \in Has PROVE j + 1 \in Has
    <2>1. CASE j + 1 > n
      BY <2>1
    <2>2. CASE ~(j + 1 > n)
      <3>1. ~(j > n) /\ j + 1 \in 1 .. n
        BY <1>1, <2>2
      <3>2. PICK g \in [1 .. j -> Seq(S)] : Flattens(g, s, j)
        BY <1>3, <3>1
      <3> DEFINE h == [i \in 1 .. j + 1 |->
                         IF i \in 1 .. j THEN g[i]
                         ELSE IF i = 1 THEN s[i] ELSE g[i - 1] \o s[i]]
      <3>3. \A i \in 1 .. j + 1 : i \notin 1 .. j => i = j + 1 /\ (i # 1 => i - 1 \in 1 .. j)
        OBVIOUS
      <3>4. h \in [1 .. j + 1 -> Seq(S)]
        <4> SUFFICES ASSUME NEW i \in 1 .. j + 1 PROVE h[i] \in Seq(S)
          OBVIOUS
        <4>1. CASE i \in 1 .. j
          BY <4>1
        <4>2. CASE i = j + 1
          <5>1. s[i] \in Seq(S)
            BY <1>1, <3>1, <4>2
          <5>2. i # 1 => g[i - 1] \in Seq(S)
            BY <3>3, <4>2
          <5> QED BY <4>2, <5>1, <5>2
        <4> QED BY <3>3, <4>1, <4>2
      <3>5. \A i \in 1 .. j + 1 : h[i] = IF i = 1 THEN s[i] ELSE h[i - 1] \o s[i]
        <4> SUFFICES ASSUME NEW i \in 1 .. j + 1
                     PROVE  h[i] = IF i = 1 THEN s[i] ELSE h[i - 1] \o s[i]
          OBVIOUS
        <4>1. i # 1 => i - 1 \in 1 .. j /\ i - 1 \in 1 .. j + 1
          BY <1>3
        <4>2. i # 1 => h[i - 1] = g[i - 1]
          BY <4>1
        <4>3. i \in 1 .. j => g[i] = IF i = 1 THEN s[i] ELSE g[i - 1] \o s[i]
          BY <3>2 DEF Flattens
        <4> QED BY <4>2, <4>3
      <3>6. Flattens(h, s, j + 1)
        BY <3>5 DEF Flattens
      <3> HIDE DEF h
      <3> QED BY <3>4, <3>6
    <2> QED BY <2>1, <2>2
  <1>4. n \in Has
    <2> HIDE DEF Has
    <2> QED BY <1>1, <1>2, <1>3, SetInduction
  <1>5. \E g : Flattens(g, s, n)
    BY <1>1, <1>4
  <1>6. CASE n = 0
    <2>1. FlattenSeq(s) = <<>>
      BY <1>6 DEF FlattenSeq
    <2> DEFINE f == [i \in 0 .. n |-> <<>>]
    <2>2. f \in [0 .. n -> Seq(S)] /\ f[0] = <<>> /\ f[n] = <<>>
          /\ \A i \in 0 .. n - 1 : f[i + 1] = f[i] \o s[i + 1]
      BY <1>6
    <2> QED BY <2>1, <2>2
  <1>7. CASE n # 0
    <2> DEFINE c == CHOOSE g : Flattens(g, s, n)
    <2>1. Flattens(c, s, n)
      BY <1>5
    <2>2. FlattenSeq(s) = c[n]
      BY <1>7 DEF FlattenSeq, Flattens
    <2> HIDE DEF c
    <2>3. \A i \in 1 .. n : c[i] = IF i = 1 THEN s[i] ELSE c[i - 1] \o s[i]
      BY <2>1 DEF Flattens
    <2>4. \A i \in 1 .. n : c[i] \in Seq(S)
      <3> DEFINE Good == {i \in Nat : i \in 1 .. n => c[i] \in Seq(S)}
      <3>1. 0 \in Good
        OBVIOUS
      <3>2. ASSUME NEW i \in Nat, i \in Good PROVE i + 1 \in Good
        <4> SUFFICES ASSUME i + 1 \in 1 .. n PROVE c[i + 1] \in Seq(S)
          OBVIOUS
        <4>1. CASE i = 0
          BY <1>1, <2>3, <4>1
        <4>2. CASE i # 0
          <5>1. i \in 1 .. n /\ (i + 1) - 1 = i /\ i + 1 # 1
            BY <1>1, <4>2
          <5>2. c[i] \in Seq(S) /\ s[i + 1] \in Seq(S)
            BY <1>1, <3>2, <5>1
          <5>3. c[i + 1] = c[i] \o s[i + 1]
            BY <2>3, <5>1
          <5> QED BY <5>2, <5>3
        <4> QED BY <4>1, <4>2
      <3> HIDE DEF Good
      <3>3. Nat \subseteq Good
        BY <3>1, <3>2, SetInduction
      <3> QED BY <1>1, <3>3 DEF Good
    <2> DEFINE f == [i \in 0 .. n |-> IF i = 0 THEN <<>> ELSE c[i]]
    <2>5. \A i \in 0 .. n : i # 0 => i \in 1 .. n
      OBVIOUS
    <2>6. f \in [0 .. n -> Seq(S)] /\ f[0] = <<>> /\ f[n] = c[n]
      BY <1>1, <1>7, <2>4, <2>5
    <2>7. ASSUME NEW i \in 0 .. n - 1 PROVE f[i + 1] = f[i] \o s[i + 1]
      <3>1. i + 1 \in 1 .. n /\ i + 1 \in 0 .. n /\ i \in 0 .. n /\ (i + 1) - 1 = i /\ i + 1 # 0
        BY <1>1
      <3>2. f[i + 1] = c[i + 1]
        BY <3>1
      <3>3. CASE i = 0
        <4>1. f[i] = <<>> /\ c[i + 1] = s[i + 1]
          BY <2>3, <3>1, <3>3
        <4> QED BY <1>1, <3>1, <3>2, <4>1, ConcatEmptySeq
      <3>4. CASE i # 0
        <4>1. f[i] = c[i]
          BY <3>1, <3>4
        <4>2. c[i + 1] = c[(i + 1) - 1] \o s[i + 1]
          <5> HIDE DEF f
          <5>1. i + 1 \in 1 .. n /\ i + 1 # 1
            BY <3>1, <3>4
          <5> QED BY <2>3, <5>1, Zenon
        <4>3. c[i + 1] = c[i] \o s[i + 1]
          BY <3>1, <4>2
        <4> QED BY <3>2, <4>1, <4>3
      <3> QED BY <3>3, <3>4
    <2> HIDE DEF f
    <2> QED BY <2>2, <2>6, <2>7
  <1> QED BY <1>6, <1>7

(* What is left of FlattenSeq's result behind each prefix of its sequence *)
LEMMA FlattenRest ==
  ASSUME NEW S, NEW s \in Seq(Seq(S))
  PROVE  \E rest \in [0 .. Len(s) -> Seq(S)] :
           /\ rest[Len(s)] = <<>>
           /\ \A i \in 0 .. Len(s) - 1 : rest[i] = s[i + 1] \o rest[i + 1]
           /\ rest[0] = FlattenSeq(s)
  <1> DEFINE n == Len(s)
  <1>1. n \in Nat /\ \A i \in 1 .. n : s[i] \in Seq(S)
    OBVIOUS
  <1>2. PICK f \in [0 .. n -> Seq(S)] :
          /\ f[0] = <<>>
          /\ \A i \in 0 .. n - 1 : f[i + 1] = f[i] \o s[i + 1]
          /\ f[n] = FlattenSeq(s)
    BY FlattenSteps
  <1> HIDE DEF n
  <1> DEFINE Rest(r, j) == /\ r[j] = <<>>
                           /\ \A i \in 0 .. j - 1 : r[i] = s[i + 1] \o r[i + 1]
                           /\ r[0] = f[j]
             Has == {j \in Nat : j > n \/ \E r \in [0 .. j -> Seq(S)] : Rest(r, j)}
  <1>3. 0 \in Has
    <2> DEFINE r == [i \in 0 .. 0 |-> <<>>]
    <2>1. r \in [0 .. 0 -> Seq(S)] /\ r[0] = <<>>
      OBVIOUS
    <2>2. Rest(r, 0)
      BY <1>2, <2>1
    <2> HIDE DEF r, Rest
    <2> QED BY <2>1, <2>2
  <1>4. ASSUME NEW j \in Nat, j \in Has PROVE j + 1 \in Has
    <2>1. CASE j + 1 > n
      <3> HIDE DEF Rest
      <3> QED BY <2>1
    <2>2. CASE ~(j + 1 > n)
      <3>1. ~(j > n) /\ j \in 0 .. n - 1 /\ j + 1 \in 1 .. n /\ j + 1 \in 0 .. n
        BY <1>1, <2>2
      <3>2. PICK r \in [0 .. j -> Seq(S)] : Rest(r, j)
        <4> HIDE DEF Rest
        <4> QED BY <1>4, <3>1
      <3>3. s[j + 1] \in Seq(S)
        BY <1>1, <3>1
      <3> DEFINE e == s[j + 1]
                 q == [i \in 0 .. j + 1 |-> IF i \in 0 .. j THEN r[i] \o e ELSE <<>>]
      <3>4. /\ \A i \in 0 .. j : i \in 0 .. j + 1 /\ q[i] = r[i] \o e
            /\ q[j + 1] = <<>>
        OBVIOUS
      <3>5. q \in [0 .. j + 1 -> Seq(S)]
        <4>1. \A i \in 0 .. j : r[i] \o e \in Seq(S)
          BY <3>3
        <4> HIDE DEF e
        <4> QED BY <4>1
      <3>6. f[j + 1] = f[j] \o e
        BY <1>2, <3>1
      <3> HIDE DEF e, q
      <3>7. q[0] = f[j + 1]
        <4>1. 0 \in 0 .. j /\ r[0] = f[j]
          BY <3>2
        <4> QED BY <3>4, <3>6, <4>1
      <3>8. ASSUME NEW i \in 0 .. (j + 1) - 1
            PROVE  q[i] = s[i + 1] \o q[i + 1]
        <4>1. i \in 0 .. j /\ q[i] = r[i] \o e
          BY <3>4
        <4>2. CASE i = j
          <5>1. q[i] = e /\ q[i + 1] = <<>> /\ e = s[i + 1]
            <6>1. r[i] = <<>>
              BY <3>2, <4>2
            <6>2. <<>> \o e = e
              BY <3>3, ConcatEmptySeq DEF e
            <6> QED BY <3>4, <4>1, <4>2, <6>1, <6>2 DEF e
          <5>2. e \o <<>> = e
            BY <3>3, ConcatEmptySeq DEF e
          <5> QED BY <5>1, <5>2
        <4>3. CASE i # j
          <5>1. /\ i \in 0 .. j - 1
                /\ i + 1 \in 0 .. j
                /\ i + 1 \in 1 .. n
            <6>1. i \in Nat /\ n \in Nat /\ i < j /\ j + 1 <= n
              BY <1>1, <3>1, <4>1, <4>3
            <6> QED BY <6>1
          <5> DEFINE x == s[i + 1]
                     y == r[i + 1]
          <5>2. r[i] = x \o y /\ q[i + 1] = y \o e
            BY <3>2, <3>4, <5>1
          <5>3. x \in Seq(S) /\ y \in Seq(S) /\ e \in Seq(S)
            BY <1>1, <3>3, <5>1 DEF e
          <5>4. q[i] = (x \o y) \o e
            BY <4>1, <5>2
          <5> HIDE DEF x, y
          <5>5. \A a, b, c \in Seq(S) : (a \o b) \o c = a \o (b \o c)
            BY ConcatAssociative
          <5>6. (x \o y) \o e = x \o (y \o e)
            BY <5>3, <5>5
          <5>7. q[i] = x \o q[i + 1]
            BY <5>2, <5>4, <5>6
          <5> QED BY <5>7 DEF x
        <4> QED BY <4>2, <4>3
      <3>9. Rest(q, j + 1)
        BY <3>4, <3>7, <3>8
      <3> HIDE DEF Rest
      <3> QED BY <3>5, <3>9
    <2> QED BY <2>1, <2>2
  <1>5. n \in Has
    <2> HIDE DEF Has
    <2> QED BY <1>1, <1>3, <1>4, SetInduction
  <1>6. \E r \in [0 .. n -> Seq(S)] : Rest(r, n)
    <2> HIDE DEF Rest
    <2> QED BY <1>1, <1>5
  <1> QED BY <1>2, <1>6 DEF n

-----------------------------------------------------------------------------
(* Frames *)

(* What follows a frame's start mark *)
Plain == Byte \ {START_MARK}

(* r[k] is what is still to be sent of a frame when the first k bytes of its
   payload have been. *)
IsUnsent(r, payload) ==
  /\ r[Len(payload)] = <<>>
  /\ \A k \in 0 .. Len(payload) - 1 : r[k] = Escaped(payload[k + 1]) \o r[k + 1]
  /\ Framed(payload) = <<START_MARK>> \o r[0]

Unsent(payload) ==
  CHOOSE r \in [0 .. Len(payload) -> Seq(Plain)] : IsUnsent(r, payload)

LEMMA EscapedType ==
  ASSUME NEW b \in Byte
  PROVE  /\ Escaped(b) \in Seq(Plain)
         /\ b \notin {ESCAPE_MARK, START_MARK} => b \in Plain /\ Escaped(b) = <<b>>
         /\ b = ESCAPE_MARK => Escaped(b) = <<ESCAPE_MARK, 0>>
         /\ b = START_MARK => Escaped(b) = <<ESCAPE_MARK, 1>>
         /\ {0, 1, ESCAPE_MARK} \subseteq Plain
  <1>1. {0, 1, ESCAPE_MARK, START_MARK} \subseteq Byte
    BY ByteAssumption, BusAssumption
  <1>2. {0, 1, ESCAPE_MARK} \subseteq Plain /\ ESCAPE_MARK # START_MARK
    BY <1>1 DEF Plain, ESCAPE_MARK, START_MARK
  <1>3. CASE b = ESCAPE_MARK
    BY <1>2, <1>3 DEF Escaped
  <1>4. CASE b = START_MARK
    BY <1>2, <1>4 DEF Escaped
  <1>5. CASE b \notin {ESCAPE_MARK, START_MARK}
    BY <1>2, <1>5 DEF Escaped, Plain
  <1> QED BY <1>2, <1>3, <1>4, <1>5

LEMMA UnsentProperties ==
  ASSUME NEW payload \in Seq(Byte)
  PROVE  /\ Unsent(payload) \in [0 .. Len(payload) -> Seq(Plain)]
         /\ IsUnsent(Unsent(payload), payload)
  <1> DEFINE s == [i \in DOMAIN payload |-> Escaped(payload[i])]
  <1>1. Len(payload) \in Nat /\ DOMAIN payload = 1 .. Len(payload)
        /\ \A i \in 1 .. Len(payload) : payload[i] \in Byte
    OBVIOUS
  <1>2. \A i \in 1 .. Len(payload) : Escaped(payload[i]) \in Seq(Plain)
    BY <1>1, EscapedType
  <1>3. s \in Seq(Seq(Plain)) /\ Len(s) = Len(payload)
        /\ \A i \in 1 .. Len(payload) : s[i] = Escaped(payload[i])
    BY <1>1, <1>2
  <1>4. Framed(payload) = <<START_MARK>> \o FlattenSeq(s)
    BY DEF Framed
  <1> HIDE DEF s
  <1>5. PICK r \in [0 .. Len(s) -> Seq(Plain)] :
          /\ r[Len(s)] = <<>>
          /\ \A i \in 0 .. Len(s) - 1 : r[i] = s[i + 1] \o r[i + 1]
          /\ r[0] = FlattenSeq(s)
    BY <1>3, FlattenRest
  <1>6. \A i \in 0 .. Len(payload) - 1 : i + 1 \in 1 .. Len(payload)
    BY <1>1
  <1>7. IsUnsent(r, payload) /\ r \in [0 .. Len(payload) -> Seq(Plain)]
    BY <1>3, <1>4, <1>5, <1>6 DEF IsUnsent
  <1> QED BY <1>7 DEF Unsent

(* What the daemon sends: an update of a module, or a strobe *)
Values(module) == [1 .. channelCounts[module] -> Brightness]

IsItem(item) ==
  \/ item = StrobeAll
  \/ \E module \in Module : \E values \in Values(module) : item = UpdateOf(module, values)

(* A command that a board runs as it was sent *)
Sound(address, command) ==
  /\ address \in Byte
  /\ command \in Seq(Byte) /\ command # <<>>
  /\ address_filter(address) =>
       /\ Len(command) = TotalLength(command[1])
       /\ Len(command) = CommandLength(command[1])

LEMMA BytesOfBrightness ==
  ASSUME NEW v \in Brightness
  PROVE  /\ v \div 256 \in Byte /\ v % 256 \in Byte
         /\ 256 * (v \div 256) + (v % 256) = v
  <1>1. PICK high \in Byte, low \in Byte : v = 256 * high + low
    BY DEF Brightness
  <1>2. high \in 0 .. 255 /\ low \in 0 .. 255
    BY ByteAssumption
  <1>3. v \div 256 = high /\ v % 256 = low
    BY <1>1, <1>2
  <1> QED BY <1>1, <1>2, <1>3

(* An update is its code and two bytes for each of its n brightnesses. *)
IsUpdate(bytes, n, values) ==
  /\ bytes \in Seq(Byte) /\ Len(bytes) = 1 + 2 * n
  /\ bytes[1] = CMD_SET_RAW
  /\ \A p \in 1 .. n : /\ bytes[2 * p] = values[p] \div 256
                       /\ bytes[2 * p + 1] = values[p] % 256

LEMMA UpdateProperties ==
  ASSUME NEW module, NEW n \in Nat, NEW values \in [1 .. n -> Brightness]
  PROVE  /\ UpdateOf(module, values).address = module
         /\ IsUpdate(UpdateOf(module, values).command, n, values)
  <1> DEFINE s == [p \in DOMAIN values |-> <<values[p] \div 256, values[p] % 256>>]
  <1>1. \A p \in 1 .. n : values[p] \div 256 \in Byte /\ values[p] % 256 \in Byte
    BY BytesOfBrightness
  <1>2. /\ s \in Seq(Seq(Byte)) /\ Len(s) = n
        /\ \A p \in 1 .. n : s[p] = <<values[p] \div 256, values[p] % 256>>
    BY <1>1
  <1>3. UpdateOf(module, values).command = <<CMD_SET_RAW>> \o FlattenSeq(s)
    BY DEF UpdateOf
  <1> HIDE DEF s
  <1>4. PICK f \in [0 .. n -> Seq(Byte)] :
          /\ f[0] = <<>>
          /\ \A i \in 0 .. n - 1 : f[i + 1] = f[i] \o s[i + 1]
          /\ f[n] = FlattenSeq(s)
    BY <1>2, FlattenSteps
  <1> DEFINE Pairs(j) == /\ Len(f[j]) = 2 * j
                         /\ \A p \in 1 .. j : /\ f[j][2 * p - 1] = values[p] \div 256
                                              /\ f[j][2 * p] = values[p] % 256
             Good == {j \in Nat : j <= n => Pairs(j)}
  <1>5. 0 \in Good
    BY <1>4
  <1>6. ASSUME NEW j \in Nat, j \in Good PROVE j + 1 \in Good
    <2> SUFFICES ASSUME j + 1 <= n PROVE Pairs(j + 1)
      OBVIOUS
    <2>1. j \in 0 .. n /\ j \in 0 .. n - 1 /\ j + 1 \in 1 .. n
      OBVIOUS
    <2>2. Pairs(j)
      BY <1>6, <2>1
    <2> DEFINE a == f[j]
               b == s[j + 1]
               c == f[j + 1]
    <2>3. c = a \o b /\ a \in Seq(Byte)
      BY <1>4, <2>1
    <2>4. b = <<values[j + 1] \div 256, values[j + 1] % 256>> /\ b \in Seq(Byte)
      BY <1>2, <2>1
    <2>5. Len(a) = 2 * j /\ Len(b) = 2 /\ b[1] = values[j + 1] \div 256
          /\ b[2] = values[j + 1] % 256
      BY <2>2, <2>4
    <2> HIDE DEF a, b, c
    <2>6. /\ Len(c) = 2 * j + 2
          /\ \A i \in 1 .. 2 * j : c[i] = a[i]
          /\ c[2 * j + 1] = b[1] /\ c[2 * j + 2] = b[2]
      <3>1. /\ Len(c) = 2 * j + 2
            /\ \A i \in 1 .. 2 * j + 2 :
                 c[i] = IF i <= 2 * j THEN a[i] ELSE b[i - 2 * j]
        BY <2>3, <2>4, <2>5, ConcatProperties
      <3>2. /\ \A i \in 1 .. 2 * j : i \in 1 .. 2 * j + 2 /\ i <= 2 * j
            /\ 2 * j + 1 \in 1 .. 2 * j + 2 /\ ~(2 * j + 1 <= 2 * j)
            /\ 2 * j + 2 \in 1 .. 2 * j + 2 /\ ~(2 * j + 2 <= 2 * j)
            /\ (2 * j + 1) - 2 * j = 1 /\ (2 * j + 2) - 2 * j = 2
        OBVIOUS
      <3> QED BY <3>1, <3>2
    <2>7. ASSUME NEW p \in 1 .. j + 1
          PROVE  c[2 * p - 1] = values[p] \div 256 /\ c[2 * p] = values[p] % 256
      <3>1. CASE p = j + 1
        <4>1. 2 * p - 1 = 2 * j + 1 /\ 2 * p = 2 * j + 2
          BY <3>1
        <4> QED BY <2>5, <2>6, <3>1, <4>1
      <3>2. CASE p # j + 1
        <4>1. p \in 1 .. j /\ 2 * p - 1 \in 1 .. 2 * j /\ 2 * p \in 1 .. 2 * j
          BY <3>2
        <4>2. a[2 * p - 1] = values[p] \div 256 /\ a[2 * p] = values[p] % 256
          BY <2>2, <4>1 DEF a
        <4> QED BY <2>6, <4>1, <4>2
      <3> QED BY <3>1, <3>2
    <2> QED BY <2>6, <2>7 DEF c
  <1>7. Pairs(n)
    <2> HIDE DEF Good
    <2>1. Nat \subseteq Good
      BY <1>5, <1>6, SetInduction
    <2>2. n \in Good /\ n <= n
      BY <2>1
    <2> HIDE DEF Pairs
    <2> QED BY <2>2 DEF Good
  <1> DEFINE u == f[n]
             h == <<CMD_SET_RAW>>
             cmd == h \o u
  <1>8. u \in Seq(Byte) /\ Len(u) = 2 * n
        /\ \A p \in 1 .. n : u[2 * p - 1] = values[p] \div 256 /\ u[2 * p] = values[p] % 256
    BY <1>4, <1>7
  <1>9. h \in Seq(Byte) /\ Len(h) = 1 /\ h[1] = CMD_SET_RAW
    BY ByteAssumption DEF CMD_SET_RAW
  <1>10. UpdateOf(module, values).command = cmd
        /\ UpdateOf(module, values).address = module
    BY <1>3, <1>4 DEF UpdateOf
  <1> HIDE DEF u, h
  <1>11. /\ cmd \in Seq(Byte) /\ Len(cmd) = 1 + 2 * n
         /\ cmd[1] = h[1]
         /\ \A i \in 1 .. 2 * n : cmd[1 + i] = u[i]
    BY <1>8, <1>9, ConcatProperties
  <1> HIDE DEF cmd
  <1>12. ASSUME NEW p \in 1 .. n
         PROVE  /\ cmd[2 * p] = values[p] \div 256
                /\ cmd[2 * p + 1] = values[p] % 256
    <2>1. /\ 2 * p - 1 \in 1 .. 2 * n /\ 1 + (2 * p - 1) = 2 * p
          /\ 2 * p \in 1 .. 2 * n /\ 1 + 2 * p = 2 * p + 1
      OBVIOUS
    <2> QED BY <1>8, <1>11, <2>1
  <1> QED BY <1>9, <1>10, <1>11, <1>12, Zenon DEF IsUpdate

-----------------------------------------------------------------------------
(* Types *)

Item  == {item \in [address : Byte, command : Seq(Byte)] : IsItem(item)}
Frame == [number : Nat, address : Byte, command : Seq(Byte)]

(* What the daemon holds for the modules that have ever been set *)
IsStates(states) ==
  /\ DOMAIN states \subseteq Module
  /\ \A module \in DOMAIN states : states[module] \in Values(module)

BusTypeOK ==
  /\ IsStates(moduleLedStates)
  /\ IsStates(strobed)
  /\ out \in Seq(Item)
  /\ wire \in Seq(Byte)
  /\ DOMAIN lamps = 1 .. channelCounts[my_address]
  /\ frame \in Frame
  /\ wire # <<>> => Sound(frame.address, frame.command)
  /\ condition \in {"whole", "damaged", "dropped"}
  /\ owner \in [Buffer -> Frame]
  /\ latest \in Nat
  /\ arrived \in BOOLEAN

LEMMA UpdateItem ==
  ASSUME NEW module \in Module, NEW values \in Values(module)
  PROVE  UpdateOf(module, values) \in Item
  <1> DEFINE n == channelCounts[module]
             item == UpdateOf(module, values)
  <1>1. n \in Nat /\ values \in [1 .. n -> Brightness]
    BY BusAssumption DEF Values
  <1>2. item.address = module /\ IsUpdate(item.command, n, values)
    BY <1>1, UpdateProperties, Zenon
  <1>3. item = [address |-> item.address, command |-> item.command]
    BY DEF UpdateOf
  <1>4. IsItem(item)
    BY DEF IsItem
  <1>5. item.address \in Byte /\ item.command \in Seq(Byte)
    <2> HIDE DEF item
    <2> QED BY <1>2, BusAssumption DEF IsUpdate
  <1> HIDE DEF item
  <1>6. item \in Item
    BY <1>3, <1>4, <1>5 DEF Item
  <1> QED BY <1>6 DEF item

LEMMA StrobeItem == StrobeAll \in Item
  <1>1. IsItem(StrobeAll)
    BY DEF IsItem
  <1>2. CMD_STROBE \in Byte /\ BROADCAST \in Byte
    BY BusAssumption DEF CMD_STROBE, BROADCAST
  <1> QED BY <1>1, <1>2 DEF Item, StrobeAll

(* A frame with an item is one a board understands. *)
LEMMA ItemSound ==
  ASSUME NEW item \in Item
  PROVE  Sound(item.address, item.command)
  <1>1. item.address \in Byte /\ item.command \in Seq(Byte)
    BY DEF Item
  <1>2. CASE item = StrobeAll
    <2>1. item.command = <<CMD_STROBE>> /\ item.command # <<>>
      BY <1>2 DEF StrobeAll
    <2>2. Len(item.command) = 1 /\ item.command[1] = CMD_STROBE
      BY <2>1
    <2>3. TotalLength(CMD_STROBE) = 1 /\ CommandLength(CMD_STROBE) = 1
      BY DEF TotalLength, CommandLength, CMD_STROBE, CMD_SET_RAW, CMD_SET_XYY
    <2> QED BY <1>1, <2>1, <2>2, <2>3 DEF Sound
  <1>3. ASSUME NEW module \in Module, NEW values \in Values(module),
               item = UpdateOf(module, values)
        PROVE  Sound(item.address, item.command)
    <2> DEFINE n == channelCounts[module]
    <2>1. n \in Nat /\ values \in [1 .. n -> Brightness] /\ module # BROADCAST
      BY BusAssumption DEF Values
    <2>2. item.address = module /\ IsUpdate(item.command, n, values)
      BY <1>3, <2>1, UpdateProperties, Zenon
    <2>3. Len(item.command) = 1 + 2 * n /\ item.command[1] = CMD_SET_RAW
      BY <2>2 DEF IsUpdate
    <2>4. item.command # <<>>
      BY <1>1, <2>1, <2>3
    <2>5. address_filter(module) => 1 + 2 * n = SET_RAW_LENGTH
      BY <2>1, BusAssumption DEF address_filter
    <2>6. /\ TotalLength(CMD_SET_RAW) = SET_RAW_LENGTH
          /\ CommandLength(CMD_SET_RAW) = SET_RAW_LENGTH
      BY LengthAssumption DEF TotalLength, CommandLength
    <2> QED BY <1>1, <2>2, <2>3, <2>4, <2>5, <2>6 DEF Sound
  <1> QED BY <1>2, <1>3 DEF Item, IsItem

(* Buffer.set and Mapping.set keep the states well-formed. *)
LEMMA BufferSetType ==
  ASSUME NEW states, IsStates(states), NEW module \in Module,
         NEW position \in 1 .. channelCounts[module], NEW value \in Brightness
  PROVE  IsStates(BufferSet(states, module, position, value))
  <1> DEFINE old == IF module \in DOMAIN states THEN states[module] ELSE Dark(module)
             new == BufferSet(states, module, position, value)
  <1>1. 0 \in Brightness
    <2>1. 0 \in Byte /\ 0 = 256 * 0 + 0
      BY ByteAssumption
    <2> QED BY <2>1 DEF Brightness
  <1>2. old \in Values(module)
    BY <1>1 DEF IsStates, Values, Dark
  <1>3. [old EXCEPT ![position] = value] \in Values(module)
    BY <1>2 DEF Values
  <1>4. new = [m \in DOMAIN states \cup {module} |->
                 IF m = module THEN [old EXCEPT ![position] = value] ELSE states[m]]
    BY DEF BufferSet
  <1> HIDE DEF old, new
  <1>5. DOMAIN new \subseteq Module
    BY <1>4 DEF IsStates
  <1>6. \A m \in DOMAIN new : new[m] \in Values(m)
    BY <1>3, <1>4 DEF IsStates
  <1>7. IsStates(new)
    BY <1>5, <1>6 DEF IsStates
  <1> QED BY <1>7 DEF new

LEMMA SetChannelType ==
  ASSUME NEW states, IsStates(states), NEW led, NEW color \in Colors,
         NEW c \in {"red", "green", "blue"}
  PROVE  IsStates(SetChannel(states, led, color, c))
  <1>1. color[c] \in Brightness
    BY BusAssumption
  <1>2. CASE <<led, c>> \in DOMAIN channels
    <2> DEFINE module == channels[<<led, c>>][1]
               position == channels[<<led, c>>][2]
    <2>1. module \in Module /\ position \in 1 .. channelCounts[module]
      BY <1>2, BusAssumption
    <2> HIDE DEF module, position
    <2>2. IsStates(BufferSet(states, module, position, color[c]))
      BY <1>1, <2>1, BufferSetType
    <2> QED BY <1>2, <2>2 DEF SetChannel, module, position
  <1>3. CASE <<led, c>> \notin DOMAIN channels
    BY <1>3 DEF SetChannel
  <1> QED BY <1>2, <1>3

(* A strobe updates each module that has been set once. *)
LEMMA UpdatesProperties ==
  ASSUME NEW states, IsStates(states), NEW modules \in SetToSeqs(DOMAIN states)
  PROVE  /\ modules \in Seq(Module)
         /\ \A i \in 1 .. Len(modules) : modules[i] \in DOMAIN states
         /\ \A i, j \in 1 .. Len(modules) : modules[i] = modules[j] => i = j
         /\ \A module \in DOMAIN states : \E i \in 1 .. Len(modules) : modules[i] = module
  <1> DEFINE S == DOMAIN states
             n == Cardinality(S)
  <1>1. S \subseteq Module /\ IsFiniteSet(S) /\ n \in Nat
    <2>1. S \in SUBSET Module
      BY DEF IsStates
    <2>2. IsFiniteSet(S)
      BY <2>1, BusAssumption, FS_Subset
    <2> QED BY <2>1, <2>2, FS_CardinalityType
  <1>2. modules \in [1 .. n -> S] /\ \A i, j \in 1 .. n : i # j => modules[i] # modules[j]
    BY DEF SetToSeqs
  <1> HIDE DEF n, S
  <1>3. modules \in Injection(1 .. n, S)
    BY <1>2 DEF Injection, IsInjective
  <1>4. IsFiniteSet(1 .. n) /\ Cardinality(1 .. n) = n
    BY <1>1, FS_Interval
  <1>5. modules \in Surjection(1 .. n, S)
    BY <1>1, <1>3, <1>4, FS_Injection DEF n
  <1>6. \A module \in S : \E i \in 1 .. n : modules[i] = module
    BY <1>5 DEF Surjection
  <1>7. modules \in Seq(Module) /\ Len(modules) = n
    BY <1>1, <1>2
  <1> QED BY <1>2, <1>6, <1>7 DEF S

(* Framer.write makes bytes of bytes. *)
LEMMA FramedType ==
  ASSUME NEW payload \in Seq(Byte)
  PROVE  Framed(payload) \in Seq(Byte)
  <1> DEFINE r == Unsent(payload)
  <1>1. r[0] \in Seq(Plain) /\ Framed(payload) = <<START_MARK>> \o r[0]
    <2>1. 0 \in 0 .. Len(payload)
      OBVIOUS
    <2> QED BY <2>1, UnsentProperties DEF IsUnsent
  <1> DEFINE x == r[0]
  <1>2. x \in Seq(Byte) /\ <<START_MARK>> \in Seq(Byte)
    BY <1>1, ByteAssumption DEF Plain
  <1> HIDE DEF x
  <1>3. <<START_MARK>> \o x \in Seq(Byte)
    BY <1>2
  <1> QED BY <1>1, <1>3 DEF x

LEMMA PayloadType ==
  ASSUME NEW address \in Byte, NEW command \in Seq(Byte)
  PROVE  /\ <<address>> \o command \in Seq(Byte)
         /\ Len(<<address>> \o command) = Len(command) + 1
         /\ (<<address>> \o command)[1] = address
         /\ \A k \in 1 .. Len(command) : (<<address>> \o command)[k + 1] = command[k]
  OBVIOUS

(* The board of Bus is the one of Usart2, whatever the line does. *)
LEMMA BoardStep ==
  ASSUME BusTypeOK, [BusNext]_<<vars, busVars>>
  PROVE  [Next]_vars
  <1>1. ASSUME Carry PROVE Next
    <2>1. Head(wire) \in Byte /\ ReceiveByte(Head(wire))
      BY <1>1 DEF Carry, BusTypeOK
    <2> QED BY <2>1 DEF Next, Interrupt
  <1>2. Damage => Next
    BY DEF Damage, Next, Interrupt
  <1>3. Board => Next
    BY DEF Board, Next
  <1>4. Set \/ Strobe \/ Send \/ Abandon => UNCHANGED vars
    BY DEF Set, Strobe, Send, Abandon
  <1> QED BY <1>1, <1>2, <1>3, <1>4 DEF BusNext

LEMMA InitBusType == BusInit => BusTypeOK
  <1> SUFFICES ASSUME BusInit PROVE BusTypeOK
    OBVIOUS
  <1>1. <<>> \in Seq(Item) /\ <<>> \in Seq(Byte)
    OBVIOUS
  <1>2. NoFrame \in Frame
    BY BusAssumption DEF NoFrame, Frame
  <1>3. IsStates(<<>>)
    BY DEF IsStates
  <1>4. lamps = Dark(my_address) /\ DOMAIN Dark(my_address) = 1 .. channelCounts[my_address]
    BY DEF BusInit, Dark
  <1> QED BY <1>1, <1>2, <1>3, <1>4 DEF BusInit, BusTypeOK

LEMMA StrobeType ==
  ASSUME BusTypeOK, Strobe
  PROVE  BusTypeOK'
  <1>1. PICK updates \in Updates : out' = Append(updates, StrobeAll)
    BY DEF Strobe
  <1>2. PICK modules \in SetToSeqs(DOMAIN moduleLedStates) : updates = UpdatesInOrder(modules)
    BY <1>1 DEF Updates
  <1>3. /\ modules \in Seq(Module)
        /\ \A i \in 1 .. Len(modules) : modules[i] \in DOMAIN moduleLedStates
    BY UpdatesProperties DEF BusTypeOK
  <1>4. \A i \in 1 .. Len(modules) : UpdateOf(modules[i], moduleLedStates[modules[i]]) \in Item
    BY <1>3, UpdateItem DEF BusTypeOK, IsStates
  <1>5. updates \in Seq(Item)
    BY <1>2, <1>3, <1>4 DEF UpdatesInOrder
  <1>6. out' \in Seq(Item)
    BY <1>1, <1>5, StrobeItem
  <1>7. arrived' \in BOOLEAN
    BY DEF Strobe
  <1> QED BY <1>6, <1>7 DEF BusTypeOK, Strobe, lighting

LEMMA SendType ==
  ASSUME BusTypeOK, Send
  PROVE  /\ BusTypeOK'
         /\ Head(out) \in Item
         /\ frame' = [number |-> frame.number + 1, address |-> Head(out).address,
                      command |-> Head(out).command]
         /\ wire' = Framed(<<frame'.address>> \o frame'.command)
  <1>1. Head(out) \in Item /\ Tail(out) \in Seq(Item)
    BY DEF Send, BusTypeOK
  <1>2. /\ Head(out).address \in Byte /\ Head(out).command \in Seq(Byte)
        /\ Sound(Head(out).address, Head(out).command)
    BY <1>1, ItemSound DEF Item
  <1>3. frame' = [number |-> frame.number + 1, address |-> Head(out).address,
                  command |-> Head(out).command]
    BY DEF Send
  <1>4. frame' \in Frame /\ Sound(frame'.address, frame'.command)
    BY <1>2, <1>3 DEF Frame, BusTypeOK
  <1>5. wire' = Framed(<<frame'.address>> \o frame'.command)
    BY <1>3 DEF Send
  <1>6. wire' \in Seq(Byte)
    BY <1>4, <1>5, PayloadType, FramedType DEF Frame
  <1>7. condition' \in {"whole", "damaged", "dropped"}
    BY DEF Send
  <1>8. BusTypeOK'
    BY <1>1, <1>4, <1>6, <1>7 DEF BusTypeOK, Send, buffering, lighting
  <1> QED BY <1>1, <1>3, <1>5, <1>8

LEMMA BoardType ==
  ASSUME IInv, BusTypeOK, Board
  PROVE  BusTypeOK'
  <1>1. CASE main = "run"
    <2>1. latest' \in Nat
      BY <1>1 DEF Board, BusTypeOK, Frame, IInv, TypeOK
    <2>2. DOMAIN lamps' = DOMAIN lamps
      BY <1>1 DEF Board, Light
    <2> QED BY <2>1, <2>2 DEF Board, BusTypeOK, buffering
  <1>2. CASE main # "run"
    BY <1>2 DEF Board, BusTypeOK, buffering, lighting
  <1> QED BY <1>1, <1>2

LEMMA BusTypeStep ==
  ASSUME IInv, BusTypeOK, [BusNext]_<<vars, busVars>>
  PROVE  BusTypeOK'
  <1>1. CASE Set
    <2>1. PICK led \in Led, color \in Colors :
            moduleLedStates' =
              SetChannel(SetChannel(SetChannel(moduleLedStates, led, color, "red"),
                                    led, color, "green"),
                         led, color, "blue")
      BY <1>1 DEF Set
    <2> DEFINE red   == SetChannel(moduleLedStates, led, color, "red")
               green == SetChannel(red, led, color, "green")
               blue  == SetChannel(green, led, color, "blue")
    <2>2. IsStates(red)
      BY SetChannelType DEF BusTypeOK
    <2>3. IsStates(green)
      <3> HIDE DEF red
      <3> QED BY <2>2, SetChannelType
    <2>4. IsStates(blue)
      <3> HIDE DEF green
      <3> QED BY <2>3, SetChannelType
    <2>5. IsStates(moduleLedStates')
      BY <2>1, <2>4, Zenon
    <2>6. IsStates(moduleLedStates)'
      BY <2>5 DEF IsStates
    <2> QED BY <1>1, <2>6 DEF Set, BusTypeOK, lighting
  <1>2. CASE Strobe
    BY <1>2, StrobeType
  <1>3. CASE Send
    BY <1>3, SendType
  <1>4. CASE Abandon
    <2>1. <<>> \in Seq(Item) /\ <<>> \in Seq(Byte) /\ IsStates(<<>>)
      BY DEF IsStates
    <2> QED BY <1>4, <2>1 DEF Abandon, BusTypeOK, lighting
  <1>5. CASE Carry
    <2>1. wire' \in Seq(Byte)
      BY <1>5 DEF Carry, BusTypeOK
    <2>2. owner' \in [Buffer -> Frame]
      BY <1>5 DEF Carry, BusTypeOK
    <2>3. condition' \in {"whole", "damaged", "dropped"} /\ arrived' \in BOOLEAN
      BY <1>5 DEF Carry, BusTypeOK
    <2> QED BY <1>5, <2>1, <2>2, <2>3 DEF Carry, BusTypeOK, buffering, lighting
  <1>6. CASE Damage
    <2>1. PICK lost \in {n \in 0 .. 2 : n <= Len(wire)} : wire' = SubSeq(wire, lost + 1, Len(wire))
      BY <1>6 DEF Damage
    <2>2. wire' \in Seq(Byte) /\ (wire' # <<>> => wire # <<>>)
      BY <2>1, SubSeqProperties DEF BusTypeOK
    <2> QED BY <1>6, <2>2 DEF Damage, BusTypeOK, buffering, lighting
  <1>7. CASE Board
    BY <1>7, BoardType
  <1>8. CASE UNCHANGED <<vars, busVars>>
    BY <1>8 DEF busVars, buffering, lighting, BusTypeOK
  <1> QED BY <1>1, <1>2, <1>3, <1>4, <1>5, <1>6, <1>7, <1>8 DEF BusNext

-----------------------------------------------------------------------------
(* Where the board is in the frame that is being sent *)

Payload == <<frame.address>> \o frame.command

(* The board has got the start mark and the first k bytes of the payload. *)
GotSoFar(k) ==
  \/ k = 0 /\ isr_state = "GOT_START"
  \/ k > 0 /\ ~address_filter(frame.address) /\ isr_state = "IDLE"
  \/ /\ k > 0 /\ address_filter(frame.address)
     /\ isr_state = "READING" /\ isr_write_idx = k - 1
     /\ \A i \in 1 .. k - 1 : isr_buffers[isr_write_buffer][i - 1] = frame.command[i]

(* It may be within an escape sequence for the next byte. *)
Following(k) ==
  /\ GotSoFar(k)
  /\ \/ ~isr_escape /\ wire = Unsent(Payload)[k]
     \/ /\ isr_escape
        /\ \E c \in {0, 1} : /\ Escaped(Payload[k + 1]) = <<ESCAPE_MARK, c>>
                             /\ wire = <<c>> \o Unsent(Payload)[k + 1]

(* What is under way is a frame from its start mark on; or what is left of one
   that the board has dropped or not seen the start of; or the board follows. *)
Tracking ==
  \/ wire = <<>>
  \/ wire = Framed(Payload) /\ (condition = "whole" => ~isr_escape)
  \/ isr_state = "IDLE" /\ wire \in Seq(Plain) /\ condition # "whole"
  \/ \E k \in 0 .. Len(frame.command) : Following(k)

CommandStored ==
  /\ commands_pending' = commands_pending + 1
  /\ CommandIn(isr_buffers'[isr_write_buffer]) = frame.command
  /\ address_filter(frame.address)

(* What a data byte does *)
Progress(k) ==
  \/ /\ commands_pending' = commands_pending
     /\ GotSoFar(k + 1)'
     /\ k = Len(frame.command) => ~address_filter(frame.address)
  \/ /\ commands_pending' = commands_pending
     /\ isr_state = "GOT_START" /\ RingFull
     /\ isr_state' = "IDLE"
     /\ k < Len(frame.command)
  \/ k = Len(frame.command) /\ CommandStored

(* The byte of a command that the board follows is stored at its place; the
   last one completes the command. *)
LEMMA CommandByte ==
  ASSUME IInv, Sound(frame.address, frame.command), frame' = frame,
         NEW k \in 1 .. Len(frame.command),
         GotSoFar(k), address_filter(frame.address), StoreByte(frame.command[k])
  PROVE  Progress(k)
  <1> DEFINE n    == Len(frame.command)
             cmd  == frame.command
             code == cmd[1]
             old  == isr_buffers[isr_write_buffer]
             new  == isr_buffers'[isr_write_buffer]
  <1>1. /\ n \in Nat /\ k \in 1 .. n /\ \A i \in 1 .. n : cmd[i] \in Byte
        /\ TotalLength(code) = n /\ CommandLength(code) = n
        /\ cmd \in Seq(Byte) /\ Len(cmd) = n
    BY DEF Sound
  <1>2. isr_write_idx = k - 1 /\ \A i \in 1 .. k - 1 : old[i - 1] = cmd[i]
    BY DEF GotSoFar, StoreByte
  <1>3. /\ k - 1 \in Index
        /\ isr_write_idx' = (k - 1) + 1
        /\ isr_buffers' \in [Buffer -> [Index -> Byte]]
        /\ isr_bytes_remaining' = TotalLength(new[0]) - ((k - 1) + 1)
    BY <1>1, <1>2, StoreByteAwaits
  <1>4. old \in [Index -> Byte] /\ isr_write_buffer \in Buffer
    BY DEF IInv, TypeOK
  <1>5. new = [old EXCEPT ![k - 1] = cmd[k]]
    BY <1>2, <1>4 DEF StoreByte, IInv, TypeOK
  <1> HIDE DEF n, cmd, old, new
  <1>6. \A i \in 1 .. k : new[i - 1] = cmd[i]
    <2> SUFFICES ASSUME NEW i \in 1 .. k PROVE new[i - 1] = cmd[i]
      OBVIOUS
    <2>1. CASE i = k
      BY <1>3, <1>4, <1>5, <2>1
    <2>2. CASE i # k
      <3>1. i \in 1 .. k - 1 /\ i - 1 # k - 1 /\ i - 1 \in Index
        BY <1>1, <1>3, <2>2, LengthAssumption DEF Index
      <3> QED BY <1>2, <1>4, <1>5, <3>1
    <2> QED BY <2>1, <2>2
  <1>7. new[0] = code
    <2>1. 1 \in 1 .. k /\ 1 - 1 = 0
      BY <1>1
    <2> QED BY <1>6, <2>1 DEF cmd
  <1>8. isr_bytes_remaining' = n - k
    BY <1>1, <1>3, <1>7
  <1>9. CASE k < n
    <2>1. isr_bytes_remaining' > 0 /\ ~(isr_bytes_remaining' <= 0)
      BY <1>1, <1>8, <1>9
    <2>2. UNCHANGED <<isr_state, isr_write_buffer, commands_pending>>
      BY <2>1 DEF StoreByte
    <2>3. isr_write_idx' = (k + 1) - 1 /\ k + 1 > 0
      BY <1>1, <1>3
    <2>4. isr_state' = "READING"
      BY <2>2 DEF StoreByte
    <2>5. \A i \in 1 .. (k + 1) - 1 : isr_buffers'[isr_write_buffer'][i - 1] = frame'.command[i]
      BY <1>1, <1>6, <2>2 DEF new, cmd
    <2>6. GotSoFar(k + 1)'
      BY <2>3, <2>4, <2>5 DEF GotSoFar, address_filter
    <2>7. k # n
      BY <1>9
    <2> QED BY <2>2, <2>6, <2>7 DEF Progress, n
  <1>10. CASE ~(k < n)
    <2>1. k = n /\ isr_bytes_remaining' <= 0 /\ ~(isr_bytes_remaining' > 0)
      BY <1>1, <1>8, <1>10
    <2>2. commands_pending' = commands_pending + 1
      BY <2>1 DEF StoreByte
    <2>3. CommandIn(new) = [i \in 1 .. n |-> new[i - 1]]
      BY <1>1, <1>7 DEF CommandIn
    <2>4. CommandIn(new) = [i \in 1 .. n |-> cmd[i]]
      BY <1>6, <2>1, <2>3
    <2>5. CommandIn(new) = cmd
      BY <1>1, <2>4
    <2> QED BY <2>1, <2>2, <2>5 DEF Progress, CommandStored, n, new, cmd
  <1> QED BY <1>9, <1>10

LEMMA DataProgress ==
  ASSUME IInv, Sound(frame.address, frame.command), frame' = frame,
         NEW k \in 0 .. Len(frame.command),
         GotSoFar(k), DataByte(Payload[k + 1])
  PROVE  Progress(k)
  <1>1. /\ Payload[1] = frame.address
        /\ \A i \in 1 .. Len(frame.command) : Payload[i + 1] = frame.command[i]
        /\ Len(frame.command) \in Nat /\ Len(frame.command) > 0
    BY PayloadType DEF Payload, Sound
  <1>2. CASE k = 0
    <2>1. isr_state = "GOT_START" /\ DataByte(frame.address) /\ k < Len(frame.command)
      BY <1>1, <1>2 DEF GotSoFar
    <2>2. CASE RejectAddress(frame.address)
      BY <1>1, <1>2, <2>2 DEF RejectAddress, Progress, GotSoFar, address_filter
    <2>3. CASE DropCommand(frame.address)
      BY <2>1, <2>3 DEF DropCommand, Progress
    <2>4. CASE BeginCommand(frame.address)
      <3>1. GotSoFar(k + 1)'
        BY <1>2, <2>4 DEF BeginCommand, GotSoFar, address_filter
      <3> QED BY <2>1, <2>4, <3>1 DEF BeginCommand, Progress
    <2> QED BY <2>1, <2>2, <2>3, <2>4 DEF DataByte, IgnoreData, StoreByte
  <1>3. CASE k # 0
    <2>1. k \in 1 .. Len(frame.command) /\ Payload[k + 1] = frame.command[k]
      BY <1>1, <1>3
    <2>2. CASE ~address_filter(frame.address)
      <3>1. isr_state = "IDLE"
        BY <1>3, <2>2 DEF GotSoFar
      <3>2. commands_pending' = commands_pending /\ isr_state' = "IDLE"
        BY <3>1 DEF DataByte, IgnoreData, RejectAddress, DropCommand, BeginCommand, StoreByte
      <3>3. k + 1 > 0
        BY <2>1
      <3>4. GotSoFar(k + 1)'
        BY <2>2, <3>2, <3>3 DEF GotSoFar, address_filter
      <3> QED BY <2>2, <3>2, <3>4 DEF Progress
    <2>3. CASE address_filter(frame.address)
      <3>1. isr_state = "READING"
        BY <1>3, <2>3 DEF GotSoFar
      <3>2. StoreByte(frame.command[k])
        BY <2>1, <3>1 DEF DataByte, IgnoreData, RejectAddress, DropCommand, BeginCommand
      <3> QED BY <2>1, <2>3, <3>2, CommandByte
    <2> QED BY <2>2, <2>3
  <1> QED BY <1>2, <1>3

LEMMA PairOfBytes ==
  ASSUME NEW S, NEW a \in S, NEW b \in S
  PROVE  <<a>> \o <<b>> = <<a, b>>
  <1> DEFINE s == <<a>> \o <<b>>
             t == <<a, b>>
  <1>1. s \in Seq(S) /\ Len(s) = 2 /\ s[1] = a /\ s[2] = b
    OBVIOUS
  <1>2. t \in Seq(S) /\ Len(t) = 2 /\ t[1] = a /\ t[2] = b
    OBVIOUS
  <1> HIDE DEF s, t
  <1>3. \A i \in 1 .. 2 : s[i] = t[i]
    BY <1>1, <1>2
  <1>4. s = t
    BY <1>1, <1>2, <1>3, SeqEqual
  <1> QED BY <1>4 DEF s, t

LEMMA ConsProperties ==
  ASSUME NEW S, NEW b \in S, NEW t \in Seq(S)
  PROVE  /\ <<b>> \o t \in Seq(S) /\ <<b>> \o t # <<>>
         /\ Head(<<b>> \o t) = b
         /\ Tail(<<b>> \o t) = t
  <1> DEFINE s == <<b>> \o t
  <1>1. /\ s \in Seq(S) /\ Len(s) = 1 + Len(t)
        /\ s[1] = b /\ \A i \in 1 .. Len(t) : s[1 + i] = t[i]
    OBVIOUS
  <1>2. Len(t) \in Nat
    OBVIOUS
  <1> HIDE DEF s
  <1>3. s # <<>>
    BY <1>1, <1>2
  <1>4. Head(s) = b
    BY <1>1, <1>3, HeadTailProperties
  <1>5. Tail(s) \in Seq(S) /\ Len(Tail(s)) = Len(t)
        /\ \A i \in 1 .. Len(t) : Tail(s)[i] = s[i + 1]
    BY <1>1, <1>2, <1>3, HeadTailProperties
  <1>6. \A i \in 1 .. Len(t) : Tail(s)[i] = t[i]
    BY <1>1, <1>5
  <1>7. Tail(s) = t
    BY <1>5, <1>6, SeqEqual
  <1> QED BY <1>1, <1>3, <1>4, <1>7 DEF s

(* The bytes that are sent for the next byte of a payload *)
NextSent(w, b, rest) ==
  /\ w \in Seq(Plain) /\ w # <<>>
  /\ \/ b \notin {ESCAPE_MARK, START_MARK} /\ Head(w) = b /\ Tail(w) = rest
     \/ /\ Head(w) = ESCAPE_MARK
        /\ \E c \in {0, 1} : Escaped(b) = <<ESCAPE_MARK, c>> /\ Tail(w) = <<c>> \o rest

LEMMA UnsentNext ==
  ASSUME NEW payload \in Seq(Byte), NEW k \in 0 .. Len(payload) - 1
  PROVE  /\ NextSent(Unsent(payload)[k], payload[k + 1], Unsent(payload)[k + 1])
         /\ Unsent(payload)[k + 1] \in Seq(Plain)
  <1> DEFINE w    == Unsent(payload)[k]
             b    == payload[k + 1]
             rest == Unsent(payload)[k + 1]
  <1>1. k \in 0 .. Len(payload) /\ k + 1 \in 0 .. Len(payload) /\ b \in Byte
    OBVIOUS
  <1>2. w \in Seq(Plain) /\ rest \in Seq(Plain) /\ w = Escaped(b) \o rest
    BY <1>1, UnsentProperties DEF IsUnsent
  <1>3. {0, 1, ESCAPE_MARK} \subseteq Plain
    BY <1>1, EscapedType
  <1> HIDE DEF w, b, rest
  <1>4. ASSUME b \notin {ESCAPE_MARK, START_MARK} PROVE NextSent(w, b, rest)
    <2>1. b \in Plain /\ w = <<b>> \o rest
      BY <1>1, <1>2, <1>4, EscapedType
    <2>2. w # <<>> /\ Head(w) = b /\ Tail(w) = rest
      BY <1>2, <2>1, ConsProperties
    <2> QED BY <1>2, <1>4, <2>2 DEF NextSent
  <1>5. ASSUME NEW c \in {0, 1}, Escaped(b) = <<ESCAPE_MARK, c>>
        PROVE  NextSent(w, b, rest)
    <2> DEFINE tail == <<c>> \o rest
               mark == <<ESCAPE_MARK>>
    <2>1. c \in Plain /\ ESCAPE_MARK \in Plain /\ tail \in Seq(Plain)
      BY <1>2, <1>3, <1>5
    <2>2. \A x, y, z \in Seq(Plain) : (x \o y) \o z = x \o (y \o z)
      BY ConcatAssociative
    <2>3. mark \in Seq(Plain) /\ <<c>> \in Seq(Plain) /\ mark \o <<c>> = Escaped(b)
      <3>1. <<ESCAPE_MARK>> \in Seq(Plain) /\ <<c>> \in Seq(Plain)
        BY <2>1
      <3>2. <<ESCAPE_MARK>> \o <<c>> = <<ESCAPE_MARK, c>>
        BY <2>1, PairOfBytes
      <3> QED BY <1>5, <3>1, <3>2
    <2>4. w = mark \o tail
      <3>1. (mark \o <<c>>) \o rest = mark \o (<<c>> \o rest)
        <4> HIDE DEF mark
        <4> QED BY <1>2, <2>2, <2>3
      <3> HIDE DEF mark
      <3> QED BY <1>2, <2>3, <3>1
    <2> HIDE DEF tail
    <2>5. w # <<>> /\ Head(w) = ESCAPE_MARK /\ Tail(w) = tail
      BY <2>1, <2>4, ConsProperties
    <2> QED BY <1>2, <1>5, <2>5 DEF NextSent, tail
  <1>6. NextSent(w, b, rest)
    <2>1. CASE b = ESCAPE_MARK
      <3>1. Escaped(b) = <<ESCAPE_MARK, 0>>
        BY <1>1, <2>1, EscapedType
      <3> QED BY <1>5, <3>1
    <2>2. CASE b = START_MARK
      <3>1. Escaped(b) = <<ESCAPE_MARK, 1>>
        BY <1>1, <2>2, EscapedType
      <3> QED BY <1>5, <3>1
    <2> QED BY <1>4, <2>1, <2>2
  <1> QED BY <1>2, <1>6 DEF w, b, rest

-----------------------------------------------------------------------------
(* What a byte on the line does *)

CarryOutcome ==
  /\ Tracking'
  /\ \/ CommandStored /\ wire' = <<>>
     \/ /\ commands_pending' = commands_pending
        /\ condition' = "whole" /\ wire' = <<>> => ~address_filter(frame.address)
  /\ condition' = "whole" /\ wire' = <<>> => ~isr_escape'

LEMMA PayloadProperties ==
  ASSUME BusTypeOK, wire # <<>>
  PROVE  /\ Payload \in Seq(Byte) /\ Len(Payload) = Len(frame.command) + 1
         /\ Len(frame.command) \in Nat \ {0}
         /\ Sound(frame.address, frame.command)
  BY PayloadType DEF BusTypeOK, Sound, Payload

(* A whole data byte of the frame arrives. *)
LEMMA FollowedByte ==
  ASSUME IInv, BusTypeOK, Carry, NEW k \in 0 .. Len(frame.command),
         GotSoFar(k), DataByte(Payload[k + 1]), isr_escape' = FALSE,
         wire' = Unsent(Payload)[k + 1]
  PROVE  CarryOutcome
  <1> DEFINE n == Len(frame.command)
  <1>1. wire # <<>> /\ frame' = frame
    BY DEF Carry
  <1>2. Payload \in Seq(Byte) /\ Len(Payload) = n + 1 /\ n \in Nat \ {0}
        /\ Sound(frame.address, frame.command)
    BY <1>1, PayloadProperties
  <1>3. Progress(k)
    BY <1>1, <1>2, DataProgress
  <1>4. wire' \in Seq(Plain)
    BY <1>2, UnsentNext
  <1>5. k < n => wire' # <<>> /\ k + 1 \in 0 .. n
    <2> SUFFICES ASSUME k < n PROVE wire' # <<>> /\ k + 1 \in 0 .. n
      OBVIOUS
    <2>1. k + 1 \in 0 .. n /\ k + 1 \in 0 .. Len(Payload) - 1
      BY <1>2
    <2>2. NextSent(Unsent(Payload)[k + 1], Payload[(k + 1) + 1], Unsent(Payload)[(k + 1) + 1])
      BY <1>2, <2>1, UnsentNext
    <2> QED BY <2>1, <2>2 DEF NextSent
  <1>6. k = n => wire' = <<>>
    BY <1>2, UnsentProperties DEF IsUnsent
  <1>7. k = n \/ k < n
    BY <1>2
  <1>8. Payload' = Payload
    BY <1>1 DEF Payload
  <1>9. CASE /\ commands_pending' = commands_pending
             /\ GotSoFar(k + 1)'
             /\ k = Len(frame.command) => ~address_filter(frame.address)
    <2>1. CASE k < n
      <3>1. Following(k + 1)'
        BY <1>8, <1>9 DEF Following
      <3>2. k + 1 \in 0 .. Len(frame'.command)
        BY <1>1, <1>5, <2>1
      <3>3. Tracking'
        BY <3>1, <3>2 DEF Tracking
      <3> QED BY <1>5, <1>9, <2>1, <3>3 DEF CarryOutcome
    <2>2. CASE k = n
      <3>1. Tracking'
        BY <1>6, <2>2 DEF Tracking
      <3> QED BY <1>9, <2>2, <3>1 DEF CarryOutcome
    <2> QED BY <1>7, <2>1, <2>2
  <1>10. CASE /\ commands_pending' = commands_pending
              /\ isr_state = "GOT_START" /\ RingFull
              /\ isr_state' = "IDLE"
              /\ k < Len(frame.command)
    <2>1. condition' = "dropped"
      BY <1>10 DEF Carry
    <2>2. Tracking'
      BY <1>4, <1>10, <2>1 DEF Tracking
    <2> QED BY <1>10, <2>1, <2>2 DEF CarryOutcome
  <1>11. CASE k = Len(frame.command) /\ CommandStored
    <2>1. Tracking'
      BY <1>6, <1>11 DEF Tracking
    <2> QED BY <1>6, <1>11, <2>1 DEF CarryOutcome
  <1> QED BY <1>3, <1>9, <1>10, <1>11 DEF Progress

LEMMA CarryCases ==
  ASSUME IInv, BusTypeOK, Tracking, Carry
  PROVE  CarryOutcome
  <1> DEFINE n       == Len(frame.command)
             in_byte == Head(wire)
  <1>1. /\ wire # <<>> /\ ReceiveByte(in_byte) /\ wire' = Tail(wire) /\ frame' = frame
        /\ condition' \in {condition, "dropped"}
    BY DEF Carry
  <1>2. Payload \in Seq(Byte) /\ Len(Payload) = n + 1 /\ n \in Nat \ {0}
        /\ Sound(frame.address, frame.command)
    BY <1>1, PayloadProperties
  <1>3. /\ isr_escape \in BOOLEAN
        /\ ESCAPE_MARK # START_MARK /\ 0 # START_MARK /\ 1 # START_MARK
        /\ 0 # ESCAPE_MARK /\ 1 # ESCAPE_MARK
    BY DEF IInv, TypeOK, ESCAPE_MARK, START_MARK
  <1>4. CASE wire = Framed(Payload) /\ (condition = "whole" => ~isr_escape)
    <2> DEFINE rest == Unsent(Payload)[0]
    <2>1. /\ Framed(Payload) = <<START_MARK>> \o rest
          /\ rest \in Seq(Plain) /\ rest # <<>>
      <3>1. 0 \in 0 .. Len(Payload) - 1
        BY <1>2
      <3>2. NextSent(rest, Payload[0 + 1], Unsent(Payload)[0 + 1])
        BY <1>2, <3>1, UnsentNext
      <3>3. Framed(Payload) = <<START_MARK>> \o rest
        BY <1>2, UnsentProperties DEF IsUnsent
      <3> QED BY <3>2, <3>3 DEF NextSent
    <2>2. in_byte = START_MARK /\ wire' = rest
      <3>1. START_MARK \in Byte /\ rest \in Seq(Byte)
        BY <2>1, ByteAssumption DEF Plain
      <3> HIDE DEF rest
      <3> QED BY <1>1, <1>4, <2>1, <3>1, ConsProperties
    <2> HIDE DEF rest
    <2>3. CASE isr_escape
      <3>1. BadEscape(in_byte)
        BY <1>1, <1>3, <2>2, <2>3 DEF ReceiveByte, EscapeMark, StartMark, IsData
      <3>2. commands_pending' = commands_pending /\ isr_state' = "IDLE"
        BY <3>1 DEF BadEscape, isr_read_error
      <3>3. condition' # "whole"
        BY <1>1, <1>4, <2>3
      <3>4. Tracking'
        BY <2>1, <2>2, <3>2, <3>3 DEF Tracking
      <3> QED BY <3>2, <3>3, <3>4 DEF CarryOutcome
    <2>4. CASE ~isr_escape
      <3>1. StartMark(in_byte)
        BY <1>1, <1>3, <2>2, <2>4 DEF ReceiveByte, BadEscape, EscapeMark, StartMark, IsData
      <3>2. commands_pending' = commands_pending /\ isr_state' = "GOT_START" /\ isr_escape' = FALSE
        BY <2>4, <3>1 DEF StartMark
      <3>3. Payload' = Payload /\ Len(frame'.command) = n
        BY <1>1 DEF Payload
      <3>4. Following(0)'
        BY <2>2, <3>2, <3>3 DEF Following, GotSoFar, rest
      <3>5. Tracking'
        <4>1. 0 \in 0 .. Len(frame'.command)
          BY <1>2, <3>3
        <4> QED BY <3>4, <4>1 DEF Tracking
      <3> QED BY <2>1, <2>2, <3>2, <3>5 DEF CarryOutcome
    <2> QED BY <1>3, <2>3, <2>4
  <1>5. CASE isr_state = "IDLE" /\ wire \in Seq(Plain) /\ condition # "whole"
    <2>1. in_byte \in Plain /\ wire' \in Seq(Plain)
      BY <1>1, <1>5
    <2>2. commands_pending' = commands_pending /\ isr_state' = "IDLE"
      BY <1>1, <1>5, <2>1
      DEF Plain, ReceiveByte, BadEscape, isr_read_error, EscapeMark, StartMark, DataByte,
          IgnoreData, RejectAddress, DropCommand, BeginCommand, StoreByte
    <2>3. condition' # "whole"
      BY <1>1, <1>5
    <2>4. Tracking'
      BY <2>1, <2>2, <2>3 DEF Tracking
    <2> QED BY <2>2, <2>3, <2>4 DEF CarryOutcome
  <1>6. ASSUME NEW k \in 0 .. n, Following(k)
        PROVE  CarryOutcome
    <2> DEFINE b    == Payload[k + 1]
               rest == Unsent(Payload)[k + 1]
    <2>1. /\ NextSent(Unsent(Payload)[k], b, rest)
          /\ rest \in Seq(Plain) /\ GotSoFar(k)
      BY <1>2, <1>6, UnsentNext DEF Following
    <2> HIDE DEF b, rest
    <2>2. CASE ~isr_escape /\ b \notin {ESCAPE_MARK, START_MARK} /\ in_byte = b /\ wire' = rest
      <3>1. DataByte(b) /\ isr_escape' = FALSE
        BY <1>1, <2>2 DEF ReceiveByte, BadEscape, EscapeMark, StartMark, Decoded
      <3> QED BY <2>1, <2>2, <3>1, FollowedByte DEF b, rest
    <2>3. ASSUME NEW c \in {0, 1}, ~isr_escape, in_byte = ESCAPE_MARK,
                 Escaped(b) = <<ESCAPE_MARK, c>>, wire' = <<c>> \o rest
          PROVE  CarryOutcome
      <3>1. EscapeMark(in_byte)
        BY <1>1, <1>3, <2>3 DEF ReceiveByte, BadEscape, EscapeMark, StartMark, IsData
      <3>2. isr_escape' /\ commands_pending' = commands_pending
            /\ UNCHANGED <<isr_state, writeVars>>
        BY <3>1 DEF EscapeMark
      <3>3. Payload' = Payload
        BY <1>1 DEF Payload
      <3>4. GotSoFar(k)'
        BY <1>1, <2>1, <3>2 DEF GotSoFar, writeVars, address_filter
      <3>5. Following(k)'
        BY <2>3, <3>2, <3>3, <3>4 DEF Following, b, rest
      <3>6. Tracking'
        BY <1>1, <1>6, <3>5 DEF Tracking
      <3>7. wire' # <<>>
        <4>1. c \in Plain
          <5>1. 0 \in Byte /\ 1 \in Byte
            BY ByteAssumption, BusAssumption
          <5> QED BY <1>3, <5>1 DEF Plain
        <4> QED BY <2>1, <2>3, <4>1, ConsProperties
      <3> QED BY <3>2, <3>6, <3>7 DEF CarryOutcome
    <2>4. ASSUME NEW c \in {0, 1}, isr_escape, in_byte = c,
                 Escaped(b) = <<ESCAPE_MARK, c>>, wire' = rest
          PROVE  CarryOutcome
      <3>1. b = IF c = 0 THEN ESCAPE_MARK ELSE START_MARK
        BY <1>3, <2>4 DEF Escaped
      <3>2. DataByte(Decoded(c)) /\ isr_escape' = FALSE
        BY <1>1, <2>4 DEF ReceiveByte, BadEscape, EscapeMark, StartMark
      <3>3. Decoded(c) = b
        BY <2>4, <3>1 DEF Decoded
      <3> QED BY <2>1, <2>4, <3>2, <3>3, FollowedByte DEF b, rest
    <2>5. CASE ~isr_escape /\ wire = Unsent(Payload)[k]
      BY <1>1, <2>1, <2>2, <2>3, <2>5 DEF NextSent
    <2>6. CASE /\ isr_escape
               /\ \E c \in {0, 1} : Escaped(b) = <<ESCAPE_MARK, c>> /\ wire = <<c>> \o rest
      <3>1. PICK c \in {0, 1} : Escaped(b) = <<ESCAPE_MARK, c>> /\ wire = <<c>> \o rest
        BY <2>6
      <3>2. c \in Plain
        <4>1. 0 \in Byte /\ 1 \in Byte
          BY ByteAssumption, BusAssumption
        <4> QED BY <1>3, <4>1 DEF Plain
      <3>3. in_byte = c /\ wire' = rest
        BY <1>1, <2>1, <3>1, <3>2, ConsProperties
      <3> QED BY <2>4, <2>6, <3>1, <3>3
    <2> QED BY <1>6, <2>5, <2>6 DEF Following, b, rest
  <1> QED BY <1>1, <1>4, <1>5, <1>6 DEF Tracking

LEMMA InitTracking == BusInit => Tracking
  BY DEF BusInit, Tracking

(* What is left of a frame behind its start mark has none. *)
LEMMA TrackedPlain ==
  ASSUME BusTypeOK, wire # <<>>, NEW k \in 0 .. Len(frame.command), Following(k)
  PROVE  wire \in Seq(Plain)
  <1>1. /\ Payload \in Seq(Byte) /\ k \in 0 .. Len(Payload) - 1
    BY PayloadProperties
  <1>2. NextSent(Unsent(Payload)[k], Payload[k + 1], Unsent(Payload)[k + 1])
        /\ Unsent(Payload)[k + 1] \in Seq(Plain)
    BY <1>1, UnsentNext
  <1>3. CASE wire = Unsent(Payload)[k]
    BY <1>2, <1>3 DEF NextSent
  <1>4. ASSUME NEW c \in {0, 1}, wire = <<c>> \o Unsent(Payload)[k + 1]
        PROVE  wire \in Seq(Plain)
    <2>1. c \in Plain
      BY ByteAssumption, BusAssumption DEF Plain, START_MARK
    <2> QED BY <1>2, <1>4, <2>1, ConsProperties
  <1> QED BY <1>3, <1>4 DEF Following

(* Whatever the line loses, the rest of a frame is nothing to the board until
   the next start mark. *)
LEMMA DamageTracking ==
  ASSUME BusTypeOK, Tracking, Damage
  PROVE  Tracking'
  <1>1. PICK lost \in {n \in 0 .. 2 : n <= Len(wire)} : wire' = SubSeq(wire, lost + 1, Len(wire))
    BY DEF Damage
  <1>2. /\ condition' = "damaged" /\ isr_state' = "IDLE" /\ frame' = frame /\ Payload' = Payload
    BY DEF Damage, LineError, isr_read_error, Payload
  <1>3. /\ wire \in Seq(Byte) /\ Len(wire) \in Nat /\ lost \in 0 .. 2 /\ lost <= Len(wire)
        /\ Len(wire') = Len(wire) - lost
        /\ \A i \in 1 .. Len(wire) - lost : wire'[i] = wire[lost + i]
        /\ wire' \in Seq(Byte)
    BY <1>1, SubSeqProperties DEF BusTypeOK
  <1>4. CASE wire = <<>>
    <2>1. wire' = <<>>
      BY <1>3, <1>4
    <2> QED BY <2>1 DEF Tracking
  <1>5. ASSUME wire' \in Seq(Plain) PROVE Tracking'
    BY <1>2, <1>5 DEF Tracking
  <1>6. ASSUME wire \in Seq(Plain) PROVE wire' \in Seq(Plain)
    BY <1>3, <1>6
  <1>7. CASE wire = Framed(Payload) /\ wire # <<>>
    <2>1. CASE lost = 0
      <3>1. wire' = wire
        BY <1>3, <2>1, SeqEqual
      <3> QED BY <1>2, <1>7, <3>1 DEF Tracking
    <2>2. CASE lost # 0
      <3> DEFINE rest == Unsent(Payload)[0]
      <3>1. Payload \in Seq(Byte) /\ 0 \in 0 .. Len(Payload)
        BY <1>7, PayloadProperties
      <3>2. rest \in Seq(Plain) /\ wire = <<START_MARK>> \o rest
        BY <1>7, <3>1, UnsentProperties DEF IsUnsent
      <3> HIDE DEF rest
      <3>3. Len(wire) = 1 + Len(rest) /\ \A i \in 1 .. Len(rest) : wire[1 + i] = rest[i]
        BY <3>2
      <3>4. \A i \in 1 .. Len(wire) - lost : wire'[i] \in Plain
        <4> SUFFICES ASSUME NEW i \in 1 .. Len(wire) - lost PROVE wire'[i] \in Plain
          OBVIOUS
        <4> DEFINE j == lost + i - 1
        <4>1. Len(rest) \in Nat
          BY <3>2
        <4>2. j \in 1 .. Len(rest) /\ lost + i = 1 + j
          BY <1>3, <2>2, <3>3, <4>1
        <4> HIDE DEF j
        <4>3. wire'[i] = rest[j]
          BY <1>3, <3>3, <4>2
        <4> QED BY <3>2, <4>2, <4>3
      <3>5. wire' \in Seq(Plain)
        BY <1>3, <3>4
      <3> QED BY <1>5, <3>5
    <2> QED BY <2>1, <2>2
  <1>8. ASSUME wire # <<>>, NEW k \in 0 .. Len(frame.command), Following(k)
        PROVE  Tracking'
    BY <1>5, <1>6, <1>8, TrackedPlain
  <1> QED BY <1>4, <1>5, <1>6, <1>7, <1>8 DEF Tracking

LEMMA TrackingStep ==
  ASSUME IInv, BusTypeOK, Tracking, [BusNext]_<<vars, busVars>>
  PROVE  Tracking'
  <1>1. CASE Set \/ Strobe \/ Abandon
    BY <1>1 DEF Set, Strobe, Abandon, Tracking
  <1>2. CASE Send
    <2>1. wire' = Framed(Payload') /\ (condition' = "whole" => ~isr_escape')
      BY <1>2, SendType DEF Send, Payload, vars, isrVars
    <2> QED BY <2>1 DEF Tracking
  <1>3. CASE Carry
    BY <1>3, CarryCases DEF CarryOutcome
  <1>4. CASE Damage
    BY <1>4, DamageTracking
  <1>5. CASE Board \/ UNCHANGED <<vars, busVars>>
    <2>1. UNCHANGED <<wire, frame, condition, isr_state, isr_escape, isr_write_idx,
                      isr_write_buffer, isr_buffers>>
      BY <1>5 DEF Board, MainLoop, vars, isrVars, writeVars, busVars
    <2>2. \A k : Following(k) => Following(k)'
      BY <2>1 DEF Following, GotSoFar, Payload, address_filter
    <2> QED BY <2>1, <2>2 DEF Tracking, Payload
  <1> QED BY <1>1, <1>2, <1>3, <1>4, <1>5 DEF BusNext

-----------------------------------------------------------------------------
(* The frame's end *)

(* A byte of the line that completes a command leaves its frame as the owner of
   the buffer. *)
LEMMA CarryOwner ==
  ASSUME IInv, BusTypeOK, Carry
  PROVE  /\ CommandStored =>
              /\ owner' = [owner EXCEPT ![isr_write_buffer] = frame]
              /\ owner'[isr_write_buffer] = frame
         /\ commands_pending' = commands_pending => owner' = owner
  <1>1. commands_pending \in Nat /\ isr_write_buffer \in Buffer /\ owner \in [Buffer -> Frame]
    BY LengthAssumption DEF IInv, TypeOK, BusTypeOK
  <1>2. CommandStored => commands_pending' > commands_pending
    BY <1>1 DEF CommandStored
  <1>3. commands_pending' = commands_pending => ~(commands_pending' > commands_pending)
    BY <1>1
  <1> QED BY <1>1, <1>2, <1>3 DEF Carry

LEMMA WholeFrameStep ==
  ASSUME IInv, BusTypeOK, Tracking, [BusNext]_<<vars, busVars>>,
         Len(wire) = 1, wire' = <<>>, condition' = "whole", address_filter(frame.address)
  PROVE  owner'[isr_write_buffer] = frame
  <1>1. wire # <<>>
    OBVIOUS
  <1>2. CASE Set \/ Strobe \/ Send \/ Abandon \/ Damage \/ Board \/ UNCHANGED <<vars, busVars>>
    BY <1>1, <1>2 DEF Set, Strobe, Send, Abandon, Damage, Board, busVars
  <1>3. CASE Carry
    BY <1>3, CarryCases, CarryOwner DEF CarryOutcome
  <1> QED BY <1>2, <1>3 DEF BusNext

-----------------------------------------------------------------------------
(* The frames that the pending commands came in *)

(* The frame of the k-th pending command *)
Own(k) == owner[Slot(k)]

Owned(k) ==
  /\ CommandIn(isr_buffers[Slot(k)]) = Own(k).command
  /\ address_filter(Own(k).address)
  /\ Own(k).number <= frame.number
  /\ wire # <<>> => Own(k).number < frame.number

InOrder(j, k) == j < k => Own(j).number < Own(k).number

(* The latest command that was run came before the pending ones, but for the
   one that has been run and is not freed yet. *)
LatestBefore ==
  commands_pending > 0 =>
    IF main = "free" /\ is_reading
    THEN latest = Own(0).number
    ELSE latest < Own(0).number

Ownership ==
  /\ \A k \in 0 .. commands_pending - 1 : Owned(k)
  /\ \A j, k \in 0 .. commands_pending - 1 : InOrder(j, k)
  /\ latest <= frame.number
  /\ wire # <<>> => latest < frame.number
  /\ LatestBefore

LEMMA SlotProperties ==
  ASSUME IInv
  PROVE  /\ commands_pending \in 0 .. USART_BUFFER_COUNT
         /\ Slot(0) = read_buffer
         /\ \A k \in 0 .. USART_BUFFER_COUNT - 1 : Slot(k) \in Buffer
         /\ \A j, k \in 0 .. USART_BUFFER_COUNT - 1 : Slot(j) = Slot(k) => j = k
         /\ commands_pending < USART_BUFFER_COUNT => isr_write_buffer = Slot(commands_pending)
  BY LengthAssumption DEF IInv, TypeOK, RingConsistent, Slot, Buffer

LEMMA OwnType ==
  ASSUME IInv, BusTypeOK
  PROVE  /\ \A k \in 0 .. commands_pending - 1 : Own(k) \in Frame /\ Own(k).number \in Nat
         /\ frame.number \in Nat /\ latest \in Nat
  <1>1. \A k \in 0 .. commands_pending - 1 : k \in 0 .. USART_BUFFER_COUNT - 1
    BY SlotProperties, LengthAssumption
  <1>2. \A k \in 0 .. commands_pending - 1 : Slot(k) \in Buffer
    BY <1>1, SlotProperties
  <1> QED BY <1>2 DEF BusTypeOK, Own, Frame

LEMMA InitOwnership == BusInit => Ownership
  BY DEF BusInit, Init, Ownership, NoFrame, LatestBefore

(* No command comes or goes. *)
LEMMA RingKept ==
  ASSUME IInv, BusTypeOK, Ownership,
         UNCHANGED <<read_buffer, commands_pending, owner, frame>>,
         wire' # <<>> => wire # <<>>,
         \A b \in Pending : isr_buffers'[b] = isr_buffers[b],
         latest' <= frame.number, wire' # <<>> => latest' < frame.number,
         LatestBefore'
  PROVE  Ownership'
  <1>1. \A k : Slot(k)' = Slot(k) /\ Own(k)' = Own(k)
    BY DEF Slot, Own
  <1>2. \A k \in 0 .. commands_pending - 1 : isr_buffers'[Slot(k)] = isr_buffers[Slot(k)]
    BY DEF Pending
  <1>3. ASSUME NEW k \in 0 .. commands_pending - 1 PROVE Owned(k)'
    BY <1>1, <1>2 DEF Ownership, Owned, address_filter, CommandIn
  <1>4. ASSUME NEW j \in 0 .. commands_pending - 1, NEW k \in 0 .. commands_pending - 1
        PROVE  InOrder(j, k)'
    BY <1>1 DEF Ownership, InOrder
  <1> QED BY <1>3, <1>4 DEF Ownership

(* None is run either. *)
LEMMA QuietStep ==
  ASSUME IInv, BusTypeOK, Ownership,
         UNCHANGED <<mainVars, commands_pending, owner, latest, frame>>,
         wire' # <<>> => wire # <<>>,
         \A b \in Pending : isr_buffers'[b] = isr_buffers[b]
  PROVE  Ownership'
  <1>1. UNCHANGED <<read_buffer, main, is_reading>>
    BY DEF mainVars
  <1>2. Own(0)' = Own(0)
    BY <1>1 DEF Own, Slot
  <1>3. LatestBefore'
    BY <1>1, <1>2 DEF Ownership, LatestBefore
  <1>4. latest' <= frame.number /\ (wire' # <<>> => latest' < frame.number)
    BY DEF Ownership
  <1> QED BY <1>1, <1>3, <1>4, RingKept

(* The next frame has the next number. *)
LEMMA SendOwnership ==
  ASSUME IInv, BusTypeOK, Ownership, Send
  PROVE  Ownership'
  <1>1. UNCHANGED <<vars, owner, latest>> /\ frame'.number = frame.number + 1
    BY DEF Send
  <1>2. \A k : Slot(k)' = Slot(k) /\ Own(k)' = Own(k)
    BY <1>1 DEF Slot, Own, vars, mainVars
  <1>3. ASSUME NEW k \in 0 .. commands_pending - 1 PROVE Owned(k)'
    <2>1. Own(k).number < frame'.number /\ Own(k).number <= frame'.number
      BY <1>1, OwnType DEF Ownership, Owned
    <2> QED BY <1>1, <1>2, <2>1
       DEF Ownership, Owned, address_filter, CommandIn, vars, isrVars, writeVars
  <1>4. ASSUME NEW j \in 0 .. commands_pending - 1, NEW k \in 0 .. commands_pending - 1
        PROVE  InOrder(j, k)'
    BY <1>2 DEF Ownership, InOrder
  <1>5. LatestBefore'
    BY <1>1, <1>2 DEF Ownership, LatestBefore, vars, mainVars
  <1>6. commands_pending' = commands_pending
    BY <1>1 DEF vars
  <1>7. latest' <= frame'.number /\ latest' < frame'.number
    BY <1>1, OwnType DEF Ownership
  <1> QED BY <1>3, <1>4, <1>5, <1>6, <1>7 DEF Ownership

(* The frame that has just ended is the latest one. *)
LEMMA StoredOwnership ==
  ASSUME IInv, BusTypeOK, Ownership, Carry, CommandStored, wire' = <<>>,
         NEW CONSTANT p, p = commands_pending
  PROVE  /\ Ownership'
         /\ \A k \in 0 .. p - 1 : Own(k)' = Own(k)
         /\ Own(p)' = frame /\ commands_pending' = p + 1
         /\ wire # <<>> /\ UNCHANGED <<mainVars, frame, latest, strobed, out>>
  <1>1. UNCHANGED <<mainVars, frame, latest, strobed, out>> /\ wire # <<>>
    BY DEF Carry, ReceiveByte, lighting
  <1>2. \A k : Slot(k)' = Slot(k)
    BY <1>1 DEF Slot, mainVars
  <1>3. [Next]_vars
    BY BoardStep DEF BusNext
  <1>4. /\ commands_pending' = p + 1 /\ p \in Nat /\ p < USART_BUFFER_COUNT
        /\ isr_write_buffer = Slot(p)
    <2>1. commands_pending' = p + 1
      BY DEF CommandStored
    <2>2. IInv'
      BY <1>3, Invariance, InterruptIInv, MainLoopIInv DEF Carry, Next, Interrupt, BusTypeOK
    <2>3. p \in 0 .. USART_BUFFER_COUNT /\ commands_pending' \in 0 .. USART_BUFFER_COUNT
      BY <2>2 DEF IInv, TypeOK
    <2>4. p \in Nat /\ p < USART_BUFFER_COUNT
      BY <2>1, <2>3, LengthAssumption
    <2> QED BY <2>1, <2>4, SlotProperties
  <1>5. owner' = [owner EXCEPT ![Slot(p)] = frame] /\ Slot(p) \in Buffer
    BY <1>4, CarryOwner, SlotProperties, LengthAssumption
  <1>6. /\ \A k \in 0 .. p - 1 : Slot(k) # Slot(p) /\ Slot(k) \in Buffer /\ Slot(k) \in Pending
        /\ \A k \in 0 .. p : k \in 0 .. p - 1 \/ k = p
    <2>1. \A k \in 0 .. p - 1 : k \in 0 .. USART_BUFFER_COUNT - 1 /\ k # p
      BY <1>4, LengthAssumption
    <2>2. p \in 0 .. USART_BUFFER_COUNT - 1
      BY <1>4, LengthAssumption
    <2> QED BY <1>4, <2>1, <2>2, SlotProperties DEF Pending
  <1>7. /\ \A k \in 0 .. p - 1 : Own(k)' = Own(k)
        /\ Own(p)' = frame
    BY <1>2, <1>5, <1>6 DEF Own, BusTypeOK
  <1>8. \A k \in 0 .. p - 1 : isr_buffers'[Slot(k)] = isr_buffers[Slot(k)]
    BY <1>3, <1>6, StepUntouched
  <1>9. ASSUME NEW k \in 0 .. p PROVE Owned(k)'
    <2>1. CASE k \in 0 .. p - 1
      BY <1>1, <1>2, <1>7, <1>8, <2>1 DEF Ownership, Owned, address_filter, CommandIn
    <2>2. CASE k = p
      <3>1. CommandIn(isr_buffers'[Slot(p)]) = frame.command /\ address_filter(frame.address)
        BY <1>4 DEF CommandStored
      <3>2. frame.number <= frame.number
        BY OwnType
      <3> QED BY <1>1, <1>2, <1>7, <2>2, <3>1, <3>2 DEF Owned, address_filter, CommandIn
    <2> QED BY <1>6, <2>1, <2>2
  <1>10. ASSUME NEW j \in 0 .. p, NEW k \in 0 .. p
         PROVE  InOrder(j, k)'
    <2> SUFFICES ASSUME j < k PROVE Own(j)'.number < Own(k)'.number
      BY DEF InOrder
    <2>1. j \in 0 .. p - 1
      BY <1>4
    <2>2. CASE k = p
      BY <1>1, <1>7, <2>1, <2>2 DEF Ownership, Owned
    <2>3. CASE k \in 0 .. p - 1
      <3>1. InOrder(j, k)
        BY <2>1, <2>3 DEF Ownership
      <3> QED BY <1>7, <2>1, <2>3, <3>1 DEF InOrder
    <2> QED BY <1>6, <2>2, <2>3
  <1>11. LatestBefore'
    <2>1. CASE p = 0
      <3>1. ~is_reading
        BY <2>1 DEF IInv, RingConsistent
      <3>2. latest' < Own(0)'.number
        BY <1>1, <1>7, <2>1 DEF Ownership
      <3> QED BY <1>1, <3>1, <3>2 DEF LatestBefore, mainVars
    <2>2. CASE p # 0
      <3>1. Own(0)' = Own(0) /\ p > 0
        BY <1>4, <1>7, <2>2
      <3> QED BY <1>1, <3>1 DEF Ownership, LatestBefore, mainVars
    <2> QED BY <2>1, <2>2
  <1>12. latest' <= frame'.number
    BY <1>1 DEF Ownership
  <1>13. commands_pending' - 1 = p
    BY <1>4
  <1>14. Ownership'
    BY <1>9, <1>10, <1>11, <1>12, <1>13 DEF Ownership
  <1> QED BY <1>1, <1>4, <1>7, <1>14

(* The command that has been run leaves the ring; the others move up. *)
LEMMA FreedOwnership ==
  ASSUME IInv, BusTypeOK, Ownership, Board, main = "free", is_reading,
         NEW CONSTANT p, p = commands_pending
  PROVE  /\ Ownership'
         /\ commands_pending' = p - 1 /\ p \in Nat
         /\ \A k \in 0 .. p - 2 : Own(k)' = Own(k + 1)
         /\ latest = Own(0).number
         /\ UNCHANGED <<frame, wire, out, latest, lighting, strobed, arrived, condition,
                        isr_escape>>
  <1>1. /\ UNCHANGED <<frame, wire, out, latest, lighting, strobed, arrived, condition, owner>>
        /\ MainLoop
    BY DEF Board
  <1>2. /\ read_buffer' = Advance(read_buffer)
        /\ commands_pending' = p - 1
        /\ main' = "overflow"
        /\ isr_buffers' = isr_buffers /\ isr_escape' = isr_escape
    BY <1>1 DEF MainLoop, FreeCommand, ReportOverflow, ResetOverflow, PollCommand, RunCommand,
               isrVars, writeVars
  <1>3. /\ p \in 1 .. USART_BUFFER_COUNT /\ read_buffer \in Buffer
        /\ p \in 0 .. USART_BUFFER_COUNT
    BY DEF IInv, TypeOK, RingConsistent
  <1>4. ASSUME NEW k \in 0 .. p - 2
        PROVE  /\ Slot(k)' = Slot(k + 1) /\ Own(k)' = Own(k + 1)
               /\ k + 1 \in 0 .. p - 1 /\ k \in 0 .. p - 1
    <2>1. Slot(k)' = Slot(k + 1)
      BY <1>2, <1>3, LengthAssumption DEF Slot, Advance, Buffer
    <2> QED BY <1>1, <1>3, <2>1 DEF Own
  <1>5. ASSUME NEW k \in 0 .. p - 2 PROVE Owned(k)'
    <2>1. Owned(k + 1)
      BY <1>4 DEF Ownership
    <2> QED BY <1>1, <1>2, <1>4, <2>1 DEF Owned, address_filter, CommandIn
  <1>6. ASSUME NEW j \in 0 .. p - 2, NEW k \in 0 .. p - 2
        PROVE  InOrder(j, k)'
    <2>1. InOrder(j + 1, k + 1)
      BY <1>4 DEF Ownership
    <2>2. j < k => j + 1 < k + 1
      OBVIOUS
    <2> QED BY <1>4, <2>1, <2>2 DEF InOrder
  <1>7. latest = Own(0).number
    BY <1>3 DEF Ownership, LatestBefore
  <1>8. LatestBefore'
    <2> SUFFICES ASSUME p - 1 > 0 PROVE latest' < Own(0)'.number
      BY <1>2 DEF LatestBefore
    <2>1. 0 \in 0 .. p - 2 /\ 0 \in 0 .. p - 1 /\ 1 \in 0 .. p - 1 /\ 0 + 1 = 1
      BY <1>3
    <2>2. InOrder(0, 1)
      BY <2>1 DEF Ownership
    <2>3. Own(0)' = Own(1)
      BY <1>4, <2>1
    <2> QED BY <1>1, <1>7, <2>2, <2>3 DEF InOrder
  <1>9. commands_pending' - 1 = p - 2
    BY <1>2, <1>3
  <1>10. Ownership'
    <2>1. latest' <= frame'.number /\ (wire' # <<>> => latest' < frame'.number)
      BY <1>1 DEF Ownership
    <2> QED BY <1>5, <1>6, <1>8, <1>9, <2>1 DEF Ownership
  <1> QED BY <1>1, <1>2, <1>3, <1>4, <1>7, <1>10

(* The oldest command is run. *)
LEMMA RunOwnership ==
  ASSUME IInv, BusTypeOK, Ownership, Board, main = "run"
  PROVE  /\ Ownership'
         /\ commands_pending > 0
         /\ latest < Own(0).number /\ latest' = Own(0).number
         /\ Light(Own(0).command)
         /\ UNCHANGED <<read_buffer, commands_pending, owner, frame, wire, out, strobed, arrived,
                        condition, isr_escape>>
  <1>1. /\ UNCHANGED <<frame, wire, out, strobed, arrived, condition, owner>>
        /\ MainLoop
        /\ latest' = owner[read_buffer].number
        /\ Light(CommandIn(isr_buffers[read_buffer]))
    BY DEF Board
  <1>2. /\ UNCHANGED <<read_buffer, commands_pending, is_reading, isr_buffers, isr_escape>>
        /\ main' = "free"
    BY <1>1 DEF MainLoop, FreeCommand, ReportOverflow, ResetOverflow, PollCommand, RunCommand,
               isrVars, writeVars
  <1>3. commands_pending > 0 /\ is_reading /\ 0 \in 0 .. commands_pending - 1
        /\ Slot(0) = read_buffer
    BY SlotProperties DEF IInv, TypeOK, RingConsistent
  <1>4. Owned(0) /\ latest < Own(0).number
    BY <1>3 DEF Ownership, LatestBefore
  <1>5. latest' = Own(0).number /\ Light(Own(0).command)
    BY <1>1, <1>3, <1>4 DEF Own, Owned
  <1>6. Own(0)' = Own(0)
    BY <1>1, <1>2 DEF Own, Slot
  <1>7. LatestBefore'
    BY <1>2, <1>3, <1>5, <1>6 DEF LatestBefore
  <1>8. latest' <= frame.number /\ (wire' # <<>> => latest' < frame.number)
    BY <1>1, <1>4, <1>5 DEF Owned
  <1>9. Ownership'
    BY <1>1, <1>2, <1>7, <1>8, RingKept
  <1> QED BY <1>1, <1>2, <1>3, <1>4, <1>5, <1>9

(* The other steps of the main loop *)
LEMMA PollOwnership ==
  ASSUME IInv, BusTypeOK, Ownership, Board, main # "run", ~(main = "free" /\ is_reading)
  PROVE  /\ Ownership'
         /\ UNCHANGED <<read_buffer, commands_pending, owner, frame, wire, out, latest, lighting,
                        strobed, arrived, condition, isr_escape>>
  <1>1. /\ UNCHANGED <<frame, wire, out, strobed, arrived, condition, owner, latest, lighting>>
        /\ MainLoop
    BY DEF Board
  <1>2. /\ UNCHANGED <<read_buffer, commands_pending, isr_buffers, isr_escape>>
        /\ main' = "free" /\ is_reading' => commands_pending = 0
    BY <1>1, LengthAssumption
    DEF MainLoop, FreeCommand, ReportOverflow, ResetOverflow, PollCommand, RunCommand,
        isrVars, writeVars, IInv, TypeOK, RingConsistent
  <1>3. Own(0)' = Own(0)
    BY <1>1, <1>2 DEF Own, Slot
  <1>4. LatestBefore'
    BY <1>1, <1>2, <1>3, SlotProperties, LengthAssumption DEF Ownership, LatestBefore
  <1>5. latest' <= frame.number /\ (wire' # <<>> => latest' < frame.number)
    BY <1>1 DEF Ownership
  <1>6. Ownership'
    BY <1>1, <1>2, <1>4, <1>5, RingKept
  <1> QED BY <1>1, <1>2, <1>6

LEMMA OwnershipStep ==
  ASSUME IInv, BusTypeOK, Tracking, Ownership, [BusNext]_<<vars, busVars>>
  PROVE  Ownership'
  <1>1. \A b \in Pending : isr_buffers'[b] = isr_buffers[b]
    BY BoardStep, StepUntouched
  <1>2. CASE Set \/ Strobe \/ Abandon \/ UNCHANGED <<vars, busVars>>
    <2>1. UNCHANGED <<mainVars, commands_pending, owner, latest, frame>>
      BY <1>2 DEF Set, Strobe, Abandon, vars, busVars
    <2>2. wire' # <<>> => wire # <<>>
      BY <1>2 DEF Set, Strobe, Abandon, busVars
    <2> QED BY <1>1, <2>1, <2>2, QuietStep
  <1>3. CASE Send
    BY <1>3, SendOwnership
  <1>4. CASE Carry
    <2>1. CASE CommandStored /\ wire' = <<>>
      <3>1. PICK p : p = commands_pending
        OBVIOUS
      <3> QED BY <1>4, <2>1, <3>1, StoredOwnership
    <2>2. CASE commands_pending' = commands_pending
      <3>1. UNCHANGED <<mainVars, latest, frame>> /\ wire # <<>>
        BY <1>4 DEF Carry, ReceiveByte
      <3>2. owner' = owner
        BY <1>4, <2>2, CarryOwner
      <3> QED BY <1>1, <2>2, <3>1, <3>2, QuietStep
    <2> QED BY <1>4, <2>1, <2>2, CarryCases DEF CarryOutcome
  <1>5. CASE Damage
    <2>1. UNCHANGED <<mainVars, commands_pending, owner, latest, frame>>
      BY <1>5 DEF Damage, LineError, isr_read_error
    <2>2. wire' # <<>> => wire # <<>>
      <3>1. PICK lost \in {n \in 0 .. 2 : n <= Len(wire)} :
              wire' = SubSeq(wire, lost + 1, Len(wire))
        BY <1>5 DEF Damage
      <3> QED BY <3>1, SubSeqProperties DEF BusTypeOK
    <2> QED BY <1>1, <2>1, <2>2, QuietStep
  <1>6. CASE Board
    <2>1. CASE main = "free" /\ is_reading
      <3>1. PICK p : p = commands_pending
        OBVIOUS
      <3> QED BY <1>6, <2>1, <3>1, FreedOwnership
    <2>2. CASE main = "run"
      BY <1>6, <2>2, RunOwnership
    <2> QED BY <1>6, <2>1, <2>2, PollOwnership
  <1> QED BY <1>2, <1>3, <1>4, <1>5, <1>6 DEF BusNext

-----------------------------------------------------------------------------
(* What a strobe does to the board *)

(* The frame with number n is run, or still under way. *)
Reaches(n) ==
  n > latest =>
    \/ n > frame.number
    \/ n = frame.number /\ wire # <<>>
    \/ \E k \in 0 .. commands_pending - 1 : Own(k).number = n

(* From frame u, the board's update, up to the last frame, the strobe, nothing
   else is for the board. *)
AsSent(values, u, last, n, address, command) ==
  /\ n = u => /\ address = my_address
              /\ command = UpdateOf(my_address, values).command
  /\ n = last => address = BROADCAST /\ command = <<CMD_STROBE>>
  /\ n > u /\ n # last => ~address_filter(address)

Healing(u, last) ==
  /\ u < last
  /\ last = frame.number + Len(out)
  /\ Reaches(u) /\ Reaches(last)
  /\ latest >= u => lamps = strobed[my_address]
  /\ latest >= last => shown = strobed[my_address]
  /\ \A i \in 1 .. Len(out) :
       AsSent(strobed[my_address], u, last, frame.number + i, out[i].address, out[i].command)
  /\ wire # <<>> => AsSent(strobed[my_address], u, last, frame.number, frame.address, frame.command)
  /\ \A k \in 0 .. commands_pending - 1 :
       Own(k).number > latest =>
         AsSent(strobed[my_address], u, last, Own(k).number, Own(k).address, Own(k).command)

Arrival ==
  arrived =>
    /\ wire # <<>> => condition = "whole"
    /\ wire = <<>> => ~isr_escape
    /\ my_address \in DOMAIN strobed => \E u, last \in Nat : Healing(u, last)

LEMMA HealingKept ==
  ASSUME NEW CONSTANT u, NEW CONSTANT last, Healing(u, last),
         UNCHANGED <<read_buffer, commands_pending, owner, frame, wire, out, latest, lighting,
                     strobed>>
  PROVE  Healing(u, last)'
  <1>1. \A k : Own(k)' = Own(k)
    BY DEF Own, Slot
  <1>2. Reaches(u)' /\ Reaches(last)'
    BY <1>1 DEF Healing, Reaches
  <1> QED BY <1>1, <1>2 DEF Healing, lighting

LEMMA SendHealing ==
  ASSUME IInv, BusTypeOK, NEW CONSTANT u \in Nat, NEW CONSTANT last \in Nat, Healing(u, last), Send
  PROVE  Healing(u, last)'
  <1>1. /\ UNCHANGED <<vars, lighting, owner, latest, strobed>>
        /\ wire = <<>> /\ out # <<>> /\ out' = Tail(out)
        /\ frame' = [number |-> frame.number + 1, address |-> Head(out).address,
                     command |-> Head(out).command]
        /\ frame.number \in Nat
    BY OwnType DEF Send
  <1>2. wire' # <<>>
    <2> DEFINE payload == <<frame'.address>> \o frame'.command
    <2>1. /\ BusTypeOK' /\ wire' = Framed(payload)
      BY SendType
    <2>2. payload \in Seq(Byte) /\ 0 \in 0 .. Len(payload)
      BY <2>1, PayloadType DEF BusTypeOK, Frame
    <2> HIDE DEF payload
    <2>3. /\ wire' = <<START_MARK>> \o Unsent(payload)[0]
          /\ Unsent(payload)[0] \in Seq(Plain)
      BY <2>1, <2>2, UnsentProperties DEF IsUnsent
    <2> DEFINE rest == Unsent(payload)[0]
    <2>4. rest \in Seq(Byte) /\ START_MARK \in Byte
      BY <2>3, ByteAssumption DEF Plain
    <2> HIDE DEF rest
    <2> QED BY <2>3, <2>4, ConsProperties DEF rest
  <1>3. \A k : Own(k)' = Own(k)
    BY <1>1 DEF Own, Slot, vars, mainVars
  <1>4. /\ Len(out) \in Nat \ {0} /\ Len(out') = Len(out) - 1
        /\ \A i \in 1 .. Len(out) - 1 : out'[i] = out[i + 1]
        /\ Head(out) = out[1]
    BY <1>1, HeadTailProperties DEF BusTypeOK
  <1>5. frame'.number = frame.number + 1 /\ last = frame'.number + Len(out')
    BY <1>1, <1>4 DEF Healing
  <1>6. commands_pending' = commands_pending /\ latest' = latest
    BY <1>1 DEF vars
  <1>7. ASSUME NEW CONSTANT n \in Nat, Reaches(n) PROVE Reaches(n)'
    <2>1. n > frame.number => n > frame'.number \/ n = frame'.number
      BY <1>1, <1>5
    <2> QED BY <1>1, <1>2, <1>3, <1>6, <1>7, <2>1 DEF Reaches
  <1>8. AsSent(strobed[my_address], u, last, frame.number, frame.address, frame.command)'
    <2>1. 1 \in 1 .. Len(out) /\ frame'.address = out[1].address /\ frame'.command = out[1].command
      BY <1>1, <1>4
    <2>2. AsSent(strobed[my_address], u, last, frame'.number, frame'.address, frame'.command)
      BY <1>5, <2>1 DEF Healing
    <2> QED BY <1>1, <2>2
  <1>9. ASSUME NEW CONSTANT i \in 1 .. Len(out')
         PROVE  AsSent(strobed[my_address], u, last, frame.number + i, out[i].address,
                       out[i].command)'
    <2>1. /\ i + 1 \in 1 .. Len(out) /\ out'[i] = out[i + 1]
          /\ frame.number + (i + 1) = frame'.number + i
      BY <1>1, <1>4, <1>5
    <2>2. AsSent(strobed[my_address], u, last, frame'.number + i, out'[i].address, out'[i].command)
      BY <2>1 DEF Healing
    <2> QED BY <1>1, <2>2
  <1>10. \A k \in 0 .. commands_pending' - 1 :
           Own(k)'.number > latest' =>
             AsSent(strobed[my_address], u, last, Own(k).number, Own(k).address, Own(k).command)'
    BY <1>1, <1>3, <1>6 DEF Healing
  <1>11. Reaches(u)' /\ Reaches(last)'
    BY <1>7 DEF Healing
  <1>12. /\ latest' >= u => lamps' = strobed'[my_address]
         /\ latest' >= last => shown' = strobed'[my_address]
    BY <1>1 DEF Healing, lighting
  <1>13. u < last
    BY DEF Healing
  <1> QED BY <1>5, <1>8, <1>9, <1>10, <1>11, <1>12, <1>13 DEF Healing

(* A byte of a frame that is for the board does not make it go away, unless its
   command is stored. *)
LEMMA CarryHealing ==
  ASSUME IInv, BusTypeOK, NEW CONSTANT u \in Nat, NEW CONSTANT last \in Nat, Healing(u, last),
         Carry, commands_pending' = commands_pending,
         wire' = <<>> => ~address_filter(frame.address)
  PROVE  Healing(u, last)'
  <1>1. /\ UNCHANGED <<read_buffer, owner, frame, out, latest, lamps, shown, strobed>>
        /\ wire # <<>>
    BY CarryOwner DEF Carry, ReceiveByte, mainVars, lighting
  <1>2. \A k : Own(k)' = Own(k)
    BY <1>1 DEF Own, Slot
  <1>3. AsSent(strobed[my_address], u, last, frame.number, frame.address, frame.command)
    BY <1>1 DEF Healing
  <1>4. frame.number \in {u, last} => wire' # <<>>
    BY <1>3 DEF AsSent, address_filter
  <1>5. ASSUME NEW CONSTANT n \in {u, last}, Reaches(n) PROVE Reaches(n)'
    BY <1>1, <1>2, <1>4, <1>5 DEF Reaches
  <1>6. Reaches(u)' /\ Reaches(last)'
    BY <1>5 DEF Healing
  <1> QED BY <1>1, <1>2, <1>6 DEF Healing

LEMMA StoredHealing ==
  ASSUME IInv, BusTypeOK, Ownership, NEW CONSTANT u \in Nat, NEW CONSTANT last \in Nat,
         Healing(u, last), Carry, CommandStored, wire' = <<>>
  PROVE  Healing(u, last)'
  <1>1. PICK p : p = commands_pending
    OBVIOUS
  <1>2. /\ \A k \in 0 .. p - 1 : Own(k)' = Own(k)
        /\ Own(p)' = frame /\ commands_pending' = p + 1
        /\ wire # <<>> /\ UNCHANGED <<mainVars, frame, latest, strobed, out>>
    BY <1>1, StoredOwnership
  <1>3. UNCHANGED <<lamps, shown>>
    BY DEF Carry, lighting
  <1>4. p \in Nat /\ \A k \in 0 .. p : k \in 0 .. p - 1 \/ k = p
    BY <1>1, LengthAssumption DEF IInv, TypeOK
  <1>5. p \in 0 .. commands_pending' - 1 /\ \A k \in 0 .. p - 1 : k \in 0 .. commands_pending' - 1
    BY <1>2, <1>4
  <1>6. ASSUME NEW CONSTANT n \in Nat, Reaches(n) PROVE Reaches(n)'
    BY <1>1, <1>2, <1>5, <1>6 DEF Reaches
  <1>7. Reaches(u)' /\ Reaches(last)'
    BY <1>6 DEF Healing
  <1>8. ASSUME NEW CONSTANT k \in 0 .. commands_pending' - 1, Own(k)'.number > latest'
        PROVE  AsSent(strobed[my_address], u, last, Own(k).number, Own(k).address, Own(k).command)'
    <2>1. k \in 0 .. p
      BY <1>2, <1>4
    <2>2. CASE k \in 0 .. p - 1
      BY <1>1, <1>2, <1>8, <2>2 DEF Healing
    <2>3. CASE k = p
      BY <1>2, <2>3 DEF Healing
    <2> QED BY <1>4, <2>1, <2>2, <2>3
  <1> QED BY <1>2, <1>3, <1>7, <1>8 DEF Healing

LEMMA FreedHealing ==
  ASSUME IInv, BusTypeOK, Ownership, NEW CONSTANT u \in Nat, NEW CONSTANT last \in Nat,
         Healing(u, last), Board, main = "free", is_reading
  PROVE  Healing(u, last)'
  <1>1. PICK p : p = commands_pending
    OBVIOUS
  <1>2. /\ commands_pending' = p - 1 /\ p \in Nat
        /\ \A k \in 0 .. p - 2 : Own(k)' = Own(k + 1)
        /\ latest = Own(0).number
        /\ UNCHANGED <<frame, wire, out, latest, lighting, strobed>>
    BY <1>1, FreedOwnership
  <1>3. ASSUME NEW CONSTANT n \in Nat, Reaches(n) PROVE Reaches(n)'
    <2> SUFFICES ASSUME n > latest,
                        NEW CONSTANT k \in 0 .. p - 1, Own(k).number = n
                 PROVE  \E j \in 0 .. p - 2 : Own(j)'.number = n
      BY <1>1, <1>2, <1>3 DEF Reaches
    <2>1. k # 0
      BY <1>2, OwnType
    <2>2. k - 1 \in 0 .. p - 2 /\ (k - 1) + 1 = k
      BY <1>2, <2>1
    <2> QED BY <1>2, <2>2
  <1>4. Reaches(u)' /\ Reaches(last)'
    BY <1>3 DEF Healing
  <1>5. ASSUME NEW CONSTANT k \in 0 .. commands_pending' - 1, Own(k)'.number > latest'
        PROVE  AsSent(strobed[my_address], u, last, Own(k).number, Own(k).address, Own(k).command)'
    <2>1. k \in 0 .. p - 2 /\ k + 1 \in 0 .. commands_pending - 1
      BY <1>1, <1>2
    <2>2. Own(k)' = Own(k + 1) /\ Own(k + 1).number > latest
      BY <1>2, <1>5, <2>1
    <2>3. AsSent(strobed[my_address], u, last, Own(k + 1).number, Own(k + 1).address,
                 Own(k + 1).command)
      BY <2>1, <2>2 DEF Healing
    <2> QED BY <1>2, <2>2, <2>3
  <1> QED BY <1>2, <1>4, <1>5 DEF Healing, lighting

(* run_set_raw stores the brightnesses that were sent, run_strobe shows those
   that are stored. *)
LEMMA LightUpdate ==
  ASSUME BusTypeOK, NEW values \in Values(my_address),
         Light(UpdateOf(my_address, values).command)
  PROVE  lamps' = values /\ shown' = shown
  <1> DEFINE n   == channelCounts[my_address]
             cmd == UpdateOf(my_address, values).command
  <1>1. n \in Nat /\ values \in [1 .. n -> Brightness] /\ DOMAIN lamps = 1 .. n
    BY BusAssumption DEF Values, BusTypeOK
  <1>2. IsUpdate(cmd, n, values)
    BY <1>1, UpdateProperties
  <1> HIDE DEF n, cmd
  <1>3. /\ lamps' = IF cmd[1] = CMD_SET_RAW
                    THEN [p \in DOMAIN lamps |-> 256 * cmd[2 * p] + cmd[2 * p + 1]]
                    ELSE lamps
        /\ shown' = IF cmd[1] = CMD_STROBE THEN lamps ELSE shown
    BY DEF Light, cmd
  <1>4. cmd[1] = CMD_SET_RAW /\ CMD_SET_RAW # CMD_STROBE
    BY <1>2 DEF IsUpdate, CMD_SET_RAW, CMD_STROBE
  <1>5. \A p \in 1 .. n : 256 * cmd[2 * p] + cmd[2 * p + 1] = values[p]
    BY <1>1, <1>2, BytesOfBrightness DEF IsUpdate
  <1>6. lamps' = [p \in 1 .. n |-> values[p]]
    BY <1>1, <1>3, <1>4, <1>5
  <1> QED BY <1>1, <1>3, <1>4, <1>6

LEMMA LightStrobe ==
  ASSUME Light(<<CMD_STROBE>>)
  PROVE  lamps' = lamps /\ shown' = lamps
  BY DEF Light, CMD_SET_RAW, CMD_STROBE

(* The strobe comes after the update. *)
LEMMA RunHealing ==
  ASSUME IInv, BusTypeOK, Ownership, NEW CONSTANT u \in Nat, NEW CONSTANT last \in Nat,
         Healing(u, last), my_address \in DOMAIN strobed, Board, main = "run"
  PROVE  Healing(u, last)'
  <1> DEFINE values == strobed[my_address]
             m      == Own(0).number
  <1>1. /\ commands_pending > 0
        /\ latest < m /\ latest' = m
        /\ Light(Own(0).command)
        /\ UNCHANGED <<read_buffer, commands_pending, owner, frame, wire, out, strobed>>
    BY RunOwnership
  <1>2. \A k : Own(k)' = Own(k)
    BY <1>1 DEF Own, Slot
  <1>3. 0 \in 0 .. commands_pending - 1 /\ m \in Nat /\ frame.number \in Nat /\ latest \in Nat
    <2>1. 0 \in 0 .. commands_pending - 1
      BY <1>1 DEF IInv, TypeOK
    <2> QED BY <2>1, OwnType
  <1>4. address_filter(Own(0).address) /\ m <= frame.number
    BY <1>3 DEF Ownership, Owned
  <1>5. AsSent(values, u, last, m, Own(0).address, Own(0).command)
    BY <1>1, <1>3 DEF Healing
  <1>6. u < last /\ (m < u \/ m = u \/ m = last)
    BY <1>3, <1>4, <1>5 DEF AsSent, Healing
  <1>7. values \in Values(my_address)
    BY DEF BusTypeOK, IsStates
  <1>8. m = last => latest >= u
    <2> SUFFICES ASSUME m = last, ~(latest >= u) PROVE FALSE
      OBVIOUS
    <2>1. u > latest /\ u < frame.number
      BY <1>3, <1>4, <1>6
    <2>2. PICK k \in 0 .. commands_pending - 1 : Own(k).number = u
      BY <1>3, <2>1 DEF Healing, Reaches
    <2>3. InOrder(0, k)
      BY <1>3 DEF Ownership
    <2>4. k = 0 \/ 0 < k
      BY <1>3
    <2> QED BY <1>3, <1>6, <2>2, <2>3, <2>4 DEF InOrder
  <1>9. /\ latest' >= u => lamps' = values
        /\ latest' >= last => shown' = values
    <2>1. CASE m < u
      <3>1. ~(latest' >= u) /\ ~(latest' >= last)
        BY <1>1, <1>3, <1>6, <2>1
      <3> QED BY <3>1
    <2>2. CASE m = u
      <3>1. lamps' = values
        BY <1>1, <1>5, <1>7, <2>2, LightUpdate DEF AsSent
      <3>2. ~(latest' >= last)
        BY <1>1, <1>6, <2>2
      <3> QED BY <3>1, <3>2
    <2>3. CASE m = last
      <3>1. lamps = values
        BY <1>8, <2>3 DEF Healing
      <3>2. lamps' = lamps /\ shown' = lamps
        BY <1>1, <1>5, <2>3, LightStrobe DEF AsSent
      <3> QED BY <3>1, <3>2
    <2> QED BY <1>6, <2>1, <2>2, <2>3
  <1> HIDE DEF m
  <1>10. ASSUME NEW CONSTANT n \in Nat, Reaches(n) PROVE Reaches(n)'
    <2>1. n > latest' => n > latest
      BY <1>1, <1>3
    <2> QED BY <1>1, <1>2, <1>10, <2>1 DEF Reaches
  <1>11. Reaches(u)' /\ Reaches(last)'
    BY <1>10 DEF Healing
  <1>12. ASSUME NEW CONSTANT k \in 0 .. commands_pending - 1, Own(k)'.number > latest'
         PROVE  AsSent(values, u, last, Own(k).number, Own(k).address, Own(k).command)'
    <2>1. Own(k).number > latest
      BY <1>1, <1>2, <1>3, <1>12, OwnType
    <2> QED BY <1>1, <1>2, <2>1 DEF Healing
  <1> QED BY <1>1, <1>9, <1>11, <1>12 DEF Healing

(* A strobe begins with an update of every module that has been set. *)
LEMMA StrobeHealing ==
  ASSUME IInv, BusTypeOK, Ownership, Strobe, my_address \in DOMAIN moduleLedStates
  PROVE  \E u, last \in Nat : Healing(u, last)'
  <1> DEFINE st == moduleLedStates
  <1>1. /\ UNCHANGED <<vars, wire, lighting, frame, owner, latest>>
        /\ wire = <<>> /\ strobed' = st
    BY DEF Strobe
  <1>2. PICK updates \in Updates : out' = Append(updates, StrobeAll)
    BY DEF Strobe
  <1>3. PICK modules \in SetToSeqs(DOMAIN st) : updates = UpdatesInOrder(modules)
    BY <1>2 DEF Updates
  <1>4. /\ modules \in Seq(Module)
        /\ \A i \in 1 .. Len(modules) : modules[i] \in DOMAIN st
        /\ \A i, j \in 1 .. Len(modules) : modules[i] = modules[j] => i = j
        /\ \A module \in DOMAIN st : \E i \in 1 .. Len(modules) : modules[i] = module
    BY UpdatesProperties DEF BusTypeOK
  <1>5. PICK j \in 1 .. Len(modules) : modules[j] = my_address
    BY <1>4
  <1>6. PICK n \in Nat : n = Len(modules)
    BY <1>4
  <1>7. PICK first \in Nat : first = frame.number
    BY OwnType
  <1> DEFINE u    == first + j
             last == first + (n + 1)
             item(i) == UpdateOf(modules[i], st[modules[i]])
  <1>8. /\ u \in Nat /\ last \in Nat /\ u < last /\ u > first /\ last > first
        /\ j \in 1 .. n
    BY <1>4, <1>5, <1>6
  <1>9. /\ updates \in Seq(Item) /\ Len(updates) = n
        /\ \A i \in 1 .. n : updates[i] = item(i)
    <2>1. \A i \in 1 .. n : item(i) \in Item
      BY <1>4, <1>6, UpdateItem DEF BusTypeOK, IsStates
    <2>2. updates = [i \in 1 .. n |-> item(i)]
      BY <1>3, <1>4, <1>6 DEF UpdatesInOrder
    <2> HIDE DEF item
    <2> QED BY <2>1, <2>2
  <1>10. /\ Len(out') = n + 1
         /\ \A i \in 1 .. n : out'[i] = item(i)
         /\ out'[n + 1] = StrobeAll
    <2> HIDE DEF item
    <2> QED BY <1>2, <1>9, StrobeItem
  <1>11. \A module, values : UpdateOf(module, values).address = module
    BY DEF UpdateOf
  <1>12. Own(0)' = Own(0) /\ \A k : Own(k)' = Own(k)
    BY <1>1 DEF Own, Slot, vars, mainVars
  <1>13. ASSUME NEW CONSTANT i \in 1 .. n + 1
         PROVE  AsSent(strobed[my_address], u, last, frame.number + i, out[i].address,
                       out[i].command)'
    <2>1. CASE i = n + 1
      <3>1. first + i = last /\ last # u
        BY <1>8, <2>1
      <3> QED BY <1>1, <1>7, <1>8, <1>10, <2>1, <3>1 DEF AsSent, StrobeAll
    <2>2. CASE i = j
      <3>1. first + i = u /\ first + i # last /\ ~(first + i > u) /\ i \in 1 .. n
        BY <1>8, <2>2
      <3>2. out'[i] = UpdateOf(my_address, st[my_address]) /\ out'[i].address = my_address
        BY <1>5, <1>10, <1>11, <2>2, <3>1
      <3> QED BY <1>1, <1>7, <3>1, <3>2 DEF AsSent
    <2>3. CASE i # n + 1 /\ i # j
      <3>1. first + i # u /\ first + i # last /\ i \in 1 .. n
        BY <1>6, <1>8, <2>3
      <3>2. out'[i].address = modules[i]
        BY <1>10, <1>11, <3>1
      <3>3. modules[i] # my_address /\ modules[i] # BROADCAST
        <4>1. i \in 1 .. Len(modules) /\ modules[i] \in Module
          BY <1>4, <1>6, <3>1
        <4>2. modules[i] # modules[j]
          BY <1>4, <1>5, <2>3, <4>1
        <4>3. BROADCAST \notin Module
          BY BusAssumption
        <4> QED BY <1>5, <4>1, <4>2, <4>3
      <3>4. ~address_filter(out'[i].address)
        BY <3>2, <3>3 DEF address_filter
      <3> QED BY <1>1, <1>7, <3>1, <3>4 DEF AsSent
    <2> QED BY <2>1, <2>2, <2>3
  <1>14. latest <= first /\ \A k \in 0 .. commands_pending - 1 : Own(k).number <= first
    BY <1>7 DEF Ownership, Owned
  <1>15. ASSUME NEW CONSTANT k \in 0 .. commands_pending - 1
         PROVE  AsSent(strobed[my_address], u, last, Own(k).number, Own(k).address,
                       Own(k).command)'
    <2> DEFINE m == Own(k).number
    <2>1. m \in Nat /\ m <= first
      BY <1>14, OwnType
    <2>2. m # u /\ m # last /\ ~(m > u)
      BY <1>8, <2>1
    <2> QED BY <1>1, <1>12, <2>2 DEF AsSent
  <1> HIDE DEF u, last
  <1>16. commands_pending' = commands_pending /\ latest' = latest
    BY <1>1 DEF vars
  <1>17. Reaches(u)' /\ Reaches(last)'
    BY <1>1, <1>7, <1>8 DEF Reaches
  <1>18. ~(latest >= u) /\ ~(latest >= last)
    BY <1>8, <1>14, OwnType
  <1>19. last = frame'.number + Len(out')
    BY <1>1, <1>7, <1>10 DEF last
  <1>20. Healing(u, last)'
    <2>1. wire' = <<>> /\ u < last
      BY <1>1, <1>8
    <2> QED BY <1>10, <1>13, <1>15, <1>16, <1>17, <1>18, <1>19, <2>1 DEF Healing
  <1> QED BY <1>8, <1>20

LEMMA InitArrival == BusInit => Arrival
  BY DEF BusInit, Arrival

LEMMA ArrivalStep ==
  ASSUME IInv, BusTypeOK, Tracking, Ownership, Arrival, [BusNext]_<<vars, busVars>>
  PROVE  Arrival'
  <1>1. CASE Abandon \/ Damage
    BY <1>1 DEF Abandon, Damage, Arrival
  <1>2. CASE Set \/ UNCHANGED <<vars, busVars>>
    <2>1. UNCHANGED <<read_buffer, commands_pending, owner, frame, wire, out, latest, lighting,
                      strobed, arrived, condition, isr_escape>>
      BY <1>2 DEF Set, vars, mainVars, isrVars, busVars
    <2>2. \A u, last \in Nat : Healing(u, last) => Healing(u, last)'
      BY <2>1, HealingKept
    <2> QED BY <2>1, <2>2 DEF Arrival
  <1>3. CASE Strobe
    <2>1. wire' = <<>> /\ arrived' = ~isr_escape /\ isr_escape' = isr_escape
          /\ strobed' = moduleLedStates
      BY <1>3 DEF Strobe, vars, isrVars
    <2>2. my_address \in DOMAIN strobed' => \E u, last \in Nat : Healing(u, last)'
      BY <1>3, <2>1, StrobeHealing
    <2> QED BY <2>1, <2>2 DEF Arrival
  <1>4. CASE Send
    <2>1. wire = <<>> /\ arrived' = arrived /\ strobed' = strobed
          /\ condition' = (IF isr_escape THEN "damaged" ELSE "whole")
          /\ isr_escape' = isr_escape
      BY <1>4 DEF Send, vars, isrVars
    <2>2. \A u, last \in Nat : Healing(u, last) => Healing(u, last)'
      BY <1>4, SendHealing
    <2> QED BY <2>1, <2>2 DEF Arrival
  <1>5. CASE Carry
    <2>1. /\ wire # <<>> /\ strobed' = strobed
          /\ condition' \in {condition, "dropped"}
          /\ condition' = "dropped" /\ condition # "dropped" => ~arrived'
          /\ arrived' => arrived
      BY <1>5 DEF Carry
    <2>2. arrived' => condition = "whole" /\ condition' = "whole"
      BY <2>1 DEF Arrival
    <2>3. CarryOutcome
      BY <1>5, CarryCases
    <2>4. ASSUME NEW CONSTANT u \in Nat, NEW CONSTANT last \in Nat, Healing(u, last), arrived'
          PROVE  Healing(u, last)'
      <3>1. CASE CommandStored /\ wire' = <<>>
        BY <1>5, <2>4, <3>1, StoredHealing
      <3>2. CASE /\ commands_pending' = commands_pending
                 /\ condition' = "whole" /\ wire' = <<>> => ~address_filter(frame.address)
        BY <1>5, <2>2, <2>4, <3>2, CarryHealing
      <3> QED BY <2>3, <3>1, <3>2 DEF CarryOutcome
    <2>5. arrived' /\ wire' = <<>> => ~isr_escape'
      BY <2>2, <2>3 DEF CarryOutcome
    <2> QED BY <2>1, <2>2, <2>4, <2>5 DEF Arrival
  <1>6. CASE Board
    <2>1. UNCHANGED <<wire, strobed, arrived, condition, isr_escape>>
      BY <1>6 DEF Board, MainLoop, isrVars
    <2>2. ASSUME NEW CONSTANT u \in Nat, NEW CONSTANT last \in Nat, Healing(u, last),
                 my_address \in DOMAIN strobed
          PROVE  Healing(u, last)'
      <3>1. CASE main = "free" /\ is_reading
        BY <1>6, <2>2, <3>1, FreedHealing
      <3>2. CASE main = "run"
        BY <1>6, <2>2, <3>2, RunHealing
      <3>3. CASE main # "run" /\ ~(main = "free" /\ is_reading)
        BY <1>6, <2>2, <3>3, PollOwnership, HealingKept
      <3> QED BY <3>1, <3>2, <3>3
    <2> QED BY <2>1, <2>2 DEF Arrival
  <1> QED BY <1>1, <1>2, <1>3, <1>4, <1>5, <1>6 DEF BusNext

-----------------------------------------------------------------------------
(* The inductive invariant, and what follows from it *)

BusIInv == IInv /\ BusTypeOK /\ Tracking /\ Ownership /\ Arrival

LEMMA BusInvariance == BusSpec => []BusIInv
  <1>1. BusInit => BusIInv
    BY InitIInv, InitBusType, InitTracking, InitOwnership, InitArrival DEF BusInit, BusIInv
  <1>2. ASSUME BusIInv, [BusNext]_<<vars, busVars>> PROVE BusIInv'
    <2>1. IInv'
      <3>1. [Next]_vars
        BY <1>2, BoardStep DEF BusIInv
      <3>2. UNCHANGED vars => IInv'
        BY <1>2 DEF BusIInv, IInv, TypeOK, RingConsistent, OnTrack, Slot, TotalLength,
                    vars, mainVars, isrVars, writeVars
      <3> QED BY <1>2, <3>1, <3>2, MainLoopIInv, InterruptIInv DEF BusIInv, Next
    <2> QED
      BY <1>2, <2>1, BusTypeStep, TrackingStep, OwnershipStep, ArrivalStep DEF BusIInv
  <1> QED BY <1>1, <1>2, PTL DEF BusSpec

(* The board at the end of the line does nothing that Usart2 does not allow. *)
THEOREM BusDrivesReceiver == BusSpec => Spec
  <1>1. BusInit => Init
    BY DEF BusInit
  <1>2. BusIInv /\ [BusNext]_<<vars, busVars>> => [Next]_vars
    BY BoardStep DEF BusIInv
  <1> QED BY <1>1, <1>2, BusInvariance, PTL DEF BusSpec, Spec

(* Every command in the board's ring is, whole and unchanged, one that the daemon
   has sent to it; they are run in the order in which they were sent, and none
   of them twice. *)
THEOREM SentCommands == BusSpec => []OnlySentCommands
  <1>1. BusIInv => OnlySentCommands
    <2> SUFFICES ASSUME BusIInv PROVE OnlySentCommands
      OBVIOUS
    <2>1. Ownership /\ IInv
      BY DEF BusIInv
    <2>2. \A b \in Pending : /\ CommandIn(isr_buffers[b]) = owner[b].command
                             /\ address_filter(owner[b].address)
      BY <2>1 DEF Pending, Ownership, Owned, Own
    <2>3. ASSUME NEW k \in 1 .. commands_pending - 1
          PROVE  owner[Slot(k - 1)].number < owner[Slot(k)].number
      <3>1. /\ k - 1 \in 0 .. commands_pending - 1 /\ k \in 0 .. commands_pending - 1
            /\ k - 1 < k
        BY <2>1 DEF IInv, TypeOK
      <3>2. InOrder(k - 1, k)
        BY <2>1, <3>1 DEF Ownership
      <3> QED BY <3>1, <3>2 DEF InOrder, Own
    <2>4. Own(0) = owner[read_buffer]
      BY <2>1, SlotProperties DEF Own
    <2> QED BY <2>1, <2>2, <2>3, <2>4 DEF Ownership, LatestBefore, OnlySentCommands
  <1> QED BY <1>1, BusInvariance, PTL

(* A frame for the board that goes over the line whole ends up in its ring. *)
THEOREM WholeFramesStored == BusSpec => WholeFrameStored
  <1>1. BusIInv /\ [BusNext]_<<vars, busVars>> =>
          [/\ Len(wire) = 1 /\ wire' = <<>>
           /\ condition' = "whole"
           /\ address_filter(frame.address)
           => owner'[isr_write_buffer] = frame]_<<vars, busVars>>
    BY WholeFrameStep DEF BusIInv
  <1> QED BY <1>1, BusInvariance, PTL DEF BusSpec, WholeFrameStored

(* Whatever was lost before, a strobe that arrives makes the board show the
   colours that the daemon held at that strobe. *)
THEOREM StrobeHeals == BusSpec => []OneStrobeHeals
  <1>1. BusIInv => OneStrobeHeals
    <2> SUFFICES ASSUME BusIInv, arrived, out = <<>>, wire = <<>>, commands_pending = 0,
                        my_address \in DOMAIN strobed
                 PROVE  shown = strobed[my_address]
      BY DEF OneStrobeHeals
    <2>1. PICK u \in Nat, last \in Nat : Healing(u, last)
      BY DEF BusIInv, Arrival
    <2>2. last = frame.number
      BY <2>1 DEF Healing, BusIInv, BusTypeOK, Frame
    <2>3. ~(last > latest)
      BY <2>1, <2>2 DEF Healing, Reaches, BusIInv, BusTypeOK, Frame
    <2> QED BY <2>1, <2>3 DEF Healing, BusIInv, BusTypeOK
  <1> QED BY <1>1, BusInvariance, PTL

=============================================================================
