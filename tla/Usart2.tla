------------------------------- MODULE Usart2 -------------------------------
(***************************************************************************)
(* The RS485 side of an LED board: the interrupt handler of USART2, which  *)
(* decodes the byte stream of the bus and stores the commands addressed to *)
(* the board in a ring of command buffers, and the main loop, which takes  *)
(* the commands out of the ring and runs them (usart2.c, with the address  *)
(* and length rules of command.c, the failure record of fail.c and the     *)
(* main loop of main.c).                                                   *)
(*                                                                         *)
(* The handler runs to completion between any two steps of the main loop;  *)
(* the main loop's steps are the pieces of usart2_next_command between     *)
(* which an interrupt can be taken.  A variable of the code keeps its      *)
(* name.  main is the main loop's program counter and halted says that     *)
(* error() was called with EA_PANIC, which stops the board for good.       *)
(***************************************************************************)
EXTENDS Integers, Fail

CONSTANTS
  Byte,                 (* the byte values the bus may carry                 *)
  my_address,           (* config.my_address                                 *)
  USART_BUFFER_COUNT,   (* command buffers in the ring: 4                    *)
  CMD_BUFFER_LEN,       (* bytes in a command buffer: 36                     *)
  SET_RAW_LENGTH,       (* bytes of a SET_RAW command with its code: 33      *)
  SET_XYY_LENGTH,       (* bytes of a SET_XYY command with its code: 31      *)
  USART_FAIL_TRESHOLD   (* failures on record that make the board panic: 20  *)

ESCAPE_MARK == 84   \* 0x54
START_MARK  == 85   \* 0x55
BROADCAST   == 255  \* 0xff
CMD_SET_RAW == 0
CMD_SET_XYY == 1
CMD_STROBE  == 255  \* 0xff

(* The two marks are data bytes like all others once they are escaped. *)
ASSUME ByteAssumption ==
  Byte \subseteq 0 .. 255 /\ {0, ESCAPE_MARK, START_MARK} \subseteq Byte

ASSUME LengthAssumption ==
  /\ USART_BUFFER_COUNT \in Nat \ {0}
  /\ CMD_BUFFER_LEN \in Nat \ {0}
  /\ SET_RAW_LENGTH \in 1 .. CMD_BUFFER_LEN
  /\ SET_XYY_LENGTH \in 1 .. CMD_BUFFER_LEN
  /\ USART_FAIL_TRESHOLD \in Nat \ {0}

VARIABLES
  (* shared between the handler and the main loop *)
  commands_pending, command_overflow, isr_buffers,
  (* the main loop's *)
  main, read_buffer, is_reading,
  (* the handler's *)
  isr_state, isr_escape, isr_write_buffer, isr_write_idx,
  isr_bytes_remaining, isr_usart_fails,
  (* the board's *)
  halted

mainVars  == <<main, read_buffer, is_reading>>
writeVars == <<isr_buffers, isr_write_buffer, isr_write_idx,
               isr_bytes_remaining>>
isrVars   == <<isr_state, isr_escape, isr_usart_fails, writeVars>>
vars == <<commands_pending, command_overflow, halted,
          mainVars, isrVars>>

Buffer == 0 .. USART_BUFFER_COUNT - 1
Index  == 0 .. CMD_BUFFER_LEN - 1

TypeOK ==
  /\ commands_pending \in 0 .. USART_BUFFER_COUNT
  /\ command_overflow \in BOOLEAN
  /\ isr_buffers \in [Buffer -> [Index -> Byte]]
  /\ main \in {"free", "overflow", "reset", "poll", "run"}
  /\ read_buffer \in Buffer
  /\ is_reading \in BOOLEAN
  /\ isr_state \in {"IDLE", "GOT_START", "READING"}
  /\ isr_escape \in BOOLEAN
  /\ isr_write_buffer \in Buffer
  /\ isr_write_idx \in 0 .. CMD_BUFFER_LEN
  /\ isr_bytes_remaining \in -1 .. CMD_BUFFER_LEN
  /\ isr_usart_fails \in Record
  /\ halted \in BOOLEAN

Init ==
  /\ commands_pending = 0
  /\ command_overflow = FALSE
  /\ isr_buffers = [b \in Buffer |-> [i \in Index |-> 0]]
  /\ main = "free"
  /\ read_buffer = 0
  /\ is_reading = FALSE
  /\ isr_state = "IDLE"
  /\ isr_escape = FALSE
  /\ isr_write_buffer = 0
  /\ isr_write_idx = 0
  /\ isr_bytes_remaining = 0
  /\ isr_usart_fails = NoFailures
  /\ halted = FALSE

(* The next buffer of the ring *)
Advance(b) == IF b = USART_BUFFER_COUNT - 1 THEN 0 ELSE b + 1

address_filter(address) == address \in {my_address, BROADCAST}

(* Bytes of a command with this code; 0 for a code no command has. *)
TotalLength(code) ==
  IF code = CMD_SET_RAW THEN SET_RAW_LENGTH
  ELSE IF code = CMD_SET_XYY THEN SET_XYY_LENGTH
  ELSE IF code = CMD_STROBE THEN 1
  ELSE 0

(* Mutant: the command code is not counted. *)
LengthWithoutCode(buffer, length_so_far) ==
  IF length_so_far = 0 THEN 1
  ELSE TotalLength(buffer[0]) - 1 - length_so_far

(* How many more bytes the command in buffer needs.  0 or less: none, the
   command (or an unknown command code) is complete. *)
length_check(buffer, length_so_far) ==
  IF length_so_far = 0 THEN 1
  ELSE TotalLength(buffer[0]) - length_so_far

-----------------------------------------------------------------------------
(* The interrupt handler *)

(* Mutant: reception goes on after an error. *)
ReadErrorGoesOn(record) ==
  /\ isr_usart_fails' = FailEvent(record, TRUE)
  /\ halted' = TooManyFailures(isr_usart_fails', USART_FAIL_TRESHOLD)
  /\ UNCHANGED <<isr_buffers, isr_write_buffer, isr_write_idx, isr_state,
                 isr_bytes_remaining, commands_pending, command_overflow>>

(* Drops the command being received and records a failure.  record is the
   failure record at the call: a bad escape sequence has already recorded the
   byte as a success.  isr_escape stays what it is. *)
isr_read_error(record) ==
  /\ isr_write_idx' = 0
  /\ isr_state' = "IDLE"
  /\ isr_usart_fails' = FailEvent(record, TRUE)
  /\ halted' = TooManyFailures(isr_usart_fails', USART_FAIL_TRESHOLD)
  /\ UNCHANGED <<isr_buffers, isr_write_buffer, isr_bytes_remaining,
                 commands_pending, command_overflow>>

(* A byte with an overrun, noise, framing or parity error *)
LineError ==
  /\ ~halted
  /\ isr_read_error(isr_usart_fails)
  /\ UNCHANGED <<isr_escape, mainVars>>

BadEscape(in_byte) ==
  /\ isr_escape
  /\ in_byte \notin {0, 1}
  /\ isr_escape' = FALSE
  /\ isr_read_error(FailEvent(isr_usart_fails, FALSE))

EscapeMark(in_byte) ==
  /\ ~isr_escape
  /\ in_byte = ESCAPE_MARK
  /\ isr_escape' = TRUE
  /\ UNCHANGED <<isr_state, writeVars, commands_pending, command_overflow>>

StartMark(in_byte) ==
  /\ ~isr_escape
  /\ in_byte = START_MARK
  /\ isr_state' = "GOT_START"
  /\ UNCHANGED <<isr_escape, writeVars, commands_pending, command_overflow>>

(* The data byte that in_byte stands for, alone or after ESCAPE_MARK *)
IsData(in_byte) ==
  IF isr_escape THEN in_byte \in {0, 1}
  ELSE in_byte \notin {ESCAPE_MARK, START_MARK}

Decoded(in_byte) ==
  IF ~isr_escape THEN in_byte
  ELSE IF in_byte = 0 THEN ESCAPE_MARK ELSE START_MARK

(* A data byte between commands *)
IgnoreData ==
  /\ isr_state = "IDLE"
  /\ UNCHANGED <<isr_state, writeVars, commands_pending, command_overflow>>

(* The destination address: not this board's *)
RejectAddress(address) ==
  /\ isr_state = "GOT_START"
  /\ ~address_filter(address)
  /\ isr_state' = "IDLE"
  /\ UNCHANGED <<writeVars, commands_pending, command_overflow>>

(* Mutant: the ring takes one command too many. *)
RingOverfull == commands_pending > USART_BUFFER_COUNT

(* The ring is full. *)
RingFull == commands_pending >= USART_BUFFER_COUNT

(* The destination address is this board's, but no buffer is free. *)
DropCommand(address) ==
  /\ isr_state = "GOT_START"
  /\ address_filter(address)
  /\ RingFull
  /\ command_overflow' = TRUE
  /\ isr_state' = "IDLE"
  /\ UNCHANGED <<writeVars, commands_pending>>

(* Mutant: the write index of an aborted command is kept. *)
BeginKeepsIndex(address) ==
  /\ isr_state = "GOT_START"
  /\ address_filter(address)
  /\ ~RingFull
  /\ isr_bytes_remaining' = 1
  /\ isr_state' = "READING"
  /\ UNCHANGED <<isr_buffers, isr_write_buffer, isr_write_idx,
                 commands_pending, command_overflow>>

(* The destination address is this board's and a buffer is free. *)
BeginCommand(address) ==
  /\ isr_state = "GOT_START"
  /\ address_filter(address)
  /\ ~RingFull
  /\ isr_write_idx' = 0
  /\ isr_bytes_remaining' = 1
  /\ isr_state' = "READING"
  /\ UNCHANGED <<isr_buffers, isr_write_buffer, commands_pending,
                 command_overflow>>

(* A byte of the command: stored; the command is complete when the length
   check asks for no more bytes. *)
StoreByte(value) ==
  /\ isr_state = "READING"
  /\ isr_buffers' =
       [isr_buffers EXCEPT ![isr_write_buffer][isr_write_idx] = value]
  /\ isr_write_idx' = isr_write_idx + 1
  /\ isr_bytes_remaining' =
       IF isr_bytes_remaining > 1 THEN isr_bytes_remaining - 1
       ELSE length_check(isr_buffers'[isr_write_buffer], isr_write_idx + 1)
  /\ \/ /\ isr_bytes_remaining' > 0
        /\ UNCHANGED <<isr_state, isr_write_buffer, commands_pending>>
     \/ /\ isr_bytes_remaining' <= 0
        /\ commands_pending' = commands_pending + 1
        /\ isr_write_buffer' = Advance(isr_write_buffer)
        /\ isr_state' = "IDLE"
  /\ UNCHANGED <<command_overflow>>

DataByte(value) ==
  \/ IgnoreData
  \/ RejectAddress(value)
  \/ DropCommand(value)
  \/ BeginCommand(value)
  \/ StoreByte(value)

(* A byte received without error *)
ReceiveByte(in_byte) ==
  /\ ~halted
  /\ \/ BadEscape(in_byte)
     \/ /\ \/ EscapeMark(in_byte)
           \/ StartMark(in_byte)
           \/ /\ IsData(in_byte)
              /\ isr_escape' = FALSE
              /\ DataByte(Decoded(in_byte))
        /\ isr_usart_fails' = FailEvent(isr_usart_fails, FALSE)
        /\ UNCHANGED halted
  /\ UNCHANGED mainVars

Interrupt == LineError \/ \E in_byte \in Byte : ReceiveByte(in_byte)

-----------------------------------------------------------------------------
(* The main loop *)

(* Mutant: the command is freed, but still counted. *)
FreeKeepsCount ==
  /\ main = "free"
  /\ IF is_reading
     THEN read_buffer' = Advance(read_buffer) /\ is_reading' = FALSE
     ELSE UNCHANGED <<read_buffer, is_reading>>
  /\ main' = "overflow"
  /\ UNCHANGED <<commands_pending, command_overflow>>

(* usart2_next_command, 1: free the command that has been run.  Interrupts are
   off while the ring is changed. *)
FreeCommand ==
  /\ main = "free"
  /\ IF is_reading
     THEN /\ read_buffer' = Advance(read_buffer)
          /\ commands_pending' = commands_pending - 1
          /\ is_reading' = FALSE
     ELSE UNCHANGED <<read_buffer, commands_pending, is_reading>>
  /\ main' = "overflow"
  /\ UNCHANGED <<command_overflow>>

(* Mutant: an overflow is reported only while the ring is still full. *)
ReportWhileFull ==
  /\ main = "overflow"
  /\ IF command_overflow /\ RingFull
     THEN main' = "reset"
     ELSE main' = "poll"
  /\ UNCHANGED <<commands_pending, command_overflow, read_buffer, is_reading>>

(* usart2_next_command, 2: report an overflow with error(..., EA_RESUME), *)
ReportOverflow ==
  /\ main = "overflow"
  /\ IF command_overflow
     THEN main' = "reset"
     ELSE main' = "poll"
  /\ UNCHANGED <<commands_pending, command_overflow, read_buffer, is_reading>>

(* and only then reset its flag. *)
ResetOverflow ==
  /\ main = "reset"
  /\ command_overflow' = FALSE
  /\ main' = "poll"
  /\ UNCHANGED <<commands_pending, read_buffer, is_reading>>

(* Mutant: the last command of the ring is left there. *)
PollAllButLast ==
  /\ main = "poll"
  /\ IF commands_pending > 1
     THEN main' = "run" /\ is_reading' = TRUE
     ELSE main' = "free" /\ UNCHANGED is_reading
  /\ UNCHANGED <<commands_pending, command_overflow, read_buffer>>

(* Mutant: a command is freed before it is run instead of after. *)
PollFrees ==
  /\ main = "poll"
  /\ IF commands_pending > 0
     THEN /\ main' = "run"
          /\ read_buffer' = Advance(read_buffer)
          /\ commands_pending' = commands_pending - 1
     ELSE main' = "free" /\ UNCHANGED <<read_buffer, commands_pending>>
  /\ UNCHANGED <<command_overflow, is_reading>>

(* usart2_next_command, 3: return the oldest command of the ring, if any. *)
PollCommand ==
  /\ main = "poll"
  /\ IF commands_pending > 0
     THEN main' = "run" /\ is_reading' = TRUE
     ELSE main' = "free" /\ UNCHANGED is_reading
  /\ UNCHANGED <<commands_pending, command_overflow, read_buffer>>

(* The main loop has run the command in isr_buffers[read_buffer] and checked
   for overheating; it calls usart2_next_command again. *)
RunCommand ==
  /\ main = "run"
  /\ main' = "free"
  /\ UNCHANGED <<commands_pending, command_overflow, read_buffer,
                 is_reading>>

MainLoop ==
  /\ ~halted
  /\ \/ FreeCommand \/ ReportOverflow \/ ResetOverflow
     \/ PollCommand \/ RunCommand
  /\ UNCHANGED <<isrVars, halted>>

Next == Interrupt \/ MainLoop

Spec == Init /\ [][Next]_vars

(* The processor is faster than the bus: interrupts do not starve the main
   loop.  Nothing is assumed about the bus. *)
FairSpec == Spec /\ WF_vars(MainLoop)

-----------------------------------------------------------------------------
(* Properties *)

(* The buffers that hold commands: from the oldest, read_buffer, as many as
   commands_pending says. *)
Slot(k) == IF read_buffer + k < USART_BUFFER_COUNT
           THEN read_buffer + k
           ELSE read_buffer + k - USART_BUFFER_COUNT

Pending == {Slot(k) : k \in 0 .. commands_pending - 1}

(* The handler and the main loop agree on the ring although each of them only
   knows its own end of it: the handler's buffer is the one after the pending
   ones, and a command being received always has a buffer of its own. *)
RingConsistent ==
  /\ isr_write_buffer =
       IF commands_pending = USART_BUFFER_COUNT THEN read_buffer
       ELSE Slot(commands_pending)
  /\ isr_state = "READING" => commands_pending < USART_BUFFER_COUNT
  /\ is_reading => commands_pending > 0
  /\ is_reading => main \in {"run", "free"}
  /\ main = "run" => is_reading

(* A command is stored within its buffer, however the bytes, the errors and
   the start marks that abort a command are interleaved: the bytes stored and
   those still awaited never exceed CMD_BUFFER_LEN. *)
WithinBuffer ==
  isr_state = "READING" =>
    /\ isr_bytes_remaining > 0
    /\ isr_write_idx + isr_bytes_remaining <= CMD_BUFFER_LEN

(* Why: the handler awaits one byte, the command code, and after it exactly
   the rest of the command that has this code. *)
OnTrack ==
  isr_state = "READING" =>
    \/ isr_write_idx = 0 /\ isr_bytes_remaining = 1
    \/ /\ isr_write_idx > 0
       /\ isr_bytes_remaining > 0
       /\ isr_write_idx + isr_bytes_remaining =
            TotalLength(isr_buffers[isr_write_buffer][0])

(* Bytes run_command reads of a command: all that its code calls for, of an
   unknown command only the code *)
CommandLength(code) == IF TotalLength(code) = 0 THEN 1 ELSE TotalLength(code)

(* The handler hands a command over when all bytes run_command will read have
   been stored since its start mark: never earlier, with bytes of an older
   command in the buffer, and never later. *)
HandsOverComplete ==
  [][commands_pending' > commands_pending =>
       isr_write_idx' =
         CommandLength(isr_buffers'[isr_write_buffer][0])]_vars

(* A command that waits in the ring, or is being run by the main loop, is not
   touched by the handler (usart2.c:131-134: "it can only append to the
   command buffer and never overwrite an existing command"). *)
PendingUntouched ==
  [][\A b \in Pending : isr_buffers'[b] = isr_buffers[b]]_vars

(* Every command stored in the ring is run, unless the board panics. *)
EveryCommandRuns ==
  \A b \in Buffer :
    b \in Pending ~> (is_reading /\ read_buffer = b) \/ halted

(* Once the overflow flag is set the overflow is reported, unless the board
   panics. *)
FlagIsReported == command_overflow ~> main = "reset" \/ halted

(* usart2.c:211-213: "Whatever the state is, on receiving the start-of-command
   mark we must abort the current command and go into the GOT_START state." *)
StartMarkRestarts ==
  [][ReceiveByte(START_MARK) => isr_state' = "GOT_START"]_vars

(* The command run_command sees in a buffer *)
CommandIn(buffer) ==
  [i \in 1 .. CommandLength(buffer[0]) |-> buffer[i - 1]]

Commands == {CommandIn(buffer) : buffer \in [Index -> Byte]}

(* The commands in the ring, oldest first *)
PendingCommands ==
  [k \in 1 .. commands_pending |-> CommandIn(isr_buffers[Slot(k - 1)])]

Queue == INSTANCE CommandQueue WITH
  Command  <- Commands,
  Capacity <- USART_BUFFER_COUNT,
  queue    <- PendingCommands,
  running  <- is_reading

(* usart2_next_command hands out the commands stored in the ring one at a time,
   in the order in which the handler completed them and each as it was stored;
   it drops none, repeats none and, unless the board panics, gets to each. *)
QueueSpec == Queue!FairSpec

(* The same without the promise that every command is reached *)
QueueSafety == Queue!Spec

=============================================================================
