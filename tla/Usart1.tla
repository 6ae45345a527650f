------------------------------- MODULE Usart1 -------------------------------
(***************************************************************************)
(* The console's serial port on an LED board (usart1.c): a ring of         *)
(* characters to send, a ring of characters received, and the flow control *)
(* by XON and XOFF, with the UART, the line and the terminal at its end.   *)
(*                                                                         *)
(* A variable of the code keeps its name.  TXEIE, RXNE and TDR are the     *)
(* UART's flags and data register (TXE: TDR is EMPTY), line is the         *)
(* character being sent.  The terminal believes what it was told last,     *)
(* and may still send Lag characters after it was told to stop.            *)
(*                                                                         *)
(* The handler takes three steps, so that the UART can change while it     *)
(* runs: it reads the status register, then the data register and serves   *)
(* the transmitter, then stores what was received.  isr is its program     *)
(* counter, main the one of the main program, which an interrupt preempts. *)
(* halted gives the reason of a panic.  The characters in each ring are    *)
(* numbered in turn, so that a wrong one shows; a character that has been  *)
(* received is typed, and gets its number when it is stored.               *)
(***************************************************************************)
EXTENDS Integers, Sequences

CONSTANTS
  LAST_CHAR,              (* the last character of text; '!' is the first    *)
  OUTPUT_BUFFER_LENGTH,   (* 80                                              *)
  INPUT_BUFFER_LENGTH,    (* 50                                              *)
  XOFF_TRESHOLD,          (* 40                                              *)
  XON_TRESHOLD,           (* 10                                              *)
  Lag                     (* what the terminal sends after it received XOFF  *)

NUL  == 0
XON  == 17   \* \021
XOFF == 19   \* \023
EMPTY == 256 \* no character
FIRST_CHAR == 33   \* '!', also the message of error()

Text == FIRST_CHAR .. LAST_CHAR

ASSUME TextAssumption == LAST_CHAR \in FIRST_CHAR .. 126

ASSUME BufferAssumption ==
  /\ OUTPUT_BUFFER_LENGTH \in Nat \ {0}
  /\ INPUT_BUFFER_LENGTH \in Nat \ {0}
  /\ XON_TRESHOLD \in 1 .. XOFF_TRESHOLD
  /\ XOFF_TRESHOLD \in 1 .. INPUT_BUFFER_LENGTH - 1
  /\ Lag \in Nat

VARIABLES
  output_buffer, output_write_index, output_read_index, output_pending,
  output_idle, urgent_send,
  input_buffer, input_write_index, input_read_index, input_pending, xon_sent,
  (* the UART and the line *)
  TXEIE, RXNE, TDR, line,
  (* the terminal *)
  told, after, met, typed,
  (* the program *)
  isr, sr, main, halted

outputRing == <<output_buffer, output_write_index, output_read_index,
                output_pending>>
outputVars == <<outputRing, output_idle, urgent_send, TXEIE>>
inputVars  == <<input_buffer, input_write_index, input_read_index,
                input_pending, xon_sent>>
lineVars   == <<TDR, line, met>>
peerVars   == <<told, after, typed>>
isrVars    == <<isr, sr>>
vars == <<outputVars, inputVars, lineVars, peerVars, isrVars, RXNE, main,
          halted>>

OutputIndex == 0 .. OUTPUT_BUFFER_LENGTH - 1
InputIndex  == 0 .. INPUT_BUFFER_LENGTH - 1
Char == Text \union {NUL, XON, XOFF}
NoStatus == [TXE |-> FALSE, RXNE |-> FALSE]

TypeOK ==
  /\ output_buffer \in [OutputIndex -> Text \union {NUL}]
  /\ output_write_index \in OutputIndex
  /\ output_read_index \in OutputIndex
  /\ output_pending \in 0 .. OUTPUT_BUFFER_LENGTH
  /\ output_idle \in BOOLEAN
  /\ urgent_send \in {NUL, XON, XOFF}
  /\ input_buffer \in [InputIndex -> Text \union {NUL}]
  /\ input_write_index \in InputIndex
  /\ input_read_index \in InputIndex
  /\ input_pending \in 0 .. INPUT_BUFFER_LENGTH
  /\ xon_sent \in BOOLEAN
  /\ TXEIE \in BOOLEAN
  /\ TDR \in Char \union {EMPTY}
  /\ RXNE \in BOOLEAN
  /\ line \in Char \union {EMPTY}
  /\ told \in {XON, XOFF}
  /\ after \in 0 .. Lag
  /\ met \in BOOLEAN
  /\ typed \in Text
  /\ isr \in {"idle", "entered", "receive"}
  /\ sr \in [TXE : BOOLEAN, RXNE : BOOLEAN]
  /\ main \in {"console", "wait", "full", "enqueue"}
  /\ halted \in {"no", "overflow", "TXEIE lost", "crashed"}

(* The character numbered next *)
NextChar(char) ==
  IF char \in Text \ {LAST_CHAR} THEN char + 1 ELSE FIRST_CHAR

Init ==
  /\ output_buffer = [i \in OutputIndex |-> NUL]
  /\ output_write_index = 0
  /\ output_read_index = 0
  /\ output_pending = 0
  /\ output_idle = FALSE
  /\ urgent_send = NUL
  /\ input_buffer = [i \in InputIndex |-> NUL]
  /\ input_write_index = 0
  /\ input_read_index = 0
  /\ input_pending = 0
  /\ xon_sent = FALSE
  /\ TXEIE = TRUE
  /\ TDR = EMPTY
  /\ RXNE = FALSE
  /\ line = EMPTY
  /\ told = XON
  /\ after = 0
  /\ met = FALSE
  /\ typed = FIRST_CHAR
  /\ isr = "idle"
  /\ sr = NoStatus
  /\ main = "console"
  /\ halted = "no"

-----------------------------------------------------------------------------
(* The output side *)

(* The index after this one, in a ring of this length *)
Wrap(index, length) == IF index + 1 = length THEN 0 ELSE index + 1

(* Mutant: the transmitter is not woken. *)
NoWakeTransmitter == UNCHANGED <<output_idle, TXEIE>>

(* If the transmitter is idle, its interrupt is switched on again. *)
WakeTransmitter ==
  /\ output_idle' = FALSE
  /\ TXEIE' = (TXEIE \/ output_idle)

(* Mutant: putchar leaves the transmitter alone. *)
EnqueueOnly(message) ==
  /\ output_buffer' = [output_buffer EXCEPT ![output_write_index] = message]
  /\ output_write_index' = Wrap(output_write_index, OUTPUT_BUFFER_LENGTH)
  /\ output_pending' = output_pending + 1
  /\ UNCHANGED <<output_read_index, urgent_send, output_idle, TXEIE>>

(* What putchar does with interrupts off *)
Enqueue(message) ==
  /\ output_buffer' = [output_buffer EXCEPT ![output_write_index] = message]
  /\ output_write_index' = Wrap(output_write_index, OUTPUT_BUFFER_LENGTH)
  /\ output_pending' = output_pending + 1
  /\ WakeTransmitter
  /\ UNCHANGED <<output_read_index, urgent_send>>

(* A write to the data register; an idle line takes the character at once. *)
Load(char) ==
  IF line = EMPTY
  THEN line' = char /\ met' = FALSE /\ UNCHANGED TDR
  ELSE TDR' = char /\ UNCHANGED <<line, met>>

SendUrgent ==
  /\ urgent_send # NUL
  /\ Load(urgent_send)
  /\ urgent_send' = NUL
  /\ UNCHANGED <<outputRing, output_idle, TXEIE>>

SendPending ==
  /\ urgent_send = NUL
  /\ output_pending > 0
  /\ Load(output_buffer[output_read_index])
  /\ output_read_index' = Wrap(output_read_index, OUTPUT_BUFFER_LENGTH)
  /\ output_pending' = output_pending - 1
  /\ UNCHANGED <<output_buffer, output_write_index, output_idle, urgent_send,
                 TXEIE>>

BecomeIdle ==
  /\ urgent_send = NUL
  /\ output_pending = 0
  /\ TXEIE' = FALSE
  /\ output_idle' = TRUE
  /\ UNCHANGED <<outputRing, urgent_send, lineVars>>

isr_ready_to_send == SendUrgent \/ SendPending \/ BecomeIdle

(* Mutant: a character that is still to be sent is not replaced. *)
UrgentWaits(message) ==
  /\ urgent_send' = IF urgent_send = NUL THEN message ELSE urgent_send
  /\ WakeTransmitter
  /\ UNCHANGED outputRing

(* A flow control character overtakes the text, and replaces the one that is
   still to be sent. *)
usart1_urgent_send(message) ==
  /\ urgent_send' = message
  /\ WakeTransmitter
  /\ UNCHANGED outputRing

-----------------------------------------------------------------------------
(* The interrupt handler *)

InterruptPending == isr = "idle" /\ (RXNE \/ (TXEIE /\ TDR = EMPTY))

(* Reads the status register. *)
EnterHandler ==
  /\ halted = "no"
  /\ InterruptPending
  /\ isr' = "entered"
  /\ sr' = [TXE |-> TDR = EMPTY, RXNE |-> RXNE]
  /\ UNCHANGED <<outputVars, inputVars, lineVars, peerVars, RXNE, main,
                 halted>>

(* The status register reports an overrun, noise, framing or parity error. *)
Crash ==
  /\ halted = "no"
  /\ isr = "idle"
  /\ RXNE
  /\ halted' = "crashed"
  /\ UNCHANGED <<outputVars, inputVars, lineVars, peerVars, isrVars, RXNE,
                 main>>

(* Reads the data register, which is empty from then on even if the status
   said that there was nothing in it, and serves the transmitter. *)
ReadData ==
  /\ halted = "no"
  /\ isr = "entered"
  /\ RXNE' = FALSE
  /\ isr' = IF sr.RXNE THEN "receive" ELSE "idle"
  /\ sr' = NoStatus
  /\ IF sr.TXE THEN isr_ready_to_send ELSE UNCHANGED <<outputVars, lineVars>>
  /\ UNCHANGED <<inputVars, peerVars, main, halted>>

(* Mutant: XOFF is sent when the ring is full. *)
FullOnly(pending) == pending >= INPUT_BUFFER_LENGTH

AboveXoff(pending) == pending > XOFF_TRESHOLD

isr_read_input ==
  /\ halted = "no"
  /\ isr = "receive"
  /\ isr' = "idle"
  /\ \/ /\ input_pending >= INPUT_BUFFER_LENGTH
        /\ halted' = "overflow"
        /\ UNCHANGED <<inputVars, outputVars, typed>>
     \/ /\ input_pending < INPUT_BUFFER_LENGTH
        /\ input_buffer' = [input_buffer EXCEPT ![input_write_index] = typed]
        /\ typed' = NextChar(typed)
        /\ input_write_index' = Wrap(input_write_index, INPUT_BUFFER_LENGTH)
        /\ input_pending' = input_pending + 1
        /\ IF AboveXoff(input_pending')
           THEN usart1_urgent_send(XOFF)
           ELSE UNCHANGED outputVars
        /\ UNCHANGED <<input_read_index, xon_sent, halted>>
  /\ UNCHANGED <<lineVars, told, after, RXNE, sr, main>>

Handler == EnterHandler \/ ReadData \/ isr_read_input

-----------------------------------------------------------------------------
(* The main program *)

(* A pending interrupt comes first. *)
MainRuns == halted = "no" /\ isr = "idle" /\ ~InterruptPending

(* usart1_putchar's loop, while the ring is full: is there space? *)
WaitForSpace ==
  /\ MainRuns
  /\ main \in {"console", "wait"}
  /\ main' = IF output_pending >= OUTPUT_BUFFER_LENGTH THEN "full"
             ELSE "enqueue"
  /\ UNCHANGED <<outputVars, inputVars, lineVars, peerVars, isrVars, RXNE,
                 halted>>

(* Then the transmitter has to be working. *)
CheckTransmitter ==
  /\ MainRuns
  /\ main = "full"
  /\ main' = "wait"
  /\ halted' = IF TXEIE THEN "no" ELSE "TXEIE lost"
  /\ UNCHANGED <<outputVars, inputVars, lineVars, peerVars, isrVars, RXNE>>

(* The text that is put is numbered like the text that is typed. *)
LastPut ==
  output_buffer[IF output_write_index = 0 THEN OUTPUT_BUFFER_LENGTH - 1
                ELSE output_write_index - 1]

Putchar ==
  /\ MainRuns
  /\ main = "enqueue"
  /\ Enqueue(NextChar(LastPut))
  /\ main' = "console"
  /\ UNCHANGED <<inputVars, lineVars, peerVars, isrVars, RXNE, halted>>

(* Mutant: xon_sent is not reset for the next underrun. *)
RequestInputOnce ==
  IF input_pending' < XON_TRESHOLD /\ ~xon_sent
  THEN usart1_urgent_send(XON) /\ xon_sent' = TRUE
  ELSE UNCHANGED <<outputVars, xon_sent>>

(* XON is sent when the ring runs low, once for each time it does. *)
RequestInput ==
  \/ /\ input_pending' < XON_TRESHOLD
     /\ ~xon_sent
     /\ usart1_urgent_send(XON)
     /\ xon_sent' = TRUE
  \/ /\ input_pending' < XON_TRESHOLD
     /\ xon_sent
     /\ UNCHANGED <<outputVars, xon_sent>>
  \/ /\ input_pending' >= XON_TRESHOLD
     /\ xon_sent' = FALSE
     /\ UNCHANGED outputVars

(* Mutant: the read index stays. *)
GetcharAgain ==
  /\ MainRuns
  /\ main = "console"
  /\ input_pending > 0
  /\ input_pending' = input_pending - 1
  /\ RequestInput
  /\ UNCHANGED <<input_buffer, input_write_index, input_read_index, lineVars,
                 peerVars, isrVars, RXNE, main, halted>>

usart1_getchar ==
  /\ MainRuns
  /\ main = "console"
  /\ input_pending > 0
  /\ input_read_index' = Wrap(input_read_index, INPUT_BUFFER_LENGTH)
  /\ input_pending' = input_pending - 1
  /\ RequestInput
  /\ UNCHANGED <<input_buffer, input_write_index, lineVars, peerVars, isrVars,
                 RXNE, main, halted>>

(* error() with EA_PANIC, called in the handler: it goes on writing its
   message to the ring, as long as there is space. *)
PanicPutchar ==
  /\ halted # "no"
  /\ output_pending < OUTPUT_BUFFER_LENGTH
  /\ Enqueue(FIRST_CHAR)
  /\ UNCHANGED <<inputVars, lineVars, peerVars, isrVars, RXNE, main, halted>>

Main == WaitForSpace \/ CheckTransmitter \/ Putchar \/ usart1_getchar

-----------------------------------------------------------------------------
(* The line and the terminal *)

(* A character has been sent, and the UART goes on with the next.  Between
   putchar's two tests there is time for one character at most. *)
Transmit ==
  /\ line # EMPTY
  /\ main = "full" => output_pending = OUTPUT_BUFFER_LENGTH /\ TDR # EMPTY
  /\ line' = TDR
  /\ TDR' = EMPTY
  /\ met' = FALSE
  /\ told' = IF line \in {XON, XOFF} THEN line ELSE told
  /\ after' = IF line \in {XON, XOFF} /\ line # told THEN 0 ELSE after
  /\ UNCHANGED <<outputVars, inputVars, isrVars, RXNE, typed, main, halted>>

(* A character from the terminal arrives.  Both directions have the same
   speed: one character at most is received while one is sent (met).  The
   handler is faster than that. *)
Arrive ==
  /\ halted = "no"
  /\ told = XON \/ after < Lag
  /\ ~met
  /\ ~RXNE
  /\ isr # "receive"
  /\ RXNE' = TRUE
  /\ after' = IF told = XOFF THEN after + 1 ELSE after
  /\ met' = (line # EMPTY)
  /\ UNCHANGED <<outputVars, inputVars, TDR, line, told, typed, isrVars,
                 main, halted>>

Next == Handler \/ Crash \/ Main \/ PanicPutchar \/ Transmit \/ Arrive

Spec == Init /\ [][Next]_vars

(* The handler and the line go on, a putchar that is begun does, and the console
   does not stop reading; nothing is assumed of the terminal, or of what the
   console has to say. *)
FairSpec ==
  /\ Spec
  /\ WF_vars(Handler)
  /\ WF_vars(Transmit)
  /\ WF_vars(main # "console" /\ Main)
  /\ SF_vars(usart1_getchar)

-----------------------------------------------------------------------------
(* Properties *)

Ring(buffer, first, count, length) ==
  [i \in 1 .. count |-> buffer[(first + i - 1) % length]]

Plain(char) == IF char \in Text THEN <<char>> ELSE <<>>

(* The text that is on its way through the UART *)
InUart == Plain(line) \o Plain(TDR)

OutputQueue == INSTANCE CharQueue WITH
  queue <- InUart \o Ring(output_buffer, output_read_index, output_pending,
                          OUTPUT_BUFFER_LENGTH),
  Capacity <- OUTPUT_BUFFER_LENGTH + 2,
  panicked <- halted # "no"

InputQueue == INSTANCE CharQueue WITH
  queue <- Ring(input_buffer, input_read_index, input_pending,
                INPUT_BUFFER_LENGTH),
  Capacity <- INPUT_BUFFER_LENGTH,
  panicked <- halted # "no"

(* usart1_putchar and the handler send every character that is put, once and
   in order, whatever flow control characters overtake them, unless the board
   panics. *)
OutputIsSent == OutputQueue!FairSpec

(* usart1_getchar returns the characters that the handler has stored, each
   once and in order. *)
InputIsRead == InputQueue!Spec

(* The assertion of isr_read_input: with XOFF sent XOFF_TRESHOLD characters
   into the ring, a terminal that lags Lag characters behind never makes it
   overflow, although XOFF may have to wait for two characters in the UART and
   may be overwritten by XON. *)
FlowControlHolds == halted # "overflow"

(* The assertion of usart1_putchar: whoever waits for space in the output ring
   waits for a transmitter whose interrupt is on. *)
TransmitterWorks ==
  /\ halted # "TXEIE lost"
  /\ output_pending > 0 \/ urgent_send # NUL => TXEIE

(* What the terminal is going to believe when all that is on its way has
   arrived *)
LastWord ==
  IF urgent_send # NUL THEN urgent_send
  ELSE IF TDR \in {XON, XOFF} THEN TDR
  ELSE IF line \in {XON, XOFF} THEN line
  ELSE told

(* A terminal told to stop has XON on its way once the input runs low: the
   flag xon_sent never keeps usart1_getchar from sending it, and no XOFF comes
   after it. *)
StoppedIsFull == LastWord = XOFF => input_pending >= XON_TRESHOLD

(* A terminal that was stopped is told to go on, unless the board panics. *)
InputResumes == told = XOFF ~> told = XON \/ halted # "no"

=============================================================================
