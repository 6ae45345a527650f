# Vaporlight: a TLA+ verification project

Vaporlight drives RGB LEDs. Clients on the network send colours to a *daemon*
(Scala, `vaporware/daemon`); the daemon blends the colours of all clients and
writes them to an RS485 *bus*; *LED boards* (C firmware for the STM32F100,
`vaporware/led-boards`) receive the bus and drive the LEDs by PWM. Boards are
configured over a serial *console* and keep their configuration in flash
memory.

This project models the parts of that system whose correctness depends on
interleavings, damaged bytes, resets, numbers at the ends of their range and
long sequences of calls, checks them with TLC on small instances, and proves
the safety of most of them for instances of every size with TLAPS.
Paths below are relative to `src/`; `led-boards/` stands for
`vaporware/led-boards/`, `daemon/` for
`vaporware/daemon/src/main/scala/de/entropia/vapor/daemon/`, `bindings/` for
`vaporware/language_bindings/`.

## 1. Inventory

| Part | State it keeps | Operations | Hard behaviour | Correct when | Module |
|---|---|---|---|---|---|
| Command receiver, `led-boards/usart2.c`, `command.c`, `fail.c` | ring of command buffers, decoder state, failure record, overflow flag | interrupt per byte; `usart2_next_command` in the main loop | interrupts between any two steps of the main loop; damaged and lost bytes, arbitrary byte streams; a full ring | no byte outside a buffer, no waiting command touched, commands whole, in order, each run once; drops reported | `Usart2`, `Fail`, `CommandQueue` |
| Main loop and boot, `led-boards/main.c` | heat check flag | boot, choice of the mode; poll, run, tick | the tick's flag is reset after the tick | every command and every tick gets its turn | `Board`; the receiver's side in `Usart2` |
| PWM, `led-boards/pwm.c` | shadow values, registers | set, send, state | a panic between the setting and the sending; reassigned channels | a strobe shows whole updates, a stopped board is dark | `Board`, `Lamps` |
| Heat, `led-boards/heat.c` | a failure record for each sensor | tick, sensor by sensor | a timer tick during a tick; the first hot sensor ends the tick | overheating stops the board | `Board` |
| Errors, start-up, debug, `led-boards/error.c`, `startup.c` | debug LED | `error`, `systick`, reset | panics in handlers; a reset that is refused | a board that stops is dark | `Board`; `halted` in `Usart2` and `Usart1` |
| Configuration store, `led-boards/config.c`, `flash.c` | a flash page of three slots, the configuration in RAM | load, save | resets between two writes, failing writes, a full page | one slot in use, never a torn configuration, a completed save survives | `ConfigStore` |
| Console, `led-boards/console.c`, `console_prompt.c` | the line, the configuration being edited | commands, line editing, numbers in and out | overflow of numbers, half-valid configurations, pasting, echo | a line is understood as it is shown, no board runs with colliding channels | `LineInput`, `Prompt`, `Calibration`, `Board` |
| Console USART, `led-boards/usart1.c` | input and output rings, urgent character | putchar, getchar, interrupt | XON/XOFF against a slow sender; the UART changing while the handler runs | the input ring never overflows, output in order and sent, a stopped sender is resumed | `Usart1`, `CharQueue` |
| Colour correction, `led-boards/color.c`, `fixedpoint.c` | none | `color_correct`, `invert_3x3`, fixed point numbers | wrap-around, division by zero, lost precision | the colour asked for is shown, luminosity is kept | `FixedPoint`, `Calibration` |
| Bus, `daemon/hardware/` to `usart2.c` | values per module, bytes on the line | set, strobe | loss and damage in the middle of a frame, the daemon's death | a board runs only what was sent to it; one good strobe repairs all | `Bus` |
| Mixer, `daemon/mixer/*`, `daemon/server/Client.scala` | overlays (front, back, dirty sets), list of overlays, wakeup flag | auth, set, strobe, disconnect; the mixer thread | threads with nested monitors, removal while dirty, wakeups, failing output | LEDs converge to the blended colours; no deadlock, no leftovers | `Mixer` |
| Network server, `daemon/server/`, and client libraries, `bindings/` | decoder's buffer and opcode; a library's buffer and connection | the libraries' calls; frame decoding, dispatch | messages cut anywhere, short and failing writes, reconnection | the daemon carries out the calls made, as they were meant | `Protocol` (channel events also in `Mixer`, `Services`) |
| Web server, dimmer, backlight, notifications, `ServerStatus` | dimness, colour, webhook tasks, list of clients | `dimTo`, `setColor`, kill, list | concurrent requests, an executor, kills against errors | all that tells a setting agrees at rest; the list is that of the clients served | `Services` |
| C++ blinker, `bindings/cpp` | threads, one client, its mutex | fade, `set_leds`, SIGINT | several threads and one command buffer; the end on a signal | writes do not mix; the program ends | `Blinker` |
| C++ fade and shell; emulator; pyVaporlight; settings, application | – | – | – | – | see section 6 |

The daemon's threads share the overlays under monitors; the mixer thread calls
the hardware package, which writes frames; the boards only listen. Web
requests and connections reach the overlays through the same two operations,
set and strobe. On a board the receiver's interrupt and the main loop share
the ring and two flags, the system timer and the main loop share
`do_heat_check`, and the console runs before the main loop, alone but for
`usart1.c`'s interrupt.

## 2. Modules

Which extends or instantiates which:

    Fail <- Usart2 <- Bus              Usart2 -> CommandQueue
    Fail <- Board -> CommandQueue      Board -> Lamps (extends CommandQueue)
    Usart1 -> CharQueue                ConfigStore <- Prompt
    FixedPoint, LineInput <- Calibration
    Mixer, Protocol, Services, Blinker alone

(`<-` is extended by, `->` is shown to implement, or uses as its receiver.)

### Fail
A failure record is the set of positions of the 1 bits of the C `int`;
`FailEvent` shifts and records, `TooManyFailures` is the comparison with the
threshold. `FAIL_BITS` is the width of the `int`, 32 on the board.

### Usart2
Every variable of `usart2.c` keeps its name. `isr_usart2` runs to completion
between two steps of the main loop, so an interrupt is one action:
`ReceiveByte` is `isr_dispatch` and `isr_read_command` together, with one
disjunct per path through the code (`BadEscape`, `EscapeMark`, `StartMark`,
and for data `IgnoreData`, `RejectAddress`, `DropCommand`, `BeginCommand`,
`StoreByte`); `LineError` is a byte with an error flag. The main loop is a
program counter `main` over the pieces of `usart2_next_command` an interrupt
can come between: `FreeCommand` (interrupts are off there),
`ReportOverflow`, `ResetOverflow`, `PollCommand`, and `RunCommand`. `halted`
says that `error(..., EA_PANIC)` was called; it never returns.
`StoreByte` indexes `isr_buffers` without a test, as the code does; that the
index is in range is `WithinBuffer`.
Not in it: what a command does to the lamps, and the heat check; both are in
`Board`.

### CommandQueue
The abstract specification of the receiver: a bounded FIFO queue whose head is
run and then removed. `Usart2!QueueSpec` is `CommandQueue` under the mapping
`queue <- PendingCommands`, `running <- is_reading`. `Board` uses its actions
as the receiver.

### Board and Lamps
`Board` is `main.c` from the reset on: `Boot`, `BootColors`, `AskMode`, the
console's commands that light lamps (`run_set_brightness`, `run_set_color`,
`LeaveConsole`), then the loop: `FreeCommand`, `NextCommand`, `RunCommand`
(`RunUpdate`, `RunStrobe`, `RunUnknown`), `TestFlag`, `HeatTick` for one sensor
at a time, `ResetFlag`. The system timer (`Systick`), the receiver (`Arrive`,
`ReceiverPanics`), the temperature and a reset from outside come between any
two of these. The PWM is `pwm_values`, the compare registers `ccr` and whether
the outputs are `enabled`. Overheating calls `PwmStop` and then asks the
hardware for a reset; that write lacks the key and does nothing, so that the
loop goes on in the dark (section 4). `owed` is history: timer ticks neither
reported nor followed by a heat check.
`Lamps` extends `CommandQueue` by what the bus may expect of a board's lamps:
an update shows at the next strobe, whole, on the lamps it was meant for; a
stopped board is dark until it is reset. `Board!LampSpec` maps its lamps to
the PWM channels through the configuration (`convert_channel_index`).

### Usart1
The console's port with its two rings; variables keep their names. Here the
interrupt handler takes three steps, because the UART goes on while it runs:
`EnterHandler` reads the status register, `ReadData` reads the data register
and serves the transmitter (`SendUrgent`, `SendPending`, `BecomeIdle`),
`isr_read_input` stores the character received. `Crash` is the status with an
error flag. The main program is any sequence of `usart1_putchar`
(`WaitForSpace`, `CheckTransmitter`, `Putchar`) and `usart1_getchar`; a
pending interrupt comes first (`MainRuns`). After a panic `error()` goes on
writing its message (`PanicPutchar`).
`line` is the character being sent, behind `TDR`. The terminal believes the
last of XON and XOFF it received (`told`) and may send `Lag` more after XOFF.
Characters are numbered in turn in each direction, so that a lost, doubled or
overtaken one shows.
Timing is part of the model in four places, each named in a comment: an
interrupt preempts the program; between `putchar`'s two tests at most one
character is sent; at most one is received while one is sent, since both
directions have the same speed; the handler is done within a character.
`usart1_putchar`'s loop reads `output_pending` and then TXEIE with interrupts
on. Were two characters sent between the two reads, the handler could empty
the ring and switch TXEIE off, and the board would panic without cause; the
two reads are instructions apart, a character is thousands of cycles.

### CharQueue
The abstract specification of either direction: a bounded queue of characters
that a panic may stop. `OutputIsSent` maps it to the text in the UART followed
by the output ring, `InputIsRead` to the input ring.

### LineInput
What becomes of the keys a user types: `console_getline` fills and rubs out
the buffer and writes to the terminal, key by key (`Key`); `parse_int` makes
numbers with the wrap-around of an unsigned, `parse_args` and the table
`commands` make a command with its arguments. A line that fills the buffer has
no terminating zero; what lies behind it in memory is `Beyond`, any of a few
words. `ReadCommand` is `run_command_prompt` up to the call of the handler,
`AskInt` one question of `console_ask_int`; `GetLine` is either, for any line,
and `Forget` the return from the handler. `InputSpec` is the module's own
specification; `Calibration` makes these steps between its others. What the
properties compare with is written down independently of the loops of the code: a
terminal (`Screen`), the words of a text (`Words`), found by where they begin, and
the number that a word says, however large (`Value`).

### ConfigStore and Prompt
The page is a row of halfwords, status words first, as `config_page_t` lays it
out, so that an index one past the status words is the first halfword of the
first entry, as on the board. A halfword can be programmed if it is erased or
if the value is 0; otherwise PGERR is raised and stays until a reset. `Save`,
`Erase`, `Copy` (one halfword), `MarkOld`, `MarkInUse` are the stages of
`save_config`; `Reset` may happen between any two of them, `FlashFails` is a
write without effect. `saved` and `disturbed` are history. In `ConfigStore` a
configuration is entered whole (`Edit`).
`Prompt` extends it by the console's commands: each changes a field of
`config`, after the range checks the code makes, with numbers as `parse_int`
leaves them (modulo `UINT_LIMIT`) and the commands take them (`AsInt`).
`config_valid` is in it in full: it counts the channels, and assigns the
backup channel whatever it returns (`CheckBeforeSave`, `run_quit`). `mode` says
whether the board is in the console, in the middle of a save, in the echo
loop, in normal operation or panicking for want of a configuration; `pasting`
counts the calls of `run_paste_file` in progress. `Restart` is a reset,
commanded or from outside, with the choice of the mode after it.

### FixedPoint and Calibration
`FixedPoint` is `fixedpoint.c` on integers, with the width and the number of
fractional bits as constants; every operation wraps around as the C code does.
`Calibration` has `color.c` (`mat_x_vec`, `invert_3x3` through its minors,
`color_correct` in the steps `Ratio`, `Limited`, `Levels`),
`run_calibrate_led`, and the printing of numbers (`console_uint`,
`console_fixed`, `PrintFraction` for one digit). It extends `LineInput`, so
that what is printed can be read back and lines are typed in between
(`TypeLine`). A division by zero is `panic`. The loop
that limits the scale leaves out the third channel, as in the code.

### Bus
In front is the daemon's buffer: `Set` is `Hardware.set` down to
`Buffer.set` for the channels a LED has (`SetChannel`, one after the other), `Strobe` lets `Updates` and a strobe
be sent, one update for every module that was ever set, in any order. `Framed`
is `Framer.write`, `UpdateOf` and `StrobeAll` are the encoder's; the bytes go
one by one through `Usart2!ReceiveByte`. `Damage` is any receive error the
UART reports, with the loss of no byte, one, or two (overrun); `Abandon` is a
daemon that stops in a frame and is started again. `Light` is what running a
command does to the lamps (without the channel assignment, which is in
`Board`). Damage the UART does not notice is outside the model: there is no
checksum in the protocol, so nothing can be promised about it. `strobed` and
`arrived` are history: the buffer at the latest strobe, and whether all that
was sent for it has arrived so far.

### Mixer
A step is what a thread does between two lock acquisitions; `holder` says who
holds which monitor. A connection's thread runs `Auth`, `Set`, `Strobe` and
`Close`; `free` takes the overlay's monitor (`FreeOverlay`), the mixer's
(`FreeMixer`), the background's (`FreeRemove`: remove, and mark the
background), and wakes the mixer thread (`FreeNotify`); `strobe` is
`Strobe`, `StrobeSwap`, `StrobeNotify`. `exceptionCaught` frees twice, since
closing the channel disconnects the client again. The mixer thread is
`AwaitRun` (with `SpuriousWakeup`), `LockMixer`, `Blend` or `BlendFails`, the
I/O exception that ends it. An overlay that is not persistent bears its
connection's name; a persistent one its token's. `staged` (LEDs set since the
connection's last strobe) is history.

### Services
The web server's threads each serve one request at a time: `PostSetting`
begins one, `Enter` takes the service's monitor, `SetLed` sets one LED of its
overlay, `Strobe`, `SetField` (the backlight changes its field after the
strobe, the dimmer before), `Notify`, which hands a task for every URL to an
executor of `Pool` threads (`TakeTask`, `EndTask`). The mixer is its summary
here: `Blend` shows the fronts. `channelConnected`, `channelClosed` and
`exceptionCaught` keep the handler's client and the list `ServerStatus`;
`PostKill` and `Kill` are a user closing a client, looked up in one step and
closed in another. `told` and `overtaken` are history.

### Protocol
From a call of a client library (Go, Rust, Python, C++, Java) to the daemon's
overlay. `Collect` is C++'s buffering (`cmd_buffer`, and the calls it is made
of as the history `collected`), `Write`, `ShortWrite` (Rust's `write`)
and `FailingWrite` (with Java's new connection and repetition) what happens to
the bytes of a call; `TokenBytes`, `Payload`, `Encoded` are each library's
formats. `Receive` hands the decoder any piece of what is under way, `Decode`
is one call of `VaporlightFrameDecoder.decode` with the dispatch of the
message it may return, `Refuse` the protocol violation. `calls` and `garbled`
are history. `ProtocolAssumption` says what the parameters of the libraries'
calls can hold: tokens of bytes, LEDs of 16 bits, three or four colours of 8 or
16.

### Blinker
`str_to_ids` goes through the words and separators of the option, with
`in_range` never reset, as in the code; then `Main` starts the threads, polls
for the signal, sets the flag and joins; a thread picks a colour (`Pick`),
takes the mutex (`Lock`), fills the client's buffer LED by LED (`set_led`) and
writes it (`flush`). `PickCrashes` and `WriteFails` end the program.

### MC modules
Each `MC` module extends one of these and gives the constants small values;
nothing of the models is replaced. Each `_proofs` module extends a component's
module by its theorems (section 5); `Prompt_proofs` extends `Prompt` and `LineInput`.

## 3. Runs

| Run (cfg) | Question | Instance | States |
|---|---|---|---|
| `receiver` (`MCUsart2`) | is the ring safe under every byte stream and interleaving, does it implement `CommandQueue`, are commands run and overflows reported? | 2 buffers of 2 bytes, command lengths 2 and 1, bytes 0, 1, ESCAPE, START (escaped: data 0x54, 0x55), panic at 2 failures of 2 | 0.4 M |
| `bus` (`MCBus`) | does a board run only what was sent, and does one strobe repair what was lost? | 2 modules of one channel, one LED on both, 7 frames, marks and codes in the data | 4 M |
| `board` (`MCBoard`) | do the lamps implement `Lamps`, are ticks accounted for, does overheating stop the board? | 4 channels, 1 LED, the assignment of the reset and another, 2 sensors, records of 3 bits, threshold 2 | 0.6 M |
| `config` (`MCPrompt`) | does the store survive resets and failures, and does no sequence of commands let a board run with an invalid configuration? | 2 slots, entries of 7 halfwords, 1 LED, unsigned of 18 bits, one level of pasting | 0.7 M |
| `console` (`MCUsart1`) | does flow control hold, is all output sent, all input read, a stopped terminal resumed? | output ring of 2, input ring of 7, XOFF above 2, XON below 1, lag 1 | 0.9 M |
| `calibration` (`MCCalibration`) | is the colour asked for shown with matrices of limited precision, are numbers printed and read exactly, lines understood as shown? | 12 bits, 6 behind the point; 4 LEDs and one without an inverse, 262 chromaticities, 7 luminosities; a line buffer of 6, lines of up to 9 keys | 76 k |
| `mixer` (`MCMixer`) | are the overlays consistent, do the LEDs converge, is there no deadlock? | 2 connections, 1 LED, 3 tokens, 6 requests | 0.4 M |
| `services` (`MCServices`) | do field, overlay, lamps and webhooks agree, is the list of clients right? | 2 web threads, 2 LEDs, 2 settings, 2 URLs, 2 connections, 3 requests, symmetry | 0.7 M |
| `protocol` (`MCProtocol`) | does the daemon carry out the calls as they were meant, wherever the stream is cut or breaks? | 5 libraries, 3 calls (2 tokens, one of them too short; 3 ways to set a colour), 2 connections, tokens of 2 bytes | 5.9 M |
| `blinker` (`MCBlinker`) | do the threads' writes stay apart, does the program end on SIGINT? | LED ids 0 to 3, fades in 2 steps, up to 3 threads, 8 options, all colour sets from 2 colours | 0.1 M |

Two more runs are expected to find a violation, each of one sentence that a
comment says: `start_restarts` (`MCUsart2Start`) and `saved_is_loaded`
(`MCConfigStoreAddress`); section 4 has them.

Properties, with what they mean for the code:

* `RingConsistent`, `PendingUntouched`, `WithinBuffer`, `HandsOverComplete` –
  the ring, the claim of `usart2.c:131-134`, and why `isr_write_idx` needs no
  test.
* `QueueSpec`, `EveryCommandRuns`, `FlagIsReported` – what the main loop may
  rely on.
* `OnlySentCommands`, `WholeFrameStored` – end to end: what is run was sent,
  unchanged and in order; a whole frame is stored unless the ring is full.
* `OneStrobeHeals` – why the daemon sends all modules at every strobe: what
  was lost before does not matter any more.
* `LampSpec` – whole updates at strobes and darkness after a stop, whatever the
  channel assignment and wherever a panic comes.
* `TicksAccounted` – the flag of `main.c:141` is reset late, and yet no tick is
  lost in silence. `OverheatStops` – a sensor that stays hot darkens the board,
  whatever the others do.
* `OneInUse`, `AtomicSave`, `SaveIsDurable`, `FailsOnlyDisturbed`,
  `SaveReturns` – the store; `RunsValid` – what `config_valid` is for, with
  `load_config` that checks nothing.
* `FlowControlHolds` – the assertion of `usart1.c:129-134`.
* `TransmitterWorks` – the assertion of `usart1.c:50-54`, and why it holds:
  whenever something is to be sent, TXEIE is on.
* `StoppedIsFull`, `InputResumes` – the flag `xon_sent`, and XON and XOFF
  overwriting each other in `urgent_send`, never leave the terminal stopped.
* `OutputIsSent`, `InputIsRead` – the two queues; all output is sent although
  XOFF is repeated ahead of it.
* `PrintedExactly` – digits and rest make up the number at every digit.
* `PrimaryAlone` – calibration and correction fit together: an LED asked for the
  colour of one of its channels shows it with this channel, and the others get
  no more than the precision of the inverse allows (`ShareError`, from the area of
  the gamut). `LuminosityKept` – the channels together have the luminosity asked
  for, in the gamut or not. Both leave out the colours for which a number on the way
  does not fit (`Overflows`) and channels at their maximum (section 4).
* `UnderstoodAsShown` – editing, echo and parsing agree: what a line calls for is
  read off the screen, by words, with numbers as large as they are written. It
  excepts answers that are no number (`NoNumber`) and numbers that are too large
  (`TooLarge`), which the code takes for others (section 4).
* `OverlaysInOrder`, `StaleIsDirty`, `Converges`, `RequestsFinish`,
  `ChangesWaitForStrobe` – the mixer.
* `SettledAlike`, `ListedIsServed` – the services at rest, and the list of
  clients but for the case that section 4 names.
* `CallsAsMeant`, `NothingHeldBack` – the protocol: a prefix of the calls, and
  all of them once the bytes are there. What a call means (`Meant`) is written
  down without the libraries' encoders: a value of 8 bit is the same part of the
  range as one of 16 bit, a colour without alpha is opaque (0xFFFF). Java's
  `setRGB16` is excepted by name (`Faint`), and so are connections that a library
  has garbled, by a short token from Java or a short write in Rust (section 4).
* `FadesTogether`, `StopsAfterSignal` – the blinker.

Deadlock is checked in `bus`, `board`, `config` and `saved_is_loaded`. It is
off where the system or its bounded model really may stop: a receiver or a
console's port that has panicked, a division by zero in `calibration`, a mixer,
services or a protocol whose requests are used up, a blinker that has ended.

### Bounds and why they are enough
*Receiver.* With two buffers, the ring is empty, full or in between, and wraps
around at its end; commands of two lengths and an unknown code exercise every
branch of `length_check`. The proofs of section 5 remove these bounds for
safety. A failure record of two bits with threshold two has records below and
at the threshold, so the board panics in the run.

*Console's port.* The instance keeps what matters of 80/50/40/10: an input ring
with `Lag + 4` places above the threshold (a larger threshold only lengthens
the way there), and an output ring of two, which wraps, with a transmitter that
holds two more. Both relations between the constants are needed. With one
place less above the threshold `FlowControlHolds` is violated; the characters
on their way when XOFF is sent are one that the handler has not read, one for
each of the two characters in front of XOFF and one for XOFF itself, and then
the terminal's lag (the board has ten places, for a lag of six). With
`XON_TRESHOLD = XOFF_TRESHOLD` flow control characters can keep the text from
being sent for ever; `usart1.c:144-145` says of the repeated XOFF "I cannot see
any harm in that", which holds for the board's thresholds.

*Bus.* Two modules, so that the board under test ignores some frames and sees
updates in both orders; seven frames are two strobes of both modules and one
more frame, enough to fill and wrap a ring of two with damage in one strobe and
repair in the next. The two colours put both marks and the codes of escape
sequences into the data.

*Board.* One LED and the backup channel, so that an update of LEDs and one of
all channels differ; the configuration in RAM is what a reset leaves
(`DEFAULT`) or a rotated assignment, which `Boot` loads; two sensors, so that one can
end the tick before the other is looked at; records of three bits with
threshold two, so that a sensor may recover below the threshold.

*Configuration.* Two slots (the board has three) are enough for an entry in
use beside a free one, and for a full page; seven halfwords are the address, a
heat limit, what colour correction needs, the channels of one LED and the
backup channel, so that a copy is cut in every position. The numbers are one
that wraps around to 0, a valid limit that is no address, and one that is a
negative `int`; the assignments are a permutation, a double assignment and one
out of range. The space is finite without a further bound.

*Calibration.* Twelve bits, six of them behind the point, keep what matters of 32
and 16: the square of 1.0 is just more than a number holds, so that the
quotients by one and by two of the smallest fractions wrap around, and
`invert_3x3` loses as many of the smallest fractions as on the board. No LED has
an exact inverse: two have gamuts as real ones have, of which the second
gives other channels a trace of its own colours; the third has a gamut a third as
large, where a channel may get up to 13 of the smallest fractions of another one's
colour; the fourth has channels that are together brighter than a number holds;
the fifth has its colours in line, which is a division by zero. Chromaticities lie
all over the plane, luminosities below and above each channel's maximum. The bound
on the other channels' levels was also compared with 60,000 random calibrations at
20 and 10 bits, and at 32 and 16: it holds, and levels come close to it. With a
gamut of less than three of the smallest fractions `PrimaryAlone` claims nothing.
Printed are every fraction behind a few integral parts, and every integral part
before a few fractions, since `console_fixed` prints one after the other; typed
are all lines of up to five keys, and lines around the end of the buffer.

*Mixer.* Two connections are the least that compete for monitors and for a
shared token; six requests let both connect and authenticate and one set a
colour and strobe it while the other is freed, and connections break or close
without being counted. One LED is enough because the mixer treats LEDs
independently: the same invariants were also checked with two LEDs and seven
requests.

*Services.* Two threads compete for one monitor or use both; two LEDs make a
setting visible half-way; three requests let a kill come beside two settings.
*Protocol.* Three calls are an authentication, a set and a strobe; a token of two
bytes can be right or too short, and what is set has 8 bits, 16 bits, or 16 bits
without an alpha; the set
may fail and be repeated on the second connection. Bytes of LEDs, colours and
tokens are also opcodes, so that a decoder that lost its place would misread
them. *Blinker.* Three threads, of which one may wait for the mutex, one hold
it and one draw a colour; two steps have a first, an intermediate and a last
colour; the options are the kinds `str_to_ids` tells apart, wrong ones
included.

### Fairness
`Usart2!FairSpec`: the main loop runs, `WF(MainLoop)`, since the interrupt
handler is far faster than a byte on the bus; nothing is assumed of the bus.
`Usart1!FairSpec`: the handler, the line and a `putchar` that is begun go on;
`SF` of `usart1_getchar`, since the console returns to reading after each
command and is kept from it only by its own output and by interrupts. The
terminal is not fair, it may never type again, and the console need not write.
`Mixer!FairSpec`: each thread goes on, `WF` of the mixer thread's and of each
connection's steps. Java's monitors are not fair, so with endlessly many
requests a thread could be overtaken for ever; the liveness results are about
what happens once requests cease, which is what `Converges` says and what
`MaxRequests` makes of `RequestsFinish`. `BlendFails` and requests are not
fair. `Prompt!FairPrompt`: `save_config` runs on, since nothing else does
meanwhile. `Board!FairSpec`: the main loop and the system timer, `WF` of
`Main` and of `Systick`; the console's user, the bus and the temperature are
not fair. `Blinker!FairSpec`: the main thread and every other thread are
scheduled; the mutex need not be fair, because a thread asks for it a bounded
number of times once the flag is set. `Bus`, `Calibration`, `Protocol` and
`Services` have no fairness: nothing is claimed of them but safety.

## 4. Disagreements found

Two are runs that are expected to fail and print the behaviour.

| Run | What a comment or document says | What the code does |
|---|---|---|
| `start_restarts` | `usart2.c:211-213`: "Whatever the state is" a start mark starts a command | not after an escape mark (187-201), and `isr_read_error` does not reset `isr_escape` |
| `saved_is_loaded` | `config.c:181`: "Saves the configuration to flash." | with no entry in use, the `CONFIG_ENTRY_OLD` write goes to `entry_status[ENTRY_COUNT]`, which is `entries[0].my_address`: the address is saved as 0 (`config.c:241`) |

Others were met while modelling. They have no run of their own; the models do
what the code does, and the properties are about what holds all the same, with the
exceptions they name.

Firmware:
* `usart2.c:58-60` says the overflow flag is checked by the next call and an
  error sent; the report comes before the reset (126-129), so that a command
  dropped in between is not reported by itself. `FlagIsReported` is about the
  flag.
* `usart1.h:17`: `usart1_getchar` returns the next character received; the
  handler reads the status (`usart1.c:206`) and then always the data register
  (212), and a character that arrives in between is cleared and not stored.
* `config.c:112-113`: 0xffff "stands for a free slot"; after an interrupted
  copy the slot is half programmed, later saves fail for good, and the page is
  not erased because a free slot is found. `FailsOnlyDisturbed` excludes it.
* `error.c:87` "Reset the system": the write to the control register (88) lacks
  the key (`SCB_AIRCR_VECTKEY`) and has no effect; an overheated board stays
  dark and goes on running. `main` does not look at the heat while the console
  runs.
* `error()` with `EA_PANIC` in an interrupt handler repeats its message
  (`error.c:93-96`) through `usart1_putchar`, whose ring only `isr_usart1`
  empties, and no interrupt preempts another (no priorities are set): after 80
  characters `putchar` waits for ever, and the LED stops blinking.
* `fail.h:15` calls the failure record "A record of the last eight events.";
  `fail_event` shifts an `int` and keeps 32 (with eight, the threshold of 20
  were out of reach).
* `color.c:33-35` says that `color_correct` gives "the appropriate PWM channel
  settings". The quotient of 1.0 by a share of 1/65536 is 65536.0 and wraps around to
  0, by 2/65536 to the most negative number (74): the LED is dark, or lit by odd
  fractions. `invert_3x3` leaves such shares where an exact inverse has 0; of random
  LEDs about one primary in twenty has one. The luminosity of three channels of
  together more than 32767 wraps around likewise (67). `Overflows` excepts both.
* `color.c:64-66` says that at a luminosity that is not possible a colour is
  "reproduced darker". A channel at 1.0 is switched off, since only the fractional
  part of its level is kept (80), and the third channel is not limited (71).
* `console.c:318-319` says that without a valid integer `E_ARG_FORMAT` is returned.
  `parse_int` asks for no digit (336): an empty line, or one that begins with a
  blank, is the number 0, so that a file pasted with CRLF line ends answers the
  next question. `console.c:314-316` says "the parsed integer is stored in *target";
  of a number of 2^32 or more the low 32 bits are (331). `UnderstoodAsShown` excepts
  both.
* `console_prompt.c:77-78` tells the user "Finish with q on a single line";
  `run_echo` goes on while the line is "q" and ends with any other (275-279).
  Address 0xfd is taken for the broadcast address in warnings
  (`console_prompt.c:140`, `config.c:285`); it is 0xff (`command.c:14`).
* A line that fills the console's buffer has no end and is read beyond it; pasted
  files may nest without a limit.

Daemon and protocol:
* `HACKING:89-91` says that changes "don't take effect until you issue a strobe
  command, at which point they take effect all at once"; with a persistent
  token all connections share one overlay (`Manager.scala:13`), whose strobe
  copies all of its back (`Overlay.scala:27`), so that another connection's
  strobe shows half-made changes. `ChangesWaitForStrobe` is therefore about
  overlays a connection has to itself.
* A kill overtaken by an error leaves its client on the list of clients for
  ever (`exceptionCaught` removes the client which `channelClosed` needs);
  `ListedIsServed` names these as `overtaken`.
* Webhooks are made in order and may arrive in any (`Notifications.scala:16`).
* `Buffer.dirtyModules` is written and never read: every strobe sends all
  modules, which `OneStrobeHeals` needs.
* `HighPrecisionSetMessage.serialize` writes the low precision opcode
  (`Message.scala:86-87`); the daemon does not call it.

Client programs:
* Java: the new connection after a failed write is not authenticated. `setRGB16`
  sends an alpha of 255 (`VaporLight.java:21`), of 65535 all but transparent, where
  `HACKING:75-77` says that 0xFFFF is opaque (`Faint`). A token goes out as it is
  (`VaporLight.java:105`), though `HACKING:66` says "Shorter tokens are to be
  padded": the daemon completes it by what follows.
* Rust: `send` calls `write` (`lib.rs:47`), which may write a part of a command, and
  drops the rest; `HACKING:62` says that all commands consist of an opcode and a
  payload. Such a connection, and one with a short token from Java, is `garbled`.
* Go: `Close` calls itself (`vaporlight.go:128-130`).
* C++ blinker: the default for the colour set is always replaced, so that
  without `--colors` an empty vector is indexed (`main.cpp:86`,
  `core.cpp:20,28`); `str_to_ids` never leaves a range, so that 1-3,5 is 1, 2,
  3, 1, 2, 3, 4, 5, and a range up to the largest id does not end; a failing
  flush in a thread terminates the program.
* Emulator: its frames and its strobe address are those of an earlier
  protocol.

## 5. Proofs

`Bus_proofs` proves, first of the receiver, for every ring size, buffer length, pair of command
lengths that fit, byte set, address, record width and threshold
(`ByteAssumption`, `LengthAssumption`, `FailBitsAssumption`):

* `TypeCorrect`: `Spec => []TypeOK`
* `RingSafe`: `Spec => []RingConsistent`
* `NoBufferOverrun`: `Spec => []WithinBuffer`
* `CommandsStable`: `Spec => PendingUntouched`
* `CommandsComplete`: `Spec => HandsOverComplete`
* `ImplementsQueue`: `Spec => QueueSafety`, the refinement of `CommandQueue`
  without its fairness

The inductive invariant is `IInv == TypeOK /\ RingConsistent /\ OnTrack`. None
of the three is inductive alone: that `commands_pending` stays in range when a
command is completed needs `isr_state = "READING" => commands_pending <
USART_BUFFER_COUNT` (the handler tests for space when it *begins* a command,
and only the handler increments); that it does not become negative when a
command is freed needs `is_reading => commands_pending > 0`; that
`isr_write_idx` stays in range needs `OnTrack`, which ties what is stored and
what is awaited to the length of the command whose code is in the buffer.
`MainLoopIInv` and `InterruptIInv` have one step per action, with lemmas for
`StoreByte`, the only action that disturbs all three. `WithinBuffer` follows
from `OnTrack` and `TotalLengthType`. The action properties use `IInv` before
the step and `WriterNotPending`: the buffer being written is never pending.
For the refinement, `FreeFinishes` and `StoreArrives` show that freeing a
command takes the head off the abstract queue, and completing one appends it;
`StepImplements` goes through the other actions, which start, halt, or stutter.

`Usart1_proofs` proves, for rings of every size, all thresholds with
`XON_TRESHOLD <= XOFF_TRESHOLD < INPUT_BUFFER_LENGTH` and every lag
(`TextAssumption`, `BufferAssumption`):

* `ConsoleTypeCorrect`: `Spec => []TypeOK`
* `TransmitterAlwaysWorks`: `Spec => []TransmitterWorks`
* `StopMeansFull`: `Spec => []StoppedIsFull`
* `FlowControlWorks`: `Spec => []FlowControlHolds`, if `INPUT_BUFFER_LENGTH >=
  XOFF_TRESHOLD + 4 + Lag`
* `OutputInOrder`: `Spec => OutputQueue!Spec`, the safety part of
  `OutputIsSent`, and `InputInOrder`: `Spec => InputIsRead`: both directions
  implement `CharQueue`

The first three rest on `IInv`: the types; `UartConsistent` (TXEIE is off
exactly when the transmitter is idle, which it is not with anything to send;
the line is busy while TDR is); `PutcharConsistent` (whoever has found the ring
full and not yet tested TXEIE finds it full, or one character short and TDR in
use); `FlowConsistent` (`xon_sent` and the last word on its way to the
terminal, against the characters in the ring). For the last
one `MarginInv` adds a budget, `MarginKept`: once XOFF is the last word, the
characters in the ring, those not yet stored (`Unread`) and those the terminal
can still send before it obeys (`Remaining`: one per character in front of
XOFF, and the lag) never exceed `XOFF_TRESHOLD + 4 + Lag`. Every step moves
characters between the three terms or uses one up: an arrival takes one from
`Remaining` to `Unread`, the handler from `Unread` to the ring, a character
sent lowers `Remaining`; another XOFF does not raise it.
For the refinements, `RingPut` and `RingGet` say once what storing a character
and taking one out do to a ring of any length read as a sequence, wrap-around
included. They need `OutputLinked` and `InputLinked`: the write index is where
the next character goes, which the code never computes from the read index.
`SendPendingStep` shows that a character that moves into the UART keeps its
place among what is on its way, because the register is empty when it does
(`UartConsistent`), and `TransmitStep` that only text leaves the queue.

`Prompt_proofs` proves, first of the store, for any number of slots, any length of an entry
and any configurations (`ConfigStoreAssumption`):

* `StoreTypeOK`: `Spec => []TypeOK`
* `OneEntryInUse`, `SavedIsFound`, `UndisturbedSucceeds`: `OneInUse`,
  `SaveIsDurable`, `FailsOnlyDisturbed`
* `StoreAtomic`: `Spec => AtomicSave`

`IInv` says what `save_config` knows at each of its stages. `SearchHolds`: the
slots the search found, or did not, are the page's slots in use and free.
`CopyIsFaithful`: the halfwords of the new entry before the index are
those of the configuration. `NothingSavedYet`, `SavedIsInUse`: `saved` is
set only between two saves, and then the slot in use holds it. `FlashIsFresh`: undisturbed, no error flag is raised and no slot
is half programmed. `OneInUse` is not inductive by itself: `MarkInUse` keeps it
only if `MarkOld` has run, which the stages say. That a free slot exists after
an erase, and that it is the first, uses that a set of numbers has a least
element, which the library states for well-founded relations
(`NatLessThanWellFounded`, `WFMin`).

The console builds on it (`PromptAssumption`): each command of the console
is a step of the store, or leaves the page alone, so that

* `PromptStoreSafe`: `PromptSpec => [](OneInUse /\ SaveIsDurable /\
  FailsOnlyDisturbed)` and `PromptStoreAtomic`: `PromptSpec => AtomicSave`
* `PromptTypeCorrect`: `PromptSpec => []PromptTypeOK`
* `NormalRunsValid`: `PromptSpec => []RunsValid`

The last one needs `OnlyValidKept`: what is in use on the page, and what is
being saved, has its channels apart, though the configuration being
edited need not have, and a reset may cut the save short. That the counting of
`config_valid` finds every double assignment is a lemma: with `3 *
RGB_LED_COUNT + 1` channels, if at most one channel is not counted exactly once
and the backup channel takes it, no two LEDs share one.

The same module proves of `LineInput`, for a buffer of any size, any lines and any
memory behind the buffer (`LineInputAssumption`):

* `LinesUnderstood`: `InputSpec => []UnderstoodAsShown`

A line is made and understood in one step, so that the induction is over its
keys, not over steps: `RunExists` and `RunTyped` say what goes for every function
that takes a sequence element by element. `Edited` is the invariant of
`console_getline`: up to `i` the buffer holds what the terminal shows left of the
cursor, and nothing but zeros from there on (`RuboutEdited`, `PutEdited`,
`FullEdited`: the `X` that a full buffer echoes is overwritten by the next
character). The memory then begins with the text on the screen and its end
(`Holds`), where the loops of the parser stop (`Skips`). Words are numbered by
how many begin up to a place (`Rank`): after a word and the blanks behind it the
parser is where the next begins, or there is no other (`NextWord`), so that the
`k`th argument read is word `k + 1` (`ArgumentsRead`). A first word that is not made
of letters and digits only, like `?` or `a-`, stops the parser in its middle, where
no number is: such a command can only be one without arguments (`NoArguments`).
The screen's numbers have no limit (`Value`), the parser's wrap around (`Number`):
`NumberIsValue` says that they agree below `NUMBER_LIMIT`, because no sum on the
way is more than the last one (`SumsGrow`), and `CommandIsTaken` that a command
then has the arguments shown.

`Board_proofs` proves for any number of LEDs, sensors, channels in any valid
assignment, and records of any width (`BoardAssumption`):

* `BoardTypeOK`: `Spec => []TypeOK`; `SystickAccounted`: `Spec =>
  []TicksAccounted`
* `BoardImplementsLamps`: `Spec => LampSpec`, the refinement of `Lamps`

`IInv` adds to the types that a tick still owed has its flag set, or the check
that covers it under way (`CheckIsFlagged`), that the configuration is
`Distinct` once the main loop runs (`ConfigIsValid`), and that a command being
run is the head of the receiver's queue (`CommandIsHeld`). The refinement goes
action by action: `convert_channel_index` is one-to-one under a valid
assignment, so that an update read back through the configuration is the
update of `Lamps`, on no other lamp. `BoardAssumption` asks the
configurations to be valid, which is what `Prompt_proofs` proves of the
configurations a board runs with.

`Mixer_proofs` proves for any number of connections, tokens, LEDs and requests
(`MixerAssumption`: the names are apart, priorities are numbers not below the
background's):

* `MixerTypeOK`: `Spec => []TypeOK`
* `OverlaysStayInOrder`: `Spec => []OverlaysInOrder`
* `NothingOverlooked`: `Spec => []StaleIsDirty`
* `StagedUntilStrobe`: `Spec => ChangesWaitForStrobe`

`IInv` has the list (`ListIsSound`: the background first, no overlay twice, the
persistent ones there; `ListIsSorted`), what each connection knows about its
overlay at each point of `auth`, `strobe` and `free` (`Known`), the buffers
(`DirtyIsMarked`: where front and back differ the back is dirty, and what is
dirty has a colour), and `StaleIsDirty`. The last needs all the others: a freed
overlay takes its dirty marks with it, and nothing is overlooked only because
what is dirty in it has a colour, and every LED it has a colour for is marked in
the background, which is always in the list. `BlendSame` and `BlendWithout` say
when the blend of the overlays does not change; `Registers` and `Removes` what
`insert` and `-=` do to a sorted list (`InsertAt` and `RemoveFirst` of the
community modules, through lemmas of their own).
No order of the monitors is needed for safety: the invariants hold whoever
holds what, and only `RequestsFinish` and `Converges` depend on it.

`Services_proofs` proves for any number of threads, LEDs, settings, URLs and
connections (`ServicesAssumption`):

* `ServicesSettle`: `Spec => []SettledAlike`
* `ListIsRight`: `Spec => []ListedIsServed`
* `ServicesTypeCorrect`: `Spec => []ServicesTypeOK`

For the first, the invariant follows a request through its monitor: who holds
it, and which LEDs of the overlay already have the new value while
the rest, the field and the webhooks have the old one. For the second, it
relates the channel's state, the handler's client and the kill under way to the
list, for each connection.

Of the bus, `Bus_proofs` proves, on top of this and for any number of modules,
channels, buffers and frames, any assignment of LEDs to channels, all colours of
16 bit brightnesses and every byte set (`BusAssumption`):

* `BusDrivesReceiver`: `BusSpec => Spec`, so that what is proved of `Usart2`
  holds for the board at the end of the line
* `SentCommands`: `BusSpec => []OnlySentCommands`
* `WholeFramesStored`: `BusSpec => WholeFrameStored`
* `StrobeHeals`: `BusSpec => []OneStrobeHeals`

`BusAssumption` asks what the settings must provide: every channel's
module and position exist, no module has the address for all, the board's
address is one of the modules, and its number of channels is the one the board
is compiled for (`SET_RAW_LENGTH = 1 + 2 * channelCounts[my_address]`). With
fewer channels in the settings the board would wait for bytes that never come and
lose every update at the next start mark; with more it would ignore the rest.

The inductive invariant has, besides `Usart2`'s `IInv` and the types, three
parts. `Tracking` says where the board is in the frame under way: what is left
on the line is a frame from its start mark on, or a rest without a start mark
that an idle board skips, or exactly the bytes still to come after the `k` bytes
of the payload that the board has got, the first `k - 1` of the command being in
its buffer (`Following`); a board in the middle of an escape sequence has the
second half of it in front of it. `UnsentProperties` is what makes this work for
payloads of any length: the frame that `Framer.write` makes, which the model
writes as a fold, has for each `k` a rest that begins with the escaped byte `k +
1`. `Ownership` relates the ring to the numbers of the frames its commands came
in: they rise along the ring, from the command run last to the frame under way.
`Arrival` is about the latest strobe, as long as all that was sent for it has
arrived: there are two frames, `u` with the board's update and `last` with the
strobe, that are each still to be sent, under way, in the ring, or run; from `u`
on nothing else is for the board; the lamps hold the strobe's state once `u` is
run, and show it once `last` is. The strobe cannot be run before the update,
because of the order in the ring (`RunHealing`). None of the three mentions what
was sent before: that is why one strobe is enough.

`Protocol_proofs` proves for every library, any number of connections and
calls, every length of a token, and all tokens, LEDs and colours
(`ProtocolAssumption`):

* `ProtocolTypeCorrect`: `Spec => []TypeOK`
* `CallsMeant`: `Spec => []CallsAsMeant`
* `NothingIsHeldBack`: `Spec => []NothingHeldBack`

The inductive invariant, `IInv`, relates the bytes of a connection to the calls
made on it. `Following`: there is a number `n` of calls that the daemon has
run, and the opcode the decoder has kept, its buffer and what is on the wire are
together the bytes of the calls after the `n`th, up to those `lost` at
the end of a connection that has failed. `Opened` says what is known of
connections not yet opened, not yet accepted, or closed, and that the decoder
keeps an opcode only if it has a payload; `Collected` that C++'s `cmd_buffer` is
the bytes of the calls that wait for a strobe. Neither property is inductive
without this: nothing in the daemon knows where a command begins but for what
it read before. A write appends commands at the end (`Wrote`), of which a
failing one loses the last byte; a piece received moves bytes from the wire to the
buffer (`Received`), an opcode kept moves from the buffer to `nextOp`
(`OpcodeKept`), and neither changes what is pending; a command run takes the
first one off it (`CommandRun`), because a payload has the length its opcode
announces unless the connection is `garbled`, and then `Parse` of what was
encoded is what the call says (`ParsedAsSaid`: 16 bit numbers from their
bytes, 8 bit brightnesses by 257, the alpha that a library gives a colour without
one, each library's padding of tokens), which is what it means but for Java's
faint colours (`SaidAsMeant`, `RunAsMeant`). `NothingHeldBack` follows, since a command
not run would be in the decoder as a whole, which then would not wait. The bytes
of several calls are a sequence with one rest for each of them (`IsRest`)
instead of a fold, and the overlay after `n` calls, which `After` computes
recursively, is compared with the run of the daemon by the least number where
they differ (`AfterRun`).

`Blinker_proofs` proves, for any number of LED ids and threads, any options and
colours, and fades in any number of steps (`BlinkerAssumption`,
`ThreadsAssumption`):

* `BlinkerTypeCorrect`: `Spec => []TypeOK`
* `FadesAreTogether`: `Spec => FadesTogether`

The inductive invariant, `IInv`, says that the thread in `set_leds` is the one
that holds the mutex (`MutexInv`), and that the common buffer is empty or what
this thread has put there in this call (`BufferInv`; an exception in the flush
leaves the mutex held, but the program ends). `WrittenInv` says that what a thread
wrote last is the colour its fade has reached, which in a fade's first step is the
colour of the fade before. Two steps of a fade are near each other because their
numerators differ by at most a byte (`LevelsNear`, from `NearQuotients`); that
the LEDs are a list of ids for every option (`ListOfIds`) is an induction over
its words.

### What stays with TLC
* Liveness and `ENABLED`, out of the prover's reach: `EveryCommandRuns`,
  `FlagIsReported`, `OverheatStops`, `SaveReturns`, `InputResumes`, `Converges`,
  `RequestsFinish`, `StopsAfterSignal`, and the fairness of `QueueSpec` and
  `OutputIsSent`.
* `PrintedExactly`, `PrimaryAlone`, `LuminosityKept`: they are about rounding and
  wrap-around in products of numbers of `WIDTH` bits. The prover knows nothing of
  powers (`2 ^ n`) and its solver decides no products of unknowns; the digits
  printed are besides a recursion on quotients. `calibration` takes fractions of every
  value and colours all over the plane.
* What a recursive definition computes is proved where an invariant over its steps,
  or a least counterexample, says it: the frames of the bus, the calls of a
  connection, the blinker's list of LEDs, the console's lines.

## 6. Not modelled, and why
Of the 13.8 thousand lines of C and C++ in the repository, 7.5 thousand are
vendored register definitions (`led-boards/stm_include/`), which have no
behaviour. Of the rest about a third is translated here. What remains is
setting up the hardware (clock, pins, the PWM's timers, the converter and its
DMA channel, the vector table), trace output, texts and usage messages,
declarations and comments, and the parts below.

* Opening devices and sockets, HTTP routes and pages, reading the settings: I/O.
* C++ fade and shell: one thread that calls the client in a loop. What the
  client does with the calls is in `Protocol`.
* The bus emulator, a development aid that one thread runs and nothing depends
  on.
* pyVaporlight, an earlier daemon, superseded by the Scala one; one thread,
  the same protocols.
* Partial transparency (`Color.blendOver`): arithmetic on colours that the
  mixer's control does not depend on.
* A page erase cut short by a reset: it has no state the code could be checked
  against. Damage the UART does not detect is outside what the protocol can
  promise.
* `heat_init` and what the converter measures: in `Board` a sensor is hot or it
  is not.

## 7. How to run
In this directory: `tlc -config MCUsart2.cfg MCUsart2`, likewise for the
other configurations (`MCUsart2Start.cfg` goes with `MCUsart2`,
`MCConfigStoreAddress.cfg` with `MCConfigStore`);
`tlapm Bus_proofs.tla`,
and likewise for the other modules of proofs.

## 8. Plan
1. Proofs across the modules: the lamps of `Bus` are those of `Board` seen through
   its configuration, so that a strobe heals down to the duty cycles.
2. Modelling: the converter's sequence of channels and its DMA as `heat_init`
   sets them up, so that a sensor is its own.
