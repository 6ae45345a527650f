--------------------------------- MODULE Bus ---------------------------------
(***************************************************************************)
(* The LED bus end to end: the daemon keeps the state of all LEDs          *)
(* (hardware/Mapping.scala, hardware/Buffer.scala), at every strobe frames *)
(* the state of all modules (hardware/Encoder.scala, hardware/             *)
(* Framer.scala) and writes it byte by byte on the RS485 line; the line    *)
(* damages bytes; a board (Usart2) decodes them and runs the commands.     *)
(*                                                                         *)
(* out holds the frames of the current strobe that are still to be sent,   *)
(* wire the bytes of the frame being sent, lamps the brightnesses the      *)
(* board has stored and shown those its lamps have.  The other new         *)
(* variables are history: the frame being sent, what became of its bytes,  *)
(* the frame each ring buffer was filled from, the number of the latest    *)
(* frame whose command was run, the state at the latest strobe, and        *)
(* whether all that was sent for it has arrived so far.                    *)
(***************************************************************************)
EXTENDS Usart2, SequencesExt

CONSTANTS
  Led,
  channels,    (* settings: the module and position of a LED's channel,
                  where it has one                                           *)
  channelCounts,  (* settings: the channels of each module                   *)
  Colors,      (* colours: functions from channels to 16 bit brightnesses    *)
  MaxFrames    (* bound: frames sent                                         *)

Module == DOMAIN channelCounts
Brightness == {256 * high + low : high, low \in Byte}

(* The settings know the channels of every module, the board among them, a
   command has one brightness for each of the board's, and no module has the
   address for all of them.  Brightnesses are sent as two bytes. *)
ASSUME BusAssumption ==
  /\ MaxFrames \in Nat
  /\ {1, BROADCAST} \subseteq Byte
  /\ IsFiniteSet(Module)
  /\ Module \subseteq Byte \ {BROADCAST}
  /\ \A module \in Module : channelCounts[module] \in Nat
  /\ my_address \in Module
  /\ SET_RAW_LENGTH = 1 + 2 * channelCounts[my_address]
  /\ \A lc \in DOMAIN channels :
       /\ channels[lc][1] \in Module
       /\ channels[lc][2] \in 1 .. channelCounts[channels[lc][1]]
  /\ Colors \subseteq [{"red", "green", "blue"} -> Brightness]

VARIABLES
  moduleLedStates, dirtyModules,            (* Buffer                        *)
  out, wire, lamps, shown,
  frame, condition, owner, latest, strobed, arrived

buffering == <<moduleLedStates, dirtyModules>>
lighting  == <<lamps, shown>>
busVars == <<buffering, out, wire, lighting, frame, condition, owner, latest,
             strobed, arrived>>

NoFrame == [number |-> 0, address |-> my_address, command |-> <<>>]

Dark(module) == [position \in 1 .. channelCounts[module] |-> 0]

BusInit ==
  /\ Init
  /\ moduleLedStates = <<>> /\ dirtyModules = {}
  /\ out = <<>> /\ wire = <<>>
  /\ lamps = Dark(my_address) /\ shown = lamps
  /\ frame = NoFrame
  /\ condition = "whole"
  /\ owner = [b \in Buffer |-> NoFrame]
  /\ latest = 0
  /\ strobed = <<>> /\ arrived = FALSE

-----------------------------------------------------------------------------
(* The daemon *)

(* Mutant: START_MARK goes out in the data as it is. *)
EscapedOnce(b) == IF b = ESCAPE_MARK THEN <<ESCAPE_MARK, 0>> ELSE <<b>>

Escaped(b) ==
  IF b = ESCAPE_MARK THEN <<ESCAPE_MARK, 0>>
  ELSE IF b = START_MARK THEN <<ESCAPE_MARK, 1>>
  ELSE <<b>>

(* Framer.write *)
Framed(payload) ==
  <<START_MARK>>
    \o FlattenSeq([i \in DOMAIN payload |-> Escaped(payload[i])])

(* Encoder.update, Encoder.strobe: the payloads of their frames *)
UpdateOf(module, values) ==
  [address |-> module,
   command |-> <<CMD_SET_RAW>> \o FlattenSeq(
                 [p \in DOMAIN values |-> <<values[p] \div 256, values[p] % 256>>])]
StrobeAll == [address |-> BROADCAST, command |-> <<CMD_STROBE>>]

(* Buffer.set: a module's channels are 0 until they are set. *)
BufferSet(states, module, position, value) ==
  LET old == IF module \in DOMAIN states THEN states[module] ELSE Dark(module)
  IN  [m \in DOMAIN states \cup {module} |->
         IF m = module THEN [old EXCEPT ![position] = value] ELSE states[m]]

(* Mapping.set for one channel, if the LED has it *)
SetChannel(states, led, color, c) ==
  IF <<led, c>> \in DOMAIN channels
  THEN BufferSet(states, channels[<<led, c>>][1], channels[<<led, c>>][2], color[c])
  ELSE states

(* Hardware.set, Mapping.set.  The mixer sets LEDs between two strobes; what is
   still under way on the line then does not change any more, so that it may as
   well have arrived. *)
Set ==
  /\ out = <<>> /\ wire = <<>>
  /\ frame.number < MaxFrames
  /\ \E led \in Led, color \in Colors :
       /\ moduleLedStates' =
            SetChannel(SetChannel(SetChannel(moduleLedStates, led, color, "red"),
                                  led, color, "green"),
                       led, color, "blue")
       /\ dirtyModules' = dirtyModules \cup
            {channels[lc][1] : lc \in ({led} \X DOMAIN color) \cap DOMAIN channels}
  /\ UNCHANGED <<vars, out, wire, lighting, frame, condition, owner, latest,
                 strobed, arrived>>

UpdatesInOrder(modules) ==
  [i \in DOMAIN modules |-> UpdateOf(modules[i], moduleLedStates[modules[i]])]

(* Mutant: only the modules with a change are updated. *)
UpdatesOfDirty == {UpdatesInOrder(modules) : modules \in SetToSeqs(dirtyModules)}

(* An update for each module that has ever been set, in any order *)
Updates ==
  {UpdatesInOrder(modules) : modules \in SetToSeqs(DOMAIN moduleLedStates)}

(* Hardware.strobe, Mapping.strobe, Buffer.strobe *)
Strobe ==
  /\ out = <<>> /\ wire = <<>>
  /\ \E updates \in Updates : out' = Append(updates, StrobeAll)
  /\ frame.number + Len(out') <= MaxFrames
  /\ dirtyModules' = {}
  /\ strobed' = moduleLedStates
  /\ arrived' = ~isr_escape
  /\ UNCHANGED <<vars, moduleLedStates, wire, lighting, frame, condition, owner, latest>>

(* A frame follows on the one before it. *)
Send ==
  /\ wire = <<>> /\ out # <<>>
  /\ out' = Tail(out)
  /\ wire' = Framed(<<Head(out).address>> \o Head(out).command)
  /\ frame' = [number  |-> frame.number + 1,
               address |-> Head(out).address,
               command |-> Head(out).command]
  /\ condition' = IF isr_escape THEN "damaged" ELSE "whole"
  /\ UNCHANGED <<vars, buffering, lighting, owner, latest, strobed, arrived>>

(* The daemon dies in the middle of a strobe and is started again. *)
Abandon ==
  /\ wire # <<>>
  /\ out' = <<>> /\ wire' = <<>>
  /\ moduleLedStates' = <<>> /\ dirtyModules' = {}
  /\ condition' = "damaged"
  /\ arrived' = FALSE
  /\ UNCHANGED <<vars, lighting, frame, owner, latest, strobed>>

-----------------------------------------------------------------------------
(* The line *)

(* The next byte arrives. *)
Carry ==
  /\ wire # <<>>
  /\ ReceiveByte(Head(wire))
  /\ wire' = Tail(wire)
  /\ owner' = IF commands_pending' > commands_pending
              THEN [owner EXCEPT ![isr_write_buffer] = frame]
              ELSE owner
  /\ LET dropped == isr_state = "GOT_START" /\ RingFull IN
       /\ condition' = IF dropped THEN "dropped" ELSE condition
       /\ arrived' = (arrived /\ ~dropped)
  /\ UNCHANGED <<buffering, out, lighting, frame, latest, strobed>>

(* The hardware reports an error: noise between two bytes, a byte received
   with an error, or an overrun, which costs two bytes. *)
Damage ==
  /\ LineError
  /\ \E lost \in {n \in 0 .. 2 : n <= Len(wire)} :
       wire' = SubSeq(wire, lost + 1, Len(wire))
  /\ condition' = "damaged"
  /\ arrived' = FALSE
  /\ UNCHANGED <<buffering, out, lighting, frame, owner, latest, strobed>>

-----------------------------------------------------------------------------
(* The board's main loop *)

(* run_set_raw, run_strobe *)
Light(command) ==
  /\ lamps' = IF command[1] = CMD_SET_RAW
              THEN [p \in DOMAIN lamps |-> 256 * command[2 * p] + command[2 * p + 1]]
              ELSE lamps
  /\ shown' = IF command[1] = CMD_STROBE THEN lamps ELSE shown

Board ==
  /\ MainLoop
  /\ IF main = "run"
     THEN latest' = owner[read_buffer].number /\ Light(CommandIn(isr_buffers[read_buffer]))
     ELSE UNCHANGED <<latest, lighting>>
  /\ UNCHANGED <<buffering, out, wire, frame, condition, owner, strobed, arrived>>

BusNext == Set \/ Strobe \/ Send \/ Abandon \/ Carry \/ Damage \/ Board

BusSpec == BusInit /\ [][BusNext]_<<vars, busVars>>

-----------------------------------------------------------------------------
(* Properties *)

(* Whatever bytes the line loses or damages, and wherever the daemon stops in
   a frame, a command a board runs is one the daemon has sent to it, whole and
   unchanged, as long as the hardware notices the damage; and it runs them in
   the order in which they were sent, none of them twice. *)
OnlySentCommands ==
  /\ \A b \in Pending :
       /\ CommandIn(isr_buffers[b]) = owner[b].command
       /\ address_filter(owner[b].address)
  /\ \A k \in 1 .. commands_pending - 1 :
       owner[Slot(k - 1)].number < owner[Slot(k)].number
  /\ commands_pending > 0 =>
       IF main = "free" /\ is_reading
       THEN latest = owner[read_buffer].number
       ELSE latest < owner[read_buffer].number

(* Once a frame has gone over the line whole, its command is in the ring of
   the board it is addressed to, unless there was no buffer for it when its
   address arrived.  A frame that follows an interrupted escape sequence does
   not count as whole (see StartMarkRestarts). *)
WholeFrameStored ==
  [][/\ Len(wire) = 1 /\ wire' = <<>>
     /\ condition' = "whole"
     /\ address_filter(frame.address)
     => owner'[isr_write_buffer] = frame]_<<vars, busVars>>

(* One strobe whose frames arrive is enough: when the board has run what it
   received, it shows the colours that the daemon held at that strobe, on all
   its channels, whatever updates and strobes were lost, damaged or dropped
   before, and although nothing that was set before them is set again. *)
OneStrobeHeals ==
  (/\ arrived /\ out = <<>> /\ wire = <<>>
   /\ commands_pending = 0
   /\ my_address \in DOMAIN strobed)
  => shown = strobed[my_address]

=============================================================================
