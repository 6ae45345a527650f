----------------------------- MODULE Board_proofs -----------------------------
(***************************************************************************)
(* Proofs about Board, for any number of LEDs, sensors and commands: every *)
(* systick is accounted for, and the board keeps what Lamps promises to    *)
(* the bus.                                                                *)
(***************************************************************************)
EXTENDS Board, WellFoundedInduction, SequenceTheorems, TLAPS

(* The heat check goes on only while its flag is set. *)
CheckIsFlagged == pc \in {"tick", "reset_flag"} => do_heat_check

(* The main loop has a valid configuration: it was found, or it was entered
   before the console was left. *)
ConfigIsValid == found \/ pc \in Loop => config \in Configs

(* Which command runs; one that does is at the head of the queue. *)
CommandIsHeld ==
  /\ pc = "poll" => ~running
  /\ pc = "run" => running
  /\ running => queue # <<>>

IInv == TypeOK /\ TicksAccounted /\ CheckIsFlagged /\ ConfigIsValid /\ CommandIsHeld

-----------------------------------------------------------------------------
(* The largest number of a set *)

LEMMA LessThan ==
  ASSUME NEW m \in Nat, NEW n \in Nat, m < n
  PROVE  <<m, n>> \in OpToRel(<, Nat)
<1>1. <<m, n>> \in Nat \X Nat
  OBVIOUS
<1>2. <<m, n>>[1] < <<m, n>>[2]
  OBVIOUS
<1> QED
  BY <1>1, <1>2, Zenon DEF OpToRel

(* A set of naturals with an upper bound has a largest element: the bound less
   the smallest distance to it. *)
LEMMA Largest ==
  ASSUME NEW bound \in Nat, NEW S \in SUBSET (0 .. bound), S # {}
  PROVE  \E m \in S : \A n \in S : n <= m
<1> DEFINE T == {bound - n : n \in S}
<1>0. \A n \in S : bound - n \in Nat
  OBVIOUS
<1>1. T \subseteq Nat /\ T # {}
  BY <1>0, Zenon
<1>2. PICK d \in T : \A e \in T : <<e, d>> \notin OpToRel(<, Nat)
  BY <1>1, NatLessThanWellFounded, WFMin, Zenon
<1>3. \A e \in T : ~ e < d
  BY <1>1, <1>2, LessThan, Zenon
<1>4. PICK m \in S : d = bound - m
  BY <1>2
<1>5. \A n \in S : ~ (bound - n < bound - m)
  BY <1>3, <1>4
<1> QED
  BY <1>5

-----------------------------------------------------------------------------
(* Channels and brightnesses *)

LEMMA Lengths ==
  /\ MODULE_LENGTH \in Nat /\ MODULE_LENGTH = 3 * RGB_LED_COUNT + 1
  /\ Channel = LedChannel \cup {MODULE_LENGTH - 1}
  /\ MODULE_LENGTH - 1 \notin LedChannel
  /\ LedChannel \subseteq Channel /\ LedChannel \subseteq Nat
BY BoardAssumption DEF Channel, LedChannel

LEMMA ConvertType ==
  ASSUME config \in Config, NEW c \in Channel
  PROVE  convert_channel_index(c) \in Channel
BY Lengths DEF Config, convert_channel_index

(* With a valid configuration no two channels are converted to one. *)
LEMMA ConvertInjective ==
  ASSUME config \in Configs, NEW c \in Channel, NEW d \in Channel,
         convert_channel_index(c) = convert_channel_index(d)
  PROVE  c = d
BY Lengths, BoardAssumption DEF Config, convert_channel_index, Distinct

LEMMA SetBrightnessType ==
  ASSUME TypeOK, NEW D \in SUBSET Channel, NEW data \in [D -> Value],
         SetBrightness(data)
  PROVE  pwm_values' \in [Channel -> Value]
<1> SUFFICES ASSUME NEW p \in Channel, \E c \in D : convert_channel_index(c) = p
             PROVE  data[CHOOSE c \in D :
                           /\ convert_channel_index(c) = p
                           /\ \A d \in D : convert_channel_index(d) = p => d <= c]
                      \in Value
  BY DEF SetBrightness, TypeOK
<1> DEFINE S == {c \in D : convert_channel_index(c) = p}
<1>1. S \in SUBSET (0 .. MODULE_LENGTH - 1) /\ S # {}
  BY DEF Channel
<1>2. MODULE_LENGTH - 1 \in Nat
  BY Lengths, BoardAssumption
<1>3. PICK m \in S : \A n \in S : n <= m
  BY <1>1, <1>2, Largest
<1> QED
  BY <1>3

(* Each of data's channels gets its brightness, the others keep theirs. *)
LEMMA SetBrightnessEffect ==
  ASSUME TypeOK, config \in Configs,
         NEW D \in SUBSET Channel, NEW data \in [D -> Value],
         SetBrightness(data), NEW c \in Channel
  PROVE  pwm_values'[convert_channel_index(c)] =
           IF c \in D THEN data[c] ELSE pwm_values[convert_channel_index(c)]
<1> DEFINE p == convert_channel_index(c)
           Last(b) == /\ convert_channel_index(b) = p
                      /\ \A d \in D : convert_channel_index(d) = p => d <= b
<1>1. p \in Channel
  BY ConvertType DEF TypeOK
<1>2. \A d \in D : convert_channel_index(d) = p => d = c
  BY ConvertInjective
<1>3. pwm_values'[p] = IF \E b \in D : convert_channel_index(b) = p
                       THEN data[CHOOSE b \in D : Last(b)]
                       ELSE pwm_values[p]
  BY <1>1, DOMAIN data = D DEF SetBrightness
<1>4. CASE c \in D
  <2>1. c <= c
    BY Lengths DEF Channel
  <2>2. Last(c)
    BY <1>2, <2>1
  <2>3. \A b \in D : Last(b) => b = c
    BY <1>2
  <2>4. (CHOOSE b \in D : Last(b)) = c
    <3> HIDE DEF Last
    <3> QED BY <1>4, <2>2, <2>3
  <2>5. \E b \in D : convert_channel_index(b) = p
    BY <1>4
  <2>6. pwm_values'[p] = data[CHOOSE b \in D : Last(b)]
    <3> HIDE DEF Last
    <3> QED BY <1>3, <2>5, Zenon
  <2>7. pwm_values'[p] = data[c]
    <3> HIDE DEF Last
    <3> QED BY <2>4, <2>6, Zenon
  <2> QED
    BY <1>4, <2>7, Zenon
<1>5. CASE c \notin D
  <2>1. ~ \E b \in D : convert_channel_index(b) = p
    BY <1>2, <1>5
  <2> QED
    BY <1>3, <1>5, <2>1
<1> QED
  BY <1>4, <1>5

-----------------------------------------------------------------------------
(* The inductive invariant *)

LEMMA FailEventKeeps ==
  ASSUME NEW record \in Record, NEW failed \in BOOLEAN
  PROVE  FailEvent(record, failed) \in Record
<1>1. ASSUME NEW b \in record \ {FAIL_BITS - 1}
      PROVE  b + 1 \in 0 .. FAIL_BITS - 1
  BY FailBitsAssumption DEF Record
<1>2. 0 \in 0 .. FAIL_BITS - 1
  BY FailBitsAssumption
<1>3. FailEvent(record, failed) \subseteq 0 .. FAIL_BITS - 1
  BY <1>1, <1>2, Zenon DEF FailEvent
<1> QED
  BY <1>3, Zenon DEF Record

LEMMA DarkType == AllZero \in [Channel -> Value]
BY BoardAssumption DEF AllZero

LEMMA Sensors == 0 \in Sensor /\ HEAT_SENSOR_LEN \in Nat
BY BoardAssumption DEF Sensor

LEMMA CommandData ==
  ASSUME NEW command \in Command, command.code \in {"raw", "xyY"}
  PROVE  \E D \in SUBSET Channel :
           /\ command.data \in [D -> Value]
           /\ D = IF command.code = "raw" THEN Channel ELSE LedChannel
<1>1. CASE command.code = "raw"
  BY <1>1, BoardAssumption DEF Command
<1>2. CASE command.code = "xyY"
  BY <1>2, BoardAssumption, Lengths DEF Command
<1> QED
  BY <1>1, <1>2

LEMMA InitIInv == Init => IInv
<1> SUFFICES ASSUME Init PROVE IInv
  OBVIOUS
<1>1. config \in Config /\ (found => config \in Configs)
  BY BoardAssumption DEF Init
<1>2. heat_fails \in [Sensor -> Record]
  BY DEF Init, NoFailures, Record
<1>3. TypeOK
  BY <1>1, <1>2, DarkType, Sensors, BoardAssumption DEF Init, TypeOK, Starting
<1>4. TicksAccounted /\ CheckIsFlagged /\ ConfigIsValid /\ CommandIsHeld
  BY <1>1 DEF Init, TicksAccounted, CheckIsFlagged, ConfigIsValid, CommandIsHeld, Loop
<1> QED
  BY <1>3, <1>4 DEF IInv

(* What an action of the main program, or of a handler, may do to the outputs *)
OutputsTyped ==
  /\ pwm_values' \in [Channel -> Value] /\ ccr' \in [Channel -> Value]
  /\ enabled' \in BOOLEAN

LEMMA StopType == TypeOK /\ PwmStop => OutputsTyped
BY DarkType DEF PwmStop, OutputsTyped, TypeOK

LEMMA UpdateType ==
  ASSUME TypeOK, NEW D \in SUBSET Channel, NEW data \in [D -> Value],
         SetBrightness(data), ccr' = pwm_values' \/ ccr' = ccr, UNCHANGED enabled
  PROVE  OutputsTyped
BY SetBrightnessType DEF OutputsTyped, TypeOK

LEMMA BootColorsType == TypeOK /\ BootColors => OutputsTyped
<1> SUFFICES ASSUME TypeOK, BootColors,
                    NEW data \in [LedChannel -> Value],
                    IF found THEN SetBrightness(data)
                    ELSE pwm_values' = [p \in Channel |->
                           IF p \in LedChannel THEN data[0] ELSE pwm_values[p]]
             PROVE  OutputsTyped
  BY DEF BootColors
<1>1. ccr' = pwm_values' /\ UNCHANGED enabled
  BY DEF BootColors, pwm_send_frame
<1>2. CASE found
  BY <1>1, <1>2, UpdateType, Lengths
<1>3. CASE ~found
  <2>1. ASSUME NEW p \in LedChannel PROVE data[0] \in Value
    BY Lengths, BoardAssumption DEF LedChannel
  <2>2. pwm_values' \in [Channel -> Value]
    BY <1>3, <2>1 DEF TypeOK
  <2> QED
    BY <1>1, <2>2 DEF OutputsTyped, TypeOK
<1> QED
  BY <1>2, <1>3

LEMMA ConsoleColorsType ==
  TypeOK /\ (run_set_brightness \/ run_set_color) => OutputsTyped
<1>1. ASSUME TypeOK, run_set_brightness PROVE OutputsTyped
  <2>1. PICK c \in Channel, brightness \in Value :
          SetBrightness([i \in {c} |-> brightness])
    BY <1>1 DEF run_set_brightness
  <2>2. [i \in {c} |-> brightness] \in [{c} -> Value] /\ {c} \in SUBSET Channel
    OBVIOUS
  <2>3. ccr' = pwm_values' /\ UNCHANGED enabled
    BY <1>1 DEF run_set_brightness, pwm_send_frame
  <2> QED
    BY <1>1, <2>1, <2>2, <2>3, UpdateType
<1>2. ASSUME TypeOK, run_set_color PROVE OutputsTyped
  <2>1. PICK led \in 0 .. RGB_LED_COUNT - 1 :
          \E rgb \in [3 * led .. 3 * led + 2 -> Value] : SetBrightness(rgb)
    BY <1>2 DEF run_set_color
  <2>2. 3 * led .. 3 * led + 2 \in SUBSET Channel
    BY BoardAssumption DEF Channel
  <2>3. ccr' = pwm_values' /\ UNCHANGED enabled
    BY <1>2 DEF run_set_color, pwm_send_frame
  <2> QED
    BY <1>2, <2>1, <2>2, <2>3, UpdateType
<1> QED
  BY <1>1, <1>2

LEMMA RunCommandType == IInv /\ RunCommand => OutputsTyped
<1> SUFFICES ASSUME IInv, RunCommand PROVE OutputsTyped
  OBVIOUS
<1> DEFINE command == Head(queue)
<1>1. command \in Command
  BY DEF IInv, TypeOK, CommandIsHeld, RunCommand
<1>2. CASE RunUpdate(command)
  <2>1. PICK D \in SUBSET Channel : command.data \in [D -> Value]
    BY <1>1, <1>2, CommandData DEF RunUpdate
  <2> QED
    BY <1>2, <2>1, UpdateType DEF RunUpdate, IInv
<1>3. CASE RunStrobe(command)
  BY <1>3 DEF RunStrobe, pwm_send_frame, OutputsTyped, IInv, TypeOK
<1>4. CASE RunUnknown(command)
  BY <1>4 DEF RunUnknown, pwm, OutputsTyped, IInv, TypeOK
<1> QED
  BY <1>2, <1>3, <1>4 DEF RunCommand

(* What each step keeps of the invariant, the types of the outputs aside *)
LEMMA StepIInv == IInv /\ [Next]_vars => IInv'
<1> SUFFICES ASSUME IInv, [Next]_vars PROVE IInv'
  OBVIOUS
<1> USE DEF IInv, TicksAccounted, CheckIsFlagged, ConfigIsValid, CommandIsHeld,
            TypeOK, Starting, Loop, heat, receiver
<1>1. CASE Boot
  BY <1>1 DEF Boot
<1>2. CASE BootColors
  <2>1. OutputsTyped
    BY <1>2, BootColorsType
  <2> QED
    BY <1>2, <2>1 DEF BootColors, OutputsTyped
<1>3. CASE AskMode
  <2>1. OutputsTyped
    BY <1>3, StopType, DarkType DEF AskMode, OutputsTyped
  <2> QED
    BY <1>3, <2>1 DEF AskMode, OutputsTyped
<1>4. CASE FreeCommand
  <2>1. ASSUME running
        PROVE  /\ queue' \in Seq(Command) /\ Len(queue') <= Capacity
               /\ running' = FALSE /\ UNCHANGED halted
    <3>1. queue # <<>> /\ queue' = Tail(queue) /\ running' = FALSE /\ UNCHANGED halted
      BY <1>4, <2>1 DEF FreeCommand, Receiver!Finish
    <3>2. Tail(queue) \in Seq(Command) /\ Len(Tail(queue)) = Len(queue) - 1
      BY <3>1, HeadTailProperties
    <3> QED
      BY <3>1, <3>2, BoardAssumption
  <2>2. CASE running
    BY <1>4, <2>1, <2>2 DEF FreeCommand, pwm
  <2>3. CASE ~running
    BY <1>4, <2>3 DEF FreeCommand, pwm
  <2> QED
    BY <2>2, <2>3
<1>5. CASE NextCommand
  BY <1>5 DEF NextCommand, Receiver!Start, pwm
<1>6. CASE RunCommand
  <2>1. OutputsTyped
    BY <1>6, RunCommandType
  <2> QED
    BY <1>6, <2>1 DEF RunCommand, OutputsTyped
<1>7. CASE TestFlag
  BY <1>7, Sensors DEF TestFlag, pwm
<1>8. CASE HeatTick
  <2>1. heat_fails' \in [Sensor -> Record]
    <3>1. FailEvent(heat_fails[sensor], sensor \in hot) \in Record
      <4>1. heat_fails[sensor] \in Record /\ (sensor \in hot) \in BOOLEAN
        OBVIOUS
      <4> QED
        BY <4>1, FailEventKeeps, Zenon
    <3> QED
      BY <1>8, <3>1 DEF HeatTick
  <2>2. OutputsTyped
    BY <1>8, StopType DEF HeatTick, pwm, OutputsTyped
  <2>3. sensor' \in Sensor
    BY <1>8, BoardAssumption DEF HeatTick, Sensor
  <2>4. /\ pc = "tick" /\ pc' \in {"tick", "reset_flag"}
        /\ UNCHANGED <<found, config, do_heat_check, owed, hot, queue, running, halted>>
    BY <1>8 DEF HeatTick
  <2> QED
    BY <1>8, <2>1, <2>2, <2>3, <2>4 DEF OutputsTyped
<1>9. CASE ResetFlag
  <2>1. owed' = 0 /\ do_heat_check' = FALSE
    BY <1>9 DEF ResetFlag
  <2>2. pc' = "free" /\ UNCHANGED <<found, config, pwm, heat_fails, sensor, hot, receiver>>
    BY <1>9 DEF ResetFlag
  <2>3. UNCHANGED <<pwm_values, ccr, enabled, queue, running, halted>>
    BY <2>2 DEF pwm
  <2>4. pc = "reset_flag"
    BY <1>9 DEF ResetFlag
  <2>5. TypeOK'
    BY <2>1, <2>2, <2>3
  <2>6. TicksAccounted' /\ CheckIsFlagged'
    BY <2>1, <2>2
  <2>7. ConfigIsValid'
    BY <2>2, <2>4
  <2>8. CommandIsHeld'
    BY <2>2, <2>3
  <2> QED
    BY <2>5, <2>6, <2>7, <2>8
<1>10. CASE Console
  <2>1. CASE LeaveConsole
    BY <2>1, BoardAssumption DEF LeaveConsole, pwm
  <2>2. CASE run_set_brightness \/ run_set_color
    <3>1. OutputsTyped
      BY <2>2, ConsoleColorsType
    <3> QED
      BY <2>2, <3>1 DEF run_set_brightness, run_set_color, OutputsTyped
  <2> QED
    BY <1>10, <2>1, <2>2 DEF Console
<1>11. CASE Systick
  BY <1>11 DEF Systick, pwm
<1>12. CASE Arrive
  <2>1. PICK command \in Command : Receiver!Arrive(command)
    BY <1>12 DEF Arrive
  <2>2. /\ queue' \in Seq(Command) /\ Len(queue') <= Capacity /\ queue' # <<>>
        /\ UNCHANGED <<running, halted>>
    BY <2>1, BoardAssumption DEF Receiver!Arrive
  <2> QED
    BY <1>12, <2>2 DEF Arrive, pwm
<1>13. CASE ReceiverPanics
  <2>1. OutputsTyped
    BY <1>13, StopType DEF ReceiverPanics
  <2> QED
    BY <1>13, <2>1 DEF ReceiverPanics, Receiver!Halt, OutputsTyped
<1>14. CASE Temperature
  BY <1>14 DEF Temperature, pwm
<1>15. CASE Reset
  <2>1. config' \in Config /\ (found' => config' \in Configs)
    BY <1>15, BoardAssumption DEF Reset
  <2>2. heat_fails' \in [Sensor -> Record]
    BY <1>15 DEF Reset, NoFailures, Record
  <2> QED
    BY <1>15, <2>1, <2>2, DarkType, Sensors, BoardAssumption DEF Reset
<1>16. CASE UNCHANGED vars
  BY <1>16 DEF vars, pwm
<1> QED
  BY <1>1, <1>2, <1>3, <1>4, <1>5, <1>6, <1>7, <1>8, <1>9, <1>10, <1>11, <1>12,
     <1>13, <1>14, <1>15, <1>16 DEF Next, Main

LEMMA Invariance == Spec => []IInv
BY InitIInv, StepIInv, PTL DEF Spec

(* Every variable of the board keeps its type: in particular no brightness is
   written to a channel the board does not have, and the heat check looks at no
   sensor it does not have. *)
THEOREM BoardTypeOK == Spec => []TypeOK
BY Invariance, PTL DEF IInv

(* No systick is lost in silence, however long a command or a heat check takes. *)
THEOREM SystickAccounted == Spec => []TicksAccounted
BY Invariance, PTL DEF IInv

-----------------------------------------------------------------------------
(* The board implements Lamps: the promises' variables, as LampSpec maps them *)

Ran   == pc # "run" /\ running
Set   == [c \in Channel |-> pwm_values[convert_channel_index(c)]]
Shown == [c \in Channel |-> IF enabled THEN ccr[convert_channel_index(c)] ELSE 0]
State == IF pc \in Starting THEN "starting"
         ELSE IF enabled THEN "running" ELSE "stopped"

LEMMA MappedType ==
  ASSUME IInv
  PROVE  Set \in [Channel -> Value] /\ Shown \in [Channel -> Value]
<1>1. ASSUME NEW c \in Channel PROVE convert_channel_index(c) \in Channel
  BY ConvertType DEF IInv, TypeOK
<1>2. pwm_values \in [Channel -> Value] /\ ccr \in [Channel -> Value] /\ 0 \in Value
  BY BoardAssumption DEF IInv, TypeOK
<1> QED
  BY <1>1, <1>2 DEF Set, Shown

LEMMA MappedTypeNext ==
  ASSUME IInv'
  PROVE  Set' \in [Channel -> Value] /\ Shown' \in [Channel -> Value]
<1>1. ASSUME NEW c \in Channel PROVE convert_channel_index(c)' \in Channel
  BY Lengths DEF IInv, TypeOK, Config, convert_channel_index
<1>2. pwm_values' \in [Channel -> Value] /\ ccr' \in [Channel -> Value] /\ 0 \in Value
  BY BoardAssumption DEF IInv, TypeOK
<1> QED
  BY <1>1, <1>2 DEF Set, Shown

LEMMA OffIsDark == ~enabled' => Shown' = Lights!DARK
BY DEF Shown, Lights!DARK

LEMMA StopIsDark ==
  ASSUME IInv', PwmStop
  PROVE  Set' = Lights!DARK /\ Shown' = Lights!DARK
<1>1. ASSUME NEW c \in Channel PROVE pwm_values'[convert_channel_index(c)'] = 0
  <2>1. convert_channel_index(c)' \in Channel
    BY Lengths DEF IInv, TypeOK, Config, convert_channel_index
  <2> QED
    BY <2>1 DEF PwmStop, AllZero
<1>2. Set' = Lights!DARK
  BY <1>1 DEF Set, Lights!DARK
<1> QED
  BY <1>2, OffIsDark DEF PwmStop

LEMMA ConvertUnchanged ==
  UNCHANGED config => \A c : convert_channel_index(c)' = convert_channel_index(c)
BY DEF convert_channel_index

LEMMA LampsUnchanged ==
  UNCHANGED <<config, pwm>> => UNCHANGED <<Set, Shown>>
BY ConvertUnchanged DEF Set, Shown, pwm

LampVars == <<Ran, Set, Shown, State>>

Stutters == UNCHANGED receiver /\ UNCHANGED LampVars

LEMMA Stuttering ==
  Stutters => UNCHANGED <<Lights!vars, Lights!lampVars>>
BY DEF Stutters, receiver, LampVars, Lights!vars, Lights!lampVars, Ran, Set, Shown, State

LEMMA Preparing ==
  ASSUME IInv', pc \in Starting, pc' # "run", UNCHANGED receiver
  PROVE  Lights!Prepare
<1>1. State = "starting" /\ State' \in {"starting", "running", "stopped"}
  BY DEF State
<1>2. State' = "stopped" => Shown' = Lights!DARK
  BY OffIsDark DEF State
<1>3. UNCHANGED Ran
  BY DEF Ran, Starting, receiver
<1> QED
  BY <1>1, <1>2, <1>3, MappedTypeNext
  DEF receiver, Lights!Prepare, Ran, Set, Shown, State

LEMMA Freeing ==
  ASSUME IInv, FreeCommand
  PROVE  Lights!Drop \/ Stutters
<1>1. UNCHANGED <<Set, Shown, State>>
  BY LampsUnchanged DEF FreeCommand, State, Starting, pwm
<1>2. CASE running
  <2>1. Ran /\ ~Ran' /\ Receiver!Finish
    BY <1>2 DEF FreeCommand, Ran, Receiver!Finish
  <2>2. Lights!Finish
    BY <2>1 DEF Receiver!Finish, Lights!Finish
  <2> QED
    BY <1>1, <2>1, <2>2 DEF Lights!Drop, Ran, Set, Shown, State
<1>3. CASE ~running
  BY <1>1, <1>3 DEF FreeCommand, Stutters, LampVars, Ran, receiver
<1> QED
  BY <1>2, <1>3

LEMMA Taking ==
  ASSUME IInv, NextCommand
  PROVE  Lights!Take \/ Stutters
<1>1. UNCHANGED <<Set, Shown, State>> /\ State # "starting"
  BY LampsUnchanged DEF NextCommand, State, Starting, pwm
<1>2. ~running
  BY DEF NextCommand, IInv, CommandIsHeld
<1>3. CASE queue # <<>>
  <2>1. Lights!Start
    BY <1>3 DEF NextCommand, Receiver!Start, Lights!Start
  <2>2. UNCHANGED Ran
    BY <1>2, <1>3 DEF NextCommand, Ran
  <2> QED
    BY <1>1, <2>1, <2>2 DEF Lights!Take, Lights!lampVars, Ran, Set, Shown, State
<1>4. CASE queue = <<>>
  BY <1>1, <1>2, <1>4 DEF NextCommand, Stutters, LampVars, Ran, receiver
<1> QED
  BY <1>3, <1>4

(* Lamps' Execute, what it makes of the lamps named *)
NextSet(command) ==
  [c \in Channel |->
     IF command.code = "raw" \/ (command.code = "xyY" /\ c \in LedChannel)
     THEN command.data[c] ELSE Set[c]]

NextShown(command) ==
  IF command.code = "strobe" /\ State = "running" THEN Set ELSE Shown

LEMMA UpdateSets ==
  ASSUME IInv, config \in Configs, UNCHANGED config, State # "starting",
         NEW command \in Command, RunUpdate(command)
  PROVE  Set' = NextSet(command) /\ Shown' = NextShown(command)
<1>1. PICK D \in SUBSET Channel :
        /\ command.data \in [D -> Value]
        /\ D = IF command.code = "raw" THEN Channel ELSE LedChannel
  BY CommandData DEF RunUpdate
<1>2. ASSUME NEW c \in Channel
      PROVE  pwm_values'[convert_channel_index(c)] =
               IF c \in D THEN command.data[c]
                          ELSE pwm_values[convert_channel_index(c)]
  BY <1>1, SetBrightnessEffect DEF RunUpdate, IInv
<1>3. ASSUME NEW c \in Channel
      PROVE  c \in D <=> command.code = "raw" \/ (command.code = "xyY" /\ c \in LedChannel)
  BY <1>1 DEF RunUpdate
<1>4. Set' = NextSet(command)
  BY <1>2, <1>3, ConvertUnchanged DEF Set, NextSet
<1>5. Shown' = NextShown(command)
  BY ConvertUnchanged DEF RunUpdate, Shown, NextShown
<1> QED
  BY <1>4, <1>5

LEMMA StrobeShows ==
  ASSUME IInv, UNCHANGED config, State # "starting",
         NEW command \in Command, RunStrobe(command) \/ RunUnknown(command)
  PROVE  Set' = NextSet(command) /\ Shown' = NextShown(command)
<1>1. Set' = Set /\ Set = [c \in Channel |-> Set[c]]
  BY ConvertUnchanged DEF RunStrobe, RunUnknown, pwm, Set
<1>2. Set' = NextSet(command)
  BY <1>1 DEF RunStrobe, RunUnknown, NextSet
<1>3. State = "running" <=> enabled
  BY DEF State
<1>4. Shown' = NextShown(command)
  <2>1. CASE RunStrobe(command) /\ enabled
    BY <1>3, <2>1, ConvertUnchanged
    DEF RunStrobe, pwm_send_frame, Set, Shown, NextShown
  <2>2. CASE RunStrobe(command) /\ ~enabled
    BY <1>3, <2>2 DEF RunStrobe, pwm_send_frame, Shown, NextShown
  <2>3. CASE RunUnknown(command)
    BY <2>3, ConvertUnchanged DEF RunUnknown, pwm, Shown, NextShown
  <2> QED
    BY <2>1, <2>2, <2>3
<1> QED
  BY <1>2, <1>4

LEMMA Executing ==
  ASSUME IInv, RunCommand
  PROVE  Lights!Execute
<1> DEFINE command == Head(queue)
<1>1. /\ command \in Command /\ config \in Configs
      /\ running /\ pc = "run" /\ pc' = "heat"
      /\ UNCHANGED <<config, queue, running, halted>>
  BY DEF IInv, TypeOK, CommandIsHeld, ConfigIsValid, Loop, RunCommand, receiver
<1>2. State # "starting" /\ UNCHANGED State
  BY <1>1 DEF RunCommand, RunUpdate, RunStrobe, RunUnknown, pwm_send_frame, pwm,
              State, Starting
<1>3. Set' = NextSet(command) /\ Shown' = NextShown(command)
  BY <1>1, <1>2, UpdateSets, StrobeShows DEF RunCommand
<1>4. ~Ran /\ Ran'
  BY <1>1 DEF Ran
<1> QED
  BY <1>1, <1>2, <1>3, <1>4
  DEF Lights!Execute, NextSet, NextShown, Ran, Set, Shown, State

LEMMA Heating ==
  ASSUME IInv, IInv', HeatTick
  PROVE  Lights!Stop \/ Stutters
<1>1. UNCHANGED <<config, receiver>> /\ pc = "tick" /\ pc' \in {"tick", "reset_flag"}
  BY DEF HeatTick
<1>2. UNCHANGED Ran /\ State # "starting" /\ State' # "starting"
  BY <1>1 DEF Ran, State, Starting, receiver
<1>3. CASE PwmStop
  <2>1. State' = "stopped"
    BY <1>2, <1>3 DEF PwmStop, State
  <2> QED
    BY <1>1, <1>2, <1>3, <2>1, StopIsDark
    DEF Lights!Stop, Ran, Set, Shown, State, receiver
<1>4. CASE UNCHANGED pwm
  <2>1. UNCHANGED <<Set, Shown, State>>
    BY <1>1, <1>2, <1>4, LampsUnchanged DEF State, pwm
  <2> QED
    BY <1>1, <1>2, <2>1 DEF Stutters, LampVars
<1> QED
  BY <1>3, <1>4 DEF HeatTick

LEMMA Panicking ==
  ASSUME IInv, IInv', ReceiverPanics
  PROVE  Lights!Stop
<1>1. UNCHANGED <<pc, queue, running>> /\ pc \in Loop /\ PwmStop
  BY DEF ReceiverPanics, Receiver!Halt
<1>2. State' = "stopped" /\ UNCHANGED Ran
  BY <1>1 DEF PwmStop, State, Ran, Loop, Starting
<1>3. Lights!Halt
  BY DEF ReceiverPanics, Receiver!Halt, Lights!Halt
<1> QED
  BY <1>1, <1>2, <1>3, StopIsDark DEF Lights!Stop, Ran, Set, Shown, State

LEMMA Entering ==
  ASSUME IInv, Arrive
  PROVE  Lights!Enter
<1>1. PICK command \in Command : Receiver!Arrive(command)
  BY DEF Arrive
<1>2. Lights!Arrive(command)
  BY <1>1 DEF Receiver!Arrive, Lights!Arrive
<1>3. UNCHANGED <<Set, Shown, State>> /\ State # "starting"
  BY LampsUnchanged DEF Arrive, pwm, State, Starting, Loop
<1>4. UNCHANGED Ran
  BY <1>1 DEF Arrive, Receiver!Arrive, Ran
<1> QED
  BY <1>2, <1>3, <1>4 DEF Lights!Enter, Lights!lampVars, Ran, Set, Shown, State

LEMMA Restarting ==
  ASSUME IInv', Reset
  PROVE  Lights!Restart
<1>1. State' = "starting" /\ ~Ran'
  BY DEF Reset, State, Starting, Ran
<1> QED
  BY <1>1, MappedTypeNext DEF Reset, Lights!Restart, Ran, Set, Shown, State

(* The rest: between starting and stopping, what neither is a command nor
   changes the lamps. *)
LEMMA Idling ==
  ASSUME TestFlag \/ ResetFlag \/ Systick \/ Temperature \/ UNCHANGED vars
  PROVE  Stutters
<1>1. UNCHANGED <<config, pwm, receiver>>
  BY DEF TestFlag, ResetFlag, Systick, Temperature, vars
<1>2. UNCHANGED <<Set, Shown>>
  BY <1>1, LampsUnchanged
<1>3. UNCHANGED <<Ran, State>>
  BY <1>1 DEF TestFlag, ResetFlag, Systick, Temperature, vars, Ran, State, Starting,
              pwm, receiver
<1> QED
  BY <1>1, <1>2, <1>3 DEF Stutters, LampVars

LEMMA LampStep ==
  IInv /\ IInv' /\ [Next]_vars => [Lights!LampNext]_<<Lights!vars, Lights!lampVars>>
<1> SUFFICES ASSUME IInv, IInv', [Next]_vars
             PROVE  Lights!LampNext \/ Stutters
  BY Stuttering
<1>1. CASE Boot \/ BootColors \/ AskMode \/ Console
  <2>1. pc \in Starting /\ pc' # "run" /\ UNCHANGED receiver
    BY <1>1 DEF Boot, BootColors, AskMode, Console, run_set_brightness,
                run_set_color, LeaveConsole, Starting
  <2> QED
    BY <2>1, Preparing DEF Lights!LampNext
<1>2. CASE FreeCommand \/ NextCommand \/ RunCommand
  BY <1>2, Freeing, Taking, Executing DEF Lights!LampNext
<1>3. CASE HeatTick \/ ReceiverPanics
  BY <1>3, Heating, Panicking DEF Lights!LampNext
<1>4. CASE Arrive \/ Reset
  BY <1>4, Entering, Restarting DEF Lights!LampNext
<1>5. CASE TestFlag \/ ResetFlag \/ Systick \/ Temperature \/ UNCHANGED vars
  BY <1>5, Idling
<1> QED
  BY <1>1, <1>2, <1>3, <1>4, <1>5 DEF Next, Main

(* Whatever valid channel assignment a board is configured with, the updates it
   runs are shown by the next strobe, whole and on the lamps they were meant
   for; and a board that was stopped stays dark until it is reset. *)
THEOREM BoardImplementsLamps == Spec => LampSpec
<1>1. Init => Lights!LampInit
  <2> SUFFICES ASSUME Init PROVE Lights!LampInit
    OBVIOUS
  <2>1. Set \in [Channel -> Value] /\ Shown \in [Channel -> Value]
    BY InitIInv, MappedType
  <2>2. ~Ran /\ State = "starting"
    BY DEF Init, Ran, State, Starting
  <2>3. Lights!Init
    BY DEF Init, Lights!Init
  <2> QED
    BY <2>1, <2>2, <2>3 DEF Lights!LampInit, Ran, Set, Shown, State
<1> QED
  BY <1>1, LampStep, Invariance, PTL DEF Spec, LampSpec, Lights!LampSpec

=============================================================================
