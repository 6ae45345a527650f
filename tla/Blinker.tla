------------------------------- MODULE Blinker -------------------------------
(***************************************************************************)
(* The C++ program that makes lights blink (language_bindings/cpp: blinker, *)
(* util, and the client of lib): one thread for each LED, or one for all,  *)
(* fades from colour to colour; the threads share one client and its       *)
(* buffer of commands; the main thread waits for SIGINT and for them.      *)
(*                                                                         *)
(* A colour is one channel of it.  Of the options, those for the LEDs and  *)
(* for the colours are modelled; sleeping is not.                          *)
(***************************************************************************)
EXTENDS Integers, Sequences

CONSTANTS
  ID_LIMIT,      (* number of LED ids: 2^16                                  *)
  fade_steps,    (* a power of two here: fractions of it are exact           *)
  Colors,        (* bytes that occur in colour sets                          *)
  LedOptions,    (* what is given for the LEDs: sequences of items           *)
  MaxThreads     (* bound: LEDs in an option                                 *)

Item == [is : {"number", ",", "-", "other"}, value : Nat]

ASSUME BlinkerAssumption ==
  /\ ID_LIMIT \in Nat \ {0}
  /\ fade_steps \in Nat \ {0}
  /\ Colors \subseteq 0 .. 255
  /\ LedOptions \subseteq Seq(Item)
  /\ MaxThreads \in Nat \ {0}

-----------------------------------------------------------------------------
(* util/ids.cpp *)

NONE == -1

(* The word before a comma or the end: an id, or the end of a range.  Without
   a word std::stoul throws; a range up to the last id never ends, until
   memory does. *)
EndOfWord(s) ==
  IF s.word = NONE THEN [s EXCEPT !.error = TRUE]
  ELSE IF ~s.in_range THEN [s EXCEPT !.list = Append(@, s.word), !.word = NONE]
  ELSE IF s.word < s.tmp_id \/ s.word = ID_LIMIT - 1 THEN [s EXCEPT !.error = TRUE]
  ELSE [s EXCEPT !.list = @ \o [i \in 1 .. s.word - s.tmp_id + 1 |-> s.tmp_id + i - 1],
                 !.word = NONE]

Scan(s, item) ==
  IF s.error \/ item.is = "other" THEN [s EXCEPT !.error = TRUE]
  ELSE CASE item.is = "number" -> [s EXCEPT !.word = item.value % ID_LIMIT]
         [] item.is = ","      -> EndOfWord(s)
         [] item.is = "-"      ->
              IF s.in_range \/ s.word = NONE THEN [s EXCEPT !.error = TRUE]
              ELSE [s EXCEPT !.in_range = TRUE, !.tmp_id = s.word, !.word = NONE]

Unread == [list |-> <<>>, word |-> NONE, tmp_id |-> 0, in_range |-> FALSE, error |-> FALSE]

(* in_range stays set, so that every id after a range ends another one that
   begins where the first did: 1-3,5 is 1 2 3 1 2 3 4 5. *)
str_to_ids(items) ==
  LET scanned[n \in 0 .. Len(items)] ==
        IF n = 0 THEN Unread ELSE Scan(scanned[n - 1], items[n])
      s == scanned[Len(items)]
  IN  IF s.word = NONE \/ s.error THEN s ELSE EndOfWord(s)

(* Room for a thread for each LED *)
ASSUME ThreadsAssumption ==
  \A items \in LedOptions :
    ~str_to_ids(items).error => Len(str_to_ids(items).list) <= MaxThreads

-----------------------------------------------------------------------------
(* State *)

VARIABLES
  option, colorset, async,   (* how the program was called                   *)
  LEDs,          (* the list that comes of the option                        *)
  main,          (* "init", "start", "poll", "join"; "ended", "aborted"      *)
  threads,       (* the LEDs of each thread that was started                 *)
  signal, thread_return_flag,
  pc,            (* of each thread: "pick", "lock", "set", "returned"        *)
  last_color, new_color, step, next,   (* locals of the threads              *)
  holder,        (* of the mutex in set_leds                                 *)
  cmd_buffer,    (* of settings::client                                      *)
  written        (* history: what each thread has written last               *)

settings == <<option, colorset, async>>
locals == <<pc, last_color, new_color, step, next>>
client == <<holder, cmd_buffer, written>>
vars == <<settings, LEDs, main, threads, signal, thread_return_flag, locals, client>>

BLACK == 0   \* the default colour
STROBE == <<NONE, NONE>>

Thread == 1 .. MaxThreads

Running == main \notin {"ended", "aborted"}

(* Without --colors the set is empty: the default, REAL_COLORS, is always
   replaced. *)
Init ==
  /\ option \in LedOptions /\ colorset \in SUBSET Colors /\ async \in BOOLEAN
  /\ LEDs = <<>> /\ main = "init" /\ threads = <<>>
  /\ signal = FALSE /\ thread_return_flag = FALSE
  /\ pc = [t \in Thread |-> "pick"]
  /\ last_color = [t \in Thread |-> BLACK]
  /\ new_color = [t \in Thread |-> BLACK]
  /\ step = [t \in Thread |-> 0]
  /\ next = [t \in Thread |-> 1]
  /\ holder = NONE /\ cmd_buffer = <<>>
  /\ written = [t \in Thread |-> <<>>]

-----------------------------------------------------------------------------
(* blinker/main.cpp *)

(* The LED option is read and the client connects and authenticates, or an
   exception ends the program. *)
Connect ==
  /\ main = "init"
  /\ LEDs' = str_to_ids(option).list
  /\ \/ main' = "start" /\ ~str_to_ids(option).error
     \/ main' = "ended"
  /\ UNCHANGED <<settings, threads, signal, thread_return_flag, locals, client>>

(* What control_LEDs is called with, thread by thread *)
Started ==
  IF async THEN [i \in DOMAIN LEDs |-> <<LEDs[i]>>] ELSE <<LEDs>>

StartThread ==
  /\ main = "start"
  /\ IF Len(threads) < Len(Started)
     THEN threads' = Append(threads, Started[Len(threads) + 1]) /\ UNCHANGED main
     ELSE main' = "poll" /\ UNCHANGED threads
  /\ UNCHANGED <<settings, LEDs, signal, thread_return_flag, locals, client>>

Poll ==
  /\ main = "poll"
  /\ signal
  /\ thread_return_flag' = TRUE
  /\ main' = "join"
  /\ UNCHANGED <<settings, LEDs, threads, signal, locals, client>>

Join ==
  /\ main = "join"
  /\ \A t \in DOMAIN threads : pc[t] = "returned"
  /\ main' = "ended"
  /\ UNCHANGED <<settings, LEDs, threads, signal, thread_return_flag, locals, client>>

(* signal_handler, which is installed first of all *)
signal_handler ==
  /\ Running
  /\ signal' = TRUE
  /\ UNCHANGED <<settings, LEDs, main, threads, thread_return_flag, locals, client>>

-----------------------------------------------------------------------------
(* blinker/core.cpp *)

(* An element of an empty set is whatever is found there, or nothing at all. *)
Drawn == IF colorset = {} THEN Colors ELSE colorset

(* Mutant: a colour is drawn before the flag is read. *)
PickFirst(t) ==
  /\ pc[t] = "pick"
  /\ \E c \in Drawn \ {last_color[t]} :
       IF thread_return_flag
       THEN pc' = [pc EXCEPT ![t] = "returned"] /\ UNCHANGED <<new_color, step>>
       ELSE /\ pc' = [pc EXCEPT ![t] = "lock"]
            /\ new_color' = [new_color EXCEPT ![t] = c]
            /\ step' = [step EXCEPT ![t] = 0]
  /\ UNCHANGED <<settings, LEDs, main, threads, signal, thread_return_flag, last_color, next, client>>

(* The loop of control_LEDs; it begins anew when the colour drawn is the last
   one. *)
Pick(t) ==
  /\ pc[t] = "pick"
  /\ IF thread_return_flag
     THEN pc' = [pc EXCEPT ![t] = "returned"] /\ UNCHANGED <<new_color, step>>
     ELSE \E c \in Drawn \ {last_color[t]} :
            /\ pc' = [pc EXCEPT ![t] = "lock"]
            /\ new_color' = [new_color EXCEPT ![t] = c]
            /\ step' = [step EXCEPT ![t] = 0]
  /\ UNCHANGED <<settings, LEDs, main, threads, signal, thread_return_flag, last_color, next, client>>

(* An access far beyond the end of the empty set *)
PickCrashes(t) ==
  /\ pc[t] = "pick" /\ ~thread_return_flag /\ colorset = {}
  /\ main' = "aborted"
  /\ UNCHANGED <<settings, LEDs, threads, signal, thread_return_flag, locals, client>>

(* fade_to's colour in a step; in the last one, the new colour *)
Color(t) ==
  (last_color[t] * (fade_steps - step[t]) + new_color[t] * step[t]) \div fade_steps

(* Mutant: set_leds without its mutex *)
EnterSetLeds(t) ==
  /\ pc[t] = "lock"
  /\ pc' = [pc EXCEPT ![t] = "set"]
  /\ next' = [next EXCEPT ![t] = 1]
  /\ UNCHANGED <<settings, LEDs, main, threads, signal, thread_return_flag, last_color,
                 new_color, step, client>>

Lock(t) ==
  /\ pc[t] = "lock"
  /\ holder = NONE
  /\ holder' = t
  /\ pc' = [pc EXCEPT ![t] = "set"]
  /\ next' = [next EXCEPT ![t] = 1]
  /\ UNCHANGED <<settings, LEDs, main, threads, signal, thread_return_flag, last_color,
                 new_color, step, cmd_buffer, written>>

set_led(t) ==
  /\ pc[t] = "set"
  /\ next[t] <= Len(threads[t])
  /\ cmd_buffer' = Append(cmd_buffer, <<threads[t][next[t]], Color(t)>>)
  /\ next' = [next EXCEPT ![t] = @ + 1]
  /\ UNCHANGED <<settings, LEDs, main, threads, signal, thread_return_flag, pc, last_color,
                 new_color, step, holder, written>>

(* flush, the unlocking, and the next step or the return from fade_to *)
flush(t) ==
  /\ pc[t] = "set"
  /\ next[t] > Len(threads[t])
  /\ written' = [written EXCEPT ![t] = Append(cmd_buffer, STROBE)]
  /\ cmd_buffer' = <<>>
  /\ holder' = NONE
  /\ IF step[t] < fade_steps
     THEN /\ pc' = [pc EXCEPT ![t] = "lock"]
          /\ step' = [step EXCEPT ![t] = @ + 1]
          /\ UNCHANGED last_color
     ELSE /\ pc' = [pc EXCEPT ![t] = "pick"]
          /\ last_color' = [last_color EXCEPT ![t] = new_color[t]]
          /\ UNCHANGED step
  /\ UNCHANGED <<settings, LEDs, main, threads, signal, thread_return_flag, new_color, next>>

(* A write fails: nothing catches the exception that flush throws. *)
WriteFails(t) ==
  /\ pc[t] = "set"
  /\ next[t] > Len(threads[t])
  /\ cmd_buffer' = <<>>
  /\ main' = "aborted"
  /\ UNCHANGED <<settings, LEDs, threads, signal, thread_return_flag, locals, holder, written>>

ThreadStep(t) ==
  /\ Running
  /\ t \in DOMAIN threads
  /\ Pick(t) \/ Lock(t) \/ set_led(t) \/ flush(t)

Main == Connect \/ StartThread \/ Poll \/ Join

Next ==
  \/ Main \/ signal_handler
  \/ \E t \in Thread : ThreadStep(t)
  \/ \E t \in DOMAIN threads : Running /\ (PickCrashes(t) \/ WriteFails(t))

Spec == Init /\ [][Next]_vars

(* Every thread is scheduled.  The mutex need not be fair: once the flag is
   set, every thread stops asking for it. *)
FairSpec == Spec /\ WF_vars(Main) /\ \A t \in Thread : WF_vars(ThreadStep(t))

-----------------------------------------------------------------------------
(* Properties *)

(* The commands for some LEDs, which the daemon is to show together *)
Commands(leds, color) == Append([i \in DOMAIN leds |-> <<leds[i], color>>], STROBE)

Near(a, b) == LET d == IF a < b THEN b - a ELSE a - b
              IN  d * fade_steps <= 255 + fade_steps - 1

(* Although all threads fill one buffer, each write sets all the LEDs of one
   thread, and no others, to one colour ("in a synchronized way", core.hpp:30),
   which is one step of a fade away from the one they had from that thread. *)
FadesTogether ==
  [][\A t \in DOMAIN threads :
       written'[t] # written[t] =>
         LET c == written'[t][1][2] IN
         /\ written'[t] = Commands(threads[t], c)
         /\ written[t] # <<>> => Near(written[t][1][2], c)]_vars

(* After SIGINT the program ends, whatever the threads are doing, even if they
   have one colour only and nothing to fade to. *)
StopsAfterSignal == signal ~> ~Running

=============================================================================
