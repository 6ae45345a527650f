------------------------------ MODULE LineInput ------------------------------
(***************************************************************************)
(* The lines a user types at the console (console.c, console_prompt.c):     *)
(* how console_getline edits them, what the terminal shows of them, and    *)
(* what numbers and commands are made of them.                             *)
(*                                                                         *)
(* A line is typed as a sequence of keys, and return, at once.  The only   *)
(* blank is a space, and NUL is not typed.                                 *)
(***************************************************************************)
EXTENDS Integers, Sequences, FiniteSetsExt

CONSTANTS
  LINE_LENGTH,   (* size of the buffer                                       *)
  Symbols,       (* characters other than letters, digits and those below    *)
  NUMBER_LIMIT,  (* 2^32: one more than the largest unsigned                 *)
  Typed,         (* the lines a user types                                   *)
  Beyond         (* what the memory behind the buffer may hold, up to the
                    end of the word that is there                            *)

-----------------------------------------------------------------------------
(* Characters *)

DIGITS ==
  << {"0"}, {"1"}, {"2"}, {"3"}, {"4"}, {"5"}, {"6"}, {"7"}, {"8"}, {"9"},
     {"a", "A"}, {"b", "B"}, {"c", "C"}, {"d", "D"}, {"e", "E"}, {"f", "F"},
     {"g", "G"}, {"h", "H"}, {"i", "I"}, {"j", "J"}, {"k", "K"}, {"l", "L"},
     {"m", "M"}, {"n", "N"}, {"o", "O"}, {"p", "P"}, {"q", "Q"}, {"r", "R"},
     {"s", "S"}, {"t", "T"}, {"u", "U"}, {"v", "V"}, {"w", "W"}, {"x", "X"},
     {"y", "Y"}, {"z", "Z"} >>

isalnum == UNION {DIGITS[i] : i \in DOMAIN DIGITS}

NUL == "NUL"               \* '\0', the end of a line
BACKSPACE == "backspace"   \* '\b'
ESCAPE == "escape"         \* '\033'
SPACE == "space"           \* ' '

Char == isalnum \cup Symbols \cup {NUL, BACKSPACE, ESCAPE, SPACE}

ASSUME LineInputAssumption ==
  /\ LINE_LENGTH \in Nat \ {0} /\ NUMBER_LIMIT \in Nat \ {0}
  /\ Typed \subseteq Seq(Char \ {NUL})
  /\ Beyond \subseteq Seq(Char)
  /\ \A bytes \in Beyond : bytes # <<>> /\ bytes[Len(bytes)] = NUL

digit_value(c) == (CHOOSE i \in DOMAIN DIGITS : c \in DIGITS[i]) - 1

Digits(b) == UNION {DIGITS[i] : i \in 1 .. b}

Number(digits, b) ==
  LET result[n \in 0 .. Len(digits)] ==
        IF n = 0 THEN 0 ELSE (result[n - 1] * b + digit_value(digits[n])) % NUMBER_LIMIT
  IN  result[Len(digits)]

-----------------------------------------------------------------------------
(* State *)

VARIABLES
  line,      (* what console_getline leaves, and sends to the terminal       *)
  base,      (* of the number asked for; 0 if it is a command                *)
  understood (* the command or number that was accepted, or NOTHING          *)

input == <<line, base, understood>>

NO_LINE == [buffer |-> <<>>, i |-> 0, echo |-> <<>>]
NOTHING == <<>>

InputInit == line = NO_LINE /\ base = 0 /\ understood = NOTHING

-----------------------------------------------------------------------------
(* console_getline *)

Put(buffer, i, c) == [k \in DOMAIN buffer |-> IF k = i THEN c ELSE buffer[k]]

(* Mutant: the character taken back stays in the buffer. *)
RuboutKeeps(s) ==
  IF s.i = 0 THEN s
  ELSE [s EXCEPT !.i = @ - 1, !.echo = @ \o <<BACKSPACE, SPACE, BACKSPACE>>]

Rubout(s) ==
  IF s.i = 0 THEN s
  ELSE [buffer |-> Put(s.buffer, s.i, NUL), i |-> s.i - 1,
        echo   |-> s.echo \o <<BACKSPACE, SPACE, BACKSPACE>>]

(* One key; an escape is dropped, but not what follows it. *)
Key(s, key) ==
  CASE key = BACKSPACE -> Rubout(s)
    [] key = ESCAPE    -> s
    [] OTHER           ->
         IF s.i < LINE_LENGTH
         THEN [buffer |-> Put(s.buffer, s.i + 1, key), i |-> s.i + 1,
               echo   |-> Append(s.echo, key)]
         ELSE [s EXCEPT !.echo = @ \o <<"X", BACKSPACE>>]

Cleared == [buffer |-> [k \in 1 .. LINE_LENGTH |-> NUL], i |-> 0, echo |-> <<>>]

console_getline(keys) ==
  LET typed[n \in 0 .. Len(keys)] ==
        IF n = 0 THEN Cleared ELSE Key(typed[n - 1], keys[n])
  IN  typed[Len(keys)]

-----------------------------------------------------------------------------
(* Numbers and commands *)

SkipWhile(set, text, pos) == Min({p \in pos .. Len(text) : text[p] \notin set})

(* parse_int: the number at pos and the position after it; a number of no
   digits is 0. *)
parse_int(text, pos, b) ==
  LET p == SkipWhile(Digits(b), text, pos) IN
  IF text[p] \in {SPACE, NUL}
  THEN [ok |-> TRUE, pos |-> p, value |-> Number(SubSeq(text, pos, p - 1), b)]
  ELSE [ok |-> FALSE, pos |-> pos, value |-> 0]

(* The keys of the commands and their arg_length *)
commands ==
  [key \in {"a", "b", "c", "C", "e", "f", "h", "l", "m", "p", "q", "r", "s", "y", "?"} |->
     CASE key \in {"c", "p"}           -> 4
       [] key \in {"b", "h"}           -> 2
       [] key \in {"a", "C", "m", "y"} -> 1
       [] OTHER                        -> 0]

BASE == 10   \* CONSOLE_READ_BASE

(* One more argument; with fewer than it takes a line is refused. *)
Argument(text, s) ==
  LET number == parse_int(text, s.pos, BASE) IN
  IF ~s.ok \/ text[s.pos] = NUL \/ ~number.ok THEN [s EXCEPT !.ok = FALSE]
  ELSE [s EXCEPT !.args = Append(@, number.value),
                 !.pos = SkipWhile({SPACE}, text, number.pos)]

AfterKey(text) == SkipWhile({SPACE}, text, SkipWhile(isalnum, text, 1))

parse_args(text, arg_length) ==
  LET parsed[arg \in 0 .. arg_length] ==
        IF arg = 0 THEN [ok |-> TRUE, args |-> <<>>, pos |-> AfterKey(text)]
        ELSE Argument(text, parsed[arg - 1])
  IN  parsed[arg_length]

(* A line that fills the buffer has no end: it goes on with whatever follows
   the buffer in memory. *)
InMemory(keys, bytes) == console_getline(keys).buffer \o bytes

(* console_ask_int, one question *)
AskInt(keys, bytes, b) ==
  LET number == parse_int(InMemory(keys, bytes), 1, b) IN
  /\ line' = console_getline(keys)
  /\ base' = b
  /\ understood' = IF number.ok THEN <<number.value>> ELSE NOTHING

(* run_command_prompt, up to the call of the command's handler *)
ReadCommand(keys, bytes) ==
  LET text == InMemory(keys, bytes) IN
  /\ line' = console_getline(keys)
  /\ base' = 0
  /\ understood' = IF text[1] \notin DOMAIN commands THEN NOTHING
                   ELSE LET parsed == parse_args(text, commands[text[1]])
                        IN  IF parsed.ok THEN <<text[1], parsed.args>> ELSE NOTHING

GetLine ==
  \E keys \in Typed, bytes \in Beyond :
    \/ \E b \in {10, 16} : AskInt(keys, bytes, b)
    \/ ReadCommand(keys, bytes)

(* The console is done with the line. *)
Forget == line' = NO_LINE /\ base' = 0 /\ understood' = NOTHING

InputSpec == InputInit /\ [][GetLine \/ Forget]_input

-----------------------------------------------------------------------------
(* Properties *)

(* A terminal: a backspace moves the cursor, other characters are put where it
   is; what is left of it when return is typed *)
Display(s, c) ==
  IF c = BACKSPACE THEN [s EXCEPT !.cursor = IF @ = 0 THEN 0 ELSE @ - 1]
  ELSE [cells  |-> IF s.cursor < Len(s.cells) THEN [s.cells EXCEPT ![s.cursor + 1] = c]
                   ELSE Append(s.cells, c),
        cursor |-> s.cursor + 1]

Screen(echo) ==
  LET displayed[n \in 0 .. Len(echo)] ==
        IF n = 0 THEN [cells |-> <<>>, cursor |-> 0]
        ELSE Display(displayed[n - 1], echo[n])
  IN  displayed[Len(echo)]

Shown == SubSeq(Screen(line.echo).cells, 1, Screen(line.echo).cursor)

(* Where the words of a text begin, where the one that begins at i ends, and
   where the wth one begins *)
Begins(text) == {i \in DOMAIN text : text[i] # SPACE /\ (i = 1 \/ text[i - 1] = SPACE)}

EndOf(text, i) == Min({j \in i .. Len(text) : j = Len(text) \/ text[j + 1] = SPACE})

Nth(text, w) ==
  CHOOSE i \in Begins(text) : Cardinality({j \in Begins(text) : j <= i}) = w

Words(text) ==
  [w \in 1 .. Cardinality(Begins(text)) |->
     SubSeq(text, Nth(text, w), EndOf(text, Nth(text, w)))]

Is(word, set) == \A i \in DOMAIN word : word[i] \in set

(* The number a word says, however large *)
Value(digits, b) ==
  LET sum[n \in 0 .. Len(digits)] ==
        IF n = 0 THEN 0 ELSE sum[n - 1] * b + digit_value(digits[n])
  IN  sum[Len(digits)]

(* What a line calls for as it reads on the screen, and the numbers in it *)
NumberShown(text) ==
  IF Is(Words(text)[1], Digits(base)) THEN <<Value(Words(text)[1], base)>> ELSE NOTHING

CommandShown(text) ==
  IF text = <<>> \/ text[1] \notin DOMAIN commands THEN NOTHING
  ELSE LET words == Words(text)
           n     == commands[text[1]]
       IN  IF n = 0 THEN <<text[1], <<>> >>
           ELSE IF Is(words[1], isalnum) /\ Len(words) > n
                     /\ \A k \in 1 .. n : Is(words[k + 1], Digits(BASE))
           THEN <<text[1], [k \in 1 .. n |-> Value(words[k + 1], BASE)]>>
           ELSE NOTHING

CalledFor(text) == IF base = 0 THEN CommandShown(text) ELSE NumberShown(text)

NumbersShown(text) ==
  IF CalledFor(text) = NOTHING THEN {}
  ELSE IF base = 0 THEN {CommandShown(text)[2][k] : k \in 1 .. commands[text[1]]}
  ELSE {NumberShown(text)[1]}

(* A question is answered by an empty line or one that begins with a blank; a
   number is more than an unsigned can hold. *)
NoNumber(text) == base # 0 /\ (text = <<>> \/ text[1] = SPACE)
TooLarge(text) == \E n \in NumbersShown(text) : n >= NUMBER_LIMIT

(* A line was read that did not fill the buffer to its end. *)
WasRead == line # NO_LINE /\ line.i < LINE_LENGTH

(* However a line was edited, the command that is run, or the number that is
   taken, is the one the screen shows.  Excepted are answers that are no number,
   which are taken for 0, and numbers that are too large, of which as much is
   taken as an unsigned holds. *)
UnderstoodAsShown ==
  WasRead /\ ~NoNumber(Shown) => TooLarge(Shown) \/ understood = CalledFor(Shown)

=============================================================================
