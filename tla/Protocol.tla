------------------------------- MODULE Protocol -------------------------------
(***************************************************************************)
(* The network protocol end to end: an animation calls a client library    *)
(* (language_bindings/), which writes commands on a TCP connection; TCP    *)
(* delivers the bytes in pieces of any size, or only the first of them;    *)
(* the daemon reassembles the commands (VaporlightFrameDecoder in          *)
(* server/Server.scala, server/Message.scala, util/Color.scala) and runs   *)
(* them on the connection's overlay (server/Client.scala).                 *)
(*                                                                         *)
(* Connections are numbered in the order in which the library opens them.  *)
(* Histories: collected are the calls cmd_buffer is made of, calls those a *)
(* connection was used for, garbled is TRUE once the library has written   *)
(* something on it that is not a command: a token too long or too short,   *)
(* or a part of a command.  What the daemon                                *)
(* does with overlays is in Mixer: here an overlay is what was set and     *)
(* what is visible.                                                        *)
(***************************************************************************)
EXTENDS Integers, Sequences

CONSTANTS
  Library,          (* among "go", "rust", "python", "cpp", "java"           *)
  TOKEN_SIZE,       (* bytes of a token: 16                                  *)
  Tokens,           (* tokens given to the library: sequences of bytes       *)
  Known,            (* settings.tokens: of TOKEN_SIZE bytes                  *)
  SetCalls,         (* calls that set a LED: records of op, led, colour      *)
  MaxCalls,         (* bound: calls                                          *)
  MaxConnections    (* bound: connections                                    *)

Byte == 0 .. 255
Word == 0 .. 65535

(* What the parameters of the libraries' calls can hold, and what the daemon's
   settings do; the four calls differ in precision and in having an alpha. *)
ASSUME ProtocolAssumption ==
  /\ Library \subseteq {"go", "rust", "python", "cpp", "java"}
  /\ TOKEN_SIZE \in Nat
  /\ Tokens \subseteq Seq(Byte)
  /\ SetCalls \subseteq
       [op : {"rgb8"}, led : Word, colour : [1 .. 3 -> Byte]]
         \cup [op : {"set8"}, led : Word, colour : [1 .. 4 -> Byte]]
         \cup [op : {"rgb16"}, led : Word, colour : [1 .. 3 -> Word]]
         \cup [op : {"set16"}, led : Word, colour : [1 .. 4 -> Word]]
  /\ MaxCalls \in Nat /\ MaxConnections \in Nat \ {0}

Connection == 1 .. MaxConnections

Calls == SetCalls \cup [op : {"auth"}, token : Tokens] \cup [op : {"strobe"}]

VARIABLES
  library, todo,    (* the library; the call it repeats, if any              *)
  using,            (* the connection it uses, 0 when it has given up        *)
  cmd_buffer,       (* of C++: bytes that wait for a flush                   *)
  wire, link,       (* of each connection: bytes under way; "none", "up" or
                       "down"                                                *)
  status,           (* the daemon's end: "none", "open", "closed"; "refused":
                       closed for a protocol violation                       *)
  buffer, nextOp,   (* the frame decoder                                     *)
  client,           (* overlay: authenticated; back, front: colours          *)
  collected, calls, garbled, made

connection == <<wire, link>>
daemon     == <<status, buffer, nextOp, client>>
buffering  == <<cmd_buffer, collected>>
vars == <<library, todo, using, buffering, connection, daemon, calls, garbled, made>>

NONE == 0    \* no opcode has been read

-----------------------------------------------------------------------------
(* Commands *)

Opcode == [strobe |-> 255, rgb8 |-> 1, set8 |-> 1, auth |-> 2, rgb16 |-> 3, set16 |-> 3]
payloadLength == [op \in {1, 2, 3, 255} |->
  IF op = 1 THEN 6 ELSE IF op = 2 THEN TOKEN_SIZE ELSE IF op = 3 THEN 10 ELSE 0]

Int16(v) == <<v \div 256, v % 256>>

(* Calls without alpha mean opaque; Java's alpha is 255 in both precisions. *)
Rgba(call) ==
  IF call.op = "rgb8" THEN Append(call.colour, 255)
  ELSE IF call.op = "rgb16" THEN Append(call.colour, IF library = "java" THEN 255 ELSE 65535)
  ELSE call.colour

(* Which tokens a library takes, and what it makes of them *)
Accepts(token) ==
  /\ library = "cpp"  => Len(token) = TOKEN_SIZE
  /\ library = "rust" => Len(token) >= TOKEN_SIZE

Padded(token) == [i \in 1 .. TOKEN_SIZE |-> IF i <= Len(token) THEN token[i] ELSE 0]

TokenBytes(token) ==
  IF library \in {"go", "rust"} \/ (library = "python" /\ Len(token) < TOKEN_SIZE)
  THEN Padded(token) ELSE token

(* Mutant: colours of 16 bit are sent low byte first. *)
Int16sLowFirst(c) ==
  <<c[1] % 256, c[1] \div 256, c[2] % 256, c[2] \div 256,
    c[3] % 256, c[3] \div 256, c[4] % 256, c[4] \div 256>>

Int16s(c) == Int16(c[1]) \o Int16(c[2]) \o Int16(c[3]) \o Int16(c[4])

Payload(call) ==
  IF call.op = "strobe" THEN <<>>
  ELSE IF call.op = "auth" THEN TokenBytes(call.token)
  ELSE Int16(call.led) \o
         IF Opcode[call.op] = 1 THEN Rgba(call) ELSE Int16s(Rgba(call))

Encoded(call) == <<Opcode[call.op]>> \o Payload(call)

Misfit(call) == Len(Payload(call)) # payloadLength[Opcode[call.op]]

(* Message.parse: 8 bit are made 16 by repeating them. *)
Parse(op, p) ==
  IF op = 255 THEN [op |-> "strobe"]
  ELSE IF op = 2 THEN [op |-> "auth", token |-> p]
  ELSE [op |-> "set", led |-> 256 * p[1] + p[2],
        colour |-> [i \in 1 .. 4 |->
                      IF op = 1 THEN 256 * p[2 + i] + p[2 + i]
                      ELSE 256 * p[2 * i + 1] + p[2 * i + 2]]]

-----------------------------------------------------------------------------
(* Client.dispatch *)

Fresh == [overlay |-> FALSE, back |-> <<>>, front |-> <<>>]

Dispatch(state, message) ==
  IF message.op = "auth"
  THEN [Fresh EXCEPT !.overlay = message.token \in Known]
  ELSE IF ~state.overlay THEN state
  ELSE IF message.op = "strobe" THEN [state EXCEPT !.front = state.back]
  ELSE [state EXCEPT !.back =
          [led \in DOMAIN state.back \cup {message.led} |->
             IF led = message.led THEN message.colour ELSE state.back[led]]]

Init ==
  /\ library \in Library
  /\ todo = <<>>
  /\ using = 1
  /\ cmd_buffer = <<>> /\ collected = <<>>
  /\ wire = [i \in Connection |-> <<>>]
  /\ link = [i \in Connection |-> IF i = 1 THEN "up" ELSE "none"]
  /\ status = [i \in Connection |-> IF i = 1 THEN "open" ELSE "none"]
  /\ buffer = [i \in Connection |-> <<>>]
  /\ nextOp = [i \in Connection |-> NONE]
  /\ client = [i \in Connection |-> Fresh]
  /\ calls = [i \in Connection |-> <<>>]
  /\ garbled = [i \in Connection |-> FALSE]
  /\ made = 0

-----------------------------------------------------------------------------
(* The libraries *)

(* The animation calls the library, or the library repeats a call. *)
Calling(call) ==
  /\ using # 0
  /\ IF todo # <<>> THEN call = todo[1] /\ UNCHANGED made
     ELSE /\ made < MaxCalls
          /\ made' = made + 1
          /\ call.op = "auth" => Accepts(call.token)
          /\ call.op \in {"rgb16", "set16"} => library # "cpp"

(* C++: set_led only fills the buffer. *)
Collect(call) ==
  /\ library = "cpp" /\ call.op \in {"rgb8", "set8"}
  /\ Calling(call)
  /\ cmd_buffer' = cmd_buffer \o Encoded(call)
  /\ collected' = Append(collected, call)
  /\ UNCHANGED <<library, todo, using, connection, daemon, calls, garbled>>

(* What is written for the call: everything else at once, although in C++ a
   strobe takes what is in the buffer with it, and an authentication does not *)
Bytes(call) ==
  IF call.op = "strobe" THEN cmd_buffer \o Encoded(call) ELSE Encoded(call)
Written(call) ==
  IF call.op = "strobe" THEN Append(collected, call) ELSE <<call>>

Writing(call) ==
  /\ library = "cpp" => call.op \in {"auth", "strobe"}
  /\ Calling(call)
  /\ IF call.op = "strobe" THEN cmd_buffer' = <<>> /\ collected' = <<>>
     ELSE UNCHANGED buffering
  /\ UNCHANGED <<library, daemon>>

(* A connection that is down may take a write without an error, too. *)
Write(call) ==
  /\ Writing(call)
  /\ todo' = <<>>
  /\ IF link[using] = "up"
     THEN /\ wire' = [wire EXCEPT ![using] = @ \o Bytes(call)]
          /\ calls' = [calls EXCEPT ![using] = @ \o Written(call)]
          /\ garbled' = [garbled EXCEPT ![using] = @ \/ Misfit(call)]
     ELSE UNCHANGED <<wire, calls, garbled>>
  /\ UNCHANGED <<using, link>>

(* Rust: Write::write may take only the first bytes, which is not an error. *)
ShortWrite(call) ==
  /\ library = "rust"
  /\ Writing(call)
  /\ link[using] = "up"
  /\ todo' = <<>>
  /\ \E n \in 1 .. Len(Bytes(call)) - 1 :
       wire' = [wire EXCEPT ![using] = @ \o SubSeq(Bytes(call), 1, n)]
  /\ calls' = [calls EXCEPT ![using] = @ \o Written(call)]
  /\ garbled' = [garbled EXCEPT ![using] = TRUE]
  /\ UNCHANGED <<using, link>>

(* The write fails after some of its bytes (how many of them arrive is up to
   Close): the library's caller gets an error (in Go nothing), and the
   connection is of no more use, which in Java is replaced by a new one, on
   which a set is tried again.  The token is not sent on it. *)
FailingWrite(call) ==
  /\ Writing(call)
  /\ IF link[using] = "up"
     THEN /\ wire' = [wire EXCEPT ![using] = @ \o SubSeq(Bytes(call), 1, Len(Bytes(call)) - 1)]
          /\ calls' = [calls EXCEPT ![using] = @ \o Written(call)]
          /\ garbled' = [garbled EXCEPT ![using] = @ \/ Misfit(call)]
     ELSE UNCHANGED <<wire, calls, garbled>>
  /\ IF library # "java"
     THEN todo' = <<>> /\ link' = [link EXCEPT ![using] = "down"] /\ UNCHANGED using
     ELSE /\ using' \in {0} \cup ({using + 1} \cap Connection)
          /\ todo' = IF using' = 0 \/ call.op \in {"auth", "strobe"} THEN <<>> ELSE <<call>>
          /\ link' = [i \in Connection |->
               IF i = using THEN "down" ELSE IF i = using' THEN "up" ELSE link[i]]

(* The connection breaks. *)
Break ==
  \E i \in Connection :
    /\ link[i] = "up"
    /\ link' = [link EXCEPT ![i] = "down"]
    /\ UNCHANGED <<library, todo, using, buffering, wire, daemon, calls, garbled, made>>

-----------------------------------------------------------------------------
(* The daemon *)

OnlyDaemon == UNCHANGED <<library, todo, using, buffering, calls, garbled, made>>

(* channelConnected *)
Accept(i) ==
  /\ status[i] = "none" /\ link[i] # "none"
  /\ status' = [status EXCEPT ![i] = "open"]
  /\ OnlyDaemon
  /\ UNCHANGED <<connection, buffer, nextOp, client>>

(* The opcode decode goes on with, what is in the buffer after it, and whether
   that is all it needs *)
OpcodeOf(i) == IF nextOp[i] = NONE THEN Head(buffer[i]) ELSE nextOp[i]
Rest(i)     == IF nextOp[i] = NONE THEN Tail(buffer[i]) ELSE buffer[i]
Waiting(i)  ==
  \/ buffer[i] = <<>>
  \/ nextOp[i] # NONE /\ Len(buffer[i]) < payloadLength[nextOp[i]]

(* netty hands the decoder some of the bytes, when it has done what it could
   with those before. *)
Receive(i) ==
  /\ status[i] = "open" /\ Waiting(i)
  /\ \E n \in 1 .. Len(wire[i]) :
       /\ buffer' = [buffer EXCEPT ![i] = @ \o SubSeq(wire[i], 1, n)]
       /\ wire' = [wire EXCEPT ![i] = SubSeq(@, n + 1, Len(@))]
  /\ OnlyDaemon
  /\ UNCHANGED <<link, status, nextOp, client>>

(* Mutant: an opcode without its payload is forgotten. *)
DecodeForgets(i) ==
  /\ status[i] = "open" /\ ~Waiting(i)
  /\ OpcodeOf(i) \in DOMAIN payloadLength
  /\ LET op == OpcodeOf(i)  length == payloadLength[op] IN
       IF Len(Rest(i)) >= length
       THEN /\ client' = [client EXCEPT ![i] = Dispatch(@, Parse(op, SubSeq(Rest(i), 1, length)))]
            /\ buffer' = [buffer EXCEPT ![i] = SubSeq(Rest(i), length + 1, Len(Rest(i)))]
            /\ nextOp' = [nextOp EXCEPT ![i] = NONE]
       ELSE /\ buffer' = [buffer EXCEPT ![i] = Rest(i)]
            /\ UNCHANGED <<nextOp, client>>
  /\ OnlyDaemon
  /\ UNCHANGED <<connection, status>>

(* decode, which netty calls as long as it uses up bytes; messageReceived *)
Decode(i) ==
  /\ status[i] = "open" /\ ~Waiting(i)
  /\ OpcodeOf(i) \in DOMAIN payloadLength
  /\ LET op == OpcodeOf(i)  length == payloadLength[op] IN
       IF Len(Rest(i)) >= length
       THEN /\ client' = [client EXCEPT ![i] = Dispatch(@, Parse(op, SubSeq(Rest(i), 1, length)))]
            /\ buffer' = [buffer EXCEPT ![i] = SubSeq(Rest(i), length + 1, Len(Rest(i)))]
            /\ nextOp' = [nextOp EXCEPT ![i] = NONE]
       ELSE /\ buffer' = [buffer EXCEPT ![i] = Rest(i)]
            /\ nextOp' = [nextOp EXCEPT ![i] = op]
            /\ UNCHANGED client
  /\ OnlyDaemon
  /\ UNCHANGED <<connection, status>>

Shut(i, why) ==
  /\ status' = [status EXCEPT ![i] = why]
  /\ link' = [link EXCEPT ![i] = "down"]
  /\ wire' = [wire EXCEPT ![i] = <<>>]
  /\ buffer' = [buffer EXCEPT ![i] = <<>>]
  /\ nextOp' = [nextOp EXCEPT ![i] = NONE]
  /\ client' = [client EXCEPT ![i] = Fresh]
  /\ calls' = [calls EXCEPT ![i] = <<>>]    \* of no more interest
  /\ UNCHANGED <<library, todo, using, buffering, garbled, made>>

(* Message.lookup throws a ProtocolViolation: exceptionCaught *)
Refuse(i) ==
  /\ status[i] = "open" /\ ~Waiting(i)
  /\ OpcodeOf(i) \notin DOMAIN payloadLength
  /\ Shut(i, "refused")

(* channelClosed: the connection is found broken, after some of the bytes under
   way or all of them; or a user of the web interface kills it. *)
Close(i) == status[i] = "open" /\ link[i] = "down" /\ Shut(i, "closed")
Kill(i)  == status[i] = "open" /\ Shut(i, "closed")

Handle(i) == Accept(i) \/ Receive(i) \/ Decode(i) \/ Refuse(i) \/ Close(i)

Animation ==
  \E call \in Calls :
    Collect(call) \/ Write(call) \/ ShortWrite(call) \/ FailingWrite(call)

Next == Animation \/ Break \/ \E i \in Connection : Handle(i) \/ Kill(i)

Spec == Init /\ [][Next]_vars

-----------------------------------------------------------------------------
(* Properties *)

(* What a call means to the animation, whatever bytes the library makes of it:
   a token is filled up with zeros, a value of 8 bit stands for the same part of
   the range as one of 16 bit, and a colour without alpha is opaque. *)
Meant(call) ==
  IF call.op = "strobe" THEN call
  ELSE IF call.op = "auth" THEN [op |-> "auth", token |-> Padded(call.token)]
  ELSE [op |-> "set", led |-> call.led,
        colour |-> [k \in 1 .. 4 |->
                      IF k \notin DOMAIN call.colour THEN 65535
                      ELSE IF call.op \in {"rgb8", "set8"} THEN 257 * call.colour[k]
                      ELSE call.colour[k]]]

(* The overlay after the first n of the calls made on a connection *)
After(i, n) ==
  LET after[k \in 0 .. n] ==
        IF k = 0 THEN Fresh ELSE Dispatch(after[k - 1], Meant(calls[i][k]))
  IN  after[n]

CarriesOut(i) ==
  status[i] = "open" => \E n \in 0 .. Len(calls[i]) : client[i] = After(i, n)

(* Java's colours of 16 bit without alpha, which it sends nearly transparent *)
Faint(call) == library = "java" /\ call.op = "rgb16"
AnyFaint(i) == \E k \in 1 .. Len(calls[i]) : Faint(calls[i][k])

(* Wherever TCP cuts the commands, and wherever a connection breaks, is killed
   or replaced, the daemon has on a connection carried out some number of the
   first calls made on it, each as it was meant, with all that was set for a
   strobe and nothing else; and it refuses no connection on which all that was
   written was commands.  Excepted are connections the library has garbled, and
   those on which Java has made a colour faint. *)
CallsAsMeant ==
  \A i \in Connection :
    ~garbled[i] => /\ status[i] # "refused"
                   /\ ~AnyFaint(i) => CarriesOut(i)

(* The decoder holds nothing back: when all bytes have been handed to it, and
   it waits for more, the daemon has carried out every call. *)
NothingHeldBack ==
  \A i \in Connection :
    /\ status[i] = "open" /\ link[i] = "up" /\ ~garbled[i] /\ ~AnyFaint(i)
    /\ wire[i] = <<>> /\ Waiting(i)
    => client[i] = After(i, Len(calls[i]))

=============================================================================
