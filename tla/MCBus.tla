-------------------------------- MODULE MCBus --------------------------------
(* A small instance of Bus for TLC: two modules of one channel, 7 being the
   board, and a LED that has its red channel on one and its green channel on
   the other *)
EXTENDS Bus, TLC

MCByte == {0, 1, 7, 9, ESCAPE_MARK, START_MARK, BROADCAST}

MCchannels == <<0, "red">> :> <<7, 1>> @@ <<0, "green">> :> <<9, 1>>
MCchannelCounts == 7 :> 1 @@ 9 :> 1

(* Brightnesses whose bytes are the marks and the codes of escape sequences *)
MCColors == {[red |-> 256 + START_MARK, green |-> 0, blue |-> 256],
             [red |-> 256 * ESCAPE_MARK, green |-> START_MARK, blue |-> 0]}

=============================================================================
