------------------------------- MODULE MCBoard -------------------------------
(* A small instance of Board for TLC: one LED and the backup channel *)
EXTENDS Board

(* Channels rotated, with the backup channel in between *)
MCConfigs ==
  { [led_infos |-> [c \in LedChannel |-> <<2, 3, 0>>[c + 1]], backup_channel |-> 1] }

(* As in config.c, but for the number of LEDs: channels in their order, and the
   first LED's is the backup channel, too. *)
MCDefault == [led_infos |-> [c \in LedChannel |-> c], backup_channel |-> 0]

MCRawData   == {[c \in Channel |-> c % 2]}
MCColorData == {[c \in LedChannel |-> IF c = 0 THEN 1 ELSE 0]}

=============================================================================
