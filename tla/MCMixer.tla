------------------------------ MODULE MCMixer ------------------------------
(* Small instances of Mixer for TLC *)
EXTENDS Mixer, TLC

CONSTANTS c1, c2, wall, guest, vip

(* A persistent token and two others, one above and one equal to it *)
MCPriority == wall :> 1 @@ guest :> 1 @@ vip :> 2

=============================================================================
