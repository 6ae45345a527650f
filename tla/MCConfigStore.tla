---------------------------- MODULE MCConfigStore ----------------------------
(* Small instances of ConfigStore for TLC *)
EXTENDS ConfigStore, TLC

(* The default and two others that differ in every halfword; one of them has
   the address 0. *)
MCDefault == 0 :> 253 @@ 1 :> 1 @@ 2 :> 1
MCConfigs == {0 :> 7 @@ 1 :> 2 @@ 2 :> 2, 0 :> 0 @@ 1 :> 3 @@ 2 :> 3}

=============================================================================
