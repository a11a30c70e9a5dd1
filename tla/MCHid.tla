-------------------------------- MODULE MCHid ---------------------------------
(* Two key slots where the code has six, and three keys: the slots run out *)
(* with one key to spare.  The sixth button is one the ports have no bit   *)
(* for.                                                                    *)
EXTENDS Hid
=============================================================================
