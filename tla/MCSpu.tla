-------------------------------- MODULE MCSpu ---------------------------------
(* Envelopes of up to three samples and chunks of one or two: notes that   *)
(* end inside a chunk, at its edge and after several.  The constants are   *)
(* set in the configurations; 255 is a volume byte whose high half names   *)
(* no channel.                                                             *)
EXTENDS Spu
=============================================================================
