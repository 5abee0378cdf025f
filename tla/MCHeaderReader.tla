---------------------------- MODULE MCHeaderReader ----------------------------
(* Instances of the header reader for TLC.                                 *)
EXTENDS HeaderReader

(* Two short requests, the second one right behind the first, and one that *)
(* is longer than MAX_SIZE.                                                *)
ShortAndLong == {<<4, 9>>, <<7>>}
=============================================================================
