------------------------------ MODULE MCMsgStream ------------------------------
(* Instances of the message stream for TLC.                                *)
EXTENDS MsgStream
=============================================================================
