---------------------------- MODULE MCSelectServer ----------------------------
(* Instances of the select server for TLC.                                 *)
EXTENDS SelectServer
=============================================================================
