----------------------------- MODULE MCHttpServer -----------------------------
(* Instances of the worker pool for TLC.                                   *)
EXTENDS HttpServer
=============================================================================
