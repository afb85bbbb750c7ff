---------------------------- MODULE MCHttpServer ----------------------------
(* A pool of two workers. *)
EXTENDS HttpServer

CONSTANTS w1, w2
=============================================================================
