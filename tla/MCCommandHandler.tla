--------------------------- MODULE MCCommandHandler ---------------------------
(* A session of the command line application with one server.              *)
EXTENDS CommandHandler
================================================================================
