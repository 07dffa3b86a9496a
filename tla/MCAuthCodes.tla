---------------------------- MODULE MCAuthCodes ----------------------------
(* AuthCodes with two worker threads and the event loop. *)
EXTENDS AuthCodes
=============================================================================
