--------------------------- MODULE MCHttpRequest ---------------------------
(* HttpRequest for TLC. *)
EXTENDS HttpRequest
=============================================================================
