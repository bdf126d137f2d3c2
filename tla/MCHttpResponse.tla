--------------------------- MODULE MCHttpResponse ---------------------------
(* HttpResponse for TLC. *)
EXTENDS HttpResponse
=============================================================================
