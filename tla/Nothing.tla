------------------------------- MODULE Nothing -------------------------------
(***************************************************************************)
(* The value the models of the web server's components use for what is not *)
(* there: an empty string, a nil pointer, a map without the key.           *)
(***************************************************************************)
CONSTANT None
=============================================================================
