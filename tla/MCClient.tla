------------------------------ MODULE MCClient ------------------------------
(* Values of the constants of Client that a configuration cannot write: a token that is   *)
(* configured twice, and an entry that is no token.                                       *)
EXTENDS Client

CONSTANTS tok, c1, c2, c3
MCCredentials == <<tok, Malformed, tok>>
=============================================================================
