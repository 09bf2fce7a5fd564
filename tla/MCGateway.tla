----------------------------- MODULE MCGateway -----------------------------
(* Two exchanges of any kind; a lookup may ask for either's record.        *)
EXTENDS Gateway

CONSTANTS x1, x2

=============================================================================
