---------------------------- MODULE MCOAuthFlow ----------------------------
(* OAuthFlow on a small instance, without symmetry: a liveness property is *)
(* checked.  The constants are given in the .cfg file.                     *)
EXTENDS OAuthFlow
=============================================================================
