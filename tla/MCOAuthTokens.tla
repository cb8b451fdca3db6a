---------------------------- MODULE MCOAuthTokens ----------------------------
(* TLC instances of OAuthTokens: every consent is given to the one client, *)
(* and requests are interchangeable.                                       *)
EXTENDS OAuthTokens, TLC

CONSTANTS client

OneClient == [g \in Grants |-> client]

RequestSymmetry == Permutations(Requests)
=============================================================================
