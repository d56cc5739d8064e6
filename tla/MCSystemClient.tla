--------------------------- MODULE MCSystemClient ---------------------------
(* Appliances and targets for SystemClient under TLC.                      *)
EXTENDS SystemClient

(* Every class of answer that a response can have on each transport.       *)
W == INSTANCE Wire
AnyAnswer == W!Verdicts

(* A password, an API key, or both.                                        *)
AnyCredentials == {{"json"}, {"xml"}, {"json", "xml"}}

PasswordOnly == {{"json"}}
=============================================================================
