----------------------------- MODULE MCApiSend -----------------------------
(* Sends of one message each through the developer API, for TLC. *)
EXTENDS ApiSend

CONSTANT d1

OneMessage == {<<d1>>}
=============================================================================
