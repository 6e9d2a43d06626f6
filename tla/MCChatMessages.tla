--------------------------- MODULE MCChatMessages ---------------------------
(***************************************************************************)
(* Instances of ChatMessages for TLC: the first message of the chat, a few *)
(* more, and the endpoints a run is about.                                 *)
(***************************************************************************)
EXTENDS ChatMessages, TLC

RequestSymmetry == Permutations(Requests)
=============================================================================
