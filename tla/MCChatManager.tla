---------------------------- MODULE MCChatManager ----------------------------
(* Sessions are interchangeable, and so are the messages clients submit: the *)
(* symmetry of the runs that check safety alone.                             *)
EXTENDS ChatManager, TLC

Symmetry == Permutations(Sessions) \cup Permutations(Inputs \ Wakes)
=============================================================================
