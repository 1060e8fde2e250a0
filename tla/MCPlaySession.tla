----------------------------- MODULE MCPlaySession -----------------------------
(* Instances of PlaySession: two commands at a time over two sessions. *)
EXTENDS PlaySession, TLC

CONSTANTS c1, c2, v1, v2

MCCommands == {c1, c2}
OneChannel == {v1}
MCChannels == {v1, v2}

Symmetry == Permutations(MCCommands) \union Permutations(MCChannels)
===============================================================================
