--------------------------- MODULE MCPlaybackStore ---------------------------
(* Two guilds that share one PlayerManager; three tracks are enough for a   *)
(* reordering of one queue while the other guild holds a track.             *)
EXTENDS QueueViews, TLC

CONSTANTS g1, g2

MCGuilds == {g1, g2}

Symmetry == Permutations(MCGuilds)
==============================================================================
