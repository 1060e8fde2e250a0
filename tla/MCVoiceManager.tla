--------------------------- MODULE MCVoiceManager ---------------------------
(* Instances of VoiceManager.  Calls and channels are interchangeable, and   *)
(* so are guilds.                                                            *)
EXTENDS VoiceManager, TLC

CONSTANTS g1, g2, v1, v2, c1, c2, c3

OneGuild == {g1}
TwoGuilds == {g1, g2}
OneChannel == {v1}
TwoChannels == {v1, v2}
TwoCalls == {c1, c2}
ThreeCalls == {c1, c2, c3}

Reliable == {TRUE}
Unreliable == {TRUE, FALSE}

Symmetry ==
  Permutations(Guilds) \union Permutations(Channels) \union Permutations(Calls)
==============================================================================
