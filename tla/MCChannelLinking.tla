--------------------------- MODULE MCChannelLinking ---------------------------
(* Instances of ChannelLinking for TLC. *)
EXTENDS ChannelLinking, TLC

Symmetry ==
  Permutations(Workspaces) \cup Permutations(Chats) \cup Permutations(Codes)
    \cup Permutations(Redeems) \cup Permutations(Creates) \cup Permutations(Channels)

=============================================================================
