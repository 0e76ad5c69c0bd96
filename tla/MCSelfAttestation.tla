-------------------------- MODULE MCSelfAttestation --------------------------
(***************************************************************************)
(* Releases for TLC: the tag of v1 moves between two commits, and each has *)
(* its workflow run; v2, which CHANGELOG.md lacks, is refused by the       *)
(* workflow and released by hand.  One installation.                       *)
(***************************************************************************)
EXTENDS SelfAttestation

CONSTANTS v1, v2, c1, c1b, c2, h, hb

MCVersionOf == [c \in Commits |-> IF c = c2 THEN v2 ELSE v1]
MCPinned == [c \in Commits |-> IF c = c1b THEN hb ELSE h]
MCPushed == {<<v1, c1>>, <<v1, c1b>>, <<v2, c2>>}
(* Only the tag of v1 is pushed, at either commit.                         *)
MCPushedTwice == {<<v1, c1>>, <<v1, c1b>>}
MCByHand == {<<v1, "publish">>, <<v2, "publish">>, <<v2, "release">>, <<v2, "upload">>}
=============================================================================
