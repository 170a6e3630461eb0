--------------------------- MODULE MCConversation ---------------------------
(* Small instances of Conversation for TLC. *)
EXTENDS Conversation, TLC

CONSTANTS c1, c2

MCCommits  == {c1, c2}
MCBootable == {c1}
=============================================================================
