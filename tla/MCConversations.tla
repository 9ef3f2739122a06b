-------------------------- MODULE MCConversations --------------------------
(* A small instance of Conversations for TLC. *)
EXTENDS Conversations

CONSTANTS u1, u2, i1, r1, r2, r3

\* A whole chat, and one with more messages than are allowed.
MCBodies == {[title |-> "t1", turns |-> <<"a", "b">>],
             [title |-> "t2", turns |-> <<"a", "b", "b">>]}

=============================================================================
