----------------------------- MODULE MCReplies -----------------------------
(* Instances of Replies for TLC: a POST, a GET, which may run again, and a *)
(* NON of one peer.                                                         *)
EXTENDS Replies

CONSTANTS post, get, non, p

CONs == {post, get}
SamePeer == [k \in Keys |-> p]
============================================================================
