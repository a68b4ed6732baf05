----------------------------- MODULE MCReplyPool -----------------------------
(* A small instance of ReplyPool for TLC: two agent sessions at a time.    *)
EXTENDS ReplyPool

CONSTANTS s1, s2

Two == {s1, s2}
=============================================================================
