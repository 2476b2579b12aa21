---------------------------- MODULE MCChatClient ----------------------------
(***************************************************************************)
(* Small instances of ChatClient for TLC.                                  *)
(***************************************************************************)
EXTENDS ChatClient

CONSTANTS u1, u2, c1, c2, s1, s2, l1, l2, m1

\* The clients use one server, the other server only sends
OneServer == [c \in Conn |-> s1]
=============================================================================
