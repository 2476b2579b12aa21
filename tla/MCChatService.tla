--------------------------- MODULE MCChatService ---------------------------
(***************************************************************************)
(* Small instances of ChatService for TLC.                                 *)
(***************************************************************************)
EXTENDS ChatService, TLC

CONSTANTS u1, u2, c1, c2, s1, s2, l1, l2, m1

\* Both connections on one server, the other server only sends
OneServer == [c \in Conn |-> s1]

\* Each connection on a server of its own
TwoServers == [c \in Conn |-> IF c = c1 THEN s1 ELSE s2]

\* Where both connections are on one server they may be exchanged, and logins always
Symmetry == Permutations(Conn) \cup Permutations(Login)
=============================================================================
