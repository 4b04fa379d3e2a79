-------------------------- MODULE MCSocketCommons --------------------------
(* Model values for SocketCommons: a width of three bits.                  *)
EXTENDS SocketCommons

CONSTANTS s1, s2

OneSender  == {s1}
TwoSenders == {s1, s2}

\* A ping, two bytes, the longest message that is reported as sent, and one
\* whose total does not fit.
SizesThatFit == {0, 2, 4, 6}

\* MAX_MSG_SZ is Width itself and becomes 0.
SizesToMax == SizesThatFit \cup {8}

=============================================================================
