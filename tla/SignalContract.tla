--------------------------- MODULE SignalContract ---------------------------
(***************************************************************************)
(* What the user of the server library is told of each connection, in one  *)
(* of two forms.  When the execute thread is alone: one connect, then      *)
(* data, then one disconnect, or nothing if the client never identifies    *)
(* itself.  The comment at socket_server.c:246 states the rule for the     *)
(* disconnect.  When other threads send: one connect, then data and        *)
(* disconnects in any number and order, for two threads can close the same *)
(* client at once, and data that was received can be reported afterwards.  *)
(***************************************************************************)
CONSTANTS
  Conns,
  Alone   \* does no other thread send?

VARIABLES
  session,  \* what the callbacks have said of each connection
  heard     \* connections whose data has been reported

Init ==
  /\ session = [c \in Conns |-> "absent"]
  /\ heard = {}

Announce(c) ==
  /\ session[c] = "absent"
  /\ session' = [session EXCEPT ![c] = "present"]
  /\ UNCHANGED heard

\* Of which connections data and disconnects may be reported.
Known(c) == session[c] = "present" \/ (~Alone /\ session[c] = "past")

Report(c) ==
  /\ Known(c)
  /\ heard' = heard \cup {c}
  /\ UNCHANGED session

Withdraw(c) ==
  /\ Known(c)
  /\ session' = [session EXCEPT ![c] = "past"]
  /\ UNCHANGED heard

Next == \E c \in Conns : Announce(c) \/ Report(c) \/ Withdraw(c)

Spec == Init /\ [][Next]_<<session, heard>>

=============================================================================
