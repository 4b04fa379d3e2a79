--------------------------- MODULE MessageChannel ---------------------------
(***************************************************************************)
(* What the users of socket_send_data and socket_receive_data may rely on  *)
(* when one thread sends: a channel of whole messages.  Each is returned   *)
(* as it was sent, once, in the order of the calls; one of which the       *)
(* connection broke in the middle never is.  Until the stream gets out of  *)
(* step (a header that came in two reads) none is passed over.             *)
(***************************************************************************)
EXTENDS Naturals, Sequences

CONSTANT Contents  \* what a message says

VARIABLES
  queued,    \* the messages sent, and whether all of each was
  returned,  \* those returned, each with its place in queued
  torn,      \* is the receiver out of step?
  over       \* has the receiver seen the end?

channelVars == <<queued, returned, torn, over>>

Init ==
  /\ queued = <<>> /\ returned = <<>>
  /\ torn = FALSE /\ over = FALSE

\* A message that is not whole is the last one.
Begin ==
  /\ \A i \in DOMAIN queued : queued[i].whole
  /\ \E c \in Contents, w \in BOOLEAN :
       queued' = Append(queued, [contents |-> c, whole |-> w])
  /\ UNCHANGED <<returned, torn, over>>

Complete ==
  /\ queued # <<>>
  /\ queued' = [queued EXCEPT ![Len(queued)].whole = TRUE]
  /\ UNCHANGED <<returned, torn, over>>

Latest == IF returned = <<>> THEN 0 ELSE returned[Len(returned)].place

Deliver ==
  /\ ~over
  /\ \E i \in DOMAIN queued :
       /\ queued[i].whole
       /\ IF torn THEN i > Latest ELSE i = Latest + 1
       /\ returned' =
            Append(returned, [place |-> i, contents |-> queued[i].contents])
  /\ UNCHANGED <<queued, torn, over>>

Tear ==
  /\ ~over
  /\ torn' = TRUE
  /\ UNCHANGED <<queued, returned, over>>

End ==
  /\ over' = TRUE
  /\ UNCHANGED <<queued, returned, torn>>

Next == Begin \/ Complete \/ Deliver \/ Tear \/ End

Spec == Init /\ [][Next]_channelVars

=============================================================================
