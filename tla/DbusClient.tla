----------------------------- MODULE DbusClient -----------------------------
(***************************************************************************)
(* The subscriptions of one client of tcp_dbus_client.c: the array         *)
(* tcp_sbscr of its dbus_clnt_config, one slot for each signal.            *)
(***************************************************************************)
EXTENDS Naturals

Signals     == {"RECV", "CONNECT", "DISCONNECT"}
NUM_SIGNALS == 3
NoSignal    == "NULL"

Slots == 1 .. NUM_SIGNALS

\* What tcp_dbus_client_create leaves there.
NoSubscriptions == [i \in Slots |-> NoSignal]

Subscribed(tcp_sbscr) == {tcp_sbscr[i] : i \in Slots} \ {NoSignal}

\* A signal that has no slot yet, and a slot that has no signal.
CanSubscribe(tcp_sbscr, signal) ==
  /\ signal \notin Subscribed(tcp_sbscr)
  /\ \E i \in Slots : tcp_sbscr[i] = NoSignal

FirstFree(tcp_sbscr) ==
  CHOOSE i \in Slots :
    tcp_sbscr[i] = NoSignal /\ \A j \in 1 .. i - 1 : tcp_sbscr[j] # NoSignal

tcp_dbus_client_Subscribe2Recv(tcp_sbscr, signal) ==
  IF CanSubscribe(tcp_sbscr, signal)
  THEN [tcp_sbscr EXCEPT ![FirstFree(tcp_sbscr)] = signal]
  ELSE tcp_sbscr

=============================================================================
