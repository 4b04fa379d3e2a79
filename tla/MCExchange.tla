----------------------------- MODULE MCExchange -----------------------------
(* Model values for Exchange.                                              *)
EXTENDS Exchange

CONSTANTS camera, other

\* The second connection is of the same device, which returns, or of another.
Openers == [c \in Conns |-> IF c = 1 THEN {camera} ELSE Devices]

Threads == {"cb", "main"}

=============================================================================
