--------------------------- MODULE MCSocketServer ---------------------------
(* Small instances of SocketServer for TLC.                                *)
EXTENDS SocketServer, TLC

CONSTANTS laptop, pi0, exec, dbus

\* Devices are interchangeable.
Symmetry == Permutations(Devices)

=============================================================================
