--------------------------- MODULE MCSocketClient ---------------------------
(* Small instances of SocketClient for TLC.                                *)
EXTENDS SocketClient

CONSTANTS main, exec, dbus

=============================================================================
