----------------------------- MODULE DbusServer -----------------------------
(***************************************************************************)
(* The life of a server object of tcp_dbus_server.c.  SRV_CONFIGS_ARRY has *)
(* one place (MAX_NUM_SERVERS), and config is its content.  Init, execute  *)
(* and the emit functions are refused by the same tests of conn and loop.  *)
(***************************************************************************)

\* struct dbus_srv_config; a deleted one is NULL.
Config(created, conn, loop) == [created |-> created, conn |-> conn, loop |-> loop]

NoConfig == Config(FALSE, FALSE, FALSE)

Configs == [created : BOOLEAN, conn : BOOLEAN, loop : BOOLEAN]

tcp_dbus_srv_create       == Config(TRUE, FALSE, FALSE)
tcp_dbus_srv_delete       == NoConfig

\* What the bus may answer: no connection, the name has an owner, the name is
\* refused (or the path is), or all is well.
BusAnswers == {"no_bus", "taken", "refused", "granted"}

CanInit(config) == config.created /\ ~config.conn

\* The config afterwards, and the result.  conn stays set after a failure.
tcp_dbus_srv_init(config, answer) ==
  IF ~CanInit(config) \/ answer = "no_bus" THEN config
  ELSE Config(TRUE, TRUE, answer = "granted")

InitResult(config, answer) ==
  IF ~CanInit(config) THEN "EXIT_FAILURE"
  ELSE CASE answer = "taken"   -> "DBUS_SRV_NAME_UNAVAILABLE"
         [] answer = "granted" -> "EXIT_SUCCESS"
         [] OTHER              -> "EXIT_FAILURE"

\* Tested by tcp_dbus_srv_execute, by the emit functions, and by
\* tcp_dbus_srv_kill, which clears neither field.
Initialized(config) == config.created /\ config.conn /\ config.loop

=============================================================================
