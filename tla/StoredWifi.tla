------------------------------ MODULE StoredWifi ------------------------------
(***************************************************************************)
(* The Wi-Fi of the demos that connect by themselves: cmd_stack_wifi starts *)
(* it, and when the Wi-Fi manager reports, event_cb_wifi_event has          *)
(* _connect_wifi take SSID, password and pairwise master key (PMK) from the *)
(* settings.  The key is costly, so it is computed once and stored.  The    *)
(* settings are changed with psm_set and psm_unset on the command line,     *)
(* which runs in the same loop as the events, and power may fail.           *)
(***************************************************************************)
CONSTANTS
  Ssids, Passwords,
  NULL

VARIABLES
  board,     \* the program
  env,       \* the settings
  station,   \* "down", "starting" (until CODE_WIFI_ON_MGMR_DONE), "told"
  used,      \* what _connect_wifi handed to wifi_mgmr_sta_connect, or NULL
  careless   \* history: SSID or password changed after the PMK was stored, and it was not
             \* unset
vars == <<board, env, station, used, careless>>

\* Whether a program reads the settings, and falls back on the device tree.
Board(stored, tree) == [stored |-> stored, tree |-> tree]
bl602_demo_wifi == Board(TRUE, TRUE)
demo_tickless == Board(TRUE, TRUE)
aws_iot_core == Board(TRUE, TRUE)
mdns == Board(TRUE, FALSE)
http_client_tcp == Board(TRUE, FALSE)
http_client_socket == Board(TRUE, FALSE)
demo_httpd == Board(TRUE, FALSE)
audio_udp == Board(TRUE, FALSE)
ble_sync == Board(TRUE, FALSE)
ble_sync_with_aws == Board(TRUE, FALSE)
demo_ota == Board(FALSE, FALSE)
bl602_demo_nano == Board(FALSE, FALSE)
demo_slave == Board(FALSE, FALSE)     \* it has no _connect_wifi at all
Boards == {bl602_demo_wifi, demo_tickless, aws_iot_core, mdns, http_client_tcp,
           http_client_socket, demo_httpd, audio_udp, ble_sync, ble_sync_with_aws,
           demo_ota, bl602_demo_nano, demo_slave}

\* wifi_mgmr_psk_cal: the key stands for what it was computed from.
Psk(ssid, password) == <<ssid, password>>
\* The network in the device tree, which stores no key.
Tree == [ssid |-> "dts", password |-> "dts", pmk |-> NULL]

Init == /\ board \in Boards
        /\ env = [ssid |-> NULL, password |-> NULL, pmk |-> NULL]
        /\ station = "down" /\ used = NULL /\ careless = FALSE

\* cmd_stack_wifi, and the event of its end.
StackWifi == /\ station = "down" /\ station' = "starting"
             /\ UNCHANGED <<board, env, used, careless>>

\* Mutant: the key is computed before the password is read.
KeyEarly == IF env.pmk # NULL THEN env.pmk ELSE Psk(env.ssid, NULL)
Key == IF env.pmk # NULL THEN env.pmk ELSE Psk(env.ssid, env.password)

\* _connect_wifi: the settings, the device tree if it has a network, or nothing.
ConnectWifi ==
  /\ station = "starting" /\ station' = "told"
  /\ \/ /\ board.stored /\ env.ssid # NULL
        /\ env' = [env EXCEPT !.pmk = Key] /\ used' = env'
     \/ /\ ~(board.stored /\ env.ssid # NULL)
        /\ used' \in {NULL} \cup (IF board.tree THEN {Tree} ELSE {})
        /\ UNCHANGED env
  /\ UNCHANGED <<board, careless>>

\* psm_set
PsmSet == /\ \/ \E s \in Ssids : env' = [env EXCEPT !.ssid = s]
             \/ \E p \in Passwords : env' = [env EXCEPT !.password = p]
          /\ careless' = (careless \/ (env.pmk # NULL /\ env' # env))
          /\ UNCHANGED <<board, station, used>>

\* psm_unset
PsmUnset == /\ env' = [env EXCEPT !.pmk = NULL] /\ careless' = FALSE
            /\ UNCHANGED <<board, station, used>>

\* The reboot after CODE_WIFI_ON_EMERGENCY_MAC, or of the power.
Restart == /\ station # "down" /\ station' = "down" /\ used' = NULL
           /\ UNCHANGED <<board, env, careless>>

Next == StackWifi \/ ConnectWifi \/ PsmSet \/ PsmUnset \/ Restart
Spec == Init /\ [][Next]_vars

(***************************************************************************)
(* Properties.                                                             *)
(***************************************************************************)

\* _connect_wifi connects with the SSID and the password that are stored and with the key
\* that belongs to them, whatever order they were typed in and wherever the board was
\* restarted in between, provided that the key was unset after a change, as the message
\* of _connect_wifi asks ("MUST be psm_unset when conf is changed").
PmkFits ==
  [][(used' # used /\ used' # NULL /\ ~careless) =>
       used'.pmk \in {NULL, Psk(used'.ssid, used'.password)}]_vars
=============================================================================
