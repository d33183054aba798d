---------------------------- MODULE DeviceAdvisor ----------------------------
(***************************************************************************)
(* The task aws_device_advisor_entry of aws_iot_core, which goes through    *)
(* the tests of the AWS device advisor: three of MQTT, then three in which  *)
(* the TLS handshake has to be refused.                                     *)
(***************************************************************************)
EXTENDS Integers

CONSTANT TEST_STEP_RETRY_COUNT
VARIABLES
  teststep, mqttstep, count,  \* locals of the task
  open                        \* the client or its network stack is connected
vars == <<teststep, mqttstep, count, open>>

MqttTests == {"MQTT_CONNECT", "MQTT_SUBSCRIBE", "MQTT_PUBLISH"}
TlsTests == {"TLS_CONNECT", "TLS_UNSECURE", "TLS_INCORRECT_SUBJECT"}
Sends == {"SEND_MQTT_SUBSCRIBE", "SEND_MQTT_PUBLISH"}

\* A failed aws_iot_shadow_init leaves the task in an endless delay.
Init == /\ teststep \in {"MQTT_CONNECT", "ABORTED"} /\ mqttstep = "CONNECT"
        /\ count = 0 /\ open = FALSE

\* One more failure of a step that is tried again: give up after the last one.
Failed(stop, mqttStop) ==
  \/ /\ count + 1 < TEST_STEP_RETRY_COUNT
     /\ count' = count + 1 /\ UNCHANGED <<teststep, mqttstep>>
  \/ /\ count + 1 >= TEST_STEP_RETRY_COUNT
     /\ count' = 0 /\ teststep' = stop /\ mqttstep' = mqttStop

\* Mutant: giving up forgets to reset mqttstep.
MqttConnectFailsHalf ==
  /\ teststep \in MqttTests
  /\ open' = FALSE /\ Failed("IDLE", mqttstep)

MqttConnectFails ==
  /\ teststep \in MqttTests
  /\ open' = FALSE /\ Failed("IDLE", "IDLE")

\* The handshake is refused, as it should be: the next test of TLS.
TlsRefused ==
  /\ teststep \in TlsTests
  /\ open' = FALSE
  /\ teststep' = CASE teststep = "TLS_CONNECT" -> "TLS_UNSECURE"
                   [] teststep = "TLS_UNSECURE" -> "TLS_INCORRECT_SUBJECT"
                   [] OTHER -> "IDLE"
  /\ UNCHANGED <<mqttstep, count>>

\* Connected in a test of MQTT: what is done with the connection.
MqttConnected ==
  /\ teststep \in MqttTests
  /\ open' = TRUE /\ count' = 0
  /\ teststep' = CASE mqttstep = "CONNECT" -> "WAIT_MQTT_DISCONNECT"
                   [] mqttstep = "SUBSCRIBE" -> "SEND_MQTT_SUBSCRIBE"
                   [] mqttstep = "PUBLISH" -> "SEND_MQTT_PUBLISH"
                   [] OTHER -> teststep
  /\ UNCHANGED mqttstep

\* Connected in a test of TLS: the first goes on, the others try again.
TlsAccepted ==
  /\ teststep \in TlsTests
  /\ open' = (teststep # "TLS_CONNECT") /\ count' = 0
  /\ teststep' = IF teststep = "TLS_CONNECT" THEN "TLS_UNSECURE" ELSE teststep
  /\ UNCHANGED mqttstep

\* A subscription or a publication, which fails or not.
Sent == /\ teststep \in Sends
        /\ teststep' = "WAIT_MQTT_DISCONNECT" /\ UNCHANGED <<mqttstep, count, open>>

SendFails == /\ teststep \in Sends
             /\ Failed("WAIT_MQTT_DISCONNECT", mqttstep) /\ UNCHANGED open

\* Mutant: mqttstep is not moved on from the subscription.
WaitDisconnectAgain ==
  /\ teststep = "WAIT_MQTT_DISCONNECT" /\ open' = FALSE
  /\ teststep' = CASE mqttstep = "CONNECT" -> "MQTT_SUBSCRIBE"
                   [] mqttstep = "SUBSCRIBE" -> "MQTT_PUBLISH"
                   [] mqttstep = "PUBLISH" -> "TLS_CONNECT"
                   [] OTHER -> teststep
  /\ mqttstep' = CASE mqttstep = "CONNECT" -> "SUBSCRIBE"
                   [] mqttstep = "SUBSCRIBE" -> mqttstep
                   [] OTHER -> "IDLE"
  /\ UNCHANGED count

\* The test is over: disconnect, if connected, and go to the next.
WaitDisconnect ==
  /\ teststep = "WAIT_MQTT_DISCONNECT" /\ open' = FALSE
  /\ teststep' = CASE mqttstep = "CONNECT" -> "MQTT_SUBSCRIBE"
                   [] mqttstep = "SUBSCRIBE" -> "MQTT_PUBLISH"
                   [] mqttstep = "PUBLISH" -> "TLS_CONNECT"
                   [] OTHER -> teststep
  /\ mqttstep' = CASE mqttstep = "CONNECT" -> "SUBSCRIBE"
                   [] mqttstep = "SUBSCRIBE" -> "PUBLISH"
                   [] OTHER -> "IDLE"
  /\ UNCHANGED count

\* The other side closes the connection.
LoseConnection == open /\ open' = FALSE /\ UNCHANGED <<teststep, mqttstep, count>>

Round == \/ MqttConnectFails \/ TlsRefused \/ MqttConnected \/ TlsAccepted
         \/ Sent \/ SendFails \/ WaitDisconnect
Next == Round \/ LoseConnection
Fairness == WF_vars(Round)      \* the loop of the task
Spec == Init /\ [][Next]_vars /\ Fairness

(***************************************************************************)
(* Properties.                                                             *)
(***************************************************************************)

\* The two machines stay in step, so that no CASE above is without a branch, no test
\* starts over a connection of the one before it, and a test is tried again only a
\* bounded number of times.
InStep ==
  /\ mqttstep = CASE teststep \in {"MQTT_CONNECT", "ABORTED"} -> "CONNECT"
                  [] teststep \in {"MQTT_SUBSCRIBE", "SEND_MQTT_SUBSCRIBE"} -> "SUBSCRIBE"
                  [] teststep \in {"MQTT_PUBLISH", "SEND_MQTT_PUBLISH"} -> "PUBLISH"
                  [] teststep = "WAIT_MQTT_DISCONNECT" -> mqttstep
                  [] OTHER -> "IDLE"
  /\ teststep = "WAIT_MQTT_DISCONNECT" => mqttstep \in {"CONNECT", "SUBSCRIBE", "PUBLISH"}
  /\ open => teststep \notin MqttTests \cup {"TLS_CONNECT", "IDLE", "ABORTED"}
  /\ count < TEST_STEP_RETRY_COUNT

\* The tests come to an end, unless a server with a bad certificate is accepted again
\* and again.
TestsEnd == <>(teststep \in {"IDLE", "ABORTED"}) \/ []<><<TlsAccepted>>_vars
=============================================================================
