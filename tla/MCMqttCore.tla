------------------------------ MODULE MCMqttCore ------------------------------
(* MqttCore on small instances, one for each part of the engine.            *)
EXTENDS MqttCore

NoRequests  == {}
Subscribe   == {"subscribe"}
AllRequests == {"subscribe", "unsubscribe"}

NoTimeouts       == {}
KeepAlive        == {"pingreq", "pingresp"}
RequestTimeouts  == {"connack", "suback", "unsuback"}
===============================================================================
