---------------------------- MODULE MCCloudService ----------------------------
(* CloudService on small instances.                                         *)
EXTENDS CloudService, FiniteSets

OnlySubscribe == {"subscribe"}
NoTimeouts    == {}
OnlySuback    == {"suback"}
Networks      == FailureKinds \ {"ap", "command", "wifiset"}
OnlyAp        == {"ap"}

(* Bound: a behaviour has up to two failures or, while there was none, a    *)
(* packet of its own or a message of the broker's.  A refused timer and     *)
(* what "wifi -set" leaves behind stand alone.                              *)
Messages     == {i \in 1..Len(broker.wire) : broker.wire[i].type = "publish"}
Unread       == {i \in 1..Len(rxbuff) : rxbuff[i].type = "publish"}
Aftermath    == refused # {} \/ overtaken \/ leaving \/ orphan # "none"
Disturbances == failures + 2 * (created + Cardinality(Messages) + Cardinality(Unread))
                  + IF Aftermath THEN 1 ELSE 0
Calm         == Disturbances <= 2
=============================================================================
