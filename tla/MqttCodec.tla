------------------------------ MODULE MqttCodec ------------------------------
(* Two pure algorithms of mqtt_core.c: the remaining length of a packet, which *)
(* is written and read in groups of seven bits, and the choice of the callback *)
(* a received PUBLISH goes to, by the filters of the subscriptions.            *)
EXTENDS Integers, Sequences, FiniteSetsExt

CONSTANTS Words,        \* the words of topics
          FilterWords,  \* the words of a filter before its "#", at most
          TopicWords,   \* the words of a topic, at most
          NextBytes     \* the bytes that may follow the length field

\* A "#" in a filter stands at its end.
ASSUME WordsAssumption == "#" \notin Words
ASSUME WordCountsAssumption == FilterWords \in Nat /\ TopicWords \in Nat
ASSUME NextBytesAssumption == NextBytes \subseteq 0..255

VARIABLE codec        \* the last call of one of them: its arguments and result

Continues == 128       \* the bit that says: one more byte follows
FieldSize == 4         \* sizeof(remainingLength)

\* totalLength is a uint16_t.
UINT16_MAX   == 65535
TotalLengths == 0..UINT16_MAX

-----------------------------------------------------------------------------
(* The remaining length.                                                     *)

\* Fault: the continuation bit is set by the value before it is divided.
EncodeContinuesLate[length \in TotalLengths] ==
  IF length <= 128 THEN <<length % 128>>
  ELSE <<(length % 128) + Continues>> \o EncodeContinuesLate[length \div 128]

mqttEncodeLengthLate(length) == EncodeContinuesLate[length]

EncodeGroups[length \in TotalLengths] ==
  IF length < 128 THEN <<length>>
  ELSE <<(length % 128) + Continues>> \o EncodeGroups[length \div 128]

mqttEncodeLength(length) == EncodeGroups[length]

\* How many of the bytes mqttProcessPublish takes out of the buffer as the length.
FieldLength(bytes) ==
  Min({i \in 1..Len(bytes) : bytes[i] < Continues} \cup {FieldSize})

\* The loop reads on while a byte continues: what it would add beyond the bytes
\* that were read is not defined, so the last of them must not continue.
mqttDecodeLength(bytes) ==
  LET n == Min({i \in 1..Len(bytes) : bytes[i] < Continues})
      value[i \in 1..(n + 1)] ==
        IF i > n THEN 0 ELSE (bytes[i] % 128) + 128 * value[i + 1]
  IN value[1]

-----------------------------------------------------------------------------
(* Topics, as sequences of the words between their slashes.                  *)

\* Fault: a word of the filter is compared before it is seen to be a wildcard.
MatchComparesFirst(SubTopic, publishTopic) ==
  LET from[i \in 1..Len(SubTopic)] ==
        \/ i = Len(SubTopic) /\ i = Len(publishTopic)
        \/ SubTopic[i] = "#"
        \/ SubTopic[i] = publishTopic[i] /\ from[i + 1]
  IN from[1]

\* Both pointers move behind their next slash.  A filter and a topic that end
\* together match whatever their last words are.  When only one of them has
\* ended, the pointer to it moves on from NULL, which is not defined here.
matchTopicSubscribe(SubTopic, publishTopic) ==
  LET from[i \in 1..Len(SubTopic)] ==
        \/ i = Len(SubTopic) /\ i = Len(publishTopic)
        \/ SubTopic[i] = "#"
        \/ SubTopic[i] \in {"+", publishTopic[i]} /\ from[i + 1]
  IN from[1]

\* An entry without a topic (NULL) matches nothing.
NoTopic == <<>>

\* The callback of the first entry that matches, if any.
Dispatched(table, topic) ==
  LET matching == {i \in 1..Len(table) :
                     table[i].topic # NoTopic /\ matchTopicSubscribe(table[i].topic, topic)}
  IN IF matching = {} THEN "none" ELSE table[Min(matching)].callback

Entry(topic, callback) == [topic |-> topic, callback |-> callback]

\* The subscriptions' topics and the topics of messages are the Azure SDK's.
Methods  == <<"$iothub", "methods", "POST">>
Patch    == <<"$iothub", "twin", "PATCH", "properties", "desired">>
TwinGet  == <<"$iothub", "twin", "res">>
Register == <<"$dps", "registrations", "res">>

Below(topic) == Append(topic, "#")

\* Fault: one callback is set for two topics.
iothubTableMixed ==
  <<Entry(Below(Methods), "APP_ReceivedFromCloud_methods"),
    Entry(Below(Patch), "APP_ReceivedFromCloud_patch"),
    Entry(Below(TwinGet), "APP_ReceivedFromCloud_patch")>>

\* imqtt_publishReceiveCallBackTable, as the two clients set it when they subscribe.
iothubTable ==
  <<Entry(Below(Methods), "APP_ReceivedFromCloud_methods"),
    Entry(Below(Patch), "APP_ReceivedFromCloud_patch"),
    Entry(Below(TwinGet), "APP_ReceivedFromCloud_twin")>>

provisioningTable ==
  <<Entry(Below(Register), "dps_client_register"),
    Entry(NoTopic, "none"), Entry(NoTopic, "none")>>

-----------------------------------------------------------------------------
(* Calls.                                                                    *)

Idle == [op |-> "none"]

\* A packet's length is written, another byte follows it, and it is read.
PassLength(length, next) ==
  LET bytes == mqttEncodeLength(length) \o <<next>>
      n     == FieldLength(bytes)
  IN codec' = [op |-> "length", length |-> length, field |-> mqttEncodeLength(length),
               read |-> n, value |-> mqttDecodeLength(SubSeq(bytes, 1, n))]

MatchTopic(filter, topic) ==
  codec' = [op |-> "match", filter |-> filter, topic |-> topic,
            result |-> matchTopicSubscribe(filter, topic)]

\* The messages of the hub and of the provisioning service, in either session.
HubTopics ==
  {Methods \o <<"name", "?$rid=1">>, Patch \o <<"?$version=1">>,
   TwinGet \o <<"200", "?$rid=1">>, TwinGet \o <<"204", "?$rid=1&$version=1">>}

ServiceTopics == {Register \o <<"202", "?$rid=1&retry-after=3">>}

Deliver(session, topic) ==
  LET table == IF session = "iothub" THEN iothubTable ELSE provisioningTable
  IN codec' = [op |-> "deliver", session |-> session, topic |-> topic,
               result |-> Dispatched(table, topic)]

\* The filters this program subscribes with end in "#"; a topic is no shorter.
Filters ==
  {Append(f, "#") : f \in UNION {[1..n -> Words \cup {"+"}] : n \in 0..FilterWords}}
TopicsOf(n) == UNION {[1..k -> Words] : k \in n..TopicWords}

CodecCall ==
  \/ \E length \in TotalLengths, next \in NextBytes : PassLength(length, next)
  \/ \E filter \in Filters : \E topic \in TopicsOf(Len(filter)) : MatchTopic(filter, topic)
  \/ \E session \in {"iothub", "iotprovisioning"}, topic \in HubTopics \cup ServiceTopics :
       Deliver(session, topic)

\* Calls in any order; between two of them nothing is remembered.
CodecSpec == codec = Idle /\ [][CodecCall \/ codec' = Idle]_codec

-----------------------------------------------------------------------------
(* Properties.                                                               *)

\* Every length a packet of the engine can have is read back as it was written,
\* from as many bytes as were written, whatever byte follows them.
LengthSurvives ==
  codec.op = "length" =>
    /\ codec.read = Len(codec.field) /\ codec.read <= FieldSize
    /\ codec.value = codec.length

\* What the words of a filter mean in MQTT.
Matches(filter, topic) ==
  \A i \in 1..(Len(filter) - 1) : filter[i] \in {"+", topic[i]}

\* The matching is MQTT's, for filters and topics as in Filters and TopicsOf.
MatchingCorrect ==
  codec.op = "match" => codec.result = Matches(codec.filter, codec.topic)

\* Of the messages the hub and the provisioning service send, each reaches its own
\* callback in the session it is meant for, and none in the other.
MessageDispatched ==
  codec.op = "deliver" =>
    codec.result =
      IF (codec.topic \in ServiceTopics) # (codec.session = "iotprovisioning") THEN "none"
      ELSE CASE codec.topic[2] = "registrations" -> "dps_client_register"
             [] codec.topic[2] = "methods" -> "APP_ReceivedFromCloud_methods"
             [] codec.topic[2] = "twin" /\ codec.topic[3] = "PATCH" -> "APP_ReceivedFromCloud_patch"
             [] codec.topic[2] = "twin" /\ codec.topic[3] = "res" -> "APP_ReceivedFromCloud_twin"
=============================================================================
