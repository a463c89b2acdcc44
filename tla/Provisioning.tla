----------------------------- MODULE Provisioning -----------------------------
(* The client of the device provisioning service (DPS): it registers in each *)
(* of its MQTT sessions, polls while the service is assigning, tries again   *)
(* when nothing comes of it, and hands over to the IoT Hub client.  Its two  *)
(* timers and its queued PUBLISH packets outlive the session they are of.    *)
(* CloudService says when a session comes up and goes down.                  *)
EXTENDS Integers, Sequences

CONSTANTS RetryTicks,     \* 240: half seconds from one retry to the next
          MaxLost         \* bound: provisioning sessions that are lost

ASSUME RetryAssumption == RetryTicks \in Nat \ {0}
ASSUME LostAssumption  == MaxLost \in Nat

VARIABLES
  client,       \* pf_mqtt_client: whose session is wanted
  session,      \* none, open (CONNACK came) or subscribed (SUBACK came)
  topic,        \* mqtt_dps_topic_buffer, which every packet of the client points to
  queued,       \* the client's packets in the PUBLISH list
  wire,         \* requests of this session the service has not answered
  retry,        \* the periodic timer dps_retry_timer_handle names is running
  strayRetries, \* as many run without a handle
  counter,      \* dps_retry_counter, modulo 240
  poll,         \* the timer dps_assigning_timer_handle names is running
  strayPolls,   \* as many run without a handle
  hung,         \* dps_retry_task tries again, and does not return
  since,        \* history: half seconds since the last registration, up to RetryTicks
  lost          \* history: provisioning sessions lost so far

packets  == <<topic, queued, wire>>
retrying == <<retry, strayRetries, counter, hung, since>>
polling  == <<poll, strayPolls>>
vars     == <<client, session, packets, retrying, polling, lost>>

\* A topic says what is asked for: a registration, or the state of an operation,
\* the one the service named or none it knows.
Topics == {"register", "operation", "unknown"}

Count(timer) == IF timer THEN 1 ELSE 0

Leftovers == queued + Count(poll) + strayPolls

-------------------------------------------------------------------------------
(* Sessions.                                                                  *)

SessionOpens ==
  /\ session = "none" /\ session' = "open"
  /\ UNCHANGED <<client, packets, retrying, polling, lost>>

\* Fault: a timer that still runs is used again, and the count goes on.
ConnectedReusesTimer ==
  /\ topic' = "register"
  /\ \/ queued' = queued + 1 /\ retry' = TRUE /\ since' = 0
     \/ UNCHANGED <<queued, retry, since>>
  /\ UNCHANGED <<strayRetries, counter>>

\* MQTT_CLIENT_iotprovisioning_connected.  A timer of an earlier session is not
\* stopped; without memory for the packet none is registered.
Connected ==
  /\ topic' = "register"
  /\ \/ /\ queued' = queued + 1
        /\ strayRetries' = strayRetries + Count(retry)
        /\ retry' = TRUE /\ counter' = 0 /\ since' = 0
     \/ UNCHANGED <<queued, strayRetries, retry, counter, since>>

\* The SUBACK.  What the IoT Hub client does then is not part of this module.
Subscribed ==
  /\ session = "open" /\ session' = "subscribed"
  /\ IF client = "dps" THEN Connected
     ELSE UNCHANGED <<topic, queued, strayRetries, retry, counter, since>>
  /\ UNCHANGED <<client, wire, hung, polling, lost>>

\* Whatever ends the session, the PUBLISH list and the timers stay.
SessionLost ==
  /\ session # "none" /\ session' = "none"
  /\ wire' = <<>>
  /\ IF client = "dps" THEN lost < MaxLost /\ lost' = lost + 1 ELSE UNCHANGED lost
  /\ UNCHANGED <<client, topic, queued, retrying, polling>>

-------------------------------------------------------------------------------
(* Packets.                                                                   *)

\* A queued packet is sent with what its topic says by then, to whichever
\* server the session is with.
Send ==
  /\ session # "none" /\ queued > 0
  /\ queued' = queued - 1
  /\ wire' = IF client = "dps" THEN Append(wire, topic) ELSE wire
  /\ UNCHANGED <<client, session, topic, retrying, polling, lost>>

\* Fault: the retry timer is not destroyed.
AssignedKeepsRetry ==
  /\ poll' = FALSE
  /\ client' = "hub" /\ session' = "none" /\ wire' = <<>>
  /\ UNCHANGED <<retry, strayPolls>>

\* iot_provisioning_completed names the new host and ends the session.
Assigned ==
  /\ retry' = FALSE /\ poll' = FALSE
  /\ client' = "hub" /\ session' = "none" /\ wire' = <<>>
  /\ UNCHANGED strayPolls

\* The next question is put later; a timer that still runs is not stopped.
Assigning ==
  /\ strayPolls' = strayPolls + Count(poll) /\ poll' = TRUE
  /\ wire' = Tail(wire)
  /\ UNCHANGED <<client, session, retry>>

\* FAILED, DISABLED, an answer that cannot be read or, before the SUBACK, none.
NoProgress == wire' = Tail(wire) /\ UNCHANGED <<client, session, retry, polling>>

\* dps_client_register, on the service's answer to the oldest request.
Answer ==
  /\ wire # <<>>
  /\ \/ NoProgress
     \/ session = "subscribed" /\ Head(wire) # "unknown" /\ (Assigned \/ Assigning)
  /\ UNCHANGED <<topic, queued, strayRetries, counter, hung, since, lost>>

-------------------------------------------------------------------------------
(* Timers.                                                                    *)

\* dps_assigning_task.  The operation's name is read where the answer was read
\* from, a local array of mqttProcessPublish: it may be there still or not.
PollTask ==
  /\ \/ poll /\ poll' = FALSE /\ UNCHANGED strayPolls
     \/ strayPolls > 0 /\ strayPolls' = strayPolls - 1 /\ UNCHANGED poll
  /\ \/ topic' \in {"operation", "unknown"} /\ queued' \in {queued, queued + 1}
     \/ UNCHANGED <<topic, queued>>
  /\ UNCHANGED <<client, session, wire, retrying, lost>>

\* Half a second passes: each retry timer runs dps_retry_task.  When the count is
\* full the task reads the secure element, which no interrupt returns from
\* (SysTime, CallbackDelayHangs).
Tick ==
  LET n == strayRetries + Count(retry)
  IN /\ counter' = (counter + n) % RetryTicks
     /\ hung' = (counter + n >= RetryTicks)
     /\ since' = IF since < RetryTicks THEN since + 1 ELSE since
     /\ UNCHANGED <<client, session, packets, retry, strayRetries, polling, lost>>

-------------------------------------------------------------------------------
Init ==
  /\ client = "dps" /\ session = "none"
  /\ topic = "unknown" /\ queued = 0 /\ wire = <<>>
  /\ retry = FALSE /\ strayRetries = 0 /\ counter = 0
  /\ poll = FALSE /\ strayPolls = 0
  /\ hung = FALSE /\ since = 0 /\ lost = 0

Next ==
  /\ ~hung
  /\ \/ SessionOpens
     \/ Subscribed
     \/ SessionLost
     \/ Send
     \/ Answer
     \/ PollTask
     \/ Tick

Spec == Init /\ [][Next]_vars

-------------------------------------------------------------------------------
(* Properties.                                                                *)

\* "retry every 2 mins" (mqtt_iotprovisioning_packetPopulate.c:376): the first
\* retry comes that long after the session registered and while it is still to be
\* assigned, unless the timer of an earlier session, which nothing stops, runs too.
OnlyStraysRetryEarly ==
  hung => strayRetries > 0 \/ (client = "dps" /\ since = RetryTicks)

\* Once the hub is named, the provisioning client is over: what is left to disturb
\* the hub's session is at most one retry timer and one question, asked or to be
\* asked, for each provisioning session that was lost, and nothing if none was.
OnlyLostSessionsLeave ==
  client = "hub" => /\ Leftovers <= lost
                    /\ Count(retry) + strayRetries <= lost
===============================================================================
