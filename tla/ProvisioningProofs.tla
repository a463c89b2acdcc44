-------------------------- MODULE ProvisioningProofs --------------------------
(* Theorems about Provisioning, for every retry interval and any number of   *)
(* sessions that are lost.                                                   *)
EXTENDS Provisioning, SequenceTheorems, TLAPS

Types ==
  /\ client \in {"dps", "hub"} /\ session \in {"none", "open", "subscribed"}
  /\ topic \in Topics /\ queued \in Nat /\ wire \in Seq(Topics)
  /\ retry \in BOOLEAN /\ strayRetries \in Nat /\ counter \in 0..(RetryTicks - 1)
  /\ poll \in BOOLEAN /\ strayPolls \in Nat
  /\ hung \in BOOLEAN /\ since \in 0..RetryTicks /\ lost \in Nat

\* The registration of the session that is up, until it is lost.
Registered == client = "dps" /\ session = "subscribed"

\* Each registration is one question, asked or to be asked, and one retry timer.
Chains ==
  /\ Leftovers + Len(wire) <= lost + Count(Registered)
  /\ Count(retry) + strayRetries <= lost + Count(Registered)
  /\ client = "hub" => wire = <<>>
  /\ client = "dps" /\ ~retry => strayRetries = 0

\* One timer counts the half seconds since its session registered.
Counting ==
  /\ retry => client = "dps"
  /\ strayRetries = 0 /\ retry /\ ~hung => counter = since
  /\ OnlyStraysRetryEarly

IInv == Types /\ Chains /\ Counting

LEMMA InitIInv == Init => IInv
<1> SUFFICES ASSUME Init PROVE IInv
  OBVIOUS
<1>1. Types
  <2>1. wire \in Seq(Topics)
    BY EmptySeq DEF Init
  <2>2. counter \in 0..(RetryTicks - 1) /\ since \in 0..RetryTicks
    BY RetryAssumption DEF Init
  <2>3. QED
    BY <2>1, <2>2 DEF Init, Types, Topics
<1>2. Len(wire) = 0
  BY EmptySeq DEF Init
<1>3. QED
  BY <1>1, <1>2 DEF Init, IInv, Chains, Counting, OnlyStraysRetryEarly, Registered, Leftovers,
     Count

LEMMA LenWire == ASSUME Types PROVE Len(wire) \in Nat /\ (wire # <<>> => Len(wire) > 0)
BY LenProperties, EmptySeq DEF Types

LEMMA TailWire ==
  ASSUME Types, wire # <<>>, wire' = Tail(wire)
  PROVE  wire' \in Seq(Topics) /\ Len(wire') = Len(wire) - 1
BY HeadTailProperties DEF Types

LEMMA CountTyped == \A t \in BOOLEAN : Count(t) \in {0, 1}
BY DEF Count

LEMMA CountRunning == Count(TRUE) = 1 /\ Count(FALSE) = 0
BY DEF Count

LEMMA SessionOpensStep == ASSUME IInv, ~hung, SessionOpens PROVE IInv'
BY DEF SessionOpens, IInv, Types, Chains, Counting, OnlyStraysRetryEarly, Registered, Leftovers,
   Count, packets, retrying, polling

LEMMA SubscribedStep == ASSUME IInv, ~hung, Subscribed PROVE IInv'
<1>1. Len(wire) \in Nat
  BY LenWire DEF IInv
<1>2. /\ session = "open" /\ session' = "subscribed"
      /\ UNCHANGED <<client, wire, hung, poll, strayPolls, lost>>
  BY DEF Subscribed, polling
<1>3. \/ /\ client = "dps" /\ topic' = "register" /\ queued' = queued + 1
         /\ strayRetries' = strayRetries + Count(retry) /\ retry' = TRUE
         /\ counter' = 0 /\ since' = 0
      \/ topic' \in Topics /\ UNCHANGED <<queued, strayRetries, retry, counter, since>>
  BY DEF Subscribed, Connected, IInv, Types, Topics
<1>4. Types'
  <2>1. counter' \in 0..(RetryTicks - 1) /\ since' \in 0..RetryTicks
    BY <1>3, RetryAssumption DEF IInv, Types
  <2>2. retry' \in BOOLEAN /\ poll' \in BOOLEAN /\ hung' \in BOOLEAN
    BY <1>2, <1>3 DEF IInv, Types
  <2>3. strayRetries' \in Nat /\ queued' \in Nat
    BY <1>3 DEF IInv, Types, Count
  <2>4. topic' \in Topics /\ session' \in {"none", "open", "subscribed"}
    BY <1>2, <1>3 DEF Topics
  <2>5. QED
    BY <1>2, <2>1, <2>2, <2>3, <2>4 DEF IInv, Types
<1>5. Chains'
  BY <1>1, <1>2, <1>3 DEF IInv, Types, Chains, Registered, Leftovers, Count
<1>6. Counting'
  BY <1>2, <1>3 DEF IInv, Types, Counting, OnlyStraysRetryEarly, Count
<1>7. QED
  BY <1>4, <1>5, <1>6 DEF IInv

LEMMA SessionLostStep == ASSUME IInv, ~hung, SessionLost PROVE IInv'
<1>1. Len(wire) \in Nat /\ wire' \in Seq(Topics) /\ Len(wire') = 0
  BY LenWire, EmptySeq DEF IInv, SessionLost
<1>2. QED
  BY <1>1 DEF SessionLost, IInv, Types, Chains, Counting, OnlyStraysRetryEarly, Registered,
     Leftovers, Count, retrying, polling

LEMMA SendStep == ASSUME IInv, ~hung, Send PROVE IInv'
<1>1. Len(wire) \in Nat
  BY LenWire DEF IInv
<1>2. CASE client = "dps"
  <2>1. wire' \in Seq(Topics) /\ Len(wire') = Len(wire) + 1
    BY <1>2, AppendProperties DEF Send, IInv, Types
  <2>2. QED
    BY <1>1, <1>2, <2>1 DEF Send, IInv, Types, Chains, Counting, OnlyStraysRetryEarly,
       Registered, Leftovers, Count, retrying, polling
<1>3. CASE client # "dps"
  BY <1>1, <1>3 DEF Send, IInv, Types, Chains, Counting, OnlyStraysRetryEarly,
     Registered, Leftovers, Count, retrying, polling
<1>4. QED
  BY <1>2, <1>3

LEMMA AnswerStep == ASSUME IInv, ~hung, Answer PROVE IInv'
<1>1. Len(wire) \in Nat /\ Len(wire) > 0 /\ client = "dps"
  BY LenWire DEF IInv, Types, Chains, Answer
<1>2. UNCHANGED <<topic, queued, strayRetries, counter, hung, since, lost>>
  BY DEF Answer
<1>3. CASE NoProgress \/ (session = "subscribed" /\ Assigning)
  <2>1. wire' \in Seq(Topics) /\ Len(wire') = Len(wire) - 1
    BY <1>3, TailWire DEF Answer, NoProgress, Assigning, IInv
  <2>2. UNCHANGED <<client, session, retry>>
    BY <1>3 DEF NoProgress, Assigning
  <2>3. \/ UNCHANGED <<poll, strayPolls>>
        \/ strayPolls' = strayPolls + Count(poll) /\ poll' = TRUE
    BY <1>3 DEF NoProgress, Assigning, polling
  <2>4. poll' \in BOOLEAN /\ strayPolls' \in Nat /\ Count(poll') \in {0, 1}
        /\ Count(poll') + strayPolls' <= Count(poll) + strayPolls + 1
    <3>1. poll \in BOOLEAN /\ strayPolls \in Nat
      BY DEF IInv, Types
    <3>2. poll' \in BOOLEAN
      BY <2>3, <3>1
    <3>3. Count(poll) \in {0, 1} /\ Count(poll') \in {0, 1}
      BY CountTyped, <3>1, <3>2
    <3>4. CASE UNCHANGED <<poll, strayPolls>>
      <4>1. Count(poll') = Count(poll)
        BY <3>4
      <4>2. QED
        BY <3>1, <3>2, <3>3, <3>4, <4>1
    <3>5. CASE strayPolls' = strayPolls + Count(poll) /\ poll' = TRUE
      <4>1. Count(poll') = 1
        BY <3>5, CountRunning
      <4>2. QED
        BY <3>1, <3>2, <3>3, <3>5, <4>1
    <3>6. QED
      BY <2>3, <3>4, <3>5
  <2>5. Types'
    BY <1>2, <2>1, <2>2, <2>4 DEF IInv, Types
  <2>6. Chains'
    <3> poll \in BOOLEAN /\ strayPolls \in Nat /\ queued \in Nat /\ queued' = queued
      BY <1>2 DEF IInv, Types
    <3> Count(poll) \in {0, 1}
      BY CountTyped
    <3>1. Leftovers' + Len(wire)' <= Leftovers + Len(wire)
      BY <1>1, <2>1, <2>4 DEF Leftovers
    <3>2. Leftovers' + Len(wire)' \in Int /\ Leftovers + Len(wire) \in Int
      BY <1>1, <2>1, <2>4 DEF Leftovers
    <3>3. Registered' = Registered
      BY <2>2 DEF Registered
    <3>4. QED
      BY <1>1, <1>2, <2>2, <3>1, <3>2, <3>3 DEF IInv, Types, Chains, Count
  <2>7. Counting'
    BY <1>2, <2>2 DEF IInv, Counting, OnlyStraysRetryEarly
  <2>8. QED
    BY <2>5, <2>6, <2>7 DEF IInv
<1>4. CASE session = "subscribed" /\ Assigned
  <2>1. wire' \in Seq(Topics) /\ Len(wire') = 0
    BY <1>4, EmptySeq DEF Assigned
  <2>2. /\ client' = "hub" /\ session' = "none" /\ ~retry' /\ ~poll' /\ retry' \in BOOLEAN
        /\ poll' \in BOOLEAN /\ strayPolls' = strayPolls /\ wire' = <<>>
    BY <1>4 DEF Assigned
  <2>3. Types'
    BY <1>2, <2>1, <2>2 DEF IInv, Types
  <2>4. Chains'
    <3>1. /\ Leftovers + Len(wire) <= lost + 1
          /\ Count(retry) + strayRetries <= lost + 1 /\ Count(retry) \in {0, 1}
          /\ Leftovers \in Nat
      BY <1>1, <1>4 DEF IInv, Types, Chains, Registered, Count, Leftovers
    <3>2. retry => Count(retry) = 1
      BY DEF Count
    <3>3. Leftovers' + Len(wire)' <= lost
      BY <1>1, <1>2, <2>1, <2>2, <3>1 DEF IInv, Types, Leftovers, Count
    <3>4. strayRetries <= lost
      <4>0. strayRetries \in Nat /\ lost \in Nat
        BY DEF IInv, Types
      <4>1. CASE retry
        <5>1. Count(retry) = 1
          BY <3>2, <4>1
        <5>2. QED
          BY <3>1, <4>0, <5>1
      <4>2. CASE ~retry
        BY <1>1, <4>0, <4>2 DEF IInv, Chains
      <4>3. QED
        BY <4>1, <4>2
    <3>5. QED
      BY <1>2, <2>2, <3>3, <3>4 DEF IInv, Types, Chains, Registered, Count
  <2>5. Counting'
    BY <1>2, <2>2 DEF IInv, Counting, OnlyStraysRetryEarly
  <2>6. QED
    BY <2>3, <2>4, <2>5 DEF IInv
<1>5. QED
  BY <1>3, <1>4 DEF Answer

LEMMA PollTaskStep == ASSUME IInv, ~hung, PollTask PROVE IInv'
<1>1. Len(wire) \in Nat
  BY LenWire DEF IInv
<1>2. /\ UNCHANGED <<client, session, wire, retry, strayRetries, counter, hung, since, lost>>
      /\ topic' \in Topics /\ queued' \in {queued, queued + 1}
      /\ \/ poll /\ poll' = FALSE /\ strayPolls' = strayPolls
         \/ strayPolls > 0 /\ strayPolls' = strayPolls - 1 /\ poll' = poll
  <2>1. topic \in Topics
    BY DEF IInv, Types
  <2>2. QED
    BY <2>1 DEF PollTask, Topics, retrying
<1>3. poll' \in BOOLEAN /\ strayPolls' \in Nat /\ queued' \in Nat
  <2>1. strayPolls \in Nat /\ queued \in Nat /\ poll \in BOOLEAN
    BY DEF IInv, Types
  <2>2. poll' \in BOOLEAN
    BY <1>2, <2>1
  <2>3. strayPolls' \in Nat /\ queued' \in Nat
    BY <1>2, <2>1
  <2>4. QED
    BY <2>2, <2>3
<1>4. Types'
  BY <1>2, <1>3 DEF IInv, Types
<1>5. Chains'
  <2>1. Leftovers' <= Leftovers /\ Leftovers \in Nat /\ Leftovers' \in Nat
    <3>1. poll \in BOOLEAN /\ strayPolls \in Nat /\ queued \in Nat
      BY DEF IInv, Types
    <3>2. Count(poll) \in {0, 1} /\ Count(poll') \in {0, 1}
      BY CountTyped, <1>3, <3>1
    <3>3. Count(poll') + strayPolls' = Count(poll) + strayPolls - 1
      <4>1. CASE poll /\ poll' = FALSE /\ strayPolls' = strayPolls
        <5>1. poll = TRUE
          BY <3>1, <4>1
        <5>2. Count(poll) = 1 /\ Count(poll') = 0
          BY <4>1, <5>1, CountRunning
        <5>3. strayPolls' = strayPolls
          BY <4>1
        <5>4. QED
          BY <3>1, <5>2, <5>3
      <4>2. CASE strayPolls' = strayPolls - 1 /\ poll' = poll
        <5>1. Count(poll') = Count(poll)
          BY <4>2
        <5>2. QED
          BY <3>1, <3>2, <4>2, <5>1
      <4>3. QED
        BY <1>2, <4>1, <4>2
    <3>4. QED
      BY <1>2, <1>3, <3>1, <3>2, <3>3 DEF Leftovers
  <2>2. QED
    BY <1>1, <1>2, <2>1 DEF IInv, Types, Chains, Registered, Count
<1>6. Counting'
  BY <1>2 DEF IInv, Counting, OnlyStraysRetryEarly
<1>7. QED
  BY <1>4, <1>5, <1>6 DEF IInv

LEMMA TickStep == ASSUME IInv, ~hung, Tick PROVE IInv'
<1> DEFINE n == strayRetries + Count(retry)
<1>1. RetryTicks \in Nat /\ RetryTicks > 0
  BY RetryAssumption
<1>2. /\ counter' = (counter + n) % RetryTicks /\ hung' = (counter + n >= RetryTicks)
      /\ since' = IF since < RetryTicks THEN since + 1 ELSE since
      /\ UNCHANGED <<client, session, topic, queued, wire, retry, strayRetries, poll,
                     strayPolls, lost>>
  BY DEF Tick, packets, polling
<1>3. n \in Nat /\ counter \in Nat /\ (strayRetries = 0 /\ retry => n = 1)
  BY DEF IInv, Types, Count
<1>4. counter' \in 0..(RetryTicks - 1)
  BY <1>1, <1>2, <1>3
<1>5. counter + n < RetryTicks => counter' = counter + n
  BY <1>1, <1>2, <1>3
<1>6. Types'
  BY <1>1, <1>2, <1>4 DEF IInv, Types
<1>7. Chains'
  BY <1>2 DEF IInv, Chains, Registered, Leftovers, Count
<1>8. Counting'
  <2>1. retry' => client' = "dps"
    BY <1>2 DEF IInv, Counting
  <2>2. strayRetries' = 0 /\ retry' /\ ~hung' => counter' = since'
    <3> SUFFICES ASSUME strayRetries' = 0, retry', ~hung' PROVE counter' = since'
      OBVIOUS
    <3>1. strayRetries = 0 /\ retry
      BY <1>2
    <3>2. counter + 1 < RetryTicks /\ counter' = counter + 1
      <4>1. n = 1
        BY <1>3, <3>1
      <4>2. ~(counter + n >= RetryTicks)
        BY <1>2
      <4>3. QED
        BY <1>1, <1>3, <1>5, <4>1, <4>2
    <3>3. counter = since
      BY <3>1 DEF IInv, Counting
    <3>4. QED
      BY <1>1, <1>2, <3>2, <3>3
  <2>3. OnlyStraysRetryEarly'
    <3>1. CASE strayRetries > 0
      BY <1>2, <3>1 DEF OnlyStraysRetryEarly
    <3>2. CASE strayRetries = 0 /\ retry
      <4>1. client' = "dps" /\ counter = since
        BY <1>2, <3>2 DEF IInv, Counting
      <4>2. hung' => counter + 1 >= RetryTicks
        BY <1>2, <1>3, <3>2
      <4>3. hung' => since' = RetryTicks
        BY <1>1, <1>2, <4>1, <4>2 DEF IInv, Types
      <4>4. QED
        BY <4>1, <4>3 DEF OnlyStraysRetryEarly
    <3>3. CASE strayRetries = 0 /\ ~retry
      <4>1. ~hung'
        BY <1>1, <1>2, <3>3 DEF IInv, Types, Count
      <4>2. QED
        BY <4>1 DEF OnlyStraysRetryEarly
    <3>4. QED
      BY <3>1, <3>2, <3>3 DEF IInv, Types
  <2>4. QED
    BY <2>1, <2>2, <2>3 DEF Counting
<1>9. QED
  BY <1>6, <1>7, <1>8 DEF IInv

LEMMA InductiveInvariant == Spec => []IInv
<1>1. IInv /\ [Next]_vars => IInv'
  <2> SUFFICES ASSUME IInv, [Next]_vars PROVE IInv'
    OBVIOUS
  <2>1. ASSUME UNCHANGED vars PROVE IInv'
    BY <2>1 DEF vars, packets, retrying, polling, IInv, Types, Chains, Counting,
       OnlyStraysRetryEarly, Registered, Leftovers, Count
  <2>2. QED
    BY <2>1, SessionOpensStep, SubscribedStep, SessionLostStep, SendStep, AnswerStep,
       PollTaskStep, TickStep DEF Next
<1>2. QED
  BY <1>1, InitIInv, PTL DEF Spec

\* dps_retry_task tries again two minutes after the session registered and while it is
\* to be assigned (mqtt_iotprovisioning_packetPopulate.c:374), or an earlier session's
\* timer is still running: no other way leads to an early retry, or to one behind the hub.
THEOREM RetryCorrect == Spec => []OnlyStraysRetryEarly
<1>1. IInv => OnlyStraysRetryEarly
  BY DEF IInv, Counting
<1>2. QED
  BY <1>1, InductiveInvariant, PTL

\* What the provisioning client leaves behind when the hub is named (dps_client_register,
\* ASSIGNED) is bounded by the sessions that were lost: nothing, if none was.
THEOREM LeftoversCorrect == Spec => []OnlyLostSessionsLeave
<1>1. IInv => OnlyLostSessionsLeave
  <2> SUFFICES ASSUME IInv, client = "hub" PROVE OnlyLostSessionsLeave
    BY DEF OnlyLostSessionsLeave
  <2>1. Len(wire) \in Nat /\ ~Registered
    BY LenWire DEF IInv, Registered
  <2>2. QED
    BY <2>1 DEF IInv, Types, Chains, OnlyLostSessionsLeave, Leftovers, Count
<1>2. QED
  BY <1>1, InductiveInvariant, PTL
===============================================================================
