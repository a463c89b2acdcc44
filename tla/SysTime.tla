------------------------------- MODULE SysTime -------------------------------
(* The SYS_TIME service (system/time/src/sys_time.c): all software timers of  *)
(* the firmware on the one compare channel of the 16-bit counter TC3.  The    *)
(* running timers form a list in which each keeps the time it runs on after   *)
(* its predecessor; the compare interrupt is armed for the head of the list,  *)
(* at most half a counter period ahead.  Calls come from the main loop, with  *)
(* the timer interrupt disabled, and from the callbacks the interrupt makes.  *)
EXTENDS Integers, Sequences, FiniteSets, SequencesExt

CONSTANTS NumTimers,      \* SYS_TIME_MAX_TIMERS
          Kinds,          \* the types of timer that clients register
          Period,         \* SYS_TIME_HW_COUNTER_PERIOD: the counter's last value
          Margin,         \* hwTimerCompareMargin
          Times,          \* the periods, in ticks, that clients ask for
          ReadTime,       \* a read of the counter takes 1..ReadTime ticks
          WriteTime,      \* the compare register is written in 0..WriteTime ticks
          Latency,        \* a raised interrupt is entered within Latency ticks
          IsrTime,        \* the callbacks of one interrupt end within IsrTime ticks
          Reloads,        \* may a client reload a running timer?
          SinceMax        \* bound: since is not counted any further

ASSUME NumbersAssumption ==
  /\ NumTimers \in Nat \ {0} /\ Period \in Nat \ {0} /\ Margin \in Nat
  /\ ReadTime \in Nat \ {0} /\ WriteTime \in Nat
  /\ Latency \in Nat /\ IsrTime \in Nat
ASSUME ReloadsAssumption == Reloads \in BOOLEAN
ASSUME TimesAssumption == Times \subseteq Nat \ {0}
ASSUME SinceAssumption ==
  /\ SinceMax \in Nat /\ SinceMax > Period
  /\ \A time \in Times : time <= SinceMax

\* The margin covers the writing of the compare register (hwTimerCompareMargin is
\* its cycles and 2 more), and with that the register never stays unmatched for
\* so long that the counter wraps unseen: half a period, the longest interrupt
\* and the margin are each far shorter than the period.
ASSUME TimingAssumption ==
  /\ Margin >= WriteTime + 2
  /\ Period \div 2 + Latency + ReadTime <= Period
  /\ IsrTime + Margin + Latency + 2 * ReadTime <= Period

VARIABLES
  counter,    \* the COUNT register of TC3
  compare,    \* its compare register CC1
  irq,        \* 0, or 1 + the ticks the compare interrupt has been waiting
  previous,   \* hwTimerPreviousValue; hwTimerCurrentValue is equal to it
              \* wherever a step ends
  since,      \* history: the ticks that really passed since previous was read
  timers,     \* the timer objects
  tmrActive,  \* the list of running timers, as the sequence of their indices
  pc,         \* "thread", or where the interrupt is: "notify", "callback"
  notified,   \* the timer ClientNotify took last in this interrupt, or NoTimer
  delaying    \* per context, the delay it busy-waits for, or NoTimer

vars == <<counter, compare, irq, previous, since, timers, tmrActive, pc,
          notified, delaying>>
hwVars == <<counter, compare, irq, previous, since>>

Slots    == 1..NumTimers
NoTimer  == 0
Half     == Period \div 2          \* SYS_TIME_HW_COUNTER_HALF_PERIOD
Contexts == {"thread", "isr"}

\* A delay is a single-shot timer without a callback.
Types == {"single", "periodic", "delay"}

ASSUME KindsAssumption == Kinds \subseteq Types

\* A free object: TimerObjectCreate sets every field before it is read again.
Free == [inUse |-> FALSE, active |-> FALSE, tmrElapsedFlag |-> FALSE,
         tmrElapsed |-> FALSE, type |-> "single", requestedTime |-> 0,
         relativeTimePending |-> 0]

TimerObjects ==
  [inUse : BOOLEAN, active : BOOLEAN, tmrElapsedFlag : BOOLEAN, tmrElapsed : BOOLEAN,
   type : Types, requestedTime : Times \cup {0}, relativeTimePending : Nat]

TypeOK ==
  /\ counter \in 0..Period /\ compare \in 0..Period /\ previous \in 0..Period
  /\ irq \in 0..(Latency + 1)
  /\ since \in 0..SinceMax
  /\ timers \in [Slots -> TimerObjects]
  /\ tmrActive \in Seq(Slots)
  /\ pc \in {"thread", "notify", "callback"}
  /\ notified \in Slots \cup {NoTimer}
  /\ delaying \in [Contexts -> Slots \cup {NoTimer}]

-------------------------------------------------------------------------------
(* The hardware.                                                              *)

After(n)  == (counter + n) % (Period + 1)
Matched(n) == \E k \in 1..n : After(k) = compare

\* n ticks pass, of which the last m after previous was read.
Advance(n, m) ==
  /\ counter' = After(n)
  /\ since' = Min({m, SinceMax})
  /\ irq' = IF irq # 0 THEN (IF pc = "thread" THEN irq + n ELSE irq)
            ELSE IF Matched(n) THEN 1 ELSE 0

\* Time passes.  An interrupt is not kept waiting for more than Latency ticks,
\* and callbacks are short, unless one waits for its delay.
Tick ==
  /\ irq <= Latency
  /\ pc # "thread" => since < IsrTime \/ delaying["isr"] # NoTimer
  /\ Advance(1, since + 1)
  /\ UNCHANGED <<compare, previous, timers, tmrActive, pc, notified, delaying>>

-------------------------------------------------------------------------------
(* The list of running timers.                                                *)

Queue == [list |-> tmrActive, tm |-> timers]

\* The time from the last update until the i-th timer of the list is due.
TimeTo(q, i) ==
  LET sum[j \in 0..i] ==
        IF j = 0 THEN 0 ELSE sum[j - 1] + q.tm[q.list[j]].relativeTimePending
  IN sum[i]

\* A new timer goes behind all that are due no later than it.
AddToList(q, s) ==
  LET time  == q.tm[s].relativeTimePending
      place == Cardinality({i \in 1..Len(q.list) : TimeTo(q, i) <= time})
      rest  == time - TimeTo(q, place)
      tm    == [q.tm EXCEPT ![s].relativeTimePending = rest]
  IN [list |-> InsertAt(q.list, place + 1, s),
      tm   |-> IF place = Len(q.list) THEN tm
               ELSE [tm EXCEPT ![q.list[place + 1]].relativeTimePending = @ - rest]]

\* Fault: the time of a timer that leaves is forgotten.
RemoveForgetsTime(q, s) ==
  [q EXCEPT !.list = SelectSeq(@, LAMBDA t : t # s)]

\* The time of a timer that leaves passes to the one behind it.
RemoveFromList(q, s) ==
  IF s \notin Range(q.list) THEN q
  ELSE LET i == CHOOSE j \in 1..Len(q.list) : q.list[j] = s
       IN [list |-> RemoveAt(q.list, i),
           tm   |-> IF i = Len(q.list) THEN q.tm
                    ELSE [q.tm EXCEPT ![q.list[i + 1]].relativeTimePending =
                                         @ + q.tm[s].relativeTimePending]]

\* The elapsed time is taken from the timers in the order of the list.
UpdateTimerList(q, elapsed) ==
  LET Taken(i) == Min({q.tm[q.list[i]].relativeTimePending,
                       Max({0, elapsed - TimeTo(q, i - 1)})})
  IN [q EXCEPT !.tm = [s \in Slots |->
        IF s \in Range(q.list)
        THEN LET i == CHOOSE j \in 1..Len(q.list) : q.list[j] = s
             IN [q.tm[s] EXCEPT !.relativeTimePending = @ - Taken(i)]
        ELSE q.tm[s]]]

\* The counter has wrapped when it reads no more than at the last update.
GetElapsedCount(now) ==
  IF now > previous THEN now - previous ELSE (Period - previous) + now + 1

\* Fault: the compare value may be too close to be met.
CompareTooClose(q, base, now) ==
  LET head == IF q.list = <<>> THEN Half
              ELSE Min({Half, q.tm[Head(q.list)].relativeTimePending})
  IN (base + head) % (Period + 1)

\* The compare value for list q, whose times count from the reading base, when
\* the counter reads now.
CompareValue(q, base, now) ==
  LET head == IF q.list = <<>> THEN Half
              ELSE Min({Half, q.tm[Head(q.list)].relativeTimePending})
      next == base + head
      curr == IF now < base THEN Period + now ELSE now
      raw  == Max({next, curr + Margin}) % (Period + 1)
  IN IF raw = 0 THEN 1 ELSE raw

Install(q) == timers' = q.tm /\ tmrActive' = q.list

\* HwTimerCompareUpdate: r ticks for the second reading of the counter, w for the
\* compare register, after the first reading was done r0 ticks into the step.
Rearm(q, base, r0, r, w) ==
  /\ compare' = CompareValue(q, base, After(r0 + r))
  /\ previous' = base

-------------------------------------------------------------------------------
(* The calls of the clients.                                                  *)

\* Each call runs in one of the contexts: between two interrupts, or inside one.
InThread   == pc = "thread" /\ irq = 0 /\ delaying["thread"] = NoTimer
InCallback == pc = "callback" /\ delaying["isr"] = NoTimer

\* A timer that is not in the list of q is put in.  In the main loop (TimerAdd)
\* the list is first brought up to the present, and the compare register is
\* written when the timer has become the head.
Insert(q, s) ==
  \/ /\ InCallback
     /\ Install(AddToList(q, s))
     /\ UNCHANGED hwVars
  \/ /\ InThread
     /\ \E r \in 1..ReadTime :
          LET now == After(r)
              q1  == AddToList(UpdateTimerList(q, GetElapsedCount(now)), s)
          IN /\ Install(q1)
             /\ IF Head(q1.list) = s
                THEN \E r2 \in 1..ReadTime, w \in 0..WriteTime :
                       /\ Advance(r + r2 + w, r2 + w)
                       /\ Rearm(q1, now, r, r2, w)
                ELSE Advance(r, 0) /\ previous' = now /\ UNCHANGED compare

Clears(t) == [t EXCEPT !.tmrElapsedFlag = FALSE, !.tmrElapsed = FALSE]

\* TimerObjectCreate takes the first free object, TimerStart starts it.  Nobody
\* else knows the handle between the two, so they are one step.
Create(s, type, time) ==
  /\ s = Min({u \in Slots : ~timers[u].inUse} \cup {NumTimers})
  /\ ~timers[s].inUse
  /\ Insert([Queue EXCEPT !.tm[s] =
        [Free EXCEPT !.inUse = TRUE, !.active = TRUE, !.type = type,
                     !.requestedTime = time, !.relativeTimePending = time]], s)

CallbackRegister(s, type, time) ==
  /\ Create(s, type, time)
  /\ UNCHANGED <<pc, notified, delaying>>

\* The clients of a delay wait for its end at once.
Delay(s, time) ==
  /\ Create(s, "delay", time)
  /\ delaying' = [delaying EXCEPT ![IF InThread THEN "thread" ELSE "isr"] = s]
  /\ UNCHANGED <<pc, notified>>

\* DelayIsComplete: the busy-wait ends once the flag is set.
DelayIsComplete(c) ==
  /\ IF c = "thread" THEN pc = "thread" /\ irq = 0 ELSE pc = "callback"
  /\ delaying[c] # NoTimer /\ timers[delaying[c]].tmrElapsedFlag
  /\ timers' = [timers EXCEPT ![delaying[c]] = Free]
  /\ delaying' = [delaying EXCEPT ![c] = NoTimer]
  /\ UNCHANGED <<hwVars, tmrActive, pc, notified>>

\* The handle of a delay is known to nobody but its waiter.
Handles == {s \in Slots : timers[s].inUse /\ timers[s].type # "delay"}

TimerStart(s) ==
  /\ s \in Handles /\ ~timers[s].active
  /\ LET time == IF timers[s].relativeTimePending = 0 THEN timers[s].requestedTime
                 ELSE timers[s].relativeTimePending
     IN Insert([Queue EXCEPT !.tm[s] =
                  [Clears(@) EXCEPT !.active = TRUE, !.relativeTimePending = time]], s)
  /\ UNCHANGED <<pc, notified, delaying>>

TimerStop(s) ==
  /\ InThread \/ InCallback
  /\ s \in Handles /\ timers[s].active
  /\ LET q == RemoveFromList(Queue, s)
     IN Install([q EXCEPT !.tm[s] = [Clears(@) EXCEPT !.active = FALSE,
                                        !.relativeTimePending = timers[s].requestedTime]])
  /\ UNCHANGED <<hwVars, pc, notified, delaying>>

TimerDestroy(s) ==
  /\ InThread \/ InCallback
  /\ s \in Handles
  /\ LET q == IF timers[s].active THEN RemoveFromList(Queue, s) ELSE Queue
     IN Install([q EXCEPT !.tm[s] = Free])
  /\ UNCHANGED <<hwVars, pc, notified, delaying>>

\* Fault: the running timer is put in the list once more.
ReloadKeepsListed(s, type, time) ==
  /\ Reloads
  /\ s \in Handles
  /\ Insert([Queue EXCEPT !.tm[s] =
               [Clears(@) EXCEPT !.active = TRUE, !.type = type, !.requestedTime = time,
                                 !.relativeTimePending = time]], s)
  /\ UNCHANGED <<pc, notified, delaying>>

TimerReload(s, type, time) ==
  /\ Reloads
  /\ s \in Handles
  /\ LET q == RemoveFromList(Queue, s)
     IN Insert([q EXCEPT !.tm[s] =
                  [Clears(@) EXCEPT !.active = TRUE, !.type = type, !.requestedTime = time,
                                    !.relativeTimePending = time]], s)
  /\ UNCHANGED <<pc, notified, delaying>>

-------------------------------------------------------------------------------
(* The interrupt.                                                             *)

\* Fault: the interrupt may interrupt itself, as it could if its priority changed.
InterruptNests ==
  /\ irq # 0
  /\ \E r \in 1..ReadTime :
       LET now == After(r)
       IN IF tmrActive = <<>>
          THEN \E r2 \in 1..ReadTime, w \in 0..WriteTime :
                 /\ counter' = After(r + r2 + w) /\ since' = r2 + w /\ irq' = 0
                 /\ Rearm(Queue, now, r, r2, w)
                 /\ UNCHANGED <<timers, tmrActive, pc>>
          ELSE /\ counter' = now /\ since' = 0 /\ irq' = 0
               /\ previous' = now
               /\ Install(UpdateTimerList(Queue, GetElapsedCount(now)))
               /\ pc' = "notify"
               /\ UNCHANGED compare
  /\ UNCHANGED <<notified, delaying>>

\* PLIBCallback, to its loop over the timers that are due.
Interrupt ==
  /\ pc = "thread" /\ irq # 0
  /\ \E r \in 1..ReadTime :
       LET now == After(r)
       IN IF tmrActive = <<>>
          THEN \E r2 \in 1..ReadTime, w \in 0..WriteTime :
                 /\ counter' = After(r + r2 + w) /\ since' = r2 + w /\ irq' = 0
                 /\ Rearm(Queue, now, r, r2, w)
                 /\ UNCHANGED <<timers, tmrActive, pc>>
          ELSE /\ counter' = now /\ since' = 0 /\ irq' = 0
               /\ previous' = now
               /\ Install(UpdateTimerList(Queue, GetElapsedCount(now)))
               /\ pc' = "notify"
               /\ UNCHANGED compare
  /\ UNCHANGED <<notified, delaying>>

HeadIsDue == tmrActive # <<>> /\ timers[Head(tmrActive)].relativeTimePending = 0

\* ClientNotify, one round: a single-shot timer is destroyed before its callback
\* runs, a periodic one leaves the list until all callbacks have run, a delay
\* leaves its mark for the waiter.  (Of a periodic timer nobody reads the mark.)
ClientNotify ==
  /\ pc = "notify" /\ HeadIsDue
  /\ LET s == Head(tmrActive)
         q == RemoveFromList(Queue, s)
         t == timers[s]
     IN /\ Install([q EXCEPT !.tm[s] =
              CASE t.type = "single"   -> Free
                [] t.type = "periodic" -> [t EXCEPT !.tmrElapsed = TRUE]
                [] t.type = "delay"    -> [t EXCEPT !.tmrElapsedFlag = TRUE, !.tmrElapsed = TRUE,
                                                    !.active = FALSE]])
        /\ pc' = IF t.type = "delay" THEN "notify" ELSE "callback"
        /\ notified' = s
  /\ UNCHANGED <<hwVars, delaying>>

CallbackReturn ==
  /\ InCallback
  /\ pc' = "notify"
  /\ UNCHANGED <<hwVars, timers, tmrActive, notified, delaying>>

\* A timer that expired goes back in the list, if it is periodic, counting from
\* the reading of this interrupt.
Reinsert(q, s) ==
  IF ~q.tm[s].tmrElapsed THEN q
  ELSE LET q1 == [q EXCEPT !.tm[s].tmrElapsed = FALSE]
       IN IF q1.tm[s].type # "periodic" THEN q1
          ELSE AddToList([q1 EXCEPT !.tm[s].relativeTimePending = q1.tm[s].requestedTime], s)

\* The loop at the end of UpdateTime: all timers, by index.
Reinserted(q) ==
  LET after[s \in 0..NumTimers] == IF s = 0 THEN q ELSE Reinsert(after[s - 1], s)
  IN after[NumTimers]

InterruptEnd ==
  /\ pc = "notify" /\ ~HeadIsDue
  /\ LET q == Reinserted(Queue)
     IN /\ Install(q)
        /\ \E r \in 1..ReadTime, w \in 0..WriteTime :
             /\ Advance(r + w, since + r + w)
             /\ Rearm(q, previous, 0, r, w)
  /\ pc' = "thread"
  /\ notified' = NoTimer
  /\ UNCHANGED delaying

-------------------------------------------------------------------------------
Init ==
  /\ counter = 0 /\ compare = Half /\ irq = 0 /\ previous = 0 /\ since = 0
  /\ timers = [s \in Slots |-> Free]
  /\ tmrActive = <<>>
  /\ pc = "thread"
  /\ notified = NoTimer
  /\ delaying = [c \in Contexts |-> NoTimer]

Call(s) ==
  \/ \E type \in Kinds \ {"delay"}, time \in Times :
        CallbackRegister(s, type, time) \/ TimerReload(s, type, time)
  \/ "delay" \in Kinds /\ \E time \in Times : Delay(s, time)
  \/ TimerStart(s)
  \/ TimerStop(s)
  \/ TimerDestroy(s)

Next ==
  \/ Tick
  \/ \E s \in Slots : Call(s)
  \/ \E c \in Contexts : DelayIsComplete(c)
  \/ Interrupt
  \/ ClientNotify
  \/ CallbackReturn
  \/ InterruptEnd

Spec == Init /\ [][Next]_vars

-------------------------------------------------------------------------------
(* Properties.                                                                *)

\* No timer is in the list twice (the code's list would become a ring, and the
\* next interrupt would never leave its loop), and in the list are exactly the
\* active timers, but for the periodic ones whose callbacks are being made: no
\* start, stop or reload from a callback loses a timer or leaves one behind.
ListSound ==
  /\ TypeOK
  /\ IsInjective(tmrActive)
  /\ Range(tmrActive) = {s \in Slots : timers[s].active /\ ~timers[s].tmrElapsed}
  /\ pc = "thread" => \A s \in Slots : ~timers[s].active \/ ~timers[s].tmrElapsed

Left(s) ==
  IF s \notin Range(tmrActive) THEN -1
  ELSE LET i == CHOOSE j \in 1..Len(tmrActive) : tmrActive[j] = s
       IN Max({0, TimeTo(Queue, i) - since})

\* The ticks until the compare register matches next.
Ahead == ((compare - counter - 1) % (Period + 1)) + 1

\* Outside the interrupt the compare register never lies behind the counter,
\* where it would match only a whole counter period later: it matches when the
\* first timer is due, or as soon as the margin allows, and within half a period.
ArmedInTime ==
  pc = "thread" /\ irq = 0 =>
    LET due == IF tmrActive = <<>> THEN Half ELSE Min({Half, Left(Head(tmrActive))})
    IN Ahead <= Max({due, Margin}) + 1

Service == INSTANCE TimerService WITH
  Timers <- Slots, ClockRange <- Period + 1, MaxStep <- 2 * ReadTime + WriteTime,
  MaxSlack <- IsrTime, clock <- counter, left <- [s \in Slots |-> Left(s)],
  expired <- notified

\* The time a timer has left follows the clock tick by tick through every update,
\* insertion and removal in the list, and it is notified when none is left.
ImplementsService == Service!Spec

\* A delay that a callback waits for never ends: the flag it polls is set by the
\* interrupt it is running in.  (dps_retry_task reads the secure element, whose
\* driver delays.)
CallbackDelayHangs ==
  [][delaying["isr"] # NoTimer => delaying'["isr"] = delaying["isr"]]_vars
===============================================================================
