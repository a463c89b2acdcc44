----------------------------- MODULE TimerService -----------------------------
(* What the SYS_TIME timer service promises its clients: every running timer  *)
(* counts down in step with the one hardware clock, whatever is done to the   *)
(* others, and expires when nothing is left and never before.  How one        *)
(* compare interrupt and a list of relative times bring this about is the     *)
(* business of SysTime, which implements this specification.                  *)
EXTENDS Integers

CONSTANTS Timers,       \* the timer objects
          Times,        \* the times, in ticks, a timer may be set to
          ClockRange,   \* the clock counts modulo this number
          MaxStep,      \* the ticks that may pass during one operation
          MaxSlack      \* a timer started from a callback counts from the
                        \* interrupt, at most this many ticks ago

VARIABLES clock,        \* the hardware clock
          left,         \* left[t]: the ticks timer t still has to run, or Off
          expired       \* the timer whose end is being reported, or Nobody

Off    == -1
Nobody == 0

vars == <<clock, left, expired>>

Init == clock = 0 /\ left = [t \in Timers |-> Off] /\ expired = Nobody

Less(m, n) == IF m > n THEN m - n ELSE 0

\* n ticks pass, in which some timers are set and all others grow older.
Pass ==
  \E n \in 0..MaxStep :
     /\ clock' = (clock + n) % ClockRange
     /\ DOMAIN left' = Timers
     /\ \A t \in Timers :
          \/ left'[t] = IF left[t] = Off THEN Off ELSE Less(left[t], n)
          \/ \E time \in Times, k \in 0..(n + MaxSlack) : left'[t] = Less(time, k)
     /\ expired' \in {expired, Nobody}

Stop(t) ==
  /\ left[t] # Off
  /\ left' = [left EXCEPT ![t] = Off]
  /\ UNCHANGED <<clock, expired>>

Expire(t) ==
  /\ left[t] = 0
  /\ left' = [left EXCEPT ![t] = Off]
  /\ expired' = t
  /\ UNCHANGED clock

Next == \/ Pass
        \/ \E t \in Timers : Stop(t) \/ Expire(t)

Spec == Init /\ [][Next]_vars
===============================================================================
