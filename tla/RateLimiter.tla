------------------------------ MODULE RateLimiter ------------------------------
(***************************************************************************)
(* The two Lua scripts of RedisRateLimiter, each atomic.  A counter lives  *)
(* from the first request it counts until a fixed time later, refused      *)
(* requests are counted too, and a message that was let through has a pass *)
(* for a day: retried, it is neither counted nor refused.                  *)
(*                                                                         *)
(* Time goes in ticks, Period of them to a window.  A pass outlives the    *)
(* window it was given in; how long after that it ends is left open.       *)
(***************************************************************************)
EXTENDS Naturals, FiniteSets

CONSTANTS
  Keys,      \* counters: of submissions of a sender, of its registrations
  Passes,    \* messages that may have a pass
  LimitOf,   \* [Keys -> Nat]: 3 submissions, 5 registrations
  Period     \* ticks in a window

ASSUME RateLimiterAssumption ==
  LimitOf \in [Keys -> Nat \ {0}] /\ Period \in Nat \ {0}

VARIABLES
  count,  \* value of a counter, 0 when there is none
  ttl,    \* ticks until it expires
  pass,   \* "none", "fresh": given in a window still open, or "old"
  recent  \* history: requests let through in the last Period ticks, each with its
          \* age in ticks and what the counter came to when it was counted

limiterVars == <<count, ttl, pass, recent>>

\* What no comparison tells apart above this is not counted.
Cap(key) == LimitOf[key] + 1

InitLimiter ==
  /\ count = [k \in Keys |-> 0]
  /\ ttl = [k \in Keys |-> 0]
  /\ pass = [m \in Passes |-> [state |-> "none"]]
  /\ recent = [k \in Keys |-> {}]

\* Mutant: off by one.
MutLetsThrough(key) == count[key] < LimitOf[key] + 1

\* After INCR the counter is at most the limit.
LetsThrough(key) == count[key] < LimitOf[key]

\* Mutant: EXPIRE whenever a request is counted.
MutTtlAfterCount(key) == Period

\* EXPIRE only when the counter is new.
TtlAfterCount(key) == IF count[key] = 0 THEN Period ELSE ttl[key]

LetThroughNow(key) == [age |-> 1, place |-> count[key] + 1]

Count(key) ==
  /\ count' = [count EXCEPT ![key] = IF @ < Cap(key) THEN @ + 1 ELSE @]
  /\ ttl' = [ttl EXCEPT ![key] = TtlAfterCount(key)]
  /\ recent' = [recent EXCEPT ![key] =
       IF LetsThrough(key) THEN @ \union {LetThroughNow(key)} ELSE @]

\* Allow, of an upload by HTTP.
Allow(key, allowed) ==
  /\ allowed = LetsThrough(key)
  /\ Count(key)
  /\ UNCHANGED pass

\* Mutant: the pass is not looked at.
MutHasPass(m) == FALSE

HasPass(m) == pass[m].state # "none"

\* AllowMessage and AllowRegistration.
AllowMessage(key, m, allowed) ==
  IF HasPass(m)
  THEN allowed /\ UNCHANGED limiterVars
  ELSE /\ allowed = LetsThrough(key)
       /\ Count(key)
       /\ pass' = IF LetsThrough(key)
                  THEN [pass EXCEPT ![m] = [state |-> "fresh", key |-> key]]
                  ELSE pass

Closing == {k \in Keys : ttl[k] = 1}

Aged(requests) ==
  {[e EXCEPT !.age = @ + 1] : e \in {f \in requests : f.age < Period}}

\* Time passes: counters expire, and the passes given under them grow old.
Tick ==
  /\ \E k \in Keys : ttl[k] > 0 \/ recent[k] # {}
  /\ ttl' = [k \in Keys |-> IF ttl[k] > 0 THEN ttl[k] - 1 ELSE 0]
  /\ count' = [k \in Keys |-> IF k \in Closing THEN 0 ELSE count[k]]
  /\ pass' = [m \in Passes |->
       IF pass[m].state = "fresh" /\ pass[m].key \in Closing
       THEN [state |-> "old"] ELSE pass[m]]
  /\ recent' = [k \in Keys |-> Aged(recent[k])]

\* A day after it was given.
PassExpires(m) ==
  /\ pass[m].state = "old"
  /\ pass' = [pass EXCEPT ![m] = [state |-> "none"]]
  /\ UNCHANGED <<count, ttl, recent>>

-------------------------------------------------------------------------------
LimiterTypeOK ==
  /\ \A k \in Keys : count[k] \in 0..Cap(k) /\ ttl[k] \in 0..Period
  /\ pass \in [Passes -> [state : {"none", "old"}]
                         \union [state : {"fresh"}, key : Keys]]
  /\ \A k \in Keys : recent[k] \subseteq [age : 1..Period, place : 1..Cap(k)]

\* In any stretch of time as long as a window, windows that meet in it included,
\* no more requests are let through than two windows take.
BurstBound ==
  \A k \in Keys : Cardinality(recent[k]) <= 2 * LimitOf[k]

\* The counter counts what it refuses too, but nobody is kept out by that: who is
\* refused finds the whole limit let through in the window's length before.
RefusedOnlyWhenFull ==
  \A k \in Keys : ~LetsThrough(k) => Cardinality(recent[k]) >= LimitOf[k]
===============================================================================
