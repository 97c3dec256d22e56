------------------------------ MODULE MultiTimer ------------------------------
(***************************************************************************)
(* The software timers (MultiTimer.c): one list of running timers, ordered  *)
(* by deadline when they are started, and a pass over it, MultiTimerYield,   *)
(* that a main loop makes every few ticks.  The tick counter wraps around.   *)
(* One thread starts and stops timers and makes the passes; callbacks run    *)
(* inside a pass, and the one of a timer without a period may start that     *)
(* timer again (file_download.c does).                                       *)
(***************************************************************************)
EXTENDS Integers, Sequences, FiniteSets

CONSTANTS
  Timers,
  Delay,     \* the start time each timer is started with
  Period,    \* its period, 0 when it fires once
  Ticks,     \* the tick counter counts modulo this: 2^32 in the code
  Lag,       \* bound: ticks from the end of a pass to the end of the next one
  MaxLate    \* bound: lateness is not counted beyond this

HEAD == "HEAD"
NULL == "NULL"

ASSUME TimerAssumption ==
  /\ IsFiniteSet(Timers) /\ Timers \cap {HEAD, NULL} = {}
  /\ Delay \in [Timers -> Nat \ {0}] /\ Period \in [Timers -> Nat]
  /\ Ticks \in Nat \ {0} /\ Lag \in Nat /\ MaxLate \in Nat

(* Due compares within half of the counter's range.  The timers of the      *)
(* firmware and of the SDK run for minutes, or a day at most, of 49.7 days. *)
ASSUME HalfRange ==
  \A t \in Timers : Delay[t] <= Ticks \div 2 /\ Period[t] <= Ticks \div 2

VARIABLES
  list,      \* the timers from timerList on
  deadline,  \* deadline of each running timer; a stopped one's is overwritten before
             \* it is read, and is 0 here
  now,       \* platformTicksFunction()
  pc,        \* "idle", "pass" inside MultiTimerYield, or "crashed"
  slot,      \* whose next field nextTimer points to; HEAD for timerList itself
  lag,       \* ticks since the last pass has ended
  left,      \* history: ticks until each running timer should be called, < 0 when late
  crossed    \* history: since the list was last empty, a running timer's deadline
             \* or the clock under running timers has wrapped

vars == <<list, deadline, now, pc, slot, lag, left, crossed>>

Init ==
  /\ list = <<>> /\ deadline = [t \in Timers |-> 0] /\ now \in 0 .. Ticks - 1
  /\ pc = "idle" /\ slot = HEAD /\ lag = 0 /\ left = [t \in Timers |-> 0]
  /\ crossed = FALSE

In(l, t) == \E i \in DOMAIN l : l[i] = t
PlaceOf(l, t) == CHOOSE i \in DOMAIN l : l[i] = t
Running(t) == In(list, t)

Without(l, t) ==
  IF In(l, t) THEN SubSeq(l, 1, PlaceOf(l, t) - 1) \o SubSeq(l, PlaceOf(l, t) + 1, Len(l)) ELSE l

(* What a next field holds: of timer s, or timerList when s is HEAD. *)
NextOf(l, s) ==
  LET i == IF s = HEAD THEN 0 ELSE PlaceOf(l, s)
  IN  IF i < Len(l) THEN l[i + 1] ELSE NULL

(* Mutant: timers are kept in the order they were started in. *)
InsertedLast(l, t, d) == Append(l, t)

(* Timer t goes before the first timer with a greater deadline, by a plain  *)
(* comparison of the counters, or else to the end.                          *)
Inserted(l, t, d) ==
  LET later == {i \in DOMAIN l : d < deadline[l[i]]}
      n == IF later = {} THEN Len(l) ELSE (CHOOSE i \in later : \A j \in later : i <= j) - 1
  IN  SubSeq(l, 1, n) \o <<t>> \o SubSeq(l, n + 1, Len(l))

(* Timer t leaves the list. *)
Remove(t) ==
  /\ list' = Without(list, t) /\ crossed' = (crossed /\ list' # <<>>)
  /\ deadline' = [deadline EXCEPT ![t] = 0] /\ left' = [left EXCEPT ![t] = 0]

(* Mutant: the sum is not cut to the counter's width. *)
DeadlineOf64Bits(after) == now + after

(* The new deadline, in the counter's width. *)
NewDeadline(after) == (now + after) % Ticks

(* Mutant: a timer that runs already is not taken out first. *)
StartTimerTwice(l, t, after) ==
  /\ list' = Inserted(l, t, NewDeadline(after))
  /\ deadline' = [deadline EXCEPT ![t] = NewDeadline(after)]
  /\ left' = [left EXCEPT ![t] = after]
  /\ crossed' = (crossed \/ now + after >= Ticks)

(* MultiTimerStart, when the list is l. *)
StartTimer(l, t, after) ==
  /\ list' = Inserted(Without(l, t), t, NewDeadline(after))
  /\ deadline' = [deadline EXCEPT ![t] = NewDeadline(after)]
  /\ left' = [left EXCEPT ![t] = after]
  /\ crossed' = (now + after >= Ticks \/ (crossed /\ Without(l, t) # <<>>))

-----------------------------------------------------------------------------
(* The application, between passes. *)
Start(t) ==
  /\ pc = "idle"
  /\ StartTimer(list, t, Delay[t])
  /\ UNCHANGED <<now, pc, slot, lag>>

Stop(t) ==
  /\ pc = "idle" /\ Running(t)
  /\ Remove(t)
  /\ UNCHANGED <<now, pc, slot, lag>>

-----------------------------------------------------------------------------
(* MultiTimerYield. *)
PassBegin ==
  /\ pc = "idle"
  /\ pc' = "pass" /\ slot' = HEAD
  /\ UNCHANGED <<list, deadline, now, lag, left, crossed>>

Entry == NextOf(list, slot)

(* Mutant: the counters are compared as they are. *)
DuePlain(t) == now >= deadline[t]

(* CHECK_TIME_LESS_THAN: less than half the counter's range past. *)
Due(t) == (now - deadline[t]) % Ticks < Ticks \div 2

EntryDue == Entry # NULL /\ Due(Entry)

PassEnd ==
  /\ pc = "pass" /\ ~EntryDue
  /\ pc' = "idle" /\ lag' = 0 /\ slot' = HEAD
  /\ UNCHANGED <<list, deadline, now, left, crossed>>

(* Where the loop goes after a call: it ends when the entry that was called *)
(* has no timer behind it, where it is now or where it was, and otherwise   *)
(* moves on from the timer that took its place, which it passes over.  When *)
(* there is none, because the entry has moved ahead of this place, the step *)
(* of the loop reads through a null pointer.                                *)
Advance(behind) ==
  IF behind = NULL THEN pc' = "idle" /\ lag' = 0 /\ slot' = HEAD
  ELSE LET next == NextOf(list', slot)
       IN  IF next = NULL THEN pc' = "crashed" /\ UNCHANGED <<slot, lag>>
                          ELSE slot' = next /\ UNCHANGED <<pc, lag>>

(* A due entry leaves the list, starts again when it has a period, and is   *)
(* called; the callback of an entry without one may start it again.         *)
PassCall ==
  /\ pc = "pass" /\ EntryDue
  /\ LET rest == Without(list, Entry)
     IN \/ /\ Period[Entry] # 0
           /\ StartTimer(rest, Entry, Period[Entry])
           /\ Advance(NextOf(list', Entry))
        \/ /\ Period[Entry] = 0
           /\ StartTimer(rest, Entry, Delay[Entry])
           /\ Advance(NextOf(list', Entry))
        \/ /\ Period[Entry] = 0
           /\ Remove(Entry)
           /\ Advance(NextOf(list, Entry))
  /\ UNCHANGED now

Tick ==
  /\ lag < Lag /\ pc # "crashed"
  /\ now' = (now + 1) % Ticks
  /\ lag' = lag + 1
  /\ crossed' = (crossed \/ (now' = 0 /\ list # <<>>))
  /\ left' = [t \in Timers |-> IF Running(t) /\ left[t] > 0 - MaxLate THEN left[t] - 1 ELSE left[t]]
  /\ UNCHANGED <<list, deadline, pc, slot>>

Yield == PassBegin \/ PassEnd \/ PassCall

Next == (\E t \in Timers : Start(t) \/ Stop(t)) \/ Yield \/ Tick

Spec == Init /\ [][Next]_vars

-----------------------------------------------------------------------------
(* Every variable has its type. *)
TypeOK ==
  /\ list \in Seq(Timers) /\ deadline \in [Timers -> 0 .. Ticks - 1]
  /\ now \in 0 .. Ticks - 1 /\ pc \in {"idle", "pass", "crashed"} /\ slot \in Timers \cup {HEAD}
  /\ lag \in 0 .. Lag /\ left \in [Timers -> Int] /\ crossed \in BOOLEAN

(* However timers are started, stopped and restarted from callbacks, the    *)
(* list is a list: no timer is in it twice, and the pass is at one of its   *)
(* fields.                                                                  *)
ListIsProper ==
  /\ \A i, j \in DOMAIN list : list[i] = list[j] => i = j
  /\ slot # HEAD => Running(slot)

(* No timer is called before its time, on whichever side of the wrap its    *)
(* deadline lies.                                                           *)
NeverEarly == [][PassCall => left[Entry] <= 0]_vars

(* MultiTimer.c:132 "Sorted list, just process with the front part.": no    *)
(* timer stands before one that is due earlier, and the loop never steps    *)
(* through a null pointer, until the counter or a deadline has wrapped      *)
(* under running timers.                                                    *)
SortedUntilWrap ==
  ~crossed =>
    /\ \A i, j \in DOMAIN list : i < j => left[list[i]] <= left[list[j]]
    /\ pc # "crashed"

(* Until such a wrap, every pass calls the first timer that is due, though   *)
(* it may step over others or end before them: none is late by more passes  *)
(* than there are timers.                                                   *)
OnTimeUntilWrap ==
  ~crossed => \A t \in Timers : Running(t) => left[t] >= 0 - Cardinality(Timers) * Lag
===============================================================================
