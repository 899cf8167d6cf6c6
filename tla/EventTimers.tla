----------------------------- MODULE EventTimers -----------------------------
(***************************************************************************)
(* The timers of the event loop (event.cc, the same in NARB and the RCE):  *)
(* a list that Schedule() keeps sorted, while Restart() changes the due    *)
(* time of a timer on it.  There are those that run for ever, of the       *)
(* clients of OSPF and TERCE and of the topology, and one for each session *)
(* of a command line, restarted by what is typed.                          *)
(*                                                                         *)
(* Before the loop sleeps, WaitLimit() looks for the soonest timer with a  *)
(* variable for which `*timer = ...' copies the object it points to: the   *)
(* first timer of the list becomes a copy of the soonest one.              *)
(***************************************************************************)
EXTENDS Integers, Sequences, SequencesExt, FiniteSets, FiniteSetsExt

CONSTANTS
  Periods,     (* for each daemon a function: the timers that run for ever *)
               (* and their intervals                                      *)
  Refresh,     (* of these, that of NARB's topology, which can be set      *)
  Intervals,   (* the intervals that an operator sets                      *)
  Sessions,    (* CLI readers, each with its timer                         *)
  Timeout,     (* cli_timeout                                              *)
  MaxLate      (* bound: how late the loop is for a timer                  *)

Timers  == Sessions \cup UNION {DOMAIN f : f \in Periods}
FOREVER == -1
Awake   == -1   (* `asleep' of a loop that does not wait in select()       *)

VARIABLES
  period,   (* the daemon: one of Periods                                  *)
  tm,       (* of each timer: left, the time until it is due, interval,    *)
            (* repeats                                                     *)
  timers,   (* the list                                                    *)
  asleep,   (* Awake, or the time that select() has still to wait          *)
  open      (* the sessions that have not ended                            *)

timerVars == <<period, tm, timers, asleep, open>>

Periodic == DOMAIN period
Unused == [left |-> 0, interval |-> Timeout, repeats |-> 0]

-----------------------------------------------------------------------------
(* The list.                                                               *)

(* Mutant: a timer is always appended.                                     *)
Schedule_Back(list, of, t) == Append(list, t)
Schedule(list, of, t) ==
  LET later == {i \in DOMAIN list : of[t].left < of[list[i]].left}
  IN  IF later = {} THEN Append(list, t) ELSE InsertAt(list, Min(later), t)

(* Timer::Cycle.  Mutant: FOREVER is counted down like a number.           *)
Cycle_Counts(p) == [p EXCEPT !.left = @ + p.interval, !.repeats = @ - 1]
Cycle(p) == [p EXCEPT !.left = @ + p.interval, !.repeats = IF @ > 0 THEN @ - 1 ELSE @]

(* The soonest timer of the list, the first where there are several.       *)
(* Mutant: the list is taken to be sorted.                                 *)
Soonest_First == Head(timers)
Soonest == timers[Min({i \in DOMAIN timers :
                         \A j \in DOMAIN timers : tm[timers[i]].left <= tm[timers[j]].left})]

(* EventMaster::Fetch runs the first timer on the list that is due.        *)
(* Mutant: it looks at the first one only.                                 *)
Due_First == {1} \cap {i \in DOMAIN timers : tm[timers[i]].left <= 0}
Due == {i \in DOMAIN timers : tm[timers[i]].left <= 0}

-----------------------------------------------------------------------------
(* The loop begins: the timers that run for ever are on the list.         *)
Start(intervals) ==
  /\ period = intervals
  /\ tm = [t \in Timers |->
       IF t \notin Periodic THEN Unused
       ELSE [left |-> period[t], interval |-> period[t], repeats |-> FOREVER]]
  /\ timers = SetToSortSeq(Periodic, LAMBDA a, b : period[a] < period[b])
  /\ asleep = Awake /\ open = {}

Init == \E intervals \in Periods : Start(intervals)

(* Time passes.  The loop may be late, busy with an event, but select()    *)
(* returns in time.                                                        *)
Tick ==
  /\ \A t \in ToSet(timers) : tm[t].left > -MaxLate
  /\ asleep # 0
  /\ tm' = [t \in Timers |-> IF t \in ToSet(timers) THEN [tm[t] EXCEPT !.left = @ - 1] ELSE tm[t]]
  /\ asleep' = IF asleep > 0 THEN asleep - 1 ELSE asleep
  /\ UNCHANGED <<period, timers, open>>

(* EventMaster::Run with a timer: CLITimer::Run ends its session.  What    *)
(* the others do is the subject of other modules.                          *)
RunTimer(t) ==
  /\ asleep = Awake /\ Due # {} /\ t = timers[Min(Due)]
  /\ open' = open \ {t}
  /\ LET again == tm[t].repeats > 0 \/ tm[t].repeats = FOREVER
         of    == [tm EXCEPT ![t] = IF again THEN Cycle(@) ELSE Unused]
         rest  == Remove(timers, t)
     IN  /\ tm' = of
         /\ timers' = IF again THEN Schedule(rest, of, t) ELSE rest
  /\ UNCHANGED <<period, asleep>>

(* WaitLimit, before select(): a timer of a derived class stays what it    *)
(* is, and becomes a copy in all that a Timer has.                         *)
Sleep ==
  /\ asleep = Awake /\ Due = {} /\ timers # <<>>
  /\ asleep' = tm[Soonest].left
  /\ tm' = [tm EXCEPT ![Head(timers)] = tm[Soonest]]
  /\ UNCHANGED <<period, timers, open>>

(* select() has waited, and Fetch() begins again.                          *)
WakeUp ==
  /\ asleep = 0
  /\ asleep' = Awake
  /\ UNCHANGED <<period, tm, timers, open>>

(* A socket is found: select() returns, and its event runs without another *)
(* look at the timers; or it has been found before and no timer is due.    *)
Found == asleep # Awake \/ Due = {}

(* CLIServer::Run, CLIReader::InitSession: a session with its timer.       *)
Open(s) ==
  /\ Found /\ s \notin open /\ s \notin ToSet(timers)
  /\ LET of == [tm EXCEPT ![s] = [Unused EXCEPT !.left = Timeout]]
     IN  tm' = of /\ timers' = Schedule(timers, of, s)
  /\ open' = open \cup {s} /\ asleep' = Awake
  /\ UNCHANGED period

(* CLIReader::Run, with something to read: Timer::Restart.                 *)
Input(s) ==
  /\ Found /\ s \in open
  /\ tm' = [tm EXCEPT ![s].left = tm[s].interval]
  /\ asleep' = Awake
  /\ UNCHANGED <<period, timers, open>>

(* CLIReader::Run, with nothing to read: the reader is deleted, its timer  *)
(* removed.                                                                *)
Hangup(s) ==
  /\ Found /\ s \in open
  /\ timers' = Remove(timers, s) /\ tm' = [tm EXCEPT ![s] = Unused]
  /\ open' = open \ {s} /\ asleep' = Awake
  /\ UNCHANGED period

(* "exit": the sockets are closed, but neither the reader nor its timer    *)
(* goes.                                                                   *)
Quit(s) ==
  /\ Found /\ s \in open
  /\ tm' = [tm EXCEPT ![s].left = tm[s].interval]
  /\ open' = open \ {s} /\ asleep' = Awake
  /\ UNCHANGED <<period, timers>>

(* "set refresh-interval", typed in a session.  SetInterval() sets a local *)
(* variable of the name, so that the timer keeps its interval.             *)
SetRefresh(s, p, n) ==
  /\ Found /\ s \in open /\ p \in Periodic
  /\ LET of == [tm EXCEPT ![s].left = tm[s].interval, ![p].left = n, ![p].repeats = FOREVER]
     IN  tm' = of /\ timers' = Schedule(Remove(timers, p), of, p)
  /\ asleep' = Awake
  /\ UNCHANGED <<period, open>>

Next ==
  \/ Tick \/ Sleep \/ WakeUp
  \/ \E t \in Timers : RunTimer(t)
  \/ \E s \in Sessions : \/ Open(s) \/ Input(s) \/ Hangup(s) \/ Quit(s)
                         \/ \E p \in Refresh, n \in Intervals : SetRefresh(s, p, n)

Spec == Init /\ [][Next]_timerVars

-----------------------------------------------------------------------------
(* Properties.                                                             *)

TypeOK ==
  /\ \A t \in Timers : tm[t].left >= -MaxLate /\ tm[t].repeats \in {0, FOREVER}
  /\ ToSet(timers) \subseteq Timers /\ asleep >= Awake
  /\ open \subseteq Sessions

(* The loop never sleeps past a timer, though the list need not be sorted  *)
(* and one timer is overwritten in the search (WaitLimit).                 *)
SleepsInTime == asleep # Awake => \A t \in ToSet(timers) : asleep <= tm[t].left

(* A timer that is to run for ever stays on the list, once, and keeps its  *)
(* interval: `repeats' is FOREVER (event.hh) until someone takes it off.   *)
RunsForever ==
  \A p \in Periodic : /\ Cardinality({i \in DOMAIN timers : timers[i] = p}) = 1
                      /\ tm[p].repeats = FOREVER /\ tm[p].interval = period[p]

(* However much is typed in the sessions, every timer that runs for ever   *)
(* runs again and again, unless it is set again and again, and a session   *)
(* without input is ended (EventMaster::Fetch).                            *)
IsSet(p) == \E s \in Sessions, n \in Intervals : SetRefresh(s, p, n)
Types(s) == Input(s) \/ \E p \in Refresh, n \in Intervals : SetRefresh(s, p, n)
EveryTimerRuns ==
  /\ \A p \in Timers \ Sessions :
       [](p \notin Periodic) \/ []<><<RunTimer(p) \/ IsSet(p)>>_timerVars
  /\ \A s \in Sessions : []<>(s \notin open) \/ []<><<Types(s)>>_timerVars
=============================================================================
