------------------------------- MODULE MCRce -------------------------------
(* Components of the RCE that keep to themselves, each on its own: the      *)
(* resource database, the client of the OSPF daemon and, which NARB has as  *)
(* well, the client of the TERCE and the timers of the event loop. Only the *)
(* part that was chosen at the start moves, the others stay as they are.    *)
EXTENDS ResourceDB

CONSTANTS
  OspfLsas, MaxAttempts, OspfStops, OspfChanges, MaxRefusals, MaxCommands,
  MaxRequests, MaxQueue,                                          \* RceOspf
  TerceLsas, Jumps, MaxFd, TerceStops, MaxFaults, MaxOthers, TerceChanges   \* TerceClient

ASSUME OspfAssumption == IsFiniteSet(OspfLsas)
ASSUME SocketAssumption == MaxFd \in Nat

VARIABLES
  part,
  client, found, daemon, rdb, missed,   \* RceOspf
  terce,                                \* TerceClient
  period, tm, timers, asleep, open      \* EventTimers

Ospf == INSTANCE RceOspf WITH
  Lsas <- OspfLsas, MaxStops <- OspfStops, MaxChanges <- OspfChanges
Terce == INSTANCE TerceClient WITH
  Lsas <- TerceLsas, MaxStops <- TerceStops, MaxChanges <- TerceChanges

(* NARB has one timer that runs for ever, the RCE two.                      *)
Loop == INSTANCE EventTimers WITH
  Periods <- {[topology |-> 5], [ospf |-> 2, terce |-> 4]}, Refresh <- {"topology"},
  Intervals <- {2, 4}, Sessions <- {"s1"}, Timeout <- 3, MaxLate <- 1

-----------------------------------------------------------------------------
(* Two routers, 4 and 6, and the router of a subnet, 5. The interfaces of   *)
(* the link between them are 1 and 2.                                       *)
Ad(adv, id, lcl, rmt, incomplete, uni) ==
  [adv |-> adv, id |-> id, lcl |-> lcl, rmt |-> rmt, part |-> incomplete, uni |-> uni]

(* One link in both directions, in one of them ending at the subnet, and    *)
(* the same link while its remote address or its remote identifier is not   *)
(* known.                                                                   *)
MCAds ==
  {Ad(4, 6, 1, 2, FALSE, 5), Ad(6, 4, 2, 1, FALSE, None),
   Ad(4, 6, 1, 0, FALSE, 5), Ad(4, 6, 1, 2, TRUE, 5)}

(* The bounds: links and links with deltas are three together, two while an *)
(* operator edits a link.                                                   *)
FewLinks ==
  LET held == {p \in DOMAIN heap : heap[p].holds # None}
  IN Cardinality(DOMAIN heap) + Cardinality(held) <= IF editing = {} THEN 3 ELSE 2

-----------------------------------------------------------------------------
ospfVars  == <<client, found, daemon, rdb, missed>>
timerVars == <<period, tm, timers, asleep, open>>
partsVars == <<part, vars, ospfVars, terce, timerVars>>

PartsInit ==
  /\ part \in {"rdb", "ospf", "terce", "timers"}
  /\ Init
  /\ IF part = "ospf" THEN Ospf!Init ELSE Ospf!GaveUp
  /\ IF part = "terce" THEN Terce!Init ELSE terce = Terce!Off
  /\ IF part = "timers" THEN Loop!Init ELSE Loop!Start(<<>>)

OnlyRdb    == part = "rdb"    /\ UNCHANGED <<part, ospfVars, terce, timerVars>>
OnlyOspf   == part = "ospf"   /\ UNCHANGED <<part, vars, terce, timerVars>>
OnlyTerce  == part = "terce"  /\ UNCHANGED <<part, vars, ospfVars, timerVars>>
OnlyTimers == part = "timers" /\ UNCHANGED <<part, vars, ospfVars, terce>>

PartsNext ==
  \/ OnlyRdb /\ Next /\ FewLinks'
  \/ OnlyOspf /\ Ospf!Next
  \/ OnlyTerce /\ Terce!Next
  \/ OnlyTimers /\ Loop!Next

(* The fairness of each part, where it moves: the event loop goes on.       *)
Fairness ==
  /\ WF_partsVars(OnlyOspf /\ Ospf!Sync) /\ WF_partsVars(OnlyOspf /\ Ospf!Select)
  /\ WF_partsVars(OnlyOspf /\ Ospf!RunReader) /\ WF_partsVars(OnlyOspf /\ Ospf!Write)
  /\ WF_partsVars(OnlyOspf /\ Ospf!Answer)
  /\ WF_partsVars(OnlyTerce /\ Terce!Main) /\ WF_partsVars(OnlyTerce /\ Terce!Timers)
  /\ WF_partsVars(OnlyTerce /\ Terce!Select) /\ WF_partsVars(OnlyTerce /\ Terce!RunReader)
  /\ WF_partsVars(OnlyTimers /\ Loop!Tick) /\ WF_partsVars(OnlyTimers /\ Loop!WakeUp)
  /\ WF_partsVars(OnlyTimers /\ \E t \in Loop!Timers : Loop!RunTimer(t))

PartsSpec == PartsInit /\ [][PartsNext]_partsVars /\ Fairness

-----------------------------------------------------------------------------
(* The RCE keeps no LSA that was withdrawn while it was connected           *)
(* (ZebraOspfReader, LSAHandler).                                           *)
NothingLeftOver == part = "ospf" => Ospf!NothingLeftOver

(* It learns of all LSAs of the daemon unless it has given up               *)
(* (ZebraOspfSync::Run).                                                    *)
Synced == Ospf!Synced

(* The sockets of a TERCE client are those of one connection, and its       *)
(* broker's none of another client (TerceApiTopoSync, Reader and Writer).   *)
Wired == part = "terce" => Terce!Wired

(* A connection to a TERCE is made again, with the whole topology           *)
(* (TerceApiTopoOriginator::Run).                                           *)
Resurrected == Terce!Resurrected

(* The loop sleeps past no timer, and those that run for ever stay on the   *)
(* list and as they are, with one session (EventMaster::WaitLimit, Fetch).  *)
TimersRun == Loop!TypeOK /\ Loop!SleepsInTime /\ Loop!RunsForever

(* A timer that runs for ever runs again and again, and a session without   *)
(* input ends (EventMaster::Fetch, CLITimer::Run).                          *)
EveryTimerRuns == Loop!EveryTimerRuns
=============================================================================
