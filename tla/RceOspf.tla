------------------------------ MODULE RceOspf --------------------------------
(***************************************************************************)
(* The RCE as a client of an OSPF daemon (rce/zebra_ospfclient.cc): it     *)
(* asks for the whole database in every interval, connects again when the  *)
(* connection has broken, a limited number of times, and takes over the    *)
(* LSAs that the daemon sends (LSAHandler).  rce_main.cc has two of them.  *)
(*                                                                         *)
(* The daemon answers each request with all of its LSAs and tells of every *)
(* change; it may stop and start at any time.                              *)
(***************************************************************************)
EXTENDS Integers, Sequences, SequencesExt, FiniteSets

CONSTANTS
  Lsas,          (* LSAs                                                   *)
  MaxAttempts,   (* max_ospf_sync_attempts                                 *)
  MaxStops,      (* bound: how often the daemon stops                      *)
  MaxChanges,    (* bound: changes of the daemon's database                *)
  MaxRefusals,   (* bound: connections that fail though there is a daemon  *)
  MaxCommands,   (* bound: commands of an operator                         *)
  MaxRequests,   (* bound: requests under way                              *)
  MaxQueue       (* bound: notifications under way                         *)

VARIABLES
  client,   (* ZebraOspfSync, see NewClient                                *)
  found,    (* the events that select() has found: "reader", "writer"      *)
  daemon,   (* the OSPF daemon and the connection to it, see NewDaemon     *)
  rdb,      (* the LSAs that the RCE has taken over                        *)
  missed    (* LSAs withdrawn, or withdrawals lost, without a connection    *)

ospfVars == <<client, found, daemon, rdb, missed>>

(* timer: it is on the list for ever, once more, or not; fd: there is a    *)
(* socket; reader, writer: the list that they are on, or "none", or        *)
(* "null"; queue: length of msgQueue; commands: how often it was told to   *)
(* connect.                                                                *)
NewClient == [timer |-> "forever", commands |-> 0, attempt |-> 0, fd |-> FALSE, reader |-> "null",
              writer |-> "null", queue |-> 0, aborted |-> FALSE]
NewDaemon == [up |-> TRUE, conn |-> FALSE, lsdb |-> {}, asked |-> 0, sent |-> <<>>,
              stops |-> 0, changes |-> 0, refusals |-> 0]

Init ==
  /\ client = NewClient /\ found = <<>> /\ daemon = NewDaemon /\ rdb = {} /\ missed = {}

(* A client that is not there.                                             *)
GaveUp ==
  /\ client = [NewClient EXCEPT !.aborted = TRUE]
  /\ found = <<>> /\ daemon = [NewDaemon EXCEPT !.up = FALSE] /\ rdb = {} /\ missed = {}

Alive == ~client.aborted
FinishedReady == found = <<>>

-----------------------------------------------------------------------------
(* ZebraOspfSync::Run.                                                     *)

PostMessage(c) ==
  [c EXCEPT !.queue = @ + 1, !.writer = IF c.queue = 0 THEN "writes" ELSE @]

(* Mutant: the writer that there was is kept.                              *)
Forgotten_NotWriter(c) == [c EXCEPT !.fd = FALSE, !.reader = "null", !.attempt = 0]
(* What both the reader and the writer do when the connection has broken.  *)
Forgotten(c) ==
  [c EXCEPT !.fd = FALSE, !.reader = "null", !.writer = "null", !.queue = 0, !.attempt = 0]

(* The last attempt takes the client off the list of timers, even when it  *)
(* succeeds.                                                               *)
Attempted(c) == [c EXCEPT !.attempt = @ + 1,
                          !.timer = IF c.attempt < MaxAttempts - 1 THEN @ ELSE "off"]
(* What the loop does with the timer when it has run.                      *)
Cycled(c) == [c EXCEPT !.timer = IF @ = "once" THEN "off" ELSE @]
Linked(c) == [c EXCEPT !.fd = TRUE, !.reader = IF @ = "null" THEN "reads" ELSE @,
                       !.writer = IF @ = "null" THEN "none" ELSE @]

(* A new reader cannot tell the sockets of an old one: it has its own.     *)
Sync ==
  /\ Alive /\ client.timer # "off" /\ client.queue + daemon.asked < MaxRequests
  /\ \/ /\ client.fd
        /\ client' = Cycled(PostMessage(client)) /\ UNCHANGED daemon
     \/ /\ ~client.fd /\ ~daemon.up
        /\ client' = Cycled(client) /\ UNCHANGED daemon
     \/ /\ ~client.fd /\ daemon.up
        /\ client' = Cycled(PostMessage(Linked(Attempted(client))))
        /\ daemon' = [daemon EXCEPT !.conn = TRUE, !.sent = <<>>, !.asked = 0]
     \/ /\ ~client.fd /\ daemon.up /\ daemon.refusals < MaxRefusals
        /\ client' = Cycled(Attempted(client))
        /\ daemon' = [daemon EXCEPT !.refusals = @ + 1]
  /\ UNCHANGED <<found, rdb, missed>>

(* "connect ospfd", unless there is a reader with a socket: Remove() takes  *)
(* the client's repetitions away, Schedule() puts it back for one run.      *)
ConnectCmd ==
  /\ Alive /\ client.commands < MaxCommands /\ client.reader = "null"
  /\ client' = [client EXCEPT !.timer = "once", !.commands = @ + 1]
  /\ UNCHANGED <<found, daemon, rdb, missed>>

-----------------------------------------------------------------------------
(* The loop, the reader and the writer.                                    *)

(* select(): readers come before writers.                                  *)
Readable == client.reader = "reads" /\ (daemon.sent # <<>> \/ ~daemon.conn)
Select ==
  /\ Alive /\ FinishedReady
  /\ found' = (IF Readable THEN <<"reader">> ELSE <<>>)
              \o (IF client.writer = "writes" THEN <<"writer">> ELSE <<>>)
  /\ found' # <<>>
  /\ client' = [client EXCEPT !.reader = IF Readable THEN "ready" ELSE @,
                              !.writer = IF @ = "writes" THEN "ready" ELSE @]
  /\ UNCHANGED <<daemon, rdb, missed>>

(* LSAHandler::Run, a priority event, comes before anything else.  Mutant: *)
(* a withdrawal is not handled.                                            *)
Handled_Updates(db, m) == IF m.act = "update" THEN db \cup {m.lsa} ELSE db
Handled(db, m) == IF m.act = "update" THEN db \cup {m.lsa} ELSE db \ {m.lsa}

(* ZebraOspfReader::Run.  Closing a writer does not take it from the       *)
(* events that are ready.                                                  *)
RunReader ==
  /\ Alive /\ found # <<>> /\ Head(found) = "reader" /\ found' = Tail(found)
  /\ IF client.reader # "ready"
     THEN client' = [client EXCEPT !.aborted = TRUE] /\ UNCHANGED <<daemon, rdb>>
     ELSE IF daemon.sent # <<>>
     THEN /\ rdb' = Handled(rdb, Head(daemon.sent))
          /\ client' = [client EXCEPT !.reader = "reads"]
          /\ daemon' = [daemon EXCEPT !.sent = Tail(@)]
     ELSE client' = Forgotten(client) /\ UNCHANGED <<daemon, rdb>>
  /\ UNCHANGED missed

(* LSAs that are under way to a reader.                                    *)
Under(d) == {d.sent[i].lsa : i \in DOMAIN d.sent}

(* ZebraOspfWriter::Run: one message; it comes again for the next.         *)
RunWriter(fails) ==
  /\ Alive /\ found # <<>> /\ Head(found) = "writer" /\ found' = Tail(found)
  /\ fails => ~daemon.conn
  /\ IF client.writer # "ready"
     THEN client' = [client EXCEPT !.aborted = TRUE] /\ UNCHANGED <<daemon, missed>>
     ELSE IF fails
     THEN /\ client' = Forgotten(client)
          /\ daemon' = [daemon EXCEPT !.sent = <<>>] /\ missed' = missed \cup Under(daemon)
     ELSE /\ UNCHANGED missed
          /\ client' = [client EXCEPT !.queue = @ - 1,
                          !.writer = IF client.queue > 1 THEN "writes" ELSE "none"]
          /\ daemon' = [daemon EXCEPT !.asked = IF daemon.conn THEN @ + 1 ELSE @]
  /\ UNCHANGED rdb

-----------------------------------------------------------------------------
(* The daemon.                                                             *)

Notice(act, l) == [act |-> act, lsa |-> l]
Told(d, act, l) == IF d.conn THEN [d EXCEPT !.sent = Append(@, Notice(act, l))] ELSE d

Updates(S) == LET s == SetToSeq(S) IN [i \in DOMAIN s |-> Notice("update", s[i])]
Answer ==
  /\ daemon.asked > 0 /\ Len(daemon.sent) + Cardinality(daemon.lsdb) <= MaxQueue
  /\ daemon' = [daemon EXCEPT !.asked = @ - 1, !.sent = @ \o Updates(daemon.lsdb)]
  /\ UNCHANGED <<client, found, rdb, missed>>

Change(l) ==
  /\ daemon.up /\ daemon.changes < MaxChanges /\ Len(daemon.sent) < MaxQueue
  /\ LET add == l \notin daemon.lsdb
         d == [daemon EXCEPT !.changes = @ + 1,
                 !.lsdb = IF add THEN @ \cup {l} ELSE @ \ {l}]
     IN  /\ daemon' = Told(d, IF add THEN "update" ELSE "delete", l)
         /\ missed' = IF add THEN missed \ {l}
                      ELSE IF daemon.conn THEN missed ELSE missed \cup {l}
  /\ UNCHANGED <<client, found, rdb>>

(* What was sent before the connection broke may still be read, or not.    *)
Stop(lost) ==
  /\ daemon.up /\ daemon.stops < MaxStops
  /\ daemon' = [daemon EXCEPT !.up = FALSE, !.conn = FALSE, !.asked = 0, !.stops = @ + 1,
                  !.lsdb = {}, !.sent = IF lost THEN <<>> ELSE @]
  /\ missed' = missed \cup daemon.lsdb
                \cup (IF lost THEN Under(daemon) ELSE {})
  /\ UNCHANGED <<client, found, rdb>>
Start ==
  /\ ~daemon.up /\ daemon' = [daemon EXCEPT !.up = TRUE]
  /\ UNCHANGED <<client, found, rdb, missed>>

Next ==
  \/ Sync \/ ConnectCmd \/ Select \/ RunReader \/ (\E fails \in BOOLEAN : RunWriter(fails))
  \/ Answer \/ (\E l \in Lsas : Change(l)) \/ (\E lost \in BOOLEAN : Stop(lost)) \/ Start

Spec == Init /\ [][Next]_ospfVars

Write == \E fails \in BOOLEAN : RunWriter(fails)
Fairness ==
  /\ WF_ospfVars(Sync) /\ WF_ospfVars(Select) /\ WF_ospfVars(RunReader)
  /\ WF_ospfVars(Write) /\ WF_ospfVars(Answer)
LiveSpec == Spec /\ Fairness

-----------------------------------------------------------------------------
(* Properties.                                                             *)

(* The LSAs that there are when a database has taken over all notices.     *)
Applied(db, ms) ==
  LET withdrawn(l, i) == \E j \in i .. Len(ms) : ms[j] = Notice("delete", l)
  IN  {l \in Lsas : \/ l \in db /\ ~withdrawn(l, 1)
                    \/ \E i \in 1 .. Len(ms) : ms[i] = Notice("update", l) /\ ~withdrawn(l, i)}

(* What the RCE has taken over and what is under way to it make up the     *)
(* daemon's database, except that an LSA which was withdrawn while there   *)
(* was no connection may stay for ever; and an LSA that is there may be    *)
(* missing until the next answer.                                          *)
NothingLeftOver == Applied(rdb, daemon.sent) \subseteq daemon.lsdb \cup missed

(* A connected client that has not given up learns all of a database that  *)
(* does not change any more, whatever stops and refusals came before.      *)
GivenUp == client.timer = "off" \/ client.aborted
Synced == <>[](daemon.up) => <>[](daemon.lsdb \subseteq rdb) \/ <>[]GivenUp
=============================================================================
