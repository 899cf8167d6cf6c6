--------------------------- MODULE DomainTopology ----------------------------
(***************************************************************************)
(* The abstract topology of a domain (narb/dts.cc): the router IDs and TE  *)
(* links that NARB originates as LSAs through an OSPF daemon and a TERCE,  *)
(* from its start (narb_main.cc), periodically (DomainTopologyOriginator), *)
(* for the LSP brokers, and on the commands of its CLI sessions (cli.cc).  *)
(*                                                                         *)
(* One event of the loop is one action.  An exchange with a server may     *)
(* find that it has gone, at any of its messages.                          *)
(***************************************************************************)
EXTENDS NarbOspf

CONSTANTS
  Routers,    (* router IDs                                                *)
  Links,      (* TE links, by their pair of interface addresses            *)
  Absent,     (* those links that are not configured at first              *)
  Sessions,   (* CLI sessions in configure mode                            *)
  Cases,      (* what is configured and what may happen, see CaseType      *)
  MaxIds      (* bound: opaque IDs in use at a time                        *)

CmdNames == {"add", "delete", "edit", "originate", "delete topology", "interval",
             "connect", "disconnect", "set topology", "set if"}
(* A case has the servers that are configured, the sessions and the        *)
(* commands that they give, whether working_mode is                        *)
(* WORKING_MODE_DYNAMIC_INTERDOMAIN_TOPOLOGY, how often a server stops at  *)
(* most (a bound), whether also in the middle of an event, and whether     *)
(* LSPs come and go.                                                       *)
CaseType == [servers : SUBSET {"ospf", "terce"}, sessions : SUBSET Sessions,
             cmds : SUBSET CmdNames, dynamic : BOOLEAN, stops : Nat, midway : BOOLEAN,
             lsps : BOOLEAN]

ASSUME TopologyAssumption ==
  /\ MaxConns \in Nat /\ MaxIds \in 1 .. 127 /\ \A c \in Cases : c \in CaseType
  /\ Routers \cap Links = {} /\ Absent \subseteq Links /\ Links # {}

Items == Routers \cup Links
Order == SetToSeq(Routers) \o SetToSeq(Links)    (* of a walk of the RDB    *)
Ids   == 1 .. MaxIds
Other == "other"                     (* an interface address of no link     *)

(* What an LSA says of a link: a parameter that an operator may edit, and  *)
(* whether an LSP has taken bandwidth and a tag of it.                     *)
Content == [par : 0 .. 1, taken : BOOLEAN]
Plain   == [par |-> 0, taken |-> FALSE]

(* link_to_update: the copy of a link that is edited, and where its        *)
(* interface addresses lead to.                                            *)
NoEdit == [on |-> FALSE]

VARIABLES
  case,    (* one of Cases                                                 *)
  s,       (* NARB's OSPF client, its servers and what it is about, see    *)
           (* module NarbOspf; with s.it the items: configured, hidden,    *)
           (* opaque ID, content; s.ready, the TERCE client has a          *)
           (* connection (and a writer), s.tpeer, the TERCE has it too;    *)
           (* s.stop, an origination or a deletion at the TERCE has met    *)
           (* an error; s.zc, the OSPF client exists                       *)
  phase,   (* of main: "boot", "poll", "terce", "run", "exit"              *)
  ready,   (* events that the loop has found to be ready                   *)
  node,    (* the command level of each session: "configure", "edit"       *)
  edit,    (* link_to_update                                               *)
  orig,    (* dts_originator: made, times on the timer list, obsolete,     *)
           (* deleted, and whether it has an OSPF client, a TERCE client   *)
  stops    (* how often servers have stopped                               *)

vars == <<case, s, phase, ready, node, edit, orig, stops>>

Servers  == case.servers
Dynamic  == case.dynamic
MaxStops == case.stops

NoOriginator == [made |-> FALSE, timers |-> 0, obsolete |-> FALSE, deleted |-> FALSE,
                 ospf |-> "no", terce |-> FALSE]

Item(in, id) == [in |-> in, hide |-> FALSE, id |-> id, ver |-> Plain]
IdOf == [x \in Items |-> CHOOSE i \in DOMAIN Order : Order[i] = x]

Init ==
  /\ case \in Cases
  /\ s = [z |-> NoClient, zc |-> FALSE, where |-> "none", watched |-> {}, open |-> {},
          peer |-> {}, reg |-> {}, conns |-> 0, up |-> [v \in {"ospf", "terce"} |-> TRUE],
          lsdb |-> [v \in {"ospf", "terce"} |-> {}], ready |-> FALSE, tpeer |-> FALSE,
          stop |-> FALSE, crash |-> "none",
          it |-> [x \in Items |-> Item(x \notin Absent, IdOf[x])]]
  /\ phase = "boot" /\ ready = {}
  /\ node = [c \in Sessions |-> "configure"] /\ edit = NoEdit
  /\ orig = NoOriginator /\ stops = 0

-----------------------------------------------------------------------------
(* Requests.                                                               *)

(* narb_ospf_opaque_id counts up; what matters is that the new number of x *)
(* is that of no LSA and of nothing else that has one.                     *)
Used(t, x) == {t.it[y].id : y \in Items \ {x}}
              \cup {l.id : l \in t.lsdb["ospf"] \cup t.lsdb["terce"]}
              \cup (IF edit.on THEN {edit.id} ELSE {})
NewId(t, x) ==
  LET F == Ids \ Used(t, x)
  IN  IF x \in Items /\ IdOf[x] \in F THEN IdOf[x] ELSE CHOOSE i \in F : \A j \in F : i <= j

(* The LS ID of a request to the TERCE: OriginateLsa and UpdateLsa send     *)
(* htonl(SET_OPAQUE_LSID(1, opaque_id)), DeleteLsa sends opaque_id as the  *)
(* host (taken to be little-endian) has it.                                *)
SET_OPAQUE_LSID(n) == 2^24 + (n % 2^24)
Swapped(n) == (n % 2^8) * 2^24 + ((n \div 2^8) % 2^8) * 2^16
              + ((n \div 2^16) % 2^8) * 2^8 + (n \div 2^24)
LsId(op) == IF op.kind = "delete" THEN Swapped(op.id) ELSE SET_OPAQUE_LSID(op.id)

(* A request to the TERCE: an error, or a TERCE that has gone, ends the    *)
(* origination or deletion; when it is the read that finds out, Stop()     *)
(* deletes the writer.  An LSA that the TERCE has not is an error.         *)
TerceRequest(t, op, how) ==
  LET K == {l \in t.lsdb["terce"] : SET_OPAQUE_LSID(l.id) = LsId(op)}
  IN  IF ~t.ready THEN Crashed(t, "no writer")
      ELSE IF ~t.tpeer THEN [t EXCEPT !.ready = (how = "lost"), !.stop = TRUE]
      ELSE IF op.kind # "originate" /\ K = {} THEN [t EXCEPT !.stop = TRUE]
      ELSE [t EXCEPT !.lsdb["terce"] = (@ \ K) \cup (IF op.kind = "delete" THEN {} ELSE {Lsa(op)})]

Request(t, srv, op, how) ==
  IF srv = "ospf" THEN OspfRequest(t, op, how)
  ELSE IF t.stop THEN t ELSE TerceRequest(t, op, how)

Op(kind, t, x) == [kind |-> kind, item |-> x, id |-> t.it[x].id, ver |-> t.it[x].ver]

(* OriginateRouterId, OriginateTeLink: a new opaque ID each time, whatever *)
(* becomes of the request.                                                 *)
Originate(t, srv, x, how) ==
  IF srv = "terce" /\ t.stop THEN t
  ELSE LET u == [t EXCEPT !.it[x].id = NewId(t, x)]
       IN  Request(u, srv, Op("originate", u, x), how)
DeleteItem(t, srv, x, how) == Request(t, srv, Op("delete", t, x), how)
Update(t, srv, x, how)     == Request(t, srv, Op("update", t, x), how)

(* The items that are not hidden, in the order of the walk.                *)
Shown(t) == SelectSeq(Order, LAMBDA x : t.it[x].in /\ ~t.it[x].hide)

(* Do(t), with t evaluated once.                                           *)
After(t, Do(_)) == CHOOSE v \in {Do(u) : u \in {t}} : TRUE

(* Each step is a function of a state; the d-th finds that the server has  *)
(* stopped (d = 0: none does).                                             *)
Stopped(t, srv) == IF srv = "ospf" THEN OspfStopped(t)
                   ELSE [t EXCEPT !.up["terce"] = FALSE, !.tpeer = FALSE, !.lsdb["terce"] = {}]
Walk(t, srv, op, how, d) ==
  LET xs == Shown(t)
      f[i \in 0 .. Len(xs)] ==
        IF i = 0 THEN [t EXCEPT !.stop = FALSE]
        ELSE LET Ith(u) == IF op = "delete" THEN DeleteItem(u, srv, xs[i], how)
                           ELSE Originate(u, srv, xs[i], how)
             IN  After(IF i = d THEN Stopped(f[i - 1], srv) ELSE f[i - 1], Ith)
  IN  f[Len(xs)]

DeleteTopology(t, srv, how, d)    == Walk(t, srv, "delete", how, d)
OriginateTopology(t, srv, how, d) == Walk(t, srv, "originate", how, d)

Hidden(t, h) == [t EXCEPT !.it = [x \in Items |-> [t.it[x] EXCEPT !.hide = h]]]
HideTopology(t)   == Hidden(t, TRUE)
ExposeTopology(t) == Hidden(t, FALSE)

(* TerceApiTopoSync::RunWithoutSyncTopology, seen from here.               *)
TerceRuns(t) == IF t.up["terce"] THEN [t EXCEPT !.ready = TRUE, !.tpeer = TRUE] ELSE t

-----------------------------------------------------------------------------
(* How an exchange may go.                                                 *)

Hows == {"lost", "eof"}
Cuts(t) == IF case.midway /\ stops < MaxStops THEN 0 .. Len(Shown(t)) ELSE {0}
CountStop(d) == stops' = IF d = 0 THEN stops ELSE stops + 1

(* Enough opaque IDs, connections.                                         *)
Room == Cardinality(Ids \ Used(s, Other)) > 2 * Cardinality(Items) /\ s.conns < MaxConns
Running == s.crash = "none" /\ phase = "run"

-----------------------------------------------------------------------------
(* main.                                                                   *)

Boot ==
  /\ phase = "boot" /\ s.crash = "none"
  /\ LET t == RunWithoutSyncLsdb([s EXCEPT !.zc = TRUE])
     IN  IF "ospf" \notin Servers THEN s' = s /\ phase' = "terce"
         ELSE IF t.z.sfd = None THEN s' = t /\ phase' = "exit"
         ELSE s' = RegisterOpqaueType(t, "lost") /\ phase' = "poll"
  /\ UNCHANGED <<case, ready, node, edit, orig, stops>>

(* The loop of IsOriginateInterfaceReady: the first answer that the        *)
(* interface is ready lets main originate the topology.                    *)
Scheduled(o) == [o EXCEPT !.made = TRUE, !.timers = @ + 1]

PollReady(how, d) ==
  /\ phase = "poll" /\ s.crash = "none"
  /\ IF Usable(s)
     THEN /\ s' = OriginateTopology(s, "ospf", how, d) /\ phase' = "terce"
          /\ orig' = [Scheduled(orig) EXCEPT !.ospf = "yes"] /\ CountStop(d)
     ELSE s' = Broken(s, how) /\ UNCHANGED <<phase, orig, stops>>
  /\ UNCHANGED <<case, ready, node, edit>>

TerceBoot(how, d) ==
  /\ phase = "terce" /\ s.crash = "none"
  /\ IF "terce" \notin Servers THEN phase' = "run" /\ UNCHANGED <<s, orig, stops>>
     ELSE /\ s.up["terce"] /\ phase' = "run" /\ CountStop(d)
          /\ s' = OriginateTopology(TerceRuns(s), "terce", how, d)
          /\ orig' = [Scheduled(orig) EXCEPT !.terce = TRUE]
  /\ UNCHANGED <<case, ready, node, edit>>

-----------------------------------------------------------------------------
(* DomainTopologyOriginator::Run, with the loop's Cycle and Schedule.      *)

(* Mutant: it only deletes.                                                *)
Renewed_DeleteOnly(t, srv, how, d) == DeleteTopology(t, srv, how, 0)
Renewed(t, srv, how, d) ==
  LET n == Len(Shown(t))
      Again(u) == OriginateTopology(u, srv, how, IF d > n THEN d - n ELSE 0)
  IN  IF t.crash # "none" THEN t
      ELSE After(DeleteTopology(t, srv, how, IF d <= n THEN d ELSE 0), Again)

RefreshTerce(t, how, d) ==
  LET r == IF orig.terce /\ ~t.ready THEN TerceRuns(t) ELSE t
  IN  IF orig.terce /\ r.ready THEN Renewed(r, "terce", how, d) ELSE r

(* Mutant: it does not connect again.                                      *)
RefreshOspf_NoReconnect(t, how, d) ==
  IF t.crash # "none" \/ orig.ospf = "no" \/ ~Up(t) \/ ~t.z.rd THEN t
  ELSE Renewed(t, "ospf", how, d)
RefreshOspf(t, how, d) ==
  IF t.crash # "none" \/ orig.ospf = "no" \/ ~Up(t) THEN t
  ELSE LET r == IF t.z.rd /\ t.z.wr THEN t ELSE RunWithoutSyncLsdb(t)
       IN  IF r.z.rd /\ r.z.wr THEN Renewed(r, "ospf", how, d) ELSE r

Refresh(srv, how, d) ==
  /\ Running /\ orig.timers > 0 /\ Room
  /\ s' = IF orig.deleted THEN Crashed(s, "deleted originator")
          ELSE IF orig.ospf = "dangling" THEN Crashed(s, "deleted client")
          ELSE LET Then(t) == RefreshOspf(t, how, IF srv = "ospf" THEN d ELSE 0)
               IN  After(RefreshTerce(s, how, IF srv = "terce" THEN d ELSE 0), Then)
  /\ orig' = [orig EXCEPT !.deleted = @ \/ orig.obsolete]
  /\ CountStop(d)
  /\ UNCHANGED <<case, phase, ready, node, edit>>

-----------------------------------------------------------------------------
(* The loop, and the reader of the OSPF client.                            *)

(* select(): sessions and the broker have input or not; the socket of a    *)
(* server is readable when the server has closed it.                       *)
Select(B) ==
  /\ Running /\ ready = {} /\ ~Deaf(s)
  /\ LET eof == s.where = "reads" /\ s.z.rfd \notin s.peer
         gone == s.ready /\ ~s.tpeer
     IN  /\ ready' = B \cup (IF eof THEN {"ospf"} ELSE {}) \cup (IF gone THEN {"terce"} ELSE {})
         /\ ready' # {}
         /\ s' = IF eof THEN [s EXCEPT !.where = "ready", !.watched = @ \ {s.z.rfd}] ELSE s
  /\ UNCHANGED <<case, phase, node, edit, orig, stops>>

RunReader ==
  /\ Running /\ "ospf" \in ready
  /\ ready' = ready \ {"ospf"} /\ s' = ReaderRuns(s)
  /\ UNCHANGED <<case, phase, node, edit, orig, stops>>

(* TerceApiTopoReader::Run, with Stop().                                   *)
RunTerceReader ==
  /\ Running /\ "terce" \in ready
  /\ ready' = ready \ {"terce"}
  /\ s' = IF s.ready THEN [s EXCEPT !.ready = FALSE] ELSE Crashed(s, "reader without socket")
  /\ UNCHANGED <<case, phase, node, edit, orig, stops>>

(* The broker has confirmed or released an LSP on a link (module           *)
(* LspBroker): its bandwidth and tags on record change, and in dynamic     *)
(* mode the LSA is updated at every server.                                *)
Reaches(t) == t.z.wfd # None \/ t.ready
Updated(t, l, how) ==
  LET u == IF t.z.wr /\ t.z.wfd # None THEN Update(t, "ospf", l, how) ELSE t
  IN  IF ~Dynamic THEN t
      ELSE IF u.ready THEN Update([u EXCEPT !.stop = FALSE], "terce", l, how) ELSE u

Taken(t, l, how) == Updated([t EXCEPT !.it[l].ver.taken = ~@], l, how)

Broker(l, how) ==
  /\ Running /\ "broker" \in ready
  /\ ready' = ready \ {"broker"}
  /\ s' = IF s.it[l].in /\ Reaches(s) THEN Taken(s, l, how) ELSE s
  /\ UNCHANGED <<case, phase, node, edit, orig, stops>>

-----------------------------------------------------------------------------
(* Commands of a CLI session.                                              *)

Command(c, cmd, level) ==
  /\ Running /\ c \in ready /\ cmd \in case.cmds /\ node[c] = level /\ Room
  /\ ready' = ready \ {c} /\ phase' = phase

(* cmd_add_link: the link is hidden.  There is no command level of the     *)
(* name "update-link-node": the session stays where it is.                 *)
Copy(l, x) == [on |-> TRUE, id |-> x.id, ver |-> x.ver, key |-> l]
AddLink(c, l) ==
  /\ Command(c, "add", "configure") /\ ~s.it[l].in
  /\ LET x == [Item(TRUE, NewId(s, l)) EXCEPT !.hide = TRUE]
     IN  s' = [s EXCEPT !.it[l] = x] /\ edit' = Copy(l, x)
  /\ UNCHANGED <<case, node, orig, stops>>

DeleteLinkLsa(t, l, how) ==
  IF t.it[l].hide THEN t
  ELSE IF ~t.zc THEN Crashed(t, "no writer")
  ELSE [DeleteItem(t, "ospf", l, how) EXCEPT !.it[l].hide = TRUE]
DeleteLink(c, l, how) ==
  /\ Command(c, "delete", "configure") /\ s.it[l].in
  /\ s' = DeleteLinkLsa(s, l, how)
  /\ UNCHANGED <<case, node, edit, orig, stops>>

EditLink(c, l) ==
  /\ Command(c, "edit", "configure") /\ s.it[l].in
  /\ edit' = Copy(l, [s.it[l] EXCEPT !.id = NewId(s, Other)])
  /\ node' = [node EXCEPT ![c] = "edit"]
  /\ UNCHANGED <<case, s, orig, stops>>

(* The commands below edit-link-node assert that there is a copy.          *)
Editing(c) ==
  /\ Command(c, "edit", "edit")

SetLink(c) ==
  /\ Editing(c)
  /\ s' = IF edit.on THEN s ELSE Crashed(s, "no link to update")
  /\ edit' = IF edit.on THEN [edit EXCEPT !.ver.par = 1 - @] ELSE edit
  /\ UNCHANGED <<case, node, orig, stops>>

(* set lcl_if, set rmt_if: the copy has the addresses of another link, or  *)
(* of none.                                                                *)
SetInterface(c, k) ==
  /\ Editing(c) /\ "set if" \in case.cmds
  /\ s' = IF edit.on THEN s ELSE Crashed(s, "no link to update")
  /\ edit' = IF edit.on THEN [edit EXCEPT !.key = k] ELSE edit
  /\ UNCHANGED <<case, node, orig, stops>>

Cancel(c) ==
  /\ Editing(c)
  /\ edit' = NoEdit /\ node' = [node EXCEPT ![c] = "configure"]
  /\ UNCHANGED <<case, s, orig, stops>>

(* The session breaks: its level goes with it, the copy stays.             *)
Quit(c) ==
  /\ Editing(c)
  /\ node' = [node EXCEPT ![c] = "configure"]
  /\ UNCHANGED <<case, s, edit, orig, stops>>

(* Mutant: the old LSA is not deleted.                                     *)
Committed_Twice(t, e, how) ==
  LET b == [t EXCEPT !.it[e.key] = [in |-> TRUE, hide |-> FALSE, id |-> e.id, ver |-> e.ver]]
  IN  Originate(b, "ospf", e.key, how)
(* The copy is originated and becomes the link, after the LSA of the link  *)
(* has been deleted.                                                       *)
Committed(t, e, how) ==
  LET a == DeleteItem(t, "ospf", e.key, how)
      b == [a EXCEPT !.it[e.key] = [in |-> TRUE, hide |-> FALSE, id |-> e.id, ver |-> e.ver]]
  IN  Originate(b, "ospf", e.key, how)
Commit(c, how) ==
  /\ Editing(c)
  /\ IF ~edit.on THEN s' = Crashed(s, "no link to update") /\ UNCHANGED <<node, edit>>
     ELSE IF ~s.zc \/ ~s.z.wr \/ s.z.wfd = None THEN UNCHANGED <<s, node, edit>>
     ELSE IF edit.key = Other \/ ~s.it[edit.key].in
     THEN s' = Crashed(s, "no such link") /\ UNCHANGED <<node, edit>>
     ELSE s' = Committed(s, edit, how) /\ edit' = NoEdit /\ node' = [node EXCEPT ![c] = "configure"]
  /\ UNCHANGED <<case, orig, stops>>

(* "originate topology", "delete topology": a client without sockets is    *)
(* connected, but the reader and the writer do not get the new ones.       *)
Carried(t, srv, op, how) ==
  IF op = "originate" THEN OriginateTopology(t, srv, how, 0)
  ELSE HideTopology(DeleteTopology(t, srv, how, 0))
WithOspf(t, op, how) ==
  IF ~t.zc \/ ~t.z.wr THEN t
  ELSE IF t.z.rfd = None THEN Connect(t) ELSE Carried(t, "ospf", op, how)
WithTerce(t, op, how) ==
  LET r == IF t.ready THEN t ELSE TerceRuns(t)
  IN  IF "terce" \in Servers /\ r.ready THEN Carried(r, "terce", op, how) ELSE r

OriginateCmd(c, srv, how) ==
  /\ Command(c, "originate", "configure") /\ srv \in Servers
  /\ s' = IF srv = "ospf" THEN WithOspf(ExposeTopology(s), "originate", how)
          ELSE WithTerce(ExposeTopology(s), "originate", how)
  /\ UNCHANGED <<case, node, edit, orig, stops>>

(* Nothing is hidden when the server cannot be reached.                    *)
DeleteCmd(c, srv, how) ==
  /\ Command(c, "delete topology", "configure") /\ srv \in Servers
  /\ s' = IF srv = "terce" THEN WithTerce(s, "delete", how)
          ELSE IF ~s.zc \/ ~s.z.wr THEN HideTopology(s) ELSE WithOspf(s, "delete", how)
  /\ UNCHANGED <<case, node, edit, orig, stops>>

(* The configuration is read anew.  The command that should delete the     *)
(* topology first is incomplete, and is not executed.                      *)
SetTopology(c, how) ==
  /\ Command(c, "set topology", "configure")
  /\ LET t == [s EXCEPT !.it = [x \in Items |->
                  IF x \in Absent THEN Item(FALSE, s.it[x].id) ELSE Item(TRUE, s.it[x].id)]]
     IN  s' = IF s.zc THEN OriginateTopology(t, "ospf", how, 0) ELSE t
  /\ UNCHANGED <<case, node, edit, orig, stops>>

(* Mutant: it stays obsolete.                                              *)
Rescheduled_Obsolete(o) == [o EXCEPT !.timers = 1, !.obsolete = TRUE]
Rescheduled(o) == [o EXCEPT !.timers = 1, !.obsolete = FALSE]

RefreshInterval(c, how) ==
  /\ Command(c, "interval", "configure")
  /\ s' = IF s.zc /\ s.z.wr THEN Renewed(s, "ospf", how, 0) ELSE s
  /\ orig' = IF orig.made THEN Rescheduled(orig) ELSE orig
  /\ UNCHANGED <<case, node, edit, stops>>

(* "connect ospfd": a client that cannot connect is deleted.  Remove()     *)
(* makes the originator obsolete, and nothing takes that back: the loop    *)
(* will delete it when it has run.                                         *)
ConnectCmd(c, how) ==
  /\ Command(c, "connect", "configure") /\ "ospf" \in Servers
  /\ LET t == RunWithoutSyncLsdb([s EXCEPT !.zc = TRUE])
     IN  IF s.zc /\ s.z.rfd # None THEN UNCHANGED <<s, orig>>
         ELSE IF t.z.sfd = None
         THEN /\ s' = [Destroyed(t) EXCEPT !.zc = FALSE]
              /\ orig' = IF orig.ospf = "yes" THEN [orig EXCEPT !.ospf = "dangling"] ELSE orig
         ELSE /\ s' = OriginateTopology(RegisterOpqaueType(t, how), "ospf", how, 0)
              /\ orig' = [orig EXCEPT !.made = TRUE, !.timers = 1, !.ospf = "yes",
                                      !.obsolete = @ \/ orig.made]
  /\ UNCHANGED <<case, node, edit, stops>>

(* "delete ospfd".                                                         *)
DisconnectCmd(c) ==
  /\ Command(c, "disconnect", "configure")
  /\ s' = IF s.zc /\ s.z.rd /\ s.z.rfd # None THEN Disconnected(s) ELSE s
  /\ UNCHANGED <<case, node, edit, orig, stops>>

-----------------------------------------------------------------------------
(* The servers.                                                            *)

ServerStops(srv) ==
  /\ stops < MaxStops /\ srv \in Servers /\ s.up[srv]
  /\ s' = Stopped(s, srv) /\ stops' = stops + 1
  /\ UNCHANGED <<case, phase, ready, node, edit, orig>>

ServerStarts(srv) ==
  /\ ~s.up[srv]
  /\ s' = [s EXCEPT !.up[srv] = TRUE]
  /\ UNCHANGED <<case, phase, ready, node, edit, orig, stops>>

LinkEdits(c, l, how) == AddLink(c, l) \/ DeleteLink(c, l, how) \/ EditLink(c, l)
EditLevel(c, how) ==
  SetLink(c) \/ (\E k \in Links \cup {Other} : SetInterface(c, k)) \/ Cancel(c) \/ Quit(c) \/ Commit(c, how)
TopologyCmds(c, how) ==
  \/ \E srv \in Servers : OriginateCmd(c, srv, how) \/ DeleteCmd(c, srv, how)
  \/ SetTopology(c, how) \/ RefreshInterval(c, how) \/ ConnectCmd(c, how) \/ DisconnectCmd(c)

Inputs == case.sessions \cup (IF case.lsps THEN {"broker"} ELSE {})
Timers == \E srv \in Servers, how \in Hows : \E d \in Cuts(s) : Refresh(srv, how, d)
Main   == Boot \/ \E how \in Hows : \E d \in Cuts(s) : PollReady(how, d) \/ TerceBoot(how, d)

Next ==
  \/ Main
  \/ Timers
  \/ \E B \in SUBSET Inputs : Select(B)
  \/ RunReader \/ RunTerceReader
  \/ \E l \in Links, how \in Hows : Broker(l, how)
  \/ \E c \in Sessions, how \in Hows :
       (\E l \in Links : LinkEdits(c, l, how)) \/ EditLevel(c, how) \/ TopologyCmds(c, how)
  \/ \E srv \in Servers : ServerStops(srv) \/ ServerStarts(srv)

Spec == Init /\ [][Next]_vars

-----------------------------------------------------------------------------
(* Properties.                                                             *)

TypeOK ==
  /\ case \in Cases /\ s.z \in Client /\ s.where \in {"reads", "ready", "none"}
  /\ s.watched \subseteq Conns /\ s.open \subseteq Conns /\ s.reg \subseteq s.peer
  /\ s.it \in [Items -> [in : BOOLEAN, hide : BOOLEAN, id : Ids, ver : Content]]
  /\ phase \in {"boot", "poll", "terce", "run", "exit"}
  /\ ready \subseteq Sessions \cup {"broker", "ospf", "terce"}
  /\ orig.timers \in 0 .. 2 /\ stops \in 0 .. MaxStops

Connected(srv) == IF srv = "ospf" THEN Usable(s) /\ s.z.wfd \in s.reg
                  ELSE s.ready /\ s.tpeer
Repeats == {"originate", "connect", "set topology"}
Only(srv) == Servers = {srv}
OspfOnly  == Only("ospf")

(* Unless an operator originates the topology once more than it has been   *)
(* deleted, every LSA at the OSPF daemon belongs to an item that is not    *)
(* hidden and has the opaque ID that this item has on record, so that the  *)
(* next DeleteTopology or "delete link" finds it.  At a TERCE this does    *)
(* not hold: see Withdrawn.                                                *)
NothingStale ==
  OspfOnly /\ case.cmds \cap (Repeats \cup {"disconnect"}) = {} =>
    \A l \in s.lsdb["ospf"] :
      s.it[l.item].in /\ ~s.it[l.item].hide /\ s.it[l.item].id = l.id

(* As long as NARB's connection is good, every item that is not hidden has *)
(* an LSA with its opaque ID; in dynamic mode the LSA says what is on      *)
(* record of the link, whoever changed it, an LSP or an operator.          *)
NothingMissing ==
  \A srv \in Servers :
    Only(srv) /\ Connected(srv) /\ phase = "run" /\ "set if" \notin case.cmds =>
      \A x \in Items : s.it[x].in /\ ~s.it[x].hide =>
        \E l \in s.lsdb[srv] : /\ l.item = x /\ l.id = s.it[x].id
                               /\ Dynamic => l.ver = s.it[x].ver

(* The two together: the server has what is on record, and the OSPF daemon  *)
(* nothing else (DomainTopologyOriginator: UpdateTeLink, DeleteTopology,   *)
(* OriginateTopology).                                                     *)
ShowsTopology == NothingStale /\ NothingMissing

(* "delete topology terce", executed on a good connection, leaves no LSA   *)
(* of NARB there ("deleted abstract topology from TERCE server", cli.cc).  *)
Withdrawn ==
  [][\A c \in Sessions, how \in Hows :
       Connected("terce") /\ DeleteCmd(c, "terce", how) => s'.lsdb["terce"] = {}]_vars

(* Refreshing the topology, losing the daemon at any of the messages of a  *)
(* refresh, and editing links while the daemon is there never make NARB    *)
(* use a client, a writer, a link or an originator that is not there.      *)
(* There is one end that they may bring, and only when the daemon has      *)
(* stopped: the assertion of ReaderHasSocket.                              *)
Orderly ==
  /\ OspfOnly /\ Cardinality(case.sessions) <= 1
  /\ case.cmds \subseteq {"add", "delete", "edit", "interval", "delete topology", "originate"}
  /\ MaxStops > 0 => case.cmds \cap {"delete", "edit"} = {}
Survives ==
  Orderly => s.crash = "none" \/ (s.crash = "reader without socket" /\ stops > 0)

(* The reader runs with a socket: assert(fd > 0), ZebraOspfReader::Run.     *)
(* A request that meets the end of the stream after select() has found     *)
(* this reader ready, and before it runs, has closed the socket.           *)
ReaderHasSocket == s.crash # "reader without socket"

(* In static mode what LSPs do to a link does reach its LSA: with the next *)
(* refresh.                                                                *)
Current == \A x \in Items : s.it[x].in /\ ~s.it[x].hide =>
             \E l \in s.lsdb["ospf"] : l.item = x /\ l.ver = s.it[x].ver
Refreshed == OspfOnly /\ MaxStops = 0 /\ case.cmds = {} => []<>Current

(* A daemon that has come back is connected again by the next refresh,     *)
(* unless a request has met the end of the old connection before the       *)
(* reader did, and left the loop with a closed socket.                     *)
Reconnects == OspfOnly /\ case.cmds = {} =>
  (<>[](Up(s) /\ Running /\ ~Deaf(s)) => <>[]Usable(s))
=============================================================================
