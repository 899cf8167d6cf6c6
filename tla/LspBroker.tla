------------------------------ MODULE LspBroker ------------------------------
(***************************************************************************)
(* The LSP brokers of a chain of domains 1 .. N (narb/lsp_broker.cc).  An  *)
(* application asks the NARB of domain 1 for a path; every NARB asks its   *)
(* RCE for the part of the path in its domain and the NARB of the next     *)
(* domain for the rest, keeps a query record (LSPQ) per GRI, and relays    *)
(* the confirmation and the release of the LSP down the chain.             *)
(*                                                                         *)
(* A handler of class LSPQ is an operator on an effect: the LSPQ and what  *)
(* the handler has posted so far.  One event, a message that one NARB      *)
(* reads, is one action: the programs are single threaded.  The RCEs are   *)
(* reduced to what they hold for a GRI; LinkDelta has the detail.          *)
(*                                                                         *)
(* "Faults" names the disturbances that a run admits:                      *)
(*   "retry"    the application sends a request again that is not answered *)
(*              yet                                                        *)
(*   "again"    and one that was answered with an error                    *)
(*   "reask"    and one that was answered with a path                      *)
(*   "early"    it releases an LSP it has not confirmed                    *)
(*   "repeat"   it sends a release again that is not confirmed yet         *)
(*   "twice"    it sends a confirmation or a release again while the first *)
(*              one is under way                                           *)
(*   "noroute"  an RCE may find no path                                    *)
(*   "nomerge"  the ERO of the next domain may not merge                   *)
(*   "expire"   query holds may expire at the RCEs                         *)
(*   "rce", "narb", "app"  an RCE or a NARB stops and starts again; the    *)
(*              connection of the application breaks                       *)
(***************************************************************************)
EXTENDS Integers, Sequences, FiniteSets, SequencesExt, FiniteSetsExt

CONSTANTS
  N,          (* number of domains in the chain                            *)
  Dests,      (* the domains that destinations lie in                      *)
  Gri,        (* requests: pairs (ucid, seqnum)                            *)
  Qconf,      (* those with LSP_OPT_QUERY_CONFIRM                          *)
  Tags,       (* VLAN tags                                                 *)
  Borders,    (* inter-domain links a path may leave a domain by           *)
  Fallback,   (* routing_mode: RT_MODE_MIXED_ALLOWED or ALL_STRICT_ONLY    *)
  MaxBw,      (* bandwidth of the inter-domain links, in LSPs              *)
  MaxRetran,  (* MAX_REQ_RETRAN                                            *)
  MaxSends,   (* bound: messages an application sends per GRI              *)
  MaxFaults,  (* bound: crashes and disconnections                         *)
  Faults      (* the disturbances admitted, see above                      *)

FaultNames == {"retry", "again", "reask", "early", "repeat", "twice",
               "noroute", "nomerge", "expire", "rce", "narb", "app"}

ASSUME BrokerAssumption ==
  /\ N \in Nat \ {0} /\ Dests # {} /\ Dests \subseteq 1 .. N /\ MaxBw \in Nat /\ MaxRetran \in Nat
  /\ MaxSends \in Nat /\ MaxFaults \in Nat
  /\ IsFiniteSet(Gri) /\ Qconf \subseteq Gri
  /\ IsFiniteSet(Tags) /\ Tags # {} /\ Tags \subseteq Nat \ {0}
  /\ Borders # {} /\ "app" \notin Borders /\ Fallback \in BOOLEAN /\ Faults \subseteq FaultNames

Dom == 1 .. N
AnyTag == 0                         (* ANY_VTAG                            *)

States == {"IDLE", "APP_REQ", "REQ_RECURSIVE", "RCE_REPLY", "ERO_PARTIAL",
           "NEXT_HOP_NARB_REPLY", "ERROR", "ERO_COMPLETE", "WITH_ID",
           "RESV_CONFIRM", "RESV_RELEASE", "RELEASE_CONFIRM"}

(* An LSPQ: its state, the tag and the tag mask, the tag suggested by the  *)
(* previous domain, the link it was asked from (mrn_spec), the broker of   *)
(* the previous NARB, the retransmissions left, and the last domain that   *)
(* its ERO has strict hops in (0: no ERO).                                 *)
NoLspq == [st |-> "none"]
Lspq == [st : States, tag : Tags \cup {AnyTag}, mask : SUBSET Tags,
         sug : Tags \cup {AnyTag}, via : Borders \cup {"app"}, prev : Nat,
         retran : 0 .. MaxRetran, ero : 0 .. N]
NewLspq == [st |-> "IDLE", tag |-> AnyTag, mask |-> {}, sug |-> AnyTag,
            via |-> "app", prev |-> 0, retran |-> MaxRetran, ero |-> 0]

Hold == [kind : {"none", "held", "reserved"}, tag : Tags \cup {AnyTag}]
NoHold == [kind |-> "none", tag |-> AnyTag]

VARIABLES
  q,        (* q[i][g]: the LSPQ of g at NARB i, or NoLspq                 *)
  up,       (* up[i]: messages on the way to NARB i from its client        *)
  dn,       (* dn[i]: replies on the way from NARB i to its client         *)
  toRce,    (* messages on the way to the RCE of i                         *)
  fromRce,  (* and back                                                    *)
  rcli,     (* the RCE client of NARB i: "none", "up", or "stale": it is   *)
            (* taken to be alive but has no connection                     *)
  conn,     (* NARBs with a connection to the NARB of the next domain      *)
  bw,       (* bandwidth that NARB i has on record for its links           *)
  hold,     (* hold[i][g]: what the RCE of i holds for g                   *)
  live,     (* the RCEs that run                                           *)
  lspb,     (* lspb_id of the broker that serves the client of NARB i      *)
  app,      (* the application: how far g is, tag and ERO, where it goes   *)
  sends,    (* messages sent for g, bounded by MaxSends                    *)
  faults    (* crashes and disconnections so far, bounded by MaxFaults     *)

chans == <<up, dn, toRce, fromRce>>
narbs == <<q, rcli, conn, bw, lspb>>
apps  == <<app, sends>>
vars  == <<q, up, dn, toRce, fromRce, rcli, conn, bw, hold, live, lspb, app,
           sends, faults>>

-----------------------------------------------------------------------------
(* Effects.                                                                *)

Stay(i, l) == [l |-> l, rce |-> <<>>, rcli |-> rcli[i], peer |-> <<>>,
               conn |-> i \in conn, client |-> <<>>, bw |-> bw[i]]

State(f, st)  == [f EXCEPT !.l.st = st]
Reply(f, m)   == [f EXCEPT !.client = Append(@, m)]
Reaches(i, f) == f.rcli # "none" \/ i \in live
Posted(f, c, m) == [f EXCEPT !.rcli = c, !.rce = IF c = "up" THEN Append(@, m) ELSE @]

(* A query connects the RCE client if need be and drops it on failure.  A  *)
(* notification does not drop it: its socket number stays, and IsAlive().  *)
Query(f, g, mask, id) ==
  Posted(f, IF f.rcli = "none" THEN "up" ELSE f.rcli,
         [type |-> "QUERY", gri |-> g, mask |-> mask, tag |-> AnyTag, lspb |-> id])
Notify(i, f, type, g, tag) ==
  Posted(f, IF f.rcli # "none" THEN f.rcli ELSE IF i \in live THEN "up" ELSE "stale",
         [type |-> type, gri |-> g, mask |-> {}, tag |-> tag, lspb |-> 0])

Answer(type, g, l) ==
  [type |-> type, gri |-> g, tag |-> l.tag, lspb |-> l.prev, ero |-> l.ero,
   mask |-> IF type = "ERO" THEN l.mask ELSE {}]

-----------------------------------------------------------------------------
(* The handlers of LSPQ.                                                   *)

(* Mutants: the hold is kept; there is no answer.                          *)
HandleErrorCode_KeepsHold(i, g, f) ==
  Reply(State(f, "ERROR"), Answer("ERROR", g, f.l))
HandleErrorCode_Silent(i, g, f) == State(f, "ERROR")

(* Having proceeded into the next domain, the resources held are released. *)
HandleErrorCode(i, g, f) ==
  LET h == IF f.l.st = "NEXT_HOP_NARB_REPLY" /\ f.l.ero # 0
           THEN Notify(i, f, "DELETE", g, AnyTag) ELSE f
  IN  Reply(State(h, "ERROR"), Answer("ERROR", g, f.l))

HandleCompleteERO(g, f) == Reply(State(f, "ERO_COMPLETE"), Answer("ERO", g, f.l))

(* A recursive query gets the confirmation ID alone, the first one the ERO.*)
HandleCompleteEROWithConfirmationID(g, f) ==
  Reply(State(f, "WITH_ID"),
        Answer(IF f.l.via = "app" THEN "ERO" ELSE "ID", g, f.l))

HandleLSPQRequest(i, g, f) ==
  LET s == State(f, "APP_REQ")
  IN  IF Reaches(i, s) THEN Query(s, g, s.l.mask, lspb[i])
                       ELSE HandleErrorCode(i, g, s)

HandleRecursiveRequest(i, g, f) ==
  LET s == State(f, "REQ_RECURSIVE")
  IN  IF Reaches(i, s) THEN Query(s, g, s.l.mask, lspb[i])
                       ELSE HandleErrorCode(i, g, s)

(* pok: the NARB of the next domain can be connected to.                   *)
HandlePartialERO(i, g, f, via, pok) ==
  LET s == State(f, "ERO_PARTIAL")
  IN  IF pok
      THEN [s EXCEPT !.conn = TRUE,
                     !.peer = Append(@, [type |-> "PEER_REQUEST", gri |-> g,
                                         via |-> via, mask |-> s.l.mask,
                                         tag |-> s.l.tag, lspb |-> lspb[i], ero |-> 0])]
      ELSE HandleErrorCode(i, g, s)

(* The tag suggested by the previous domain if it is free here, else the   *)
(* one that the RCE has picked.                                            *)
Chosen(l, r) == IF l.sug \in r.mask THEN l.sug
                ELSE IF l.tag = AnyTag THEN r.tag ELSE l.tag

Closed == {"RESV_CONFIRM", "RESV_RELEASE", "RELEASE_CONFIRM"}
Dropped_Never(l) == FALSE  (* a mutant: a late reply is not dropped *)
Dropped(l) == l.st \in Closed

HandleRCEReply(i, g, f, r, pok) ==
  LET s == [State(f, "RCE_REPLY") EXCEPT !.l.mask = r.mask]
      e == [s EXCEPT !.l.tag = Chosen(f.l, r), !.l.ero = i]
  IN  IF Dropped(f.l) THEN f
      ELSE IF r.type = "ERROR" THEN HandleErrorCode(i, g, s)
      ELSE IF i < app[g].dest THEN HandlePartialERO(i, g, e, r.via, pok)
      ELSE IF g \in Qconf THEN HandleCompleteEROWithConfirmationID(g, e)
      ELSE HandleCompleteERO(g, e)

CannotExpand(i, g, f) ==
  IF Fallback /\ g \notin Qconf THEN HandleCompleteERO(g, f)
                                ELSE HandleErrorCode(i, g, f)

Updated_Never(i, g, f, r) == [f EXCEPT !.l.tag = r.tag]  (* a mutant *)

(* The tag picked by the next domain is held here as well.                 *)
Updated(i, g, f, r) ==
  LET t == [f EXCEPT !.l.tag = r.tag]
  IN  IF t.l.mask # {} THEN Notify(i, t, "UPDATE", g, r.tag) ELSE t

(* merged: MergeERO has succeeded.                                         *)
HandleNextHopNARBReply(i, g, f, r, merged) ==
  LET s == State(f, "NEXT_HOP_NARB_REPLY")
      m(h) == [h EXCEPT !.l.mask = r.mask]
      t == [m(s) EXCEPT !.l.tag = r.tag]
  IN  CASE r.type = "ERROR" -> CannotExpand(i, g, m(s))
        [] r.type = "ERO" -> IF f.l.ero = 0 THEN HandleErrorCode(i, g, t)
                             ELSE IF merged
                             THEN HandleCompleteERO(g, [t EXCEPT !.l.ero = r.ero])
                             ELSE CannotExpand(i, g, t)
        [] OTHER -> HandleCompleteEROWithConfirmationID(g, m(Updated(i, g, s, r)))

(* LookupPeerNarbByERO: only an ERO that has strict hops in the next       *)
(* domain leads there.                                                     *)
Relayed_Never(i, m) == FALSE  (* a mutant *)
Relayed(i, m) == m.ero > i
Relay(f, m)   == [f EXCEPT !.conn = TRUE, !.peer = Append(@, m)]

Granted  == {"ERO_COMPLETE", "WITH_ID"}
Taken(b) == IF b = 0 THEN 0 ELSE b - 1
Freed(b) == IF b = MaxBw THEN b ELSE b + 1

Confirmable_Again(l) == l.st \in Granted \cup {"RESV_CONFIRM"}  (* a mutant *)
Confirmable(l) == l.st \in Granted

HandleResvConfirm(i, g, f, m, pok) ==
  LET s == [State(f, "RESV_CONFIRM") EXCEPT !.bw = Taken(@)]
      n == Notify(i, s, "CONFIRM", g, m.tag)
  IN  IF ~Confirmable(f.l) THEN f
      ELSE IF ~Relayed(i, m) THEN n
      ELSE IF pok THEN Relay(n, m)
      ELSE State(HandleErrorCode(i, g, n), "RESV_CONFIRM")

HandleResvReleaseConfirm_Silent(g, f) == State(f, "RELEASE_CONFIRM")  (* a mutant *)
HandleResvReleaseConfirm(g, f) ==
  Reply(State(f, "RELEASE_CONFIRM"), Answer("RELEASED", g, f.l))

Releasable_Always(l) == TRUE  (* mutants *)
Releasable_OnlyGranted(l) == l.st \in Granted
Releasable(l) == l.st \in Granted \cup {"RESV_CONFIRM"}

(* ret: as the code leaves it, the outcome of the last Connect. An empty   *)
(* ERO, of an application that releases before it has got one, is not      *)
(* handled, and not answered.                                              *)
HandleResvRelease(i, g, f, m, pok) ==
  LET c == State(f, "RESV_RELEASE")
      s == [c EXCEPT !.bw = Freed(@)]
      n == Notify(i, s, "DELETE", g, m.tag)
      ret == Reaches(i, s) \/ (Relayed(i, m) /\ ~f.conn)
      out == IF Relayed(i, m) THEN Relay(n, m) ELSE n
  IN  IF ~Releasable(f.l) THEN HandleResvReleaseConfirm(g, f)
      ELSE IF m.ero = 0 THEN c
      ELSE IF Relayed(i, m) /\ ~pok THEN HandleErrorCode(i, g, n)
      ELSE IF ret THEN HandleResvReleaseConfirm(g, out)
      ELSE out

(* LSP_Broker::HandleMessage.                                              *)
AppRequest(i, g, f) ==
  LET l == f.l
      s == [f EXCEPT !.l.tag = AnyTag, !.l.mask = {}]
  IN  CASE l.st = "none" -> HandleLSPQRequest(i, g, [f EXCEPT !.l = NewLspq])
        [] l.st = "ERROR" ->
             IF l.retran > 0
             THEN HandleLSPQRequest(i, g, [s EXCEPT !.l.retran = @ - 1])
             ELSE HandleErrorCode(i, g, s)
        [] l.st \in Granted -> HandleLSPQRequest(i, g, s)
        [] OTHER -> s

(* The same request is already served for the same previous domain.        *)
PingPong(l, m) == l.st # "none" /\ l.via = m.via

PeerRequest(i, g, f, m) ==
  LET old == IF f.l.st = "none" THEN NewLspq ELSE f.l
      l   == [old EXCEPT !.tag = AnyTag, !.mask = m.mask, !.sug = m.tag,
                         !.via = m.via, !.prev = m.lspb]
  IN  IF PingPong(f.l, m)
      THEN Reply(f, Answer("ERROR", g, [NewLspq EXCEPT !.prev = m.lspb]))
      ELSE HandleRecursiveRequest(i, g, [f EXCEPT !.l = l])

Handled(i, m, f, pok) ==
  CASE m.type = "REQUEST"      -> AppRequest(i, m.gri, f)
    [] m.type = "PEER_REQUEST" -> PeerRequest(i, m.gri, f, m)
    [] m.type = "CONFIRM"      -> IF f.l.st = "none" THEN f
                                  ELSE HandleResvConfirm(i, m.gri, f, m, pok)
    [] m.type = "REMOVE"       -> IF f.l.st = "none" THEN f
                                  ELSE HandleResvRelease(i, m.gri, f, m, pok)

-----------------------------------------------------------------------------
(* Events of NARB i.  u, d and r are the channels without the message that *)
(* is being handled.                                                       *)

Commit(i, g, f, u, d, r) ==
  /\ q' = [q EXCEPT ![i][g] = f.l]
  /\ up' = IF i < N THEN [u EXCEPT ![i + 1] = @ \o f.peer] ELSE u
  /\ dn' = [d EXCEPT ![i] = @ \o f.client]
  /\ toRce' = [toRce EXCEPT ![i] = @ \o f.rce]
  /\ fromRce' = r
  /\ rcli' = [rcli EXCEPT ![i] = f.rcli]
  /\ conn' = IF f.conn THEN conn \cup {i} ELSE conn
  /\ bw' = [bw EXCEPT ![i] = f.bw]
  /\ UNCHANGED <<hold, live, lspb, app, sends, faults>>

(* Whether a connection to the next NARB can be had: it is there, or, in   *)
(* runs where NARBs stop, an attempt to connect fails or succeeds.         *)
PeerOk(i) == IF i \in conn \/ "narb" \notin Faults THEN {TRUE} ELSE BOOLEAN

ReadMessage(i) ==
  /\ up[i] # <<>>
  /\ LET m == Head(up[i])
     IN  \E pok \in PeerOk(i) :
           Commit(i, m.gri, Handled(i, m, Stay(i, q[i][m.gri]), pok),
                  [up EXCEPT ![i] = Tail(@)], dn, fromRce)

(* A reply finds its LSPQ by GRI and the broker that asked.                *)
ReadRCEReply(i) ==
  /\ fromRce[i] # <<>>
  /\ LET r == Head(fromRce[i])
         l == q[i][r.gri]
         f == Stay(i, l)
     IN  \E pok \in PeerOk(i) :
           Commit(i, r.gri,
                  IF l.st = "none" \/ r.lspb # lspb[i] THEN f
                  ELSE HandleRCEReply(i, r.gri, f, r, pok),
                  up, dn, [fromRce EXCEPT ![i] = Tail(@)])

ReadPeerReply(i) ==
  /\ i < N /\ dn[i + 1] # <<>>
  /\ LET r == Head(dn[i + 1])
         l == q[i][r.gri]
         f == Stay(i, l)
     IN  \E merged \in IF "nomerge" \in Faults THEN BOOLEAN ELSE {TRUE} :
           Commit(i, r.gri,
                  IF l.st = "none" \/ r.lspb # lspb[i] \/ r.type = "RELEASED" THEN f
                  ELSE HandleNextHopNARBReply(i, r.gri, f, r, merged),
                  up, [dn EXCEPT ![i + 1] = Tail(@)], fromRce)

-----------------------------------------------------------------------------
(* The RCE of domain i.                                                    *)

RceQuery(i, m) ==
  \/ /\ "noroute" \in Faults
     /\ fromRce' = [fromRce EXCEPT ![i] = Append(@,
          [type |-> "ERROR", gri |-> m.gri, tag |-> AnyTag, mask |-> {},
           via |-> "app", lspb |-> m.lspb])]
     /\ hold' = [hold EXCEPT ![i][m.gri] = NoHold]
  \/ \E free \in SUBSET Tags, via \in Borders :
       LET mask == IF m.mask = {} THEN free ELSE free \cap m.mask
       IN  /\ mask # {}
           /\ fromRce' = [fromRce EXCEPT ![i] = Append(@,
                [type |-> "ERO", gri |-> m.gri, tag |-> Min(mask), mask |-> mask,
                 via |-> via, lspb |-> m.lspb])]
           /\ hold' = [hold EXCEPT ![i][m.gri] = [kind |-> "held", tag |-> Min(mask)]]

RceNotified(m) ==
  CASE m.type = "UPDATE"  -> [kind |-> "held", tag |-> m.tag]
    [] m.type = "CONFIRM" -> [kind |-> "reserved", tag |-> m.tag]
    [] m.type = "DELETE"  -> NoHold

RceServe(i) ==
  /\ toRce[i] # <<>>
  /\ toRce' = [toRce EXCEPT ![i] = Tail(@)]
  /\ LET m == Head(toRce[i])
     IN  IF m.type = "QUERY" THEN RceQuery(i, m)
         ELSE /\ hold' = [hold EXCEPT ![i][m.gri] = RceNotified(m)]
              /\ UNCHANGED fromRce
  /\ UNCHANGED <<up, dn, narbs, live, apps, faults>>

Expire(i, g) ==
  /\ "expire" \in Faults /\ hold[i][g].kind = "held"
  /\ hold' = [hold EXCEPT ![i][g] = NoHold]
  /\ UNCHANGED <<chans, narbs, live, apps, faults>>

-----------------------------------------------------------------------------
(* The application.                                                        *)

Send(g, type, st) ==
  /\ up' = [up EXCEPT ![1] = Append(@, [type |-> type, gri |-> g, via |-> "app",
              mask |-> {}, tag |-> app[g].tag, lspb |-> 0, ero |-> app[g].ero])]
  /\ app' = [app EXCEPT ![g].st = st]
  /\ UNCHANGED <<dn, toRce, fromRce, narbs, hold, live, faults>>

Counted(g) == sends[g] < MaxSends /\ sends' = [sends EXCEPT ![g] = @ + 1]

AppAsk(g) ==
  /\ \/ app[g].st = "idle"
     \/ app[g].st = "failed" /\ "again" \in Faults
     \/ app[g].st = "granted" /\ "reask" \in Faults
  /\ Counted(g)
  /\ Send(g, "REQUEST", "asked")

(* It confirms a path, never an empty ERO.                                 *)
AppConfirm(g) ==
  /\ app[g].st = "granted" /\ app[g].ero # 0
  /\ Counted(g)
  /\ Send(g, "CONFIRM", "confirmed")

AppRelease(g) ==
  /\ \/ app[g].st = "confirmed"
     \/ app[g].st \in {"asked", "granted", "failed"} /\ "early" \in Faults
  /\ Counted(g)
  /\ Send(g, "REMOVE", "leaving")

(* It sends its last message again, however far the first one has come: the*)
(* second may find the LSPQ before, at or after what the first one does.   *)
AppRepeat(g) ==
  /\ "twice" \in Faults /\ Counted(g)
  /\ \/ app[g].st = "confirmed" /\ Send(g, "CONFIRM", "confirmed")
     \/ app[g].st = "leaving" /\ Send(g, "REMOVE", "leaving")

(* No answer yet: the message is sent again, if there is none of g on the  *)
(* connection (a bound).                                                   *)
AppRetransmit(g) ==
  /\ SelectSeq(up[1] \o dn[1], LAMBDA m : m.gri = g) = <<>>
  /\ \/ app[g].st = "asked" /\ "retry" \in Faults /\ Send(g, "REQUEST", "asked")
     \/ app[g].st = "leaving" /\ "repeat" \in Faults /\ Send(g, "REMOVE", "leaving")
  /\ UNCHANGED sends

Told(a, m) ==
  CASE m.type = "ERO" /\ a.st = "asked" ->
         [a EXCEPT !.st = "granted", !.tag = m.tag, !.ero = m.ero]
    [] m.type = "ERROR" /\ a.st = "asked" -> [a EXCEPT !.st = "failed"]
    [] m.type = "RELEASED" /\ a.st = "leaving" -> [a EXCEPT !.st = "done"]
    [] OTHER -> a

AppRead ==
  /\ dn[1] # <<>>
  /\ LET m == Head(dn[1])
     IN  app' = [app EXCEPT ![m.gri] = Told(@, m)]
  /\ dn' = [dn EXCEPT ![1] = Tail(@)]
  /\ UNCHANGED <<up, toRce, fromRce, narbs, hold, live, sends, faults>>

-----------------------------------------------------------------------------
(* Failures.  The broker of a broken connection is deleted with its LSPQs. *)

NoneOf == [g \in Gri |-> NoLspq]
Fault(name) == name \in Faults /\ faults < MaxFaults /\ faults' = faults + 1

RceStop(i) ==
  /\ Fault("rce") /\ i \in live
  /\ live' = live \ {i}
  /\ hold' = [hold EXCEPT ![i] = [g \in Gri |-> NoHold]]
  /\ toRce' = [toRce EXCEPT ![i] = <<>>]
  /\ fromRce' = [fromRce EXCEPT ![i] = <<>>]
  /\ rcli' = [rcli EXCEPT ![i] = IF @ = "up" THEN "none" ELSE @]
  /\ UNCHANGED <<up, dn, q, conn, bw, lspb, apps>>

RceStart(i) ==
  /\ i \notin live
  /\ live' = live \cup {i}
  /\ UNCHANGED <<chans, narbs, hold, apps, faults>>

(* What the application has not confirmed it asks for anew on its next     *)
(* connection.                                                             *)
Disconnected == [g \in Gri |-> IF app[g].st \in {"asked", "granted", "failed"}
                               THEN [app[g] EXCEPT !.st = "idle"] ELSE app[g]]

(* NARB i stops and is started again, and counts its brokers anew; the one *)
(* of the next NARB that has served it makes room for another.             *)
NarbRestart(i) ==
  /\ Fault("narb")
  /\ q' = [j \in Dom |-> IF j \in {i, i + 1} THEN NoneOf ELSE q[j]]
  /\ up' = [j \in Dom |-> IF j \in {i, i + 1} THEN <<>> ELSE up[j]]
  /\ dn' = [j \in Dom |-> IF j \in {i, i + 1} THEN <<>> ELSE dn[j]]
  /\ toRce' = [toRce EXCEPT ![i] = <<>>]
  /\ fromRce' = [fromRce EXCEPT ![i] = <<>>]
  /\ rcli' = [rcli EXCEPT ![i] = "none"]
  /\ conn' = conn \ {i - 1, i}
  /\ bw' = [bw EXCEPT ![i] = MaxBw]
  /\ lspb' = [j \in Dom |-> IF j = i THEN j ELSE IF j = i + 1 THEN lspb[j] + 1 ELSE lspb[j]]
  /\ app' = IF i = 1 THEN Disconnected ELSE app
  /\ UNCHANGED <<hold, live, sends>>

(* The application's connection breaks and it connects again.              *)
AppReconnect ==
  /\ Fault("app")
  /\ q' = [q EXCEPT ![1] = NoneOf]
  /\ up' = [up EXCEPT ![1] = <<>>]
  /\ dn' = [dn EXCEPT ![1] = <<>>]
  /\ lspb' = [lspb EXCEPT ![1] = @ + 1]
  /\ app' = Disconnected
  /\ UNCHANGED <<toRce, fromRce, rcli, conn, bw, hold, live, sends>>

-----------------------------------------------------------------------------
Init ==
  /\ q = [i \in Dom |-> NoneOf]
  /\ up = [i \in Dom |-> <<>>]
  /\ dn = [i \in Dom |-> <<>>]
  /\ toRce = [i \in Dom |-> <<>>]
  /\ fromRce = [i \in Dom |-> <<>>]
  /\ rcli = [i \in Dom |-> "none"]
  /\ conn = {}
  /\ bw = [i \in Dom |-> MaxBw]
  /\ hold = [i \in Dom |-> [g \in Gri |-> NoHold]]
  /\ live = Dom
  /\ lspb = [i \in Dom |-> i]
  /\ app \in [Gri -> {[st |-> "idle", tag |-> AnyTag, ero |-> 0, dest |-> d] : d \in Dests}]
  /\ sends = [g \in Gri |-> 0]
  /\ faults = 0

Next ==
  \/ \E i \in Dom : ReadMessage(i)
  \/ \E i \in Dom : ReadRCEReply(i)
  \/ \E i \in Dom : ReadPeerReply(i)
  \/ \E i \in Dom : RceServe(i)
  \/ \E i \in Dom, g \in Gri : Expire(i, g)
  \/ \E g \in Gri : AppAsk(g)
  \/ \E g \in Gri : AppConfirm(g)
  \/ \E g \in Gri : AppRelease(g)
  \/ \E g \in Gri : AppRepeat(g)
  \/ \E g \in Gri : AppRetransmit(g)
  \/ AppRead
  \/ \E i \in Dom : RceStop(i)
  \/ \E i \in Dom : RceStart(i)
  \/ \E i \in Dom : NarbRestart(i)
  \/ AppReconnect

Spec == Init /\ [][Next]_vars

-----------------------------------------------------------------------------
(* Properties.                                                             *)

AppView == [st : {"idle", "asked", "granted", "confirmed", "leaving", "done", "failed"},
            tag : Tags \cup {AnyTag}, ero : 0 .. N, dest : Dests]

(* The type of the records that handlers leave behind; bw within the link. *)
TypeOK ==
  /\ \A i \in Dom, g \in Gri : q[i][g] \in Lspq \cup {NoLspq}
  /\ rcli \in [Dom -> {"none", "up", "stale"}]
  /\ conn \subseteq Dom
  /\ bw \in [Dom -> 0 .. MaxBw]
  /\ hold \in [Dom -> [Gri -> Hold]]
  /\ live \subseteq Dom
  /\ app \in [Gri -> AppView]

Silent(ch, g) == \A i \in Dom : \A k \in 1 .. Len(ch[i]) : ch[i][k].gri # g
Quiet(g) == Silent(up, g) /\ Silent(dn, g) /\ Silent(toRce, g) /\ Silent(fromRce, g)

(* However often confirmations and releases are repeated, the bandwidth    *)
(* that a NARB has on record for its links is what the LSPs confirmed and  *)
(* not released leave (HandleResvConfirm, HandleResvRelease). It is not    *)
(* when an LSP is released that was not confirmed, which gives back what   *)
(* it never took, nor after a connection has broken.                       *)
BandwidthAccounted ==
  \A i \in Dom :
    bw[i] = MaxBw - Cardinality({g \in Gri : q[i][g].st = "RESV_CONFIRM"})

(* If something stops, a NARB has no more bandwidth on record than the LSPs*)
(* confirmed leave.  (It may have less: the LSPQs of a broken connection   *)
(* go without the bandwidth of their LSPs being put back.  It may have     *)
(* more after two failures, with two links to the next domain: the LSPQ    *)
(* there is asked twice, its second answer revives the LSPQ of a release   *)
(* whose confirmation is lost, and the release sent again counts again.)   *)
BandwidthNotOverstated ==
  \A i \in Dom :
    bw[i] <= MaxBw - Cardinality({g \in Gri : q[i][g].st = "RESV_CONFIRM"})

(* An LSP that the application has confirmed is confirmed in every domain  *)
(* its ERO goes through, and its hold has become a reservation of the tag  *)
(* it was granted (HandleResvConfirm relays, the RCE notification).        *)
ConfirmedEverywhere ==
  \A g \in Gri : app[g].st = "confirmed" /\ Quiet(g) =>
    \A i \in 1 .. app[g].ero :
      /\ q[i][g].st = "RESV_CONFIRM"
      /\ hold[i][g] = [kind |-> "reserved", tag |-> app[g].tag]

(* An LSP whose release is confirmed to the application holds nothing in   *)
(* any domain of its ERO and is confirmed in none.                         *)
ReleasedEverywhere ==
  \A g \in Gri : app[g].st = "done" /\ Quiet(g) =>
    \A i \in 1 .. app[g].ero : hold[i][g] = NoHold /\ q[i][g].st # "RESV_CONFIRM"

(* With a confirmation ID, the tag granted to the application is the one   *)
(* that is held for it in every domain: a domain that has held another one *)
(* is told (HandleNextHopNARBReply).  In the other mode it is not told.    *)
TagHeldEverywhere ==
  \A g \in Qconf : app[g].st = "granted" /\ Quiet(g) =>
    \A i \in Dom : hold[i][g].kind = "held" => hold[i][g].tag = app[g].tag

(* A path that could not be completed leaves no hold behind in any domain  *)
(* (HandleErrorCode: "release the currently held resources").              *)
FailureLeavesNoHold ==
  \A g \in Gri : app[g].st = "failed" /\ Quiet(g) =>
    \A i \in Dom : hold[i][g] = NoHold

(* Once its release is confirmed an LSP within one domain does not come to *)
(* life again: its LSPQ stays closed and no path is on the way to the      *)
(* application.  (HandleRCEReply drops a late reply; HandleNextHopNARBReply*)
(* does not, so that a longer LSP may come to life again.)                 *)
ReleaseIsFinal ==
  \A g \in Gri : app[g].st = "done" /\ app[g].dest = 1 =>
    /\ q[1][g].st \in Closed
    /\ \A k \in 1 .. Len(dn[1]) : dn[1][k].gri = g => dn[1][k].type # "ERO"

(* A request that is repeated, the path having been found, is answered     *)
(* with a path again as long as every RCE finds one ("Re-reply to app with *)
(* the resulting ERO").                                                    *)
RepeatedRequestIsAnsweredAlike ==
  \A g \in Gri : app[g].st # "failed"

(* An application gets an answer to its request, retransmitted or not.     *)
RequestAnswered == \A g \in Gri : app[g].st = "asked" ~> app[g].st # "asked"

(* And a confirmation of its release.                                      *)
ReleaseAnswered == \A g \in Gri : app[g].st = "leaving" ~> app[g].st = "done"
=============================================================================
