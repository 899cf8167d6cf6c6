------------------------------ MODULE LinkDelta ------------------------------
(***************************************************************************)
(* One TE link of the RCE's resource database (rce/resource.cc, class      *)
(* Link) and its list of link state deltas: the short-lived corrections    *)
(* that path queries, confirmations and releases (rce/rce_lsp.cc) make to  *)
(* the traffic engineering state advertised by OSPF-TE, until the network  *)
(* itself advertises the change.                                           *)
(*                                                                         *)
(* The clients (NARB, and the signalling in the network behind it) are     *)
(* modelled by one status per GRI and the set of LSPs that are in place.   *)
(* "Faults" names the disturbances that a run admits:                      *)
(*   "late"   confirmations, signalling, LSAs and releases may come at     *)
(*            any time, a hold having expired or the LSP still being up    *)
(*   "reuse"  a GRI confirmed, signalled or released is queried again      *)
(*   "retag"  the tag of an ACT_UPDATE may have been taken in the meantime *)
(*   "shadow" the hold falls on a link outside of the topology searched,   *)
(*            because it shares the local interface of a link on the path  *)
(*   "flap"   the LSA of the link is withdrawn and advertised again        *)
(*   "cli"    an operator clears the deltas of the link                    *)
(***************************************************************************)
EXTENDS Integers, FiniteSets, FiniteSetsExt

CONSTANTS
  Gri,            (* global reservation ids: (ucid, seqnum) owners         *)
  Tags,           (* the VLAN tags of the link                             *)
  MaxBw,          (* maxReservableBandwidth                                *)
  Bws,            (* bandwidths asked for                                  *)
  QueryExpire,    (* SystemConfig::delta_expire_query                      *)
  ReserveExpire,  (* SystemConfig::delta_expire_reserve                    *)
  SubnetExpire,   (* SystemConfig::delta_expire_subnet_reserve             *)
  Holdings,       (* holding times a confirmation may carry, 0: none       *)
  MaxDeltas,      (* bound: arrival numbers of the deltas of one owner     *)
  Faults,         (* the disturbances admitted, see above                  *)
  Passers,        (* GRIs that query without LSP_OPT_QUERY_HOLD            *)
  Ghosts          (* GRIs whose client may vanish                          *)

FaultNames == {"late", "reuse", "retag", "shadow", "flap", "cli"}

ASSUME LinkAssumption ==
  /\ IsFiniteSet(Gri) /\ IsFiniteSet(Tags)
  /\ MaxBw \in Nat /\ Bws \subseteq Nat
  /\ QueryExpire \in Nat \ {0} /\ ReserveExpire \in Nat /\ SubnetExpire \in Nat
  /\ Holdings \subseteq Nat
  /\ MaxDeltas \in Nat \ {0}
  /\ Faults \subseteq FaultNames
  /\ Passers \subseteq Gri /\ Ghosts \subseteq Gri

Periods == {QueryExpire, ReserveExpire, SubnetExpire} \cup Holdings
Request == [bw : Bws, tags : {{}} \cup {{t} : t \in Tags}]
TeState == [bw : 0 .. MaxBw, vlan : SUBSET Tags, alloc : SUBSET Tags]
Flags   == {"QUERIED", "RESERVED", "UPDATED"}

(* A LinkStateDelta.  n orders the deltas of an owner in the list; period  *)
(* is the expiration it was inserted with, ttl what is left of it.         *)
Delta == [owner : Gri, n : 1 .. MaxDeltas, bw : Nat, tags : SUBSET Tags,
          flag : Flags, period : Periods, ttl : Nat]

(* What a path reply grants: a bandwidth, the tag picked, and the mask of  *)
(* the tags that were free on the path.                                    *)
Grant == [bw : Nat, tags : SUBSET Tags, mask : SUBSET Tags]

Status == {"idle", "granted", "confirmed", "signalled", "done", "gone"}
Lsp    == [owner : Gri, bw : Nat, tags : SUBSET Tags]

NoLsa == [bw |-> 0, vlan |-> {}, alloc |-> {}, gris |-> {}, sent |-> FALSE]
Lsa   == [bw : 0 .. MaxBw, vlan : SUBSET Tags, alloc : SUBSET Tags,
          gris : SUBSET Gri, sent : BOOLEAN]

VARIABLES
  up,      (* the link is in the resource database                         *)
  te,      (* unreservedBandwidth and the VLAN bit masks of the ISCD       *)
  deltas,  (* pDeltaList                                                   *)
  gris,    (* the DRAGON_GRI attribute of the last LSA                     *)
  lsa,     (* the LSA of the link in flight to the RCE, or NoLsa           *)
  status,  (* how far each GRI has come at its client                      *)
  grant,   (* the request last granted to each GRI by a path reply         *)
  net      (* the LSPs that the network has in place on the link           *)

vars == <<up, te, deltas, gris, lsa, status, grant, net>>

-----------------------------------------------------------------------------
(* Operations of class Link.                                               *)

(* The bandwidth of a set of deltas, or of LSPs: their units are counted.  *)
Units(D)  == UNION {{d} \X (1 .. d.bw) : d \in D}
SumBw(D)  == Cardinality(Units(D))
TagsOf(D) == UNION {d.tags : d \in D}

Of(D, g)    == {d \in D : d.owner = g}
First(D, g) == {d \in Of(D, g) : \A e \in Of(D, g) : d.n <= e.n}
Next1(D, g) == 1 + Max({0} \cup {d.n : d \in Of(D, g)})

(* Link::operator+=, clamped at maxReservableBandwidth.                    *)
Plus(s, D) ==
  LET b == s.bw + SumBw(D)
  IN  [bw |-> IF b > MaxBw THEN MaxBw ELSE b,
       vlan |-> s.vlan \cup TagsOf(D), alloc |-> s.alloc \ TagsOf(D)]

(* Mutants: the clamp is forgotten; only the bandwidth is taken.           *)
Minus_NoClamp(s, D) ==
  [bw |-> s.bw - SumBw(D),
   vlan |-> s.vlan \ TagsOf(D), alloc |-> s.alloc \cup TagsOf(D)]
Minus_BandwidthOnly(s, D) ==
  [s EXCEPT !.bw = IF SumBw(D) > @ THEN 0 ELSE @ - SumBw(D)]

(* Link::operator-=, clamped at 0.                                         *)
Minus(s, D) ==
  LET b == s.bw - SumBw(D)
  IN  [bw |-> IF b < 0 THEN 0 ELSE b,
       vlan |-> s.vlan \ TagsOf(D), alloc |-> s.alloc \cup TagsOf(D)]

NewDelta(D, g, req, flag, period) ==
  [owner |-> g, n |-> Next1(D, g), bw |-> req.bw, tags |-> req.tags,
   flag |-> flag, period |-> period, ttl |-> period]

(* Link::insertDelta: the resources are taken off the link unless the LSA  *)
(* in force already lists the owner.                                       *)
Reduced(s, d) == IF d.owner \in gris THEN s ELSE Minus(s, {d})

(* Mutants: nothing ever expires; all that expires is added back.          *)
Expired_Never(D)         == {}
AddedBack_AllExpired(D)  == {d \in D : d.ttl = 0}

(* Link::deleteExpiredDeltas.                                              *)
Expired(D)     == {d \in D : d.ttl = 0}
AddedBack(D)   == {d \in Expired(D) : d.period \in {QueryExpire, SubnetExpire}}

-----------------------------------------------------------------------------
Init ==
  /\ up = TRUE
  /\ te = [bw |-> MaxBw, vlan |-> Tags, alloc |-> {}]
  /\ deltas = {}
  /\ gris = {}
  /\ lsa = NoLsa
  /\ status = [g \in Gri |-> "idle"]
  /\ grant = [g \in Gri |-> [bw |-> 0, tags |-> {}, mask |-> {}]]
  /\ net = {}

(* A mutant: the requester's own delta stays on the list.                  *)
Swept_KeepsOwn(g) == deltas \ Expired(deltas)

(* The deltas of the link after PCEN::BuildLinkVector has dropped the      *)
(* requester's own delta and the expired ones, and the TE state with them. *)
Swept(g)   == LET D == deltas \ First(deltas, g) IN D \ Expired(D)
SweptTe(g) == LET D == deltas \ First(deltas, g)
              IN  Plus(Plus(te, First(deltas, g)), AddedBack(D))

Feasible_BandwidthOnly(s, req) == req.bw <= s.bw  (* a mutant *)
Granted(req, s)  == [bw |-> req.bw, tags |-> req.tags, mask |-> s.vlan]
Feasible(s, req) == req.bw <= s.bw /\ req.tags \subseteq s.vlan

MayQuery(g) == \/ status[g] = "idle"
               \/ status[g] = "granted"
               \/ "reuse" \in Faults

(* A path query with LSP_OPT_QUERY_HOLD whose path crosses the link.       *)
QueryHold(g, req) ==
  /\ up /\ MayQuery(g) /\ g \notin Passers
  /\ Feasible(SweptTe(g), req)
  /\ Next1(Swept(g), g) \in 1 .. MaxDeltas
  /\ LET d == NewDelta(Swept(g), g, req, "QUERIED", QueryExpire)
     IN  /\ deltas' = Swept(g) \cup {d}
         /\ te' = Reduced(SweptTe(g), d)
  /\ grant' = [grant EXCEPT ![g] = Granted(req, SweptTe(g))]
  /\ status' = [status EXCEPT ![g] = "granted"]
  /\ UNCHANGED <<up, gris, lsa, net>>

(* A path query that finds no path over the link, or finds another one.    *)
(* The hold the same owner had before is gone all the same.                *)
QueryNoHold(g) ==
  /\ up /\ MayQuery(g)
  /\ deltas' = Swept(g)
  /\ te' = SweptTe(g)
  /\ status' = [status EXCEPT ![g] = IF @ = "granted" THEN "idle" ELSE @]
  /\ UNCHANGED <<up, gris, lsa, grant, net>>

(* HandleLinkStateDelta, ACT_QUERY, on a link that BuildLinkVector did not *)
(* visit: a second delta of the owner is only worth a warning.             *)
QueryShadow(g, req) ==
  /\ "shadow" \in Faults
  /\ up /\ MayQuery(g) /\ g \notin Passers
  /\ Next1(deltas, g) \in 1 .. MaxDeltas
  /\ LET d == NewDelta(deltas, g, req, "QUERIED", QueryExpire)
     IN  /\ deltas' = deltas \cup {d}
         /\ te' = Reduced(te, d)
  /\ grant' = [grant EXCEPT ![g] = Granted(req, te)]
  /\ status' = [status EXCEPT ![g] = "granted"]
  /\ UNCHANGED <<up, gris, lsa, net>>

(* The owner's delta is taken off the list, its resources put back, and a  *)
(* new one inserted: ACT_CONFIRM and ACT_UPDATE of HandleLinkStateDelta.   *)
Replace(g, req, flag, period) ==
  LET D == deltas \ First(deltas, g)
      d == NewDelta(D, g, req, flag, period)
  IN  /\ d.n \in 1 .. MaxDeltas
      /\ deltas' = D \cup {d}
      /\ te' = Reduced(Plus(te, First(deltas, g)), d)

OnList(g) == Of(deltas, g) # {}
InNet(g)  == Of(net, g) # {}

(* ACT_CONFIRM.  h = 0: the message carries no holding time.               *)
Confirm(g, h) ==
  /\ up /\ status[g] = "granted"
  /\ "late" \in Faults \/ OnList(g)
  /\ LET period == IF h = 0 THEN ReserveExpire ELSE h
     IN  IF period = 0
         THEN /\ deltas' = deltas \ First(deltas, g)
              /\ UNCHANGED te
         ELSE Replace(g, grant[g], "RESERVED", period)
  /\ status' = [status EXCEPT ![g] = "confirmed"]
  /\ UNCHANGED <<up, gris, lsa, grant, net>>

(* ACT_UPDATE: NARB re-holds with the VLAN tag that the next domain chose  *)
(* from the mask.  Nobody checks that the tag is still free.               *)
Update(g, tags) ==
  LET req == [grant[g] EXCEPT !.tags = tags]
  IN  /\ up /\ status[g] = "granted"
      /\ "late" \in Faults \/ OnList(g)
      /\ tags \subseteq grant[g].mask
      /\ "retag" \in Faults \/ tags \subseteq te.vlan \cup grant[g].tags
      /\ Replace(g, req, "UPDATED", QueryExpire)
      /\ grant' = [grant EXCEPT ![g] = req]
      /\ UNCHANGED <<up, gris, lsa, status, net>>

(* ACT_DELETE: the query is given up or the LSP released.                  *)
Delete(g) ==
  /\ up
  /\ status[g] \in {"granted", "confirmed", "signalled"}
  /\ "late" \in Faults \/ ~InNet(g)
  /\ deltas' = deltas \ First(deltas, g)
  /\ te' = Plus(te, First(deltas, g))
  /\ status' = [status EXCEPT ![g] = IF @ = "granted" THEN "idle" ELSE "done"]
  /\ UNCHANGED <<up, gris, lsa, grant, net>>

(* The client of g (its NARB, or the application behind it) goes away. The *)
(* RCE is not told: what g holds stays on the list.                        *)
Vanish(g) ==
  /\ g \in Ghosts /\ status[g] # "gone"
  /\ status' = [status EXCEPT ![g] = "gone"]
  /\ UNCHANGED <<up, te, deltas, gris, lsa, grant, net>>

(* An operator edits the link, deletes the deltas of the copy and commits  *)
(* it, nothing coming in between (cmd_del_link_delta; for what may come in *)
(* between see ResourceDB).                                                *)
CliDeleteDeltas ==
  /\ "cli" \in Faults
  /\ up /\ deltas # {}
  /\ deltas' = {}
  /\ UNCHANGED <<up, te, gris, lsa, status, grant, net>>

-----------------------------------------------------------------------------
(* The network: signalling, and the LSAs of the link.                      *)

SetUp(g) ==
  /\ status[g] = "confirmed" /\ ~InNet(g)
  /\ "late" \in Faults \/ \E d \in Of(deltas, g) : d.ttl > 0
  /\ net' = net \cup {[owner |-> g, bw |-> grant[g].bw, tags |-> grant[g].tags]}
  /\ status' = [status EXCEPT ![g] = "signalled"]
  /\ UNCHANGED <<up, te, deltas, gris, lsa, grant>>

TearDown(g) ==
  /\ InNet(g)
  /\ net' = net \ Of(net, g)
  /\ UNCHANGED <<up, te, deltas, gris, lsa, status, grant>>

Originate ==
  /\ ~lsa.sent
  /\ LET used == SumBw(net)
     IN  lsa' = [bw |-> IF used > MaxBw THEN 0 ELSE MaxBw - used,
                 vlan |-> Tags \ TagsOf(net), alloc |-> TagsOf(net),
                 gris |-> {l.owner : l \in net}, sent |-> TRUE]
  /\ UNCHANGED <<up, te, deltas, gris, status, grant, net>>

(* LSAHandler::Run, RDB.Update and Link::hook_PreUpdate: the list moves to *)
(* the new link, the deltas of the GRIs in the LSA are dropped, one each,  *)
(* the expired ones too, and the others are taken off the fresh values.    *)
Kept_None(D, G) == {}  (* a mutant: the list is not moved to the new link *)
Kept(D, G) == LET E == D \ UNION {First(D, g) : g \in G} IN E \ Expired(E)

Fresh(l) == [bw |-> l.bw, vlan |-> l.vlan, alloc |-> l.alloc]

(* A mutant: the deltas kept are not taken off the fresh values.           *)
Relinked_Raw(l) == Fresh(l)
Relinked(l)     == Minus(Fresh(l), Kept(deltas, l.gris))

Deliver ==
  /\ lsa.sent
  /\ deltas' = Kept(deltas, lsa.gris)
  /\ te' = Relinked(lsa)
  /\ gris' = lsa.gris
  /\ up' = TRUE
  /\ lsa' = NoLsa
  /\ UNCHANGED <<status, grant, net>>

(* LSAHandler::Run with ACT_DELETE: the link goes, and its deltas with it. *)
Withdraw ==
  /\ "flap" \in Faults
  /\ up /\ ~lsa.sent
  /\ up' = FALSE
  /\ te' = [bw |-> 0, vlan |-> {}, alloc |-> {}]
  /\ deltas' = {}
  /\ gris' = {}
  /\ UNCHANGED <<lsa, status, grant, net>>

(* Unless "late", an LSP in the network is advertised before its delta     *)
(* expires.                                                                *)
Unadvertised(g) == InNet(g) /\ g \notin gris

Tick ==
  /\ \E d \in deltas : d.ttl > 0
  /\ \/ "late" \in Faults
     \/ \A g \in Gri : Unadvertised(g) => \A d \in Of(deltas, g) : d.ttl > 1
  /\ deltas' = {[d EXCEPT !.ttl = IF @ > 0 THEN @ - 1 ELSE 0] : d \in deltas}
  /\ UNCHANGED <<up, te, gris, lsa, status, grant, net>>

Next ==
  \/ \E g \in Gri, req \in Request : QueryHold(g, req)
  \/ \E g \in Gri : QueryNoHold(g)
  \/ \E g \in Gri, req \in Request : QueryShadow(g, req)
  \/ \E g \in Gri, h \in Holdings : Confirm(g, h)
  \/ \E g \in Gri, tags \in {{t} : t \in Tags} : Update(g, tags)
  \/ \E g \in Gri : Delete(g)
  \/ \E g \in Gri : Vanish(g)
  \/ CliDeleteDeltas
  \/ \E g \in Gri : SetUp(g)
  \/ \E g \in Gri : TearDown(g)
  \/ Originate
  \/ Deliver
  \/ Withdraw
  \/ Tick

Spec == Init /\ [][Next]_vars

(* For liveness: time passes, path requests keep coming (nothing else      *)
(* sweeps the list: there is no timer), and OSPF refreshes its LSAs.       *)
Passing  == \E g \in Passers : QueryNoHold(g)
Fairness == WF_vars(Tick) /\ WF_vars(Passing) /\ WF_vars(Originate) /\ WF_vars(Deliver)
LiveSpec == Spec /\ Fairness
-----------------------------------------------------------------------------
(* Properties.                                                             *)

(* The type of every variable; above all te stays within 0 .. MaxBw and    *)
(* Tags, whatever order deltas are added and taken back in.                *)
TypeOK ==
  /\ up \in BOOLEAN
  /\ te \in TeState
  /\ deltas \subseteq Delta
  /\ gris \subseteq Gri
  /\ lsa \in Lsa
  /\ status \in [Gri -> Status]
  /\ grant \in [Gri -> Grant]
  /\ net \subseteq Lsp

(* However a GRI queries, re-queries, confirms, updates and releases, it   *)
(* never holds a link twice: no second delta of its is on the list.        *)
(* (Link::removeDeltaByOwner removes one delta, so a second one would      *)
(* survive the release.)                                                   *)
OneDeltaPerOwner ==
  \A d, e \in deltas : d.owner = e.owner => d = e

(* A tag that a delta on the list holds is not offered to anyone.          *)
HeldTagsNotOffered == TagsOf(deltas) \cap te.vlan = {}

(* No two GRIs hold the same VLAN tag of the link: what the holding of     *)
(* query results is for (PCEN::ReplyERO: "to avoid contention").           *)
NoContention ==
  \A d, e \in deltas : d.owner # e.owner => d.tags \cap e.tags = {}

(* End to end: with timely clients the network is never asked to set up    *)
(* two LSPs on one VLAN tag, nor more bandwidth than the link has.         *)
NetworkNotOverbooked ==
  /\ \A l, m \in net : l.owner # m.owner => l.tags \cap m.tags = {}
  /\ SumBw(net) <= MaxBw

(* The bandwidth that the RCE offers is never more than what the LSPs in   *)
(* place and the holds on the list leave of the link.                      *)
NeverOffersTakenBandwidth ==
  up => te.bw + SumBw(net) + SumBw({d \in deltas : ~InNet(d.owner)}) <= MaxBw

(* A path query of one GRI does not give back what another one's expired   *)
(* reservation took off the link (Link::deleteExpiredDeltas: "'reserved'   *)
(* resources won't be implicitly added back").                             *)
ReservedNotImplicitlyAddedBack ==
  [][\A g \in Gri : QueryNoHold(g) =>
       \A d \in deltas : d.owner # g /\ d.flag = "RESERVED" =>
         d.tags \cap (te'.vlan \ te.vlan) = {}]_vars

(* What a client held when it vanished comes back, double holds included:  *)
(* its deltas go and the tags are offered again, or used by somebody else. *)
AbandonedHoldReturns ==
  \A g \in Ghosts, t \in Tags :
    status[g] = "gone" /\ t \in TagsOf(Of(deltas, g))
      ~> /\ t \notin TagsOf(Of(deltas, g))
         /\ t \in te.vlan \cup TagsOf(deltas) \cup TagsOf(net)
=============================================================================
