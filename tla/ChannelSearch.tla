--------------------------- MODULE ChannelSearch ---------------------------
(***************************************************************************)
(* PCEN_MRN_CG: a graph of channels. A channel is a link with one of its   *)
(* switching types; an edge leads to the channels that can follow at the   *)
(* router behind it, adapted or not. Up to K paths are enumerated there,   *)
(* and the cheapest of them that keeps the constraints is the answer.      *)
(***************************************************************************)
EXTENDS PathTopology, Integers, SequencesExt

CONSTANT K     \* pce_k

VARIABLES topo, req, vtag, ero, status, cg

(* What cg holds: what comes next ("first", "take", "spur" or "verify"),    *)
(* CGnodes and CGlinks, CandidatePaths and KSP_MRN, KSPcounter, headpath,   *)
(* the index of the edge that is deviated from, what is masked off, the     *)
(* tspec of the routers, head_vlan_tag_set's flag and the best path.        *)
NoMask == [nodes |-> {}, links |-> {}]
CgIdle == cg = [pc |-> "idle", nodes |-> <<>>, links |-> <<>>, cands |-> <<>>, ksp |-> <<>>,
                found |-> 0, parent |-> None, spur |-> 0, masked |-> NoMask,
                at |-> [n \in Node |-> [sw |-> req.swIn, bw |-> req.bw]], best |-> None]

(* What is made of each element of a sequence, in a row.                    *)
Each(s, Op(_)) == FlattenSeq([i \in DOMAIN s |-> Op(s[i])])

-----------------------------------------------------------------------------
(* CreateNetLinks: of two copies of a link the dearer one is left out; of   *)
(* two that cost the same each drops the other.                             *)
Copies(l) == {m \in Links(topo) \ {l} : /\ topo[m].ifs = topo[l].ifs
                                        /\ topo[m].from = topo[l].from /\ topo[m].to = topo[l].to}
Dearer(l) == {m \in Copies(l) : topo[m].metric >= topo[l].metric}
Chopped   == {CHOOSE m \in Dearer(l) : \A k \in Dearer(l) : m <= k :
                l \in {k \in Links(topo) : Dearer(k) # {}}}
Kept      == SelectSeq([l \in Links(topo) |-> l], LAMBDA l : l \notin Chopped)

(* A channel for every switching type with the bandwidth, and one for each  *)
(* end of the request. Any bandwidth will do at the source: it was checked. *)
Channel(l, sw) == [link |-> l, from |-> topo[l].from, to |-> topo[l].to, sw |-> sw,
                   metric |-> topo[l].metric]
Virtual(n)     == [link |-> None, from |-> n, to |-> n, sw |-> None, metric |-> 0]

ChannelsOf(l) ==
  LET wide == SelectSeq(topo[l].iscds, LAMBDA iscd : iscd.bw >= req.bw)
  IN [i \in DOMAIN wide |-> Channel(l, wide[i].sw)]
Channels == Each(Kept, ChannelsOf)

(* search_PCENCGNode: by the ends, the interfaces and the switching type.   *)
ChannelAt(nodes, l, sw) ==
  SelectInSeq(nodes, LAMBDA c : /\ c.link # None /\ c.sw = sw /\ c.from = topo[l].from
                                /\ c.to = topo[l].to /\ topo[c.link].ifs = topo[l].ifs)

-----------------------------------------------------------------------------
(* CreateChannelGraph: what may follow a link at the router behind it. Not  *)
(* the way back, over whichever link.                                       *)
Onward(l) == SelectSeq(OutLinks(topo, topo[l].to), LAMBDA m : topo[m].to # topo[l].from)

(* The adaptations of a link: from one switching type to another, and the   *)
(* links that are looked at after it. By an IACD, they are all but the      *)
(* reverse link.                                                            *)
EndsDiffer(l, r) ==
  Len(topo[l].iscds) = 1 /\ Len(topo[r].iscds) = 1 /\ topo[l].iscds[1].sw # topo[r].iscds[1].sw

Turn(sw, iacd) == IF iacd.lower = sw THEN iacd.upper ELSE iacd.lower
By(l, iacds, sw) ==
  LET fits == SelectSeq(iacds, LAMBDA a : sw \in {a.lower, a.upper})
      next == SelectSeq(OutLinks(topo, topo[l].to), LAMBDA m : m # ReverseLink(topo, l))
  IN [i \in DOMAIN fits |-> [sw |-> sw, becomes |-> Turn(sw, fits[i]), next |-> next]]

AdaptationsOf(l) ==
  LET r == ReverseLink(topo, l)
  IN IF r = None THEN <<>>
     ELSE (IF EndsDiffer(l, r)
           THEN <<[sw |-> topo[l].iscds[1].sw, becomes |-> topo[r].iscds[1].sw, next |-> Onward(l)]>> ELSE <<>>)
          \o IF topo[l].iacds # <<>>
             THEN Each(topo[l].iscds, LAMBDA iscd : By(l, topo[l].iacds, iscd.sw))
             ELSE IF topo[l].iscds = <<>> THEN <<>> ELSE By(l, topo[r].iacds, topo[l].iscds[1].sw)

(* The channels with a switching type on one of some links.                 *)
Offering(nodes, links, sw) ==
  LET on == SelectSeq(links, LAMBDA m : \E iscd \in Capabilities(topo[m]) : iscd.sw = sw)
  IN SelectSeq([i \in DOMAIN on |-> ChannelAt(nodes, on[i], sw)], LAMBDA c : c # 0)

Edge(nodes, c, d) == [from |-> c, to |-> d, cost |-> nodes[d].metric]
EdgesTo(nodes, c, ds) == [i \in DOMAIN ds |-> Edge(nodes, c, ds[i])]

SameType(nodes) ==
  Each([l \in Links(topo) |-> l], LAMBDA l :
    Each(topo[l].iscds, LAMBDA iscd :
      LET c == ChannelAt(nodes, l, iscd.sw)
      IN IF c = 0 THEN <<>> ELSE EdgesTo(nodes, c, Offering(nodes, Onward(l), iscd.sw))))

(* A channel that would be adapted may not have the bandwidth: the pointer  *)
(* to it is null.                                                           *)
Adapting(nodes) ==
  Each(Kept, LAMBDA l : Each(AdaptationsOf(l), LAMBDA a :
    EdgesTo(nodes, ChannelAt(nodes, l, a.sw), Offering(nodes, a.next, a.becomes))))

(* BuildEndNodes: the switching type of the egress is asked for at the      *)
(* source, at the destination none.                                         *)
Source(nodes)  == Len(nodes) - 1
Target(nodes)  == Len(nodes)
ToSource(nodes) ==
  LET first == SelectSeq([i \in DOMAIN nodes |-> i],
                 LAMBDA i : nodes[i].link # None /\ nodes[i].from = req.src /\ nodes[i].sw = req.swOut)
  IN EdgesTo(nodes, Source(nodes), first)
ToTarget(nodes) ==
  LET last == SelectSeq([i \in DOMAIN nodes |-> i],
                LAMBDA i : nodes[i].link # None /\ nodes[i].to = req.dest)
  IN [i \in DOMAIN last |-> Edge(nodes, last[i], Target(nodes))]

CgBegin ==
  LET nodes == Channels \o <<Virtual(req.src), Virtual(req.dest)>>
      adapt == Adapting(nodes)
      ends  == ToSource(nodes) \o ToTarget(nodes)
  IN /\ status = "new"
     /\ cg' = [cg EXCEPT !.pc = "first", !.nodes = nodes,
                         !.links = SameType(nodes) \o adapt \o ends]
     /\ status' = IF \E i \in DOMAIN adapt : adapt[i].from = 0 THEN "crashed"
                  ELSE IF ToSource(nodes) = <<>> \/ ToTarget(nodes) = <<>> THEN "noroute"
                  ELSE "searching"
     /\ UNCHANGED <<topo, req, vtag, ero>>

-----------------------------------------------------------------------------
(* DijkstraMRN. The edges of the source are treated apart.                  *)
OpenEdges(n, m) ==
  SelectSeq([e \in DOMAIN cg.links |-> e],
    LAMBDA e : cg.links[e].from = n /\ e \notin m.links /\ cg.links[e].to \notin m.nodes)

FromSource(d, e) ==
  [d EXCEPT !.reach = Append(@, cg.links[e].to), !.cost[cg.links[e].to] = cg.links[e].cost,
            !.path[cg.links[e].to] = Append(@, e)]

FromHead(d, e) ==
  LET h == cg.links[e].from  n == cg.links[e].to  c == d.cost[h] + cg.links[e].cost
  IN IF n \in d.done \/ d.cost[n] <= c THEN d
     ELSE [d EXCEPT !.cost[n] = c, !.path[n] = Append(d.path[h], e),
                    !.reach = IF Contains(@, n) THEN @ ELSE Append(@, n)]

Settle(d) ==
  LET near == CHOOSE i \in DOMAIN d.reach :
                /\ \A j \in DOMAIN d.reach : d.cost[d.reach[i]] <= d.cost[d.reach[j]]
                /\ \A j \in 1 .. i - 1 : d.cost[d.reach[i]] < d.cost[d.reach[j]]
  IN [d EXCEPT !.head = d.reach[near], !.done = @ \cup {d.reach[near]}, !.reach = RemoveAt(@, near)]

(* A round ends the search when the target comes out of it.                 *)
Round(d, m) ==
  LET grown == FoldLeft(FromHead, d, OpenEdges(d.head, m))
      next  == Settle(grown)
  IN IF d.over THEN d
     ELSE IF grown.reach = <<>> THEN [grown EXCEPT !.over = TRUE]
     ELSE [next EXCEPT !.over = next.head = Target(cg.nodes)]

Dijkstra(src, m) ==
  LET start  == [cost |-> [n \in DOMAIN cg.nodes |-> PCEN_INFINITE_COST],
                 path |-> [n \in DOMAIN cg.nodes |-> <<>>],
                 done |-> {src}, reach |-> <<>>, head |-> src, over |-> FALSE]
      direct == FoldLeft(FromSource, start, OpenEdges(src, m))
  IN IF direct.reach = <<>> THEN direct
     ELSE FoldLeft(LAMBDA d, i : Round(d, m), Settle(direct), cg.nodes)

-----------------------------------------------------------------------------
(* SearchMRNKSP. A candidate is a path of edges, its deviation node and the *)
(* edges that were masked for it. The first has the cost of the search, the *)
(* others the sum over their channels: the same.                            *)
Path(p, dev, links) == [path |-> p, dev |-> dev, masked |-> links]

NodesOn(p)  == [i \in DOMAIN p |-> cg.nodes[cg.links[p[i]].from]]
PathCost(p) == FoldLeft(LAMBDA c, n : c + n.metric, 0, NodesOn(p))

MaskNodes(m, S) ==
  [nodes |-> m.nodes \cup S,
   links |-> m.links \cup {e \in DOMAIN cg.links : {cg.links[e].from, cg.links[e].to} \cap S # {}}]

(* The channels of a type that begin at one of some routers.                *)
Leaving(routers, sw) == {n \in DOMAIN cg.nodes : cg.nodes[n].from \in routers /\ cg.nodes[n].sw = sw}

First ==
  /\ cg.pc = "first"
  /\ LET p == Dijkstra(Source(cg.nodes), NoMask).path[Target(cg.nodes)]
     IN IF p = <<>>
        THEN status' = "noroute" /\ cg' = cg
        ELSE /\ cg' = [cg EXCEPT !.pc = "take", !.found = 1, !.cands = <<Path(p, Source(cg.nodes), {})>>,
                                 !.ksp = <<Path(p, Source(cg.nodes), {})>>]
             /\ status' = status
  /\ UNCHANGED <<topo, req, vtag, ero>>

(* A cheapest candidate becomes the parent. Before the deviation node, the  *)
(* channels of the type of each channel on the way are masked off at both   *)
(* of its ends: with them the deviation node itself, but for the first.     *)
DeviationStart(p) == SelectInSeq(p.path, LAMBDA e : cg.links[e].from = p.dev)

RootMask(p) ==
  FoldLeft(LAMBDA m, n : MaskNodes(m, Leaving({n.from, n.to}, n.sw)), NoMask,
           NodesOn(SubSeq(p.path, 1, DeviationStart(p) - 1)))

CheapestCand ==
  CHOOSE i \in DOMAIN cg.cands :
    /\ \A j \in DOMAIN cg.cands : PathCost(cg.cands[i].path) <= PathCost(cg.cands[j].path)
    /\ \A j \in 1 .. i - 1 : PathCost(cg.cands[i].path) < PathCost(cg.cands[j].path)

Take ==
  /\ cg.pc = "take"
  /\ IF cg.cands = <<>> \/ cg.found > K \/ K = 1
     THEN cg' = [cg EXCEPT !.pc = "verify"]
     ELSE LET parent == cg.cands[CheapestCand]
          IN cg' = [cg EXCEPT
               !.parent = parent, !.cands = RemoveAt(@, CheapestCand),
               !.ksp = IF cg.found > 1 THEN Append(@, parent) ELSE @,
               !.pc = IF cg.found = K THEN "verify" ELSE "spur",
               !.masked = RootMask(parent), !.spur = DeviationStart(parent)]
  /\ UNCHANGED <<topo, req, vtag, ero, status>>

(* A deviation before each edge but the last: without this edge, those that *)
(* were masked for the parent, and other channels of the same type from the *)
(* same router. (Mutant first: with the edges of the parent.)               *)
ParentMask_OnlyThis(e) == {e}
ParentMask(e)          == {e} \cup cg.parent.masked

SpurMask(e) ==
  LET n == cg.nodes[cg.links[e].from]
      aside == {c \in Leaving({n.from}, n.sw) : cg.nodes[c].to # n.to}
  IN MaskNodes([cg.masked EXCEPT !.links = @ \cup ParentMask(e)], aside)

Loops(p) ==
  LET on == NodesOn(p)
  IN \E i, j \in DOMAIN on : i < j /\ on[i].to = on[j].to /\ on[i].sw = on[j].sw

Spur ==
  LET e    == cg.parent.path[cg.spur]
      here == cg.links[e].from
      mask == SpurMask(e)
      d    == Dijkstra(here, mask).path[Target(cg.nodes)]
      p    == SubSeq(cg.parent.path, 1, cg.spur - 1) \o d
  IN /\ cg.pc = "spur" /\ cg.spur < Len(cg.parent.path)
     /\ cg' = [cg EXCEPT
          !.cands = IF d = <<>> \/ Loops(p) THEN @
                    ELSE Append(@, Path(p, here, cg.parent.masked \cup {e})),
          !.masked = MaskNodes([mask EXCEPT !.links = @ \ {e}],
                               Leaving({cg.nodes[here].from}, cg.nodes[here].sw)),
          !.spur = @ + 1]
     /\ UNCHANGED <<topo, req, vtag, ero, status>>

NextRound ==
  /\ cg.pc = "spur" /\ cg.spur >= Len(cg.parent.path)
  /\ cg' = [cg EXCEPT !.found = @ + 1, !.pc = "take"]
  /\ UNCHANGED <<topo, req, vtag, ero, status>>

-----------------------------------------------------------------------------
(* CGPathToNetPath2: the links of the channels. ConstructNetworkPath keeps  *)
(* the paths that VerifyPathConstraints accepts.                            *)
SameEnds(l, m) == topo[l].from = topo[m].from /\ topo[l].to = topo[m].to /\ topo[l].ifs = topo[m].ifs
NetPath(p) ==
  LET on == SelectSeq(NodesOn(p), LAMBDA n : n.link # None)
  IN Each(on, LAMBDA n : SelectSeq(Kept, LAMBDA l : SameEnds(l, n.link)))

(* FindVlanTagSetForPath. Clear leaves the flag of the set at the head, so  *)
(* that for "any tag" it is the last link with VLANs that decides. To the   *)
(* head of the next link go the tags of an eighth of the bitmask, 1 to 512. *)
TagsAlong(path) ==
  FoldLeft(LAMBDA v, l :
             LET next == ProceedByUpdatingVtags(topo, l, v.head, NoTags)
             IN [next |-> next, head |-> AddTags(Clear(v.head), next.bits, MAX_VLAN_NUM \div 8)],
           [head |-> AddTag(NoTags, ANY_VTAG), next |-> NoTags], path).next

(* FindTagInLink.                                                           *)
TagInLink(path, i, tag) ==
  LET l == path[i]
  IN \/ i > 1 /\ \A iscd \in Capabilities(topo[l]) : iscd.sw # L2SC
     \/ /\ \E iscd \in Tagged(topo[l]) : tag \in iscd.free
        /\ tag \notin UsedAround(topo, l)

(* The tag a path can have, or None.                                        *)
TagOf(path) ==
  IF ~req.e2e THEN 0
  ELSE IF vtag = ANY_VTAG
       THEN IF IsEmpty(TagsAlong(path)) THEN None ELSE LowestTag(TagsAlong(path))
  ELSE IF \A i \in DOMAIN path : TagInLink(path, i, vtag) THEN vtag ELSE None

(* One path a step.                                                         *)
Verify ==
  /\ status = "searching" /\ cg.pc = "verify" /\ cg.ksp # <<>>
  /\ LET p == NetPath(Head(cg.ksp).path)
         v == VerifyPathConstraints(topo, cg.at, vtag, p)
         tag == TagOf(p)
         better == /\ v.ok /\ tag # None
                   /\ cg.best = None \/ Cost(topo, p) < Cost(topo, cg.best.path)
     IN cg' = [cg EXCEPT !.ksp = Tail(@), !.at = v.at,
                         !.best = IF better THEN [path |-> p, tag |-> tag] ELSE @]
  /\ UNCHANGED <<topo, req, vtag, ero, status>>

(* AddLinkToERO looks for the capabilities of the reverse link up to the    *)
(* end of those of the link: without one with VLANs it goes on beyond.      *)
Astray(l) ==
  LET r == ReverseLink(topo, l)
  IN req.e2e /\ cg.at[topo[l].to].sw = L2SC /\ r # None /\ ~HasVlans(topo, r)

SetVTag(hops, tag) ==
  [i \in DOMAIN hops |-> [hops[i] EXCEPT
     !.tagIn = IF hops[i].swIn = L2SC THEN tag ELSE @, !.tagOut = IF hops[i].swOut = L2SC THEN tag ELSE @]]

Answer ==
  /\ status = "searching" /\ cg.pc = "verify" /\ cg.ksp = <<>>
  /\ UNCHANGED <<topo, req, cg>>
  /\ IF cg.best = None THEN status' = "noroute" /\ UNCHANGED <<vtag, ero>>
     ELSE IF \E i \in DOMAIN cg.best.path : Astray(cg.best.path[i])
     THEN status' = "crashed" /\ UNCHANGED <<vtag, ero>>
     ELSE LET hops == [i \in DOMAIN cg.best.path |->
                         HopAt(topo, cg.at, cg.best.path[i], IF req.e2e THEN vtag ELSE 0)]
              any  == req.e2e /\ vtag = ANY_VTAG /\ cg.best.tag # 0
          IN /\ status' = "found"
             /\ vtag' = IF any THEN cg.best.tag ELSE vtag
             /\ ero' = IF any THEN SetVTag(hops, vtag') ELSE hops

CgNext == CgBegin \/ First \/ Take \/ Spur \/ NextRound \/ Verify \/ Answer
=============================================================================
