----------------------------- MODULE KspSearch -----------------------------
(***************************************************************************)
(* PCEN_KSP: up to K paths are enumerated with deviations from paths that  *)
(* were found before, and the cheapest of them that keeps the constraints  *)
(* is the answer. One step is one shortest path.                           *)
(***************************************************************************)
EXTENDS PathTopology, Integers, SequencesExt

CONSTANT K     \* pce_k

VARIABLES
  topo, req, vtag, ero, status,
  pc,          \* what the search does next: "take", "spur" or "verify"
  cands,       \* CandidatePaths
  ksp,         \* KSP
  found,       \* KSPcounter
  parent,      \* headpath
  spur,        \* the index of the link of headpath that is deviated from
  masked,      \* what is masked off: [nodes, links]
  at,          \* tspec of the nodes
  best         \* bestPath and its vlan_tag

Ingress == [sw |-> req.swIn, bw |-> req.bw]
NoMask  == [nodes |-> {}, links |-> {}]

(* MaskNode masks off the links of the node as well.                        *)
MaskNode(m, n) ==
  [nodes |-> m.nodes \cup {n},
   links |-> m.links \cup {l \in Links(topo) : n \in {topo[l].from, topo[l].to}}]

-----------------------------------------------------------------------------
(* Dijkstra. The nodes in reach are a list with repetitions; the first of   *)
(* the cheapest is next. The links of the source are treated apart: their   *)
(* path is appended to.                                                     *)
OpenLinks(n, m) ==
  SelectSeq(OutLinks(topo, n), LAMBDA l : l \notin m.links /\ topo[l].to \notin m.nodes)

FromSource(d, l) ==
  LET n == topo[l].to
  IN [d EXCEPT !.reach = Append(@, n),
               !.cost[n] = IF @ > topo[l].metric THEN topo[l].metric ELSE @,
               !.path[n] = IF d.cost[n] > topo[l].metric THEN Append(@, l) ELSE @]

FromHead(d, l) ==
  LET h == topo[l].from  n == topo[l].to  c == d.cost[h] + topo[l].metric
  IN IF n \in d.done \/ d.cost[n] <= c THEN d
     ELSE [d EXCEPT !.cost[n] = c, !.path[n] = Append(d.path[h], l),
                    !.reach = IF Contains(@, n) THEN @ ELSE Append(@, n)]

Cheapest(d) ==
  CHOOSE i \in DOMAIN d.reach :
    /\ \A j \in DOMAIN d.reach : d.cost[d.reach[i]] <= d.cost[d.reach[j]]
    /\ \A j \in 1 .. i - 1 : d.cost[d.reach[i]] < d.cost[d.reach[j]]

Settle(d) == LET i == Cheapest(d)
             IN [d EXCEPT !.head = d.reach[i], !.done = @ \cup {d.reach[i]},
                          !.reach = RemoveAt(@, i)]

RECURSIVE Grow(_, _, _)
Grow(d, m, dest) ==
  LET grown == FoldLeft(FromHead, d, OpenLinks(d.head, m))
  IN IF grown.reach = <<>> THEN grown
     ELSE IF Settle(grown).head = dest THEN Settle(grown)
     ELSE Grow(Settle(grown), m, dest)

Dijkstra(src, dest, m) ==
  LET start  == [cost |-> [n \in Node |-> PCEN_INFINITE_COST], path |-> [n \in Node |-> <<>>],
                 done |-> {src}, reach |-> <<>>, head |-> None]
      direct == FoldLeft(FromSource, start, OpenLinks(src, m))
  IN IF direct.reach = <<>> THEN direct ELSE Grow(Settle(direct), m, dest)

-----------------------------------------------------------------------------
(* PostBuildTopology: links without the bandwidth are left out. A link      *)
(* without its reverse would be followed from the end of a list.            *)
Enough(link) == link.iscds = <<>> \/ \E iscd \in Capabilities(link) : iscd.bw >= req.bw
Pruned       == SelectSeq(topo, Enough)

Start ==
  /\ status = "new"
  /\ topo' = Pruned
  /\ at' = [n \in Node |-> Ingress]
  /\ IF \E l \in Links(topo') : ReverseLink(topo', l) = None
     THEN status' = "crashed" /\ pc' = pc
     ELSE status' = "searching" /\ pc' = "first"
  /\ UNCHANGED <<req, vtag, ero, cands, ksp, found, parent, spur, masked, best>>

Path(p, cost, dev, links) == [path |-> p, cost |-> cost, dev |-> dev, masked |-> links]

(* The index of the link that leaves the deviation node of a path.          *)
DeviationStart(p) == SelectInSeq(p.path, LAMBDA l : topo[l].from = p.dev)

(* SearchKSP: the shortest path.                                            *)
First ==
  /\ pc = "first"
  /\ LET d == Dijkstra(req.src, req.dest, NoMask)
     IN IF d.path[req.dest] = <<>>
        THEN pc' = "verify" /\ UNCHANGED <<cands, ksp, found>>
        ELSE /\ cands' = <<Path(d.path[req.dest], d.cost[req.dest], req.src, {})>>
             /\ ksp' = cands'
             /\ found' = 1
             /\ pc' = "take"
  /\ UNCHANGED <<topo, req, vtag, ero, status, parent, spur, masked, at, best>>

(* A candidate is taken: min_element compares the pointers, so that it is   *)
(* any of them. The nodes before its deviation are masked off.              *)
(* (Mutant first: they are not.)                                            *)
RootMask_None(p) == NoMask
RootMask(p) ==
  FoldLeft(LAMBDA m, l : MaskNode(m, topo[l].from), NoMask,
           SubSeq(p.path, 1, DeviationStart(p) - 1))

(* K paths are enough.                                                     *)
LastRound == found = K

Take ==
  /\ pc = "take"
  /\ IF cands = <<>> \/ found > K
     THEN pc' = "verify" /\ UNCHANGED <<cands, ksp, parent, spur, masked>>
     ELSE \E i \in DOMAIN cands :
            /\ parent' = cands[i]
            /\ cands' = RemoveAt(cands, i)
            /\ ksp' = IF found > 1 THEN Append(ksp, parent') ELSE ksp
            /\ IF LastRound
               THEN pc' = "verify" /\ UNCHANGED <<spur, masked>>
               ELSE /\ pc' = "spur"
                    /\ masked' = RootMask(parent')
                    /\ spur' = DeviationStart(parent')
  /\ UNCHANGED <<topo, req, vtag, ero, status, found, at, best>>

(* A deviation at the next link of the path: with this link and those that  *)
(* were masked for the path.                                                *)
SpurMask(l) == [masked EXCEPT !.links = @ \cup {l} \cup parent.masked]

Spur ==
  LET l == parent.path[spur]
      d == Dijkstra(topo[l].from, req.dest, SpurMask(l)).path[req.dest]
      p == SubSeq(parent.path, 1, spur - 1) \o d
  IN /\ pc = "spur" /\ spur <= Len(parent.path)
     /\ cands' = IF d = <<>> THEN cands
                 ELSE Append(cands, Path(p, Cost(topo, p), topo[l].from, parent.masked \cup {l}))
     /\ masked' = MaskNode([SpurMask(l) EXCEPT !.links = @ \ {l}], topo[l].from)
     /\ spur' = spur + 1
     /\ UNCHANGED <<topo, req, vtag, ero, status, pc, ksp, found, parent, at, best>>

Round ==
  /\ pc = "spur" /\ spur > Len(parent.path)
  /\ found' = found + 1
  /\ pc' = "take"
  /\ UNCHANGED <<topo, req, vtag, ero, status, cands, ksp, parent, spur, masked, at, best>>

-----------------------------------------------------------------------------
(* ConstrainKSPaths, one path a step; then the answer.                      *)
Verify ==
  /\ status = "searching" /\ pc = "verify" /\ ksp # <<>>
  /\ LET p == Head(ksp)  v == VerifyPathConstraints(topo, at, vtag, p.path)
     IN /\ ksp' = Tail(ksp)
        /\ at' = v.at
        /\ best' = IF v.ok /\ (best = None \/ p.cost < best.cost)
                   THEN [path |-> p.path, cost |-> p.cost, tag |-> LowestTag(v.next)] ELSE best
  /\ UNCHANGED <<topo, req, vtag, ero, status, pc, cands, found, parent, spur, masked>>

Answer ==
  /\ status = "searching" /\ pc = "verify" /\ ksp = <<>>
  /\ IF best = None
     THEN status' = "noroute" /\ UNCHANGED <<vtag, ero>>
     ELSE /\ status' = "found"
          /\ vtag' = IF req.e2e /\ vtag = ANY_VTAG THEN best.tag ELSE vtag
          /\ ero' = [i \in DOMAIN best.path |-> HopAt(topo, at, best.path[i], IF req.e2e THEN vtag' ELSE 0)]
  /\ UNCHANGED <<topo, req, pc, cands, ksp, found, parent, spur, masked, at, best>>

KspNext == Start \/ First \/ Take \/ Spur \/ Round \/ Verify \/ Answer

KspIdle ==
  /\ pc = "idle" /\ cands = <<>> /\ ksp = <<>> /\ found = 0 /\ parent = None /\ spur = 0
  /\ masked = NoMask /\ at = None /\ best = None
=============================================================================
