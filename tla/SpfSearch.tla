----------------------------- MODULE SpfSearch -----------------------------
(***************************************************************************)
(* The base search PCEN: Dijkstra over a matrix of costs, from router to   *)
(* router. The matrix has one cell per pair, so that every further link    *)
(* between two routers is split by a transit node. Bandwidth and tags are  *)
(* not looked at.                                                          *)
(***************************************************************************)
EXTENDS PathTopology, Integers, SequencesExt

VARIABLES topo, req, vtag, ero, status,
          spf    \* the arrays of DJhop: [inset, cost, path]

SpfIdle == spf = [inset |-> {}, cost |-> <<>>, path |-> <<>>]

(* SwitchingTypeFilter: links without the switching type of the egress go.  *)
Filtered == SelectSeq(topo, LAMBDA l : \E iscd \in Capabilities(l) : iscd.sw = req.swOut)

(* HandleOverlappingLinks: the links that are split. A router is the vertex *)
(* <<n>>, the transit node of a link <<n, l>>.                              *)
Split   == {l \in Links(topo) : \E m \in 1 .. l - 1 : topo[m].from = topo[l].from /\ topo[m].to = topo[l].to}
Vertex  == {<<n>> : n \in Node} \cup {<<topo[l].from, l>> : l \in Split}
Transit(v) == Len(v) = 2

(* BuildGraph. A link of metric 0 costs 1, a transit link next to nothing:  *)
(* costs are counted in thousandths.                                        *)
Unit           == 1000
VerySmallCost  == 1
InfCost        == 1000000 * Unit
Price(l) == IF topo[l].metric = 0 THEN Unit ELSE topo[l].metric * Unit

Between(u, v) == {l \in Links(topo) \ Split : topo[l].from = u[1] /\ topo[l].to = v[1]}
GraphHop(u, v) ==
  IF Transit(v) THEN IF u = <<v[1]>> THEN Price(v[2]) ELSE InfCost
  ELSE IF Transit(u) THEN IF topo[u[2]].to = v[1] THEN VerySmallCost ELSE InfCost
  ELSE IF Between(u, v) = {} THEN InfCost ELSE Price(CHOOSE l \in Between(u, v) : TRUE)

(* With the option for regions, its own or set because it names its engine  *)
(* (pce_spec), a request has no filter and no graph, and the search runs on *)
(* a null pointer.                                                          *)
SpfBegin ==
  /\ status = "new"
  /\ UNCHANGED <<req, vtag, ero>>
  /\ IF req.mrn
     THEN status' = "crashed" /\ UNCHANGED <<topo, spf>>
     ELSE /\ status' = "searching"
          /\ topo' = Filtered
          /\ spf' = [inset |-> {<<req.src>>},
                     cost  |-> [v \in Vertex' |-> GraphHop(<<req.src>>, v)'],
                     path  |-> [v \in Vertex' |-> IF GraphHop(<<req.src>>, v)' < InfCost
                                                  THEN <<<<req.src>>, v>> ELSE <<>>]]

(* A round of DJhop takes one of the cheapest nodes: which, depends on the  *)
(* order of the routers.                                                    *)
Near == {v \in Vertex \ spf.inset : spf.cost[v] < InfCost}
Nearest == {v \in Near : \A u \in Near : spf.cost[v] <= spf.cost[u]}

Relaxed(k, v) ==
  v \notin spf.inset \cup {k} /\ GraphHop(k, v) < InfCost /\ spf.cost[v] > spf.cost[k] + GraphHop(k, v)

SpfRound ==
  /\ status = "searching"
  /\ \E k \in Nearest :
       spf' = [inset |-> spf.inset \cup {k},
               cost  |-> [v \in Vertex |-> IF Relaxed(k, v) THEN spf.cost[k] + GraphHop(k, v) ELSE spf.cost[v]],
               path  |-> [v \in Vertex |-> IF Relaxed(k, v) THEN Append(spf.path[k], v) ELSE spf.path[v]]]
  /\ UNCHANGED <<topo, req, vtag, ero, status>>

(* PerformComputation skips the transit nodes, so that GetLinkEndsByIndex   *)
(* finds the first of the links between two routers: not the one that was   *)
(* paid for. The field that tells a transit node is never set: with what    *)
(* memory holds there it may be taken for a router.                         *)
Shortest == spf.path[<<req.dest>>]
Routers  == SelectSeq(Shortest, LAMBDA v : ~Transit(v))

LinkEnds(j, k) == CHOOSE l \in Between(j, k) : TRUE

SpfReply ==
  /\ status = "searching" /\ Near = {}
  /\ IF Shortest = <<>>
     THEN status' = "noroute" /\ ero' = ero
     ELSE \/ /\ status' = "found"
             /\ ero' = [i \in 1 .. Len(Routers) - 1 |->
                          [link |-> LinkEnds(Routers[i], Routers[i + 1]),
                           swIn |-> None, swOut |-> None, tagIn |-> 0, tagOut |-> 0]]
          \/ Routers # Shortest /\ status' = "crashed" /\ ero' = ero
  /\ UNCHANGED <<topo, req, vtag, spf>>

SpfNext == SpfBegin \/ SpfRound \/ SpfReply
=============================================================================
