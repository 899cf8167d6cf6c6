----------------------------- MODULE MrnSearch -----------------------------
(***************************************************************************)
(* PCEN_MRN::PerformComputation: the search for a path through regions of  *)
(* different switching types. It goes depth first. What a node holds (the  *)
(* path that leads to it, its cost, its tags) is overwritten whenever      *)
(* another path reaches the node, so a copy, the scene, is put on a stack  *)
(* with the node and is restored when the node is taken off. The           *)
(* destination is left out of that: it keeps the best path.                *)
(***************************************************************************)
EXTENDS PathTopology, Naturals, Sequences, FiniteSets

VARIABLES
  topo,        \* the links
  req,         \* the request
  vtag,        \* its tag, and that of the answer
  ero,         \* the hops of the best path so far, one record per link
  status,      \* see PathSearch
  node,        \* what each node holds
  seenLinks,   \* the links with the flag visited
  stack,       \* PStack and the stacks of scenes: <<node, scene>>, top first
  head,        \* headNode
  rest,        \* its links that are still to be tried
  nextVtags    \* nextVtagSet

-----------------------------------------------------------------------------
Ingress == [sw |-> req.swIn, bw |-> req.bw]
Egress  == [sw |-> req.swOut, bw |-> req.bw]

(* PreserveSceneToStacks and RestoreSceneFromStacks. (A mutant first: the   *)
(* traffic specification is not restored.)                                  *)
Scene(n, nd) == <<n, [f \in {"tspec", "tags", "cost", "path", "track", "via"} |-> nd[f]]>>

Restore_OldTspec(top) ==
  IF top[1] = req.dest THEN node
  ELSE [node EXCEPT ![top[1]] = [f \in DOMAIN @ |-> IF f \in {"seen", "tspec"} THEN @[f] ELSE top[2][f]]]
Restore(top) ==
  IF top[1] = req.dest THEN node
  ELSE [node EXCEPT ![top[1]] = [f \in DOMAIN @ |-> IF f = "seen" THEN @.seen ELSE top[2][f]]]

(* A node before the search.                                                *)
Fresh == [tspec |-> Ingress, tags |-> NoTags, cost |-> PCEN_INFINITE_COST,
          path |-> <<>>, track |-> <<>>, via |-> FALSE, seen |-> FALSE]

SourceTags == IF ~req.e2e THEN NoTags
              ELSE IF req.mask # None THEN AddTags(NoTags, req.mask, MAX_VLAN_NUM)
              ELSE AddTag(NoTags, vtag)

Begin ==
  LET source == [Fresh EXCEPT !.cost = 0, !.tags = SourceTags]
  IN /\ status = "new"
     /\ node' = [n \in Node |-> IF n = req.src THEN source ELSE Fresh]
     /\ stack' = <<Scene(req.src, source)>>
     /\ status' = "searching"
     /\ UNCHANGED <<topo, req, vtag, ero, seenLinks, head, rest, nextVtags>>

IsInExcludedLayer(t) == t.sw \in req.excluded

(* The next node comes off the stack.                                       *)
Pop ==
  /\ status = "searching" /\ rest = <<>> /\ stack # <<>>
  /\ LET h == Head(stack)[1]
     IN /\ node' = Restore(Head(stack))
        /\ stack' = Tail(stack)
        /\ head' = h
        /\ rest' = IF IsInExcludedLayer(node'[h].tspec) THEN <<>> ELSE OutLinks(topo, h)
        /\ nextVtags' = NoTags
  /\ UNCHANGED <<topo, req, vtag, ero, status, seenLinks>>

-----------------------------------------------------------------------------
(* One link of the head node. The checks in their order.                    *)
IsLast(l) == topo[l].to = req.dest /\ head # req.src

TagsBehind(l) ==
  IF ~req.e2e THEN Clear(nextVtags)
  ELSE ProceedByUpdatingVtags(topo, l, node[head].tags, nextVtags)

(* On the last hop the tags in use at the destination are taken away again. *)
TagsAfter(l) ==
  IF IsLast(l) /\ req.e2e
  THEN DeleteTags(TagsBehind(l),
         UNION {Allocated(topo[m]) : m \in {k \in Links(topo) :
                                              req.dest \in {topo[k].from, topo[k].to}}})
  ELSE TagsBehind(l)

IsLoop(path, n) == \E i \in DOMAIN path : n \in {topo[path[i]].from, topo[path[i]].to}

(* (Mutant first: without the check of the egress.)                         *)
Passes_NoEgress(l) ==
  /\ IsAvailableForTspec(topo[l], node[head].tspec)
  /\ req.e2e => ~IsEmpty(TagsBehind(l)) /\ ~IsEmpty(TagsAfter(l))
  /\ ~IsLoop(node[head].path, topo[l].to)
Passes(l) ==
  /\ IsAvailableForTspec(topo[l], node[head].tspec)
  /\ req.e2e => ~IsEmpty(TagsBehind(l)) /\ ~IsEmpty(TagsAfter(l))
  /\ IsLast(l) => CanBeEgressLink(topo, l, Egress)
  /\ ~IsLoop(node[head].path, topo[l].to)

Next_Tspec(l) == NextTspec(topo, l, node[head].tspec)

BothWays(l) ==
  req.bidir => /\ ReverseLink(topo, l) # None
               /\ IsAvailableForTspec(topo[ReverseLink(topo, l)], Next_Tspec(l))

(* A node that was reached before is reached again at a lower cost, or      *)
(* else over a link that was not taken before or by a path of such links,   *)
(* but the destination only at a lower cost. (A mutant first: all only at a *)
(* lower cost.)                                                             *)
Worth_Cheaper(l) == ~node[topo[l].to].seen \/ node[topo[l].to].cost > node[head].cost + topo[l].metric
Worth(l) ==
  LET n == topo[l].to  cost == node[head].cost + topo[l].metric
  IN \/ ~node[n].seen
     \/ node[n].cost > cost
     \/ n # req.dest /\ (l \notin seenLinks \/ ~node[head].via)

(* AddLinkToEROTrack. A hop has the tag where it is on a link with VLANs.   *)
Tag(t, m) == IF /\ req.e2e /\ t.sw = L2SC /\ m # None
                /\ \E iscd \in Capabilities(topo[m]) : iscd.sw = L2SC /\ iscd.vlan
             THEN vtag ELSE 0
Hop(l) == [link |-> l, swIn |-> node[head].tspec.sw, swOut |-> Next_Tspec(l).sw,
           tagIn |-> Tag(node[head].tspec, l), tagOut |-> Tag(Next_Tspec(l), ReverseLink(topo, l))]

FinalCost == Cost(topo, [i \in DOMAIN ero |-> ero[i].link])

Reached(l) ==
  [node[topo[l].to] EXCEPT
     !.tspec = Next_Tspec(l), !.cost = node[head].cost + topo[l].metric, !.seen = TRUE,
     !.tags = TagsAfter(l),
     !.path = Append(node[head].path, l), !.track = Append(node[head].track, Hop(l))]

(* (Mutant first: the iterator stays on a link that cannot carry the path.) *)
After_Stuck(l) == IF Passes(l) THEN Tail(rest) ELSE rest
After(l)       == Tail(rest)

TryNext ==
  /\ status = "searching" /\ rest # <<>>
  /\ rest' = After(Head(rest))
  /\ nextVtags' = IF IsAvailableForTspec(topo[Head(rest)], node[head].tspec)
                  THEN TagsBehind(Head(rest)) ELSE nextVtags
  /\ UNCHANGED <<topo, req, vtag, status, head>>

(* The link cannot carry the path.                                          *)
Skip ==
  /\ TryNext /\ ~Passes(Head(rest))
  /\ UNCHANGED <<node, seenLinks, stack, ero>>

(* It could, but does not in the other direction or is not worth it. The    *)
(* node behind it has its traffic specification by then.                    *)
Drop ==
  LET l == Head(rest)
  IN /\ TryNext /\ Passes(l) /\ ~(BothWays(l) /\ Worth(l))
     /\ node' = [node EXCEPT ![topo[l].to].tspec = Next_Tspec(l)]
     /\ UNCHANGED <<seenLinks, stack, ero>>

Extend ==
  LET l == Head(rest)  n == topo[l].to
  IN /\ TryNext /\ Passes(l) /\ BothWays(l) /\ Worth(l)
     /\ seenLinks' = seenLinks \cup {l}
     /\ node' = [node EXCEPT ![head].via = @ \/ l \in seenLinks, ![n] = Reached(l)]
     /\ stack' = <<Scene(n, Reached(l))>> \o stack
     /\ ero' = IF /\ n = req.dest
                  /\ Reached(l).cost < IF ero = <<>> THEN PCEN_INFINITE_COST ELSE FinalCost
               THEN Reached(l).track ELSE ero

(* The stack is empty: the answer. SetVTagToEROTrack gives the hops the tag *)
(* that was chosen.                                                         *)
SetVTag(track, tag) ==
  [i \in DOMAIN track |-> [track[i] EXCEPT
     !.tagIn = IF track[i].swIn = L2SC THEN tag ELSE @,
     !.tagOut = IF track[i].swOut = L2SC THEN tag ELSE @]]

Finish ==
  LET dest == node[req.dest]
  IN /\ status = "searching" /\ rest = <<>> /\ stack = <<>>
     /\ status' = IF ero = <<>> \/ (req.e2e /\ IsEmpty(dest.tags)) THEN "noroute" ELSE "found"
     /\ IF req.e2e /\ ~IsEmpty(dest.tags) /\ vtag = ANY_VTAG
        THEN vtag' = LowestTag(dest.tags) /\ ero' = SetVTag(ero, vtag')
        ELSE UNCHANGED <<vtag, ero>>
     /\ UNCHANGED <<topo, req, node, seenLinks, stack, head, rest, nextVtags>>

MrnNext == Begin \/ Pop \/ Skip \/ Drop \/ Extend \/ Finish

Idle ==
  /\ node = [n \in Node |-> Fresh]
  /\ seenLinks = {} /\ stack = <<>> /\ head = None /\ rest = <<>> /\ nextVtags = NoTags
=============================================================================
