----------------------------- MODULE PathSearch -----------------------------
(***************************************************************************)
(* A path request at the RCE: it is checked, the graph is built from the   *)
(* resource database and one of five searches runs, by the configuration   *)
(* or by what the request asks for.                                        *)
(***************************************************************************)
EXTENDS PathTopology, Integers, Sequences, FiniteSets

CONSTANTS Cases,   \* an algorithm, the links in the database and a request
          K        \* pce_k
ASSUME KAssumption == K \in Nat \ {0}

VARIABLES alg, topo, req, vtag, ero, status,
          node, seenLinks, stack, head, rest, nextVtags,
          pc, cands, ksp, found, parent, spur, masked, at, best,
          spf, cg, dcn

Mrn == INSTANCE MrnSearch
Ksp == INSTANCE KspSearch
Spf == INSTANCE SpfSearch
Cg  == INSTANCE ChannelSearch
Dcn == INSTANCE DcnSearch

mrnVars == <<node, seenLinks, stack, head, rest, nextVtags>>
kspVars == <<pc, cands, ksp, found, parent, spur, masked, at, best>>
vars    == <<alg, topo, req, vtag, ero, status, mrnVars, kspVars, spf, cg, dcn>>

(* VerifyRequest, and Run of PCEN_MRN for the tag that is zero. The base    *)
(* search does not take requests with tags.                                 *)
Valid ==
  /\ {req.src, req.dest} \subseteq Node
  /\ req.e2e => vtag # 0 /\ (vtag = ANY_VTAG \/ vtag < 4096) /\ alg # "spf"

(* LSPHandler::Run: the class of the event is that of the algorithm.        *)
Init ==
  /\ \E c \in Cases : alg = c.alg /\ req = c.req /\ topo = BuildLinkVector(c.links)
  /\ vtag = req.vtag /\ ero = <<>> /\ status = "new"
  /\ Mrn!Idle /\ Ksp!KspIdle /\ Spf!SpfIdle /\ Cg!CgIdle /\ Dcn!DcnIdle

Refuse ==
  /\ status = "new" /\ ~Valid
  /\ status' = "refused"
  /\ UNCHANGED <<alg, topo, req, vtag, ero, mrnVars, kspVars, spf, cg, dcn>>

RunMrn == alg = "mrn" /\ Valid /\ Mrn!MrnNext /\ UNCHANGED <<alg, kspVars, spf, cg, dcn>>
RunKsp == alg = "ksp" /\ Valid /\ Ksp!KspNext /\ UNCHANGED <<alg, mrnVars, spf, cg, dcn>>
RunSpf == alg = "spf" /\ Valid /\ Spf!SpfNext /\ UNCHANGED <<alg, mrnVars, kspVars, cg, dcn>>
RunCg  == alg = "cg" /\ Valid /\ Cg!CgNext /\ UNCHANGED <<alg, mrnVars, kspVars, spf, dcn>>
RunDcn == alg = "dcn" /\ Valid /\ Dcn!DcnNext /\ UNCHANGED <<alg, kspVars, spf, cg>>

(* The loop in CreateMaxDisjointPaths.                                      *)
RunTrim == alg = "dcn" /\ (Dcn!Trim \/ Dcn!Reply) /\ UNCHANGED <<alg, kspVars, spf, cg>>

Next == Refuse \/ RunMrn \/ RunKsp \/ RunSpf \/ RunCg \/ RunDcn

(* A search is one call of Run: it goes on while it can.                    *)
Spec == Init /\ [][Next]_vars /\ WF_vars(RunMrn) /\ WF_vars(RunTrim)

-----------------------------------------------------------------------------
(* The types of what the two searches share and of what is stacked.         *)
TypeOK ==
  /\ status \in {"new", "refused", "searching", "crashed", "found", "noroute"}
  /\ vtag \in 0 .. ANY_VTAG
  /\ \A i \in DOMAIN ero : ero[i].link \in Links(topo)
  /\ head \in Node \cup {None}
  /\ seenLinks \subseteq Links(topo)
  /\ \A i \in DOMAIN stack : stack[i][1] \in Node
  /\ nextVtags.any \in BOOLEAN
  /\ pc \in {"idle", "first", "take", "spur", "verify"}
  /\ found \in 0 .. K
  /\ dcn.phase \in {"idle", "first", "second", "trim", "done"}

Route   == [i \in DOMAIN ero |-> ero[i].link]
Regions == TspecAlong(topo, Route, Mrn!Ingress)
Found   == status = "found"
Mrns    == {"mrn", "dcn"}       \* the searches through regions
Named   == req.ero # <<>>       \* the request brings its path

OneRegion == \A l \in Links(topo) : topo[l].iacds = <<>> /\ ~Differing(topo, l)

(* An answer is a path: its links follow each other from the source to the  *)
(* destination and it visits no router twice. (The scenes on the stacks and *)
(* IsLoop in one search, the masks of the deviations in two others, the     *)
(* links between the routers of a matrix.)                                  *)
AnswerIsRoute == ero # <<>> /\ ~Named => IsRoute(topo, Route, req.src, req.dest)

(* Every link of an answer carries the traffic specification that the       *)
(* regions before it leave, in both directions if that was asked for, and   *)
(* the path can leave the network at its end. The searches by deviations    *)
(* look at one direction, and are held to it in one region only.            *)
(* (IsAvailableForTspec, CanBeEgressLink and GetNextRegionTspec along a     *)
(* whole path, VerifyPathConstraints.)                                      *)
AnswerCarries ==
  Found /\ ~Named /\ alg # "spf" /\ (alg \in Mrns \/ OneRegion) =>
    \A i \in DOMAIN ero :
      /\ IsAvailableForTspec(topo[Route[i]], Regions[i - 1])
      /\ alg \in Mrns /\ req.bidir =>
           /\ ReverseLink(topo, Route[i]) # None
           /\ IsAvailableForTspec(topo[ReverseLink(topo, Route[i])], Regions[i])
      /\ alg \in Mrns /\ i > 1 /\ i = Len(ero) => CanBeEgressLink(topo, Route[i], Mrn!Egress)

(* What is on the stacks belongs together: a node's scene holds a path that *)
(* leads to this node, at its cost, into its region, and whose tags are not *)
(* used up, although the nodes themselves are overwritten all the time.     *)
(* (PreserveSceneToStacks, RestoreSceneFromStacks. The search goes on       *)
(* beyond the destination, which is not restored: from there, the region    *)
(* is that of some other path, but no way leads back to an answer.)         *)
Beyond(path) == \E i \in 1 .. Len(path) - 1 : topo[path[i]].to = req.dest
ScenesSound ==
  \A i \in DOMAIN stack :
    LET n == stack[i][1]  scene == stack[i][2]
    IN /\ n # req.src => IsRoute(topo, scene.path, req.src, n)
       /\ scene.cost = Cost(topo, scene.path)
       /\ ~Beyond(scene.path) =>
            scene.tspec = TspecAlong(topo, scene.path, Mrn!Ingress)[Len(scene.path)]
       /\ req.e2e => ~IsEmpty(scene.tags)

(* The three together: every path, answered or on the way to an answer, is  *)
(* what it is taken for (CreateERO_List, PreserveSceneToStacks).            *)
PathsSound == AnswerIsRoute /\ AnswerCarries /\ ScenesSound

(* The tags a link lets through: what is free on it without what is used on *)
(* the links around it.                                                     *)
Open(l, tag) ==
  \/ Tagged(topo[l]) = {}
  \/ /\ \E iscd \in Tagged(topo[l]) : tag \in iscd.free
     /\ tag \notin UsedAround(topo, l)

(* The tag of an answer is free on all of its links, if it was asked for or *)
(* is from a mask. (ProceedByUpdatingVtags, hop by hop. Not so for tags up  *)
(* to 8, which DeleteTags overlooks, nor for "any tag", whose flag outlives *)
(* Clear.)                                                                  *)
TagIsFree ==
  Found /\ req.e2e /\ vtag > 8 /\ ~Named
    /\ (req.vtag # ANY_VTAG \/ (alg \in Mrns /\ req.mask # None)) =>
    \A i \in DOMAIN ero : Open(Route[i], vtag)

-----------------------------------------------------------------------------
(* What the searches are for, by enumeration: the routes of the graph, and  *)
(* those of them that keep the constraints the search looks at.             *)
Routes == {p \in UNION {[1 .. n -> Links(topo)] : n \in 1 .. Cardinality(Node) - 1} :
             IsRoute(topo, p, req.src, req.dest)}

Carries(p) ==
  LET t == TspecAlong(topo, p, Mrn!Ingress)
  IN \A i \in DOMAIN p :
       /\ alg # "spf" => IsAvailableForTspec(topo[p[i]], t[i - 1])
       /\ alg \in Mrns => t[i - 1].sw \notin req.excluded
       /\ alg \in Mrns /\ req.bidir =>
            /\ ReverseLink(topo, p[i]) # None
            /\ IsAvailableForTspec(topo[ReverseLink(topo, p[i])], t[i])

Offered == UNION {iscd.free : iscd \in UNION {Tagged(topo[l]) : l \in Links(topo)}}
Wanted  == IF alg \in Mrns /\ req.mask # None THEN req.mask
           ELSE IF req.vtag = ANY_VTAG THEN Offered ELSE {req.vtag}

Feasible(p) ==
  /\ Carries(p)
  /\ alg \in Mrns /\ Len(p) > 1 => CanBeEgressLink(topo, p[Len(p)], Mrn!Egress)
  /\ req.e2e => \E tag \in Wanted : \A i \in DOMAIN p : Open(p[i], tag)

(* A search that ends has found the cheapest of the routes that keep the    *)
(* constraints, and says "no route" only if there is none. For the searches *)
(* by deviations: in one region, and if K is at least the number of routes; *)
(* over channels, if all links have VLANs for a tag, and no router has more *)
(* than two ways on: a second deviation at one channel is masked off.       *)
(* For the base search: if no two routers have two links. For the second of *)
(* two searches: with the metrics that it was given.                        *)
(* (The Worth of a visit; the candidates and the rounds of the deviations.) *)
Exact ==
  /\ alg \in {"ksp", "cg"} => OneRegion
  /\ alg = "cg" => \A l \in Links(topo) : Len(Cg!Onward(l)) <= 2 /\ (req.e2e => Tagged(topo[l]) # {})
  /\ alg = "spf" => \A l, m \in Links(topo) : l # m => <<topo[l].from, topo[l].to>> # <<topo[m].from, topo[m].to>>
  /\ alg = "dcn" => dcn.phase # "done"

AnswerIsCheapest ==
  status \in {"found", "noroute"} /\ ~Named /\ Exact =>
    \A p \in Routes : Feasible(p) => Found /\ Cost(topo, Route) <= Cost(topo, p)

(* No path is found twice by the deviations: what was masked for a path is  *)
(* masked for those that deviate from it. (MaskParentPath, MaskNode, and    *)
(* MaskParentPath_MRN, MaskCGNode over channels.)                           *)
Distinct(paths) == \A i, j \in DOMAIN paths : i # j => paths[i].path # paths[j].path
NoPathTwice ==
  /\ pc = "take" => Distinct(IF found > 1 THEN cands \o ksp ELSE cands)
  /\ cg.pc = "take" => Distinct(IF cg.found > 1 THEN cg.cands \o cg.ksp ELSE cg.cands)

(* The alternatives are paths from the source to the destination, and the   *)
(* two that were made out of both searches have no connection in common if  *)
(* the network has two such paths for this request. (In both directions, or *)
(* the first path may use a link that cannot be run against. Not for any    *)
(* tag: the subobjects of the first path get the tag that was chosen where  *)
(* those of the second have none, and what differs is not trimmed.)         *)
(* (PrepareLinkDisjointSearch, and the trimming and swapping of tails.)     *)
IsPath(alt) ==
  /\ Head(alt).at = req.src /\ alt[Len(alt)].at = req.dest
  /\ \A i \in 1 .. Len(alt) \div 2 :
       /\ \E l \in Links(topo) : [k \in 1 .. 2 |-> [at |-> alt[2 * i - 2 + k].at, ifs |-> alt[2 * i - 2 + k].ifs]]
                                  = Dcn!Addresses(l)
       /\ i > 1 => alt[2 * i - 1].at = alt[2 * i - 2].at
       /\ \A j \in 1 .. i - 1 : alt[2 * j].at # alt[2 * i].at
Uses(alt)     == {[at |-> alt[i].at, ifs |-> alt[i].ifs] : i \in DOMAIN alt}
Connections(p) == UNION {Uses(Dcn!Addresses(p[i])) : i \in DOMAIN p}

AlternativesAreDisjoint ==
  alg = "dcn" /\ dcn.phase = "done" /\ Found /\ ~Named =>
    LET fit == {p \in Routes : Feasible(p)}
    IN /\ \A i \in DOMAIN dcn.alts : IsPath(dcn.alts[i])
       /\ OneRegion /\ req.bidir /\ req.vtag # ANY_VTAG /\ (\E p, q \in fit : Connections(p) \cap Connections(q) = {}) =>
            Uses(dcn.alts[2]) \cap Uses(dcn.alts[IF Len(dcn.alts) = 3 THEN 3 ELSE 1]) = {}

(* The two together: no search answers with, or goes on from, the same path *)
(* twice (MaskParentPath, PrepareLinkDisjointSearch).                       *)
AlternativesDiffer == NoPathTwice /\ AlternativesAreDisjoint

(* The search of regions ends although it comes to the same router many     *)
(* times, and the tails of two paths are not swapped for ever.              *)
Answered ==
  /\ alg = "mrn" /\ Valid => <>(status \notin {"new", "searching"})
  /\ dcn.phase = "trim" ~> dcn.phase = "done"
=============================================================================
