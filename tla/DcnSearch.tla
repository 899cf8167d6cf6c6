----------------------------- MODULE DcnSearch -----------------------------
(***************************************************************************)
(* PCEN_DCN: the path of a request is verified, if it names one, or else   *)
(* alternatives are computed by two searches through the regions: the      *)
(* second avoids the links of the first path and is drawn to run against   *)
(* them, and what both use in opposite directions is cut out.              *)
(***************************************************************************)
EXTENDS MrnSearch, Integers, SequencesExt

VARIABLES dcn   \* [phase, alts: path_alts and ero_alts, hops: of the first path]

PCEN_VERYBIG_COST == 1000000

DcnIdle == dcn = [phase |-> "idle", alts |-> <<>>, hops |-> <<>>]

-----------------------------------------------------------------------------
(* VerifyPathWithERO: pairs of interface addresses are looked up as links   *)
(* that follow each other. They are not compared with the source and the    *)
(* destination, and tags are not looked at.                                 *)
Addresses(l)    == <<[at |-> topo[l].from, ifs |-> topo[l].ifs], [at |-> topo[l].to, ifs |-> topo[l].ifs]>>
Named(pair, at) == {l \in Links(topo) : (at = None \/ topo[l].from = at) /\ Addresses(l) = pair}

Reservable(l) ==
  /\ topo[l].max >= req.bw
  /\ ReverseLink(topo, l) # None /\ topo[ReverseLink(topo, l)].max >= req.bw

Walk ==
  FoldLeft(LAMBDA w, i :
             LET at  == IF w.links = <<>> THEN None ELSE topo[w.links[Len(w.links)]].to
                 named == Named(<<req.ero[2 * i - 1], req.ero[2 * i]>>, at)
                 l == CHOOSE k \in named : \A m \in named : k <= m
             IN IF ~w.ok \/ named = {} THEN [w EXCEPT !.ok = FALSE]
                ELSE [ok |-> Reservable(l), links |-> Append(w.links, l)],
           [ok |-> Len(req.ero) % 2 = 0, links |-> <<>>], [i \in 1 .. Len(req.ero) \div 2 |-> i])

VerifyEro ==
  /\ dcn.phase = "idle" /\ req.ero # <<>>
  /\ dcn' = [dcn EXCEPT !.phase = "done"]
  /\ IF ~Walk.ok
     THEN status' = "noroute" /\ UNCHANGED <<ero, vtag>>
     ELSE /\ status' = "found"
          /\ ero' = [i \in DOMAIN Walk.links |-> [link |-> Walk.links[i], swIn |-> None, swOut |-> None,
                                                  tagIn |-> 0, tagOut |-> 0]]
          /\ vtag' = IF req.e2e /\ vtag = ANY_VTAG THEN 0 ELSE vtag
  /\ UNCHANGED <<topo, req, node, seenLinks, stack, head, rest, nextVtags>>

-----------------------------------------------------------------------------
(* PostBuildTopology: tags that are used count as free. The bandwidth is    *)
(* raised for all priorities but the last, the one that the searches read.  *)
Relaxed(link) ==
  [link EXCEPT !.iscds = [i \in DOMAIN @ |-> IF @[i].sw = L2SC /\ @[i].vlan
                            THEN [@[i] EXCEPT !.free = @ \cup link.iscds[i].alloc, !.alloc = {}] ELSE @[i]]]

Relax ==
  /\ dcn.phase = "idle" /\ req.ero = <<>>
  /\ dcn' = [dcn EXCEPT !.phase = "first"]
  /\ topo' = [l \in Links(topo) |-> Relaxed(topo[l])]
  /\ UNCHANGED <<req, vtag, ero, status, node, seenLinks, stack, head, rest, nextVtags>>

Search == dcn.phase \in {"first", "second"} /\ MrnNext /\ UNCHANGED dcn

(* The first path is kept. CleanUpTopology, where the tags of the source    *)
(* keep the flag for any tag, PrepareLinkDisjointSearch, where the links of *)
(* the path become dear and their reverses pay, and PerformComputation.     *)
Back(links) == {ReverseLink(topo, l) : l \in links} \ {None}
Priced(links) ==
  [l \in Links(topo) |-> IF l \in links THEN [topo[l] EXCEPT !.metric = PCEN_VERYBIG_COST]
                         ELSE IF l \in Back(links) /\ topo[l].metric > 0
                         THEN [topo[l] EXCEPT !.metric = -@] ELSE topo[l]]

Again ==
  LET again  == [Fresh EXCEPT !.cost = 0, !.tags = [SourceTags EXCEPT !.any = @ \/ node[req.src].tags.any]]
  IN /\ dcn.phase = "first" /\ status = "found"
     /\ dcn' = [dcn EXCEPT !.phase = "second", !.hops = ero]
     /\ topo' = Priced(Range(node[req.dest].path))
     /\ node' = [n \in Node |-> IF n = req.src THEN again ELSE Fresh]
     /\ stack' = <<Scene(req.src, again)>>
     /\ seenLinks' = {} /\ ero' = <<>> /\ status' = "searching"
     /\ UNCHANGED <<req, vtag, head, rest, nextVtags>>

-----------------------------------------------------------------------------
(* CreateMaxDisjointPaths works on subobjects: two per link, with the       *)
(* switching type and the tag that the path has there.                      *)
Subobjects(hops) ==
  FlattenSeq([i \in DOMAIN hops |->
    LET a == Addresses(hops[i].link)
    IN <<[at |-> a[1].at, ifs |-> a[1].ifs, sw |-> hops[i].swIn, tag |-> hops[i].tagIn],
         [at |-> a[2].at, ifs |-> a[2].ifs, sw |-> hops[i].swOut, tag |-> hops[i].tagOut]>>])

(* The first path goes into the trimming once more, as the third. Without a *)
(* second path the answer is made of an empty vector.                       *)
Pair ==
  /\ dcn.phase = "second" /\ status \in {"found", "noroute"}
  /\ IF status = "noroute"
     THEN status' = "crashed" /\ dcn' = dcn
     ELSE /\ status' = status
          /\ dcn' = [dcn EXCEPT !.phase = "trim",
                       !.alts = <<Subobjects(dcn.hops), Subobjects(ero), Subobjects(dcn.hops)>>]
  /\ UNCHANGED <<topo, req, vtag, ero, node, seenLinks, stack, head, rest, nextVtags>>

(* TrimOppositeSharedSegmentAndSwapTail. Beyond what the two have in common *)
(* at either end, and one subobject more, where does one run into what the  *)
(* other runs through backwards?                                            *)
Meets(e, o, i) ==
  LET common == Len(LongestCommonPrefix({e, o}))
      tail   == Len(LongestCommonPrefix({Reverse(e), Reverse(o)}))
  IN /\ i >= common + 2 /\ i < Len(e)
     /\ \E j \in 2 .. Len(o) - tail - 1 : e[i] = o[j] /\ e[i + 1] = o[j - 1]

Opposite(e, o) == {i \in DOMAIN e : Meets(e, o, i)}
Smallest(S) == CHOOSE i \in S : \A j \in S : i <= j
Where(e, sub) == SelectInSeq(e, LAMBDA s : s = sub)

CanTrim == Opposite(dcn.alts[2], dcn.alts[3]) # {} /\ Opposite(dcn.alts[3], dcn.alts[2]) # {}

(* Both are cut where the segment begins, and go on as the other does       *)
(* behind it. (Mutant first: as they did.)                                  *)
Swapped_Own(e, o) == SubSeq(e, 1, Smallest(Opposite(e, o)) - 1)
                       \o SubSeq(e, Where(e, o[Smallest(Opposite(o, e))]) + 1, Len(e))
Swapped(e, o) == SubSeq(e, 1, Smallest(Opposite(e, o)) - 1)
                   \o SubSeq(o, Where(o, e[Smallest(Opposite(e, o))]) + 1, Len(o))

Trim ==
  /\ dcn.phase = "trim" /\ CanTrim
  /\ dcn' = [dcn EXCEPT !.alts[2] = Swapped(dcn.alts[2], dcn.alts[3]),
                        !.alts[3] = Swapped(dcn.alts[3], dcn.alts[2])]
  /\ UNCHANGED <<topo, req, vtag, ero, status, node, seenLinks, stack, head, rest, nextVtags>>

(* ReplyEROWithAltPaths. The third is left out if it is the first.          *)
Reply ==
  /\ dcn.phase = "trim" /\ ~CanTrim
  /\ dcn' = [dcn EXCEPT !.phase = "done",
               !.alts = IF dcn.alts[3] = dcn.alts[1] THEN SubSeq(@, 1, 2) ELSE @]
  /\ ero' = dcn.hops
  /\ UNCHANGED <<topo, req, vtag, status, node, seenLinks, stack, head, rest, nextVtags>>

DcnNext == VerifyEro \/ Relax \/ Search \/ Again \/ Pair \/ Trim \/ Reply
=============================================================================
