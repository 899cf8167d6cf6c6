---------------------------- MODULE MCPathSearch ----------------------------
(* Four routers: from s to d over a, over b or over both. A connection is a *)
(* pair of links in opposite directions, but for the broken ones.           *)
EXTENDS PathSearch

MCNode == {"s", "a", "b", "d"}

Iscd(sw, bw, min, vlan, free, alloc) ==
  [sw |-> sw, bw |-> bw, min |-> min, vlan |-> vlan, free |-> free, alloc |-> alloc]
Link(from, to, metric, ifs, iscds, iacds) ==
  [from |-> from, to |-> to, metric |-> metric, ifs |-> ifs, iscds |-> iscds, iacds |-> iacds, max |-> 2]

(* What a connection can do in its two directions.                          *)
Vlan(free, alloc) == Iscd(L2SC, 2, 0, TRUE, free, alloc)
Sonet             == Iscd(TDM, 2, 1, FALSE, {}, {})
Both(iscds)       == [there |-> iscds, back |-> iscds, iacds |-> <<>>]

Tags   == Both(<<Vlan({8, 9, 10}, {})>>)
Only9  == Both(<<Vlan({9}, {})>>)
Plain  == Both(<<Iscd(L2SC, 2, 0, FALSE, {}, {})>>)
Used9  == Both(<<Vlan({8, 9, 10}, {8, 9})>>)
Thin   == Both(<<Iscd(L2SC, 1, 0, TRUE, {9}, {})>>)
Trunk  == Both(<<Sonet>>)
Coarse == Both(<<Iscd(TDM, 3, 2, FALSE, {}, {})>>)
Up     == [there |-> <<Vlan({9}, {})>>, back |-> <<Sonet>>, iacds |-> <<>>]
Down   == [there |-> <<Sonet>>, back |-> <<Vlan({9}, {})>>, iacds |-> <<>>]
Mixed  == Both(<<Vlan({9}, {}), Sonet>>)
Adapts == [there |-> <<Vlan({9}, {})>>, back |-> <<Vlan({9}, {})>>,
           iacds |-> <<[lower |-> TDM, upper |-> L2SC]>>]
OneWay == [there |-> <<Vlan({9}, {})>>, back |-> None, iacds |-> <<>>]

Connection(m, n, metric, ifs, c) ==
  <<Link(m, n, metric, ifs, c.there, c.iacds)>>
    \o IF c.back = None THEN <<>> ELSE <<Link(n, m, metric, ifs, c.back, c.iacds)>>

(* The stub leads to a router that is not in the database.                  *)
Stub == Link("s", "x", 1, 9, <<Vlan({9}, {})>>, <<>>)
Diamond(m, c) ==
  Connection("s", "a", m[1], 1, c[1]) \o Connection("s", "b", m[2], 2, c[2])
    \o Connection("a", "d", m[4], 4, c[4]) \o Connection("b", "d", m[5], 5, c[5])
    \o Connection("a", "b", m[3], 3, c[3]) \o <<Stub>>

(* A second connection from s to a, dearer or cheaper than the first.       *)
Parallel(m, c) == Diamond(m, c) \o Connection("s", "a", 2, 6, Only9)

(* A copy of the first link of s, dearer.                                   *)
Copied(m, c) == Diamond(m, c) \o <<Link("s", "a", 2, 1, c[1].there, <<>>)>>

Metrics == {<<1, 3, 1, 4, 1>>, <<1, 1, 1, 1, 3>>}
Tagging == [1 .. 5 -> {Tags, Only9, Plain}]
Layered == {<<c[1], c[2], c[3], c[4], c[5]>> :
              c \in {Up, Only9, Adapts} \X {Up, Only9} \X {Trunk, Only9, Coarse, Mixed}
                      \X {Down, Only9, Trunk, Adapts} \X {Down, Only9}}
Broken  == {[[i \in 1 .. 5 |-> Tags] EXCEPT ![j] = c, ![k] = e] :
              j, k \in 1 .. 5, c \in {Used9, Thin, OneWay, Trunk}, e \in {Tags, Used9, Thin}}

Req(tag, bw, bidir) ==
  [src |-> "s", dest |-> "d", swIn |-> L2SC, swOut |-> L2SC, bw |-> bw, bidir |-> bidir,
   e2e |-> tag # 0, vtag |-> tag, mask |-> None, excluded |-> {},
   mrn |-> FALSE, ero |-> <<>>]
Ero(path) == [Req(ANY_VTAG, 2, TRUE) EXCEPT !.ero = path]
Pairs(hops) == [i \in 1 .. 2 * Len(hops) |-> [at |-> hops[(i + 1) \div 2][2 - (i % 2)], ifs |-> hops[(i + 1) \div 2][3]]]
Brought   == {Ero(Pairs(<<<<"s", "a", 1>>, <<"a", "b", 3>>, <<"b", "d", 5>>>>)), Ero(Pairs(<<<<"a", "d", 4>>>>)),
              Ero(Pairs(<<<<"s", "a", 1>>, <<"b", "d", 5>>>>)), Ero(Tail(Pairs(<<<<"s", "a", 1>>, <<"a", "d", 4>>>>)))}
Masked    == [Req(ANY_VTAG, 1, TRUE) EXCEPT !.mask = {9, 10}]
NoTdm     == [Req(9, 1, TRUE) EXCEPT !.excluded = {TDM}]
Stranger  == [Req(9, 1, TRUE) EXCEPT !.dest = "x"]
Tagless   == [Req(0, 1, TRUE) EXCEPT !.e2e = TRUE]

Of(algs, links, reqs) ==
  {[alg |-> a, links |-> l, req |-> r] : a \in algs, l \in links, r \in reqs}

MCCases ==
  LET Uneven(connections) == {Diamond(<<1, 3, 1, 4, 1>>, c) : c \in connections}
      Either(connections) == {Diamond(m, c) : m \in Metrics, c \in connections}
      Two(connections)    == {Parallel(<<1, 3, 1, 4, 1>>, c) : c \in connections}
      alike == Diamond(<<1, 1, 1, 1, 1>>, [i \in 1 .. 5 |-> Tags])
  IN Of({"mrn", "ksp"}, Uneven(Tagging), {Req(9, 2, TRUE), Req(ANY_VTAG, 1, FALSE)})
       \cup Of({"mrn"}, Uneven(Tagging), {Masked})
       \cup Of({"mrn", "ksp"}, Either(Layered), {Req(0, 2, TRUE)})
       \cup Of({"mrn"}, Uneven(Layered), {NoTdm, Req(9, 1, FALSE)})
       \cup Of({"mrn", "ksp", "cg"}, Either(Broken), {Req(9, 2, TRUE)})
       \cup Of({"mrn", "ksp", "cg"}, Uneven(Broken), {Req(0, 1, FALSE)})
       \cup Of({"mrn", "cg"}, Two(Broken), {Req(9, 1, TRUE)})
       \cup Of({"mrn", "ksp", "cg"}, {alike},
               {Stranger, Tagless, Req(4096, 1, TRUE), [Req(9, 1, TRUE) EXCEPT !.excluded = {L2SC}]})
       \cup Of({"cg"}, Uneven([1 .. 5 -> {Tags, Only9}]), {Req(ANY_VTAG, 1, FALSE)})
       \cup Of({"cg"}, Uneven(Layered), {Req(0, 1, FALSE)})
       \cup Of({"cg"}, {Copied(m, c) : m \in Metrics, c \in {[i \in 1 .. 5 |-> Tags], [i \in 1 .. 5 |-> Only9]}},
               {Req(9, 1, TRUE)})
       \cup Of({"spf"}, Uneven(Layered \cup Broken) \cup Two(Broken), {Req(0, 2, TRUE)})
       \cup Of({"spf"}, {alike}, {Req(9, 1, TRUE), [Req(0, 1, TRUE) EXCEPT !.mrn = TRUE]})
       \cup Of({"dcn"}, Either(Broken), {Req(9, 2, TRUE)})
       \cup Of({"dcn"}, Uneven(Broken), Brought)
       \cup Of({"dcn"}, Uneven(Layered), {Req(0, 2, TRUE)})
=============================================================================
