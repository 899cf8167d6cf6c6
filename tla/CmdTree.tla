------------------------------ MODULE CmdTree -------------------------------
(***************************************************************************)
(* The commands of one level of a command line (class cmdtree, narb and    *)
(* rce cmdtree.cc): how they are put into a tree when a session starts,    *)
(* how the words of a line are looked up in it and how they are completed. *)
(*                                                                         *)
(* A command is a sequence of tags: a keyword, a choice {a|b|...} or an    *)
(* argument.  A node of the tree is its index in tree; its children are    *)
(* met in the order in which they were made.                               *)
(***************************************************************************)
EXTENDS Naturals, Sequences, FiniteSets, SequencesExt

CONSTANTS
  Levels,    (* the levels: each a sequence of commands, as they are added *)
  Typed(_),  (* the words that are typed at a level                        *)
  Begins,    (* what each word is the beginning of                         *)
  MaxWords   (* bound: words of a line                                     *)

Starts(w, t) == t \in Begins[w]

VARIABLES level, tree, added, line, found, completed
vars == <<level, tree, added, line, found, completed>>

Keyword(t) == [kind |-> "CMD", words |-> <<t>>]
Choice(ts) == [kind |-> "ARG_M", words |-> ts]
Argument   == [kind |-> "ARG_S", words |-> <<>>]

Root == 1
None == 0
Nowhere  == [node |-> None, args |-> <<>>]
NoLine   == <<>>
NotAsked == [ret |-> 0, node |-> None, args |-> <<>>]

Start(l) == /\ level = l /\ added = 0
            /\ tree = <<[tag |-> Argument, parent |-> None, command |-> None]>>
            /\ line = NoLine /\ found = NotAsked /\ completed = <<>>
Init == \E l \in Levels : Start(l)

Children(t, n) == SelectSeq([i \in 1 .. Len(t) |-> i], LAMBDA i : t[i].parent = n)

-----------------------------------------------------------------------------
(* Insert.                                                                 *)

(* Two choices at one place have to be the same.                           *)
SameKind(a, b) == a.kind = b.kind /\ (a.kind = "CMD" => a = b)

(* Node None: the command is refused.                                      *)
Descend(st, tag) ==
  LET same == SelectSeq(Children(st.tree, st.node), LAMBDA i : SameKind(st.tree[i].tag, tag))
  IN  IF st.node = None THEN st
      ELSE IF same = <<>> THEN
        [tree |-> Append(st.tree, [tag |-> tag, parent |-> st.node, command |-> None]),
         node |-> Len(st.tree) + 1]
      ELSE [st EXCEPT !.node = IF tag.kind = "ARG_M" /\ st.tree[same[1]].tag # tag THEN None
                               ELSE same[1]]

Insert(t, tags, c) ==
  LET end == FoldLeft(Descend, [tree |-> t, node |-> Root], tags)
  IN  IF end.node = None THEN end.tree ELSE [end.tree EXCEPT ![end.node].command = c]

AddCommand ==
  /\ added < Len(level)
  /\ added' = added + 1
  /\ tree' = Insert(tree, level[added + 1], added + 1)
  /\ UNCHANGED <<level, line, found, completed>>

-----------------------------------------------------------------------------
(* Search.                                                                 *)

(* One child, with the word w: ov are the meanings found, stop that one of *)
(* them is the word itself.  A choice is where the search goes on even if  *)
(* none of its words fits.                                                 *)
Meanings(tag, w) == SelectSeq(tag.words, LAMBDA t : Starts(w, t))

(* Mutant: a keyword in full does not win over those it begins.            *)
TryChild_NoExact(st, tag, n, w) ==
  CASE tag.kind = "ARG_S" -> [st EXCEPT !.ov = Append(@, w), !.node = n, !.arg = TRUE]
    [] tag.kind = "ARG_M" -> [st EXCEPT !.ov = @ \o Meanings(tag, w), !.node = n,
                                        !.arg = @ \/ Meanings(tag, w) # <<>>]
    [] OTHER -> IF Meanings(tag, w) = <<>> THEN st
                ELSE [st EXCEPT !.ov = Append(@, tag.words[1]), !.node = n]
TryChild(st, tag, n, w) ==
  CASE st.stop -> st
    [] tag.kind = "ARG_S" -> [st EXCEPT !.ov = Append(@, w), !.node = n, !.arg = TRUE]
    [] tag.kind = "ARG_M" -> [st EXCEPT !.ov = @ \o Meanings(tag, w), !.node = n,
                                        !.arg = @ \/ Meanings(tag, w) # <<>>]
    [] OTHER -> IF Meanings(tag, w) = <<>> THEN st
                ELSE IF tag.words[1] = w THEN [st EXCEPT !.ov = <<w>>, !.node = n, !.stop = TRUE]
                ELSE [st EXCEPT !.ov = Append(@, tag.words[1]), !.node = n]

Tried(t, n, w) ==
  FoldLeft(LAMBDA st, i : TryChild(st, t[i].tag, i, w),
           [ov |-> <<>>, node |-> n, arg |-> FALSE, stop |-> FALSE], Children(t, n))

(* The words that may follow, for a line that is not a command yet.        *)
Following(t, n) ==
  FoldLeft(LAMBDA s, i : s \o (IF t[i].tag.kind = "ARG_S" THEN <<Argument>> ELSE t[i].tag.words),
           <<>>, Children(t, n))

SearchWord(t, st, w) ==
  LET at == Tried(t, st.node, w)
  IN  CASE st.ret # 1 -> st
        [] at.ov = <<>> -> [ret |-> 0, node |-> None, args |-> st.args]
        [] Len(at.ov) > 1 -> [ret |-> Len(at.ov), node |-> None, args |-> at.ov]
        [] OTHER -> [ret |-> 1, node |-> at.node,
                     args |-> IF at.arg THEN Append(st.args, w) ELSE st.args]

Search(t, iv) ==
  LET end == FoldLeft(LAMBDA st, w : SearchWord(t, st, w),
                      [ret |-> 1, node |-> Root, args |-> <<>>], iv)
  IN  IF end.node # None /\ t[end.node].command = None
      THEN [end EXCEPT !.args = Following(t, end.node)] ELSE end

-----------------------------------------------------------------------------
(* Complete: the words up to the first that has no single meaning.  An     *)
(* argument is its own meaning.                                            *)

(* Mutant: the first of several meanings is taken.                         *)
CompleteWord_First(t, st, w) ==
  LET at == Tried(t, st.node, w)
  IN  IF st.stuck \/ at.ov = <<>> THEN [st EXCEPT !.stuck = TRUE, !.words = Append(@, w)]
      ELSE [st EXCEPT !.node = at.node, !.words = Append(@, at.ov[1]), !.done = @ + 1]
CompleteWord(t, st, w) ==
  LET at == Tried(t, st.node, w)
  IN  IF st.stuck \/ Len(at.ov) # 1 THEN [st EXCEPT !.stuck = TRUE, !.words = Append(@, w)]
      ELSE [st EXCEPT !.node = at.node, !.words = Append(@, at.ov[1]), !.done = @ + 1]

Complete(t, iv) ==
  FoldLeft(LAMBDA st, w : CompleteWord(t, st, w),
           [words |-> <<>>, node |-> Root, done |-> 0, stuck |-> FALSE], iv)

(* ExecuteCommand and CompleteCommand of a line.                           *)
Ask(iv) ==
  /\ added = Len(level) /\ line = NoLine
  /\ line' = iv
  /\ found' = Search(tree, iv)
  /\ completed' = Complete(tree, iv)
  /\ UNCHANGED <<level, tree, added>>

Next == AddCommand \/ \E iv \in UNION {[1 .. n -> Typed(level)] : n \in 1 .. MaxWords} : Ask(iv)

Spec == Init /\ [][Next]_vars

-----------------------------------------------------------------------------
(* Properties.                                                             *)

(* What the words mean: the commands that agree with the line so far, a    *)
(* keyword in full being preferred to those it begins.                     *)
Fits(tag, w) == tag.kind = "ARG_S" \/ \E j \in 1 .. Len(tag.words) : Starts(w, tag.words[j])
Kept(cs, i, w) ==
  LET here == {c \in cs : i <= Len(level[c])}
      full == {c \in here : level[c][i] = Keyword(w)}
  IN  IF full # {} THEN full ELSE {c \in here : Fits(level[c][i], w)}
OneMeaning(tags, w) ==
  /\ Cardinality(tags) = 1
  /\ \A tag \in tags : tag.kind = "ARG_M" => Len(Meanings(tag, w)) = 1
MeantWord(st, w) ==
  LET kept == Kept(st.commands, st.i, w)
  IN  [commands |-> kept, i |-> st.i + 1,
       clear |-> st.clear /\ OneMeaning({level[c][st.i] : c \in kept}, w)]
Meant == FoldLeft(MeantWord, [commands |-> 1 .. Len(level), i |-> 1, clear |-> TRUE], line)
Denoted == LET m == Meant IN IF m.clear THEN {c \in m.commands : Len(level[c]) = Len(line)} ELSE {}
ArgumentsOf(c) ==
  LET is == SelectSeq([i \in 1 .. Len(line) |-> i], LAMBDA i : level[c][i].kind # "CMD")
  IN  [j \in 1 .. Len(is) |-> line[is[j]]]

(* No choice is added after a keyword that has the same place.  Where one   *)
(* is, Search goes on from the choice although only the keyword fits; NARB *)
(* and RCE add their choices first (narb/cli.cc:2785-2786, 2832-2836).     *)
SamePlace(a, b, k) == k \in DOMAIN a /\ SubSeq(a, 1, k - 1) = SubSeq(b, 1, k - 1)
ChoicesFirst ==
  \A i, j \in DOMAIN level : i < j =>
    \A k \in DOMAIN level[j] :
      SamePlace(level[i], level[j], k) /\ level[i][k].kind = "CMD" => level[j][k].kind # "ARG_M"

(* A line that can only mean one command runs that command, with the words *)
(* that are its arguments; one that can mean several, or none, runs none   *)
(* (cmdtree.hh:81-83).                                                     *)
OneCommand ==
  LET c == IF found.node = None THEN None ELSE tree[found.node].command
      denoted == Denoted
  IN  IF denoted = {} THEN c = None ELSE c \in denoted /\ found.args = ArgumentsOf(c)

(* A line that is completed to its end means what it meant before; one     *)
(* that is not means nothing that could be run.                            *)
CompletesToTheSame ==
  IF completed.done = Len(line)
  THEN LET again == Search(tree, completed.words)
       IN  again.node = found.node /\ completed.node = found.node
  ELSE found.ret # 1 /\ completed.done < Len(line)

(* The two together, in every order of the commands that has its choices   *)
(* first (CmdTree: Insert, Search, Complete).                              *)
FindsWhatIsMeant == line # NoLine /\ ChoicesFirst => OneCommand /\ CompletesToTheSame
=============================================================================
