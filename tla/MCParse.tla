------------------------------- MODULE MCParse -------------------------------
(***************************************************************************)
(* TLC instances of classic_parse() and of the pruning that it calls: the  *)
(* loop over null counts of ClassicParse, or pp_and_power_prune() of       *)
(* PowerPrune.  In a behaviour one of the two runs; the other one stays as *)
(* it starts.                                                              *)
(***************************************************************************)
EXTENDS MCClassicParse, PowerPrune

(* The instances of PowerPrune: sentences of three and four words whose     *)
(* disjuncts share tracons, some of them useless, and one contains-one     *)
(* rule.                                                                   *)
A == [uc |-> "A", multi |-> FALSE, limit |-> 9]
B == [uc |-> "B", multi |-> FALSE, limit |-> 9]
C == [uc |-> "C", multi |-> FALSE, limit |-> 9]
M == [uc |-> "A", multi |-> TRUE, limit |-> 9]
S == [uc |-> "A", multi |-> FALSE, limit |-> 1]

D(l, r) == [left |-> l, right |-> r]

Starts == <<D(<<>>, <<A>>), D(<<>>, <<B, A>>), D(<<>>, <<M>>)>>
Middle == <<D(<<A>>, <<A>>), D(<<A>>, <<>>), D(<<>>, <<A>>), D(<<A>>, <<B>>)>>
Multis == <<D(<<>>, <<M>>), D(<<M>>, <<>>), D(<<M>>, <<M>>), D(<<B>>, <<M>>)>>
Near   == <<D(<<S>>, <<>>), D(<<>>, <<S>>), D(<<S>>, <<A>>), D(<<A, S>>, <<>>)>>
Final  == <<D(<<B, A>>, <<>>), D(<<A>>, <<>>), D(<<A, A>>, <<>>), D(<<B>>, <<>>)>>
NoWay  == <<>>

Short == [0..2 -> {Starts, Middle, Multis, Near, Final, NoWay}]

Seq0(s) == [w \in 0..(Len(s) - 1) |-> s[w + 1]]

Long ==
  LET a == {<<D(<<>>, <<A>>), D(<<>>, <<B, A>>)>>, <<D(<<>>, <<B, M>>)>>, <<D(<<>>, <<A>>)>>}
      chain == <<D(<<A>>, <<A>>), D(<<M>>, <<C>>)>>
      near  == <<D(<<S>>, <<A>>), D(<<>>, <<C, S>>)>>
      b == {<<chain, near>>, <<near, chain>>, <<chain, chain>>, <<near, NoWay>>}
      z == {<<D(<<B, A>>, <<>>), D(<<C>>, <<>>)>>, <<D(<<M>>, <<>>), D(<<B, C>>, <<>>)>>}
  IN  {Seq0(<<p, q[1], q[2], t>>) : p \in a, q \in b, t \in z}

(* All C links break the rule, and the sentence has a linkage without.     *)
Ruled == Seq0(<<<<D(<<>>, <<A>>), D(<<>>, <<C>>)>>,
                <<D(<<A>>, <<A>>), D(<<C>>, <<A>>), D(<<>>, <<A>>)>>,
                <<D(<<A>>, <<A>>), D(<<C>>, <<>>)>>,
                <<D(<<A>>, <<>>), D(<<A, A>>, <<>>)>>>>)

MCSentences == Short \cup Long \cup {Ruled}

MCRules == <<[selector |-> "C", link_set |-> {"B"}]>>
MCNullCounts == {<<0, 0>>, <<1, 0>>, <<1, 1>>, <<254, 1>>}

-----------------------------------------------------------------------------
VARIABLE which

MCInit ==
  /\ which \in {"parsing", "pruning"}
  /\ which # "parsing" => opts = CHOOSE o \in Options : TRUE
  /\ Init
  /\ which # "pruning" => /\ sentence = [w \in 0..2 |-> NoWay]
                          /\ islands_ok = FALSE /\ null_links = 0 /\ null_count = 0
  /\ PruneInit

ParsingNext == which = "parsing" /\ Next /\ UNCHANGED <<which, prunevars>>
PruningNext == which = "pruning" /\ PruneNext /\ UNCHANGED <<which, vars>>

MCNext == ParsingNext \/ PruningNext

(* The call that runs goes on; nobody has to call.                         *)
MCSpec ==
  /\ MCInit /\ [][MCNext]_<<which, vars, prunevars>>
  /\ WF_vars(which = "parsing" /\ ParseStep /\ UNCHANGED <<which, prunevars>>)
  /\ WF_prunevars(PruningNext)

(* The passes come to an end: Terminates of PowerPrune.                    *)
PruningEnds == which = "pruning" => Terminates
=============================================================================
