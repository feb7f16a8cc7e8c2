----------------------------- MODULE PPDomains -----------------------------
(***************************************************************************)
(* The post-processing of one linkage: the graph of its links, the domains *)
(* that certain links start, the forest of domains, and the rules          *)
(* (internal_process() in post-process.c).                                 *)
(*                                                                         *)
(* A link is a record [lw, rw, name]; a linkage is a sequence of links and *)
(* a link is known by its index.  A name is a record [uc, sub]: the upper  *)
(* case part, and the sequence of the subscripts.  (The head-dependent     *)
(* indicator in front of a link's name is skipped by every match and left  *)
(* out.)                                                                   *)
(***************************************************************************)
EXTENDS Integers, Sequences, FiniteSets, SequencesExt

CONSTANTS
  NumWords,    \* pp_data->num_words
  Knowledge    \* pp->knowledge: sets of names and sequences of rules

Words == 0..(NumWords - 1)

(* TLC evaluates x once. *)
Once(x) == CHOOSE y \in {x} : TRUE

-----------------------------------------------------------------------------
(* Names and sets of names. *)

(* post_process_match(): the symbol s matches the link name t.             *)
PostProcessMatch(s, t) ==
  /\ s.uc = t.uc
  /\ \A k \in 1..Len(s.sub) :
       IF k > Len(t.sub) THEN s.sub[k] \in {"*", "#"} ELSE s.sub[k] \in {t.sub[k], "#"}

(* pp_linkset_match(), string_in_list() *)
LinksetMatch(ls, name) == \E s \in ls : PostProcessMatch(s, name)

(* pp_linkset_match_bw(): the names of the set are link names. *)
LinksetMatchBw(ls, symbol) == \E t \in ls : PostProcessMatch(symbol, t)

-----------------------------------------------------------------------------
(* build_graph(): for each word its links, with the word at the other end, *)
(* the last link first.                                                    *)

Edges(links, l, w) ==
  IF LinksetMatch(Knowledge.ignore, links[l].name) THEN <<>>
  ELSE IF links[l].lw = w THEN <<[link |-> l, word |-> links[l].rw]>>
  ELSE IF links[l].rw = w THEN <<[link |-> l, word |-> links[l].lw]>>
  ELSE <<>>

BuildGraph(links) ==
  Once([w \in Words |-> FoldLeft(LAMBDA lol, l : Edges(links, l, w) \o lol, <<>>,
                                 [l \in 1..Len(links) |-> l])])

-----------------------------------------------------------------------------
(* The four searches.  s has what does not change during a search: the     *)
(* linkage, its graph, the start link, the root word (for the search from  *)
(* a left domain: the right word) and the right word.                      *)

Restricted(s, w, e) ==
  /\ e.word < s.root /\ e.word < w
  /\ LinksetMatch(Knowledge.restricted, s.links[e.link].name)

(* add_link_to_domain() is called for e *)
Adds(kind, s, w, e) ==
  /\ e.word < w /\ e.link # s.start
  /\ kind \in {"urfl", "urfl_only"} => w # s.root

(* The search goes on to the word of e, if it has not been visited. *)
Follows(kind, s, w, e) ==
  CASE kind = "left" -> e.word # s.root
    [] kind = "domain" -> e.word # s.root /\ ~Restricted(s, w, e)
    [] kind = "urfl" -> ~(w = s.root /\ e.word < w) /\ ~Restricted(s, w, e)
    [] kind = "urfl_only" -> ~(w = s.root /\ e.word \notin s.root..(s.right - 1)) /\ ~Restricted(s, w, e)

(* Mutant: the search of a left domain calls itself. *)
ContinuesLeft(kind) == kind

(* left_depth_first_search() continues as depth_first_search(). *)
Continues(kind) == IF kind = "left" THEN "domain" ELSE kind

(* depth_first_search(), bad_depth_first_search(), d_depth_first_search()  *)
(* and left_depth_first_search(); st has the visited words and the links   *)
(* of the domain.                                                          *)
RECURSIVE Search(_, _, _, _)
Search(kind, s, w, st) ==
  LET lol   == s.graph[w]
      added == SelectSeq(lol, LAMBDA e : Adds(kind, s, w, e))
      visit(v, e) == IF e.word \notin v.visited /\ Follows(kind, s, w, e)
                     THEN Search(Continues(kind), s, e.word, v) ELSE v
  IN  FoldLeft(LAMBDA v, e : CHOOSE r \in {visit(u, e) : u \in {v}} : TRUE,
               [visited |-> st.visited \cup {w},
                lol     |-> st.lol \o [k \in 1..Len(added) |-> added[k].link]],
               lol)

(* Which of the four kinds of domain the link starts.                      *)
Kind(name) ==
  IF LinksetMatch(Knowledge.ignore, name) THEN "none"
  ELSE IF LinksetMatch(Knowledge.domain_starter, name) THEN "domain"
  ELSE IF LinksetMatch(Knowledge.urfl_starter, name) THEN "urfl"
  ELSE IF LinksetMatch(Knowledge.urfl_only_starter, name) THEN "urfl_only"
  ELSE IF LinksetMatch(Knowledge.left_starter, name) THEN "left"
  ELSE "none"

(* Whether the start link is in its domain. *)
ContainsStart(kind, name) ==
  kind = "urfl" \/ (kind = "domain" /\ LinksetMatch(Knowledge.domain_contains, name))

(* find_domain_name() *)
DomainType(name) ==
  LET found == {i \in DOMAIN Knowledge.starting_link :
                  PostProcessMatch(Knowledge.starting_link[i].starting_link, name)}
  IN  IF found = {} THEN "none"
      ELSE Knowledge.starting_link[CHOOSE i \in found : \A j \in found : i <= j].domain

Domain(links, graph, l) ==
  LET kind  == Kind(links[l].name)
      first == IF kind \in {"domain", "urfl"} THEN links[l].rw ELSE links[l].lw
      s     == [links |-> links, graph |-> graph, start |-> l, right |-> links[l].rw,
                root |-> IF kind = "left" THEN links[l].rw ELSE links[l].lw]
  IN  [start |-> l, type |-> DomainType(links[l].name),
       lol |-> Search(kind, Once(s), first,
                      [visited |-> {}, lol |-> IF ContainsStart(kind, links[l].name) THEN <<l>> ELSE <<>>]).lol]

(* build_domains(): the domains by size; domains of the same size stay in  *)
(* the order of their links.                                               *)
SortedBySize(ds) ==
  LET place(i) == Cardinality({j \in DOMAIN ds : \/ Len(ds[j].lol) < Len(ds[i].lol)
                                                 \/ Len(ds[j].lol) = Len(ds[i].lol) /\ j <= i})
  IN  Once([p \in 1..Len(ds) |-> ds[CHOOSE i \in DOMAIN ds : place(i) = p]])

BuildDomains(links) ==
  LET graph  == BuildGraph(links)
      starts == SelectSeq([l \in 1..Len(links) |-> l], LAMBDA l : Kind(links[l].name) # "none")
  IN  SortedBySize(Once([k \in 1..Len(starts) |-> Domain(links, graph, starts[k])]))

(* build_domain_forest(): the group of a domain, its links that are in no  *)
(* domain before it.  (The parents are not used by the rules.)             *)
Groups(domains, links) ==
  Once([d \in DOMAIN domains |->
          {l \in DOMAIN links : /\ l \in ToSet(domains[d].lol)
                                /\ \A e \in 1..(d - 1) : l \notin ToSet(domains[e].lol)}])

-----------------------------------------------------------------------------
(* The rules.  A rule is a record [selector, link_set, domain, msg]; p has *)
(* the linkage, its graph, its domains and their groups.                   *)

HasSelector(p, ls, rule) == \E l \in ls : PostProcessMatch(rule.selector, p.links[l].name)
HasOneOf(p, ls, rule) == \E l \in ls : LinksetMatch(rule.link_set, p.links[l].name)

ApplyContainsOneGlobally(links, rule) ==
  LET p == [links |-> links]
  IN  HasSelector(p, DOMAIN links, rule) => HasOneOf(p, DOMAIN links, rule)

ApplyContainsOne(p, rule) ==
  \A d \in DOMAIN p.groups : HasSelector(p, p.groups[d], rule) => HasOneOf(p, p.groups[d], rule)

ApplyContainsNone(p, rule) ==
  \A d \in DOMAIN p.groups : HasSelector(p, p.groups[d], rule) => ~HasOneOf(p, p.groups[d], rule)

(* reachable_without_dfs() *)
RECURSIVE ReachableWithout(_, _, _, _, _)
ReachableWithout(graph, a, b, w, visited) ==
  FoldLeft(LAMBDA v, e :
             IF e.word \in v \/ {w, e.word} = {a, b} THEN v
             ELSE Once(ReachableWithout(graph, a, b, e.word, v)),
           visited \cup {w}, graph[w])

(* Both the links of the graph and the ignored ones must be in a cycle.    *)
ApplyMustFormACycle(p, rule) ==
  \A l \in DOMAIN p.links :
    LinksetMatch(rule.link_set, p.links[l].name) =>
      p.links[l].rw \in ReachableWithout(p.graph, p.links[l].lw, p.links[l].rw, p.links[l].lw, {})

ApplyBounded(p, rule) ==
  \A d \in DOMAIN p.domains :
    p.domains[d].type = rule.domain =>
      \A l \in ToSet(p.domains[d].lol) : p.links[l].lw >= p.links[p.domains[d].start].lw

Processed(links) ==
  LET domains == BuildDomains(links)
  IN  [links |-> links, graph |-> BuildGraph(links), domains |-> domains,
       groups |-> Groups(domains, links)]

(* The messages of the rules that are broken, in the order in which they   *)
(* are tried, where only the rules in one and none are tried of the        *)
(* contains-one and contains-none rules.                                   *)
Broken(rules, Holds(_)) ==
  SelectSeq([k \in 1..Len(rules) |-> IF Holds(rules[k]) THEN "" ELSE rules[k].msg],
            LAMBDA m : m # "")

(* internal_process() after the global rules *)
LocalViolations(links, one, none) ==
  LET p == Once(Processed(links))
  IN  Broken(one, LAMBDA r : ApplyContainsOne(p, r))
        \o Broken(none, LAMBDA r : ApplyContainsNone(p, r))
        \o Broken(Knowledge.form_a_cycle, LAMBDA r : ApplyMustFormACycle(p, r))
        \o Broken(Knowledge.bounded, LAMBDA r : ApplyBounded(p, r))

GlobalViolations(links, one) == Broken(one, LAMBDA r : ApplyContainsOneGlobally(links, r))

NoViolation == ""

(* The violation that internal_process() reports. *)
Violation(links, one, none) ==
  LET global == GlobalViolations(links, one)
      all    == IF global # <<>> THEN global ELSE LocalViolations(links, one, none)
  IN  IF all = <<>> THEN NoViolation ELSE Head(all)
=============================================================================
