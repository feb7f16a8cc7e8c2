---------------------------- MODULE PostProcess ----------------------------
(***************************************************************************)
(* post_process_lkgs(): the linkages of a sentence are tested against the  *)
(* rules of the dictionary.  For long sentences (two passes) the names of  *)
(* all links are collected first, and the rules whose selector is not      *)
(* among them are left out.  The postprocessor belongs to the sentence and *)
(* is used for every batch of linkages: for each null count, and for each  *)
(* call of sentence_parse().                                               *)
(*                                                                         *)
(* process_linkages() fills the array with linkages without violations.    *)
(***************************************************************************)
EXTENDS PPDomains

CONSTANTS
  Sentences,   \* sequences: for each batch, the arrays of linkages that may come
  TCD          \* the timer is checked after TCD linkages (at least 1)

VARIABLES
  sent,        \* the sentence
  lkg,         \* sent->lnkages
  twopass,     \* the sentence is long
  batch,       \* the number of batches so far
  seen,        \* pp->set_of_links_of_sentence
  pruned,      \* pp->q_pruned_rules
  one, none,   \* the relevant contains-one and contains-none rules
  exhausted,   \* the timer has expired
  at,          \* the index of the current linkage
  pc,          \* the next step
  n_valid,     \* sent->num_valid_linkages
  n_processed  \* sent->num_linkages_post_processed

pp == <<seen, pruned, one, none>>
vars == <<sent, lkg, twopass, batch, pp, exhausted, at, pc, n_valid, n_processed>>

NoNames == <<>>

Linkage(links) == [links |-> links, N_violations |-> 0, msg |-> NoViolation,
                   processed |-> FALSE, pp_domains |-> NoNames]

(* A new array of linkages; post_process_lkgs() is called. *)
NewBatch ==
  /\ pc = "idle" /\ batch < Len(Sentences[sent])
  /\ \E b \in Sentences[sent][batch + 1] :
       /\ lkg' = [i \in DOMAIN b |-> Linkage(b[i])]
       /\ n_valid' = Len(b)
  /\ n_processed' = 0
  /\ batch' = batch + 1
  /\ exhausted' = FALSE
  /\ at' = 1
  /\ pc' = IF twopass THEN "scan" ELSE "process"
  /\ UNCHANGED <<sent, twopass, pp>>

(* The timer is looked at after every TCD linkages. *)
Timer == IF at % TCD = 0 THEN {exhausted, TRUE} ELSE {FALSE}

(* post_process_scan_linkage() *)
Scan ==
  /\ pc = "scan"
  /\ seen' = seen \cup {l.name : l \in ToSet(lkg[at].links)}
  /\ \E stop \in Timer :
       /\ exhausted' = (exhausted \/ stop)
       /\ IF stop \/ at = Len(lkg) THEN pc' = "process" /\ at' = 1
                                   ELSE pc' = pc /\ at' = at + 1
  /\ UNCHANGED <<sent, lkg, twopass, batch, pruned, one, none, n_valid, n_processed>>

-----------------------------------------------------------------------------
(* Mutant: a rule is relevant if its selector is in the set, as it is.     *)
RelevantByName(rules) == SelectSeq(rules, LAMBDA r : r.selector \in seen)

(* prune_irrelevant_rules() *)
Relevant(rules) == SelectSeq(rules, LAMBDA r : LinksetMatchBw(seen, r.selector))

Prunes(is_long) == is_long /\ ~pruned /\ seen # {}

(* apply_relevant_rules(): all rules apply if no names were collected. *)
OneRules(is_long) ==
  IF seen = {} THEN Knowledge.contains_one
  ELSE IF Prunes(is_long) THEN Relevant(Knowledge.contains_one) ELSE one
NoneRules(is_long) ==
  IF seen = {} THEN Knowledge.contains_none
  ELSE IF Prunes(is_long) THEN Relevant(Knowledge.contains_none) ELSE none

(* do_post_process(): pp->violation, and what it does to the rules *)
Verdict(links, is_long) == Violation(links, OneRules(is_long), NoneRules(is_long))

DoPostProcess(is_long) ==
  /\ one' = IF Prunes(is_long) THEN Relevant(Knowledge.contains_one) ELSE one
  /\ none' = IF Prunes(is_long) THEN Relevant(Knowledge.contains_none) ELSE none
  /\ pruned' = TRUE
  /\ UNCHANGED seen

(* One linkage of the second pass *)
Process ==
  /\ pc = "process"
  /\ DoPostProcess(twopass)
  /\ \E v \in {Verdict(lkg[at].links, twopass)} :
       /\ lkg' = [lkg EXCEPT ![at].processed = TRUE, ![at].msg = v,
                             ![at].N_violations = IF v = NoViolation THEN @ ELSE @ + 1]
       /\ n_valid' = IF v = NoViolation THEN n_valid ELSE n_valid - 1
  /\ n_processed' = n_processed + 1
  /\ \E stop \in Timer :
       /\ exhausted' = (exhausted \/ stop)
       /\ IF stop \/ at = Len(lkg)
          THEN pc' = "rest" /\ at' = IF stop THEN at ELSE at + 1
          ELSE pc' = pc /\ at' = at + 1
  /\ UNCHANGED <<sent, twopass, batch>>

(* The linkages that were not reached count as bad.  The loop begins at    *)
(* the one that was processed last.                                        *)
Rest ==
  /\ pc = "rest"
  /\ LET bad == {i \in at..Len(lkg) : lkg[i].N_violations = 0}
     IN  /\ lkg' = [i \in DOMAIN lkg |-> IF i \in bad
                      THEN [lkg[i] EXCEPT !.N_violations = 1, !.msg = "timeout"] ELSE lkg[i]]
         /\ n_valid' = n_valid - Cardinality(bad)
  /\ pc' = "idle"
  /\ UNCHANGED <<sent, twopass, batch, pp, exhausted, at, n_processed>>

-----------------------------------------------------------------------------
(* build_type_array(): the types of the domains a link is in. *)
DomainNames(links) ==
  LET domains == Once(BuildDomains(links))
  IN  [l \in DOMAIN links |->
         FoldLeft(LAMBDA names, d : IF l \in ToSet(d.lol) THEN <<d.type>> \o names ELSE names,
                  <<>>, domains)]

HasDomains(links) == \E l \in DOMAIN links : Kind(links[l].name) # "none"

(* What linkage_set_domain_names() stores after post-processing again.     *)
NamesFor(links) ==
  IF Verdict(links, TRUE) = NoViolation /\ HasDomains(links) THEN DomainNames(links) ELSE NoNames

ComputeDomainNames(i) ==
  /\ pc = "idle"
  /\ lkg[i].N_violations = 0 /\ lkg[i].pp_domains = NoNames
  /\ DoPostProcess(TRUE)
  /\ lkg' = [lkg EXCEPT ![i].pp_domains = NamesFor(lkg[i].links)]
  /\ UNCHANGED <<sent, twopass, batch, exhausted, at, pc, n_valid, n_processed>>

Init ==
  /\ sent \in DOMAIN Sentences
  /\ lkg = <<>> /\ batch = 0
  /\ twopass \in BOOLEAN
  /\ seen = {} /\ pruned = FALSE /\ one = <<>> /\ none = <<>>
  /\ exhausted = FALSE /\ at = 1 /\ pc = "idle"
  /\ n_valid = 0 /\ n_processed = 0

Next == NewBatch \/ Scan \/ Process \/ Rest \/ (\E i \in DOMAIN lkg : ComputeDomainNames(i))

Spec == Init /\ [][Next]_vars

-----------------------------------------------------------------------------
TypeOK ==
  /\ \A i \in DOMAIN lkg : lkg[i].N_violations \in 0..1 /\ lkg[i].processed \in BOOLEAN
  /\ {twopass, pruned, exhausted} \subseteq BOOLEAN
  /\ batch \in 0..Len(Sentences[sent])
  /\ ToSet(one) \subseteq ToSet(Knowledge.contains_one)
  /\ ToSet(none) \subseteq ToSet(Knowledge.contains_none)
  /\ at \in 1..(Len(lkg) + 1)
  /\ n_valid \in 0..Len(lkg) /\ n_processed \in 0..Len(lkg)

(* What a domain is: the links to the left of the words of the least set   *)
(* of words that has the first word and is closed under the steps of its   *)
(* kind.  A left domain takes the first step as left_depth_first_search()  *)
(* does, and never comes back to its first word.                           *)
Steps(kind, s) == Once([w \in Words |-> {e.word : e \in {f \in ToSet(s.graph[w]) : Follows(kind, s, w, f)}}])

LeastClosed(steps, ws, avoid) ==
  LET closed == {S \in SUBSET (Words \ avoid) : ws \subseteq S /\ \A w \in S : steps[w] \ avoid \subseteq S}
  IN  {w \in Words : \A S \in closed : w \in S}

WordsOfDomain(kind, s, first) ==
  IF kind # "left" THEN LeastClosed(Steps(kind, s), {first}, {})
  ELSE {first} \cup LeastClosed(Steps("domain", s), Steps("left", s)[first] \ {first}, {first})

ReferenceDomain(links, graph, l) ==
  LET kind  == Kind(links[l].name)
      first == IF kind \in {"domain", "urfl"} THEN links[l].rw ELSE links[l].lw
      s     == [links |-> links, graph |-> graph, start |-> l, right |-> links[l].rw,
                root |-> IF kind = "left" THEN links[l].rw ELSE links[l].lw]
  IN  UNION {{e.link : e \in {f \in ToSet(graph[w]) : Adds(kind, s, w, f)}} :
               w \in WordsOfDomain(kind, Once(s), first)}
        \cup IF ContainsStart(kind, links[l].name) THEN {l} ELSE {}

(* The depth-first searches find exactly the links of each domain, each of *)
(* them once (the domains are sorted by the number of links added).        *)
DomainsExact ==
  pc = "process" =>
    \A p \in {Processed(lkg[at].links)} : \A d \in ToSet(p.domains) :
      /\ IsInjective(d.lol)
      /\ ToSet(d.lol) = ReferenceDomain(p.links, p.graph, d.start)

(* A link is in a cycle if it is in a set of links that meet every word an *)
(* even number of times.                                                   *)
InCycle(links, l) ==
  \E S \in SUBSET ({l} \cup {k \in DOMAIN links : ~LinksetMatch(Knowledge.ignore, links[k].name)}) :
    l \in S /\ \A w \in Words : Cardinality({k \in S : w \in {links[k].lw, links[k].rw}}) % 2 = 0

(* What the rules mean, without search and without leaving rules out: a    *)
(* group has the links whose smallest domain is the same.                  *)
SmallestDomain(domain, l) ==
  LET in == {d \in DOMAIN domain : l \in domain[d]}
      size(d) == Cardinality(domain[d])
  IN  IF in = {} THEN 0
      ELSE CHOOSE d \in in : \A e \in in : size(d) < size(e) \/ (size(d) = size(e) /\ d <= e)

Legal(links) ==
  LET all    == DOMAIN links
      p      == [links |-> links]
      starts == {l \in all : Kind(links[l].name) # "none"}
      graph  == Once(BuildGraph(links))
      domain == Once([l \in starts |-> ReferenceDomain(links, graph, l)])
      groups == {{l \in all : SmallestDomain(domain, l) = d} : d \in starts}
  IN  /\ \A r \in ToSet(Knowledge.contains_one) : \A g \in groups \cup {all} :
           HasSelector(p, g, r) => HasOneOf(p, g, r)
      /\ \A r \in ToSet(Knowledge.contains_none) : \A g \in groups :
           ~(HasSelector(p, g, r) /\ HasOneOf(p, g, r))
      /\ \A r \in ToSet(Knowledge.form_a_cycle) : \A l \in all :
           LinksetMatch(r.link_set, links[l].name) => InCycle(links, l)
      /\ \A r \in ToSet(Knowledge.bounded) : \A d \in starts :
           DomainType(links[d].name) = r.domain =>
             \A l \in domain[d] : links[l].lw >= links[d].lw

(* A linkage that comes out as valid breaks no rule of the dictionary,     *)
(* also when the timer cut the collection of names short; and one that     *)
(* breaks no rule comes out as valid unless the timer has expired.         *)
VerdictExact(l) ==
  IF Legal(l.links) THEN l.N_violations = 0 \/ exhausted ELSE l.N_violations > 0

VerdictsExact == pc = "idle" => \A l \in ToSet(lkg) : VerdictExact(l)

(* No linkage passes for valid that was not tested, whenever the timer     *)
(* expires; and the counters say how many are valid and how many were      *)
(* tested.                                                                 *)
ValidAreTested ==
  pc = "idle" =>
    /\ \A i \in DOMAIN lkg : lkg[i].N_violations = 0 => lkg[i].processed
    /\ n_valid = Cardinality({i \in DOMAIN lkg : lkg[i].N_violations = 0})
    /\ n_processed = Cardinality({i \in DOMAIN lkg : lkg[i].processed})

(* A linkage that was found valid is found valid again when                *)
(* compute_domain_names() repeats the post-processing, by the rules that   *)
(* are relevant then; otherwise linkage_set_domain_names() would leave it  *)
(* without domains.                                                        *)
ValidAgain(l) == l.N_violations = 0 => Verdict(l.links, TRUE) = NoViolation

(* The verdict of do_post_process() on a linkage is the one the rules give *)
(* it, is counted, and stays when its domains are computed later.  Pruning *)
(* the rules changes no verdict in the first batch of a sentence, and      *)
(* without two passes in any batch.                                        *)
VerdictsKept ==
  /\ ValidAreTested
  /\ pc = "idle" => \A l \in ToSet(lkg) :
                      ValidAgain(l) /\ (batch = 1 \/ ~twopass => VerdictExact(l))
=============================================================================
