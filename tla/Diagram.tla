------------------------------ MODULE Diagram ------------------------------
(***************************************************************************)
(* The drawing of a linkage (linkage_print_diagram_ctxt() in print.c): the *)
(* words are placed so that the names of links between neighbours fit,     *)
(* the links are drawn from the shortest to the longest, each in the       *)
(* lowest row that is free, and the picture is printed in pieces as wide   *)
(* as the screen.                                                          *)
(*                                                                         *)
(* Every character is one column wide.  A word is its width, a link a      *)
(* record [lw, rw, len, ldir, rdir, wall]: the words, the length of its    *)
(* name, the direction signs of its connectors ("h", "d" or "") and        *)
(* whether its name is one that hides a wall (easy_match() with            *)
(* LEFT_WALL_SUPPRESS or RIGHT_WALL_SUPPRESS).                             *)
(***************************************************************************)
EXTENDS Integers, Sequences, FiniteSets, TLC, FiniteSetsExt, SequencesExt

CONSTANTS
  Pictures,   \* records [width, links, walls, screen]
  Huge        \* what an unsigned number below zero is

VARIABLES
  lk,       \* the linkage, display_walls and x_screen_width
  todo,     \* the links not drawn yet
  picture,  \* the cells drawn: a function on pairs <<row, column>>
  row_of,   \* the row of each link drawn
  link_heights,  \* pctx->link_heights: the row, by the place in the drawing
  phase,    \* "draw", "print", "done"
  i,        \* the next word to print
  c,        \* how much of it has been printed
  start     \* the next column to print, in every row

dvars == <<lk, todo, picture, row_of, link_heights, phase, i, c, start>>

RightMargin == 1

num_words == Len(lk.width)
Links == DOMAIN lk.links
WordWidth(w) == lk.width[w + 1]

-----------------------------------------------------------------------------
(* A wall is hidden if its only link has the name of those.                *)
LeftLinks == {l \in Links : lk.links[l].lw = 0 /\ lk.links[l].rw # num_words - 1}
RightLinks == {l \in Links : lk.links[l].rw = num_words - 1}

Hidden(ls) == ~lk.walls /\ Cardinality(ls) = 1 /\ \A l \in ls : lk.links[l].wall

print_word_0 == ~Hidden(LeftLinks)
print_word_N == ~Hidden(RightLinks)
FirstWord == IF print_word_0 THEN 0 ELSE 1
N_words_to_print == IF print_word_N THEN num_words ELSE num_words - 1

Drawn(l) == (print_word_0 \/ lk.links[l].lw # 0) /\ (print_word_N \/ lk.links[l].rw # num_words - 1)

-----------------------------------------------------------------------------
(* set_centers() *)

Sign(d) == IF d = "" THEN 0 ELSE 1

(* Mutant: the direction signs are not counted. *)
name_len(w) ==
  LET near == {l \in Links : lk.links[l].rw = w /\ lk.links[l].lw = w - 1}
  IN  IF near = {} THEN 0 ELSE lk.links[Max(near)].len

(* The length of the last link between the word and the one before it.     *)
link_len(w) ==
  LET near == {l \in Links : lk.links[l].rw = w /\ lk.links[l].lw = w - 1}
      k    == lk.links[Max(near)]
  IN  IF near = {} THEN 0 ELSE k.len + Sign(k.ldir) + Sign(k.rdir)

PlaceWord(p, w) ==
  LET middle == p.tot + WordWidth(w) \div 2
      center == IF w > FirstWord THEN Max({middle, p.center[w - 1] + link_len(w) + 1}) ELSE middle
  IN  [center |-> (w :> center) @@ p.center,
       word_offset |-> (w :> (center - middle)) @@ p.word_offset,
       tot |-> p.tot + WordWidth(w) + 1 + center - middle]

Centers ==
  FoldLeft(LAMBDA p, w : CHOOSE q \in {PlaceWord(p, w)} : TRUE,
           [center |-> <<>>, word_offset |-> <<>>, tot |-> 0],
           [k \in 1..(N_words_to_print - FirstWord) |-> FirstWord + k - 1])

-----------------------------------------------------------------------------
Cell(p) == IF p \in DOMAIN picture THEN picture[p] ELSE " "
Cells(ps, ch) == [p \in ps |-> ch]

Row(cl, cr) ==
  Min({row \in 0..Len(lk.links) : \A k \in (cl + 1)..(cr - 1) : Cell(<<row, k>>) = " "})

(* The columns of the link's name: from the middle, as far as there is     *)
(* room.                                                                   *)
NameStart(link, cl, cr) ==
  LET inc == cl + cr + 2
  IN  Max({cl + 1, IF inc < link.len THEN 0 ELSE (inc - link.len) \div 2})

NameEnd(link, cl, cr) ==
  LET t == NameStart(link, cl, cr)
  IN  IF link.ldir = "d" /\ t = cl + 1 THEN t ELSE Min({t + link.len, Max({t, cr})})

(* The link in its row: the line, the sign of the left connector, the      *)
(* name, the sign of the right connector and the ends, which are drawn in  *)
(* this order, and bars where there is nothing below the ends.             *)
DrawnLink(link, row, cl, cr) ==
  LET t == NameStart(link, cl, cr)
      e == NameEnd(link, cl, cr)
      at(cols, ch) == Cells({<<row, k>> : k \in cols}, ch)
  IN  at({cl, cr}, "+")
      @@ at(IF link.rdir = "h" THEN {e} ELSE {}, "<")
      @@ at(IF link.rdir = "d" THEN {cr - 1} ELSE {}, ">")
      @@ at(t..(e - 1), "n")
      @@ at(IF link.ldir = "h" THEN {t - 1} ELSE {}, ">")
      @@ at(IF link.ldir = "d" THEN {cl + 1} ELSE {}, "<")
      @@ at((cl + 1)..(cr - 1), "-")
      @@ picture
      @@ Cells({<<r, k>> : r \in 0..(row - 1), k \in {cl, cr}}, "|")

Length(l) == lk.links[l].rw - lk.links[l].lw

(* sort_link_lengths(): qsort() may leave links of one length in any order. *)
Shortest == {l \in todo : \A m \in todo : Length(l) <= Length(m)}

DInit ==
  /\ lk \in Pictures
  /\ todo = Links
  /\ picture = <<>> /\ row_of = <<>> /\ link_heights = <<>>
  /\ phase = "draw" /\ i = 0 /\ c = 0 /\ start = 0

DrawLink ==
  /\ phase = "draw"
  /\ \E l \in {m \in Shortest : Drawn(m)}, p \in {Centers.center} :
       LET link == lk.links[l]
           cl == p[link.lw]
           cr == p[link.rw]
       IN  \E row \in {Row(cl, cr)} :
             /\ picture' = DrawnLink(link, row, cl, cr)
             /\ row_of' = (l :> row) @@ row_of
             /\ link_heights' = (1 + Cardinality(Links \ todo) :> row) @@ link_heights
             /\ todo' = todo \ {l}
  /\ UNCHANGED <<lk, phase, i, c, start>>

(* A link to a wall that is not printed. *)
SkipLink ==
  /\ phase = "draw"
  /\ \E l \in {m \in Shortest : ~Drawn(m)} : todo' = todo \ {l}
  /\ UNCHANGED <<lk, picture, row_of, link_heights, phase, i, c, start>>

StartPrinting ==
  /\ phase = "draw" /\ todo = {}
  /\ phase' = "print" /\ i' = FirstWord
  /\ UNCHANGED <<lk, todo, picture, row_of, link_heights, c, start>>

(* The columns that word w needs, if the first n characters of the first   *)
(* word have been printed.                                                 *)
Columns(off, w) ==
  (IF w = i /\ c > 0 THEN 0 ELSE off[w]) + WordWidth(w) - (IF w = i THEN c ELSE 0) + 1

Wide(off, j) == FoldLeft(LAMBDA a, w : a + Columns(off, w), 0, [k \in 1..(j - i) |-> i + k - 1])

(* One piece of the picture: as many words as fit or, if not even one      *)
(* does, a part of it.                                                     *)
PrintPiece ==
  /\ phase = "print" /\ i < N_words_to_print
  /\ \E off \in {Centers.word_offset}, tot \in {Centers.tot} :
     LET fits == {j \in i..N_words_to_print : \A m \in i..j : Wide(off, m) <= lk.screen - RightMargin}
         j    == Max(fits)
         part == lk.screen - RightMargin - (IF c = 0 THEN off[i] ELSE 0) - 1
         all  == IF part < 0 THEN Huge ELSE part
         columns == IF j = i THEN all ELSE Wide(off, j)
     IN  /\ i' = j
         /\ c' = IF j = i THEN c + Min({WordWidth(i) - c, all}) ELSE 0
         /\ start' = Min({start + columns, tot})
  /\ UNCHANGED <<lk, todo, picture, row_of, link_heights, phase>>

EndPrinting ==
  /\ phase = "print" /\ i = N_words_to_print
  /\ phase' = "done"
  /\ UNCHANGED <<lk, todo, picture, row_of, link_heights, i, c, start>>

DNext == DrawLink \/ SkipLink \/ StartPrinting \/ PrintPiece \/ EndPrinting

DSpec == DInit /\ [][DNext]_dvars

-----------------------------------------------------------------------------
(* The links can be read off the picture: the line of each is whole, its   *)
(* ends go down to its words without meeting another line, no two lines    *)
(* share a part of a row, the name of a link between neighbours is shown   *)
(* in full with its signs, and the pieces printed are the whole picture.   *)
Between(l) == (Centers.center[lk.links[l].lw] + 1)..(Centers.center[lk.links[l].rw] - 1)
Symmetric(link) == Sign(link.ldir) = Sign(link.rdir)

LinksReadable ==
  phase = "done" =>
    /\ \A l \in DOMAIN row_of :
         /\ \A k \in Between(l) : Cell(<<row_of[l], k>>) \in {"-", "n", "<", ">"}
         /\ \A w \in {lk.links[l].lw, lk.links[l].rw}, r \in 0..row_of[l] :
              Cell(<<r, Centers.center[w]>>) \in (IF r = row_of[l] THEN {"+"} ELSE {"+", "|"})
         /\ Length(l) = 1 /\ Symmetric(lk.links[l]) =>
              lk.links[l].len = Cardinality({k \in Between(l) : Cell(<<row_of[l], k>>) = "n"})
    /\ \A l, m \in DOMAIN row_of : l # m /\ row_of[l] = row_of[m] => Between(l) \cap Between(m) = {}
    /\ start = Centers.tot
=============================================================================
