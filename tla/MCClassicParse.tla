--------------------------- MODULE MCClassicParse ---------------------------
(* TLC instances of ClassicParse: short sentences, null-count ranges with  *)
(* equal and with different ends, with and without a time limit.           *)
EXTENDS ClassicParse

MCLengths == 1..3 \cup {MaxSentence}

MCOptions ==
  {o \in [min : 0..2, max : {0, 1, 2, 9}, islands_ok : {FALSE},
          limit : {3}, timed : BOOLEAN] : o.min <= o.max}
  \cup {[min |-> 0, max |-> 2, islands_ok |-> TRUE, limit |-> 0, timed |-> TRUE]}

(* Options for the run on a sentence of two words: one null count only.    *)
EqualRange == {[min |-> n, max |-> n, islands_ok |-> FALSE, limit |-> 1,
                timed |-> FALSE] : n \in 0..1}
=============================================================================
