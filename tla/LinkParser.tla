----------------------------- MODULE LinkParser -----------------------------
(***************************************************************************)
(* The link-parser program (link-parser/link-parser.c, command-line.c and  *)
(* the line reading of parser-utilities.c): it reads lines from the        *)
(* terminal or from a file, obeys special commands, parses sentences with  *)
(* no nulls, with nulls and in panic mode, and shows the linkages one by   *)
(* one, each after a line from the terminal.                               *)
(*                                                                         *)
(* The user's variables live in three places: the parse options, the       *)
(* command options and a copy of both (local) that commands change.  Of    *)
(* the parse options the model keeps those that panic mode changes.        *)
(* The developers' test variable is not set.                               *)
(***************************************************************************)
EXTENDS Integers, Sequences, FiniteSets, SequencesExt

CONSTANTS
  Sessions,      \* [stdin, files]: what the terminal and the files contain
  Outcomes,      \* sentence -> what the parser makes of it
  DISPLAY_MAX    \* linkages shown at most

VARIABLES
  session,
  pos,           \* lines read so far, of each stream since it was opened
  input_fh,      \* the stream being read
  pending,       \* the terminal's line that ended a display; 0 is none
  opts,          \* the parse options
  local,         \* the user's variables
  batch_errors,
  show,          \* linkages of this sentence still to be shown
  handled,       \* the lines the main loop acted upon, of each stream since it was opened
  user,          \* the values the user gave
  mode           \* the main loop reads a line, shows linkages, or has ended

sessionVars == <<session, pos, input_fh, pending, opts, local, batch_errors, show, handled, user, mode>>

Streams == {"stdin"} \cup DOMAIN session.files
Lines(f) == IF f = "stdin" THEN session.stdin ELSE session.files[f]

Least(a, b) == IF a < b THEN a ELSE b
Most(a, b) == IF a < b THEN b ELSE a

(* What the options are when the main loop starts.                         *)
DefaultLocal == [timeout |-> 30, short |-> 16, cost |-> 3, batch |-> FALSE, panic |-> TRUE,
                 null |-> TRUE, bad |-> FALSE, panic_timeout |-> 30, panic_short |-> 12, panic_cost |-> 4]
DefaultOpts == [timeout |-> 30, short |-> 16, cost |-> 3, all_short |-> FALSE,
                min_null |-> 0, max_null |-> 0, pp_prune |-> TRUE]

-----------------------------------------------------------------------------
(* Reading lines: fget_input_string().                                     *)

AtEnd(f) == pos[f] = Len(Lines(f))

(* The line the main loop gets, and what it has read and got then.         *)
FromPending == pending # 0
Available == FromPending \/ ~AtEnd(input_fh)
NextLine == IF FromPending THEN Lines("stdin")[pending] ELSE Lines(input_fh)[pos[input_fh] + 1]

Taken ==
  IF FromPending THEN [pos |-> pos, handled |-> [handled EXCEPT !["stdin"] = Append(@, pending)]]
  ELSE [pos |-> [pos EXCEPT ![input_fh] = @ + 1],
        handled |-> [handled EXCEPT ![input_fh] = Append(@, pos[input_fh] + 1)]]

TakeLine == pos' = Taken.pos /\ handled' = Taken.handled

(* The end of a file goes back to the terminal, that of the terminal ends  *)
(* the program.                                                            *)
EndOfInput ==
  /\ mode = "read" /\ ~Available
  /\ IF input_fh = "stdin" THEN mode' = "end" /\ UNCHANGED input_fh
     ELSE input_fh' = "stdin" /\ UNCHANGED mode
  /\ UNCHANGED <<session, pos, pending, opts, local, batch_errors, show, handled, user>>

GetsLine(kind) == mode = "read" /\ Available /\ NextLine.k = kind /\ pending' = 0

Reads(kind) == GetsLine(kind) /\ TakeLine

-----------------------------------------------------------------------------
(* Special commands: issue_special_command().                              *)

put_opts_in_local_vars(o) == [local EXCEPT !.timeout = o.timeout, !.short = o.short, !.cost = o.cost]

put_back_limits(l, o) == [o EXCEPT !.short = l.short, !.cost = l.cost]

put_local_vars_in_opts(l, o) == [o EXCEPT !.timeout = l.timeout, !.short = l.short, !.cost = l.cost]

(* The variables are fetched, one is changed, and all are put back.        *)
issue_special_command(var, val) ==
  \E l \in {[put_opts_in_local_vars(opts) EXCEPT ![var] = val]} :
    /\ opts' = put_local_vars_in_opts(l, opts)
    /\ local' = l
    /\ user' = [user EXCEPT ![var] = val]

(* A blank line, a comment, help, or a command that is ambiguous, unknown, *)
(* or has a wrong value.                                                   *)
NoCommand ==
  /\ \E kind \in {"blank", "comment", "help", "wrong"} : Reads(kind)
  /\ UNCHANGED <<session, input_fh, opts, local, batch_errors, show, user, mode>>

SetVariable ==
  /\ Reads("set")
  /\ issue_special_command(NextLine.var, NextLine.val)
  /\ UNCHANGED <<session, input_fh, batch_errors, show, mode>>

FlipVariable ==
  /\ Reads("flip")
  /\ issue_special_command(NextLine.var, ~local[NextLine.var])
  /\ UNCHANGED <<session, input_fh, batch_errors, show, mode>>

Exit ==
  /\ Reads("exit")
  /\ mode' = "end"
  /\ UNCHANGED <<session, input_fh, opts, local, batch_errors, show, user>>

(* A file is read from its start, each time it is opened.                  *)
OpenFile ==
  /\ GetsLine("file") /\ NextLine.name \in DOMAIN session.files
  /\ input_fh' = NextLine.name
  /\ pos' = [Taken.pos EXCEPT ![NextLine.name] = 0]
  /\ handled' = [Taken.handled EXCEPT ![NextLine.name] = <<>>]
  /\ UNCHANGED <<session, opts, local, batch_errors, show, user, mode>>

(* A file that cannot be opened sends the program back to the terminal; a  *)
(* directory does not.                                                     *)
OpenNothing ==
  /\ Reads("file") /\ NextLine.name \notin DOMAIN session.files
  /\ input_fh' = IF NextLine.name = "directory" THEN input_fh ELSE "stdin"
  /\ UNCHANGED <<session, opts, local, batch_errors, show, user, mode>>

-----------------------------------------------------------------------------
(* Parsing a sentence.                                                     *)

(* Whether the options admit the linkages without null words, and how many *)
(* of them, good and bad, there are.                                       *)
Admits(o, s) == s.cost <= o.cost /\ (o.all_short => s.longest <= o.short)
Good(s, o) == IF Admits(o, s) THEN s.complete ELSE 0
Bad(s, o) == IF Admits(o, s) THEN s.bad ELSE 0

(* sentence_parse(), which sets the timer to 0: [valid, found, time].  The *)
(* clock is looked at after the preparation, which leaves the number found *)
(* by the parse before, and after each parse that counts; what follows,    *)
(* sorting, is seen by the caller only.                                    *)
Parse(s, o, before) ==
  LET R(v, f, t) == [valid |-> v, found |-> f, time |-> t]
      complete == s.prepare + (IF o.min_null = 0 THEN s.time ELSE 0)
      goes_on == o.max_null > 0 /\ (o.min_null > 0 \/ Good(s, o) = 0)
      nulls == complete + s.null_time
  IN  IF s.prepare > o.timeout THEN R(0, before, s.prepare)
      ELSE IF complete > o.timeout THEN R(0, 0, complete)
      ELSE IF ~goes_on THEN R(Good(s, o), Good(s, o) + Bad(s, o), complete + s.rest)
      ELSE IF nulls > o.timeout THEN R(0, 0, nulls)
      ELSE R(s.nulls, s.nulls, nulls + s.rest)

FirstOpts(o) == [o EXCEPT !.min_null = 0, !.max_null = 0, !.pp_prune = ~local.bad]
NullOpts(o, s) == [FirstOpts(o) EXCEPT !.min_null = 1, !.max_null = s.length]

(* setup_panic_parse_options() *)
setup_panic_parse_options(o, s) ==
  [o EXCEPT !.timeout = local.panic_timeout,
            !.cost = Most(local.cost, local.panic_cost),
            !.max_null = IF local.null THEN Least(s.length, 10) ELSE @,
            !.short = Least(local.short, local.panic_short),
            !.all_short = TRUE]

(* The parses of one sentence: [opts, result, panicked].  Either of the    *)
(* first two may exhaust the time, which each has for itself; panic mode   *)
(* starts from the null count of the one that did.  The user's variables   *)
(* are put back after panic mode; all_short is not one of them.            *)
Parses(s) ==
  LET exhausted(r, o) == r.time > o.timeout
      o1 == FirstOpts(opts)
      r1 == Parse(s, o1, 0)
      num == IF r1.valid = 0 /\ ~local.batch /\ local.bad THEN r1.found ELSE r1.valid
      again == num = 0 /\ ~local.batch /\ local.null /\ ~(local.panic /\ exhausted(r1, o1))
      o2 == IF again THEN NullOpts(opts, s) ELSE o1
      r2 == IF again THEN Parse(s, o2, r1.found) ELSE r1
      o3 == setup_panic_parse_options(o2, s)
  IN  IF local.panic /\ exhausted(r2, o2)
      THEN [opts |-> put_local_vars_in_opts(local, o3), result |-> Parse(s, o3, r2.found), panicked |-> 1]
      ELSE [opts |-> o2, result |-> r2, panicked |-> 0]

(* there_was_an_error(): the verdict differs from the sentence's label.    *)
there_was_an_error(s, r) == IF (r.valid > 0) = (s.label = "*") THEN 1 ELSE 0

ToDisplay(r) == Least(IF local.bad THEN r.found ELSE r.valid, DISPLAY_MAX)

(* A sentence: refused by the tokenizer, judged in batch mode, or shown.   *)
ParseSentence ==
  /\ Reads("sentence")
  /\ LET s == Outcomes[NextLine.name]
     IN  IF s.refused
         THEN opts' = [opts EXCEPT !.pp_prune = ~local.bad] /\ UNCHANGED <<batch_errors, show, mode>>
         ELSE \E p \in {Parses(s)} :
           /\ opts' = p.opts
           /\ batch_errors' = batch_errors + p.panicked
                                + (IF local.batch THEN there_was_an_error(s, p.result) ELSE 0)
           /\ show' = IF local.batch \/ ToDisplay(p.result) = 0 THEN 0 ELSE ToDisplay(p.result) - 1
           /\ mode' = IF show' = 0 THEN "read" ELSE "show"
  /\ UNCHANGED <<session, input_fh, local, user>>

(* process_some_linkages(): one linkage has been shown and more are left.  *)
(* The line is read from the terminal, in the middle of a file too.        *)
ShowNext ==
  /\ mode = "show" /\ ~AtEnd("stdin")
  /\ pos' = [pos EXCEPT !["stdin"] = @ + 1]
  /\ IF Lines("stdin")[pos'["stdin"]].k = "blank"
     THEN show' = show - 1 /\ UNCHANGED pending
     ELSE show' = 0 /\ pending' = pos'["stdin"]
  /\ mode' = IF show' = 0 THEN "read" ELSE "show"
  /\ UNCHANGED <<session, input_fh, opts, local, batch_errors, handled, user>>

ShowAtEnd ==
  /\ mode = "show" /\ AtEnd("stdin")
  /\ show' = 0
  /\ mode' = IF input_fh = "stdin" THEN "end" ELSE "read"
  /\ UNCHANGED <<session, pos, input_fh, pending, opts, local, batch_errors, handled, user>>

-----------------------------------------------------------------------------
SessionInit ==
  /\ session \in Sessions
  /\ pos = [f \in Streams |-> 0] /\ handled = [f \in Streams |-> <<>>]
  /\ input_fh = "stdin" /\ pending = 0
  /\ opts = DefaultOpts /\ local = DefaultLocal /\ user = DefaultLocal
  /\ batch_errors = 0 /\ show = 0 /\ mode = "read"

SessionNext == EndOfInput \/ NoCommand \/ SetVariable \/ FlipVariable \/ Exit \/ OpenFile
        \/ OpenNothing \/ ParseSentence \/ ShowNext \/ ShowAtEnd

SessionSpec == SessionInit /\ [][SessionNext]_sessionVars

-----------------------------------------------------------------------------
(* Properties.                                                             *)

(* The lines of a stream that the main loop acted upon.                    *)
Obeyed(f) == {handled[f][m] : m \in DOMAIN handled[f]}

(* No line is lost or obeyed twice: the main loop acts, in order, on every *)
(* line that was read and carries something, but for the one that is       *)
(* pending, also when a linkage display read it from the terminal while    *)
(* the sentences come from a file.                                         *)
EachLineOnce ==
  /\ \A f \in Streams :
       /\ \A m, n \in DOMAIN handled[f] : m < n => handled[f][m] < handled[f][n]
       /\ Obeyed(f) \subseteq 1..pos[f]
       /\ \A n \in 1..pos[f] : n \in Obeyed(f) \/ Lines(f)[n].k = "blank" \/ (f = "stdin" /\ n = pending)
  /\ pending \notin Obeyed("stdin")

(* What the user has not changed since stays as it is: after sentences     *)
(* that timed out and went through panic mode, and in between them, the    *)
(* time, cost and length limits and the modes are the user's.  They are    *)
(* all that put_local_vars_in_opts() puts back.  That all connectors are   *)
(* short, which panic mode leaves behind (see PanicUndone), can at least   *)
(* come from no other place.                                               *)
UserOptionsKept ==
  mode = "read" => /\ local = user
                 /\ opts.timeout = user.timeout /\ opts.short = user.short /\ opts.cost = user.cost
                 /\ (opts.all_short => batch_errors > 0)

(* The comment at link-parser.c:986 says of put_local_vars_in_opts() that  *)
(* it undoes setup_panic_parse_options(): when a sentence is done, nothing *)
(* of panic mode is left in the options.  It is violated.                  *)
PanicUndone == mode = "read" => opts.all_short = DefaultOpts.all_short

(* A session of link-parser is obeyed line by line, under the limits and   *)
(* modes that the user has set.                                            *)
SessionObeyed == EachLineOnce /\ UserOptionsKept
=============================================================================
