------------------------------ MODULE LGService -----------------------------
(***************************************************************************)
(* The Java parse server and its client: LGService.java,                   *)
(* LGRemoteClient.java and the native code below them, jni-client.c.       *)
(*                                                                         *)
(* The server accepts connections and hands them to a pool of threads by   *)
(* an unbounded queue.  A thread that serves its first client initializes  *)
(* the native library: the first one of all opens the dictionary, which    *)
(* all share; options, sentence and linkage belong to the thread.  The     *)
(* client connects again while the server is away, and calls again when    *)
(* the connection is reset.                                                *)
(*                                                                         *)
(* A text is known by what the parser makes of it: the number of linkages  *)
(* without and with null words, the seconds that each of these parses      *)
(* takes, the number found in panic mode, which has a limit of its own,    *)
(* and whether it is refused.  A linkage is named by the text, the parse   *)
(* it comes from and its index.                                            *)
(***************************************************************************)
EXTENDS Integers, Sequences, FiniteSets

CONSTANTS
  Clients, Threads,
  Texts,               \* text -> [bad, complete, nulls, panic, time, null_time]
  CallSets,            \* client -> the requests it makes: [get, text, config, seconds, maxLinkages]
  parseRetryCount, connectRetryCount,
  MaxLosses            \* bound on lost connections

VARIABLES
  Calls,        \* one of CallSets
  up,           \* the server: "away", "up" or "dead"
  dict,         \* the shared dictionary: "none" or "open"
  dict_is_init, \* the flag global_init() tests and sets
  queue,        \* connections waiting for a thread: [c, k, req]
  thread,       \* [pc, job, ptd]
  client,       \* [pc, call, tries, connects, k, reply, result]
  losses

(* A text that is parsed is known.  A client without a configuration gives *)
(* no limits; a negative number of seconds asks for none.                  *)
Requests == [get : BOOLEAN, text : DOMAIN Texts \cup {"blank", "malformed", "none"},
             config : BOOLEAN, seconds : Int, maxLinkages : Nat]

ASSUME TextsAssumption ==
  \A x \in DOMAIN Texts :
    Texts[x] \in [bad : BOOLEAN, complete : Nat, nulls : Nat, panic : Nat,
                  time : Nat, null_time : Nat]

ASSUME CallsAssumption ==
  /\ CallSets \subseteq [Clients -> Seq(Requests)]
  /\ \A cs \in CallSets : \A c \in Clients : \A i \in DOMAIN cs[c] :
       ~cs[c][i].get => cs[c][i].text # "none"

shared == <<up, dict, dict_is_init, queue>>
vars == <<Calls, shared, thread, client, losses>>

None == "none"
Reply(kind, linkages) == [kind |-> kind, linkages |-> linkages]
NoReply == Reply(None, <<>>)
NoJob == [c |-> None, k |-> 0, req |-> [get |-> FALSE, text |-> None, config |-> FALSE,
                                         seconds |-> 0, maxLinkages |-> 0]]

(* per_thread_data, before and after init().                               *)
NoPtd == [initialized |-> FALSE, seconds |-> 0, min_null |-> 0, max_null |-> 0]
NewPtd == [initialized |-> TRUE, seconds |-> 30, min_null |-> 0, max_null |-> 0]

-----------------------------------------------------------------------------
(* jParse() *)

(* The seconds that sentence_parse(), which sets the timer to 0, takes.    *)
Seconds(text, ptd) == IF ptd.min_null = 0 THEN Texts[text].time ELSE Texts[text].null_time

(* sentence_parse(), as the server can tell: timed out, it finds nothing.  *)
(* The server never asks for linkages without and with null words at once. *)
sentence_parse(text, ptd) ==
  LET T == Texts[text]
  IN  IF T.bad \/ Seconds(text, ptd) > ptd.seconds THEN [from |-> None, n |-> 0]
      ELSE IF ptd.min_null = 0 THEN [from |-> "complete", n |-> T.complete]
      ELSE [from |-> "nulls", n |-> T.nulls]

(* The null counts as the last sentence left them.                         *)
AsLeft(ptd) == ptd

WithoutNulls(ptd) == [ptd EXCEPT !.min_null = 0, !.max_null = 0]
WithNulls(ptd) == [ptd EXCEPT !.min_null = 1, !.max_null = 9]

(* Up to three parses: complete, with nulls, and panic when nothing was    *)
(* found and the second parse has timed out.                               *)
jParse(text, ptd) ==
  LET T == Texts[text]
      first == sentence_parse(text, WithoutNulls(ptd))
      second == sentence_parse(text, WithNulls(ptd))
  IN  IF T.bad \/ first.n > 0 THEN [found |-> first, ptd |-> WithoutNulls(ptd)]
      ELSE [found |-> IF second.n = 0 /\ T.null_time > ptd.seconds THEN [from |-> "panic", n |-> T.panic]
                      ELSE second,
            ptd |-> WithNulls(ptd)]

(* What the getters give for the i-th linkage.                             *)
makeLinkage(text, found, i) == <<text, found.from, i>>

getEmptyJSONResult == Reply("malformed", <<>>)   \* it lacks its opening brace

getAsJSONFormat(text, found, max) ==
  Reply("json", [i \in 1..(IF max < found.n THEN max ELSE found.n) |-> makeLinkage(text, found, i)])

-----------------------------------------------------------------------------
(* The server's threads.                                                   *)

Alive(t, pc) == up = "up" /\ thread[t].pc = pc

ServerStart ==
  /\ up = "away"
  /\ up' = "up"
  /\ UNCHANGED <<Calls, dict, dict_is_init, queue, thread, client, losses>>

Take(t) ==
  /\ Alive(t, "idle") /\ queue # <<>>
  /\ thread' = [thread EXCEPT ![t] = [@ EXCEPT !.pc = "init", !.job = Head(queue)]]
  /\ queue' = Tail(queue)
  /\ UNCHANGED <<Calls, up, dict, dict_is_init, client, losses>>

(* init(): whoever finds the flag set goes on, whether or not the          *)
(* dictionary is open yet.                                                 *)
Initialize(t) ==
  /\ Alive(t, "init")
  /\ \/ /\ thread[t].ptd.initialized
        /\ thread' = [thread EXCEPT ![t].pc = "read"]
        /\ UNCHANGED dict_is_init
     \/ /\ ~thread[t].ptd.initialized /\ dict_is_init
        /\ thread' = [thread EXCEPT ![t] = [@ EXCEPT !.pc = "read", !.ptd = NewPtd]]
        /\ UNCHANGED dict_is_init
     \/ /\ ~thread[t].ptd.initialized /\ ~dict_is_init
        /\ dict_is_init' = TRUE
        /\ thread' = [thread EXCEPT ![t].pc = "loading"]
  /\ UNCHANGED <<Calls, up, dict, queue, client, losses>>

(* The rest of global_init(): without a dictionary the process ends.       *)
OpenDictionary(t) ==
  /\ Alive(t, "loading")
  /\ \/ /\ dict' = "open"
        /\ thread' = [thread EXCEPT ![t] = [@ EXCEPT !.pc = "read", !.ptd = NewPtd]]
        /\ UNCHANGED up
     \/ up' = "dead" /\ UNCHANGED <<dict, thread>>
  /\ UNCHANGED <<Calls, dict_is_init, queue, client, losses>>

(* The limits of a request: a new LGConfig has what the message lacks.     *)
Config(req) ==
  IF req.config THEN [seconds |-> req.seconds, maxLinkages |-> req.maxLinkages]
  ELSE [seconds |-> 60, maxLinkages |-> 25]

(* configure(): what the request does not set stays as it is.              *)
configure(req, ptd) ==
  IF Config(req).seconds > -1 THEN [ptd EXCEPT !.seconds = Config(req).seconds] ELSE ptd

(* What the client at the other end of a job's connection gets.            *)
Connected(j) == client[j.c].pc = "wait" /\ client[j.c].k = j.k /\ client[j.c].reply = NoReply
DeliverAnswer(j, r) == IF Connected(j) /\ r.kind # "eof" THEN [client EXCEPT ![j.c].reply = r] ELSE client

Deliver(j, r) == IF Connected(j) THEN [client EXCEPT ![j.c].reply = r] ELSE client

(* The socket is closed, with an answer or after an exception.             *)
EndJob(t, j, r, ptd) ==
  /\ client' = Deliver(j, r)
  /\ thread' = [thread EXCEPT ![t] = [pc |-> "idle", job |-> NoJob, ptd |-> ptd]]

(* A version is answered without the library; a message that is malformed  *)
(* or cut ends in an exception; otherwise configure().                     *)
ReadRequest(t) ==
  LET j == thread[t].job  ptd == thread[t].ptd
  IN  /\ Alive(t, "read")
      /\ \/ j.req.get /\ Connected(j) /\ EndJob(t, j, Reply("version", <<>>), ptd)
         \/ (j.req.text = "malformed" \/ ~Connected(j)) /\ EndJob(t, j, Reply("eof", <<>>), ptd)
         \/ /\ ~j.req.get /\ j.req.text # "malformed"
            /\ thread' = [thread EXCEPT ![t] = [@ EXCEPT !.pc = "parse", !.ptd = configure(j.req, ptd)]]
            /\ UNCHANGED client
      /\ UNCHANGED <<Calls, up, dict, dict_is_init, queue, losses>>

(* The parse, the answer and the end of the connection.  A blank text is   *)
(* not parsed, but asks for the version of the dictionary.                 *)
HandleText(t) ==
  LET j == thread[t].job  ptd == thread[t].ptd
  IN  /\ Alive(t, "parse") /\ dict = "open"
      /\ IF j.req.text = "blank" THEN EndJob(t, j, getEmptyJSONResult, ptd)
         ELSE \E r \in {jParse(j.req.text, ptd)} :
                EndJob(t, j, IF r.found.n = 0 THEN getEmptyJSONResult
                             ELSE getAsJSONFormat(j.req.text, r.found, Config(j.req).maxLinkages), r.ptd)
      /\ UNCHANGED <<Calls, up, dict, dict_is_init, queue, losses>>

(* The dictionary is used through a null pointer: the process ends.        *)
NoDictionary(t) ==
  /\ Alive(t, "parse") /\ dict = "none"
  /\ up' = "dead"
  /\ UNCHANGED <<Calls, dict, dict_is_init, queue, thread, client, losses>>

-----------------------------------------------------------------------------
(* LGRemoteClient *)

Return(c, res) ==
  client' = [client EXCEPT ![c].pc = "ready", ![c].reply = NoReply,
                           ![c].result = Append(@, res)]

Call(c) ==
  /\ client[c].pc = "ready" /\ client[c].call < Len(Calls[c])
  /\ client' = [client EXCEPT ![c].pc = "connect", ![c].call = @ + 1,
                              ![c].tries = 0, ![c].connects = 0]
  /\ UNCHANGED <<Calls, up, dict, dict_is_init, queue, thread, losses>>

(* The connection is accepted and submitted to the pool.                   *)
Connect(c) ==
  /\ client[c].pc = "connect" /\ up = "up"
  /\ client' = [client EXCEPT ![c].pc = "wait", ![c].k = @ + 1]
  /\ queue' = Append(queue, [c |-> c, k |-> client[c].k + 1, req |-> Calls[c][client[c].call]])
  /\ UNCHANGED <<Calls, up, dict, dict_is_init, thread, losses>>

ConnectFails(c) ==
  /\ client[c].pc = "connect" /\ up # "up"
  /\ IF client[c].connects + 1 < connectRetryCount
     THEN client' = [client EXCEPT ![c].connects = @ + 1]
     ELSE Return(c, Reply("exception", <<>>))
  /\ UNCHANGED <<Calls, up, dict, dict_is_init, queue, thread, losses>>

(* The network loses the connection, or the server died: the client sees a *)
(* reset, an end of file, or a text that is cut short.                     *)
Lose(c) ==
  /\ client[c].pc = "wait" /\ client[c].reply = NoReply
  /\ losses < MaxLosses
  /\ losses' = losses + 1
  /\ \E kind \in {"reset", "eof", "partial"} : client' = [client EXCEPT ![c].reply = Reply(kind, <<>>)]
  /\ UNCHANGED <<Calls, up, dict, dict_is_init, queue, thread>>

ServerGone(c) ==
  /\ client[c].pc = "wait" /\ client[c].reply = NoReply /\ up = "dead"
  /\ \E kind \in {"reset", "eof"} : client' = [client EXCEPT ![c].reply = Reply(kind, <<>>)]
  /\ UNCHANGED <<Calls, up, dict, dict_is_init, queue, thread, losses>>

(* Only an IOException of parse() is retried; every other failure leaves   *)
(* it, also the one of a client that reads linkages without having a       *)
(* configuration.  getVersion() is content without a version.              *)
Receive(c) ==
  LET r == client[c].reply
      get == Calls[c][client[c].call].get
      unread == r.kind = "json" /\ r.linkages # <<>> /\ ~Calls[c][client[c].call].config
  IN  /\ client[c].pc = "wait" /\ r # NoReply
      /\ \/ r.kind = "reset" /\ get /\ Return(c, Reply("unavailable", <<>>))
         \/ /\ r.kind = "reset" /\ ~get /\ client[c].tries + 1 < parseRetryCount
            /\ client' = [client EXCEPT ![c].pc = "connect", ![c].tries = @ + 1,
                                        ![c].connects = 0, ![c].reply = NoReply]
         \/ r.kind = "reset" /\ ~get /\ client[c].tries + 1 >= parseRetryCount /\ Return(c, Reply("null", <<>>))
         \/ (r.kind \in {"eof", "partial", "malformed"} \/ unread) /\ Return(c, Reply("exception", <<>>))
         \/ r.kind \in {"json", "version"} /\ ~unread /\ Return(c, r)
      /\ UNCHANGED <<Calls, up, dict, dict_is_init, queue, thread, losses>>

-----------------------------------------------------------------------------
Init ==
  /\ Calls \in CallSets
  /\ up = "away" /\ dict = "none" /\ dict_is_init = FALSE /\ queue = <<>> /\ losses = 0
  /\ thread = [t \in Threads |-> [pc |-> "idle", job |-> NoJob, ptd |-> NoPtd]]
  /\ client = [c \in Clients |-> [pc |-> "ready", call |-> 0, tries |-> 0, connects |-> 0,
                                  k |-> 0, reply |-> NoReply, result |-> <<>>]]

ThreadStep(t) ==
  Take(t) \/ Initialize(t) \/ OpenDictionary(t) \/ ReadRequest(t) \/ HandleText(t) \/ NoDictionary(t)

ClientStep(c) == Connect(c) \/ ConnectFails(c) \/ ServerGone(c) \/ Receive(c)

Next ==
  \/ ServerStart
  \/ \E t \in Threads : ThreadStep(t)
  \/ \E c \in Clients : Call(c) \/ Lose(c) \/ ClientStep(c)

Spec == Init /\ [][Next]_vars

(* Threads run, and so do the clients inside a call; nobody has to start   *)
(* the server, to make a call or to lose a connection.                     *)
Fairness == (\A t \in Threads : WF_vars(ThreadStep(t))) /\ (\A c \in Clients : WF_vars(ClientStep(c)))

FairSpec == Spec /\ Fairness

-----------------------------------------------------------------------------
(* Properties.                                                             *)

(* The linkages a request is entitled to within a number of seconds:       *)
(* those of the first of the three kinds of parse that finds any in time,  *)
(* no more than it asks for.                                               *)
Entitled(req, s) ==
  LET T == Texts[req.text]
      max == Config(req).maxLinkages
      from == IF T.complete > 0 /\ T.time <= s THEN "complete"
              ELSE IF T.null_time <= s THEN "nulls" ELSE "panic"
      n == IF from = "complete" THEN T.complete ELSE IF from = "nulls" THEN T.nulls ELSE T.panic
  IN  [i \in 1..(IF max < n THEN max ELSE n) |-> <<req.text, from, i>>]

(* The time limits that a thread may have been left with: the first one,   *)
(* and those of the requests made so far.                                  *)
LimitsLeft ==
  {NewPtd.seconds}
  \cup UNION {{Config(Calls[d][m]).seconds : m \in 1..client[d].call} : d \in Clients}

(* The limit of a request is its own, or, when it sets none, the one that  *)
(* its thread was left with.                                               *)
LimitsOf(req) ==
  IF Config(req).seconds > -1 THEN {Config(req).seconds} ELSE {s \in LimitsLeft : s > -1}

(* Whatever threads did for other clients before, whichever connections    *)
(* were lost and calls repeated, a result that a client's parse() returns  *)
(* holds exactly the linkages its own text and its own limits entitle it   *)
(* to.  One thing leaks, since configure() does not touch it: a request    *)
(* that sets no time limit is parsed under that of an earlier client.      *)
(* Null counts, sentence and linkage do not.                               *)
AnswersOwnText ==
  \A c \in Clients : \A m \in DOMAIN client[c].result :
    client[c].result[m].kind = "json" =>
      \E s \in LimitsOf(Calls[c][m]) : client[c].result[m].linkages = Entitled(Calls[c][m], s)

(* Every call of a client returns, with a result, null or an exception,    *)
(* even when the server dies while it serves the call.                     *)
CallsReturn == \A c \in Clients : (client[c].pc = "connect") ~> (client[c].pc = "ready")
=============================================================================
