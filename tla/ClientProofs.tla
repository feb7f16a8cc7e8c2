--------------------------- MODULE ClientProofs ----------------------------
(***************************************************************************)
(* Proofs about LGService, for any number of clients and threads, any      *)
(* texts and requests and any number of retries and losses; then about     *)
(* LinkParser, for any session; and about Generator, for any dictionary    *)
(* and linkages.                                                           *)
(*                                                                         *)
(* LGService: a connection is known by its client and its number k.     *)
(* The job of a connection, wherever it is, holds the request that the     *)
(* client has made with it, as long as the client waits for that           *)
(* connection; a later call of the client has a greater number.  A thread  *)
(* that parses has a time limit of its own job, or, if that sets none, of  *)
(* a request made before, and jParse() sets the null counts itself, so     *)
(* that nothing else depends on the jobs before.  The time limits that     *)
(* were asked for become only more.                                        *)
(***************************************************************************)
EXTENDS LGService, LinkParser, Generator, FiniteSetTheorems, SequenceTheorems, WellFoundedInduction, TLAPS

Kinds == {"none", "complete", "nulls", "panic"}
Linkages == Seq((DOMAIN Texts) \X Kinds \X Nat)
Replies == [kind : {"none", "json", "malformed", "version", "unavailable", "null", "exception",
                    "reset", "eof", "partial"},
            linkages : Linkages]
Jobs == [c : Clients, k : Nat, req : Requests]
Ptds == [initialized : BOOLEAN, seconds : Int, min_null : Nat, max_null : Nat]
ThreadStates == [pc : {"idle", "init", "loading", "read", "parse"},
                 job : Jobs \cup {NoJob}, ptd : Ptds]
ClientStates == [pc : {"ready", "connect", "wait"}, call : Nat, tries : Nat, connects : Nat,
                 k : Nat, reply : Replies, result : Seq(Replies)]

TypeOK ==
  /\ Calls \in CallSets
  /\ queue \in Seq(Jobs)
  /\ thread \in [Threads -> ThreadStates]
  /\ client \in [Clients -> ClientStates]

(* The number of results a client has, and the call it is in.              *)
CallInv ==
  \A c \in Clients :
    /\ client[c].call <= Len(Calls[c])
    /\ client[c].pc = "ready" => Len(client[c].result) = client[c].call
    /\ client[c].pc # "ready" => Len(client[c].result) + 1 = client[c].call

(* A job holds the request of the call that waits for its connection.      *)
JobOf(j, cl) ==
  /\ j.k <= cl[j.c].k
  /\ cl[j.c].pc = "wait" /\ cl[j.c].k = j.k => j.req = Calls[j.c][cl[j.c].call]
  /\ \E i \in 1..cl[j.c].call : i \in DOMAIN Calls[j.c] /\ j.req = Calls[j.c][i]

QueueInv == \A i \in DOMAIN queue : JobOf(queue[i], client)

(* The time limit of a thread that has its options was asked for.          *)
LimitKept(ptd) == ptd.initialized => ptd.seconds \in LimitsLeft /\ ptd.seconds > -1

ThreadInv ==
  \A t \in Threads :
    /\ LimitKept(thread[t].ptd)
    /\ thread[t].pc \in {"read", "parse"} => thread[t].ptd.initialized
    /\ thread[t].pc # "idle" => thread[t].job \in Jobs /\ JobOf(thread[t].job, client)
    /\ thread[t].pc = "parse" =>
         /\ ~thread[t].job.req.get /\ thread[t].job.req.text # "malformed"
         /\ thread[t].ptd.seconds \in LimitsOf(thread[t].job.req)

(* The linkages of an answer are the ones of the call it is for, when the  *)
(* limits left are those of a set.                                         *)
LimitsIn(req, left) ==
  IF Config(req).seconds > -1 THEN {Config(req).seconds} ELSE {s \in left : s > -1}

AnswersIn(r, req, left) ==
  r.kind = "json" => \E s \in LimitsIn(req, left) : r.linkages = Entitled(req, s)

Answers(r, req) == AnswersIn(r, req, LimitsLeft)

(* Before a connection there is none.                                      *)
ReplyInv ==
  \A c \in Clients :
    /\ client[c].pc = "wait" => Answers(client[c].reply, Calls[c][client[c].call])
    /\ client[c].pc # "wait" => client[c].reply.kind # "json"

ServiceInv == TypeOK /\ CallInv /\ QueueInv /\ ThreadInv /\ ReplyInv /\ AnswersOwnText

-----------------------------------------------------------------------------
(* jParse() finds the linkages of one of the three kinds of parse.         *)
LEMMA ParseType ==
  ASSUME NEW text \in DOMAIN Texts, NEW ptd \in Ptds
  PROVE  /\ jParse(text, ptd).found \in [from : Kinds, n : Nat]
         /\ jParse(text, ptd).ptd \in Ptds
  BY TextsAssumption
  DEF jParse, sentence_parse, WithNulls, WithoutNulls, Kinds, Ptds, None

(* The limits of a request are numbers.                                    *)
LEMMA ConfigType ==
  ASSUME NEW req \in Requests
  PROVE  Config(req).seconds \in Int /\ Config(req).maxLinkages \in Nat
  BY DEF Config, Requests

(* jParse() and getAsJSONFormat() answer a request that is not refused     *)
(* with the linkages it is entitled to within the time limit of the        *)
(* thread, whatever null counts the last sentence of the thread has left.  *)
LEMMA AnswerExact ==
  ASSUME NEW req \in Requests, req.text \in DOMAIN Texts,
         NEW ptd \in Ptds,
         jParse(req.text, ptd).found.n # 0
  PROVE  getAsJSONFormat(req.text, jParse(req.text, ptd).found, Config(req).maxLinkages).linkages
           = Entitled(req, ptd.seconds)
  <1> DEFINE T == Texts[req.text]
             s == ptd.seconds
             max == Config(req).maxLinkages
             first == sentence_parse(req.text, WithoutNulls(ptd))
             second == sentence_parse(req.text, WithNulls(ptd))
             found == jParse(req.text, ptd).found
             from == IF T.complete > 0 /\ T.time <= s THEN "complete"
                     ELSE IF T.null_time <= s THEN "nulls" ELSE "panic"
             n == IF from = "complete" THEN T.complete ELSE IF from = "nulls" THEN T.nulls ELSE T.panic
  <1>1. T \in [bad : BOOLEAN, complete : Nat, nulls : Nat, panic : Nat, time : Nat, null_time : Nat]
        /\ s \in Int
    BY TextsAssumption DEF Ptds
  <1>2. /\ WithoutNulls(ptd).min_null = 0 /\ WithoutNulls(ptd).seconds = s
        /\ WithNulls(ptd).min_null = 1 /\ WithNulls(ptd).seconds = s
    BY DEF WithoutNulls, WithNulls, Ptds
  <1>3. first = IF T.bad \/ T.time > s THEN [from |-> None, n |-> 0]
                ELSE [from |-> "complete", n |-> T.complete]
    BY <1>1, <1>2 DEF sentence_parse, Seconds
  <1>4. second = IF T.bad \/ T.null_time > s THEN [from |-> None, n |-> 0]
                 ELSE [from |-> "nulls", n |-> T.nulls]
    BY <1>1, <1>2 DEF sentence_parse, Seconds
  <1>5. found = IF T.bad \/ first.n > 0 THEN first
                ELSE IF second.n = 0 /\ T.null_time > s THEN [from |-> "panic", n |-> T.panic]
                ELSE second
    BY DEF jParse
  <1>6. found.from = from /\ found.n = n
    <2>1. CASE T.bad
      BY <2>1, <1>3, <1>5
    <2>2. CASE ~T.bad /\ T.complete > 0 /\ T.time <= s
      BY <2>2, <1>1, <1>3, <1>5
    <2>3. CASE ~T.bad /\ ~(T.complete > 0 /\ T.time <= s)
      <3>1. first.n = 0
        BY <2>3, <1>1, <1>3
      <3>2. CASE T.null_time > s
        BY <2>3, <3>1, <3>2, <1>1, <1>4, <1>5
      <3>3. CASE ~(T.null_time > s)
        BY <2>3, <3>1, <3>3, <1>1, <1>4, <1>5
      <3> QED BY <3>2, <3>3
    <2> QED BY <2>1, <2>2, <2>3
  <1>7. Entitled(req, s) = [i \in 1..(IF max < n THEN max ELSE n) |-> <<req.text, from, i>>]
    BY DEF Entitled
  <1> QED BY <1>6, <1>7 DEF getAsJSONFormat, Reply, makeLinkage

(* An answer, also the malformed one, has a list of linkages.              *)
LEMMA AnswerType ==
  ASSUME NEW req \in Requests, req.text \in DOMAIN Texts, NEW ptd \in Ptds
  PROVE  /\ getAsJSONFormat(req.text, jParse(req.text, ptd).found, Config(req).maxLinkages) \in Replies
         /\ getEmptyJSONResult \in Replies
  <1>1. jParse(req.text, ptd).found \in [from : Kinds, n : Nat] /\ Config(req).maxLinkages \in Nat
    BY ParseType, ConfigType
  <1>2. ASSUME NEW x \in DOMAIN Texts, NEW from \in Kinds, NEW m \in Nat
        PROVE  [i \in 1..m |-> <<x, from, i>>] \in Linkages
    <2>1. \A i \in 1..m : <<x, from, i>> \in (DOMAIN Texts) \X Kinds \X Nat
      OBVIOUS
    <2> QED BY <2>1 DEF Linkages
  <1>3. <<>> \in Linkages
    BY DEF Linkages
  <1> QED BY <1>1, <1>2, <1>3 DEF getAsJSONFormat, getEmptyJSONResult, Reply, Replies, makeLinkage

(* Calls go on: the time limits asked for stay, and an answer that was     *)
(* right stays right.                                                      *)
LEMMA LimitsGrow ==
  ASSUME TypeOK, Calls' = Calls, client' \in [Clients -> ClientStates],
         \A c \in Clients : client[c].call <= client'[c].call
  PROVE  /\ LimitsLeft \subseteq LimitsLeft'
         /\ \A req : LimitsOf(req) \subseteq LimitsOf(req)'
         /\ \A r, req : AnswersIn(r, req, LimitsLeft) => AnswersIn(r, req, LimitsLeft')
  <1>1. \A c \in Clients : 1..client[c].call \subseteq 1..client'[c].call
    <2>1. \A c \in Clients : client[c].call \in Nat /\ client'[c].call \in Nat
      BY DEF TypeOK, ClientStates
    <2> QED BY <2>1
  <1>2. ASSUME NEW s \in LimitsLeft PROVE s \in LimitsLeft'
    <2>1. CASE s = NewPtd.seconds
      BY <2>1 DEF LimitsLeft
    <2>2. CASE s # NewPtd.seconds
      <3>1. PICK d \in Clients : \E m \in 1..client[d].call : s = Config(Calls[d][m]).seconds
        BY <2>2 DEF LimitsLeft
      <3>2. \E m \in 1..client'[d].call : s = Config(Calls'[d][m]).seconds
        BY <1>1, <3>1
      <3> QED BY <3>2 DEF LimitsLeft
    <2> QED BY <2>1, <2>2
  <1>3. ASSUME NEW req PROVE LimitsOf(req) \subseteq LimitsOf(req)'
    BY <1>2 DEF LimitsOf
  <1>4. ASSUME NEW r, NEW req, AnswersIn(r, req, LimitsLeft) PROVE AnswersIn(r, req, LimitsLeft')
    BY <1>2, <1>4 DEF AnswersIn, LimitsIn
  <1> QED BY <1>2, <1>3, <1>4

(* As long as no client takes a step, what is said of them stays.          *)
LEMMA ClientsRest ==
  ASSUME Calls' = Calls, client' = client
  PROVE  /\ LimitsLeft' = LimitsLeft
         /\ \A req : LimitsOf(req)' = LimitsOf(req)
         /\ \A j : JobOf(j, client)' <=> JobOf(j, client)
         /\ QueueInv /\ queue' = queue => QueueInv'
         /\ ThreadInv /\ thread' = thread => ThreadInv'
         /\ ReplyInv => ReplyInv'
         /\ AnswersOwnText => AnswersOwnText'
  <1>1. LimitsLeft' = LimitsLeft
    BY DEF LimitsLeft
  <1>2. \A req : LimitsOf(req)' = LimitsOf(req)
    BY <1>1 DEF LimitsOf
  <1>4. \A j : JobOf(j, client)' <=> JobOf(j, client)
    BY DEF JobOf
  <1>5. QueueInv /\ queue' = queue => QueueInv'
    BY DEF QueueInv, JobOf
  <1>6. ASSUME ThreadInv, thread' = thread PROVE ThreadInv'
    BY ONLY <1>1, <1>2, <1>4, <1>6 DEF ThreadInv, LimitKept
  <1>7. ReplyInv => ReplyInv'
    BY <1>1 DEF ReplyInv, Answers
  <1>8. AnswersOwnText => AnswersOwnText'
    BY <1>2 DEF AnswersOwnText
  <1> QED BY <1>1, <1>2, <1>4, <1>5, <1>6, <1>7, <1>8

(* The results of the clients, by the limits left.                         *)
LEMMA ResultsAnswer ==
  AnswersOwnText <=> \A c \in Clients : \A m \in DOMAIN client[c].result :
                       Answers(client[c].result[m], Calls[c][m])
  BY DEF AnswersOwnText, Answers, AnswersIn, LimitsOf, LimitsIn

(* The time limit of a request that is made has been asked for.            *)
LEMMA MadeLimit ==
  ASSUME NEW c \in Clients, NEW m \in 1..client[c].call
  PROVE  Config(Calls[c][m]).seconds \in LimitsLeft
  BY DEF LimitsLeft

(* A job stays the job of its client's call as long as the client does not *)
(* wait for that connection anew.                                          *)
LEMMA JobStays ==
  ASSUME NEW j \in Jobs, TypeOK, JobOf(j, client), Calls' = Calls,
         client' \in [Clients -> ClientStates],
         \A c \in Clients : /\ client[c].k <= client'[c].k
                            /\ client[c].call <= client'[c].call
                            /\ client'[c].pc = "wait" /\ client'[c].k = client[c].k
                                 => client[c].pc = "wait" /\ client'[c].call = client[c].call
  PROVE  JobOf(j, client)'
  <1>1. j.c \in Clients /\ j.k \in Nat
    BY DEF Jobs
  <1>2. /\ client[j.c].k \in Nat /\ client'[j.c].k \in Nat
        /\ client[j.c].call \in Nat /\ client'[j.c].call \in Nat
    BY <1>1 DEF TypeOK, ClientStates
  <1>3. j.k <= client'[j.c].k
    BY <1>1, <1>2 DEF JobOf
  <1>4. client'[j.c].pc = "wait" /\ client'[j.c].k = j.k => j.req = Calls'[j.c][client'[j.c].call]
    BY <1>1, <1>2 DEF JobOf
  <1>5. \E i \in 1..client'[j.c].call : i \in DOMAIN Calls'[j.c] /\ j.req = Calls'[j.c][i]
    <2>1. PICK i \in 1..client[j.c].call : i \in DOMAIN Calls[j.c] /\ j.req = Calls[j.c][i]
      BY DEF JobOf
    <2>2. i \in 1..client'[j.c].call
      BY <1>1, <1>2
    <2> QED BY <2>1, <2>2
  <1> QED BY <1>3, <1>4, <1>5 DEF JobOf

(* A step that changes only replies, or nothing, of the clients.           *)
LEMMA JobsStay ==
  ASSUME TypeOK, QueueInv, Calls' = Calls,
         client' \in [Clients -> ClientStates],
         \A c \in Clients : /\ client[c].k <= client'[c].k
                            /\ client[c].call <= client'[c].call
                            /\ client'[c].pc = "wait" /\ client'[c].k = client[c].k
                                 => client[c].pc = "wait" /\ client'[c].call = client[c].call
  PROVE  /\ queue' = queue => QueueInv'
         /\ ThreadInv /\ thread' = thread => ThreadInv'
  <1>1. \A i \in DOMAIN queue : queue[i] \in Jobs
    BY DEF TypeOK
  <1>2. ASSUME queue' = queue PROVE QueueInv'
    BY <1>1, <1>2, JobStays DEF QueueInv
  <1>3. ASSUME ThreadInv, thread' = thread PROVE ThreadInv'
    <2>1. LimitsLeft \subseteq LimitsLeft' /\ \A req : LimitsOf(req) \subseteq LimitsOf(req)'
      BY LimitsGrow
    <2>2. ASSUME NEW t \in Threads
          PROVE  /\ LimitKept(thread[t].ptd)'
                 /\ thread[t].pc # "idle" => thread[t].job \in Jobs /\ JobOf(thread[t].job, client)'
      <3>1. LimitKept(thread[t].ptd)'
        BY <1>3, <2>1 DEF ThreadInv, LimitKept
      <3>2. ASSUME thread[t].pc # "idle" PROVE thread[t].job \in Jobs /\ JobOf(thread[t].job, client)'
        <4>1. PICK j \in Jobs : j = thread[t].job /\ JobOf(j, client)
          BY <1>3, <3>2 DEF ThreadInv
        <4>2. JobOf(j, client)'
          BY <4>1, JobStays
        <4> QED BY <1>3, <4>1, <4>2 DEF JobOf
      <3> QED BY <3>1, <3>2
    <2> QED BY <1>3, <2>1, <2>2 DEF ThreadInv
  <1> QED BY <1>2, <1>3

(* A reply without linkages answers nobody wrongly.                        *)
LEMMA Failures ==
  ASSUME NEW kind \in {"none", "malformed", "version", "unavailable", "null", "exception",
                       "reset", "eof", "partial"}
  PROVE  /\ Reply(kind, <<>>) \in Replies /\ Reply(kind, <<>>).kind # "json"
         /\ \A req \in Requests : Answers(Reply(kind, <<>>), req)
  BY DEF Reply, Replies, Linkages, Answers, AnswersIn

-----------------------------------------------------------------------------
(* The server starts with nothing to do.                                   *)
LEMMA InitInv == Init => ServiceInv
  <1> SUFFICES ASSUME Init PROVE ServiceInv
    OBVIOUS
  <1> USE DEF Init
  <1>1. NoReply \in Replies
    BY DEF NoReply, Reply, Replies, None, Linkages
  <1>2. TypeOK
    <2>1. NoPtd \in Ptds
      BY DEF NoPtd, Ptds
    <2>2. thread \in [Threads -> ThreadStates]
      BY <2>1 DEF ThreadStates
    <2>3. client \in [Clients -> ClientStates]
      BY <1>1 DEF ClientStates
    <2>4. queue \in Seq(Jobs)
      OBVIOUS
    <2> QED BY <2>2, <2>3, <2>4 DEF TypeOK
  <1>3. CallInv
    BY <1>2, CallsAssumption DEF CallInv, TypeOK
  <1>4. QueueInv /\ ThreadInv
    BY DEF QueueInv, ThreadInv, LimitKept, NoPtd
  <1>5. ReplyInv /\ AnswersOwnText
    BY Failures DEF ReplyInv, AnswersOwnText, NoReply, None
  <1> QED BY <1>2, <1>3, <1>4, <1>5 DEF ServiceInv

(* Steps of the server that leave the clients alone.                       *)
LEMMA ServerInv ==
  ASSUME ServiceInv, client' = client, Calls' = Calls,
         queue' \in Seq(Jobs), thread' \in [Threads -> ThreadStates], QueueInv', ThreadInv'
  PROVE  ServiceInv'
  <1>1. ReplyInv' /\ AnswersOwnText'
    BY ClientsRest DEF ServiceInv
  <1> QED BY <1>1 DEF ServiceInv, TypeOK, CallInv

LEMMA ServerStartInv == ServiceInv /\ ServerStart => ServiceInv'
  <1> SUFFICES ASSUME ServiceInv, ServerStart PROVE ServiceInv'
    OBVIOUS
  <1>1. QueueInv' /\ ThreadInv'
    BY ClientsRest DEF ServiceInv, ServerStart
  <1> QED BY <1>1, ServerInv DEF ServiceInv, TypeOK, ServerStart

LEMMA NoDictionaryInv == ASSUME NEW t \in Threads PROVE ServiceInv /\ NoDictionary(t) => ServiceInv'
  <1> SUFFICES ASSUME ServiceInv, NoDictionary(t) PROVE ServiceInv'
    OBVIOUS
  <1>1. QueueInv' /\ ThreadInv'
    BY ClientsRest DEF ServiceInv, NoDictionary
  <1> QED BY <1>1, ServerInv DEF ServiceInv, TypeOK, NoDictionary

(* A step of one thread, of which the clients see nothing.                 *)
LEMMA OneThread ==
  ASSUME ThreadInv, NEW t \in Threads, \A u \in Threads \ {t} : thread'[u] = thread[u],
         client' = client, Calls' = Calls,
         thread'[t].pc # "idle" => thread'[t].job \in Jobs /\ JobOf(thread'[t].job, client),
         LimitKept(thread'[t].ptd),
         thread'[t].pc \in {"read", "parse"} => thread'[t].ptd.initialized,
         thread'[t].pc = "parse" =>
           /\ ~thread'[t].job.req.get /\ thread'[t].job.req.text # "malformed"
           /\ thread'[t].ptd.seconds \in LimitsOf(thread'[t].job.req)
  PROVE  ThreadInv'
  <1>1. /\ \A j : JobOf(j, client) => JobOf(j, client)'
        /\ LimitsLeft' = LimitsLeft /\ \A req : LimitsOf(req)' = LimitsOf(req)
    BY ONLY client' = client, Calls' = Calls, ClientsRest
  <1>2. ASSUME NEW u \in Threads
        PROVE  /\ thread'[u].pc # "idle" => thread'[u].job \in Jobs /\ JobOf(thread'[u].job, client)
               /\ LimitKept(thread'[u].ptd)
               /\ thread'[u].pc \in {"read", "parse"} => thread'[u].ptd.initialized
               /\ thread'[u].pc = "parse" =>
                    /\ ~thread'[u].job.req.get /\ thread'[u].job.req.text # "malformed"
                    /\ thread'[u].ptd.seconds \in LimitsOf(thread'[u].job.req)
    <2>1. CASE u = t
      BY <2>1
    <2>2. CASE u # t
      <3>1. thread'[u] = thread[u]
        BY <2>2
      <3> QED BY ONLY <3>1, ThreadInv, u \in Threads DEF ThreadInv
    <2> QED BY <2>1, <2>2
  <1> QED BY ONLY <1>1, <1>2 DEF ThreadInv, LimitKept

LEMMA TakeInv == ASSUME NEW t \in Threads PROVE ServiceInv /\ Take(t) => ServiceInv'
  <1> SUFFICES ASSUME ServiceInv, Take(t) PROVE ServiceInv'
    OBVIOUS
  <1>1. /\ queue \in Seq(Jobs) /\ queue # <<>> /\ queue' = Tail(queue)
        /\ client' = client /\ Calls' = Calls
        /\ thread \in [Threads -> ThreadStates]
        /\ thread' = [thread EXCEPT ![t] = [@ EXCEPT !.pc = "init", !.job = Head(queue)]]
    BY DEF ServiceInv, TypeOK, Take
  <1>2. Head(queue) = queue[1] /\ queue[1] \in Jobs /\ 1 \in DOMAIN queue
    BY <1>1
  <1>3. thread' \in [Threads -> ThreadStates]
    BY <1>1, <1>2 DEF ThreadStates
  <1>4. /\ queue' \in Seq(Jobs)
        /\ \A i \in DOMAIN queue' : i + 1 \in DOMAIN queue /\ queue'[i] = queue[i + 1]
    BY <1>1
  <1>5. QueueInv'
    BY <1>1, <1>4 DEF ServiceInv, QueueInv, JobOf
  <1>6. ThreadInv'
    <2>1. PICK j \in Jobs : j = queue[1]
      BY <1>2
    <2>3. thread'[t].pc = "init" /\ thread'[t].job = j /\ thread'[t].ptd = thread[t].ptd
      BY <1>1, <1>2, <2>1 DEF ThreadStates
    <2>4. \A u \in Threads \ {t} : thread'[u] = thread[u]
      BY <1>1
    <2>5. JobOf(j, client)
      BY <1>1, <1>2, <2>1 DEF ServiceInv, QueueInv
    <2>6. /\ thread'[t].pc \notin {"read", "parse"} /\ ThreadInv
          /\ LimitKept(thread'[t].ptd)
      BY <2>3 DEF ServiceInv, ThreadInv, LimitKept
    <2> QED BY ONLY <1>1, <2>1, <2>3, <2>4, <2>5, <2>6, OneThread, t \in Threads
  <1> QED BY <1>1, <1>3, <1>4, <1>5, <1>6, ServerInv

(* A thread that only goes on, perhaps with new options, before it reads.  *)
LEMMA GoesOn ==
  ASSUME ServiceInv, NEW t \in Threads, thread[t].pc # "idle",
         NEW pc \in {"read", "loading"}, NEW ptd \in Ptds, LimitKept(ptd),
         pc = "read" => ptd.initialized,
         thread' = [thread EXCEPT ![t] = [@ EXCEPT !.pc = pc, !.ptd = ptd]],
         client' = client, Calls' = Calls, queue' = queue
  PROVE  ServiceInv'
  <1>1. thread \in [Threads -> ThreadStates]
    BY DEF ServiceInv, TypeOK
  <1>2. thread' \in [Threads -> ThreadStates]
    BY <1>1 DEF ThreadStates
  <1>3. thread'[t].pc = pc /\ thread'[t].job = thread[t].job /\ thread'[t].ptd = ptd
    BY <1>1 DEF ThreadStates
  <1>4. \A u \in Threads \ {t} : thread'[u] = thread[u]
    BY <1>1
  <1>5. ThreadInv'
    <2>1. ThreadInv /\ thread[t].job \in Jobs /\ JobOf(thread[t].job, client)
      BY DEF ServiceInv, ThreadInv
    <2>2. /\ thread'[t].pc # "parse" /\ LimitKept(thread'[t].ptd)
          /\ thread'[t].pc = "read" => thread'[t].ptd.initialized
      BY <1>3 DEF LimitKept
    <2> QED BY ONLY <1>3, <1>4, <2>1, <2>2, client' = client, Calls' = Calls, OneThread, t \in Threads
  <1>6. QueueInv'
    BY DEF ServiceInv, QueueInv, JobOf
  <1> QED BY <1>2, <1>5, <1>6, ServerInv DEF ServiceInv, TypeOK

LEMMA InitializeInv == ASSUME NEW t \in Threads PROVE ServiceInv /\ Initialize(t) => ServiceInv'
  <1> SUFFICES ASSUME ServiceInv, Initialize(t) PROVE ServiceInv'
    OBVIOUS
  <1>1. thread \in [Threads -> ThreadStates] /\ thread[t].pc = "init" /\ thread[t].ptd \in Ptds
    BY DEF ServiceInv, TypeOK, ThreadStates, Initialize, Alive
  <1>2. NewPtd \in Ptds
    BY DEF NewPtd, Ptds
  <1>3. [thread EXCEPT ![t].pc = "read"]
          = [thread EXCEPT ![t] = [@ EXCEPT !.pc = "read", !.ptd = thread[t].ptd]]
    BY <1>1 DEF ThreadStates
  <1>4. [thread EXCEPT ![t].pc = "loading"]
          = [thread EXCEPT ![t] = [@ EXCEPT !.pc = "loading", !.ptd = thread[t].ptd]]
    BY <1>1 DEF ThreadStates
  <1>5. PICK pc \in {"read", "loading"}, ptd \in Ptds :
          /\ thread' = [thread EXCEPT ![t] = [@ EXCEPT !.pc = pc, !.ptd = ptd]]
          /\ LimitKept(ptd) /\ (pc = "read" => ptd.initialized)
    <2>1. LimitKept(thread[t].ptd)
      BY DEF ServiceInv, ThreadInv
    <2>2. LimitKept(NewPtd) /\ NewPtd.initialized
      BY DEF LimitKept, LimitsLeft, NewPtd
    <2> QED BY <1>1, <1>2, <1>3, <1>4, <2>1, <2>2 DEF Initialize
  <1>6. client' = client /\ Calls' = Calls /\ queue' = queue
    BY DEF Initialize
  <1> QED BY <1>1, <1>5, <1>6, GoesOn

LEMMA OpenDictionaryInv ==
  ASSUME NEW t \in Threads PROVE ServiceInv /\ OpenDictionary(t) => ServiceInv'
  <1> SUFFICES ASSUME ServiceInv, OpenDictionary(t) PROVE ServiceInv'
    OBVIOUS
  <1>1. client' = client /\ Calls' = Calls /\ queue' = queue /\ thread[t].pc = "loading"
    BY DEF OpenDictionary, Alive
  <1>2. CASE thread' = thread
    <2>1. QueueInv' /\ ThreadInv'
      BY <1>1, <1>2, ClientsRest DEF ServiceInv
    <2> QED BY <1>1, <1>2, <2>1, ServerInv DEF ServiceInv, TypeOK
  <1>3. CASE thread' = [thread EXCEPT ![t] = [@ EXCEPT !.pc = "read", !.ptd = NewPtd]]
    <2>1. NewPtd \in Ptds /\ LimitKept(NewPtd) /\ NewPtd.initialized
      BY DEF NewPtd, Ptds, LimitKept, LimitsLeft
    <2> QED BY <1>1, <1>3, <2>1, GoesOn
  <1> QED BY <1>2, <1>3 DEF OpenDictionary

-----------------------------------------------------------------------------
(* A reply reaches a client that waits, or nobody.                         *)
LEMMA ReplyGiven ==
  ASSUME ServiceInv, Calls' = Calls, NEW c \in Clients, NEW r \in Replies,
         client' = [client EXCEPT ![c].reply = r],
         client[c].pc = "wait", Answers(r, Calls[c][client[c].call])
  PROVE  /\ client' \in [Clients -> ClientStates]
         /\ CallInv' /\ ReplyInv' /\ AnswersOwnText'
         /\ \A d \in Clients : /\ client[d].k <= client'[d].k
                               /\ client[d].call <= client'[d].call
                               /\ client'[d].pc = "wait" /\ client'[d].k = client[d].k
                                    => client[d].pc = "wait" /\ client'[d].call = client[d].call
  <1>1. client \in [Clients -> ClientStates]
    BY DEF ServiceInv, TypeOK
  <1>2. client' \in [Clients -> ClientStates]
    BY <1>1 DEF ClientStates
  <1>3. \A d \in Clients :
          /\ client'[d].pc = client[d].pc /\ client'[d].call = client[d].call
          /\ client'[d].k = client[d].k /\ client'[d].result = client[d].result
          /\ client[d].k \in Nat /\ client[d].call \in Nat
    BY <1>1 DEF ClientStates
  <1>4. \A x, req : AnswersIn(x, req, LimitsLeft) => AnswersIn(x, req, LimitsLeft')
    BY <1>2, <1>3, LimitsGrow DEF ServiceInv
  <1>7. CallInv'
    BY <1>3 DEF ServiceInv, CallInv
  <1>8. AnswersOwnText'
    <2>1. \A d \in Clients : \A m \in DOMAIN client[d].result :
            AnswersIn(client[d].result[m], Calls[d][m], LimitsLeft)
      BY ResultsAnswer DEF ServiceInv, Answers
    <2>2. \A d \in Clients : \A m \in DOMAIN client'[d].result :
            AnswersIn(client'[d].result[m], Calls'[d][m], LimitsLeft')
      BY <1>3, <1>4, <2>1
    <2>3. AnswersOwnText' <=> \A d \in Clients : \A m \in DOMAIN client'[d].result :
                                AnswersIn(client'[d].result[m], Calls'[d][m], LimitsLeft')
      BY DEF AnswersOwnText, AnswersIn, LimitsOf, LimitsIn
    <2> QED BY <2>2, <2>3
  <1>5. client'[c].reply = r /\ \A d \in Clients \ {c} : client'[d] = client[d]
    BY <1>1 DEF ClientStates
  <1>6. ReplyInv'
    <2>1. \A d \in Clients \ {c} : client[d].pc = "wait" => Answers(client[d].reply, Calls[d][client[d].call])
      BY DEF ServiceInv, ReplyInv
    <2>2. \A d \in Clients : client'[d].pc = "wait" =>
                               AnswersIn(client'[d].reply, Calls'[d][client'[d].call], LimitsLeft')
      BY <1>3, <1>4, <1>5, <2>1 DEF Answers
    <2>3. \A d \in Clients : client'[d].pc # "wait" => client'[d].reply.kind # "json"
      BY <1>3, <1>5 DEF ServiceInv, ReplyInv
    <2> QED BY <2>2, <2>3 DEF ReplyInv, Answers
  <1> QED BY <1>2, <1>3, <1>7, <1>8, <1>6

LEMMA NoReplyGiven ==
  ASSUME ServiceInv, Calls' = Calls, client' = client
  PROVE  /\ client' \in [Clients -> ClientStates]
         /\ CallInv' /\ ReplyInv' /\ AnswersOwnText'
         /\ \A d \in Clients : /\ client[d].k <= client'[d].k
                               /\ client[d].call <= client'[d].call
                               /\ client'[d].pc = "wait" /\ client'[d].k = client[d].k
                                    => client[d].pc = "wait" /\ client'[d].call = client[d].call
  <1>1. \A d \in Clients : client[d].k \in Nat /\ client[d].call \in Nat
    BY DEF ServiceInv, TypeOK, ClientStates
  <1>2. ReplyInv' /\ AnswersOwnText'
    BY ClientsRest DEF ServiceInv
  <1> QED BY <1>1, <1>2 DEF ServiceInv, TypeOK, CallInv

(* The end of a job gives its client the answer, if it still waits for     *)
(* this very connection.                                                   *)
LEMMA EndJobInv ==
  ASSUME ServiceInv, NEW t \in Threads, thread[t].pc # "idle",
         NEW r \in Replies, NEW ptd \in Ptds, LimitKept(ptd), NEW j \in Jobs, j = thread[t].job,
         Answers(r, j.req), EndJob(t, j, r, ptd), Calls' = Calls, queue' = queue
  PROVE  ServiceInv'
  <1>1. JobOf(j, client) /\ j.c \in Clients
    BY DEF ServiceInv, ThreadInv, Jobs
  <1>2. /\ client' \in [Clients -> ClientStates]
        /\ CallInv' /\ ReplyInv' /\ AnswersOwnText'
        /\ \A d \in Clients : /\ client[d].k <= client'[d].k
                              /\ client[d].call <= client'[d].call
                              /\ client'[d].pc = "wait" /\ client'[d].k = client[d].k
                                   => client[d].pc = "wait" /\ client'[d].call = client[d].call
    <2>1. CASE Connected(j)
      <3>1. Answers(r, Calls[j.c][client[j.c].call])
        BY <1>1, <2>1 DEF JobOf, Connected
      <3>2. client' = [client EXCEPT ![j.c].reply = r]
        BY <2>1 DEF EndJob, Deliver
      <3> QED BY <1>1, <2>1, <3>1, <3>2, ReplyGiven DEF Connected
    <2>2. CASE ~Connected(j)
      <3>1. client' = client
        BY <2>2 DEF EndJob, Deliver
      <3> QED BY <3>1, NoReplyGiven
    <2> QED BY <2>1, <2>2
  <1>3. /\ thread \in [Threads -> ThreadStates]
        /\ thread' = [thread EXCEPT ![t] = [pc |-> "idle", job |-> NoJob, ptd |-> ptd]]
    BY DEF ServiceInv, TypeOK, EndJob
  <1>4. TypeOK'
    <2>1. thread' \in [Threads -> ThreadStates]
      BY <1>3 DEF ThreadStates
    <2> QED BY <1>2, <2>1 DEF ServiceInv, TypeOK
  <1>5. QueueInv'
    BY <1>2, JobsStay DEF ServiceInv
  <1>6. ThreadInv'
    <2>1. thread'[t].pc = "idle" /\ \A u \in Threads \ {t} : thread'[u] = thread[u]
      BY <1>3
    <2>2. ASSUME NEW u \in Threads, thread'[u].pc # "idle"
          PROVE  thread'[u].job \in Jobs /\ JobOf(thread[u].job, client)'
      <3>1. u # t /\ thread'[u] = thread[u]
        BY <2>1, <2>2
      <3>2. PICK i \in Jobs : i = thread[u].job /\ JobOf(i, client)
        BY <2>2, <3>1 DEF ServiceInv, ThreadInv
      <3>3. JobOf(i, client)'
        BY <1>2, <3>2, JobStays DEF ServiceInv
      <3> QED BY <3>1, <3>2, <3>3
    <2>3. ASSUME NEW u \in Threads, thread'[u].pc = "parse"
          PROVE  thread'[u] = thread[u]
      BY <2>1, <2>3
    <2>4. LimitsLeft \subseteq LimitsLeft' /\ \A req : LimitsOf(req) \subseteq LimitsOf(req)'
      BY <1>2, LimitsGrow DEF ServiceInv
    <2>5. ThreadInv /\ thread'[t].ptd = ptd
      BY <1>3 DEF ServiceInv
    <2>6. ASSUME NEW u \in Threads
          PROVE  /\ thread'[u].ptd.initialized => thread'[u].ptd.seconds \in LimitsLeft' /\ thread'[u].ptd.seconds > -1
                 /\ thread'[u].pc \in {"read", "parse"} => thread'[u].ptd.initialized
      <3>1. CASE u = t
        BY <2>1, <2>4, <2>5, <3>1 DEF LimitKept
      <3>2. CASE u # t
        BY <2>1, <2>4, <2>5, <3>2 DEF ThreadInv, LimitKept
      <3> QED BY <3>1, <3>2
    <2>7. ASSUME NEW u \in Threads, thread'[u].pc = "parse"
          PROVE  /\ ~thread'[u].job.req.get /\ thread'[u].job.req.text # "malformed"
                 /\ thread'[u].ptd.seconds \in LimitsOf(thread[u].job.req)'
      BY <2>3, <2>4, <2>5, <2>7 DEF ThreadInv
    <2> QED BY ONLY <2>2, <2>6, <2>7 DEF ThreadInv, LimitKept
  <1> QED BY <1>2, <1>4, <1>5, <1>6 DEF ServiceInv

LEMMA ReadRequestInv ==
  ASSUME NEW t \in Threads PROVE ServiceInv /\ ReadRequest(t) => ServiceInv'
  <1> SUFFICES ASSUME ServiceInv, ReadRequest(t) PROVE ServiceInv'
    OBVIOUS
  <1>1. /\ thread \in [Threads -> ThreadStates] /\ thread[t].pc = "read"
        /\ Calls' = Calls /\ queue' = queue
    BY DEF ServiceInv, TypeOK, ReadRequest, Alive
  <1>2. PICK j \in Jobs : j = thread[t].job /\ JobOf(j, client)
    BY <1>1 DEF ServiceInv, ThreadInv
  <1>3. PICK ptd \in Ptds : ptd = thread[t].ptd
    BY <1>1 DEF ThreadStates
  <1>4. /\ j.req \in Requests /\ Config(j.req).seconds \in Int
        /\ LimitKept(ptd) /\ ptd.initialized
    BY <1>1, <1>3, ConfigType DEF Jobs, ServiceInv, ThreadInv
  <1>5. CASE EndJob(t, j, Reply("version", <<>>), ptd)
    BY <1>1, <1>2, <1>4, <1>5, Failures, EndJobInv
  <1>6. CASE EndJob(t, j, Reply("eof", <<>>), ptd)
    BY <1>1, <1>2, <1>4, <1>6, Failures, EndJobInv
  <1>7. CASE /\ ~j.req.get /\ j.req.text # "malformed" /\ client' = client
              /\ thread' = [thread EXCEPT ![t] = [@ EXCEPT !.pc = "parse", !.ptd = configure(j.req, ptd)]]
    <2>1. PICK new \in Ptds : /\ new = configure(j.req, ptd) /\ new.initialized
                              /\ new.seconds \in LimitsOf(j.req) /\ LimitKept(new)
      <3>1. Config(j.req).seconds \in LimitsLeft
        <4>1. PICK i \in 1..client[j.c].call : j.req = Calls[j.c][i]
          BY <1>2 DEF JobOf
        <4> QED BY <4>1, MadeLimit DEF Jobs
      <3>2. CASE Config(j.req).seconds > -1
        <4>1. configure(j.req, ptd) = [ptd EXCEPT !.seconds = Config(j.req).seconds]
          BY <3>2 DEF configure
        <4>2. PICK new \in Ptds : /\ new = configure(j.req, ptd) /\ new.initialized
                                  /\ new.seconds = Config(j.req).seconds
          <5>1. [ptd EXCEPT !.seconds = Config(j.req).seconds] \in Ptds
            BY <1>4 DEF Ptds
          <5> QED BY <1>4, <4>1, <5>1 DEF Ptds
        <4>3. new.seconds \in LimitsOf(j.req)
          BY <3>2, <4>2 DEF LimitsOf
        <4>4. LimitKept(new)
          BY <3>1, <3>2, <4>2 DEF LimitKept
        <4> QED BY <4>2, <4>3, <4>4
      <3>3. CASE ~(Config(j.req).seconds > -1)
        BY <1>4, <3>3 DEF configure, LimitsOf, LimitKept
      <3> QED BY <3>2, <3>3
    <2>2. thread' \in [Threads -> ThreadStates]
      <3>1. [thread[t] EXCEPT !.pc = "parse", !.ptd = new] \in ThreadStates
        BY <1>1 DEF ThreadStates
      <3> QED BY <1>1, <1>7, <2>1, <3>1
    <2>3. /\ thread'[t].pc = "parse" /\ thread'[t].job = j /\ thread'[t].ptd = new
          /\ \A u \in Threads \ {t} : thread'[u] = thread[u]
      BY <1>1, <1>2, <1>7, <2>1 DEF ThreadStates
    <2>4. ThreadInv'
      <3>1. ThreadInv
        BY DEF ServiceInv
      <3>2. LimitKept(thread'[t].ptd)
        BY <2>1, <2>3 DEF LimitKept
      <3> QED BY ONLY <1>1, <1>2, <1>7, <2>1, <2>3, <3>1, <3>2, OneThread, t \in Threads
    <2>5. QueueInv'
      BY <1>1, <1>7, ClientsRest DEF ServiceInv
    <2> QED BY <1>1, <1>7, <2>2, <2>4, <2>5, ServerInv DEF ServiceInv, TypeOK
  <1> QED BY <1>2, <1>3, <1>5, <1>6, <1>7 DEF ReadRequest

(* The parse: its text is one of the known ones, its time limit the one of *)
(* this job, or the one left when this job sets none.                      *)
LEMMA HandleTextInv ==
  ASSUME NEW t \in Threads PROVE ServiceInv /\ HandleText(t) => ServiceInv'
  <1> SUFFICES ASSUME ServiceInv, HandleText(t) PROVE ServiceInv'
    OBVIOUS
  <1>1. /\ thread \in [Threads -> ThreadStates] /\ thread[t].pc = "parse"
        /\ Calls' = Calls /\ queue' = queue
    BY DEF ServiceInv, TypeOK, HandleText, Alive
  <1>2. PICK j \in Jobs : /\ j = thread[t].job /\ JobOf(j, client)
                          /\ ~j.req.get /\ j.req.text # "malformed"
                          /\ thread[t].ptd.seconds \in LimitsOf(j.req)
    BY <1>1 DEF ServiceInv, ThreadInv
  <1>3. PICK ptd \in Ptds : ptd = thread[t].ptd /\ LimitKept(ptd)
    <2>1. LimitKept(thread[t].ptd) /\ thread[t].ptd \in Ptds
      BY <1>1 DEF ThreadStates, ServiceInv, ThreadInv
    <2> QED BY <2>1
  <1>4. getEmptyJSONResult \in Replies /\ Answers(getEmptyJSONResult, j.req)
    BY Failures DEF getEmptyJSONResult, Jobs
  <1>5. CASE EndJob(t, j, getEmptyJSONResult, ptd)
    BY <1>1, <1>2, <1>3, <1>4, <1>5, EndJobInv
  <1>6. CASE j.req.text # "blank"
    <2>1. j.req \in Requests /\ j.req.text \in DOMAIN Texts
      <3>1. Calls \in CallSets /\ j.c \in Clients
        BY DEF ServiceInv, TypeOK, Jobs
      <3>2. PICK i \in DOMAIN Calls[j.c] : j.req = Calls[j.c][i]
        BY <1>2 DEF JobOf
      <3>3. j.req.text # "none"
        BY <1>2, <3>1, <3>2, CallsAssumption
      <3> QED BY <1>2, <1>6, <3>3 DEF Jobs, Requests
    <2>2. PICK req \in Requests : req = j.req
      BY <2>1
    <2> DEFINE r == jParse(req.text, ptd)
               json == getAsJSONFormat(req.text, r.found, Config(req).maxLinkages)
    <2>3. r.ptd \in Ptds /\ LimitKept(r.ptd)
      <3>1. r.ptd.initialized = ptd.initialized /\ r.ptd.seconds = ptd.seconds
        BY DEF jParse, WithNulls, WithoutNulls, Ptds
      <3> QED BY <1>3, <2>1, <2>2, <3>1, ParseType DEF LimitKept
    <2>4. CASE EndJob(t, j, getEmptyJSONResult, r.ptd)
      BY <1>1, <1>2, <1>4, <2>3, <2>4, EndJobInv
    <2>5. CASE r.found.n # 0 /\ EndJob(t, j, json, r.ptd)
      <3>1. json \in Replies
        BY <2>1, <2>2, AnswerType
      <3>2. Answers(json, j.req)
        <4>1. json.linkages = Entitled(req, ptd.seconds)
          BY <2>1, <2>2, <2>5, AnswerExact
        <4> QED BY <1>2, <1>3, <2>2, <4>1 DEF Answers, AnswersIn, LimitsIn, LimitsOf
      <3> HIDE DEF json, r
      <3> QED BY <1>1, <1>2, <2>3, <2>5, <3>1, <3>2, EndJobInv
    <2> QED BY <1>2, <1>3, <1>6, <2>2, <2>4, <2>5 DEF HandleText
  <1> QED BY <1>2, <1>3, <1>5, <1>6 DEF HandleText

-----------------------------------------------------------------------------
(* The clients.  A step of client c leaves the others alone, and its own   *)
(* older connections are never waited for again.                           *)
LEMMA ClientInv ==
  ASSUME ServiceInv, NEW c \in Clients, NEW cl \in ClientStates,
         client' = [client EXCEPT ![c] = cl], Calls' = Calls, thread' = thread,
         queue' \in Seq(Jobs), queue' = queue \/ QueueInv',
         client[c].k <= cl.k, client[c].call <= cl.call,
         cl.pc = "wait" /\ cl.k = client[c].k => client[c].pc = "wait" /\ cl.call = client[c].call,
         cl.call <= Len(Calls[c]),
         cl.pc = "ready" => Len(cl.result) = cl.call,
         cl.pc # "ready" => Len(cl.result) + 1 = cl.call,
         cl.pc = "wait" => Answers(cl.reply, Calls[c][cl.call]),
         cl.pc # "wait" => cl.reply.kind # "json",
         \A i \in DOMAIN cl.result : Answers(cl.result[i], Calls[c][i])
  PROVE  ServiceInv'
  <1>1. client \in [Clients -> ClientStates]
    BY DEF ServiceInv, TypeOK
  <1>2. client'[c] = cl /\ \A d \in Clients \ {c} : client'[d] = client[d]
    BY <1>1
  <1>3. client' \in [Clients -> ClientStates]
    BY <1>1
  <1>4. TypeOK'
    BY <1>3 DEF ServiceInv, TypeOK
  <1>5. CallInv'
    BY <1>2 DEF ServiceInv, CallInv
  <1>6. ReplyInv' /\ AnswersOwnText'
    <2>1. \A d \in Clients : client[d].call \in Nat
      BY <1>1 DEF ClientStates
    <2>2. \A d \in Clients : client[d].call <= client'[d].call
      BY <1>2, <2>1
    <2>3. \A x, req : AnswersIn(x, req, LimitsLeft) => AnswersIn(x, req, LimitsLeft')
      BY <1>3, <2>2, LimitsGrow DEF ServiceInv
    <2>4. \A d \in Clients : /\ client[d].pc = "wait" => Answers(client[d].reply, Calls[d][client[d].call])
                             /\ client[d].pc # "wait" => client[d].reply.kind # "json"
      BY DEF ServiceInv, ReplyInv
    <2>5. \A d \in Clients :
            /\ client'[d].pc = "wait" =>
                 AnswersIn(client'[d].reply, Calls'[d][client'[d].call], LimitsLeft')
            /\ client'[d].pc # "wait" => client'[d].reply.kind # "json"
      BY <1>2, <2>3, <2>4 DEF Answers
    <2>6. \A d \in Clients : \A m \in DOMAIN client[d].result :
            AnswersIn(client[d].result[m], Calls[d][m], LimitsLeft)
      BY ResultsAnswer DEF ServiceInv, Answers
    <2>7. \A d \in Clients : \A m \in DOMAIN client'[d].result :
            AnswersIn(client'[d].result[m], Calls'[d][m], LimitsLeft')
      BY <1>2, <2>3, <2>6 DEF Answers
    <2>8. AnswersOwnText' <=> \A d \in Clients : \A m \in DOMAIN client'[d].result :
                                AnswersIn(client'[d].result[m], Calls'[d][m], LimitsLeft')
      BY DEF AnswersOwnText, AnswersIn, LimitsOf, LimitsIn
    <2> QED BY <2>5, <2>7, <2>8 DEF ReplyInv, Answers
  <1>7. \A d \in Clients : /\ client[d].k <= client'[d].k
                           /\ client[d].call <= client'[d].call
                           /\ client'[d].pc = "wait" /\ client'[d].k = client[d].k
                                => client[d].pc = "wait" /\ client'[d].call = client[d].call
    <2>1. \A d \in Clients : client[d].k \in Nat /\ client[d].call \in Nat
      BY <1>1 DEF ClientStates
    <2> QED BY <1>2, <2>1
  <1>8. QueueInv' /\ ThreadInv'
    BY <1>3, <1>7, JobsStay DEF ServiceInv
  <1> QED BY <1>4, <1>5, <1>6, <1>8 DEF ServiceInv

(* What the invariant says of one client.                                  *)
LEMMA ClientFacts ==
  ASSUME ServiceInv, NEW c \in Clients
  PROVE  /\ client[c] \in ClientStates /\ Calls[c] \in Seq(Requests)
         /\ \A i \in DOMAIN client[c].result : Answers(client[c].result[i], Calls[c][i])
         /\ client[c].pc = "ready" => Len(client[c].result) = client[c].call
         /\ client[c].pc # "ready" => Len(client[c].result) + 1 = client[c].call
         /\ client[c].call <= Len(Calls[c])
         /\ client[c].pc = "wait" => Answers(client[c].reply, Calls[c][client[c].call])
         /\ client[c].pc # "wait" => client[c].reply.kind # "json"
  BY CallsAssumption, ResultsAnswer DEF ServiceInv, TypeOK, CallInv, ReplyInv

LEMMA CallStepInv == ASSUME NEW c \in Clients PROVE ServiceInv /\ Call(c) => ServiceInv'
  <1> SUFFICES ASSUME ServiceInv, Call(c) PROVE ServiceInv'
    OBVIOUS
  <1> DEFINE cl == [client[c] EXCEPT !.pc = "connect", !.call = client[c].call + 1,
                                     !.tries = 0, !.connects = 0]
  <1>1. client[c] \in ClientStates /\ client[c].pc = "ready" /\ client[c].call < Len(Calls[c])
    BY ClientFacts DEF Call
  <1>2. /\ cl \in ClientStates
        /\ cl.pc = "connect" /\ cl.call = client[c].call + 1
        /\ cl.k = client[c].k /\ cl.result = client[c].result /\ cl.reply = client[c].reply
    <2>1. client[c].call + 1 \in Nat
      BY <1>1 DEF ClientStates
    <2>2. cl \in ClientStates
      BY <1>1, <2>1 DEF ClientStates
    <2>3. cl.pc = "connect" /\ cl.call = client[c].call + 1
      BY <1>1 DEF ClientStates
    <2>4. cl.k = client[c].k /\ cl.result = client[c].result /\ cl.reply = client[c].reply
      BY <1>1 DEF ClientStates
    <2> QED BY <2>2, <2>3, <2>4
  <1>3. client' = [client EXCEPT ![c] = cl]
    <2>1. client' = [client EXCEPT ![c].pc = "connect", ![c].call = @ + 1,
                                   ![c].tries = 0, ![c].connects = 0]
      BY DEF Call
    <2>2. client \in [Clients -> ClientStates]
      BY DEF ServiceInv, TypeOK
    <2> QED BY <2>1, <2>2 DEF ClientStates
  <1>4. Calls' = Calls /\ thread' = thread /\ queue' = queue /\ queue \in Seq(Jobs)
    BY DEF Call, ServiceInv, TypeOK
  <1> HIDE DEF cl
  <1>5. /\ Len(Calls[c]) \in Nat /\ client[c].k \in Nat /\ client[c].call \in Nat
        /\ client[c].result \in Seq(Replies)
    BY ClientFacts DEF ClientStates
  <1>6. /\ cl.call <= Len(Calls[c]) /\ cl.k <= cl.k /\ Len(cl.result) + 1 = cl.call
        /\ client[c].call <= cl.call
    BY <1>1, <1>2, <1>5, ClientFacts
  <1>7. \A i \in DOMAIN cl.result : Answers(cl.result[i], Calls[c][i])
    BY <1>2, ClientFacts
  <1>8. cl.reply.kind # "json"
    BY <1>1, <1>2, ClientFacts
  <1> QED BY <1>2, <1>3, <1>4, <1>6, <1>7, <1>8, ClientInv

(* A reply that is only set: the network's, or the dead server's.          *)
LEMMA ReplyInvStep ==
  ASSUME ServiceInv, NEW c \in Clients, client[c].pc = "wait",
         NEW kind \in {"reset", "eof", "partial"},
         client' = [client EXCEPT ![c].reply = Reply(kind, <<>>)],
         Calls' = Calls, thread' = thread, queue' = queue
  PROVE  ServiceInv'
  <1>1. PICK r \in Replies : r = Reply(kind, <<>>) /\ r.kind # "json"
    BY Failures
  <1>2. Answers(r, Calls[c][client[c].call])
    BY <1>1 DEF Answers, AnswersIn
  <1>3. client' = [client EXCEPT ![c].reply = r]
    BY <1>1
  <1>4. /\ client' \in [Clients -> ClientStates]
        /\ CallInv' /\ ReplyInv' /\ AnswersOwnText'
        /\ \A d \in Clients : /\ client[d].k <= client'[d].k
                              /\ client[d].call <= client'[d].call
                              /\ client'[d].pc = "wait" /\ client'[d].k = client[d].k
                                   => client[d].pc = "wait" /\ client'[d].call = client[d].call
    BY <1>2, <1>3, ReplyGiven
  <1>5. QueueInv' /\ ThreadInv'
    BY <1>4, JobsStay DEF ServiceInv
  <1> QED BY <1>4, <1>5 DEF ServiceInv, TypeOK

(* A call returns: with the answer of its own request, or a failure.       *)
LEMMA ReturnInv ==
  ASSUME ServiceInv, NEW c \in Clients, client[c].pc # "ready", NEW r \in Replies,
         Answers(r, Calls[c][client[c].call]), Return(c, r),
         Calls' = Calls, thread' = thread, queue' = queue
  PROVE  ServiceInv'
  <1>1. client[c] \in ClientStates /\ client \in [Clients -> ClientStates]
        /\ NoReply \in Replies /\ NoReply.kind # "json"
    BY ClientFacts, Failures DEF ServiceInv, TypeOK, NoReply, None
  <1>2. PICK done \in Seq(Replies) : done = Append(client[c].result, r)
    <2>1. client[c].result \in Seq(Replies)
      BY <1>1 DEF ClientStates
    <2>2. Append(client[c].result, r) \in Seq(Replies)
      BY <2>1
    <2> QED BY <2>2
  <1>3. PICK cl \in ClientStates : cl = [client[c] EXCEPT !.pc = "ready", !.reply = NoReply,
                                                          !.result = done]
    <2>1. [client[c] EXCEPT !.pc = "ready", !.reply = NoReply, !.result = done] \in ClientStates
      <3>1. client[c] \in ClientStates /\ NoReply \in Replies
        BY <1>1
      <3> QED BY <3>1 DEF ClientStates
    <2> QED BY <2>1
  <1>4. client' = [client EXCEPT ![c] = cl]
    <2>1. client' = [client EXCEPT ![c].pc = "ready", ![c].reply = NoReply,
                                   ![c].result = Append(@, r)]
      BY DEF Return
    <2> QED BY <1>1, <1>2, <1>3, <2>1 DEF ClientStates
  <1>5. /\ cl.pc = "ready" /\ cl.call = client[c].call /\ cl.k = client[c].k
        /\ cl.result = done /\ cl.reply = NoReply
    BY <1>1, <1>3 DEF ClientStates
  <1>6. /\ client[c].k \in Nat /\ client[c].call \in Nat /\ client[c].result \in Seq(Replies)
        /\ Len(client[c].result) + 1 = client[c].call /\ client[c].call <= Len(Calls[c])
    BY <1>1, ClientFacts DEF ClientStates
  <1>7. Len(done) = client[c].call
    BY <1>2, <1>6
  <1>8. \A i \in DOMAIN cl.result : Answers(cl.result[i], Calls[c][i])
    <2>1. ASSUME NEW i \in DOMAIN done, i # client[c].call
          PROVE  i \in DOMAIN client[c].result /\ done[i] = client[c].result[i]
      BY <1>2, <1>6, <2>1
    <2>2. done[client[c].call] = r
      BY <1>2, <1>6
    <2> QED BY <1>5, <2>1, <2>2, ClientFacts
  <1>9. queue' \in Seq(Jobs) /\ cl.call <= Len(Calls[c]) /\ client[c].k <= cl.k
        /\ Len(cl.result) = cl.call /\ client[c].call <= cl.call
    BY <1>5, <1>6, <1>7 DEF ServiceInv, TypeOK
  <1> QED BY <1>1, <1>4, <1>5, <1>8, <1>9, ClientInv

LEMMA ReceiveInv == ASSUME NEW c \in Clients PROVE ServiceInv /\ Receive(c) => ServiceInv'
  <1> SUFFICES ASSUME ServiceInv, Receive(c) PROVE ServiceInv'
    OBVIOUS
  <1>1. /\ client[c].pc = "wait" /\ Calls' = Calls /\ thread' = thread /\ queue' = queue
        /\ client \in [Clients -> ClientStates] /\ client[c] \in ClientStates
    BY ClientFacts DEF Receive, ServiceInv, TypeOK
  <1>2. ASSUME NEW kind \in {"unavailable", "null", "exception"}, Return(c, Reply(kind, <<>>))
        PROVE  ServiceInv'
    <2>1. PICK r \in Replies : r = Reply(kind, <<>>) /\ r.kind # "json"
      BY Failures
    <2> QED BY <1>1, <1>2, <2>1, ReturnInv DEF Answers, AnswersIn
  <1>3. CASE Return(c, client[c].reply)
    <2>1. PICK r \in Replies : r = client[c].reply
      BY <1>1 DEF ClientStates
    <2>2. Answers(r, Calls[c][client[c].call])
      BY <1>1, <2>1, ClientFacts
    <2> QED BY <1>1, <1>3, <2>1, <2>2, ReturnInv
  <1>4. CASE client' = [client EXCEPT ![c].pc = "connect", ![c].tries = @ + 1,
                                      ![c].connects = 0, ![c].reply = NoReply]
    <2>1. NoReply \in Replies /\ NoReply.kind # "json"
      BY Failures DEF NoReply, None
    <2>2. PICK cl \in ClientStates : cl = [client[c] EXCEPT !.pc = "connect",
            !.tries = client[c].tries + 1, !.connects = 0, !.reply = NoReply]
      <3>1. [client[c] EXCEPT !.pc = "connect", !.tries = client[c].tries + 1,
                              !.connects = 0, !.reply = NoReply] \in ClientStates
        <4>1. client[c] \in ClientStates /\ client[c].tries + 1 \in Nat
          BY <1>1 DEF ClientStates
        <4> QED BY <2>1, <4>1 DEF ClientStates
      <3> QED BY <3>1
    <2>3. client' = [client EXCEPT ![c] = cl]
      BY <1>1, <1>4, <2>2 DEF ClientStates
    <2>4. /\ cl.pc = "connect" /\ cl.call = client[c].call /\ cl.k = client[c].k
          /\ cl.result = client[c].result /\ cl.reply = NoReply /\ client[c].k \in Nat
      BY <1>1, <2>2 DEF ClientStates
    <2>5. /\ cl.call <= Len(Calls[c]) /\ cl.k <= cl.k /\ Len(cl.result) + 1 = cl.call
          /\ client[c].call <= cl.call
      BY <1>1, <2>4, ClientFacts DEF ClientStates
    <2>6. \A i \in DOMAIN cl.result : Answers(cl.result[i], Calls[c][i])
      BY <2>4, ClientFacts
    <2> QED BY <1>1, <2>1, <2>3, <2>4, <2>5, <2>6, ClientInv DEF ServiceInv, TypeOK
  <1> QED BY <1>2, <1>3, <1>4 DEF Receive

(* A new connection: its job is the only one with its number, and it holds *)
(* the request of the call.                                                *)
LEMMA ConnectInv == ASSUME NEW c \in Clients PROVE ServiceInv /\ Connect(c) => ServiceInv'
  <1> SUFFICES ASSUME ServiceInv, Connect(c) PROVE ServiceInv'
    OBVIOUS
  <1>1. /\ client[c].pc = "connect" /\ Calls' = Calls /\ thread' = thread
        /\ queue' = Append(queue, [c |-> c, k |-> client[c].k + 1,
                                   req |-> Calls[c][client[c].call]])
        /\ client' = [client EXCEPT ![c].pc = "wait", ![c].k = @ + 1]
        /\ client \in [Clients -> ClientStates] /\ client[c] \in ClientStates
        /\ queue \in Seq(Jobs)
    BY ClientFacts DEF Connect, ServiceInv, TypeOK
  <1>2. /\ client[c].k \in Nat /\ client[c].k + 1 \in Nat /\ client[c].call \in Nat
        /\ client[c].result \in Seq(Replies)
    BY <1>1 DEF ClientStates
  <1>3. /\ Len(client[c].result) + 1 = client[c].call /\ client[c].call <= Len(Calls[c])
        /\ Calls[c] \in Seq(Requests)
    BY <1>1, ClientFacts
  <1>4. client[c].call \in DOMAIN Calls[c] /\ Calls[c][client[c].call] \in Requests
    BY <1>2, <1>3
  <1>5. PICK j \in Jobs : /\ j = [c |-> c, k |-> client[c].k + 1,
                                  req |-> Calls[c][client[c].call]]
                          /\ j.c = c /\ j.k = client[c].k + 1
                          /\ j.req = Calls[c][client[c].call]
    <2>1. [c |-> c, k |-> client[c].k + 1, req |-> Calls[c][client[c].call]] \in Jobs
      BY <1>2, <1>4 DEF Jobs
    <2> QED BY <2>1
  <1>6. PICK cl \in ClientStates : cl = [client[c] EXCEPT !.pc = "wait", !.k = client[c].k + 1]
    <2>1. [client[c] EXCEPT !.pc = "wait", !.k = client[c].k + 1] \in ClientStates
      BY <1>1, <1>2 DEF ClientStates
    <2> QED BY <2>1
  <1>7. client' = [client EXCEPT ![c] = cl]
    BY <1>1, <1>6 DEF ClientStates
  <1>8. /\ cl.pc = "wait" /\ cl.call = client[c].call /\ cl.k = client[c].k + 1
        /\ cl.result = client[c].result /\ cl.reply = client[c].reply
    BY <1>1, <1>6 DEF ClientStates
  <1>9. queue' \in Seq(Jobs) /\ queue' = Append(queue, j)
    BY <1>1, <1>5
  <1>10. client' \in [Clients -> ClientStates] /\ client'[c] = cl
         /\ \A d \in Clients \ {c} : client'[d] = client[d]
    BY <1>1, <1>7
  <1>11. \A d \in Clients : /\ client[d].k <= client'[d].k
                            /\ client[d].call <= client'[d].call
                            /\ client'[d].pc = "wait" /\ client'[d].k = client[d].k
                                 => client[d].pc = "wait" /\ client'[d].call = client[d].call
    <2>1. \A d \in Clients : client[d].k \in Nat /\ client[d].call \in Nat
      BY <1>1 DEF ClientStates
    <2> QED BY <1>8, <1>10, <2>1
  <1>12. QueueInv'
    <2>1. JobOf(j, client)'
      <3>1. client[c].call \in 1..client'[c].call
        BY <1>2, <1>3, <1>8, <1>10
      <3> QED BY <1>1, <1>4, <1>5, <1>8, <1>10, <1>2, <3>1 DEF JobOf
    <2>2. ASSUME NEW i \in DOMAIN queue PROVE JobOf(queue'[i], client')
      <3>1. queue'[i] = queue[i]
        BY <1>1, <1>9
      <3>2. PICK q \in Jobs : q = queue[i] /\ JobOf(q, client)
        BY <1>1 DEF ServiceInv, QueueInv
      <3>3. JobOf(q, client)'
        BY <1>1, <1>10, <1>11, <3>2, JobStays DEF ServiceInv
      <3> QED BY <1>1, <3>1, <3>2, <3>3 DEF JobOf
    <2>3. ASSUME NEW i \in DOMAIN queue' PROVE JobOf(queue[i], client)'
      <3>1. i \in DOMAIN queue \/ queue'[i] = j
        BY <1>1, <1>9
      <3>2. CASE i \in DOMAIN queue
        BY <1>1, <2>2, <3>2 DEF JobOf
      <3>3. CASE queue'[i] = j
        BY <1>1, <2>1, <3>3 DEF JobOf
      <3> QED BY <3>1, <3>2, <3>3
    <2> QED BY <2>3 DEF QueueInv
  <1>13. Answers(cl.reply, Calls[c][cl.call])
    BY <1>1, <1>8, ClientFacts DEF Answers, AnswersIn
  <1>14. client[c].k <= cl.k /\ cl.k # client[c].k /\ cl.call <= Len(Calls[c])
         /\ Len(cl.result) + 1 = cl.call /\ client[c].call <= cl.call
    BY <1>2, <1>3, <1>8
  <1>15. \A i \in DOMAIN cl.result : Answers(cl.result[i], Calls[c][i])
    BY <1>8, ClientFacts
  <1> QED BY <1>1, <1>7, <1>8, <1>9, <1>12, <1>13, <1>14, <1>15, ClientInv

LEMMA ConnectFailsInv == ASSUME NEW c \in Clients PROVE ServiceInv /\ ConnectFails(c) => ServiceInv'
  <1> SUFFICES ASSUME ServiceInv, ConnectFails(c) PROVE ServiceInv'
    OBVIOUS
  <1>1. /\ client[c].pc = "connect" /\ Calls' = Calls /\ thread' = thread /\ queue' = queue
        /\ client \in [Clients -> ClientStates] /\ client[c] \in ClientStates
    BY ClientFacts DEF ConnectFails, ServiceInv, TypeOK
  <1>2. CASE Return(c, Reply("exception", <<>>))
    <2>1. PICK r \in Replies : r = Reply("exception", <<>>) /\ r.kind # "json"
      BY Failures
    <2> QED BY <1>1, <1>2, <2>1, ReturnInv DEF Answers, AnswersIn
  <1>3. CASE client' = [client EXCEPT ![c].connects = @ + 1]
    <2>1. PICK cl \in ClientStates : cl = [client[c] EXCEPT !.connects = client[c].connects + 1]
      <3>1. [client[c] EXCEPT !.connects = client[c].connects + 1] \in ClientStates
        <4>1. client[c] \in ClientStates /\ client[c].connects + 1 \in Nat
          BY <1>1 DEF ClientStates
        <4> QED BY <4>1 DEF ClientStates
      <3> QED BY <3>1
    <2>2. client' = [client EXCEPT ![c] = cl]
      BY <1>1, <1>3, <2>1 DEF ClientStates
    <2>3. /\ cl.pc = "connect" /\ cl.call = client[c].call /\ cl.k = client[c].k
          /\ cl.result = client[c].result /\ cl.reply = client[c].reply /\ client[c].k \in Nat
      BY <1>1, <2>1 DEF ClientStates
    <2>4. /\ cl.call <= Len(Calls[c]) /\ cl.k <= cl.k /\ Len(cl.result) + 1 = cl.call
          /\ cl.reply.kind # "json" /\ client[c].call <= cl.call
      BY <1>1, <2>3, ClientFacts
    <2>5. \A i \in DOMAIN cl.result : Answers(cl.result[i], Calls[c][i])
      BY <2>3, ClientFacts
    <2> QED BY <1>1, <2>2, <2>3, <2>4, <2>5, ClientInv DEF ServiceInv, TypeOK
  <1> QED BY <1>2, <1>3 DEF ConnectFails

-----------------------------------------------------------------------------
(* Every step of the server, of a client and of the network keeps the      *)
(* invariant.                                                              *)
LEMMA NextInv == ServiceInv /\ [Next]_vars => ServiceInv'
  <1> SUFFICES ASSUME ServiceInv, [Next]_vars PROVE ServiceInv'
    OBVIOUS
  <1>1. CASE ServerStart
    BY <1>1, ServerStartInv
  <1>2. ASSUME NEW t \in Threads, ThreadStep(t) PROVE ServiceInv'
    BY <1>2, TakeInv, InitializeInv, OpenDictionaryInv, ReadRequestInv, HandleTextInv,
       NoDictionaryInv DEF ThreadStep
  <1>3. ASSUME NEW c \in Clients, Call(c) PROVE ServiceInv'
    BY <1>3, CallStepInv
  <1>4. ASSUME NEW c \in Clients, Lose(c) PROVE ServiceInv'
    <2>1. client[c].pc = "wait" /\ Calls' = Calls /\ thread' = thread /\ queue' = queue
      BY <1>4 DEF Lose
    <2>2. PICK kind \in {"reset", "eof", "partial"} :
            client' = [client EXCEPT ![c].reply = Reply(kind, <<>>)]
      BY <1>4 DEF Lose
    <2> QED BY <2>1, <2>2, ReplyInvStep
  <1>5. ASSUME NEW c \in Clients, ClientStep(c) PROVE ServiceInv'
    <2>1. ASSUME ServerGone(c) PROVE ServiceInv'
      <3>1. client[c].pc = "wait" /\ Calls' = Calls /\ thread' = thread /\ queue' = queue
        BY <2>1 DEF ServerGone
      <3>2. PICK kind \in {"reset", "eof", "partial"} :
              client' = [client EXCEPT ![c].reply = Reply(kind, <<>>)]
        BY <2>1 DEF ServerGone
      <3> QED BY <3>1, <3>2, ReplyInvStep
    <2> QED BY <1>5, <2>1, ConnectInv, ConnectFailsInv, ReceiveInv DEF ClientStep
  <1>6. CASE UNCHANGED vars
    <2>1. client' = client /\ Calls' = Calls /\ thread' = thread /\ queue' = queue
      BY <1>6 DEF vars, shared
    <2>2. QueueInv' /\ ThreadInv'
      BY <2>1, ClientsRest DEF ServiceInv
    <2> QED BY <2>1, <2>2, ServerInv DEF ServiceInv, TypeOK
  <1> QED BY <1>1, <1>2, <1>3, <1>4, <1>5, <1>6 DEF Next

(* The inductive invariant: jobs belong to the call that made their        *)
(* connection, threads to their job, and replies to the call that waits.   *)
THEOREM ServiceCorrect == Spec => []ServiceInv
  BY InitInv, NextInv, PTL DEF Spec

(* Whoever a pool thread served before, and however often calls were       *)
(* repeated, LGRemoteClient.parse() returns the linkages of its own text,  *)
(* parsed under its own limits; only a request that sets no time limit is  *)
(* parsed under the one that an earlier request has left in the thread.    *)
THEOREM AnswersOwn == Spec => []AnswersOwnText
  <1>1. ServiceInv => AnswersOwnText
    BY DEF ServiceInv
  <1> QED BY <1>1, ServiceCorrect, PTL

(* Every result of a client answers one of its calls, in the order of the  *)
(* calls: none is lost and none is given twice, whatever was retried.      *)
THEOREM OneResultPerCall ==
  Spec => []\A c \in Clients :
    Len(client[c].result) = IF client[c].pc = "ready" THEN client[c].call ELSE client[c].call - 1
  <1>1. ServiceInv => \A c \in Clients :
          Len(client[c].result) = IF client[c].pc = "ready" THEN client[c].call ELSE client[c].call - 1
    <2>1. ASSUME ServiceInv, NEW c \in Clients
          PROVE  client[c].call \in Nat /\ client[c].result \in Seq(Replies)
      BY <2>1 DEF ServiceInv, TypeOK, ClientStates
    <2> QED BY <2>1 DEF ServiceInv, CallInv
  <1> QED BY <1>1, ServiceCorrect, PTL

-----------------------------------------------------------------------------
(* LinkParser.                                                             *)

(* The variables are the user's at every step, not only when a line is     *)
(* read; the parse options have the fields that panic mode puts back.      *)
Vars == {"timeout", "short", "cost"}

OptionsInv ==
  /\ local = user /\ local = [f \in DOMAIN local |-> local[f]] /\ Vars \subseteq DOMAIN local
  /\ Vars \subseteq DOMAIN opts /\ \A v \in Vars : opts[v] = local[v]
  /\ "all_short" \in DOMAIN opts /\ batch_errors \in Nat
  /\ opts.all_short => batch_errors > 0

(* A special command puts back what it has fetched, with one change.       *)
LEMMA CommandKeeps ==
  ASSUME OptionsInv, NEW var, NEW val, issue_special_command(var, val), batch_errors' = batch_errors
  PROVE  OptionsInv'
  <1>1. put_opts_in_local_vars(opts) = local
    BY DEF OptionsInv, put_opts_in_local_vars, Vars
  <1>2. /\ local' = [local EXCEPT ![var] = val] /\ user' = [user EXCEPT ![var] = val]
        /\ opts' = put_local_vars_in_opts(local', opts)
    BY <1>1 DEF issue_special_command
  <1>3. /\ DOMAIN opts' = DOMAIN opts /\ \A v \in Vars : opts'[v] = local'[v]
        /\ opts'.all_short = opts.all_short
    BY <1>2 DEF OptionsInv, put_local_vars_in_opts, Vars
  <1> QED BY <1>2, <1>3 DEF OptionsInv

(* However a sentence is parsed, the limits are put back; all_short is set *)
(* by panic mode only.                                                     *)
LEMMA ParsesKeep ==
  ASSUME OptionsInv, NEW s
  PROVE  LET p == Parses(s)
         IN  /\ Vars \subseteq DOMAIN p.opts /\ \A v \in Vars : p.opts[v] = local[v]
             /\ "all_short" \in DOMAIN p.opts /\ p.panicked \in {0, 1}
             /\ p.opts.all_short => opts.all_short \/ p.panicked = 1
  <1> DEFINE kept(o) == /\ Vars \subseteq DOMAIN o /\ \A v \in Vars : o[v] = local[v]
                        /\ "all_short" \in DOMAIN o
             panic(o) == put_local_vars_in_opts(local, setup_panic_parse_options(o, s))
  <1>1. kept(FirstOpts(opts)) /\ FirstOpts(opts).all_short = opts.all_short
    BY DEF OptionsInv, FirstOpts, Vars
  <1>2. kept(NullOpts(opts, s)) /\ NullOpts(opts, s).all_short = opts.all_short
    BY DEF OptionsInv, FirstOpts, NullOpts, Vars
  <1>3. ASSUME NEW o, kept(o) PROVE kept(panic(o))
    BY <1>3 DEF put_local_vars_in_opts, setup_panic_parse_options, Vars
  <1> HIDE DEF kept, panic
  <1>4. \/ \E o \in {FirstOpts(opts), NullOpts(opts, s)} :
             Parses(s).opts = panic(o) /\ Parses(s).panicked = 1
        \/ Parses(s).opts \in {FirstOpts(opts), NullOpts(opts, s)} /\ Parses(s).panicked = 0
    BY DEF Parses, panic
  <1>5. kept(Parses(s).opts) /\ Parses(s).panicked \in {0, 1}
        /\ (Parses(s).opts.all_short => opts.all_short \/ Parses(s).panicked = 1)
    BY <1>1, <1>2, <1>3, <1>4
  <1> QED BY <1>5 DEF kept

LEMMA OptionsStep == OptionsInv /\ [SessionNext]_sessionVars => OptionsInv'
  <1> SUFFICES ASSUME OptionsInv, [SessionNext]_sessionVars PROVE OptionsInv'
    OBVIOUS
  <1>1. CASE UNCHANGED <<opts, local, user, batch_errors>>
    BY <1>1 DEF OptionsInv
  <1>2. CASE SetVariable \/ FlipVariable
    BY <1>2, CommandKeeps DEF SetVariable, FlipVariable
  <1>3. CASE ParseSentence
    <2>1. local' = local /\ user' = user
      BY <1>3 DEF ParseSentence
    <2>2. /\ Vars \subseteq DOMAIN opts' /\ \A v \in Vars : opts'[v] = local[v]
          /\ "all_short" \in DOMAIN opts' /\ batch_errors' \in Nat
          /\ opts'.all_short => batch_errors' > 0
      <3> DEFINE s == Outcomes[NextLine.name]
      <3>1. CASE s.refused
        BY <1>3, <3>1 DEF ParseSentence, OptionsInv, Vars
      <3>2. CASE ~s.refused
        <4>1. PICK e \in {0, 1} : /\ opts' = Parses(s).opts
                                  /\ batch_errors' = batch_errors + Parses(s).panicked + e
          BY <1>3, <3>2, ParsesKeep DEF ParseSentence, there_was_an_error, OptionsInv
        <4> HIDE DEF s
        <4> QED BY <4>1, ParsesKeep DEF OptionsInv
      <3> QED BY <3>1, <3>2
    <2> QED BY <2>1, <2>2 DEF OptionsInv
  <1> QED
    BY <1>1, <1>2, <1>3 DEF SessionNext, EndOfInput, NoCommand, Exit, OpenFile, OpenNothing, ShowNext, ShowAtEnd, sessionVars

(* The lines that were read are known, and the pending one is the last     *)
(* line of the terminal; no line is pending while linkages are shown.      *)
InputInv ==
  /\ pos \in [Streams -> Nat] /\ handled \in [Streams -> Seq(Nat)]
  /\ input_fh \in Streams
  /\ pending \in {0, pos["stdin"]} /\ (mode = "show" => pending = 0)
  /\ EachLineOnce

(* A line that was read and not handled is added to those of its stream.   *)
LEMMA HandleLine ==
  ASSUME NEW s \in Seq(Nat), NEW n \in Nat, \A m \in DOMAIN s : s[m] < n,
         \A l, m \in DOMAIN s : l < m => s[l] < s[m]
  PROVE  /\ Append(s, n) \in Seq(Nat)
         /\ \A l, m \in DOMAIN Append(s, n) : l < m => Append(s, n)[l] < Append(s, n)[m]
         /\ {Append(s, n)[m] : m \in DOMAIN Append(s, n)} = {s[m] : m \in DOMAIN s} \cup {n}
  <1> DEFINE t == Append(s, n)
  <1>1. /\ t \in Seq(Nat) /\ DOMAIN t = 1..(Len(s) + 1) /\ DOMAIN s = 1..Len(s) /\ Len(s) \in Nat
        /\ \A m \in 1..Len(s) : t[m] = s[m]
        /\ t[Len(s) + 1] = n
    OBVIOUS
  <1> HIDE DEF t
  <1>2. ASSUME NEW l \in DOMAIN t, NEW m \in DOMAIN t, l < m PROVE t[l] < t[m]
    <2>1. CASE m = Len(s) + 1
      BY <1>1, <1>2, <2>1
    <2>2. CASE m # Len(s) + 1
      <3>1. l \in 1..Len(s) /\ m \in 1..Len(s)
        BY ONLY <1>1, <1>2, <2>2
      <3> QED BY <1>1, <1>2, <3>1
    <2> QED BY <2>1, <2>2
  <1>3. DOMAIN t = DOMAIN s \cup {Len(s) + 1}
    BY <1>1
  <1>4. {t[m] : m \in DOMAIN t} = {s[m] : m \in DOMAIN s} \cup {n}
    BY <1>1, <1>3
  <1> QED BY <1>1, <1>2, <1>4 DEF t

(* The main loop gets the pending line, or the next one.                   *)
LEMMA TakenInv ==
  ASSUME InputInv, Available
  PROVE  /\ Taken.pos \in [Streams -> Nat] /\ Taken.handled \in [Streams -> Seq(Nat)]
         /\ \A f \in Streams :
              LET h == Taken.handled[f]
                  done == {h[m] : m \in DOMAIN h}
              IN  /\ \A m, n \in DOMAIN h : m < n => h[m] < h[n]
                  /\ done \subseteq 1..Taken.pos[f]
                  /\ \A n \in 1..Taken.pos[f] : n \in done \/ Lines(f)[n].k = "blank"
  <1> DEFINE g == IF FromPending THEN "stdin" ELSE input_fh
             line == IF FromPending THEN pending ELSE pos[input_fh] + 1
             h == handled[g]
  <1>1. /\ pos \in [Streams -> Nat] /\ handled \in [Streams -> Seq(Nat)] /\ input_fh \in Streams
        /\ pending \in {0, pos["stdin"]} /\ "stdin" \in Streams
    BY DEF InputInv, Streams
  <1>2. /\ g \in Streams /\ h \in Seq(Nat) /\ line \in Nat
    BY <1>1
  <1>3. Taken.handled = [handled EXCEPT ![g] = Append(h, line)]
    BY DEF Taken
  <1>4. \A f \in Streams :
          /\ \A m, n \in DOMAIN handled[f] : m < n => handled[f][m] < handled[f][n]
          /\ Obeyed(f) \subseteq 1..pos[f]
          /\ \A n \in 1..pos[f] : n \in Obeyed(f) \/ Lines(f)[n].k = "blank" \/ (f = "stdin" /\ n = pending)
    BY DEF InputInv, EachLineOnce
  <1>5. pending \notin Obeyed("stdin")
    BY DEF InputInv, EachLineOnce
  (* The line is the last one of its stream that was read. *)
  <1>6. /\ Taken.pos \in [Streams -> Nat] /\ Taken.pos[g] = line
        /\ \A f \in Streams \ {g} : Taken.pos[f] = pos[f]
        /\ line \in 1..line
    <2>1. CASE FromPending
      BY <1>1, <2>1 DEF Taken, FromPending
    <2>2. CASE ~FromPending
      BY <1>1, <2>2 DEF Taken
    <2> QED BY <2>1, <2>2
  <1>7. \A m \in Obeyed(g) : m \in Nat /\ m < line
    <2>1. CASE FromPending
      BY <1>1, <1>4, <1>5, <2>1 DEF FromPending
    <2>2. CASE ~FromPending
      BY <1>1, <1>4, <2>2
    <2> QED BY <2>1, <2>2
  <1>8. \A n \in 1..line : n = line \/ n \in Obeyed(g) \/ Lines(g)[n].k = "blank"
    <2> TAKE n \in 1..line
    <2>1. CASE FromPending
      BY <1>1, <1>4, <2>1 DEF FromPending
    <2>2. CASE ~FromPending
      <3>1. n = line \/ n \in 1..pos[g]
        BY <1>1, <2>2
      <3>2. pending = 0
        BY <2>2 DEF FromPending
      <3> QED BY <1>1, <1>4, <1>2, <3>1, <3>2
    <2> QED BY <2>1, <2>2
  <1>9. \A f \in Streams \ {g} : \A n \in 1..pos[f] : n \in Obeyed(f) \/ Lines(f)[n].k = "blank"
    <2> TAKE f \in Streams \ {g}
    <2> TAKE n \in 1..pos[f]
    <2>1. f = "stdin" => pending = 0
      BY <1>1 DEF FromPending
    <2> QED BY <1>1, <1>4, <2>1
  <1> HIDE DEF g, line
  <1>10. ASSUME NEW f \in Streams
         PROVE  LET k == Taken.handled[f]
                    done == {k[m] : m \in DOMAIN k}
                IN  /\ \A m, n \in DOMAIN k : m < n => k[m] < k[n]
                    /\ done \subseteq 1..Taken.pos[f]
                    /\ \A n \in 1..Taken.pos[f] : n \in done \/ Lines(f)[n].k = "blank"
    <2>1. CASE f = g
      <3> DEFINE k == Append(h, line)
      <3>1. Taken.handled[g] = k
        BY <1>1, <1>2, <1>3
      <3>2. \A m \in DOMAIN h : h[m] < line
        BY <1>7 DEF Obeyed
      <3>3. \A l, m \in DOMAIN h : l < m => h[l] < h[m]
        BY <1>2, <1>4
      <3>4. /\ \A l, m \in DOMAIN k : l < m => k[l] < k[m]
            /\ {k[m] : m \in DOMAIN k} = Obeyed(g) \cup {line}
        BY ONLY <1>2, <3>2, <3>3, HandleLine DEF Obeyed
      <3> HIDE DEF k
      <3>5. Obeyed(g) \cup {line} \subseteq 1..Taken.pos[g]
        <4>1. \A m \in Obeyed(g) : m >= 1
          BY <1>1, <1>2, <1>4
        <4> QED BY <1>2, <1>6, <1>7, <4>1
      <3>6. \A n \in 1..Taken.pos[g] : n \in Obeyed(g) \cup {line} \/ Lines(g)[n].k = "blank"
        BY <1>6, <1>8
      <3> QED BY ONLY <2>1, <3>1, <3>4, <3>5, <3>6
    <2>2. CASE f # g
      <3>1. Taken.handled[f] = handled[f] /\ Taken.pos[f] = pos[f]
        BY <1>1, <1>3, <1>6, <2>2
      <3> QED BY <1>4, <1>9, <2>2, <3>1 DEF Obeyed
    <2> QED BY <2>1, <2>2
  <1>11. Taken.handled \in [Streams -> Seq(Nat)]
    BY <1>1, <1>2, <1>3, AppendProperties
  <1> QED BY <1>6, <1>10, <1>11

(* Every step keeps account of the lines.                                  *)
LEMMA InputStep == InputInv /\ [SessionNext]_sessionVars => InputInv'
  <1> SUFFICES ASSUME InputInv, [SessionNext]_sessionVars PROVE InputInv'
    OBVIOUS
  <1>0. session' = session /\ Streams' = Streams /\ \A f : Lines(f)' = Lines(f)
    <2>1. session' = session
      BY DEF SessionNext, sessionVars, EndOfInput, NoCommand, SetVariable, FlipVariable, Exit, OpenFile,
             OpenNothing, ParseSentence, ShowNext, ShowAtEnd
    <2> QED BY <2>1 DEF Streams, Lines
  <1>1. /\ pos \in [Streams -> Nat] /\ handled \in [Streams -> Seq(Nat)] /\ input_fh \in Streams
        /\ pending \in {0, pos["stdin"]} /\ "stdin" \in Streams /\ (mode = "show" => pending = 0)
    BY DEF InputInv, Streams
  (* No line is read. *)
  <1>2. CASE EndOfInput \/ ShowAtEnd \/ UNCHANGED sessionVars
    <2>1. UNCHANGED <<pos, handled, pending>> /\ input_fh' \in Streams /\ (mode' = "show" => pending' = 0)
      BY <1>1, <1>2 DEF EndOfInput, ShowAtEnd, sessionVars
    <2>2. EachLineOnce'
      BY <1>0, <2>1 DEF InputInv, EachLineOnce, Obeyed
    <2> QED BY <1>0, <1>1, <2>1, <2>2 DEF InputInv
  (* The main loop reads a line. *)
  <1>3. CASE NoCommand \/ SetVariable \/ FlipVariable \/ Exit \/ OpenNothing \/ ParseSentence
    <2>1. Available /\ pos' = Taken.pos /\ handled' = Taken.handled /\ pending' = 0 /\ input_fh' \in Streams
      BY <1>1, <1>3 DEF NoCommand, SetVariable, FlipVariable, Exit, OpenNothing, ParseSentence, Reads, GetsLine,
                        TakeLine
    <2>2. pos' \in [Streams -> Nat] /\ handled' \in [Streams -> Seq(Nat)]
      BY <2>1, TakenInv
    <2>3. \A f \in Streams :
            /\ \A m, n \in DOMAIN handled'[f] : m < n => handled'[f][m] < handled'[f][n]
            /\ Obeyed(f)' \subseteq 1..pos'[f]
            /\ \A n \in 1..pos'[f] : n \in Obeyed(f)' \/ Lines(f)[n].k = "blank"
      BY <2>1, TakenInv DEF Obeyed
    <2>4. EachLineOnce'
      <3>1. 0 \notin Obeyed("stdin")'
        BY <1>1, <2>3
      <3> QED BY <1>0, <2>1, <2>3, <3>1 DEF EachLineOnce
    <2> QED BY <1>0, <2>1, <2>2, <2>4 DEF InputInv
  (* The line opens a file, none of whose lines was read. *)
  <1>4. CASE OpenFile
    <2> DEFINE new == NextLine.name
    <2>1. /\ Available /\ pending' = 0 /\ input_fh' = new /\ new \in Streams
          /\ pos' = [Taken.pos EXCEPT ![new] = 0]
          /\ handled' = [Taken.handled EXCEPT ![new] = <<>>]
      BY <1>4 DEF OpenFile, GetsLine, Streams
    <2> HIDE DEF new
    <2>2. pos' \in [Streams -> Nat] /\ handled' \in [Streams -> Seq(Nat)]
      BY <2>1, TakenInv
    <2>3. ASSUME NEW f \in Streams
          PROVE  /\ \A m, n \in DOMAIN handled'[f] : m < n => handled'[f][m] < handled'[f][n]
                 /\ Obeyed(f)' \subseteq 1..pos'[f]
                 /\ \A n \in 1..pos'[f] : n \in Obeyed(f)' \/ Lines(f)[n].k = "blank"
      <3>1. CASE f = new
        <4>1. handled'[f] = <<>> /\ pos'[f] = 0
          BY <2>1, <3>1, TakenInv
        <4> QED BY <4>1 DEF Obeyed
      <3>2. CASE f # new
        <4>1. handled'[f] = Taken.handled[f] /\ pos'[f] = Taken.pos[f]
          BY <2>1, <3>2, TakenInv
        <4> QED BY <2>1, <4>1, TakenInv DEF Obeyed
      <3> QED BY <3>1, <3>2
    <2>4. EachLineOnce'
      <3>1. 0 \notin Obeyed("stdin")'
        BY <1>1, <2>3
      <3> QED BY <1>0, <2>1, <2>3, <3>1 DEF EachLineOnce
    <2> QED BY <1>0, <2>1, <2>2, <2>4 DEF InputInv
  (* A display reads a line of the terminal and skips it or keeps it. *)
  <1>5. CASE ShowNext
    <2> DEFINE line == pos["stdin"] + 1
    <2>1. /\ pos' = [pos EXCEPT !["stdin"] = line] /\ handled' = handled /\ input_fh' = input_fh /\ pending = 0
          /\ \/ Lines("stdin")[line].k = "blank" /\ pending' = 0
             \/ pending' = line /\ mode' = "read"
      BY <1>1, <1>5 DEF ShowNext
    <2>2. line \in Nat /\ line # 0 /\ pos'["stdin"] = line /\ \A f \in Streams \ {"stdin"} : pos'[f] = pos[f]
      BY <1>1, <2>1
    <2> HIDE DEF line
    <2>3. pos' \in [Streams -> Nat]
      BY <1>1, <2>1, <2>2
    <2>4. \A f \in Streams :
            /\ \A m, n \in DOMAIN handled[f] : m < n => handled[f][m] < handled[f][n]
            /\ Obeyed(f) \subseteq 1..pos[f]
            /\ \A n \in 1..pos[f] : n \in Obeyed(f) \/ Lines(f)[n].k = "blank" \/ (f = "stdin" /\ n = pending)
      BY DEF InputInv, EachLineOnce
    <2>5. \A f \in Streams : Obeyed(f)' = Obeyed(f)
      BY <2>1 DEF Obeyed
    <2>6. \A f \in Streams : 1..pos[f] \subseteq 1..pos'[f]
      <3> TAKE f \in Streams
      <3>1. pos[f] \in Nat /\ pos'[f] \in Nat
        BY <1>1, <2>3
      <3>2. pos[f] <= pos'[f]
        <4>1. CASE f = "stdin"
          <5>1. pos'[f] = pos[f] + 1
            BY <2>2, <4>1 DEF line
          <5> QED BY ONLY <3>1, <5>1
        <4>2. CASE f # "stdin"
          BY <2>2, <3>1, <4>2
        <4> QED BY <4>1, <4>2
      <3> QED BY ONLY <3>1, <3>2
    <2>7. \A n \in 1..line : n = line \/ n \in 1..pos["stdin"]
      BY <1>1 DEF line
    <2>8. ASSUME NEW f \in Streams, NEW n \in 1..pos'[f]
          PROVE  n \in Obeyed(f) \/ Lines(f)[n].k = "blank" \/ (f = "stdin" /\ n = pending')
      <3>1. pos[f] \in Nat /\ \A m \in 1..pos[f] : m # 0
        BY <1>1
      <3>2. CASE f = "stdin"
        BY <1>1, <2>1, <2>2, <2>4, <2>7, <3>1, <3>2
      <3>3. CASE f # "stdin"
        BY <2>2, <2>4, <3>3
      <3> QED BY <3>2, <3>3
    <2>9. pending' \notin Obeyed("stdin")
      <3>1. \A m \in 1..pos["stdin"] : m # 0 /\ m # line
        BY <1>1 DEF line
      <3> QED BY <1>1, <2>1, <2>4, <3>1
    <2>10. EachLineOnce'
      <3>1. \A f \in Streams : Obeyed(f)' \subseteq 1..pos'[f]
        BY <2>4, <2>5, <2>6
      <3>2. \A f \in Streams : \A n \in 1..pos'[f] :
              n \in Obeyed(f)' \/ Lines(f)'[n].k = "blank" \/ (f = "stdin" /\ n = pending')
        BY <1>0, <2>5, <2>8
      <3>3. \A f \in Streams : \A m, n \in DOMAIN handled'[f] : m < n => handled'[f][m] < handled'[f][n]
        BY <2>1, <2>4
      <3> QED BY <1>0, <1>1, <2>5, <2>9, <3>1, <3>2, <3>3 DEF EachLineOnce
    <2>11. pending' \in {0, pos'["stdin"]} /\ (mode' = "show" => pending' = 0)
      BY <2>1, <2>2
    <2> QED BY <1>0, <1>1, <2>1, <2>3, <2>10, <2>11 DEF InputInv
  <1> QED BY <1>2, <1>3, <1>4, <1>5 DEF SessionNext

(* Whatever the terminal and the files contain, link-parser obeys every    *)
(* line once, in order, and gives every sentence the user's own limits:    *)
(* panic mode leaves nothing of its own in them, and a display loses no    *)
(* line it read.                                                           *)
THEOREM SessionCorrect == SessionSpec => []SessionObeyed
  <1>1. SessionInit => OptionsInv
    BY DEF SessionInit, OptionsInv, DefaultLocal, DefaultOpts, Vars
  <1>2. OptionsInv => UserOptionsKept
    BY DEF OptionsInv, UserOptionsKept, Vars
  <1>3. SessionInit => InputInv
    BY DEF SessionInit, InputInv, EachLineOnce, Obeyed, Streams
  <1>4. InputInv => EachLineOnce
    BY DEF InputInv
  <1>5. EachLineOnce /\ UserOptionsKept => SessionObeyed
    BY DEF SessionObeyed
  <1> QED BY <1>1, <1>2, <1>3, <1>4, <1>5, OptionsStep, InputStep, PTL DEF SessionSpec

-----------------------------------------------------------------------------
(* The generator, for any dictionary and any linkages.  The odometer comes *)
(* to the choices of a linkage in lexicographical order; Passed is what is *)
(* before its position.                                                    *)

(* A set of natural numbers has a least element: the intervals 0..n are    *)
(* finite sets, which strict inclusion orders well.                        *)
LEMMA LeastNumber ==
  ASSUME NEW T \in SUBSET Nat, T # {}
  PROVE  \E n \in T : \A m \in T : n <= m
  <1> DEFINE R == StrictSubsetOrdering(Nat)
             S == FiniteSubsetsOf(Nat)
             I == {0..n : n \in T}
  <1>1. IsWellFoundedOn(R, S)
    BY FS_StrictSubsetOrderingWellFounded
  <1>2. I \subseteq S
    <2>1. ASSUME NEW n \in T PROVE IsFiniteSet(0..n) /\ 0..n \in SUBSET Nat
      BY FS_Interval
    <2> QED BY <2>1 DEF FiniteSubsetsOf
  <1>3. I # {}
    OBVIOUS
  <1>4. PICK x \in I : \A y \in I : ~(<<y, x>> \in R)
    <2> HIDE DEF R, S, I
    <2> QED BY <1>1, <1>2, <1>3, WFMin
  <1>5. PICK n \in T : x = 0..n
    OBVIOUS
  <1>6. ASSUME NEW m \in T, m < n PROVE FALSE
    <2>1. 0..m \subseteq 0..n /\ 0..m # 0..n /\ 0..m \in SUBSET Nat /\ 0..n \in SUBSET Nat
      <3>1. n \in 0..n /\ n \notin 0..m
        BY <1>6
      <3> QED BY <1>6, <3>1
    <2>2. <<0..m, 0..n>> \in R
      BY <2>1 DEF StrictSubsetOrdering
    <2> QED BY <1>4, <1>5, <2>2
  <1> QED BY <1>6

(* Numbers up to n have a greatest one, the one that is nearest to n.      *)
LEMMA GreatestNumber ==
  ASSUME NEW n \in Nat, NEW T \in SUBSET (1..n), T # {}
  PROVE  Max(T) \in T /\ \A m \in T : m <= Max(T)
  <1> DEFINE U == {n - m : m \in T}
  <1>1. U \in SUBSET Nat /\ U # {}
    <2>1. \A m \in T : m \in Int /\ 1 <= m /\ m <= n
      OBVIOUS
    <2>2. \A m \in T : n - m \in Nat
      BY <2>1
    <2> QED BY <2>2
  <1>2. PICK u \in U : \A v \in U : u <= v
    <2> HIDE DEF U
    <2> QED BY <1>1, LeastNumber
  <1>3. PICK m \in T : u = n - m
    OBVIOUS
  <1>4. ASSUME NEW k \in T PROVE m >= k
    <2>1. n - m <= n - k
      BY <1>2, <1>3
    <2>2. m \in Int /\ k \in Int
      OBVIOUS
    <2> HIDE DEF U
    <2> QED BY ONLY n \in Nat, <2>1, <2>2
  <1> QED BY <1>4 DEF Max

-----------------------------------------------------------------------------
(* The choices of a linkage, in the order in which the odometer comes to   *)
(* them.                                                                   *)
Linkage(l) == gen \in Generations /\ l \in 1..Len(gen.linkages)

Earlier(a, b) == a[1] < b[1] \/ (a[1] = b[1] /\ a[2] < b[2])

Before(o, p) ==
  \E w \in DOMAIN o : Earlier(o[w], p[w]) /\ \A v \in DOMAIN o : v < w => o[v] = p[v]

(* The choices that the odometer has passed when it is at o.               *)
Passed(l, o) == IF o = <<>> THEN ChoicesOf(l) ELSE {p \in ChoicesOf(l) : Before(p, o)}

(* Each word has categories, and each of them words.                       *)
Rows(C) ==
  /\ Len(C) \in Nat \ {0} /\ DOMAIN C = 1..Len(C)
  /\ \A c \in DOMAIN C : Len(C[c]) \in Nat \ {0} /\ DOMAIN C[c] = 1..Len(C[c])

LEMMA LinkageFacts ==
  ASSUME NEW l, Linkage(l)
  PROVE  /\ Len(WordsOf(l)) \in Nat \ {0} /\ DOMAIN WordsOf(l) = 1..Len(WordsOf(l))
         /\ \A w \in DOMAIN WordsOf(l) : Rows(Categories(WordsOf(l)[w]))
  <1>1. gen.linkages \in Seq(Seq([word : STRING, cats : Seq(DOMAIN gen.catlist)]) \ {<<>>})
    BY GenerationsAssumption DEF Linkage
  <1>2. WordsOf(l) \in Seq([word : STRING, cats : Seq(DOMAIN gen.catlist)]) /\ WordsOf(l) # <<>>
    <2> DEFINE S == Seq([word : STRING, cats : Seq(DOMAIN gen.catlist)]) \ {<<>>}
    <2> HIDE DEF S
    <2>1. gen.linkages \in Seq(S) /\ l \in 1..Len(gen.linkages)
      BY <1>1 DEF S, Linkage
    <2>2. gen.linkages[l] \in S
      BY <2>1
    <2> QED BY <2>2 DEF S, WordsOf
  <1>3. gen.catlist \in Seq(Seq(STRING) \ {<<>>})
    BY GenerationsAssumption DEF Linkage
  <1>4. ASSUME NEW w \in DOMAIN WordsOf(l) PROVE Rows(Categories(WordsOf(l)[w]))
    <2> DEFINE word == WordsOf(l)[w]
               C == Categories(word)
    <2>1. word \in [word : STRING, cats : Seq(DOMAIN gen.catlist)]
      <3> DEFINE S == [word : STRING, cats : Seq(DOMAIN gen.catlist)]
      <3>1. WordsOf(l) \in Seq(S)
        BY <1>2
      <3> HIDE DEF S
      <3>2. word \in S
        BY <3>1
      <3> QED BY <3>2 DEF S
    <2> HIDE DEF word
    <2>2. CASE word.cats = <<>>
      <3>1. C = <<<<word.word>>>>
        BY <2>2 DEF Categories
      <3>2. Len(C) = 1 /\ DOMAIN C = 1..1 /\ C[1] = <<word.word>>
        BY <3>1
      <3>3. Len(C[1]) = 1 /\ DOMAIN C[1] = 1..1
        BY <3>2
      <3> HIDE DEF C
      <3>4. Rows(C)
        BY <3>2, <3>3 DEF Rows
      <3> QED BY <3>4 DEF C, word
    <2>3. CASE word.cats # <<>>
      <3>1. word.cats \in Seq(DOMAIN gen.catlist) /\ Len(word.cats) \in Nat \ {0}
            /\ DOMAIN word.cats = 1..Len(word.cats)
        BY <2>1, <2>3, EmptySeq
      <3>2. C = [c \in 1..Len(word.cats) |-> gen.catlist[word.cats[c]]]
        BY <2>3, <3>1 DEF Categories
      <3>3. \A c \in 1..Len(word.cats) : gen.catlist[word.cats[c]] \in Seq(STRING) \ {<<>>}
        BY <1>3, <3>1
      <3>4. C \in Seq(Seq(STRING) \ {<<>>}) /\ Len(C) = Len(word.cats)
        BY <3>1, <3>2, <3>3, IsASeq
      <3>5. \A c \in DOMAIN C : C[c] \in Seq(STRING) /\ C[c] # <<>>
        BY <3>1, <3>2, <3>3
      <3>6. \A c \in DOMAIN C : Len(C[c]) \in Nat \ {0} /\ DOMAIN C[c] = 1..Len(C[c])
        BY <3>5, EmptySeq
      <3>7. DOMAIN C = 1..Len(C)
        BY <3>2, <3>4
      <3> HIDE DEF C
      <3>8. Rows(C)
        BY <3>1, <3>4, <3>6, <3>7 DEF Rows
      <3> QED BY <3>8 DEF C, word
    <2> QED BY <2>2, <2>3 DEF word
  <1>5. Len(WordsOf(l)) \in Nat \ {0} /\ DOMAIN WordsOf(l) = 1..Len(WordsOf(l))
    BY <1>2, EmptySeq
  <1> QED BY <1>4, <1>5

(* A choice, word by word.                                                 *)
LEMMA ChoiceIs ==
  ASSUME NEW l, NEW o
  PROVE  o \in ChoicesOf(l) <=>
           /\ o = [w \in DOMAIN WordsOf(l) |-> o[w]]
           /\ \A w \in DOMAIN WordsOf(l) : o[w] \in WordChoices(WordsOf(l)[w])
  <1>1. ASSUME o = [w \in DOMAIN WordsOf(l) |-> o[w]],
               \A w \in DOMAIN WordsOf(l) : o[w] \in WordChoices(WordsOf(l)[w])
        PROVE  o \in ChoicesOf(l)
    <2>1. \A w \in DOMAIN WordsOf(l) : o[w] \in UNION {WordChoices(v) : v \in Range(WordsOf(l))}
      BY <1>1 DEF Range
    <2> HIDE DEF WordChoices
    <2> QED BY <1>1, <2>1 DEF ChoicesOf
  <1> QED BY <1>1 DEF ChoicesOf

LEMMA WordChoiceIs ==
  ASSUME NEW w, NEW ch
  PROVE  ch \in WordChoices(w) <=>
           /\ ch = <<ch[1], ch[2]>>
           /\ ch[1] \in DOMAIN Categories(w) /\ ch[2] \in DOMAIN Categories(w)[ch[1]]
  BY DEF WordChoices

LEMMA FirstIsChoice ==
  ASSUME NEW l, Linkage(l)
  PROVE  /\ FirstChoice(l) \in ChoicesOf(l) /\ FirstChoice(l) # <<>>
         /\ Passed(l, FirstChoice(l)) = {}
  <1> DEFINE D == DOMAIN WordsOf(l)
             F == FirstChoice(l)
  <1>1. \A w \in D : <<1, 1>> \in WordChoices(WordsOf(l)[w])
    BY LinkageFacts, WordChoiceIs DEF Rows
  <1>2. F \in ChoicesOf(l)
    BY <1>1, ChoiceIs DEF FirstChoice
  <1>3. F # <<>>
    BY LinkageFacts DEF FirstChoice
  <1>4. ASSUME NEW p \in ChoicesOf(l), Before(p, F) PROVE FALSE
    <2>1. DOMAIN p = D /\ \A w \in D : p[w] \in WordChoices(WordsOf(l)[w])
      BY ChoiceIs
    <2>2. PICK w \in D : Earlier(p[w], <<1, 1>>)
      BY <1>4, <2>1 DEF Before, FirstChoice
    <2>3. p[w][1] \in Nat \ {0} /\ p[w][2] \in Nat \ {0}
      BY <2>1, LinkageFacts, WordChoiceIs DEF Rows
    <2> QED BY <2>2, <2>3 DEF Earlier
  <1> HIDE DEF F
  <1> QED BY <1>2, <1>3, <1>4 DEF Passed, F

(* The two loops of a word go to the next choice, of which there is none   *)
(* between.                                                                *)
LEMMA NextChoiceIs ==
  ASSUME NEW w, Rows(Categories(w)), NEW ch \in WordChoices(w)
  PROVE  /\ LastChoice(w, ch) => \A p \in WordChoices(w) : p = ch \/ Earlier(p, ch)
         /\ ~LastChoice(w, ch) =>
              /\ NextChoice(w, ch) \in WordChoices(w)
              /\ Earlier(ch, NextChoice(w, ch))
              /\ \A p \in WordChoices(w) :
                   Earlier(p, NextChoice(w, ch)) <=> p = ch \/ Earlier(p, ch)
  <1> DEFINE C == Categories(w)
             n == NextChoice(w, ch)
  <1>1. /\ Len(C) \in Nat \ {0} /\ DOMAIN C = 1..Len(C)
        /\ \A c \in DOMAIN C : Len(C[c]) \in Nat \ {0} /\ DOMAIN C[c] = 1..Len(C[c])
    BY DEF Rows
  <1>2. ASSUME NEW p \in WordChoices(w)
        PROVE  /\ p = <<p[1], p[2]>> /\ p[1] \in 1..Len(C)
               /\ Len(C[p[1]]) \in Nat \ {0} /\ p[2] \in 1..Len(C[p[1]])
    BY <1>1, WordChoiceIs
  <1>3. /\ LastWord(w, ch) <=> ch[2] = Len(C[ch[1]])
        /\ LastChoice(w, ch) <=> ch[1] = Len(C) /\ LastWord(w, ch)
    BY DEF LastWord, LastChoice
  <1> HIDE DEF C
  <1>4. ASSUME NEW p \in WordChoices(w), p[1] = ch[1]
        PROVE  p[2] \in 1..Len(C[ch[1]])
    BY <1>2, <1>4
  <1>5. ASSUME NEW p \in WordChoices(w), p[1] = ch[1], p[2] = ch[2]
        PROVE  p = ch
    <2>1. p = <<p[1], p[2]>> /\ ch = <<ch[1], ch[2]>>
      BY <1>2
    <2> QED BY <1>5, <2>1
  <1>6. ASSUME LastChoice(w, ch), NEW p \in WordChoices(w)
        PROVE  p = ch \/ Earlier(p, ch)
    <2>1. ch[1] = Len(C) /\ ch[2] = Len(C[ch[1]])
      BY <1>3, <1>6
    <2>2. p[1] \in Nat /\ p[1] <= ch[1] /\ p[2] \in Nat
      BY <1>1, <1>2, <2>1
    <2>3. p[1] = ch[1] => p[2] <= ch[2]
      BY <1>2, <1>4, <2>1
    <2>4. ch[1] \in Nat /\ ch[2] \in Nat
      BY <1>2
    <2>5. p[1] < ch[1] \/ (p[1] = ch[1] /\ p[2] < ch[2]) \/ (p[1] = ch[1] /\ p[2] = ch[2])
      BY <2>2, <2>3, <2>4
    <2> QED BY <1>5, <2>5 DEF Earlier
  <1>7. ASSUME ~LastChoice(w, ch), LastWord(w, ch)
        PROVE  /\ n \in WordChoices(w)
               /\ Earlier(ch, n)
               /\ \A p \in WordChoices(w) : Earlier(p, n) <=> p = ch \/ Earlier(p, ch)
    <2>1. n = <<ch[1] + 1, 1>> /\ ch[2] = Len(C[ch[1]])
      BY <1>3, <1>7 DEF NextChoice
    <2> HIDE DEF n
    <2>2. ch[1] + 1 \in 1..Len(C) /\ ch[1] \in Nat /\ ch[2] \in Nat
      BY <1>1, <1>2, <1>3, <1>7
    <2>3. n \in WordChoices(w)
      BY <1>1, <2>1, <2>2, WordChoiceIs DEF C
    <2>4. n[1] = ch[1] + 1 /\ n[2] = 1
      BY <2>1
    <2>5. ASSUME NEW p \in WordChoices(w) PROVE Earlier(p, n) <=> p = ch \/ Earlier(p, ch)
      <3>1. p[1] \in Nat /\ p[2] \in Nat \ {0}
        BY <1>1, <1>2
      <3>2. p[1] = ch[1] => p[2] <= ch[2]
        BY <1>2, <1>4, <2>1
      <3>3. p[1] < n[1] <=> p[1] < ch[1] \/ (p[1] = ch[1] /\ p[2] < ch[2]) \/ (p[1] = ch[1] /\ p[2] = ch[2])
        BY <2>2, <2>4, <3>1, <3>2
      <3>4. ~(p[2] < n[2])
        BY <2>4, <3>1
      <3> QED BY <1>5, <3>3, <3>4 DEF Earlier
    <2>6. Earlier(ch, n)
      BY <2>2, <2>4 DEF Earlier
    <2> QED BY <2>3, <2>5, <2>6
  <1>8. ASSUME ~LastWord(w, ch)
        PROVE  /\ n \in WordChoices(w)
               /\ Earlier(ch, n)
               /\ \A p \in WordChoices(w) : Earlier(p, n) <=> p = ch \/ Earlier(p, ch)
    <2>1. n = <<ch[1], ch[2] + 1>> /\ ch[2] # Len(C[ch[1]])
      BY <1>3, <1>8 DEF NextChoice
    <2> HIDE DEF n
    <2>2. ch[2] + 1 \in 1..Len(C[ch[1]]) /\ ch[1] \in Nat /\ ch[2] \in Nat
      BY <1>2, <2>1
    <2>3. n \in WordChoices(w)
      BY <1>1, <1>2, <2>1, <2>2, WordChoiceIs DEF C
    <2>4. n[1] = ch[1] /\ n[2] = ch[2] + 1
      BY <2>1
    <2>5. ASSUME NEW p \in WordChoices(w) PROVE Earlier(p, n) <=> p = ch \/ Earlier(p, ch)
      <3>1. p[1] \in Nat /\ p[2] \in Nat
        BY <1>1, <1>2
      <3>2. p[2] < n[2] <=> p[2] < ch[2] \/ p[2] = ch[2]
        BY <2>2, <2>4, <3>1
      <3> QED BY <1>5, <2>4, <3>2 DEF Earlier
    <2>6. Earlier(ch, n)
      BY <2>2, <2>4 DEF Earlier
    <2> QED BY <2>3, <2>5, <2>6
  <1>9. LastChoice(w, ch) => LastWord(w, ch)
    BY <1>3
  <1> QED BY <1>6, <1>7, <1>8

(* Two choices of a linkage that are the same up to a word where the other *)
(* is not: the first word in which they differ decides.                    *)
LEMMA LastWords ==
  ASSUME NEW l, Linkage(l), NEW o \in ChoicesOf(l), NEW p \in ChoicesOf(l), NEW n \in Nat,
         \A w \in DOMAIN o : w <= n => p[w] = o[w],
         \A w \in DOMAIN o : w > n => LastChoice(WordsOf(l)[w], o[w])
  PROVE  p = o \/ Before(p, o)
  <1> DEFINE D == DOMAIN WordsOf(l)
             T == {w \in D : p[w] # o[w]}
  <1>1. /\ D = 1..Len(WordsOf(l)) /\ Len(WordsOf(l)) \in Nat
        /\ \A w \in D : Rows(Categories(WordsOf(l)[w]))
    BY LinkageFacts
  <1>2. /\ o = [w \in D |-> o[w]] /\ p = [w \in D |-> p[w]]
        /\ \A w \in D : o[w] \in WordChoices(WordsOf(l)[w]) /\ p[w] \in WordChoices(WordsOf(l)[w])
    BY ChoiceIs
  <1>3. DOMAIN o = D /\ DOMAIN p = D
    BY <1>2
  <1> HIDE DEF D
  <1>4. CASE T = {}
    <2>1. \A w \in D : p[w] = o[w]
      BY <1>4
    <2>2. p = o
      BY <1>2, <2>1
    <2> QED BY <2>2
  <1>5. CASE T # {}
    <2>1. T \in SUBSET Nat
      BY <1>1
    <2>2. PICK w \in T : \A v \in T : w <= v
      <3> HIDE DEF T
      <3> QED BY <1>5, <2>1, LeastNumber
    <2>3. w \in D /\ w > n
      <3>1. w \in D /\ ~(w <= n) /\ w \in Nat
        BY <1>3, <2>1
      <3> QED BY <3>1
    <2>4. Earlier(p[w], o[w])
      <3>1. LastChoice(WordsOf(l)[w], o[w])
        BY <1>3, <2>3
      <3>2. p[w] # o[w]
        BY <2>2
      <3> QED BY <1>1, <1>2, <2>3, <3>1, <3>2, NextChoiceIs
    <2>5. \A v \in D : v < w => p[v] = o[v]
      <3>1. ASSUME NEW v \in D, v < w, p[v] # o[v] PROVE FALSE
        <4>1. v \in T
          BY <3>1
        <4>2. w <= v
          BY <2>2, <4>1
        <4>3. v \in Int /\ w \in Int
          BY <1>1, <2>3
        <4> QED BY <3>1, <4>2, <4>3
      <3> QED BY <3>1
    <2> QED BY <1>3, <2>3, <2>4, <2>5 DEF Before
  <1> QED BY <1>4, <1>5

(* One turn of the odometer passes exactly the choice it was at; when it   *)
(* wraps, it has passed all.                                               *)
LEMMA OdometerTurns ==
  ASSUME NEW l, Linkage(l), NEW o \in ChoicesOf(l)
  PROVE  /\ sent_odom(l, o) \in ChoicesOf(l) \cup {<<>>}
         /\ o # <<>> /\ o \notin Passed(l, o)
         /\ Passed(l, sent_odom(l, o)) = Passed(l, o) \cup {o}
  <1> DEFINE D == DOMAIN WordsOf(l)
             more == {w \in DOMAIN o : ~LastChoice(WordsOf(l)[w], o[w])}
             turn == Max(more)
             next == [w \in DOMAIN o |-> IF w < turn THEN o[w]
                        ELSE IF w = turn THEN NextChoice(WordsOf(l)[w], o[w]) ELSE <<1, 1>>]
  <1>0. sent_odom(l, o) = IF more = {} THEN <<>> ELSE next
    BY DEF sent_odom
  <1>1. /\ D = 1..Len(WordsOf(l)) /\ Len(WordsOf(l)) \in Nat \ {0}
        /\ \A w \in D : Rows(Categories(WordsOf(l)[w]))
    BY LinkageFacts
  <1>2. \A p \in ChoicesOf(l) : /\ p = [w \in D |-> p[w]] /\ DOMAIN p = D
                                /\ \A w \in D : p[w] \in WordChoices(WordsOf(l)[w])
    BY ChoiceIs
  <1>3. DOMAIN o = D /\ \A w \in D : o[w] \in WordChoices(WordsOf(l)[w])
    BY <1>2
  <1>4. o # <<>>
    <2>1. 1 \in D
      BY <1>1
    <2> HIDE DEF D
    <2> QED BY <1>3, <2>1
  <1>5. \A w \in D : \A p \in WordChoices(WordsOf(l)[w]) : p[1] \in Nat \ {0} /\ p[2] \in Nat \ {0}
    BY <1>1, WordChoiceIs DEF Rows
  <1> HIDE DEF D
  <1>6. ~Before(o, o)
    BY <1>3, <1>5 DEF Before, Earlier
  <1>7. o \notin Passed(l, o)
    BY <1>4, <1>6 DEF Passed
  <1>8. CASE more = {}
    <2>1. \A w \in DOMAIN o : LastChoice(WordsOf(l)[w], o[w])
      BY <1>8
    <2>2. ASSUME NEW p \in ChoicesOf(l) PROVE p = o \/ Before(p, o)
      <3>1. \A w \in DOMAIN o : w <= 0 => p[w] = o[w]
        BY <1>1, <1>3
      <3> QED BY <2>1, <3>1, LastWords
    <2>3. Passed(l, <<>>) = ChoicesOf(l) /\ Passed(l, o) = {p \in ChoicesOf(l) : Before(p, o)}
      BY <1>4 DEF Passed
    <2>4. Passed(l, <<>>) = Passed(l, o) \cup {o}
      BY <2>2, <2>3
    <2> QED BY <1>0, <1>4, <1>7, <1>8, <2>4
  <1>9. CASE more # {}
    <2>1. turn \in more /\ \A w \in more : w <= turn
      <3>1. more \in SUBSET (1..Len(WordsOf(l))) /\ Len(WordsOf(l)) \in Nat
        BY <1>1, <1>3
      <3> HIDE DEF more
      <3> QED BY <1>9, <3>1, GreatestNumber
    <2> HIDE DEF turn
    <2>2. turn \in D /\ turn \in Nat /\ ~LastChoice(WordsOf(l)[turn], o[turn])
      BY <1>1, <1>3, <2>1
    <2>3. \A w \in D : w \in Nat /\ (w > turn => LastChoice(WordsOf(l)[w], o[w]))
      BY <1>1, <1>3, <2>1, <2>2
    <2> HIDE DEF more
    <2>4. /\ NextChoice(WordsOf(l)[turn], o[turn]) \in WordChoices(WordsOf(l)[turn])
          /\ Earlier(o[turn], NextChoice(WordsOf(l)[turn], o[turn]))
          /\ \A q \in WordChoices(WordsOf(l)[turn]) :
               Earlier(q, NextChoice(WordsOf(l)[turn], o[turn])) <=> q = o[turn] \/ Earlier(q, o[turn])
      BY <1>1, <1>3, <2>2, NextChoiceIs
    <2>5. /\ DOMAIN next = D
          /\ \A w \in D : w < turn => next[w] = o[w]
          /\ next[turn] = NextChoice(WordsOf(l)[turn], o[turn])
          /\ \A w \in D : w > turn => next[w] = <<1, 1>>
      BY <1>3, <2>2, <2>3
    <2>6. next = [w \in D |-> next[w]]
      BY <1>3
    <2> HIDE DEF next
    <2>7. next \in ChoicesOf(l)
      <3>1. ASSUME NEW w \in D PROVE next[w] \in WordChoices(WordsOf(l)[w])
        <4>1. CASE w < turn
          BY <1>3, <2>5, <4>1
        <4>2. CASE w = turn
          BY <2>4, <2>5, <4>2
        <4>3. CASE w > turn
          <5>1. <<1, 1>> \in WordChoices(WordsOf(l)[w])
            BY <1>1, WordChoiceIs DEF Rows
          <5> QED BY <2>5, <4>3, <5>1
        <4> QED BY <2>2, <2>3, <4>1, <4>2, <4>3
      <3> QED BY <2>6, <3>1, ChoiceIs DEF D
    <2>8. next # <<>>
      <3>1. 1 \in D
        BY <1>1
      <3> QED BY <2>5, <3>1
    <2>9. ASSUME NEW p \in ChoicesOf(l), Before(p, next) PROVE p = o \/ Before(p, o)
      <3>1. DOMAIN p = D /\ \A w \in D : p[w] \in WordChoices(WordsOf(l)[w])
        BY <1>2
      <3>2. PICK w \in D : Earlier(p[w], next[w]) /\ \A v \in D : v < w => p[v] = next[v]
        BY <2>9, <3>1 DEF Before
      <3>3. CASE w < turn
        <4>1. \A v \in D : v < w => next[v] = o[v]
          BY <2>2, <2>3, <2>5, <3>3
        <4> QED BY <2>5, <3>1, <3>2, <3>3, <4>1 DEF Before
      <3>4. CASE w = turn
        <4>1. \A v \in D : v < turn => p[v] = o[v]
          BY <2>5, <3>2, <3>4
        <4>2. p[turn] = o[turn] \/ Earlier(p[turn], o[turn])
          BY <2>2, <2>4, <2>5, <3>1, <3>2, <3>4
        <4>3. CASE Earlier(p[turn], o[turn])
          BY <2>2, <3>1, <4>1, <4>3 DEF Before
        <4>4. CASE p[turn] = o[turn]
          <5>1. \A v \in DOMAIN o : v <= turn => p[v] = o[v]
            <6>1. \A v \in D : v <= turn => v < turn \/ v = turn
              BY <2>2, <2>3
            <6> QED BY <1>3, <4>1, <4>4, <6>1
          <5>2. \A v \in DOMAIN o : v > turn => LastChoice(WordsOf(l)[v], o[v])
            BY <1>3, <2>3
          <5> QED BY <2>2, <5>1, <5>2, LastWords
        <4> QED BY <4>2, <4>3, <4>4
      <3>5. CASE w > turn
        <4>1. Earlier(p[w], <<1, 1>>) /\ p[w][1] \in Nat \ {0} /\ p[w][2] \in Nat \ {0}
          BY <1>5, <2>5, <3>1, <3>2, <3>5
        <4> QED BY <4>1 DEF Earlier
      <3> QED BY <2>2, <2>3, <3>3, <3>4, <3>5
    <2>10. Before(o, next)
      BY <1>3, <2>2, <2>4, <2>5 DEF Before
    <2>11. ASSUME NEW p \in ChoicesOf(l), Before(p, o) PROVE Before(p, next)
      <3>1. DOMAIN p = D /\ \A w \in D : p[w] \in WordChoices(WordsOf(l)[w])
        BY <1>2
      <3>2. PICK w \in D : Earlier(p[w], o[w]) /\ \A v \in D : v < w => p[v] = o[v]
        BY <2>11, <3>1 DEF Before
      <3>3. CASE w < turn
        <4>1. \A v \in D : v < w => p[v] = next[v]
          BY <2>2, <2>3, <2>5, <3>2, <3>3
        <4> QED BY <2>5, <3>1, <3>2, <3>3, <4>1 DEF Before
      <3>4. CASE w = turn
        <4>1. \A v \in D : v < turn => p[v] = next[v]
          BY <2>5, <3>2, <3>4
        <4>2. Earlier(p[turn], next[turn])
          BY <2>2, <2>4, <2>5, <3>1, <3>2, <3>4
        <4> QED BY <2>2, <3>1, <4>1, <4>2 DEF Before
      <3>5. CASE w > turn
        <4>1. p[turn] = o[turn] /\ \A v \in D : v < turn => p[v] = next[v]
          BY <2>2, <2>3, <2>5, <3>2, <3>5
        <4>2. Earlier(p[turn], next[turn])
          BY <2>4, <2>5, <4>1
        <4> QED BY <2>2, <3>1, <4>1, <4>2 DEF Before
      <3> QED BY <2>2, <2>3, <3>3, <3>4, <3>5
    <2>12. /\ Passed(l, next) = {p \in ChoicesOf(l) : Before(p, next)}
           /\ Passed(l, o) = {p \in ChoicesOf(l) : Before(p, o)}
      BY <1>4, <2>8 DEF Passed
    <2>13. Passed(l, next) = Passed(l, o) \cup {o}
      BY <2>9, <2>10, <2>11, <2>12
    <2> QED BY <1>0, <1>4, <1>7, <1>9, <2>7, <2>13
  <1> QED BY <1>8, <1>9

(* The sentences of a linkage are those of its choices.                    *)
LEMMA SentencesAre ==
  ASSUME NEW l, Linkage(l)
  PROVE  SentencesOf(l) = {SentenceOf(l, o) : o \in ChoicesOf(l)}
  <1> DEFINE D == DOMAIN WordsOf(l)
             C(w) == Categories(WordsOf(l)[w])
             Has(w, x) == \E ch \in WordChoices(WordsOf(l)[w]) : x = C(w)[ch[1]][ch[2]]
  <1>1. \A w \in D : Rows(C(w))
    BY LinkageFacts
  <1>2. ASSUME NEW w \in D, NEW x
        PROVE  /\ Has(w, x) <=> IF WordsOf(l)[w].cats = <<>> THEN x = WordsOf(l)[w].word
                                ELSE \E c \in Range(WordsOf(l)[w].cats) : x \in Range(gen.catlist[c])
               /\ Has(w, x) => x \in UNION {Range(c) : c \in Range(C(w))}
    <2> DEFINE word == WordsOf(l)[w]
    <2>1. Has(w, x) <=> \E c \in DOMAIN C(w) : \E k \in DOMAIN C(w)[c] : x = C(w)[c][k]
      <3>1. ASSUME NEW ch \in WordChoices(word) PROVE ch[1] \in DOMAIN C(w) /\ ch[2] \in DOMAIN C(w)[ch[1]]
        BY WordChoiceIs
      <3>2. ASSUME NEW c \in DOMAIN C(w), NEW k \in DOMAIN C(w)[c]
            PROVE  <<c, k>> \in WordChoices(word) /\ <<c, k>>[1] = c /\ <<c, k>>[2] = k
        BY WordChoiceIs
      <3>3. Has(w, x) => \E c \in DOMAIN C(w) : \E k \in DOMAIN C(w)[c] : x = C(w)[c][k]
        BY <3>1
      <3>4. ASSUME NEW c \in DOMAIN C(w), NEW k \in DOMAIN C(w)[c], x = C(w)[c][k] PROVE Has(w, x)
        <4>1. x = C(w)[<<c, k>>[1]][<<c, k>>[2]]
          BY <3>2, <3>4
        <4> QED BY <3>2, <4>1
      <3> QED BY <3>3, <3>4
    <2>2. CASE word.cats = <<>>
      <3>1. C(w) = <<<<word.word>>>>
        BY <2>2 DEF Categories
      <3> HIDE DEF C
      <3>2. DOMAIN C(w) = {1} /\ C(w)[1] = <<word.word>>
        BY <3>1
      <3>3. DOMAIN C(w)[1] = {1} /\ C(w)[1][1] = word.word
        BY <3>2
      <3>4. Has(w, x) <=> x = word.word
        BY <2>1, <3>2, <3>3
      <3>5. word.word \in UNION {Range(c) : c \in Range(C(w))}
        BY <3>2, <3>3 DEF Range
      <3> HIDE DEF Has
      <3> QED BY <2>2, <3>4, <3>5
    <2>3. CASE word.cats # <<>>
      <3>1. C(w) = [c \in DOMAIN word.cats |-> gen.catlist[word.cats[c]]]
        BY <2>3 DEF Categories
      <3> HIDE DEF C, word
      <3>2. DOMAIN C(w) = DOMAIN word.cats /\ \A c \in DOMAIN word.cats : C(w)[c] = gen.catlist[word.cats[c]]
        BY <3>1
      <3>3. Has(w, x) <=> \E c \in DOMAIN word.cats : x \in Range(gen.catlist[word.cats[c]])
        BY <2>1, <3>2 DEF Range
      <3>4. Has(w, x) <=> \E c \in Range(word.cats) : x \in Range(gen.catlist[c])
        BY <3>3 DEF Range
      <3>5. Has(w, x) => x \in UNION {Range(c) : c \in Range(C(w))}
        BY <2>1, <3>2 DEF Range
      <3> HIDE DEF Has
      <3> QED BY <2>3, <3>4, <3>5 DEF word
    <2> QED BY <2>2, <2>3
  <1>3. ASSUME NEW s
        PROVE  s \in SentencesOf(l) <=> s = [w \in D |-> s[w]] /\ \A w \in D : Has(w, s[w])
    <2> DEFINE All == UNION {UNION {Range(c) : c \in Range(Categories(w))} : w \in Range(WordsOf(l))}
    <2>1. ASSUME NEW w \in D, Has(w, s[w]) PROVE s[w] \in All
      <3>1. s[w] \in UNION {Range(c) : c \in Range(C(w))}
        BY <1>2, <2>1
      <3>2. WordsOf(l)[w] \in Range(WordsOf(l))
        BY DEF Range
      <3> QED BY <3>1, <3>2
    <2> HIDE DEF Has, All
    <2>2. s \in SentencesOf(l) <=> s \in [D -> All] /\ \A w \in D : Has(w, s[w])
      <3>1. SentencesOf(l) =
              {t \in [D -> All] :
                 \A w \in DOMAIN t : IF WordsOf(l)[w].cats = <<>> THEN t[w] = WordsOf(l)[w].word
                                     ELSE \E c \in Range(WordsOf(l)[w].cats) : t[w] \in Range(gen.catlist[c])}
        BY DEF SentencesOf, All
      <3> HIDE DEF D
      <3>2. s \in [D -> All] => DOMAIN s = D
        OBVIOUS
      <3> QED BY <1>2, <3>1, <3>2
    <2> HIDE DEF D
    <2>3. s \in [D -> All] <=> s = [w \in D |-> s[w]] /\ \A w \in D : s[w] \in All
      <3>1. s \in [D -> All] => s = [w \in D |-> s[w]] /\ \A w \in D : s[w] \in All
        OBVIOUS
      <3>2. ASSUME \A w \in D : s[w] \in All PROVE [w \in D |-> s[w]] \in [D -> All]
        BY <3>2
      <3> QED BY <3>1, <3>2
    <2> QED BY <2>1, <2>2, <2>3
  <1>4. ASSUME NEW o \in ChoicesOf(l) PROVE SentenceOf(l, o) \in SentencesOf(l)
    <2>1. DOMAIN o = D /\ \A w \in D : o[w] \in WordChoices(WordsOf(l)[w])
      BY ChoiceIs
    <2>2. SentenceOf(l, o) = [w \in D |-> C(w)[o[w][1]][o[w][2]]]
      BY <2>1 DEF SentenceOf
    <2> QED BY <1>3, <2>1, <2>2
  <1>5. ASSUME NEW s \in SentencesOf(l) PROVE \E o \in ChoicesOf(l) : s = SentenceOf(l, o)
    <2> DEFINE o == [w \in D |-> CHOOSE ch \in WordChoices(WordsOf(l)[w]) : s[w] = C(w)[ch[1]][ch[2]]]
    <2>1. s = [w \in D |-> s[w]] /\ \A w \in D : Has(w, s[w])
      BY <1>3
    <2>2. \A w \in D : o[w] \in WordChoices(WordsOf(l)[w]) /\ s[w] = C(w)[o[w][1]][o[w][2]]
      BY <2>1
    <2>3. o = [w \in D |-> o[w]] /\ DOMAIN o = D
      OBVIOUS
    <2> HIDE DEF o
    <2>4. o \in ChoicesOf(l)
      BY <2>2, <2>3, ChoiceIs
    <2>5. SentenceOf(l, o) = s
      BY <2>1, <2>2, <2>3 DEF SentenceOf
    <2> QED BY <2>4, <2>5
  <1> QED BY <1>4, <1>5

-----------------------------------------------------------------------------
Chosen(l) == {printed[n].choice : n \in PrintedFor(l)}
OncePrinted(l) == \A m, n \in PrintedFor(l) : printed[m].choice = printed[n].choice => m = n

Prints ==
  UNION {{[linkage |-> l, choice |-> o, sent |-> SentenceOf(l, o)] : o \in ChoicesOf(l)} :
           l \in 1..Len(gen.linkages)}

(* While the odometer counts, the count is the number of choices passed;   *)
(* while it prints everything, what was printed is what it has passed.     *)
OdometerInv(l) ==
  /\ gpc \in {"count", "odometer", "printed"} => Linkage(l)
  /\ gpc \in {"linkage", "count"} => PrintedFor(l) = {}
  /\ gpc \in {"count", "odometer"} => odom \in ChoicesOf(l) \cup {<<>>}
  /\ gpc = "count" =>
       /\ nprinted = 0
       /\ IsFiniteSet(Passed(l, odom)) /\ num_word_choices = Cardinality(Passed(l, odom))
  /\ gpc = "odometer" =>
       /\ nprinted \in Nat /\ (nprinted = 0 <=> PrintedFor(l) = {})
       /\ Always => Chosen(l) = Passed(l, odom) /\ OncePrinted(l)
  /\ gpc \in {"odometer", "printed"} /\ Several => num_word_choices = Cardinality(ChoicesOf(l))
  /\ gpc = "printed" =>
       /\ PrintedFor(l) # {}
       /\ Several /\ Always => Chosen(l) = ChoicesOf(l) /\ OncePrinted(l)

GenInv ==
  /\ gen \in Generations
  /\ li \in Nat \ {0}
  /\ gpc \in {"linkage", "count", "odometer", "printed", "done"}
  /\ printed \in Seq(Prints)
  /\ \A n \in DOMAIN printed : printed[n].linkage <= li
  /\ OdometerInv(li)

(* The choices and sentences depend on gen only, which stays.              *)
LEMMA LinkagesStay ==
  ASSUME gen' = gen
  PROVE  /\ Prints' = Prints /\ Several' = Several
         /\ \A l : /\ Linkage(l)' = Linkage(l)
                   /\ ChoicesOf(l)' = ChoicesOf(l) /\ FirstChoice(l)' = FirstChoice(l)
                   /\ \A o : SentenceOf(l, o)' = SentenceOf(l, o)
                   /\ \A o : Passed(l, o)' = Passed(l, o)
  <1>1. \A w : Categories(w)' = Categories(w)
    BY DEF Categories
  <1>2. \A w : WordChoices(w)' = WordChoices(w)
    BY <1>1 DEF WordChoices
  <1>3. \A l : WordsOf(l)' = WordsOf(l)
    BY DEF WordsOf
  <1>4. \A l : ChoicesOf(l)' = ChoicesOf(l)
    BY <1>2, <1>3 DEF ChoicesOf
  <1>5. \A l : FirstChoice(l)' = FirstChoice(l)
    BY <1>3 DEF FirstChoice
  <1>6. \A l, o : SentenceOf(l, o)' = SentenceOf(l, o)
    BY <1>1, <1>3 DEF SentenceOf
  <1>7. Prints' = Prints
    BY <1>4, <1>6 DEF Prints
  <1>8. \A l, o : Passed(l, o)' = Passed(l, o)
    BY <1>4 DEF Passed, Before, Earlier
  <1> QED BY <1>4, <1>5, <1>6, <1>7, <1>8 DEF Several, Linkage

(* A printed sentence is one more of this linkage.                         *)
LEMMA SentencePrinted ==
  ASSUME GenInv, gen' = gen, li' = li, Linkage(li), NEW o \in ChoicesOf(li), PrintSent(o)
  PROVE  /\ printed' \in Seq(Prints') /\ \A n \in DOMAIN printed' : printed'[n].linkage <= li'
         /\ PrintedFor(li)' # {}
         /\ Chosen(li)' = Chosen(li) \cup {o}
         /\ OncePrinted(li) /\ o \notin Chosen(li) => OncePrinted(li)'
  <1> DEFINE e == [linkage |-> li, choice |-> o, sent |-> SentenceOf(li, o)]
             N == Len(printed)
             P == PrintedFor(li)
             Q == {n \in DOMAIN printed' : printed'[n].linkage = li}
  <1>1. printed \in Seq(Prints) /\ printed' = Append(printed, e)
    BY DEF GenInv, PrintSent
  <1>2. e \in Prints
    BY DEF Prints, Linkage
  <1>3. e.linkage = li /\ e.choice = o
    OBVIOUS
  <1> HIDE DEF e
  <1>4. printed' \in Seq(Prints)
    BY <1>1, <1>2
  <1>5. /\ N \in Nat /\ DOMAIN printed = 1..N /\ DOMAIN printed' = 1..(N + 1)
        /\ \A n \in 1..N : printed'[n] = printed[n]
        /\ printed'[N + 1] = e
    BY <1>1, <1>2, AppendProperties
  <1> HIDE DEF N
  <1>6. \A n \in DOMAIN printed' : n \in 1..N \/ n = N + 1
    BY <1>5
  <1>7. P = {n \in 1..N : printed[n].linkage = li}
    BY <1>5 DEF PrintedFor
  <1>8. Q = P \cup {N + 1} /\ N + 1 \notin P
    BY <1>3, <1>5, <1>6, <1>7
  <1>9. PrintedFor(li)' = Q /\ Chosen(li)' = {printed'[n].choice : n \in Q}
        /\ (OncePrinted(li)' <=> \A m, n \in Q : printed'[m].choice = printed'[n].choice => m = n)
    BY DEF PrintedFor, Chosen, OncePrinted
  <1>10. Chosen(li) = {printed[n].choice : n \in P}
         /\ (OncePrinted(li) <=> \A m, n \in P : printed[m].choice = printed[n].choice => m = n)
    BY DEF Chosen, OncePrinted
  <1>11. \A n \in P : printed'[n] = printed[n]
    BY <1>5, <1>7
  <1> HIDE DEF P, Q
  <1>12. Chosen(li)' = Chosen(li) \cup {o}
    BY <1>3, <1>5, <1>8, <1>9, <1>10, <1>11
  <1>13. ASSUME OncePrinted(li), o \notin Chosen(li) PROVE OncePrinted(li)'
    <2>1. ASSUME NEW m \in Q, NEW n \in Q, printed'[m].choice = printed'[n].choice PROVE m = n
      <3>1. CASE m \in P /\ n \in P
        BY <1>10, <1>11, <1>13, <2>1, <3>1
      <3>2. CASE m = N + 1 /\ n \in P
        BY <1>3, <1>5, <1>10, <1>11, <1>13, <2>1, <3>2
      <3>3. CASE n = N + 1 /\ m \in P
        BY <1>3, <1>5, <1>10, <1>11, <1>13, <2>1, <3>3
      <3>4. CASE m = N + 1 /\ n = N + 1
        BY <3>4
      <3> QED BY <1>8, <3>1, <3>2, <3>3, <3>4
    <2> QED BY <1>9, <2>1
  <1>14. \A n \in DOMAIN printed' : printed'[n].linkage <= li'
    <2>1. \A n \in 1..N : printed[n].linkage <= li
      BY <1>5 DEF GenInv
    <2>2. li <= li
      BY DEF GenInv
    <2> QED BY <1>3, <1>5, <1>6, <2>1, <2>2
  <1>15. Prints' = Prints
    BY LinkagesStay
  <1> QED BY <1>4, <1>8, <1>9, <1>12, <1>13, <1>14, <1>15

(* What does not depend on what was printed just now.                      *)
LEMMA NothingPrinted ==
  ASSUME GenInv, gen' = gen, printed' = printed, li' = li
  PROVE  /\ printed' \in Seq(Prints') /\ \A n \in DOMAIN printed' : printed'[n].linkage <= li'
         /\ gen' \in Generations /\ li' \in Nat \ {0}
         /\ PrintedFor(li)' = PrintedFor(li) /\ Chosen(li)' = Chosen(li)
         /\ OncePrinted(li)' = OncePrinted(li)
  <1>1. Prints' = Prints
    BY LinkagesStay
  <1>2. PrintedFor(li)' = PrintedFor(li)
    BY DEF PrintedFor
  <1> QED BY <1>1, <1>2 DEF GenInv, Chosen, OncePrinted

LEMMA OdometerStep ==
  GenInv /\ [GenNext]_genVars => GenInv'
  <1> SUFFICES ASSUME GenInv, [GenNext]_genVars PROVE GenInv'
    OBVIOUS
  <1>0. gen' = gen
    BY DEF GenNext, genVars, PrintOne, StartSeveral, CountChoice, Counted, PrintChoice, SkipChoice,
           TurnAgain, HasPrinted, NextLinkage, Finish
  <1>1. /\ gen \in Generations /\ li \in Nat \ {0} /\ OdometerInv(li)
        /\ Several' = Several
        /\ (num_word_choices' = num_word_choices => Always' = Always)
    BY <1>0, LinkagesStay DEF GenInv, Always
  <1>2. ASSUME li' = li
        PROVE  /\ Linkage(li)' = Linkage(li) /\ ChoicesOf(li)' = ChoicesOf(li)
               /\ Passed(li, odom)' = Passed(li, odom')
    <2>1. Linkage(li)' = Linkage(li)
      BY <1>0, <1>2 DEF Linkage
    <2>2. ChoicesOf(li)' = ChoicesOf(li)
      BY <1>0, <1>2 DEF ChoicesOf, WordsOf, WordChoices, Categories
    <2>3. Passed(li, odom)' = Passed(li, odom')
      BY <1>2, <2>2 DEF Passed, Before, Earlier
    <2> QED BY <2>1, <2>2, <2>3
  <1>3. ASSUME printed' = printed, li' = li, OdometerInv(li)',
               gpc' \in {"linkage", "count", "odometer", "printed", "done"}
        PROVE  GenInv'
    BY <1>0, <1>3, NothingPrinted DEF GenInv
  <1>4. gpc \in {"linkage", "count", "odometer", "printed", "done"} => gpc # "none"
    OBVIOUS
  <1>5. li <= Len(gen.linkages) => Linkage(li)
    <2>1. gen.linkages \in Seq(Seq([word : STRING, cats : Seq(DOMAIN gen.catlist)]) \ {<<>>})
      BY <1>1, GenerationsAssumption
    <2> QED BY <1>1, <2>1 DEF Linkage
  <1>6. CASE PrintOne
    <2>1. PICK o \in ChoicesOf(li) : PrintSent(o)
      BY <1>6 DEF PrintOne
    <2>2. gpc = "linkage" /\ gpc' = "printed" /\ li' = li /\ ~Several /\ Linkage(li)
      BY <1>5, <1>6 DEF PrintOne
    <2>3. /\ printed' \in Seq(Prints') /\ \A n \in DOMAIN printed' : printed'[n].linkage <= li'
          /\ PrintedFor(li)' # {}
      BY <1>0, <2>1, <2>2, SentencePrinted
    <2>4. OdometerInv(li)'
      BY <1>1, <1>2, <2>2, <2>3 DEF OdometerInv
    <2> QED BY <1>0, <1>1, <2>2, <2>3, <2>4 DEF GenInv
  <1>7. CASE StartSeveral
    <2>1. /\ gpc = "linkage" /\ gpc' = "count" /\ odom' = FirstChoice(li) /\ num_word_choices' = 0
          /\ nprinted' = 0 /\ printed' = printed /\ li' = li /\ Linkage(li)
      BY <1>5, <1>7 DEF StartSeveral
    <2>2. PrintedFor(li)' = {}
      BY <1>0, <1>1, <2>1, NothingPrinted DEF OdometerInv
    <2>3. odom' \in ChoicesOf(li) /\ Passed(li, odom') = {}
      BY <2>1, FirstIsChoice
    <2>4. IsFiniteSet({}) /\ Cardinality({}) = 0
      BY FS_EmptySet
    <2>5. OdometerInv(li)'
      BY <1>2, <2>1, <2>2, <2>3, <2>4 DEF OdometerInv
    <2> QED BY <1>3, <2>1, <2>5
  <1>8. CASE CountChoice
    <2>1. /\ gpc = "count" /\ gpc' = "count" /\ odom # <<>> /\ odom' = sent_odom(li, odom)
          /\ num_word_choices' = num_word_choices + 1
          /\ nprinted' = nprinted /\ printed' = printed /\ li' = li
      BY <1>8 DEF CountChoice
    <2>2. /\ Linkage(li) /\ odom \in ChoicesOf(li) /\ PrintedFor(li) = {} /\ nprinted = 0
          /\ IsFiniteSet(Passed(li, odom)) /\ num_word_choices = Cardinality(Passed(li, odom))
      BY <1>1, <2>1 DEF OdometerInv
    <2>3. PrintedFor(li)' = {}
      BY <1>0, <2>1, <2>2, NothingPrinted
    <2>4. /\ odom' \in ChoicesOf(li) \cup {<<>>} /\ odom \notin Passed(li, odom)
          /\ Passed(li, odom') = Passed(li, odom) \cup {odom}
      BY <2>1, <2>2, OdometerTurns
    <2>5. IsFiniteSet(Passed(li, odom')) /\ Cardinality(Passed(li, odom')) = num_word_choices'
      BY <2>1, <2>2, <2>4, FS_AddElement
    <2>6. OdometerInv(li)'
      BY <1>2, <2>1, <2>2, <2>3, <2>4, <2>5 DEF OdometerInv
    <2> QED BY <1>3, <2>1, <2>6
  <1>9. CASE Counted
    <2>1. /\ gpc = "count" /\ gpc' = "odometer" /\ odom = <<>> /\ odom' = FirstChoice(li)
          /\ num_word_choices' = num_word_choices
          /\ nprinted' = nprinted /\ printed' = printed /\ li' = li
      BY <1>9 DEF Counted
    <2>2. /\ Linkage(li) /\ PrintedFor(li) = {} /\ nprinted = 0
          /\ num_word_choices = Cardinality(Passed(li, odom)) /\ Passed(li, odom) = ChoicesOf(li)
      BY <1>1, <2>1 DEF OdometerInv, Passed
    <2>3. PrintedFor(li)' = {} /\ Chosen(li)' = {} /\ OncePrinted(li)'
      <3>1. PrintedFor(li)' = {}
        BY <1>0, <2>1, <2>2, NothingPrinted
      <3> QED BY <3>1 DEF Chosen, OncePrinted
    <2>4. odom' \in ChoicesOf(li) /\ Passed(li, odom') = {}
      BY <2>1, <2>2, FirstIsChoice
    <2>5. OdometerInv(li)'
      BY <1>2, <2>1, <2>2, <2>3, <2>4 DEF OdometerInv
    <2> QED BY <1>3, <2>1, <2>5
  <1>10. CASE PrintChoice
    <2>1. /\ gpc = "odometer" /\ gpc' = "odometer" /\ odom # <<>> /\ odom' = sent_odom(li, odom)
          /\ num_word_choices' = num_word_choices
          /\ nprinted' = nprinted + 1 /\ PrintSent(odom) /\ li' = li
      BY <1>10 DEF PrintChoice
    <2>2. /\ Linkage(li) /\ odom \in ChoicesOf(li) /\ nprinted \in Nat
          /\ (Always => Chosen(li) = Passed(li, odom) /\ OncePrinted(li))
          /\ (Several => num_word_choices = Cardinality(ChoicesOf(li)))
      BY <1>1, <2>1 DEF OdometerInv
    <2>3. /\ printed' \in Seq(Prints') /\ \A n \in DOMAIN printed' : printed'[n].linkage <= li'
          /\ PrintedFor(li)' # {}
          /\ Chosen(li)' = Chosen(li) \cup {odom}
          /\ OncePrinted(li) /\ odom \notin Chosen(li) => OncePrinted(li)'
      BY <1>0, <2>1, <2>2, SentencePrinted
    <2>4. /\ odom' \in ChoicesOf(li) \cup {<<>>} /\ odom \notin Passed(li, odom)
          /\ Passed(li, odom') = Passed(li, odom) \cup {odom}
      BY <2>1, <2>2, OdometerTurns
    <2>5. nprinted' \in Nat /\ nprinted' # 0
      BY <2>1, <2>2
    <2>6. Always' => Chosen(li)' = Passed(li, odom') /\ OncePrinted(li)'
      BY <1>1, <2>1, <2>2, <2>3, <2>4
    <2>7. OdometerInv(li)'
      BY <1>1, <1>2, <2>1, <2>2, <2>3, <2>4, <2>5, <2>6 DEF OdometerInv
    <2> QED BY <1>0, <1>1, <2>1, <2>3, <2>7 DEF GenInv
  <1>11. CASE SkipChoice
    <2>1. /\ gpc = "odometer" /\ gpc' = "odometer" /\ odom # <<>> /\ odom' = sent_odom(li, odom)
          /\ num_word_choices' = num_word_choices /\ ~Always
          /\ nprinted' = nprinted /\ printed' = printed /\ li' = li
      BY <1>11 DEF SkipChoice
    <2>2. /\ Linkage(li) /\ odom \in ChoicesOf(li) /\ nprinted \in Nat
          /\ (nprinted = 0 <=> PrintedFor(li) = {})
          /\ (Several => num_word_choices = Cardinality(ChoicesOf(li)))
      BY <1>1, <2>1 DEF OdometerInv
    <2>3. PrintedFor(li)' = PrintedFor(li)
      BY <1>0, <2>1, NothingPrinted
    <2>4. odom' \in ChoicesOf(li) \cup {<<>>}
      BY <2>1, <2>2, OdometerTurns
    <2>5. OdometerInv(li)'
      BY <1>1, <1>2, <2>1, <2>2, <2>3, <2>4 DEF OdometerInv
    <2> QED BY <1>3, <2>1, <2>5
  <1>12. CASE TurnAgain
    <2>1. /\ gpc = "odometer" /\ gpc' = "odometer" /\ odom' = FirstChoice(li)
          /\ num_word_choices' = num_word_choices /\ nprinted = 0
          /\ nprinted' = nprinted /\ printed' = printed /\ li' = li
      BY <1>12 DEF TurnAgain
    <2>2. /\ Linkage(li) /\ PrintedFor(li) = {}
          /\ (Several => num_word_choices = Cardinality(ChoicesOf(li)))
      BY <1>1, <2>1 DEF OdometerInv
    <2>3. PrintedFor(li)' = {} /\ Chosen(li)' = {} /\ OncePrinted(li)'
      <3>1. PrintedFor(li)' = {}
        BY <1>0, <2>1, <2>2, NothingPrinted
      <3> QED BY <3>1 DEF Chosen, OncePrinted
    <2>4. odom' \in ChoicesOf(li) /\ Passed(li, odom') = {}
      BY <2>1, <2>2, FirstIsChoice
    <2>5. OdometerInv(li)'
      BY <1>1, <1>2, <2>1, <2>2, <2>3, <2>4 DEF OdometerInv
    <2> QED BY <1>3, <2>1, <2>5
  <1>13. CASE HasPrinted
    <2>1. /\ gpc = "odometer" /\ gpc' = "printed" /\ odom = <<>> /\ nprinted # 0
          /\ num_word_choices' = num_word_choices
          /\ nprinted' = nprinted /\ printed' = printed /\ li' = li
      BY <1>13 DEF HasPrinted
    <2>2. /\ Linkage(li) /\ PrintedFor(li) # {}
          /\ (Always => Chosen(li) = ChoicesOf(li) /\ OncePrinted(li))
          /\ (Several => num_word_choices = Cardinality(ChoicesOf(li)))
      BY <1>1, <2>1 DEF OdometerInv, Passed
    <2>3. /\ PrintedFor(li)' = PrintedFor(li) /\ Chosen(li)' = Chosen(li)
          /\ OncePrinted(li)' = OncePrinted(li)
      BY <1>0, <2>1, NothingPrinted
    <2>4. OdometerInv(li)'
      BY <1>1, <1>2, <2>1, <2>2, <2>3 DEF OdometerInv
    <2> QED BY <1>3, <2>1, <2>4
  <1>14. CASE NextLinkage
    <2>1. /\ printed' = printed
          /\ \/ gpc' = "done" /\ li' = li
             \/ gpc' = "linkage" /\ li' = li + 1
      BY <1>14 DEF NextLinkage
    <2>2. /\ Prints' = Prints /\ printed \in Seq(Prints)
          /\ \A n \in DOMAIN printed : printed[n].linkage \in Nat /\ printed[n].linkage <= li
      <3>1. \A e \in Prints : e.linkage \in Nat
        BY DEF Prints
      <3>2. \A n \in DOMAIN printed : printed[n] \in Prints
        BY ElementOfSeq DEF GenInv
      <3> QED BY <1>0, <3>1, <3>2, LinkagesStay DEF GenInv
    <2>3. CASE li' = li /\ gpc' = "done"
      <3>1. OdometerInv(li)'
        BY <2>3 DEF OdometerInv
      <3> QED BY <1>3, <2>1, <2>3, <3>1
    <2>4. CASE li' = li + 1 /\ gpc' = "linkage"
      <3>1. \A n \in DOMAIN printed' : printed'[n].linkage <= li' /\ printed'[n].linkage # li'
        BY <1>1, <2>1, <2>2, <2>4
      <3>2. PrintedFor(li)' = {}
        BY <3>1 DEF PrintedFor
      <3>3. OdometerInv(li)'
        BY <2>4, <3>2 DEF OdometerInv
      <3>4. li' \in Nat \ {0}
        BY <1>1, <2>4
      <3> QED BY <1>0, <1>1, <2>1, <2>2, <2>4, <3>1, <3>3, <3>4 DEF GenInv
    <2> QED BY <2>1, <2>3, <2>4
  <1>15. CASE Finish
    <2>1. gpc' = "done" /\ printed' = printed /\ li' = li
      BY <1>15 DEF Finish
    <2>2. OdometerInv(li)'
      BY <2>1 DEF OdometerInv
    <2> QED BY <1>3, <2>1, <2>2
  <1>16. CASE UNCHANGED genVars
    <2>1. /\ gpc' = gpc /\ printed' = printed /\ li' = li /\ odom' = odom
          /\ nprinted' = nprinted /\ num_word_choices' = num_word_choices
      BY <1>16 DEF genVars
    <2>2. /\ PrintedFor(li)' = PrintedFor(li) /\ Chosen(li)' = Chosen(li)
          /\ OncePrinted(li)' = OncePrinted(li)
      BY <1>0, <2>1, NothingPrinted
    <2>3. OdometerInv(li)'
      BY <1>1, <1>2, <2>1, <2>2 DEF OdometerInv
    <2> QED BY <1>3, <2>1, <2>3 DEF GenInv
  <1> QED BY <1>6, <1>7, <1>8, <1>9, <1>10, <1>11, <1>12, <1>13, <1>14, <1>15, <1>16 DEF GenNext

(* For any dictionary and any linkages, the generator prints at least one  *)
(* sentence of each linkage it comes to and only sentences of it, counts   *)
(* the choices right, and prints each of them once when no more exist than *)
(* are wanted.                                                             *)
THEOREM GeneratorCorrect == GenSpec => []GeneratesChoices
  <1>1. GenInit => GenInv
    <2> SUFFICES ASSUME GenInit PROVE GenInv
      OBVIOUS
    <2>1. printed = <<>> /\ gpc = "linkage" /\ li = 1 /\ gen \in Generations
      BY DEF GenInit
    <2>2. <<>> \in Seq(Prints) /\ DOMAIN <<>> = {}
      BY EmptySeq
    <2>3. PrintedFor(li) = {}
      BY <2>1 DEF PrintedFor
    <2> QED BY <2>1, <2>2, <2>3 DEF GenInv, OdometerInv
  <1>2. GenInv => GeneratesChoices
    <2> SUFFICES ASSUME GenInv, gpc = "printed" PROVE GeneratesChoices
      BY DEF GeneratesChoices
    <2>1. /\ Linkage(li) /\ PrintedFor(li) # {}
          /\ (Several => num_word_choices = Cardinality(ChoicesOf(li)))
          /\ (Several /\ Always => Chosen(li) = ChoicesOf(li) /\ OncePrinted(li))
      BY DEF GenInv, OdometerInv
    <2>2. SentencesOf(li) = {SentenceOf(li, o) : o \in ChoicesOf(li)}
      BY <2>1, SentencesAre
    <2>3. ASSUME NEW n \in PrintedFor(li)
          PROVE  printed[n].choice \in ChoicesOf(li) /\ printed[n].sent = SentenceOf(li, printed[n].choice)
      <3>1. printed[n] \in Prints /\ printed[n].linkage = li
        BY ElementOfSeq DEF GenInv, PrintedFor
      <3>2. PICK l \in 1..Len(gen.linkages) :
              printed[n] \in {[linkage |-> l, choice |-> o, sent |-> SentenceOf(l, o)] : o \in ChoicesOf(l)}
        BY <3>1 DEF Prints
      <3>3. PICK o \in ChoicesOf(l) :
              printed[n] = [linkage |-> l, choice |-> o, sent |-> SentenceOf(l, o)]
        BY <3>2
      <3>4. l = li /\ printed[n].choice = o /\ printed[n].sent = SentenceOf(l, o)
        BY <3>1, <3>3
      <3> QED BY <3>3, <3>4
    <2>4. \A n \in PrintedFor(li) : printed[n].sent \in SentencesOf(li)
      BY <2>2, <2>3
    <2>5. Several /\ Always => {printed[n].sent : n \in PrintedFor(li)} = SentencesOf(li)
      <3> SUFFICES ASSUME Several, Always PROVE {printed[n].sent : n \in PrintedFor(li)} = SentencesOf(li)
        OBVIOUS
      <3>1. \A o \in ChoicesOf(li) : \E n \in PrintedFor(li) : printed[n].choice = o
        BY <2>1 DEF Chosen
      <3>2. \A s \in SentencesOf(li) : \E n \in PrintedFor(li) : printed[n].sent = s
        BY <2>2, <2>3, <3>1
      <3> QED BY <2>4, <3>2
    <2> QED BY <2>1, <2>4, <2>5 DEF GeneratesChoices, Chosen, OncePrinted
  <1> QED BY <1>1, <1>2, OdometerStep, PTL DEF GenSpec
=============================================================================
