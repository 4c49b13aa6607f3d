---------------------------- MODULE Commands_proofs ----------------------------
(***************************************************************************)
(* Theorems of Commands for any processes, identities, faults and          *)
(* disturbances: its types, that an answer is that of its request and says *)
(* when the request was invalid, that who streams owns the symbol, and     *)
(* that who has ended leaves nothing behind.                               *)
(***************************************************************************)
EXTENDS Commands, Protocol_proofs, TLAPS

-------------------------------------------------------------------------------
(* The inductive invariant *)

Sub == "subscribe_market_data"
Unsub == "unsubscribe_market_data"
ClientPcs == {"new", Sub, "streaming", Unsub, "done"}
Owners == {IdentityOf(p) : p \in Procs} \cup {Tool}

\* Commands of the processes, and requests as the loop may have them.
ProcRequests == {Commanded(p, a) : p \in Procs, a \in {Sub, Unsub}}
AllFaults == {{}} \cup UNION {FaultSets(a, MaxFaulty) : a \in Actions}
ToolsOwn == [from: {Tool}, action: Actions \cup Unusable, faults: AllFaults, tagged: BOOLEAN]

\* The loop has a request and its answer is still to come.
Busy == loop.pc \in {"validate", "handle", "send"}

ShapeInv ==
    /\ DOMAIN loop = {"pc", "request", "reply"}
    /\ DOMAIN clients = Procs
    /\ \A p \in Procs : DOMAIN clients[p] = {"pc", "sent", "reply"}
    /\ loop.pc = "poll" => loop = Idle
    /\ Busy => loop.request \in ProcRequests \cup ToolsOwn
    /\ inbox \subseteq ProcRequests \cup {Unread}
    /\ owners \subseteq Owners

\* A client waits for its last request.
SentInv ==
    \A p \in Procs :
        clients[p].sent = IF Waiting(p) THEN Commanded(p, clients[p].pc) ELSE NoReply

UnderWay(r) == r \in inbox \/ (Busy /\ loop.request = r)

\* A request under way is one its client waits for, or one it gave up.
UnderWayInv ==
    /\ \A p \in Procs : \A a \in {Sub, Unsub} : UnderWay(Commanded(p, a)) =>
         \/ clients[p].pc = a /\ clients[p].reply = NoReply
         \/ clients[p].pc = "done" /\ p \in gaveUp
    /\ Busy /\ loop.request \in ProcRequests => loop.request \notin inbox

\* An answer to a command of a process goes with what became of the symbol.
AnswerInv ==
    loop.pc = "send" =>
        /\ loop.reply.id = IdOf(loop.request)
        /\ \A p \in Procs :
             /\ loop.request = Commanded(p, Sub) =>
                  IF loop.reply.code = "ok" THEN IdentityOf(p) \in owners ELSE owners = {}
             /\ loop.request = Commanded(p, Unsub) /\ loop.reply.code = "ok" =>
                  IdentityOf(p) \notin owners

\* Who streams, or has been told to, owns the symbol.
Told(p) ==
    \/ clients[p].pc = "streaming"
    \/ clients[p].pc = Sub /\ clients[p].reply.code = "ok"

ToldInv == \A p \in Procs : Told(p) => IdentityOf(p) \in owners \/ p \in cut

\* A process on whose behalf an identity may own the symbol.
Holds(p) ==
    \/ p \in gaveUp \/ Told(p)
    \/ clients[p].pc \in {Sub, Unsub} /\ clients[p].reply = NoReply
    \/ clients[p].pc = Unsub /\ clients[p].reply.code # "ok"

HeldInv ==
    \A o \in owners : o = Tool \/ \E p \in Procs : IdentityOf(p) = o /\ Holds(p)

Inv == TypeOK /\ ShapeInv /\ SentInv /\ UnderWayInv /\ AnswerInv /\ ToldInv /\ HeldInv

-------------------------------------------------------------------------------
(* What the operators of the model return *)

\* The two commands are actions, and the registry's own.
LEMMA CommandActions ==
    /\ {Sub, Unsub} \subseteq Actions
    /\ Sub \notin DOMAIN SessionRaises /\ Unsub \notin DOMAIN SessionRaises
<1>1. {Sub, Unsub} \subseteq Actions
  BY DEF Sub, Unsub, Actions, FieldsOf
<1>2. Sub \notin DOMAIN SessionRaises /\ Unsub \notin DOMAIN SessionRaises
  BY DEF Sub, Unsub, SessionRaises
<1>. QED
  BY <1>1, <1>2

\* The parts of a request of a process.
LEMMA ProcRequestParts ==
    ASSUME NEW r \in ProcRequests
    PROVE  \E p \in Procs : \E a \in {Sub, Unsub} :
               /\ r = Commanded(p, a) /\ r.from = p /\ r.action = a
               /\ r = [from |-> p, action |-> a, faults |-> {}, tagged |-> TRUE]
               /\ r.from # Tool /\ r # Unread /\ r # NoReply
<1>1. PICK p \in Procs, a \in {Sub, Unsub} : r = Commanded(p, a)
  BY DEF ProcRequests
<1>2. /\ r = [from |-> p, action |-> a, faults |-> {}, tagged |-> TRUE]
      /\ r.from # Tool
  BY <1>1, CommandsAssumption DEF Commanded, Request
<1>3. r # Unread
  BY <1>2 DEF Unread, Commanded, Request
<1>4. r # NoReply
  <2>1. DOMAIN r # DOMAIN NoReply
    BY <1>2 DEF NoReply
  <2>. QED
    BY <2>1
<1>5. r.from = p /\ r.action = a
  BY <1>2
<1>. QED
  BY <1>1, <1>2, <1>3, <1>4, <1>5

\* No two commands of the processes are the same.
LEMMA CommandedApart ==
    ASSUME NEW p, NEW q, NEW a, NEW b, Commanded(p, a) = Commanded(q, b)
    PROVE  p = q /\ a = b
BY DEF Commanded, Request

\* The tool's requests are its own.
LEMMA ToolRequestsOwn == ToolRequests \subseteq ToolsOwn
<1>1. {} \in AllFaults
  BY DEF AllFaults
<1>2. ASSUME NEW a \in Actions \cup Unusable, NEW t \in BOOLEAN
      PROVE  Request(Tool, a, {}, t) \in ToolsOwn
  BY <1>1 DEF Request, ToolsOwn
<1>3. \A a \in Actions : Commanded(Tool, a) \in ToolsOwn
  BY <1>2 DEF Commanded
<1>. QED
  BY <1>2, <1>3 DEF ToolRequests

\* No request of the tool is one of a process.
LEMMA ToolsApart ==
    ASSUME NEW r \in ToolsOwn
    PROVE  r.from = Tool /\ r \notin ProcRequests
BY ProcRequestParts DEF ToolsOwn

\* An answer, as far as the processes look at it.
LEMMA AnsweringParts ==
    ASSUME NEW r, NEW id, NEW exc
    PROVE  /\ Answering(r, id, exc).pc = "send"
           /\ Answering(r, id, exc).request = r
           /\ Answering(r, id, exc).reply.id = id
           /\ DOMAIN Answering(r, id, exc) = {"pc", "request", "reply"}
BY DEF Answering

\* A command that raises nothing is answered ok, any other error is not.
LEMMA AnsweringCode ==
    ASSUME NEW r, NEW id
    PROVE  /\ Answering(r, id, "none").reply.code = "ok"
           /\ Answering(r, id, "OtherError").reply.code # "ok"
<1>1. Answering(r, id, "none").reply.code = "ok"
  BY DEF Answering, Ok, Answer
<1>2. Caught("OtherError") = Answer("internal_error", TRUE)
  <2>1. {i \in DOMAIN Clauses : Clauses[i].of \in {"OtherError"} \cup ClassesOf["OtherError"]} = {}
    BY DEF Clauses, ClassesOf
  <2>. QED
    BY <2>1 DEF Caught
<1>3. Answering(r, id, "OtherError").reply.code = "internal_error"
  BY <1>2 DEF Answering, Answer
<1>. QED
  BY <1>1, <1>3

-------------------------------------------------------------------------------
(* Steps of the command thread *)

\* A step of the thread takes requests further and starts none.
LEMMA LoopMoves ==
    ASSUME Inv, UNCHANGED <<clients, gaveUp>>, inbox' \subseteq inbox,
           \A r \in ProcRequests : UnderWay(r)' => UnderWay(r),
           Busy' /\ loop'.request \in ProcRequests => loop'.request \notin inbox'
    PROVE  SentInv' /\ UnderWayInv'
<1>1. SentInv'
  BY DEF Inv, SentInv, Waiting
<1>2. \A p \in Procs : \A a \in {Sub, Unsub} : Commanded(p, a) \in ProcRequests
  BY DEF ProcRequests
<1>3. UnderWayInv'
  BY <1>2 DEF Inv, UnderWayInv
<1>. QED
  BY <1>1, <1>3

\* Nothing is handled yet.
LEMMA ReceiveInv == ASSUME Inv, NEW r \in inbox, Receive(r) PROVE Inv'
<1>1. loop = Idle /\ r \in ProcRequests \cup {Unread} /\ Active
  BY DEF Inv, ShapeInv, Receive
<1>2. PICK q \in Readings(r) :
        loop' = IF q.action = "no_json"
                THEN Answering(q, loop.reply.id, "OtherError")
                ELSE [loop EXCEPT !.pc = "validate", !.request = q, !.reply.id = IdOf(q)]
  BY DEF Receive
<1>3. q \in ProcRequests \cup ToolsOwn /\ (q \in ProcRequests => q = r /\ q.action # "no_json")
  <2>1. CASE r \in ProcRequests
    <3>1. Readings(r) = {r} /\ r.action \in {Sub, Unsub}
      BY <2>1, ProcRequestParts DEF Readings
    <3>. QED
      BY <2>1, <3>1 DEF Sub, Unsub
  <2>2. CASE r = Unread
    <3>1. q \in ToolsOwn
      BY <2>2, ToolRequestsOwn DEF Readings
    <3>. QED
      BY <3>1, ToolsApart
  <2>. QED
    BY <1>1, <2>1, <2>2
<1>4. /\ DOMAIN loop' = {"pc", "request", "reply"}
      /\ loop'.request = q
      /\ \/ loop'.pc = "validate"
         \/ loop'.pc = "send" /\ loop'.reply.id = NoId /\ q.action = "no_json"
  <2>1. CASE q.action = "no_json"
    <3>1. loop' = Answering(q, NoId, "OtherError")
      BY <1>1, <1>2, <2>1 DEF Idle, NoReply
    <3>. QED
      BY <2>1, <3>1, AnsweringParts
  <2>2. CASE q.action # "no_json"
    <3>1. loop' = [Idle EXCEPT !.pc = "validate", !.request = q, !.reply.id = IdOf(q)]
      BY <1>1, <1>2, <2>2
    <3>. QED
      BY <3>1 DEF Idle
  <2>. QED
    BY <2>1, <2>2
<1>5. TypeOK'
  BY <1>4 DEF Inv, TypeOK, Receive, unseen
<1>6. ShapeInv'
  BY <1>3, <1>4 DEF Inv, ShapeInv, Receive, Busy
<1>7. SentInv' /\ UnderWayInv'
  <2>1. \A x \in ProcRequests : UnderWay(x)' => UnderWay(x)
    BY <1>3, <1>4 DEF UnderWay, Busy, Receive
  <2>2. UNCHANGED <<clients, gaveUp>> /\ inbox' = inbox \ {r}
    BY DEF Receive, unseen
  <2>3. loop'.request \in ProcRequests => loop'.request \notin inbox'
    BY <1>3, <1>4, <2>2
  <2>. QED
    BY <2>1, <2>2, <2>3, LoopMoves
<1>8. AnswerInv'
  <2>1. ASSUME loop'.pc = "send" PROVE loop'.reply.id = IdOf(loop'.request)
    BY <1>4, <2>1 DEF IdOf
  <2>2. ASSUME loop'.pc = "send", NEW p \in Procs, NEW a \in {Sub, Unsub}
        PROVE  loop'.request # Commanded(p, a)
    BY <1>3, <1>4, <2>2 DEF ProcRequests
  <2>. QED
    BY <2>1, <2>2 DEF AnswerInv
<1>9. ToldInv' /\ HeldInv'
  BY DEF Inv, ToldInv, HeldInv, Told, Holds, Receive, unseen
<1>. QED
  BY <1>5, <1>6, <1>7, <1>8, <1>9 DEF Inv

\* The commands of a process have no faults.
LEMMA ProcsValid ==
    ASSUME NEW r \in ProcRequests
    PROVE  Refusal(r) = "none" /\ FaultsIn(r) = {{}} /\ [r EXCEPT !.faults = {}] = r
<1>1. PICK p \in Procs, a \in {Sub, Unsub} :
        r = [from |-> p, action |-> a, faults |-> {}, tagged |-> TRUE] /\ r.from # Tool
  BY ProcRequestParts
<1>2. Validation(r.action, r.faults) = "none"
  BY <1>1 DEF Validation
<1>3. Refusal(r) = "none"
  BY <1>1, <1>2 DEF Refusal, Sub, Unsub
<1>4. FaultsIn(r) = {{}}
  BY <1>1 DEF FaultsIn
<1>5. [r EXCEPT !.faults = {}] = r
  <2>1. r \in [from: {p}, action: {a}, faults: {{}}, tagged: {TRUE}]
    BY <1>1
  <2>. QED
    BY <2>1
<1>. QED
  BY <1>3, <1>4, <1>5

\* No command of a process is refused.
LEMMA ValidateInv == ASSUME Inv, Validate PROVE Inv'
<1>1. loop.pc = "validate" /\ loop.request \in ProcRequests \cup ToolsOwn
  BY DEF Inv, ShapeInv, Validate, Busy
<1>2. PICK F \in FaultsIn(loop.request) :
        LET r == [loop.request EXCEPT !.faults = F]
        IN  loop' = IF Refusal(r) = "none"
                    THEN [loop EXCEPT !.pc = "handle", !.request = r]
                    ELSE Answering(r, IdOf(r), Refusal(r))
  BY DEF Validate
<1>. DEFINE r == [loop.request EXCEPT !.faults = F]
<1>3. /\ r \in ProcRequests \cup ToolsOwn
      /\ r \in ProcRequests => r = loop.request /\ Refusal(r) = "none"
  <2>1. CASE loop.request \in ProcRequests
    BY <2>1, ProcsValid
  <2>2. CASE loop.request \in ToolsOwn
    <3>1. F \in AllFaults
      BY <2>2 DEF ToolsOwn, FaultsIn, AllFaults
    <3>2. r \in ToolsOwn
      BY <2>2, <3>1 DEF ToolsOwn
    <3>. QED
      BY <3>2, ToolsApart
  <2>. QED
    BY <1>1, <2>1, <2>2
<1>4. /\ DOMAIN loop' = {"pc", "request", "reply"}
      /\ loop'.request = r
      /\ \/ loop'.pc = "handle"
         \/ loop'.pc = "send" /\ loop'.reply.id = IdOf(r) /\ Refusal(r) # "none"
  <2>1. CASE Refusal(r) = "none"
    <3>1. loop' = [loop EXCEPT !.pc = "handle", !.request = r]
      BY <1>2, <2>1
    <3>. HIDE DEF r
    <3>. QED
      BY <3>1 DEF Inv, ShapeInv
  <2>2. CASE Refusal(r) # "none"
    <3>1. loop' = Answering(r, IdOf(r), Refusal(r))
      BY <1>2, <2>2
    <3>. HIDE DEF r
    <3>. QED
      BY <2>2, <3>1, AnsweringParts
  <2>. QED
    BY <2>1, <2>2
<1>. HIDE DEF r
<1>5. TypeOK'
  BY <1>4 DEF Inv, TypeOK, Validate, unseen
<1>6. ShapeInv'
  BY <1>3, <1>4 DEF Inv, ShapeInv, Validate, Busy
<1>7. SentInv' /\ UnderWayInv'
  <2>1. \A x \in ProcRequests : UnderWay(x)' => UnderWay(x)
    BY <1>1, <1>3, <1>4 DEF UnderWay, Busy, Validate
  <2>2. UNCHANGED <<clients, gaveUp>> /\ inbox' = inbox
    BY DEF Validate, unseen
  <2>3. loop'.request \in ProcRequests => loop'.request \notin inbox'
    BY <1>1, <1>3, <1>4, <2>2 DEF Inv, UnderWayInv, Busy
  <2>. QED
    BY <2>1, <2>2, <2>3, LoopMoves
<1>8. AnswerInv'
  <2>1. loop'.pc = "send" => r \notin ProcRequests
    BY <1>3, <1>4
  <2>2. ASSUME loop'.pc = "send", NEW p \in Procs, NEW a \in {Sub, Unsub}
        PROVE  loop'.request # Commanded(p, a)
    BY <1>4, <2>1, <2>2 DEF ProcRequests
  <2>. QED
    BY <1>4, <2>2 DEF AnswerInv
<1>9. ToldInv' /\ HeldInv'
  BY DEF Inv, ToldInv, HeldInv, Told, Holds, Validate, unseen
<1>. QED
  BY <1>5, <1>6, <1>7, <1>8, <1>9 DEF Inv

\* The owner of a command is one the registry may have.
LEMMA OwnerIs ==
    ASSUME Inv, Busy
    PROVE  /\ Owner \in Owners
           /\ \A p \in Procs : \A a \in {Sub, Unsub} :
                loop.request = Commanded(p, a) => Owner = IdentityOf(p) /\ loop.request.from = p
<1>1. loop.request \in ProcRequests \cup ToolsOwn
  BY DEF Inv, ShapeInv
<1>2. \A r \in ProcRequests : r.from \in Procs /\ r.from # Tool
  BY ProcRequestParts
<1>3. \A r \in ToolsOwn : r.from = Tool
  BY ToolsApart
<1>4. Owner \in Owners
  BY <1>1, <1>2, <1>3 DEF Owner, Owners
<1>5. \A p \in Procs : \A a \in {Sub, Unsub} : Commanded(p, a).from = p /\ p # Tool
  BY CommandsAssumption DEF Commanded, Request
<1>6. \A p \in Procs : \A a \in {Sub, Unsub} :
        loop.request = Commanded(p, a) => Owner = IdentityOf(p) /\ loop.request.from = p
  BY <1>5 DEF Owner
<1>. QED
  BY <1>4, <1>6

\* What every handler leaves to SendReply: the request stays where it was.
LEMMA HandledInv ==
    ASSUME Inv, loop.pc = "handle", NEW exc, Raised(exc),
           UNCHANGED <<inbox, main, clients, gaveUp, spent>>,
           owners' \subseteq Owners, cut' \subseteq Procs
    PROVE  /\ TypeOK' /\ ShapeInv' /\ SentInv' /\ UnderWayInv'
           /\ loop'.pc = "send" /\ loop'.request = loop.request
           /\ loop'.reply.id = IdOf(loop'.request)
<1>1. /\ loop'.pc = "send" /\ loop'.request = loop.request
      /\ loop'.reply.id = IdOf(loop'.request)
      /\ DOMAIN loop' = {"pc", "request", "reply"}
  BY AnsweringParts DEF Raised
<1>2. TypeOK'
  BY <1>1 DEF Inv, TypeOK, Owners
<1>3. ShapeInv'
  BY <1>1 DEF Inv, ShapeInv, Busy
<1>4. \A r \in ProcRequests : UnderWay(r)' => UnderWay(r)
  BY <1>1 DEF UnderWay, Busy
<1>5. Busy' /\ loop'.request \in ProcRequests => loop'.request \notin inbox'
  BY <1>1 DEF Inv, UnderWayInv, Busy
<1>6. SentInv' /\ UnderWayInv'
  BY <1>4, <1>5, LoopMoves
<1>. QED
  BY <1>1, <1>2, <1>3, <1>6

\* A process whose command is under way is not one that has been told.
LEMMA NotTold ==
    ASSUME Inv, NEW p \in Procs, NEW a \in {Sub, Unsub}, UnderWay(Commanded(p, a))
    PROVE  ~Told(p) /\ Holds(p)
<1>1. \/ clients[p].pc = a /\ clients[p].reply = NoReply
      \/ clients[p].pc = "done" /\ p \in gaveUp
  BY DEF Inv, UnderWayInv
<1>2. NoReply.code # "ok"
  BY DEF NoReply
<1>. QED
  BY <1>1, <1>2 DEF Told, Holds, Sub, Unsub

\* A success makes an owner, for a process that holds; a failure finds none.
LEMMA HandleSubscribeInv == ASSUME Inv, HandleSubscribe PROVE Inv'
<1>1. loop.pc = "handle" /\ Busy /\ loop.request.action = Sub
  BY DEF HandleSubscribe, Handling, Busy, Sub
<1>2. UNCHANGED <<inbox, main, clients, gaveUp, cut, spent>>
  BY DEF HandleSubscribe, unseen
<1>3. \/ owners' = owners \cup {Owner} /\ Raised("none")
      \/ owners = {} /\ owners' = owners /\ Raised("OtherError")
  BY DEF HandleSubscribe, Succeeds
<1>4. owners' \subseteq Owners /\ cut' \subseteq Procs
  BY <1>1, <1>2, <1>3, OwnerIs DEF Inv, ShapeInv, TypeOK
<1>5. /\ TypeOK' /\ ShapeInv' /\ SentInv' /\ UnderWayInv'
      /\ loop'.pc = "send" /\ loop'.request = loop.request
      /\ loop'.reply.id = IdOf(loop'.request)
  <2>1. CASE Raised("none")
    BY <1>1, <1>2, <1>4, <2>1, HandledInv
  <2>2. CASE Raised("OtherError")
    BY <1>1, <1>2, <1>4, <2>2, HandledInv
  <2>. QED
    BY <1>3, <2>1, <2>2
<1>6. \/ owners' = owners \cup {Owner} /\ loop'.reply.code = "ok"
      \/ owners = {} /\ owners' = {} /\ loop'.reply.code # "ok"
  BY <1>3, AnsweringCode DEF Raised
<1>7. AnswerInv'
  <2>1. ASSUME NEW p \in Procs, loop.request = Commanded(p, Sub)
        PROVE  IF loop'.reply.code = "ok" THEN IdentityOf(p) \in owners' ELSE owners' = {}
    BY <1>1, <1>6, <2>1, OwnerIs
  <2>2. ASSUME NEW p \in Procs PROVE loop.request # Commanded(p, Unsub)
    BY <1>1 DEF Commanded, Request, Sub, Unsub
  <2>. QED
    BY <1>5, <2>1, <2>2 DEF AnswerInv
<1>8. ToldInv'
  BY <1>2, <1>6 DEF Inv, ToldInv, Told
<1>9. HeldInv'
  <2>1. \A p \in Procs : Holds(p)' <=> Holds(p)
    BY <1>2 DEF Holds, Told
  <2>2. Owner = Tool \/ \E p \in Procs : IdentityOf(p) = Owner /\ Holds(p)
    <3>1. CASE loop.request \in ProcRequests
      <4>1. PICK p \in Procs, a \in {Sub, Unsub} : loop.request = Commanded(p, a)
        BY <3>1 DEF ProcRequests
      <4>2. IdentityOf(p) = Owner
        BY <1>1, <4>1, OwnerIs
      <4>3. Holds(p)
        BY <1>1, <4>1, NotTold DEF UnderWay
      <4>. QED
        BY <4>2, <4>3
    <3>2. CASE loop.request \in ToolsOwn
      BY <3>2, ToolsApart DEF Owner
    <3>. QED
      BY <1>1, <3>1, <3>2 DEF Inv, ShapeInv
  <2>. QED
    BY <1>6, <2>1, <2>2 DEF Inv, HeldInv
<1>. QED
  BY <1>5, <1>7, <1>8, <1>9 DEF Inv

\* A success takes the identity out; whoever else streams under it is cut.
LEMMA HandleUnsubscribeInv == ASSUME Inv, HandleUnsubscribe PROVE Inv'
<1>1. loop.pc = "handle" /\ Busy /\ loop.request.action = Unsub
  BY DEF HandleUnsubscribe, Handling, Busy, Unsub
<1>2. UNCHANGED <<inbox, main, clients, gaveUp, spent>>
  BY DEF HandleUnsubscribe
<1>3. \/ owners' = owners \ {Owner} /\ cut' = cut \cup Robbed /\ Raised("none")
      \/ owners' = owners /\ cut' = cut /\ Raised("OtherError")
  BY DEF HandleUnsubscribe, Succeeds
<1>4. owners' \subseteq Owners /\ cut' \subseteq Procs
  BY <1>3 DEF Inv, ShapeInv, TypeOK, Robbed, Streaming
<1>5. /\ TypeOK' /\ ShapeInv' /\ SentInv' /\ UnderWayInv'
      /\ loop'.pc = "send" /\ loop'.request = loop.request
      /\ loop'.reply.id = IdOf(loop'.request)
  <2>1. CASE Raised("none")
    BY <1>1, <1>2, <1>4, <2>1, HandledInv
  <2>2. CASE Raised("OtherError")
    BY <1>1, <1>2, <1>4, <2>2, HandledInv
  <2>. QED
    BY <1>3, <2>1, <2>2
<1>6. \/ owners' = owners \ {Owner} /\ cut' = cut \cup Robbed /\ loop'.reply.code = "ok"
      \/ owners' = owners /\ cut' = cut /\ loop'.reply.code # "ok"
  BY <1>3, AnsweringCode DEF Raised
<1>7. AnswerInv'
  <2>1. ASSUME NEW p \in Procs, loop.request = Commanded(p, Unsub), loop'.reply.code = "ok"
        PROVE  IdentityOf(p) \notin owners'
    BY <1>1, <1>6, <2>1, OwnerIs
  <2>2. ASSUME NEW p \in Procs PROVE loop.request # Commanded(p, Sub)
    BY <1>1 DEF Commanded, Request, Sub, Unsub
  <2>. QED
    BY <1>5, <2>1, <2>2 DEF AnswerInv
<1>8. ToldInv'
  <2>. SUFFICES ASSUME NEW p \in Procs, Told(p), IdentityOf(p) = Owner, cut' = cut \cup Robbed
                PROVE  p \in cut'
    BY <1>2, <1>6 DEF Inv, ToldInv, Told
  <2>1. p \in Streaming
    BY DEF Told, Streaming, Answered, Waiting, NoReply, Sub
  <2>2. p # loop.request.from
    <3>1. CASE loop.request \in ProcRequests
      <4>1. PICK q \in Procs, a \in {Sub, Unsub} : loop.request = Commanded(q, a)
        BY <3>1 DEF ProcRequests
      <4>2. ~Told(q) /\ loop.request.from = q
        BY <1>1, <4>1, NotTold, OwnerIs DEF UnderWay
      <4>. QED
        BY <4>2
    <3>2. CASE loop.request \in ToolsOwn
      BY <3>2, ToolsApart, CommandsAssumption
    <3>. QED
      BY <1>1, <3>1, <3>2 DEF Inv, ShapeInv
  <2>. QED
    BY <2>1, <2>2 DEF Robbed
<1>9. HeldInv'
  <2>1. \A p \in Procs : Holds(p)' <=> Holds(p)
    BY <1>2 DEF Holds, Told
  <2>. QED
    BY <1>6, <2>1 DEF Inv, HeldInv
<1>. QED
  BY <1>5, <1>7, <1>8, <1>9 DEF Inv

\* The other actions are not those of the processes.
LEMMA HandleOtherInv == ASSUME Inv, HandleOther PROVE Inv'
<1>1. loop.pc = "handle" /\ Busy /\ loop.request.action \notin {Sub, Unsub}
  BY CommandActions DEF HandleOther, Handling, Busy
<1>2. UNCHANGED <<inbox, main, owners, clients, gaveUp, cut, spent>>
  BY DEF HandleOther, unseen
<1>3. PICK exc : Raised(exc)
  BY DEF HandleOther
<1>4. owners' \subseteq Owners /\ cut' \subseteq Procs
  BY <1>2 DEF Inv, ShapeInv, TypeOK
<1>5. /\ TypeOK' /\ ShapeInv' /\ SentInv' /\ UnderWayInv'
      /\ loop'.pc = "send" /\ loop'.request = loop.request
      /\ loop'.reply.id = IdOf(loop'.request)
  BY <1>1, <1>2, <1>3, <1>4, HandledInv
<1>6. \A p \in Procs : \A a \in {Sub, Unsub} : loop.request # Commanded(p, a)
  BY <1>1 DEF Commanded, Request
<1>7. AnswerInv'
  BY <1>5, <1>6 DEF AnswerInv
<1>8. ToldInv' /\ HeldInv'
  BY <1>2 DEF Inv, ToldInv, HeldInv, Told, Holds
<1>. QED
  BY <1>5, <1>7, <1>8 DEF Inv

\* The reply reaches its client, if that still waits for it; the request is over.
LEMMA SendReplyInv == ASSUME Inv, SendReply PROVE Inv'
<1>. DEFINE p == loop.request.from
            awaited == p \in Procs /\ loop.request = clients[p].sent
<1>1. /\ loop.pc = "send" /\ Busy /\ loop' = Idle
      /\ clients' = IF awaited THEN [clients EXCEPT ![p].reply = loop.reply] ELSE clients
      /\ UNCHANGED <<inbox, main, owners, gaveUp, cut, spent>>
  BY DEF SendReply, Delivered, unseen, Busy
<1>2. /\ DOMAIN clients' = Procs
      /\ \A q \in Procs : /\ DOMAIN clients'[q] = {"pc", "sent", "reply"}
                          /\ clients'[q].pc = clients[q].pc /\ clients'[q].sent = clients[q].sent
      /\ \A q \in Procs : clients'[q].reply = clients[q].reply \/
                          (awaited /\ q = p /\ clients'[q].reply = loop.reply)
  BY <1>1 DEF Inv, ShapeInv
<1>3. awaited => clients[p].pc \in {Sub, Unsub} /\ loop.request = Commanded(p, clients[p].pc)
  <2>1. SUFFICES ASSUME awaited PROVE loop.request # NoReply
    BY DEF Inv, SentInv, Waiting, Sub, Unsub
  <2>2. CASE loop.request \in ProcRequests
    BY <2>2, ProcRequestParts
  <2>3. CASE loop.request \in ToolsOwn
    BY <2>1, <2>3, ToolsApart, CommandsAssumption
  <2>. QED
    BY <1>1, <2>2, <2>3 DEF Inv, ShapeInv
<1>. HIDE DEF awaited, p
<1>4. TypeOK'
  BY <1>1, <1>2 DEF Inv, TypeOK, Idle
<1>5. ShapeInv'
  BY <1>1, <1>2 DEF Inv, ShapeInv, Busy, Idle
<1>6. SentInv'
  BY <1>2 DEF Inv, SentInv, Waiting
<1>7. UnderWayInv'
  <2>1. ~Busy'
    BY <1>1 DEF Busy, Idle
  <2>2. ASSUME NEW q \in Procs, NEW a \in {Sub, Unsub}, Commanded(q, a) \in inbox
        PROVE  ~(awaited /\ q = p /\ clients[q].pc = a)
    BY <1>1, <1>3, <2>2 DEF Inv, UnderWayInv, ProcRequests
  <2>3. ASSUME NEW q \in Procs, NEW a \in {Sub, Unsub}, Commanded(q, a) \in inbox
        PROVE  \/ clients'[q].pc = a /\ clients'[q].reply = NoReply
               \/ clients'[q].pc = "done" /\ q \in gaveUp'
    BY <1>1, <1>2, <2>2, <2>3 DEF Inv, UnderWayInv, UnderWay
  <2>. QED
    BY <1>1, <2>1, <2>3 DEF UnderWayInv, UnderWay
<1>8. AnswerInv'
  BY <1>1 DEF AnswerInv, Idle
<1>9. ToldInv'
  <2>. SUFFICES ASSUME NEW q \in Procs, Told(q)', ~Told(q) PROVE IdentityOf(q) \in owners
    BY <1>1 DEF Inv, ToldInv
  <2>1. awaited /\ q = p /\ clients[q].pc = Sub /\ loop.reply.code = "ok"
    BY <1>2 DEF Told
  <2>. QED
    BY <1>1, <1>3, <2>1 DEF Inv, AnswerInv
<1>10. HeldInv'
  <2>. SUFFICES ASSUME NEW o \in owners, o # Tool
                PROVE  \E q \in Procs : IdentityOf(q) = o /\ Holds(q)'
    BY <1>1 DEF HeldInv
  <2>1. PICK q \in Procs : IdentityOf(q) = o /\ Holds(q)
    BY DEF Inv, HeldInv
  <2>2. CASE awaited /\ q = p
    <3>1. CASE clients[q].pc = Sub
      <4>1. loop.request = Commanded(q, Sub) /\ owners # {}
        BY <1>3, <2>2, <3>1
      <4>2. loop.reply.code = "ok"
        BY <1>1, <4>1 DEF Inv, AnswerInv
      <4>. QED
        BY <1>1, <1>2, <2>1, <2>2, <3>1, <4>2 DEF Holds, Told
    <3>2. CASE clients[q].pc = Unsub
      <4>1. loop.request = Commanded(q, Unsub)
        BY <1>3, <2>2, <3>2
      <4>2. loop.reply.code # "ok"
        BY <1>1, <2>1, <4>1 DEF Inv, AnswerInv
      <4>. QED
        BY <1>1, <1>2, <2>1, <2>2, <3>2, <4>2 DEF Holds, Told
    <3>. QED
      BY <1>3, <2>2, <3>1, <3>2
  <2>3. CASE ~(awaited /\ q = p)
    BY <1>1, <1>2, <2>1, <2>3 DEF Holds, Told
  <2>. QED
    BY <2>2, <2>3
<1>. QED
  BY <1>4, <1>5, <1>6, <1>7, <1>8, <1>9, <1>10 DEF Inv

\* The thread ends with the proxy.
LEMMA LoopExitInv == ASSUME Inv, LoopExit PROVE Inv'
<1>1. /\ loop' = [loop EXCEPT !.pc = "exit"] /\ loop = Idle /\ main # "serving"
      /\ UNCHANGED <<inbox, main, owners, clients, gaveUp, cut, spent>>
  BY DEF Inv, ShapeInv, LoopExit, Active, unseen
<1>2. DOMAIN loop' = {"pc", "request", "reply"} /\ loop'.pc = "exit"
  BY <1>1 DEF Idle
<1>3. TypeOK' /\ ShapeInv'
  BY <1>1, <1>2 DEF Inv, TypeOK, ShapeInv, Busy
<1>4. SentInv' /\ UnderWayInv'
  BY <1>1, <1>2, LoopMoves DEF UnderWay, Busy
<1>5. AnswerInv' /\ ToldInv' /\ HeldInv'
  BY <1>1, <1>2 DEF Inv, AnswerInv, ToldInv, HeldInv, Told, Holds
<1>. QED
  BY <1>3, <1>4, <1>5 DEF Inv

-------------------------------------------------------------------------------
(* Steps of the clients *)

\* A client's record, set as a whole.
LEMMA ClientSet ==
    ASSUME ShapeInv, NEW p \in Procs, NEW a, NEW s,
           clients' = [clients EXCEPT ![p] = [New EXCEPT !.pc = a, !.sent = s]]
    PROVE  /\ DOMAIN clients' = Procs
           /\ \A q \in Procs : DOMAIN clients'[q] = {"pc", "sent", "reply"}
           /\ clients'[p].pc = a /\ clients'[p].sent = s /\ clients'[p].reply = NoReply
           /\ \A q \in Procs \ {p} : clients'[q] = clients[q]
BY DEF ShapeInv, New

\* A client that waits for a new answer.
LEMMA AskInv ==
    ASSUME Inv, NEW p \in Procs, NEW a \in {Sub, Unsub}, Ask(p, a),
           clients[p].pc = (IF a = Sub THEN "new" ELSE "streaming"),
           UNCHANGED <<loop, main, owners, gaveUp, cut, spent>>
    PROVE  Inv'
<1>1. inbox' = inbox \cup {Commanded(p, a)}
      /\ clients' = [clients EXCEPT ![p] = [New EXCEPT !.pc = a, !.sent = Commanded(p, a)]]
  BY DEF Ask
<1>2. /\ DOMAIN clients' = Procs
      /\ \A q \in Procs : DOMAIN clients'[q] = {"pc", "sent", "reply"}
      /\ clients'[p].pc = a /\ clients'[p].sent = Commanded(p, a) /\ clients'[p].reply = NoReply
      /\ \A q \in Procs \ {p} : clients'[q] = clients[q]
  BY <1>1, ClientSet DEF Inv
<1>3. TypeOK'
  <2>1. inbox' \subseteq {Commanded(q, b) : q \in Procs, b \in Actions} \cup {Unread}
    BY <1>1, CommandActions DEF Inv, TypeOK
  <2>2. \A q \in Procs : clients'[q].pc \in ClientPcs
    BY <1>2 DEF Inv, TypeOK, ClientPcs, Sub, Unsub
  <2>. QED
    BY <2>1, <2>2 DEF Inv, TypeOK, ClientPcs, Sub, Unsub
<1>4. ShapeInv'
  BY <1>1, <1>2 DEF Inv, ShapeInv, Busy, ProcRequests
<1>5. SentInv'
  BY <1>2 DEF Inv, SentInv, Waiting, Sub, Unsub
<1>6. \A b \in {Sub, Unsub} : ~UnderWay(Commanded(p, b))
  BY DEF Inv, UnderWayInv, Sub, Unsub
<1>7. UnderWayInv'
  <2>1. ASSUME NEW q \in Procs, NEW b \in {Sub, Unsub}, UnderWay(Commanded(q, b))'
        PROVE  \/ clients'[q].pc = b /\ clients'[q].reply = NoReply
               \/ clients'[q].pc = "done" /\ q \in gaveUp'
    <3>1. CASE Commanded(q, b) = Commanded(p, a)
      BY <1>2, <3>1, CommandedApart
    <3>2. CASE Commanded(q, b) # Commanded(p, a)
      <4>1. UnderWay(Commanded(q, b))
        BY <1>1, <2>1, <3>2 DEF UnderWay, Busy
      <4>. QED
        BY <1>2, <1>6, <4>1 DEF Inv, UnderWayInv
    <3>. QED
      BY <3>1, <3>2
  <2>2. Busy' /\ loop'.request \in ProcRequests => loop'.request \notin inbox'
    BY <1>1, <1>6 DEF Inv, UnderWayInv, UnderWay, Busy
  <2>. QED
    BY <2>1, <2>2 DEF UnderWayInv
<1>8. AnswerInv'
  BY DEF Inv, AnswerInv
<1>9. ToldInv' /\ HeldInv'
  <2>1. ~Told(p)' /\ Holds(p)'
    BY <1>2 DEF Told, Holds, Sub, Unsub, NoReply
  <2>2. \A q \in Procs \ {p} : (Told(q)' <=> Told(q)) /\ (Holds(q)' <=> Holds(q))
    BY <1>2 DEF Told, Holds
  <2>. QED
    BY <2>1, <2>2 DEF Inv, ToldInv, HeldInv
<1>. QED
  BY <1>3, <1>4, <1>5, <1>7, <1>8, <1>9 DEF Inv

\* A client that ends, and what it leaves behind is accounted for.
LEMMA AtEndInv ==
    ASSUME Inv, NEW p \in Procs, AtEnd(p), inbox' \subseteq inbox,
           gaveUp' = gaveUp \/ gaveUp' = gaveUp \cup {p},
           p \in gaveUp' \/ (~Holds(p) /\ \A a \in {Sub, Unsub} : ~UnderWay(Commanded(p, a))),
           spent' \in [tool: 0..MaxTools, timeout: 0..MaxTimeouts, restart: 0..MaxRestarts],
           UNCHANGED <<loop, main, owners, cut>>
    PROVE  Inv'
<1>1. clients' = [clients EXCEPT ![p] = [New EXCEPT !.pc = "done"]]
  BY DEF AtEnd
<1>2. /\ DOMAIN clients' = Procs
      /\ \A q \in Procs : DOMAIN clients'[q] = {"pc", "sent", "reply"}
      /\ clients'[p].pc = "done" /\ clients'[p].sent = NoReply /\ clients'[p].reply = NoReply
      /\ \A q \in Procs \ {p} : clients'[q] = clients[q]
  BY <1>1 DEF Inv, ShapeInv, New
<1>3. TypeOK'
  BY <1>2 DEF Inv, TypeOK
<1>4. ShapeInv'
  BY <1>2 DEF Inv, ShapeInv, Busy
<1>5. SentInv'
  BY <1>2 DEF Inv, SentInv, Waiting
<1>6. UnderWayInv'
  <2>1. ASSUME NEW q \in Procs, NEW b \in {Sub, Unsub}, UnderWay(Commanded(q, b))'
        PROVE  \/ clients'[q].pc = b /\ clients'[q].reply = NoReply
               \/ clients'[q].pc = "done" /\ q \in gaveUp'
    <3>1. UnderWay(Commanded(q, b))
      BY <2>1 DEF UnderWay, Busy
    <3>. QED
      BY <1>2, <3>1 DEF Inv, UnderWayInv
  <2>2. Busy' /\ loop'.request \in ProcRequests => loop'.request \notin inbox'
    BY DEF Inv, UnderWayInv, Busy
  <2>. QED
    BY <2>1, <2>2 DEF UnderWayInv
<1>7. AnswerInv'
  BY DEF Inv, AnswerInv
<1>8. ToldInv' /\ HeldInv'
  <2>1. ~Told(p)' /\ (Holds(p) => Holds(p)')
    BY <1>2 DEF Told, Holds, Sub, Unsub
  <2>2. \A q \in Procs \ {p} : (Told(q)' <=> Told(q)) /\ (Holds(q) => Holds(q)')
    BY <1>2 DEF Told, Holds
  <2>. QED
    BY <2>1, <2>2 DEF Inv, ToldInv, HeldInv
<1>. QED
  BY <1>3, <1>4, <1>5, <1>6, <1>7, <1>8 DEF Inv

\* A process without a command under way: it has an answer, or waits for none.
LEMMA NoneUnderWay ==
    ASSUME Inv, NEW p \in Procs, Answered(p) \/ clients[p].pc \in {"new", "streaming"}
    PROVE  \A a \in {Sub, Unsub} : ~UnderWay(Commanded(p, a))
BY DEF Inv, UnderWayInv, Answered, Waiting, Sub, Unsub

\* Disturbances stay within their bounds.
LEMMA SpendType ==
    ASSUME TypeOK, NEW what \in {"tool", "timeout", "restart"}, NEW max, Spend(what, max),
           max = IF what = "tool" THEN MaxTools
                 ELSE IF what = "timeout" THEN MaxTimeouts ELSE MaxRestarts
    PROVE  spent' \in [tool: 0..MaxTools, timeout: 0..MaxTimeouts, restart: 0..MaxRestarts]
BY CommandsAssumption DEF TypeOK, Spend

\* A subscription that was granted streams; one that was not held nothing.
LEMMA SubscribeAnsweredInv ==
    ASSUME Inv, NEW p \in Procs, SubscribeAnswered(p)
    PROVE  Inv'
<1>1. /\ clients[p].pc = Sub /\ Answered(p)
      /\ UNCHANGED <<inbox, loop, main, owners, gaveUp, cut, spent>>
  BY DEF SubscribeAnswered, unseen, Sub
<1>2. CASE clients[p].reply.code # "ok"
  <2>1. AtEnd(p)
    BY <1>2 DEF SubscribeAnswered
  <2>2. clients[p].reply # NoReply
    BY <1>1 DEF Answered
  <2>3. CASE p \in gaveUp
    BY <1>1, <2>1, <2>3, AtEndInv DEF Inv, TypeOK
  <2>4. CASE p \notin gaveUp
    <3>1. ~Holds(p)
      BY <1>1, <1>2, <2>2, <2>4 DEF Holds, Told, Sub, Unsub
    <3>2. \A a \in {Sub, Unsub} : ~UnderWay(Commanded(p, a))
      BY <1>1, NoneUnderWay
    <3>3. inbox' \subseteq inbox /\ gaveUp' = gaveUp /\
          spent' \in [tool: 0..MaxTools, timeout: 0..MaxTimeouts, restart: 0..MaxRestarts]
      BY <1>1 DEF Inv, TypeOK
    <3>. QED
      BY <1>1, <2>1, <3>1, <3>2, <3>3, AtEndInv
  <2>. QED
    BY <2>3, <2>4
<1>3. CASE clients[p].reply.code = "ok"
  <2>1. clients' = [clients EXCEPT ![p] = [New EXCEPT !.pc = "streaming"]]
    BY <1>3 DEF SubscribeAnswered
  <2>2. /\ DOMAIN clients' = Procs
        /\ \A q \in Procs : DOMAIN clients'[q] = {"pc", "sent", "reply"}
        /\ clients'[p].pc = "streaming" /\ clients'[p].sent = NoReply
        /\ \A q \in Procs \ {p} : clients'[q] = clients[q]
    BY <2>1 DEF Inv, ShapeInv, New
  <2>3. TypeOK' /\ ShapeInv'
    BY <1>1, <2>2 DEF Inv, TypeOK, ShapeInv, Busy
  <2>4. SentInv'
    BY <2>2 DEF Inv, SentInv, Waiting
  <2>5. UnderWayInv'
    <3>1. \A r : UnderWay(r)' <=> UnderWay(r)
      BY <1>1 DEF UnderWay, Busy
    <3>2. \A a \in {Sub, Unsub} : ~UnderWay(Commanded(p, a))
      BY <1>1, NoneUnderWay
    <3>. QED
      BY <1>1, <2>2, <3>1, <3>2 DEF Inv, UnderWayInv, Busy
  <2>6. AnswerInv'
    BY <1>1 DEF Inv, AnswerInv
  <2>7. ToldInv' /\ HeldInv'
    <3>1. Told(p) /\ Told(p)' /\ Holds(p)'
      BY <1>1, <1>3, <2>2 DEF Told, Holds
    <3>2. \A q \in Procs \ {p} : (Told(q)' <=> Told(q)) /\ (Holds(q)' <=> Holds(q))
      BY <1>1, <2>2 DEF Told, Holds
    <3>. QED
      BY <1>1, <3>1, <3>2 DEF Inv, ToldInv, HeldInv
  <2>. QED
    BY <2>3, <2>4, <2>5, <2>6, <2>7 DEF Inv
<1>. QED
  BY <1>2, <1>3

\* An unsubscription that was granted has let go; any other one gave up.
LEMMA UnsubscribeAnsweredInv ==
    ASSUME Inv, NEW p \in Procs, UnsubscribeAnswered(p)
    PROVE  Inv'
<1>1. /\ clients[p].pc = Unsub /\ Answered(p) /\ AtEnd(p)
      /\ gaveUp' = gaveUp \cup {q \in {p} : clients[p].reply.code # "ok"}
      /\ UNCHANGED <<inbox, loop, main, owners, cut, spent>>
  BY DEF UnsubscribeAnswered, Unsub
<1>2. gaveUp' = gaveUp \/ gaveUp' = gaveUp \cup {p}
  BY <1>1
<1>3. clients[p].reply # NoReply
  BY <1>1 DEF Answered
<1>4. p \in gaveUp' \/ ~Holds(p)
  BY <1>1, <1>3 DEF Holds, Told, Sub, Unsub
<1>5. \A a \in {Sub, Unsub} : ~UnderWay(Commanded(p, a))
  BY <1>1, NoneUnderWay
<1>6. inbox' \subseteq inbox /\
      spent' \in [tool: 0..MaxTools, timeout: 0..MaxTimeouts, restart: 0..MaxRestarts]
  BY <1>1 DEF Inv, TypeOK
<1>. QED
  BY <1>1, <1>2, <1>4, <1>5, <1>6, AtEndInv

\* Who gives up takes back at most its request.
LEMMA TimeoutInv == ASSUME Inv, NEW p \in Procs, Timeout(p) PROVE Inv'
<1>1. /\ gaveUp' = gaveUp \cup {p} /\ inbox' \subseteq inbox /\ AtEnd(p)
      /\ UNCHANGED <<loop, main, owners, cut>>
  BY DEF Timeout, GiveUp, Abandon
<1>2. spent' \in [tool: 0..MaxTools, timeout: 0..MaxTimeouts, restart: 0..MaxRestarts]
  BY SpendType DEF Inv, TypeOK, Timeout
<1>. QED
  BY <1>1, <1>2, AtEndInv

\* A process is killed.
LEMMA KilledInv == ASSUME Inv, NEW p \in Procs, Killed(p) PROVE Inv'
<1>1. /\ gaveUp' = gaveUp \cup {p} /\ inbox' \subseteq inbox /\ AtEnd(p)
      /\ UNCHANGED <<loop, main, owners, cut>>
  BY DEF Killed
<1>2. spent' \in [tool: 0..MaxTools, timeout: 0..MaxTimeouts, restart: 0..MaxRestarts]
  BY SpendType DEF Inv, Killed
<1>. QED
  BY <1>1, <1>2, AtEndInv

\* What the tool asks is no command of a process.
LEMMA ToolAsksInv == ASSUME Inv, ToolAsks PROVE Inv'
<1>1. inbox' = inbox \cup {Unread} /\ UNCHANGED <<loop, main, owners, clients, gaveUp, cut>>
  BY DEF ToolAsks
<1>2. spent' \in [tool: 0..MaxTools, timeout: 0..MaxTimeouts, restart: 0..MaxRestarts]
  BY SpendType DEF Inv, ToolAsks
<1>3. TypeOK' /\ ShapeInv'
  BY <1>1, <1>2 DEF Inv, TypeOK, ShapeInv, Busy
<1>4. Unread \notin ProcRequests
  BY ProcRequestParts
<1>5. \A p \in Procs : \A a \in {Sub, Unsub} : UnderWay(Commanded(p, a))' => UnderWay(Commanded(p, a))
  BY <1>1, <1>4 DEF UnderWay, Busy, ProcRequests
<1>6. SentInv' /\ UnderWayInv'
  BY <1>1, <1>4, <1>5 DEF Inv, SentInv, UnderWayInv, Waiting, Busy
<1>7. AnswerInv' /\ ToldInv' /\ HeldInv'
  BY <1>1 DEF Inv, AnswerInv, ToldInv, HeldInv, Told, Holds
<1>. QED
  BY <1>3, <1>6, <1>7 DEF Inv

-------------------------------------------------------------------------------
(* Steps of the main thread *)

\* Whatever the main thread serves, it leaves the rest alone.
LEMMA MainInv ==
    ASSUME Inv, UNCHANGED <<inbox, loop, owners, clients, gaveUp, cut>>, TypeOK'
    PROVE  Inv'
<1>1. ShapeInv' /\ SentInv' /\ AnswerInv'
  BY DEF Inv, ShapeInv, SentInv, AnswerInv, Waiting, Busy
<1>2. UnderWayInv'
  BY DEF Inv, UnderWayInv, UnderWay, Busy
<1>3. ToldInv' /\ HeldInv'
  BY DEF Inv, ToldInv, HeldInv, Told, Holds
<1>. QED
  BY <1>1, <1>2, <1>3 DEF Inv

\* The proxy is told to stop.
LEMMA StopInv == ASSUME Inv, Stop PROVE Inv'
<1>1. spent' \in [tool: 0..MaxTools, timeout: 0..MaxTimeouts, restart: 0..MaxRestarts]
  BY SpendType DEF Inv, Stop
<1>2. TypeOK'
  BY <1>1 DEF Inv, TypeOK, Stop
<1>. QED
  BY <1>2, MainInv DEF Stop

\* The sockets are closed.
LEMMA CloseSocketsInv == ASSUME Inv, CloseSockets PROVE Inv'
<1>1. TypeOK'
  BY DEF Inv, TypeOK, CloseSockets, unseen
<1>. QED
  BY <1>1, MainInv DEF CloseSockets, unseen

\* Nobody owns the symbol any more; those who were told to are cut.
LEMMA RestartInv == ASSUME Inv, Restart PROVE Inv'
<1>1. /\ main' = "serving" /\ loop' = Idle /\ owners' = {} /\ cut' = cut \cup Streaming
      /\ inbox' \subseteq inbox /\ UNCHANGED <<clients, gaveUp>>
  BY DEF Restart
<1>2. spent' \in [tool: 0..MaxTools, timeout: 0..MaxTimeouts, restart: 0..MaxRestarts]
  BY SpendType DEF Inv, TypeOK, Restart
<1>3. TypeOK'
  BY <1>1, <1>2 DEF Inv, TypeOK, Idle, Streaming
<1>4. ShapeInv' /\ ~Busy'
  BY <1>1 DEF Inv, ShapeInv, Busy, Idle
<1>5. SentInv' /\ UnderWayInv'
  BY <1>1, <1>4, LoopMoves DEF UnderWay
<1>6. AnswerInv' /\ HeldInv'
  BY <1>1 DEF AnswerInv, HeldInv, Idle
<1>7. \A p \in Procs : Told(p) => p \in Streaming
  BY DEF Told, Streaming, Answered, Waiting, NoReply, Sub
<1>8. ToldInv'
  BY <1>1, <1>7 DEF Inv, ToldInv, Told
<1>. QED
  BY <1>3, <1>4, <1>5, <1>6, <1>8 DEF Inv

-------------------------------------------------------------------------------
(* The theorems *)

\* Before anyone has asked for anything.
LEMMA InvInit == Init => Inv
<1>. SUFFICES ASSUME Init PROVE Inv
  OBVIOUS
<1>1. TypeOK
  BY CommandsAssumption DEF Init, TypeOK, Idle, New
<1>2. ShapeInv /\ SentInv
  BY DEF Init, ShapeInv, SentInv, Waiting, Busy, Idle, New
<1>3. UnderWayInv /\ AnswerInv
  BY DEF Init, UnderWayInv, UnderWay, AnswerInv, Busy, Idle
<1>4. ToldInv /\ HeldInv
  BY DEF Init, ToldInv, HeldInv, Told, New, Sub
<1>. QED
  BY <1>1, <1>2, <1>3, <1>4 DEF Inv

\* Every step keeps the invariant.
LEMMA InvStep == Inv /\ [Next]_vars => Inv'
<1>. SUFFICES ASSUME Inv, [Next]_vars PROVE Inv'
  OBVIOUS
<1>1. CASE LoopStep
  BY <1>1, ReceiveInv, ValidateInv, HandleSubscribeInv, HandleUnsubscribeInv,
     HandleOtherInv, SendReplyInv, LoopExitInv DEF LoopStep
<1>2. ASSUME NEW p \in Procs, Start(p) \/ StreamEnds(p) PROVE Inv'
  <2>1. CASE Start(p)
    BY <2>1, AskInv DEF Start, unseen, Sub
  <2>2. CASE StreamEnds(p)
    <3>1. Sub # Unsub
      BY DEF Sub, Unsub
    <3>. QED
      BY <2>2, <3>1, AskInv DEF StreamEnds, unseen, Unsub
  <2>. QED
    BY <1>2, <2>1, <2>2
<1>3. ASSUME NEW p \in Procs, ClientStep(p) \/ Timeout(p) \/ Killed(p) PROVE Inv'
  BY <1>3, SubscribeAnsweredInv, UnsubscribeAnsweredInv, TimeoutInv, KilledInv DEF ClientStep
<1>4. CASE ToolAsks \/ Stop \/ CloseSockets \/ Restart
  BY <1>4, ToolAsksInv, StopInv, CloseSocketsInv, RestartInv
<1>5. CASE UNCHANGED vars
  <2>1. UNCHANGED <<inbox, loop, owners, clients, gaveUp, cut>> /\ TypeOK'
    BY <1>5 DEF vars, Inv, TypeOK
  <2>. QED
    BY <2>1, MainInv
<1>. QED
  BY <1>1, <1>2, <1>3, <1>4, <1>5 DEF Next

\* So it holds in every reachable state.
LEMMA InvAlways == Spec => []Inv
BY InvInit, InvStep, PTL DEF Spec

\* Every reachable state of the command channel is well typed.
THEOREM ChannelTypeCorrect == Spec => []TypeOK
<1>1. Inv => TypeOK
  BY DEF Inv
<1>. QED
  BY <1>1, InvAlways, PTL

\* Whatever is asked and whatever fails, an answer carries the request_id of
\* the request it answers (_command_loop, handle_command).
THEOREM AnswersAreOwn == Spec => []AnswerIsOwn
<1>1. Inv => AnswerIsOwn
  BY DEF Inv, AnswerInv, AnswerIsOwn
<1>. QED
  BY <1>1, InvAlways, PTL

\* However commands, failures, ends and restarts interleave, a process that
\* streams owns the symbol unless it is cut (subscribe_market_data,
\* unsubscribe_market_data and their rollbacks).
THEOREM StreamersOwn == Spec => []StreamerOwns
<1>1. Inv => StreamerOwns
  BY DEF Inv, ToldInv, Told, StreamerOwns
<1>. QED
  BY <1>1, InvAlways, PTL

\* When all have ended and nothing is under way, only processes that gave up
\* and the tool still own the symbol (run of market_data_example).
THEOREM EndingsLeaveNothing == Spec => []NothingLeftBehind
<1>1. Inv => NothingLeftBehind
  <2>. SUFFICES ASSUME Inv, \A p \in Procs : clients[p].pc \in {"new", "done"}, NEW o \in owners
                PROVE  o \in {IdentityOf(p) : p \in gaveUp} \cup {Tool}
    BY DEF NothingLeftBehind
  <2>1. \A p \in Procs : Holds(p) => p \in gaveUp
    BY DEF Holds, Told, Sub, Unsub
  <2>. QED
    BY <2>1 DEF Inv, HeldInv
<1>. QED
  BY <1>1, InvAlways, PTL

-------------------------------------------------------------------------------
(* What requests are told *)

\* A request that is handled has no fault validate_request sees.
OutcomeInv ==
    /\ loop.pc = "handle" /\ loop.request.action \in Actions => Seen = {}
    /\ InvalidIsTold

\* What handle_command answers.
LEMMA AnsweringOutcome ==
    ASSUME NEW r, NEW id, NEW exc \in Exceptions \cup {"none"}, loop' = Answering(r, id, exc)
    PROVE  /\ loop'.pc = "send" /\ loop'.request = r
           /\ loop'.reply.code = "invalid_request" <=> exc = "ProtocolError"
<1>. DEFINE answer == IF exc = "none" THEN Ok ELSE Caught(exc)
            code   == answer.code
            retry  == answer.retryable
<1>1. loop' = [pc |-> "send", request |-> r,
               reply |-> [id |-> id, code |-> code, retryable |-> retry]]
  BY DEF Answering
<1>2. code = "invalid_request" <=> exc = "ProtocolError"
  BY CaughtIs DEF Ok, Answer
<1>. HIDE DEF code, retry
<1>3. loop'.pc = "send" /\ loop'.request = r /\ loop'.reply.code = code
  BY <1>1
<1>. QED
  BY <1>2, <1>3

\* The faults looked at are faults of the fields of the action.
LEMMA FaultSetsPairs ==
    ASSUME NEW a \in Actions, NEW n, NEW faults \in FaultSets(a, n)
    PROVE  \A x \in faults : \E f \in FieldsOf[a] : \E w \in FaultsOf[f] : x = <<f, w>>
<1>. DEFINE pairs == UNION {{f} \X FaultsOf[f] : f \in FieldsOf[a]}
            twos  == {{z[1], z[2]} : z \in {y \in pairs \X pairs : y[1][1] # y[2][1]}}
<1>1. \A x \in pairs : \E f \in FieldsOf[a] : \E w \in FaultsOf[f] : x = <<f, w>>
  OBVIOUS
<1>2. FaultSets(a, n) = {{}} \cup {{x} : x \in pairs} \cup (IF n = 2 THEN twos ELSE {})
  BY DEF FaultSets
<1>. HIDE DEF pairs
<1>3. \A T \in twos : T \subseteq pairs
  OBVIOUS
<1>. HIDE DEF twos
<1>4. faults \subseteq pairs
  BY <1>2, <1>3
<1>. QED
  BY <1>1, <1>4

\* What escapes or passes is what InvalidIsTold excepts.
LEMMA ExceptionsAre ==
    /\ \A f, w : Passes(f, w) <=> <<f, w>> \in Unchecked
    /\ \A f, w : Escapes(f, w) => <<f, w>> \in Unconverted /\ <<f, w>> \notin Unchecked
BY DEF Passes, Escapes, Unconverted, Unchecked

\* Validation.
LEMMA ValidateOutcome == ASSUME Inv, Validate PROVE OutcomeInv'
<1>1. loop.pc = "validate" /\ loop.request \in ProcRequests \cup ToolsOwn
      /\ DOMAIN loop = {"pc", "request", "reply"}
  BY DEF Inv, ShapeInv, Validate, Busy
<1>2. PICK F \in FaultsIn(loop.request) :
        LET r == [loop.request EXCEPT !.faults = F]
        IN  loop' = IF Refusal(r) = "none"
                    THEN [loop EXCEPT !.pc = "handle", !.request = r]
                    ELSE Answering(r, IdOf(r), Refusal(r))
  BY DEF Validate
<1>. DEFINE r == [loop.request EXCEPT !.faults = F]
<1>3. /\ loop.request.action = r.action /\ r.faults = F
      /\ r.action \in Actions \cup Unusable
  <2>1. CASE loop.request \in ProcRequests
    <3>1. PICK p \in Procs, a \in {Sub, Unsub} :
             loop.request = [from |-> p, action |-> a, faults |-> {}, tagged |-> TRUE]
      BY <2>1, ProcRequestParts
    <3>. QED
      BY <3>1, CommandActions
  <2>2. CASE loop.request \in ToolsOwn
    BY <2>2 DEF ToolsOwn
  <2>. QED
    BY <1>1, <2>1, <2>2
<1>4. CASE r.action \in Actions
  <2>1. \A x \in F : \E f \in FieldsOf[r.action] : \E w \in FaultsOf[f] : x = <<f, w>>
    BY <1>3, <1>4, FaultSetsPairs DEF FaultsIn
  <2>2. r.action \notin Unusable
    BY <1>4 DEF Actions, FieldsOf, Unusable
  <2>3. Refusal(r) = Validation(r.action, F)
    BY <1>3, <2>2 DEF Refusal, Unusable
  <2>4. /\ Refusal(r) \in {"none", "ProtocolError", "ValueError", "OverflowError"}
        /\ Refusal(r) = "none" <=> F \ Unchecked = {}
        /\ (F \ Unchecked) \cap Unconverted = {} => Refusal(r) \in {"none", "ProtocolError"}
    <3>1. F \ Unchecked = {} <=> \A f, w : <<f, w>> \in F => Passes(f, w)
      BY <2>1, ExceptionsAre
    <3>2. (F \ Unchecked) \cap Unconverted = {} => \A f, w : <<f, w>> \in F => ~Escapes(f, w)
      BY ExceptionsAre
    <3>. QED
      BY <1>4, <2>1, <2>3, <3>1, <3>2, ValidationIs
  <2>5. CASE Refusal(r) = "none"
    <3>1. loop' = [loop EXCEPT !.pc = "handle", !.request = r]
      BY <1>2, <2>5
    <3>2. loop'.pc = "handle" /\ loop'.request.faults = F
      <4>. HIDE DEF r
      <4>. QED
        BY <1>1, <1>3, <3>1
    <3>. QED
      BY <2>4, <2>5, <3>2 DEF OutcomeInv, InvalidIsTold, Seen
  <2>6. CASE Refusal(r) # "none"
    <3>1. loop' = Answering(r, IdOf(r), Refusal(r))
      BY <1>2, <2>6
    <3>2. Refusal(r) \in Exceptions
      BY <2>4, <2>6 DEF Exceptions, ClassesOf
    <3>. HIDE DEF r
    <3>3. /\ loop'.pc = "send" /\ loop'.request = r
          /\ loop'.reply.code = "invalid_request" <=> Refusal(r) = "ProtocolError"
      BY <3>1, <3>2, AnsweringOutcome
    <3>. QED
      BY <1>3, <2>4, <2>6, <3>3 DEF OutcomeInv, InvalidIsTold, Seen
  <2>. QED
    BY <2>5, <2>6
<1>5. CASE r.action \notin Actions
  <2>1. Refusal(r) \in Exceptions \cup {"none"}
    <3>1. CASE r.action \in {"no_object", "no_action", "other_action"}
      BY <3>1 DEF Refusal, Exceptions, ClassesOf
    <3>2. CASE r.action = "no_json"
      <4>1. Refusal(r) = Validation("no_json", r.faults)
        BY <3>2 DEF Refusal
      <4>2. Checks("no_json") = <<>>
        BY DEF Checks
      <4>. QED
        BY <4>1, <4>2 DEF Validation
    <3>. QED
      BY <1>3, <1>5, <3>1, <3>2 DEF Unusable
  <2>2. CASE Refusal(r) = "none"
    <3>1. loop' = [loop EXCEPT !.pc = "handle", !.request = r]
      BY <1>2, <2>2
    <3>. HIDE DEF r
    <3>2. loop'.pc = "handle" /\ loop'.request = r
      BY <1>1, <3>1
    <3>. QED
      BY <1>5, <3>2 DEF OutcomeInv, InvalidIsTold
  <2>3. CASE Refusal(r) # "none"
    <3>1. loop' = Answering(r, IdOf(r), Refusal(r))
      BY <1>2, <2>3
    <3>. HIDE DEF r
    <3>2. loop'.pc = "send" /\ loop'.request = r
      BY <2>1, <3>1, AnsweringOutcome
    <3>. QED
      BY <1>5, <3>2 DEF OutcomeInv, InvalidIsTold
  <2>. QED
    BY <2>2, <2>3
<1>. QED
  BY <1>4, <1>5

\* A request that is handled is not told to be invalid.
LEMMA HandledOutcome ==
    ASSUME OutcomeInv, loop.pc = "handle",
           NEW exc \in (Exceptions \cup {"none"}) \ {"ProtocolError"}, Raised(exc)
    PROVE  OutcomeInv'
<1>1. loop' = Answering(loop.request, IdOf(loop.request), exc)
  BY DEF Raised
<1>2. /\ loop'.pc = "send" /\ loop'.request = loop.request
      /\ loop'.reply.code # "invalid_request"
  BY <1>1, AnsweringOutcome
<1>. QED
  BY <1>2 DEF OutcomeInv, InvalidIsTold, Seen

\* The command itself is carried out, or raises.
LEMMA HandleOutcome ==
    ASSUME OutcomeInv, HandleSubscribe \/ HandleUnsubscribe \/ HandleOther
    PROVE  OutcomeInv'
<1>1. loop.pc = "handle"
  BY DEF HandleSubscribe, HandleUnsubscribe, HandleOther, Handling
<1>2. \E exc \in (Exceptions \cup {"none"}) \ {"ProtocolError"} : Raised(exc)
  <2>1. CASE HandleSubscribe \/ HandleUnsubscribe
    <3>1. Raised("none") \/ Raised("OtherError")
      BY <2>1 DEF HandleSubscribe, HandleUnsubscribe, Succeeds
    <3>2. {"none", "OtherError"} \subseteq (Exceptions \cup {"none"}) \ {"ProtocolError"}
      BY DEF Exceptions, ClassesOf
    <3>. QED
      BY <3>1, <3>2
  <2>2. CASE HandleOther
    <3>1. PICK exc \in {"none"} \cup SessionRaises[loop.request.action] \cup AgeOverflows :
             Raised(exc)
      BY <2>2 DEF HandleOther
    <3>2. loop.request.action \in DOMAIN SessionRaises
      BY <2>2 DEF HandleOther, Handling
    <3>3. SessionRaises[loop.request.action] \subseteq
             {"TapNotReadyError", "TimeoutError", "RuntimeError", "OtherError"}
      BY <3>2 DEF SessionRaises, Actions, FieldsOf
    <3>4. exc \in (Exceptions \cup {"none"}) \ {"ProtocolError"}
      BY <3>1, <3>3 DEF Exceptions, ClassesOf, AgeOverflows
    <3>. QED
      BY <3>1, <3>4
  <2>. QED
    BY <2>1, <2>2
<1>. QED
  BY <1>1, <1>2, HandledOutcome

\* A request is read; one that is no JSON is answered at once.
LEMMA ReceiveOutcome == ASSUME Inv, NEW r \in inbox, Receive(r) PROVE OutcomeInv'
<1>1. PICK q \in Readings(r) :
         loop' = IF q.action = "no_json"
                 THEN Answering(q, loop.reply.id, "OtherError")
                 ELSE [loop EXCEPT !.pc = "validate", !.request = q, !.reply.id = IdOf(q)]
  BY DEF Receive
<1>2. CASE q.action = "no_json"
  <2>1. loop' = Answering(q, loop.reply.id, "OtherError")
    BY <1>1, <1>2
  <2>2. "OtherError" \in Exceptions
    BY DEF Exceptions, ClassesOf
  <2>3. loop'.pc = "send" /\ loop'.request = q
    BY <2>1, <2>2, AnsweringOutcome
  <2>4. q.action \notin Actions
    BY <1>2 DEF Actions, FieldsOf
  <2>. QED
    BY <2>3, <2>4 DEF OutcomeInv, InvalidIsTold
<1>3. CASE q.action # "no_json"
  <2>1. loop'.pc = "validate"
    BY <1>1, <1>3 DEF Inv, ShapeInv
  <2>. QED
    BY <2>1 DEF OutcomeInv, InvalidIsTold
<1>. QED
  BY <1>2, <1>3

\* Every step keeps OutcomeInv.
LEMMA OutcomeStep == Inv /\ OutcomeInv /\ [Next]_vars => OutcomeInv'
<1>. SUFFICES ASSUME Inv, OutcomeInv, [Next]_vars PROVE OutcomeInv'
  OBVIOUS
<1>1. CASE LoopStep
  <2>1. CASE SendReply \/ LoopExit
    <3>1. loop'.pc \in {"poll", "exit"}
      BY <2>1 DEF SendReply, LoopExit, Idle, Inv, ShapeInv
    <3>. QED
      BY <3>1 DEF OutcomeInv, InvalidIsTold
  <2>. QED
    BY <1>1, <2>1, ReceiveOutcome, ValidateOutcome, HandleOutcome DEF LoopStep
<1>2. CASE Restart
  <2>1. loop'.pc = "poll"
    BY <1>2 DEF Restart, Idle
  <2>. QED
    BY <2>1 DEF OutcomeInv, InvalidIsTold
<1>3. CASE UNCHANGED loop
  BY <1>3 DEF OutcomeInv, InvalidIsTold, Seen
<1>4. LoopStep \/ Restart \/ UNCHANGED loop
  BY DEF Next, Start, ClientStep, SubscribeAnswered, UnsubscribeAnswered, StreamEnds, Timeout,
         GiveUp, Killed, ToolAsks, Stop, CloseSockets, vars
<1>. QED
  BY <1>1, <1>2, <1>3, <1>4

\* So it holds in every reachable state.
LEMMA OutcomeAlways == Spec => []OutcomeInv
<1>1. Init => OutcomeInv
  BY DEF Init, OutcomeInv, InvalidIsTold, Idle
<1>. QED
  BY <1>1, InvAlways, OutcomeStep, PTL DEF Spec

\* For any processes, and any of the faults of FaultsOf in the tool's requests:
\* who is told invalid_request has sent a fault validate_request sees, and every
\* request with such a fault is told so unless one of its faults is among the
\* Unconverted (validate_request, handle_command).
THEOREM InvalidRequestsTold == Spec => []InvalidIsTold
<1>1. OutcomeInv => InvalidIsTold
  BY DEF OutcomeInv
<1>. QED
  BY <1>1, OutcomeAlways, PTL
===============================================================================
