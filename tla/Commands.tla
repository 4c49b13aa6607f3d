------------------------------- MODULE Commands --------------------------------
(***************************************************************************)
(* The command channel (src/src/proxy.py): the REP loop on the command     *)
(* thread, handle_command, and the clients at the other end: processes     *)
(* that stream one symbol (src/src/market_data_example.py) and a tool that *)
(* sends any request (src/src/command_example.py).  Clients give up        *)
(* waiting, are interrupted or killed; the proxy stops, dies and starts    *)
(* anew, without memory of who owned a symbol.                             *)
(*                                                                         *)
(* Market data is enabled (settings.enable_md); if it is not, the two      *)
(* commands are refused before they touch anything.                        *)
(*                                                                         *)
(* The registry and the session are touched by commands only here, one at  *)
(* a time, so a command is handled in one step; Subscriptions opens it up  *)
(* and adds the callbacks, OrderPath and SnapshotQuery do so for orders    *)
(* and queries.                                                            *)
(***************************************************************************)
EXTENDS Protocol

CONSTANTS
    Procs,       \* streaming processes, all of the same symbol
    Twins,       \* those started with the default identity
    Tool,        \* the other client
    MaxFaulty,   \* bounds: fields the tool gets wrong at once,
    MaxTools,    \* requests of the tool,
    MaxTimeouts, \* clients that give up on a serving proxy,
    MaxRestarts  \* stops and crashes of the proxy

ASSUME CommandsAssumption ==
    /\ Twins \subseteq Procs /\ Tool \notin Procs
    /\ {MaxFaulty, MaxTools, MaxTimeouts, MaxRestarts} \subseteq Nat

VARIABLES
    inbox,   \* requests sent and not yet received
    loop,    \* command thread
    main,    \* main thread; the proxy is active while it serves
    owners,  \* the registry's owners of the symbol
    clients, \* the processes
    gaveUp,  \* processes that ended without a good answer to all they sent (auxiliary)
    cut,     \* processes others made lose the symbol (auxiliary)
    spent    \* disturbances used up

vars == <<inbox, loop, main, owners, clients, gaveUp, cut, spent>>
unseen == <<gaveUp, cut, spent>>

Default == "market-data-example"
IdentityOf(p) == IF p \in Twins THEN Default ELSE p

\* What is no valid action: no JSON at all, no object, no action, another one.
Unusable == {"no_json", "no_object", "no_action", "other_action"}

\* A request; the tool may leave out the request_id.
Request(p, action, faults, tagged) ==
    [from |-> p, action |-> action, faults |-> faults, tagged |-> tagged]

Commanded(p, action) == Request(p, action, {}, TRUE)

\* What the tool wrote is chosen when it is looked at.
Unread == Commanded(Tool, "unread")
ToolRequests ==
    {Commanded(Tool, a) : a \in Actions} \cup
    {Request(Tool, a, {}, t) : a \in Unusable, t \in BOOLEAN}

Readings(r) == IF r = Unread THEN ToolRequests ELSE {r}
FaultsIn(r) == IF r.from = Tool /\ r.action \in Actions
               THEN FaultSets(r.action, MaxFaulty) ELSE {{}}

NoId == <<>>
IdOf(r) == IF r.tagged /\ r.action \notin {"no_json", "no_object"}
           THEN <<r.from, r.action>> ELSE NoId

Ok == Answer("ok", FALSE)
NoReply == [id |-> NoId, code |-> "none", retryable |-> FALSE]
Idle == [pc |-> "poll", request |-> NoReply, reply |-> NoReply]
New == [pc |-> "new", sent |-> NoReply, reply |-> NoReply]

Active == main = "serving"
Spend(what, max) == /\ spent[what] < max
                    /\ spent' = [spent EXCEPT ![what] = @ + 1]

\* The action a client waits for an answer to.
Waiting(p) == clients[p].pc \in {"subscribe_market_data", "unsubscribe_market_data"}
Answered(p) == Waiting(p) /\ clients[p].reply # NoReply

TypeOK ==
    /\ inbox \subseteq {Commanded(p, a) : p \in Procs, a \in Actions} \cup {Unread}
    /\ loop.pc \in {"poll", "validate", "handle", "send"} \/ (loop.pc = "exit" /\ main # "serving")
    /\ main \in {"serving", "stopping", "down"}
    /\ owners \subseteq {IdentityOf(p) : p \in Procs} \cup {Tool}
    /\ \A p \in Procs :
         clients[p].pc \in {"new", "subscribe_market_data", "streaming",
                            "unsubscribe_market_data", "done"}
    /\ gaveUp \subseteq Procs /\ cut \subseteq Procs
    /\ spent \in [tool: 0..MaxTools, timeout: 0..MaxTimeouts, restart: 0..MaxRestarts]

-------------------------------------------------------------------------------
(* Command thread *)

Answering(r, id, raised) ==
    LET answer == IF raised = "none" THEN Ok ELSE Caught(raised)
    IN  [pc |-> "send", request |-> r,
         reply |-> [id |-> id, code |-> answer.code, retryable |-> answer.retryable]]

\* Mutant: what cannot be decoded ends the thread.
ReceiveOrDie(r) ==
    /\ loop.pc = "poll" /\ Active
    /\ inbox' = inbox \ {r}
    /\ \E q \in Readings(r) :
         loop' = IF q.action = "no_json"
                 THEN [Idle EXCEPT !.pc = "exit"]
                 ELSE [loop EXCEPT !.pc = "validate", !.request = q, !.reply.id = IdOf(q)]
    /\ UNCHANGED <<main, owners, clients, unseen>>

\* recv_json.  What it cannot decode is answered too, with the request_id as it
\* was before.
Receive(r) ==
    /\ loop.pc = "poll" /\ Active
    /\ inbox' = inbox \ {r}
    /\ \E q \in Readings(r) :
         loop' = IF q.action = "no_json"
                 THEN Answering(q, loop.reply.id, "OtherError")
                 ELSE [loop EXCEPT !.pc = "validate", !.request = q, !.reply.id = IdOf(q)]
    /\ UNCHANGED <<main, owners, clients, unseen>>

Handling(A) == loop.pc = "handle" /\ loop.request.action \in A

Raised(exc) == loop' = Answering(loop.request, IdOf(loop.request), exc)
Succeeds == Raised("none")

Refusal(r) ==
    CASE r.action \in {"no_object", "no_action"} -> "ProtocolError"
      [] r.action = "other_action" -> "UnsupportedAction"
      [] OTHER -> Validation(r.action, r.faults)

\* parse_action and validate_request
Validate ==
    /\ loop.pc = "validate"
    /\ \E F \in FaultsIn(loop.request) :
         LET r == [loop.request EXCEPT !.faults = F]
         IN  loop' = IF Refusal(r) = "none"
                     THEN [loop EXCEPT !.pc = "handle", !.request = r]
                     ELSE Answering(r, IdOf(r), Refusal(r))
    /\ UNCHANGED <<inbox, main, owners, clients, unseen>>

\* The owner a command names.
Owner == IF loop.request.from = Tool THEN Tool ELSE IdentityOf(loop.request.from)

\* Mutant: the session is asked again, whoever owns the symbol already.
HandleSubscribeAnew ==
    /\ Handling({"subscribe_market_data"})
    /\ \/ owners' = owners \cup {Owner} /\ Succeeds
       \/ owners' = owners \ {Owner} /\ Raised("OtherError")
    /\ UNCHANGED <<inbox, main, clients, unseen>>

\* The session is asked for a symbol without owner; if it raises, the owner is
\* taken out again.
HandleSubscribe ==
    /\ Handling({"subscribe_market_data"})
    /\ \/ owners' = owners \cup {Owner} /\ Succeeds
       \/ owners = {} /\ UNCHANGED owners /\ Raised("OtherError")
    /\ UNCHANGED <<inbox, main, clients, unseen>>

\* Those who stream, or are about to.
Streaming == {p \in Procs : clients[p].pc = "streaming" \/
                            (clients[p].pc = "subscribe_market_data" /\ Answered(p))}

Robbed == {p \in Streaming : IdentityOf(p) = Owner /\ p # loop.request.from}

HandleUnsubscribe ==
    /\ Handling({"unsubscribe_market_data"})
    /\ \/ owners' = owners \ {Owner} /\ cut' = cut \cup Robbed /\ Succeeds
       \/ owners = {Owner} /\ UNCHANGED <<owners, cut>> /\ Raised("OtherError")
    /\ UNCHANGED <<inbox, main, clients, gaveUp, spent>>

\* What the session and the store raise, by action.
SessionRaises ==
    [a \in Actions \ {"subscribe_market_data", "unsubscribe_market_data"} |->
        CASE a \in {"ping", "status"} -> {}
          [] a \in {"get_local_orders", "get_trades", "get_trade_cursor"} -> {"OtherError"}
          [] a \in {"get_account", "get_positions", "get_orders"} ->
               {"TapNotReadyError", "TimeoutError", "RuntimeError", "OtherError"}
          [] a \in {"place_order", "cancel_order"} ->
               {"TapNotReadyError", "RuntimeError", "OtherError"}]

\* _max_age_seconds makes a float of the age, unless the query is forced.
AgeOverflows ==
    {exc \in {"OverflowError"} :
        /\ loop.request.action \in {"get_account", "get_positions", "get_orders"}
        /\ <<"max_age_ms", "huge">> \in loop.request.faults}

\* The other actions leave the registry alone.
HandleOther ==
    /\ Handling(DOMAIN SessionRaises)
    /\ \E exc \in {"none"} \cup SessionRaises[loop.request.action] \cup AgeOverflows : Raised(exc)
    /\ UNCHANGED <<inbox, main, owners, clients, unseen>>

Delivered ==
    LET p == loop.request.from
        awaited == p \in Procs /\ loop.request = clients[p].sent
    IN  clients' = IF awaited THEN [clients EXCEPT ![p].reply = loop.reply] ELSE clients

\* Mutant: request_id outlives the request it came with.
SendReplyKeepsId ==
    /\ loop.pc = "send" /\ main # "down"
    /\ Delivered
    /\ loop' = [Idle EXCEPT !.reply.id = loop.reply.id]
    /\ UNCHANGED <<inbox, main, owners, unseen>>

\* send_json, and the next turn, which begins without a request_id.  The REQ
\* socket of a client that gave up is gone.
SendReply ==
    /\ loop.pc = "send" /\ main # "down"
    /\ Delivered
    /\ loop' = Idle
    /\ UNCHANGED <<inbox, main, owners, unseen>>

\* Mutant: a poll that brings nothing ends the loop.
ExitWhenIdle ==
    /\ loop.pc = "poll" /\ (~Active \/ inbox = {})
    /\ loop' = [loop EXCEPT !.pc = "exit"]
    /\ UNCHANGED <<inbox, main, owners, clients, unseen>>

LoopExit ==
    /\ loop.pc = "poll" /\ ~Active
    /\ loop' = [loop EXCEPT !.pc = "exit"]
    /\ UNCHANGED <<inbox, main, owners, clients, unseen>>

-------------------------------------------------------------------------------
(* Clients; each command has a REQ socket of its own *)

Ask(p, action) ==
    /\ inbox' = inbox \cup {Commanded(p, action)}
    /\ clients' = [clients EXCEPT ![p] = [New EXCEPT !.pc = action, !.sent = Commanded(p, action)]]

AtEnd(p) == clients' = [clients EXCEPT ![p] = [New EXCEPT !.pc = "done"]]

\* run of market_data_example
Start(p) ==
    /\ clients[p].pc = "new"
    /\ Ask(p, "subscribe_market_data")
    /\ UNCHANGED <<loop, main, owners, unseen>>

SubscribeAnswered(p) ==
    /\ clients[p].pc = "subscribe_market_data" /\ Answered(p)
    /\ IF clients[p].reply.code = "ok"
       THEN clients' = [clients EXCEPT ![p] = [New EXCEPT !.pc = "streaming"]]
       ELSE AtEnd(p)
    /\ UNCHANGED <<inbox, loop, main, owners, unseen>>

\* Mutant: only a stream that ends well is unsubscribed.
StreamFails(p) ==
    /\ clients[p].pc = "streaming"
    /\ AtEnd(p)
    /\ UNCHANGED <<inbox, loop, main, owners, unseen>>

\* The count is reached, no data came, a key was pressed or a message was
\* wrong: finally unsubscribes.
StreamEnds(p) ==
    /\ clients[p].pc = "streaming"
    /\ Ask(p, "unsubscribe_market_data")
    /\ UNCHANGED <<loop, main, owners, unseen>>

UnsubscribeAnswered(p) ==
    /\ clients[p].pc = "unsubscribe_market_data" /\ Answered(p)
    /\ gaveUp' = gaveUp \cup {q \in {p} : clients[p].reply.code # "ok"}
    /\ AtEnd(p)
    /\ UNCHANGED <<inbox, loop, main, owners, cut, spent>>

\* The socket is closed; a request that is still in it is gone with it.
Abandon(p) == inbox' = inbox \/ (clients[p].sent \in inbox /\ inbox' = inbox \ {clients[p].sent})

\* No answer in time, or Ctrl+C while waiting: subscribed is still FALSE, or
\* finally is over; nothing more is sent.
GiveUp(p) ==
    /\ Waiting(p)
    /\ gaveUp' = gaveUp \cup {p}
    /\ Abandon(p) /\ AtEnd(p)
    /\ UNCHANGED <<loop, main, owners, cut>>

\* A signal without handler.
Killed(p) ==
    /\ clients[p].pc = "streaming"
    /\ Spend("timeout", MaxTimeouts)
    /\ gaveUp' = gaveUp \cup {p}
    /\ AtEnd(p)
    /\ UNCHANGED <<inbox, loop, main, owners, cut>>

\* No answer will come: the proxy serves no more, or a dead one had the request.
Hopeless(p) == ~Active \/ (clients[p].sent \notin inbox \cup {loop.request} /\ ~Answered(p))

\* Giving up too early is counted.
Timeout(p) ==
    /\ GiveUp(p)
    /\ IF Hopeless(p) THEN UNCHANGED spent ELSE Spend("timeout", MaxTimeouts)

\* command_example, which prints what it gets.
ToolAsks ==
    /\ Spend("tool", MaxTools)
    /\ Unread \notin inbox
    /\ inbox' = inbox \cup {Unread}
    /\ UNCHANGED <<loop, main, owners, clients, gaveUp, cut>>

-------------------------------------------------------------------------------
(* Main thread *)

Stop ==
    /\ Active
    /\ Spend("restart", MaxRestarts)
    /\ main' = "stopping"
    /\ UNCHANGED <<inbox, loop, owners, clients, gaveUp, cut>>

\* The command thread is joined, or is still in a command after two seconds;
\* its socket is closed.
CloseSockets ==
    /\ main = "stopping"
    /\ main' = "down"
    /\ UNCHANGED <<inbox, loop, owners, clients, unseen>>

\* A new process, after a stop or a crash.  Requests the old one had taken in
\* are lost; those still with a client that waits are delivered.
Restart ==
    /\ IF main = "down" THEN UNCHANGED spent ELSE Spend("restart", MaxRestarts)
    /\ main' = "serving"
    /\ loop' = Idle
    /\ owners' = {}
    /\ cut' = cut \cup Streaming
    /\ \E kept \in SUBSET {r \in inbox : r = Unread \/ clients[r.from].sent = r} : inbox' = kept
    /\ UNCHANGED <<clients, gaveUp>>

-------------------------------------------------------------------------------
Init ==
    /\ inbox = {}
    /\ loop = Idle
    /\ main = "serving"
    /\ owners = {}
    /\ clients = [p \in Procs |-> New]
    /\ gaveUp = {} /\ cut = {}
    /\ spent = [tool |-> 0, timeout |-> 0, restart |-> 0]

LoopStep ==
    \/ \E r \in inbox : Receive(r)
    \/ Validate \/ HandleSubscribe \/ HandleUnsubscribe \/ HandleOther
    \/ SendReply \/ LoopExit

ClientStep(p) == SubscribeAnswered(p) \/ UnsubscribeAnswered(p)

Next ==
    \/ LoopStep
    \/ \E p \in Procs : Start(p) \/ ClientStep(p) \/ StreamEnds(p) \/ Timeout(p) \/ Killed(p)
    \/ ToolAsks
    \/ Stop \/ CloseSockets \/ Restart

Spec == Init /\ [][Next]_vars

\* The command thread runs; a client acts on its answer, and waits no longer
\* than its timeout.
FairSpec ==
    /\ Spec
    /\ WF_vars(LoopStep)
    /\ \A p \in Procs : WF_vars(ClientStep(p) \/ (Hopeless(p) /\ Timeout(p)))

-------------------------------------------------------------------------------
(* Properties *)

\* An answer carries the request_id of the very request it answers, whatever
\* failed, and none if that request had none or could not be read
\* (_command_loop 335-351).
AnswerIsOwn == loop.pc = "send" => loop.reply.id = IdOf(loop.request)

\* Faults whose exception validate_request lets pass as it is, and those it
\* does not see.
Unconverted == {<<"symbol", "malformed">>, <<"price", "huge">>} \cup
               {"after_id", "limit", "max_age_ms"} \X {"infinite"}
Unchecked == {"after_id", "limit", "max_age_ms"} \X {"fraction"} \cup
             {"volume", "after_id", "max_age_ms"} \X {"huge"} \cup
             {<<"local_only", "no_boolean">>}

Seen == loop.request.faults \ Unchecked

\* invalid_request (docs/protocol-v1.md 76-83) is told only if validate_request
\* sees a fault of the request, so no failure of TAP, of the store or of a
\* conversion later on is called the client's; and it is told for every request
\* with a fault it sees, in whatever order it looks, if none is one of the
\* Unconverted.  What becomes of the others, FaultyIsRefused says.
InvalidIsTold ==
    loop.pc = "send" /\ loop.request.action \in Actions =>
        /\ loop.reply.code = "invalid_request" => Seen # {}
        /\ Seen # {} /\ Seen \cap Unconverted = {} => loop.reply.code = "invalid_request"

\* A request with a missing, malformed or unacceptable field is answered
\* invalid_request (docs/protocol-v1.md 78).  Does not hold: see the faults
\* above (protocol.py 206, 213, 247, 271; proxy.py 309).
FaultyIsRefused ==
    loop.pc = "send" /\ loop.request.action \in Actions /\ loop.request.faults # {} =>
        loop.reply.code = "invalid_request"

\* Once nobody streams or waits and no request is under way, nobody owns the
\* symbol but on behalf of processes that gave up: an ending leaves nothing
\* behind, in whatever order the commands of the others come in between.
NothingLeftBehind ==
    inbox = {} /\ loop.pc = "poll" /\ (\A p \in Procs : clients[p].pc \in {"new", "done"}) =>
        owners \subseteq {IdentityOf(p) : p \in gaveUp} \cup {Tool}

\* Who streams owns the symbol, unless the proxy was restarted or another
\* process with the same identity has unsubscribed: no failure of a command
\* of others takes it away.
StreamerOwns ==
    \A p \in Procs : clients[p].pc = "streaming" => IdentityOf(p) \in owners \/ p \in cut

\* Whoever waits is answered, or gives up: no request, however wrong, brings
\* the loop to a halt.
EveryoneAnswered ==
    \A p \in Procs : Waiting(p) ~> ~Waiting(p)
===============================================================================
