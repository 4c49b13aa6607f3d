------------------------------- MODULE TradeFeed -------------------------------
(***************************************************************************)
(* The way of a trade to its owner (src/src/tap_session.py,                *)
(* src/src/order_store.py, src/src/proxy.py).  The TD callback thread      *)
(* stores the trade and puts it into the bounded publish queue, for its    *)
(* account and for its strategy; the publisher thread sends what the queue *)
(* holds; get_trades pages through the stored trades; stop drains the      *)
(* queue.  Events get lost: the queue is full, the subscriber is away, the *)
(* process dies.  The client recovers them by paging, as                   *)
(* docs/protocol-v1.md 162-166 tells it to.                                *)
(*                                                                         *)
(* Two of the events of a trade are modelled with the queue to themselves: *)
(* other events only take up room in it.  A statement of the store, a step *)
(* on the queue and a send are one step each.                              *)
(***************************************************************************)
EXTENDS Naturals, Sequences, FiniteSetsExt

CONSTANTS
    Fills,         \* fills the exchange reports, any number of times
    Mine,          \* the fills of the client's own orders
    Unnumbered,    \* fills without MatchNo
    QueueSize,     \* settings.publish_queue_size
    Limit,         \* the client's page size, within 1..1000
    MaxId,         \* bounds: ids drawn,
    MaxRestarts,   \* crashes and stops,
    MaxFaults      \* failing statements, lost sends and late replies

ASSUME FeedAssumption ==
    /\ Mine \subseteq Fills /\ Unnumbered \subseteq Fills
    /\ {QueueSize, Limit} \subseteq Nat \ {0}
    /\ {MaxId, MaxRestarts, MaxFaults} \subseteq Nat

VARIABLES
    rows,    \* tap_trades
    lastId,  \* its BIGSERIAL
    td,      \* TD callback thread in _update_trade
    queue,   \* _publish_queue
    pub,     \* publisher thread
    main,    \* main thread; the proxy is active while it serves
    linked,  \* the client's SUB socket is connected
    client,  \* its request and the reply to it
    base,    \* the cursor it began with
    cursor,  \* the cursor it pages from
    seen,    \* rows it has learnt of
    unsent,  \* rows whose event on the strategy topic was dropped (auxiliary)
    spent    \* disturbances used up

vars == <<rows, lastId, td, queue, pub, main, linked, client, base, cursor,
          seen, unsent, spent>>
table == <<rows, lastId>>
reader == <<linked, client, base, cursor>>

NoOwner == "nobody"
OwnerOf(f) == IF f \in Mine THEN "client" ELSE "another"
Owners == {NoOwner, "client", "another"}

\* A trade under way has no id before it is stored.
Trades == [id: 0..MaxId, fill: Fills, owner: Owners]
Rows == {t \in Trades : t.id # 0}

\* An event: its topic, its trade, and whether the proxy was active when it came.
Events == [topic: {"account", "strategy"}, trade: Rows, early: BOOLEAN]

Idle == [pc |-> "idle"]
NoPage == [rows |-> {}, next |-> 0, more |-> FALSE, linked |-> FALSE]
Pages == [rows: SUBSET Rows, next: 0..MaxId, more: BOOLEAN, linked: BOOLEAN]

TypeOK ==
    /\ rows \subseteq Rows
    /\ lastId \in 0..MaxId
    /\ td \in {Idle} \cup [pc: {"record"}, trade: Trades]
                     \cup [pc: {"account", "strategy"}, trade: Rows]
    /\ queue \in Seq(Events) /\ Len(queue) <= QueueSize
    /\ pub \in [pc: {"get", "exit"}] \cup [pc: {"send"}, event: Events]
    /\ main \in {"serving", "stopping", "closed", "stopped"}
    /\ linked \in BOOLEAN
    /\ client \in [pc: {"new", "idle", "answered"}, page: Pages, synced: BOOLEAN]
    /\ base \in 0..MaxId /\ cursor \in base..MaxId
    /\ seen \subseteq Rows /\ unsent \subseteq Rows
    /\ spent \in [restart: 0..MaxRestarts, fault: 0..MaxFaults]

Active == main = "serving"

Spend(what, max) == /\ spent[what] < max
                    /\ spent' = [spent EXCEPT ![what] = @ + 1]

Ids(S) == {r.id : r \in S}
Owned == {r \in rows : r.owner = "client"}

-------------------------------------------------------------------------------
(* TD callback thread: _update_trade *)

\* The trade's owner is looked up first: the look finds it or not (OrderPath
\* says when), and the rest of the handler goes with it.
OnFill(f) ==
    /\ td = Idle
    /\ main \in {"serving", "stopping"}
    /\ lastId < MaxId
    /\ \E owner \in {OwnerOf(f), NoOwner} :
           td' = [pc |-> "record", trade |-> [id |-> 0, fill |-> f, owner |-> owner]]
    /\ UNCHANGED <<table, queue, pub, main, reader, seen, unsent, spent>>

\* Mutant: what is known of the order is always part of the event id.
OwnedEventId(t) == <<t.fill, t.owner>>

\* _trade_event_id: without a MatchNo what is known of the order is part of it.
\* Of an order without owner the code may know its id or not, which makes two.
EventId(t) == IF t.fill \in Unnumbered THEN <<t.fill, t.owner>> ELSE <<t.fill>>

\* The id is drawn even if the event id is already there.
Drawn == [td.trade EXCEPT !.id = lastId + 1]
Duplicate == \E r \in rows : EventId(r) = EventId(td.trade)

RecordTrade ==
    /\ td.pc = "record"
    /\ lastId' = lastId + 1
    /\ IF Duplicate
       THEN td' = Idle /\ UNCHANGED rows
       ELSE rows' = rows \cup {Drawn} /\ td' = [pc |-> "account", trade |-> Drawn]
    /\ UNCHANGED <<queue, pub, main, reader, seen, unsent, spent>>

\* Mutant: a trade that could not be stored is announced all the same.
RecordRaisesGoesOn ==
    /\ td.pc = "record"
    /\ Spend("fault", MaxFaults)
    /\ lastId' = lastId + 1
    /\ td' = [pc |-> "account", trade |-> Drawn]
    /\ UNCHANGED <<rows, queue, pub, main, reader, seen, unsent>>

\* The statement raises, whatever the server made of it: nothing is announced.
RecordRaises ==
    /\ td.pc = "record"
    /\ Spend("fault", MaxFaults)
    /\ lastId' = lastId + 1
    /\ \/ UNCHANGED <<rows, unsent>>
       \/ ~Duplicate /\ rows' = rows \cup {Drawn} /\ unsent' = unsent \cup {Drawn}
    /\ td' = Idle
    /\ UNCHANGED <<queue, pub, main, reader, seen>>

Misses(topic, trade) == unsent' = unsent \cup {t \in {trade} : topic = "strategy"}

\* Mutant: the event is put whether or not there is room.
EnqueueAnyway(topic) ==
    /\ queue' = Append(queue, [topic |-> topic, trade |-> td.trade, early |-> Active])
    /\ UNCHANGED unsent

\* Mutant: a full queue gives up its oldest event.
EnqueueOverOldest(topic) ==
    /\ queue' = Append(IF Len(queue) < QueueSize THEN queue ELSE Tail(queue),
                       [topic |-> topic, trade |-> td.trade, early |-> Active])
    /\ UNCHANGED unsent

\* enqueue_publish: put_nowait, or the event is gone.
Enqueue(topic) ==
    IF Len(queue) < QueueSize
    THEN /\ queue' = Append(queue, [topic |-> topic, trade |-> td.trade, early |-> Active])
         /\ UNCHANGED unsent
    ELSE /\ Misses(topic, td.trade)
         /\ UNCHANGED queue

\* _publish_scoped: a trade without owner has no second topic.
PublishAccount ==
    /\ td.pc = "account"
    /\ Enqueue("account")
    /\ td' = IF td.trade.owner = NoOwner THEN Idle ELSE [td EXCEPT !.pc = "strategy"]
    /\ UNCHANGED <<table, pub, main, reader, seen, spent>>

PublishStrategy ==
    /\ td.pc = "strategy"
    /\ Enqueue("strategy")
    /\ td' = Idle
    /\ UNCHANGED <<table, pub, main, reader, seen, spent>>

-------------------------------------------------------------------------------
(* Publisher thread *)

\* Mutant: the loop ends with the proxy, whatever is still queued.
ExitAtOnce ==
    /\ pub.pc = "get"
    /\ ~Active
    /\ pub' = [pc |-> "exit"]
    /\ UNCHANGED <<table, td, queue, main, reader, seen, unsent, spent>>

PublisherExit ==
    /\ pub.pc = "get"
    /\ ~Active /\ queue = <<>>
    /\ pub' = [pc |-> "exit"]
    /\ UNCHANGED <<table, td, queue, main, reader, seen, unsent, spent>>

PublisherGet ==
    /\ pub.pc = "get"
    /\ main # "stopped"
    /\ queue # <<>>
    /\ pub' = [pc |-> "send", event |-> Head(queue)]
    /\ queue' = Tail(queue)
    /\ UNCHANGED <<table, td, main, reader, seen, unsent, spent>>

\* A client takes what carries its own client_id on its strategy's topic.
PublisherSend ==
    /\ pub.pc = "send"
    /\ main # "stopped"
    /\ seen' = IF linked /\ pub.event.topic = "strategy" /\ pub.event.trade.owner = "client"
               THEN seen \cup {pub.event.trade} ELSE seen
    /\ pub' = [pc |-> "get"]
    /\ UNCHANGED <<table, td, queue, main, reader, unsent, spent>>

\* The send raises, or the socket drops what a slow subscriber has no room for.
PublisherFails ==
    /\ pub.pc = "send"
    /\ main # "stopped"
    /\ Spend("fault", MaxFaults)
    /\ Misses(pub.event.topic, pub.event.trade)
    /\ pub' = [pc |-> "get"]
    /\ UNCHANGED <<table, td, queue, main, reader, seen>>

-------------------------------------------------------------------------------
(* Command thread: get_trades and get_trade_cursor, one statement each *)

\* Mutant: the page goes on behind the row that only told of more.
PageBehindProbe(after) ==
    LET later == {r \in Owned : r.id > after}
        upto(r) == Cardinality({q \in later : q.id <= r.id})
        page == {r \in later : upto(r) <= Limit}
    IN  [rows |-> page,
         next |-> Max({after} \cup {r.id : r \in {q \in later : upto(q) <= Limit + 1}}),
         more |-> Cardinality(later) > Limit, linked |-> linked]

\* Mutant: the reply to a full page hands the cursor back.
PageStandsStill(after) ==
    LET later == {r \in Owned : r.id > after}
        page == {r \in later : Cardinality({q \in later : q.id <= r.id}) <= Limit}
    IN  [rows |-> page, next |-> after, more |-> Cardinality(later) > Limit, linked |-> linked]

\* list_trades: a row more than the page is read, to tell whether there is one.
Page(after) ==
    LET later == {r \in Owned : r.id > after}
        page == {r \in later : Cardinality({q \in later : q.id <= r.id}) <= Limit}
    IN  [rows |-> page, next |-> Max({after} \cup Ids(page)),
         more |-> Cardinality(later) > Limit, linked |-> linked]

GetTrades ==
    /\ client.pc \in {"new", "idle"}
    /\ Active
    /\ client' = [client EXCEPT !.pc = "answered", !.page = Page(cursor)]
    /\ UNCHANGED <<table, td, queue, pub, main, linked, base, cursor, seen,
                   unsent, spent>>

\* A client without a past begins behind what is stored, or at 0.
GetTradeCursor ==
    /\ client.pc = "new"
    /\ Active
    /\ cursor' = Max({0} \cup Ids(Owned))
    /\ base' = cursor'
    /\ client' = [client EXCEPT !.pc = "idle"]
    /\ UNCHANGED <<table, td, queue, pub, main, linked, seen, unsent, spent>>

-------------------------------------------------------------------------------
(* The client *)

\* Pages follow until there is no more.  From then on a client whose socket was
\* connected when the last page was read relies on events.
TakePage ==
    /\ client.pc = "answered"
    /\ seen' = seen \cup client.page.rows
    /\ cursor' = client.page.next
    /\ client' = [pc |-> "idle", page |-> NoPage,
                  synced |-> client.synced \/ (client.page.linked /\ ~client.page.more)]
    /\ UNCHANGED <<table, td, queue, pub, main, linked, base, unsent, spent>>

\* The reply is late or lost.
Timeout ==
    /\ client.pc = "answered"
    /\ Spend("fault", MaxFaults)
    /\ client' = [client EXCEPT !.pc = "idle", !.page = NoPage]
    /\ UNCHANGED <<table, td, queue, pub, main, linked, base, cursor, seen, unsent>>

SubConnects ==
    /\ ~linked /\ main # "stopped"
    /\ linked' = TRUE
    /\ UNCHANGED <<table, td, queue, pub, main, client, base, cursor, seen,
                   unsent, spent>>

Unlinked == /\ linked' = FALSE
            /\ client' = [client EXCEPT !.synced = FALSE, !.page.linked = FALSE]

SubLost ==
    /\ linked
    /\ Unlinked
    /\ UNCHANGED <<table, td, queue, pub, main, base, cursor, seen, unsent, spent>>

-------------------------------------------------------------------------------
(* Main thread: stop, and the life of the process *)

\* active is cleared; the command thread answers no more.
Stop ==
    /\ Active
    /\ Spend("restart", MaxRestarts)
    /\ main' = "stopping"
    /\ UNCHANGED <<table, td, queue, pub, reader, seen, unsent>>

\* session.close: the native exit waits for the callback, then the store closes.
CloseSession ==
    /\ main = "stopping"
    /\ td = Idle
    /\ main' = "closed"
    /\ UNCHANGED <<table, td, queue, pub, reader, seen, unsent, spent>>

\* The publisher is joined, for two seconds; the sockets go.
JoinPublisher ==
    /\ main = "closed"
    /\ IF pub.pc = "exit" THEN UNCHANGED spent ELSE Spend("fault", MaxFaults)
    /\ main' = "stopped"
    /\ UNCHANGED <<table, td, queue, pub, reader, seen, unsent>>

\* A new process, after a stop or a crash anywhere.
Restart ==
    /\ IF main = "stopped" THEN UNCHANGED spent ELSE Spend("restart", MaxRestarts)
    /\ td' = Idle
    /\ queue' = <<>>
    /\ pub' = [pc |-> "get"]
    /\ main' = "serving"
    /\ Unlinked
    /\ UNCHANGED <<table, base, cursor, seen, unsent>>

-------------------------------------------------------------------------------
Init ==
    /\ rows = {} /\ lastId = 0
    /\ td = Idle
    /\ queue = <<>>
    /\ pub = [pc |-> "get"]
    /\ main = "serving"
    /\ linked = FALSE
    /\ client = [pc |-> "new", page |-> NoPage, synced |-> FALSE]
    /\ base = 0 /\ cursor = 0
    /\ seen = {} /\ unsent = {}
    /\ spent = [restart |-> 0, fault |-> 0]

TdStep == RecordTrade \/ PublishAccount \/ PublishStrategy
PublisherStep == PublisherGet \/ PublisherSend \/ PublisherExit
MainStep == CloseSession \/ JoinPublisher

Next ==
    \/ \E f \in Fills : OnFill(f)
    \/ TdStep \/ RecordRaises
    \/ PublisherStep \/ PublisherFails
    \/ GetTrades \/ GetTradeCursor
    \/ TakePage \/ Timeout \/ SubConnects \/ SubLost
    \/ Stop \/ MainStep \/ Restart

Spec == Init /\ [][Next]_vars

\* The threads run, and the client goes on asking for trades.
FairSpec == /\ Spec
            /\ WF_vars(TdStep) /\ WF_vars(PublisherStep) /\ WF_vars(MainStep)
            /\ WF_vars(GetTrades) /\ WF_vars(TakePage)

-------------------------------------------------------------------------------
(* Properties *)

\* One fill is one row, however often the exchange reports it and whatever dies
\* in between.  Only a fill without MatchNo may have more, of which at most one
\* has its owner: its event id changes with what is known of its order
\* (_trade_event_id).
StoredOnce ==
    \A r, q \in rows : r.fill = q.fill /\ r # q =>
        r.fill \in Unnumbered /\ NoOwner \in {r.owner, q.owner}

\* Paging skips nothing: what lies between the cursor the client began with and
\* the cursor it has reached it knows, though rows are stored while it pages
\* and replies are lost (list_trades).
PagedComplete ==
    \A r \in Owned : base < r.id /\ r.id <= cursor => r \in seen

\* A client that has paged to the end while connected may trust the events: up
\* to the newest trade it knows it misses none, but for the announcements that
\* a full queue or a failing statement or send has cost it.
LiveComplete ==
    client.synced =>
        \A r \in Owned : base < r.id /\ r.id <= Max({0} \cup Ids(seen))
                            => r \in seen \/ r \in unsent

\* stop drains the queue: what was queued while the proxy was active is sent
\* when the sockets close, unless the publisher outlives its join
\* (_publisher_loop, stop).
DrainedAtStop ==
    main = "stopped" /\ pub.pc = "exit" =>
        \A i \in DOMAIN queue : ~queue[i].early

\* Storing before announcing and answering by owner implement TradeLog.
Log == INSTANCE TradeLog
           WITH Trades <- Rows, Own <- {r \in Rows : r.owner = "client"},
                stored <- rows, learnt <- seen

\* Every behaviour of the feed is one of TradeLog.
FeedsLog == Log!Spec

\* A client that goes on asking learns of every trade of its own, whatever
\* became of the events, unless the proxy is stopped for good.
TradesReachOwner ==
    \A i \in 1..MaxId :
        (client.pc # "new" /\ base < i /\ i \in Ids(Owned))
            ~> (main = "stopped" \/ i \in Ids(seen))
===============================================================================
