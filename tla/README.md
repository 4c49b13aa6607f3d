# A TLA+ model of tap-proxy

tap-proxy connects trading strategies to the TAP exchange API. Strategies send
commands over a ZeroMQ REP socket and receive events over a PUB socket; the
proxy talks to TAP through the two native objects of vnpy-tap (MD for market
data, TD for trading) and keeps orders and trades in PostgreSQL. This directory
holds TLA+ modules for the parts of it where interleavings, lost links, crashes
and retries matter, the TLC runs that check them, and TLAPS proofs.

Source paths are relative to the repository; `tap_session.py` is
`src/tap_session.py`, and so on. `PROJECT.json` maps every definition that
models code to the lines it models.

## 1. Inventory

| part | state | operations | interacts with |
|---|---|---|---|
| order store (`order_store.py`) | tables `tap_orders`, `tap_trades` | reserve, get, find_by_native, find_by_order_no, set_native, update_tap, mark_failed, list, record_trade, list_trades, latest_trade_cursor; one transaction each | called by the command thread and the TD callback thread |
| order path (`tap_session.py` 914-1139, 1273-1461) | four identity maps, `_pending_cancels` | place_order, cancel_order (command thread); on_order, on_order_response, on_fill (TD thread); _restore_order_mappings (start) | store, TD API, publisher |
| session link (`tap_session.py` 545-740, 1463-1542, 1711-1751, `main.py`) | md_api, td_api, four readiness events, `_closing`, `_connect_lock`, `_reconnect_thread`, `reconnect_attempts` | connect (main and reconnect thread), readiness callbacks, on_disconnect, _reconnect_loop, close | everything that calls is_ready |
| queries (`tap_session.py` 787-912, 1190-1241) | three caches with time stamps, three events, `_query_errors` | query_account, query_positions, query_orders; the response callbacks | TD API, session link (the same callbacks do the initial synchronisation) |
| market data (`registry.py`, `proxy.py` 160-211, `tap_session.py` 703-706, 742-785, 1141-1177) | owners of each symbol, `active_symbols` | subscribe, unsubscribe with rollback, re-subscription on MD login | MD API, command thread and MD thread |
| publisher (`proxy.py` 105-116, 311-328, 358-375) | bounded queue, PUB socket | enqueue_publish, _publisher_loop, stop | every callback; subscribers |
| trade history (`order_store.py` 497-595, `tap_session.py` 116-141, 1026-1139, 1593-1607) | `tap_trades` with its id as cursor and its unique event id | record_trade, _publish_scoped, list_trades, latest_trade_cursor | TD thread inserts and announces, command thread pages |
| command channel (`proxy.py` 118-302, 330-375) | the locals of the loop, the registry's owners through the commands | _command_loop, handle_command, stop: one request at a time | all of the above; clients over REQ sockets |
| protocol (`protocol.py`) | none | parse_action, the validation of each action, the two envelopes | handle_command, the clients |
| clients (`market_data_example.py`, `command_example.py`) | subscribed or not, the reply awaited | subscribe, stream, unsubscribe at the end; one request of any kind | command channel, publisher |
| config, logger, `contract_query_example.py` | none over time | environment; a program of its own that asks TAP once | - |

### What is hard here, and the properties that make each part correct

* **Order path.** insertOrder is neither idempotent nor transactional with the
  database. Retries, crashes between two statements and failing statements must
  never submit an order twice (`NoDoubleSubmit`, `InDoubtStays`, `SubmitsOnce`).
  The TD thread handles messages of an order while place_order is still
  recording it; ids arrive in every order; no owner may see another owner's
  event or trade (`EventOwnerTrue`, `TradeOwnerTrue`, `TradeReachesOwner`) and
  no parked cancel may hit another order or be forgotten (`CancelOnlyAsked`,
  `AcceptedCancelSent`). Rows, memory and exchange have to agree, also after a
  restart (`StoredNumberLoaded`, `NumberKnownOrQueued`, `BindingsPermanent`).
  A fill that is repeated is announced once (`AnnouncedOnce`).
* **Session link.** Two threads may be in connect while two callback threads
  raise and clear the events it waits for. Ready must mean a link that is up and
  synchronised (`ReadyIsReal`), the two threads must not work on each other's
  native objects (`ConnectOwnsApi`), a lost link must come back
  (`RecoversFromDrop`, `RecoversUnlessOverlapped`, `FirstConnectContinues`), and
  close must end the reconnect thread (`CloseEndsReconnect`).
* **Queries.** TAP responses carry no request id the proxy uses, so a late
  answer completes or fails the next query; a callback may pass over a row or
  raise in one, and the query goes on; and a success promises a complete
  snapshot (`docs/protocol-v1.md` 168): `SnapshotComplete`,
  `CompleteUnlessSuspect`, `ErrorIsOwn`.
* **Market data.** The rollback of a failed command undoes more than the command
  did; the set of symbols is read by the MD thread while the command thread
  changes it; the link may be replaced between any two native calls. What has an
  owner must be streamed (`OwnedStreamed`), and one owner's command must not
  take another owner's symbol away (`LastOwnerOnly`).
* **Trades and publisher.** A fill is repeated, its event id may change once its
  owner is known, the queue drops when it is full, sends and subscribers get
  lost, stop gives the publisher two seconds. A fill must be one row
  (`StoredOnce`), paging must skip nothing while rows are inserted
  (`PagedComplete`), a client that has caught up may trust the events but for
  named losses (`LiveComplete`), stop must drain the queue (`DrainedAtStop`),
  nobody may hear of a trade that is not stored or not his (`FeedsLog`), and
  every trade must reach its owner in the end (`TradesReachOwner`).
* **Command channel.** One loop serves all clients with the locals of the
  request before; the except clauses depend on their order; clients give up,
  are killed, share an identity; the registry dies with the proxy. An answer must
  be that of its request (`AnswerIsOwn`) and tell a faulty one (`InvalidIsTold`,
  `FaultyIsRefused`); who streams must be an owner (`StreamerOwns`), who has ended
  must not be one (`NothingLeftBehind`), and nobody may wait for ever
  (`EveryoneAnswered`).

The complete list, each at its line, is under `hazards` in `PROJECT.json`.

## 2. Modules

| module | what it is |
|---|---|
| `OrderStore` | the two tables and the statements on them, as operators from tables to tables and rows |
| `OrderPath` | the order path with the store, its two threads, the exchange and the link |
| `SubmitOnce` | what place_order promises for an order identity, abstractly |
| `MC_OrderPath` | `OrderPath` with its symmetry set and the profiles of its run, for TLC |
| `OrderPath_proofs` | theorems about `OrderPath`: types, submission, refinement, events |
| `OrderIds_proofs` | theorems about `OrderPath`: numbers, cancels, trades; extends `OrderPath_proofs` |
| `SessionLink` | connect, reconnect, readiness and close |
| `SessionLink_proofs` | theorems about `SessionLink` |
| `Subscriptions` | the registry, the two subscription commands with their rollbacks, and the MD login |
| `Subscriptions_proofs` | theorems about `Subscriptions` |
| `SnapshotQuery` | the queries of account, positions and orders against TAP's answers |
| `SnapshotQuery_proofs` | theorems about `SnapshotQuery` |
| `TradeFeed` | a trade from the TD callback to its owner: table, publish queue, publisher, paging, stop |
| `TradeLog` | what the trade history promises a client, abstractly |
| `TradeFeed_proofs` | theorems about `TradeFeed` |
| `Protocol` | the checks of each action in their order, and the except clauses of handle_command, as operators |
| `Commands` | the REP loop with its clients; extends `Protocol` |
| `Protocol_proofs` | lemmas about `Protocol`: what validation makes of any faults, and handle_command of any exception |
| `Commands_proofs` | theorems about `Commands`; extends `Protocol_proofs` |

### OrderPath

| code | model |
|---|---|
| `tap_orders`, `tap_trades` | `orders`, `trades`: survive `CrashRestart` |
| `_identity_by_native`, `_native_by_identity`, `_order_no_by_native` with `_server_flag_by_native`, `_native_by_order_key` | `mem.owner`, `mem.native`, `mem.key`, `mem.byKey`: rebuilt by `CrashRestart` |
| `_pending_cancels` | `pendingCancels`: lost by `CrashRestart` |
| command thread (`proxy._command_loop` answers one request at a time) | `cmd`: program counter and locals |
| TD callback thread (vnpy-tap delivers callbacks from one thread) | `td`, and `inbox` for what is not yet delivered |
| the exchange | `exch`, `cancelReqs` and the actions `Exch...`, external |

place_order is `PlaceOrder` (require ready, look for the row), `PlaceReserve`,
`InsertAccepted` / `InsertRefused` / `InsertNoApi`, `PlaceSetNative` and
`PlaceBind`, or `PlaceMarkFailed`: one action per transaction or native call.
cancel_order is `CancelOrder` (find the identity, test for the number) and then
`CancelPark` or `CancelSend`, because line 1409 tests what line 1410 acts on.
_update_order is `OnOrder`, `OrderIdentity`, `OrderUpdate`, `OrderPublish`;
_update_trade is `OnFill`, `FillRecord`, `FillPublish`. `CmdFault` and `TdFault`
let a statement raise with an unknown outcome; `run_callback` swallows the
second kind. `LinkDown` marks a live link dead; on_disconnect follows when the
callback thread has delivered what it has. `QryOrder` is the last query of the
initial synchronisation and delivers a snapshot in any order of its rows.

Abstractions. A message is an id, a number and a status; prices, volumes and
symbols are left out, so the early return for an unparsable symbol is too. An
order fills at most once and completely, so the MatchNo is identified with its
order. Both sides of a mapping that the code writes under `_mapping_lock` change
in one step. The session's readiness is reduced to the TD side; `SessionLink`
has the whole of it.

### SubmitOnce

Each identity is `new`, then `claimed`, then `accepted` or `failed`; the call
happens at most once and only in `claimed`. The refinement maps the row status to
the phase (`PhaseOf`) and `sent` to `calls`. There is no step from `claimed`
back, so the abstract specification also says that a claim whose outcome was
lost is never retried (`docs/protocol-v1.md` 439-442).

### SessionLink

| code | model |
|---|---|
| `md_api`, `td_api` with what the native side has answered so far | `md`, `td` |
| the four `threading.Event`s | `raised` |
| `_closing`, `_connect_lock`, `reconnect_attempts` | `closing`, `lock`, `attempts` |
| main thread, reconnect thread | `pc`, and `awaiting` for the events connect has yet to see |
| on_disconnect between clearing events and _schedule_reconnect | `scheduling` |

connect is `ConnectEnter`, `ConnectLock`, `ConnectClose`, `ConnectCreate`,
`ConnectInit` (the lock is released here), then `WaitPasses` for each event in
the order of the code, or `WaitExpires`; `ConnectRaises` is an exception in a
native call. The reconnect thread is `ReconnectLoop`, `ReconnectDelay`, connect
and `ReconnectEnds`: until that last step the thread is alive, whatever it has
decided, which is what `_schedule_reconnect` looks at. The initial
synchronisation is the chain `OnTdReady`, `OnAccountResponse`, `OnFundLast`,
`OnPositionLast`, `OnOrderLast`; a refused login, a failed query or an empty
account answer (`OnFailure`) stops the chain. close is `Close`, `CloseApis`,
`CloseClear`.

Abstractions. exit() of a native object joins its callback thread, so
`CloseNative` waits for a callback that is under way and drops the rest. Time is
gone: a wait may expire whenever its answer cannot come any more, and at any
other moment at the cost of `MaxSlow`. The delay before an attempt is one step;
`2 ** (attempts - 1)` times a float overflows at attempt 1025 and ends the
thread, which `DelayLimit` stands for (1024 in every run; no bounded run gets
there). Several account rows, which start several chains of queries, and
disconnect callbacks that disconnect() itself may cause are left out. The
increment of `reconnect_attempts` is one step.

`spent.overlap` is auxiliary: a link was lost while the session was not at rest,
that is, not ready, main in connect or the reconnect thread still alive. It
marks the behaviours in which `session_lost` finds the session left alone, and
`RecoversUnlessOverlapped` excepts just those.

### Subscriptions

| code | model |
|---|---|
| `SubscriptionRegistry._owners` | `owners` |
| `active_symbols`, `md_ready_event` | `active`, `mdReady` |
| `md_api` and its link; what TAP streams on it | `api`, `stream` (external) |
| command thread in the two commands | `cmd` |
| MD callback thread in on_md_ready | `callback` |

The registry's lock makes each of its calls one step; after it, each symbol added
to or discarded from `active_symbols`, the test of the event, the test of
`md_api` and each native call are steps of their own. subscribe looks `md_api` up
again for each symbol, while unsubscribe looks its method up once and may go on
calling an object that is no longer `md_api` (`bound`). A call on a link that is
up is answered, by data or by a refusal; on any other link it raises or does
nothing. The rollbacks (`UndoSubscribe`, `UndoUnsubscribe`) undo the registry for
all symbols of the command and leave `active_symbols` alone, as the code does.
`CloseNative` and `ConnectCreate` are `SessionLink`'s steps of the same names,
here at any moment and any number of times.

`undone` is auxiliary: the symbols that a rolled-back unsubscription has given an
owner without putting them back into `active_symbols`. Nothing subscribes them
again before someone gives them up and subscribes anew, so `OwnedStreamed`
excepts them; without the exception TLC finds it violated.

### SnapshotQuery

| code | model |
|---|---|
| `_position_cache`, `_order_cache` or `_account_cache`, and its time | `cache`, `stamped` |
| its query event, its entry in `_query_errors` | `event`, `error` |
| command thread in a query | `cmd` |
| the TD link: ready, lost, closed, logging in, synchronising | `link` |
| TAP's rows, its queue of queries, the messages under way | `book`, `asked`, `inbox` (external) |

The three queries have the same steps; the account is not cleared, is replaced
by a row and renews its time with each row, and only the callback of orders
calls the order store. `kind` says which one a behaviour follows. Orders can do
all that positions can, and more, so that `queries` starts from the account and
from the orders. A query is
`Query`, `PopError`, `ClearCache`, `ClearEvent`, `Send` or `SendNoApi`,
`WaitEnds` or `WaitExpires`, and `Collect`; `QueryCached` is the early return of
a client that accepts an answer of some age. Whether a stamped cache is fresh
enough depends on that age and is left open. The callbacks are `OnRow`, `OnLast`
and `OnFailure`, one message each. Within `MaxFaults` a row is not stored: the
callback passes it over, because its symbol or direction is not known (898, 974)
or the account is one of another currency (828), and goes on, be it to the end of
the query; or it raises (`RowRaises`), in a conversion or, for an order, in
find_by_native or update_tap (969, 985) before the cache is written or in the
parked cancel (1014) after it, and run_callback (677-691) drops the rest of the
message: a last row that raises leaves the query to its timeout. The error event
it publishes reaches the subscribers and not the command. The synchronisation of
a connect is reduced to its query of the same kind (`SyncAsks`).

Auxiliary: `told` are the rows the callbacks have been handed, `dropped` those
that a cache has not got since it was cleared, and `clean` says that no query has
failed or been mixed up since one succeeded.

Abstractions. A row is its key, rows with one key are one row (two orders without
ClientOrderNo share the cache's entry, for instance), and no row leaves the book.
TAP answers one query after the other. The reply is read from the cache in one step. close is `Close`
and `CloseReleases`: stop waits two seconds for the command thread, so a query
may still be waiting when close sets its event.

### TradeFeed and TradeLog

| code | model |
|---|---|
| `tap_trades`, its BIGSERIAL | `rows`, `lastId`: survive `Restart` |
| TD callback thread in _update_trade | `td` |
| `_publish_queue`, publisher thread | `queue`, `pub` |
| `active`, and how far stop has come | `main` |
| the SUB socket of the client | `linked` |
| the client: its request or page, the cursor it began with and the present one, the rows it knows | `client`, `base`, `cursor`, `seen` |

_update_trade is `OnFill` (the owner is looked up), `RecordTrade` or
`RecordRaises` (one INSERT with ON CONFLICT DO NOTHING, which draws an id in any
case), `PublishAccount` and `PublishStrategy` (the two calls of
_publish_scoped). The publisher is `PublisherGet`, `PublisherSend` or
`PublisherFails`, and `PublisherExit`. `GetTrades` and `GetTradeCursor` are the
commands, one statement each; `Page` reads one row more than it returns. stop is
`Stop`, `CloseSession` (the exit of the native object waits for a callback under
way) and `JoinPublisher`, which goes on without the publisher after its two
seconds. The client is the one `docs/protocol-v1.md` 162-166 describes: it begins
with a cursor or at 0, pages until there is no more, then listens, and pages
again after a loss.

Abstractions. Whether the owner of a trade is found is left open here:
`OrderPath` says when. A fill without MatchNo has one event id with its owner and
one without; in the code an order without owner whose id is known gives a third
(`tap_session.py` 1073). Other events only take up room in the queue, so their
order and content play no part. One client; the trades of others take up ids.
`unsent` is auxiliary: the rows whose event on the strategy topic was dropped.
A record_trade that raises has committed then or never: an insert that commits
after a later one, which paging by id would skip, needs two writers and the code
has one.

`TradeLog` has two steps: a trade is stored, and a client learns of some stored
trades of its own. The refinement maps `rows` to `stored` and `seen` to `learnt`.

### Protocol and Commands

A request is its action and the set of its faults, pairs of a field and what is
wrong with it; `FaultsOf` lists the faults of the fields that the service looks at
or converts, `Checks` the checks of an action in the order of the code with the
exception each raises. Some checks let an exception pass that is not a
ProtocolError (`canonical_symbol` of place_order raises ValueError, `int` and
`float` raise OverflowError), so `Validation` says which exception comes first,
and `Caught` which except clause answers it. Other faults no check looks for
(`Unchecked`): a fraction of which `int` takes the integer part, a volume or an
after_id too large for its column, a local_only that is no boolean, and a
max_age_ms no float can hold, which raises in the handler, in _max_age_seconds
(`AgeOverflows`). Each fault stands for all values of its kind: what a symbol or a
number looks like is one fault, since the code treats all of them alike. Fields
that nobody checks, such as the length of a client_id or the offset of an order,
have no faults here.

| code | model |
|---|---|
| requests on their way to the REP socket | `inbox` |
| locals of _command_loop and handle_command | `loop` |
| `active` and stop | `main` |
| `SubscriptionRegistry._owners` of one symbol | `owners`: lost by `Restart` |
| each process of `market_data_example.py`: its state, request and reply | `clients` |

The loop is `Receive`, `Validate`, one of `HandleSubscribe`, `HandleUnsubscribe`
and `HandleOther`, `SendReply`, and `LoopExit`. A client is `Start`,
`SubscribeAnswered`, `StreamEnds`, `UnsubscribeAnswered`, or `Timeout` and
`Killed` on the way; `command_example.py` is `ToolAsks`, whose request is chosen
when the loop reads it. `gaveUp` and `cut` are auxiliary: processes that ended
without a good answer to all they sent, and processes whose symbol others took.

Abstractions. A command is handled in one step, because commands are the only
ones to touch the registry and the loop takes one at a time; what happens inside
is in `Subscriptions`, `OrderPath`, `SnapshotQuery` and `TradeFeed`. For the
actions other than the two on market data the model keeps the exceptions that can
come out of them. Market data is taken to be enabled.

## 3. Runs

| run | configuration | checks | result |
|---|---|---|---|
| `orders` | 2 identities, 2 ids, 1 number on 2 servers; for two orders fills with flag and 1 crash or 1 repeated fill, for one order fills with or without flag, 2 crashes, 1 lost link, 2 failing statements, 1 repeated fill | `TypeOK`, `EventOwnerTrue`, `TradeOwnerTrue`, `CancelOnlyAsked`, `StoredNumberLoaded`, `NumberKnownOrQueued`, `NoDoubleSubmit`, `AnnouncedOnce`, `BindingsPermanent`, `InDoubtStays`, `SubmitsOnce` | holds, 677 754 states |
| `cancel_parked` | 1 order, no disturbance, fair threads | `AcceptedCancelSent` | violated |
| `fill_unowned` | 1 order, no disturbance | `TradeReachesOwner` | violated |
| `session` | MD and TD, 3 attempts, 2 lost links, 1 failure, 1 late answer, at any moment | `TypeOK`, `ReadyIsReal`, `ConnectOwnsApi`, `RecoversUnlessOverlapped`, `CloseEndsReconnect` | holds, 62 106 states |
| `session_lost` | MD and TD, attempts without limit, 2 lost links, nothing else | `RecoversFromDrop` | violated |
| `session_first` | one failure, no lost link | `FirstConnectContinues` | violated |
| `subscriptions` | 3 symbols, 1 of them in TAP_SYMBOLS, 2 owners, links lost without limit | `TypeOK`, `OwnedStreamed`, `LastOwnerOnly` | holds, 1 023 876 states |
| `queries` | account or orders of 2 rows, 2 queries, 1 error, 1 premature timeout, 1 lost link, 1 row dropped by a callback | `TypeOK`, `CompleteUnlessSuspect`, `ErrorIsOwn` | holds, 787 258 states |
| `queries_partial` | account or positions of 2 rows, the same, but no row dropped | `SnapshotComplete` | violated |
| `trade_feed` | 2 fills of the client, 1 of them without MatchNo, 2 ids, queue of 1, pages of 1, 1 stop or crash, 1 fault | `TypeOK`, `StoredOnce`, `PagedComplete`, `LiveComplete`, `DrainedAtStop`, `FeedsLog`, `TradesReachOwner` | holds, 174 449 states |
| `command_channel` | 2 processes with the default identity, 1 tool with 1 request of any action and at most 1 fault, 1 timeout or kill, 1 stop or crash | `TypeOK`, `AnswerIsOwn`, `InvalidIsTold`, `NothingLeftBehind`, `StreamerOwns`, `EveryoneAnswered` | holds, 362 035 states |
| `command_invalid` | the tool alone with 1 request of any action and at most 1 fault | `FaultyIsRefused` | violated |

**Why these bounds are enough.** Ownership can only be confused between two
orders, and a number between two servers: two of each make every confusion
possible, and the identities and ids are interchangeable (`SYMMETRY`).
A crash matters by where it falls, not by how often, but a restart of a restart
is included; two failing statements cover a failing cleanup after a failing
step; two ids let a second, wrong submission succeed. All disturbances at once for
two orders are too many states, so each step of `orders` stays in one of two
profiles (`ProfileSpec` of `MC_OrderPath`): `TwoOrders`, two owners through a
crash or a repeated fill, each of which reads the owner of an order anew, and
`OneOrder`, one owner through everything the constants allow, together. In `TwoOrders` fills carry
their flag, because both servers use the same number; with fills without flag
`find_by_order_no` may then return either row, and without that conjunct TLC finds
`TradeOwnerTrue` violated (a hazard, kept as such; section 4 has the condition
that excludes it). The theorems of section 4 know no profile. For the session two lost links are needed, one to start the reconnect thread and one
while it works; a failure and a late answer each add one more attempt. In
`subscriptions` nothing is bounded but the sets: two owners can contend for a
symbol while the startup list holds one, and three symbols let a command stand
between two native calls with one done, one pending and one not its own. In
`queries` one query can leave an answer or an error behind and the second can
meet it, with a synchronisation before, between or during the two, and two rows
make a partial answer differ from an empty and from a complete one; one dropped
row (`MaxFaults`) may be any row of any answer or push, the last included. In
`trade_feed` a queue of one is full while the publisher is late, two rows and
pages of one make the client page while rows are inserted, and an unnumbered fill
can take both ids. In `command_channel` two processes of one identity suffice for one to take the
other's symbol; the tool has one request because the loop forgets it with its
answer, and one faulty field because the first failing check answers. The
theorems of section 4 carry every safety property of these runs to every size.

**What the violations show.**

* `cancel_parked`: cancel_order finds no number (1409); the TD thread stores it,
  handles the whole message and finds no parked cancel (1012); the cancel is
  parked (1410). It was answered accepted and is never sent.
* `fill_unowned`: acknowledgement and fill are handled after insertOrder has
  returned (1338) and before set_native (1367). The row has no id yet, so the
  acknowledgement's update_tap, which looks for that id, matches no row and
  the number is not stored; nobody in memory owns the id either. The fill finds
  the id by its number but no owner of the id; the trade is stored without owner,
  and a repetition is dropped as a duplicate.
* `session_lost`: TD is lost, the reconnect thread connects and sees MD ready;
  MD is lost, on_disconnect sees a live reconnect thread and starts none (1504);
  TD finishes its synchronisation, connect returns True without looking at MD
  again, and the thread ends. Nothing is left that would reconnect.
* `session_first`: the first connect meets a failed query; the TD link stays up,
  so no on_disconnect comes, and main serves on with a session that nothing will
  ever connect, although its warning says otherwise (`main.py` 57-59).
* `queries_partial`: query_positions clears the cache (1218) and times out; the
  cache time of the synchronisation still stands, so the next get_positions with
  `max_age_ms` returns an empty list as a success. With a late answer instead,
  its rows and its last marker end the next query early.
  `queries` shows which other ways to a partial reply there are:
  `CompleteUnlessSuspect` excepts the replies with a cause of this kind or a close
  during the query, which ends the wait like an answer (`suspect`), and of all
  others the rows a callback dropped (`lost`).
* `command_invalid`: a request with one wrong field is answered otherwise than
  with `invalid_request`, which `docs/protocol-v1.md` 78 has for a wrong format or
  value. place_order parses its symbol outside the try (`protocol.py` 206), and
  nobody converts the OverflowError of `float` (213) or of `int` on an infinite
  number (247, 271), nor that of `float` for a huge max_age_ms (`proxy.py` 309):
  these are answered from the last clause of handle_command as `internal_error`,
  retryable (`proxy.py` 295-302). The faults of `Unchecked` besides are not
  refused by validation. `InvalidIsTold` says what is left of the promise: every
  other fault is told, and none is told without one.

**Deadlock.** Checked in every run but those whose system may really stop, which
say `CHECK_DEADLOCK FALSE`: `SessionLink` after close, `TradeFeed` with a proxy
that is stopped for good, `Commands` when all its processes have ended and nobody
asks any more.

**Fairness.** `OrderPath!FairSpec`: the command thread and the TD thread take
their next step; nothing is assumed of clients or of the exchange.
`SessionLink!FairSpec`: both threads run, on_disconnect finishes, and a link that
has been asked something answers (well or with an error), each weakly fair: they
are operating-system threads that only wait with deadlines or for the
short critical sections of `_connect_lock`. Nothing forces a link to be lost, an
answer to fail, or the operator to stop the process. Failures are finitely many,
so that attempts without limit can succeed in the end; without that the README's
promise could not hold of any program.

`TradeFeed!FairSpec`: the TD thread, the publisher and the stopping main thread
take their next step, and the client goes on asking and takes its answers; it
need not be connected, and nothing forces a send to succeed, so that what
`TradesReachOwner` shows is recovery by paging. `Commands!FairSpec`: the command
thread runs; a client acts on its answer and gives up at its timeout when no
answer can come (its `REQ` socket has a receive timeout). A stop of
the proxy is never forced, nor a restart.

**Seen while modelling, without a run of their own.** The models contain these,
and the properties except them by name where they would break them.

* A fill without MatchNo gets another event id once its order is known
  (`tap_session.py` 116-141), so it may be stored more than once, but once at most
  with its owner (`StoredOnce` excepts it).
* A row whose symbol or direction the callback does not know (`tap_session.py` 974,
  898), or in which it raises (985, 677-691), never reaches the cache; the last row
  ends the query with success all the same, and the reply lacks it (`lost` in
  `CompleteUnlessSuspect`).
* A trade that record_trade could not store is not announced and not tried again;
  only a repetition by TAP brings it back.
* The publisher may end after stop has cleared `active` while the TD thread still
  puts events; these are never sent (`DrainedAtStop` speaks of those before).
* A client that takes the `trade_cursor` of an event for its cursor, instead of
  paging, misses the trades whose events were dropped; `TradesReachOwner` is
  about clients that page.
* The strategy topic does not name the client (`tap_session.py` 1602-1606): two
  clients with one strategy_id receive each other's events and have to look at
  `client_id` themselves.
* All processes of the market data example with the default identity are one
  owner: the first to end takes the symbol from the others (`StreamerOwns`
  excepts them, `cut`), and a restart of the proxy forgets all owners.

## 4. Proofs

`OrderPath_proofs` (all obligations proved by TLAPS, for every value of the
constants that satisfies `StoreAssumption` and `PathAssumption`: `None` is none of
the ids, the set of ids is finite, the bounds are natural numbers):

| theorem | statement |
|---|---|
| `TypeCorrect` | `Spec => []TypeOK` |
| `SubmittedOnce` | `Spec => []NoDoubleSubmit` |
| `ImplementsSubmitOnce` | `Spec => SubmitsOnce`, the refinement of `SubmitOnce` |
| `EventsReachOwner` | `Spec => []EventOwnerTrue` |

`TypeOK` is not inductive: a thread past its first step must hold a real
identity, id or message, and a cancel may be sent only for an order whose number
is known. `TypeInv` adds this, and the finiteness of the ids makes a snapshot a
sequence. `SubmitInv` says where in its life a row is when the command thread
stands at each step, that an absent row has made no call, and that a row has an
id exactly when its status is past the submission: so no order message touches
the row of a submission in progress. The refinement follows from the same
invariant, step by step (`SubmitStep`). `OwnerInv` says that rows, memory and the
command thread agree with the exchange's book on who placed an order;
hydration and restart then hand on only true owners.

`OrderIds_proofs`, under the same assumptions and on top of the invariant above:

| theorem | statement |
|---|---|
| `NumbersLoaded` | `Spec => []StoredNumberLoaded` |
| `IdsNeverReplaced` | `Spec => BindingsPermanent`, an action property |
| `DoubtIsKept` | `Spec => InDoubtStays`, an action property |
| `CancelsAsked` | `Spec => []CancelOnlyAsked` |
| `NumbersArrive` | `Spec => []NumberKnownOrQueued` |
| `TradesAnnouncedOnce` | `Spec => []AnnouncedOnce` |
| `TradesReachNoOther` | `Spec /\ []FillsIdentify => []TradeOwnerTrue` |
| `FlaggedTradesReachNoOther`, `OneServerTradesReachNoOther` | `Spec => []TradeOwnerTrue`, if fills carry their flag, or on a single server |

A number lives in five places: the exchange's book, the messages on their way,
the message being handled, the rows and the memory. `IdsInv` says that they never
disagree, and its parts need each other: `BookTrue` (the book gives each number
once), `MessagesTrue` (what a message says stays true however late it is read,
which is why a repeated or reordered snapshot does no harm), `MemoryTrue` (both
directions of the memory agree with the book, a row with a number has its id and
memory has learnt the number) and `BindStored` (place_order binds in memory what
it has stored). `MemoryTrue` is stated of any memory so that a restart, which
builds one from the rows, is one lemma. The action properties need no more than
this: a message can only repeat the number a row has. On top of it `CancelInv`
follows a cancel from its client through the parked set to the exchange,
`QueueInv` says that from the snapshot of a link on a number is known or queued,
`AnnounceInv` that only the step after the first insertion announces, and
`FillInv` that a fill in hand has been attributed to its own owner or to no one.

`TradeOwnerTrue` does not hold for every value of the constants. A fill without
flag is looked up by its number alone (`order_store.py`, find_by_order_no with an
empty flag), and two servers may number alike. `FillsIdentify` says of a
state that the lookup cannot err in it: fills carry their flag, or no two orders
share a number. The theorem assumes it of the behaviour, and the two corollaries
derive it from the constants: from `FillsCarryFlag` and from a single flag. It cannot be dropped: the run `orders`
without the conjunct on flags in its profile `TwoOrders` violates `TradeOwnerTrue`.

`SessionLink_proofs`, for every number of attempts and disturbances, with or
without MD (`LinkAssumption`):

| theorem | statement |
|---|---|
| `LinkTypeCorrect` | `Spec => []TypeOK` |
| `ReadyOnlyInSync` | `Spec => []ReadyIsReal` |
| `ConnectExclusive` | `Spec => []ConnectOwnsApi` |

`LockInv` says that a thread between taking and releasing `_connect_lock` is its
holder and that main stops only after setting `_closing`. `EventInv` says for
each event how far its link has come; it holds except while some thread stands
between _close_native and _reset_connection_state, which the lock makes one
thread at most, and after `_closing`, when is_ready is false anyway.

`Subscriptions_proofs`, for any symbols, startup list and clients
(`SubscriptionsAssumption`):

| theorem | statement |
|---|---|
| `SubscriptionsTypeCorrect` | `Spec => []TypeOK` |
| `OwnersGetStreams` | `Spec => []OwnedStreamed` |
| `OthersKeepStreams` | `Spec => LastOwnerOnly`, an action property |

`OwnedStreamed` speaks of the moments at which both threads rest. `AskedInv` says
what holds in between: on a ready link every active symbol has been asked for, or
the command thread or the MD callback still has it before it. `OwnedInv` ties
owners to `active_symbols`, and `GivenUpInv` says that what an unsubscription
works on has lost its last owner and leaves `active_symbols` before the native
call: the callback, which copies that set, cannot owe it a subscription.

`SnapshotQuery_proofs`, for any finite set of rows and any number of queries,
errors, timeouts and lost links (`QueryAssumption`):

| theorem | statement |
|---|---|
| `QueriesTypeCorrect` | `Spec => []TypeOK` |
| `ErrorsAreOwn` | `Spec => []ErrorIsOwn` |
| `RepliesComplete` | `Spec => []CompleteUnlessSuspect` |

`TypeOK` needs a count: `Budget` says that every query and every synchronisation
has taken one number at most, and `NumbersInv` that what is in flight has been
given out, so a new number is foreign to every message under way. That the rows
are finite makes an answer a sequence (`AnswerShape`). `ErrorInv` says that an
error entry which a command will find is its own or that it is marked.
`RepliesComplete` is about a wait that ends for a reason, and `AnswerInv` names
the reasons: up to the last message of its own answer, every row a command owes
is in the cache, has been dropped by a callback since the cache was cleared, or is
still in the inbox before that message (`Coming`); an event
that is set has been set by that message, by an error, or by something that marked
the command (`Woken`); and a cache that is clean between commands has missed
nothing (`CleanInv`). Two of these have exceptions, and they are the ones of
`suspect`: `Woken` a command marked by a foreign answer or by close (`mixed`),
`CleanInv` a cache after a query that failed or was mixed up (`clean`).

`TradeFeed_proofs`, for any fills, queue size, page size and disturbances
(`FeedAssumption`):

| theorem | statement |
|---|---|
| `FeedTypeCorrect` | `Spec => []TypeOK` |
| `FillsStoredOnce` | `Spec => []StoredOnce` |
| `PagingSkipsNothing` | `Spec => []PagedComplete` |
| `EventsContinuePages` | `Spec => []LiveComplete` |
| `StopDrains` | `Spec => []DrainedAtStop` |
| `ImplementsTradeLog` | `Spec => FeedsLog`, the refinement of `TradeLog` |

`RowsInv` makes ids and event ids unique and bounded by the sequence; `KnownInv`
says that whatever is announced, queued, sent, dropped or known has been stored,
which is all the refinement needs. `PageInv` extends `PagedComplete` to a page
on its way: it holds every row between the cursor it was asked with and the one
it hands out (`PageOf`, from the definition of `Page`). For `LiveComplete` two
facts have to go together: `Covered`, that every row of the client is known,
dropped, on its page or still in flight, and `NoOvertaking`, that what is in
flight is newer than all the client knows; the latter needs `OrderInv`, that the
handler, the queue and the publisher hold events in the order of their ids. This
is where one TD thread, one FIFO and one publisher matter. `DrainInv` is the
publisher's exit condition carried through the rest of stop.

`Commands_proofs`, for any processes, identities, tool and disturbances
(`CommandsAssumption`):

| theorem | statement |
|---|---|
| `ChannelTypeCorrect` | `Spec => []TypeOK` |
| `AnswersAreOwn` | `Spec => []AnswerIsOwn` |
| `StreamersOwn` | `Spec => []StreamerOwns` |
| `EndingsLeaveNothing` | `Spec => []NothingLeftBehind` |
| `InvalidRequestsTold` | `Spec => []InvalidIsTold` |

`UnderWayInv` says that a command under way, in the socket or in the loop, is one
its process still waits for or has given up, and is nowhere else. `AnswerInv`
ties the answer in the loop to what became of the symbol: a granted subscription
goes with an owner, a failed one with none at all (only the first owner's can
fail). `ToldInv` and `HeldInv` carry this over to the processes: who was told
that it streams owns the symbol or is `cut`, and every owner is held by a process
that has not been told it let go.

What a request is told rests on `Protocol_proofs`, which turns the tables of
`Protocol` into three facts. `ChecksFind`: for every fault that a field of an
action may have, one of its checks fails, unless it is one that no check looks for
(`Passes`). `ValidationIs`: whatever set of faults a request has (the run tries one
at a time), validation raises something exactly if one of them does not pass, and
a ProtocolError unless one of them escapes (`Escapes`, the kinds whose exception
the code lets pass). `CaughtIs`: handle_command answers a ProtocolError, and
nothing else, with `invalid_request`, where the order of the except clauses
decides if several fit. `OutcomeInv` carries these through the loop: who reaches
the handler has no fault that validation sees, and what is raised there, the
overflow of a huge max_age_ms included, is not told as `invalid_request`.

Every safety invariant and every action property of the passing runs is thus
stated by a theorem, and both refinements are proved. Model-checked only are

* the liveness properties `RecoversUnlessOverlapped`, `CloseEndsReconnect`,
  `TradesReachOwner` and `EveryoneAnswered`: they rest on fairness, and so on
  ENABLED, about which this prover cannot reason;
* the six properties that are expected to be violated: a counterexample needs no
  proof.

The proofs are about the models. Two assumptions on constants are stronger than
the code alone gives: that the sets of ids and of rows are finite, which any run
of the program makes true, and `FillsIdentify` above, which depends on TAP.

## 5. Not modelled, and the plan

In this order:

1. `SnapshotQuery`: an abstract `Snapshot` that returns only rows of its own
   answer, rows that leave the book, and the step by step reading of the cache
   (the reply iterates over it while the TD thread may insert a row).
2. Finer steps: the two halves of `reconnect_attempts += 1`, and the unlocked
   reads of `_send_cancel`.

Outside the models for good: `config.py` reads the environment once and the
logger writes, without behaviour over time; `contract_query_example.py` is a
program of its own that asks TAP one question and ends; `MemoryOrderStore` and
`PendingTapSession` are doubles for tests; native login parameters and the
formatting of prices, times and payloads are data that no property speaks about.
