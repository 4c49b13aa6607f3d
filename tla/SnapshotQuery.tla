---------------------------- MODULE SnapshotQuery -----------------------------
(***************************************************************************)
(* The queries of the account, the positions and the orders                *)
(* (src/src/tap_session.py): a cache, an event and an error entry each,    *)
(* written by the TD callbacks and read by the command thread, which sends *)
(* one query at a time and waits for its event.  The initial               *)
(* synchronisation asks the same questions and its answers arrive at the   *)
(* same callbacks.  The three queries are alike, but only the rows of      *)
(* positions and orders are cleared before a query; a behaviour follows    *)
(* one of them, kind.                                                      *)
(*                                                                         *)
(* TAP answers in the order it is asked, an answer being its rows, one     *)
(* message each with the last one marked, or an error; the rows it pushes  *)
(* come in between.  A row is its key: what the book holds is modelled,    *)
(* the values are not, and no row leaves the book.  A callback may pass    *)
(* over a row or raise in the middle of one, and the command is not told.  *)
(* Nothing in an answer says which query it belongs to; its number is for  *)
(* the properties only.                                                    *)
(***************************************************************************)
EXTENDS Naturals, Sequences, FiniteSets, SequencesExt

CONSTANTS
    Kinds,        \* which of "account", "positions" and "orders"
    Rows,         \* keys of positions or of orders; an account has one
    NoRow,        \* a message without data
    MaxQueries,   \* bounds on queries sent for clients and on disturbances
    MaxErrors,
    MaxTimeouts,
    MaxDrops,
    MaxFaults     \* bound on rows a callback passes over or raises in

ASSUME QueryAssumption ==
    /\ Kinds \subseteq {"account", "positions", "orders"}
    /\ IsFiniteSet(Rows) /\ Rows # {} /\ NoRow \notin Rows
    /\ {MaxQueries, MaxErrors, MaxTimeouts, MaxDrops, MaxFaults} \subseteq Nat

VARIABLES
    kind,    \* the query this behaviour follows
    link,    \* the TD link: td_api is None, logging in, synchronising, ...
    cache,   \* _account_cache, _position_cache or _order_cache
    stamped, \* its cache time is not 0
    event,   \* its query event
    error,   \* its entry in _query_errors: the number of the query, or 0
    cmd,     \* command thread
    book,    \* rows TAP has (external)
    asked,   \* queries TAP has yet to answer (external)
    inbox,   \* messages the TD callback thread has yet to handle (external)
    told,    \* rows the callbacks have been handed (auxiliary)
    dropped, \* those the cache, as it was last cleared, did not get (auxiliary)
    clean,   \* no query has failed or been mixed up since one succeeded (auxiliary)
    reply,   \* the last reply to a client
    count    \* queries and synchronisations; disturbances used up

conn  == <<kind, link, count>>
local == <<cache, stamped, event, error>>
tap   == <<book, asked, inbox>>
aux   == <<told, dropped, clean, reply>>
vars  == <<conn, local, cmd, tap, aux>>

BookRows == IF kind = "account" THEN {CHOOSE r \in Rows : TRUE} ELSE Rows

\* A connect asks once for its synchronisation.
QueryIds == 1..(MaxQueries + MaxDrops + 1)

Rest == [pc |-> "idle", id |-> 0, due |-> {}, mixed |-> FALSE]

TypeOK ==
    /\ kind \in Kinds
    /\ link \in {"none", "login", "sync", "ready", "down", "closing", "closed"}
    /\ cache \subseteq BookRows
    /\ stamped \in BOOLEAN /\ event \in BOOLEAN
    /\ error \in QueryIds \cup {0}
    /\ cmd \in [pc: {"idle", "pop", "clear", "event", "send", "wait", "collect"},
                id: QueryIds \cup {0}, due: SUBSET Rows, mixed: BOOLEAN]
    /\ cmd.pc = "idle" => cmd = Rest
    /\ book \subseteq BookRows
    /\ asked \in Seq(QueryIds)
    /\ inbox \in Seq([id: QueryIds \cup {0}, row: Rows \cup {NoRow},
                      last: BOOLEAN, error: BOOLEAN])
    /\ told \subseteq book /\ dropped \subseteq told
    /\ clean \in BOOLEAN
    /\ reply \in [status: {"none", "ok", "failed", "raised"}, rows: SUBSET Rows,
                  due: SUBSET Rows, lost: SUBSET Rows, own: BOOLEAN, suspect: BOOLEAN]
    /\ count \in [id: QueryIds \cup {0}, query: 0..MaxQueries, error: 0..MaxErrors,
                  timeout: 0..MaxTimeouts, drop: 0..MaxDrops, fault: 0..MaxFaults]

\* The process has just started: main has yet to connect.
Init ==
    /\ kind \in Kinds
    /\ link = "none"
    /\ cache = {} /\ stamped = FALSE /\ event = FALSE /\ error = 0
    /\ cmd = Rest
    /\ book \in SUBSET BookRows
    /\ asked = <<>> /\ inbox = <<>>
    /\ told = {} /\ dropped = {} /\ clean = TRUE
    /\ reply = [status |-> "none", rows |-> {}, due |-> {}, lost |-> {},
                own |-> TRUE, suspect |-> FALSE]
    /\ count = [id |-> 0, query |-> 0, error |-> 0, timeout |-> 0, drop |-> 0, fault |-> 0]

Goto(label) == cmd' = [cmd EXCEPT !.pc = label]

\* The command returns rows, fails with the error of a query, or raises.
Returns(due, suspect) ==
    reply' = [status |-> "ok", rows |-> cache, due |-> due, lost |-> dropped,
              own |-> TRUE, suspect |-> suspect]

Fails(status, own) ==
    reply' = [status |-> status, rows |-> {}, due |-> {}, lost |-> {},
              own |-> own, suspect |-> cmd.mixed]

-------------------------------------------------------------------------------
(* Command thread: query_account, query_positions, query_orders *)

\* _require_ready
QueryNotReady ==
    /\ cmd.pc = "idle"
    /\ link # "ready"
    /\ Fails("raised", TRUE)
    /\ UNCHANGED <<conn, local, cmd, tap, told, dropped, clean>>

\* A client that accepts an answer of some age gets the cache, if fresh enough.
QueryCached ==
    /\ cmd.pc = "idle"
    /\ link = "ready"
    /\ stamped
    /\ Returns(told, kind # "account" /\ ~clean)
    /\ UNCHANGED <<conn, local, cmd, tap, told, dropped, clean>>

Query ==
    /\ cmd.pc = "idle"
    /\ link = "ready"
    /\ count.query < MaxQueries
    /\ cmd' = [Rest EXCEPT !.pc = "pop", !.due = book]
    /\ count' = [count EXCEPT !.query = @ + 1]
    /\ UNCHANGED <<kind, link, local, tap, aux>>

\* Mutant: the error of an earlier query is left.
KeepError ==
    /\ cmd.pc = "pop"
    /\ Goto("clear")
    /\ UNCHANGED <<conn, local, tap, aux>>

PopError ==
    /\ cmd.pc = "pop"
    /\ error' = 0
    /\ Goto("clear")
    /\ UNCHANGED <<conn, cache, stamped, event, tap, aux>>

\* The account is kept until a row replaces it.
ClearCache ==
    /\ cmd.pc = "clear"
    /\ IF kind = "account"
       THEN UNCHANGED <<cache, dropped>>
       ELSE cache' = {} /\ dropped' = {}
    /\ Goto("event")
    /\ UNCHANGED <<conn, stamped, event, error, tap, told, clean, reply>>

\* Mutant: the event of the last answer is left standing.
KeepEvent ==
    /\ cmd.pc = "event"
    /\ Goto("send")
    /\ UNCHANGED <<conn, local, tap, aux>>

ClearEvent ==
    /\ cmd.pc = "event"
    /\ event' = FALSE
    /\ Goto("send")
    /\ UNCHANGED <<conn, cache, stamped, error, tap, aux>>

NoApi == {"none", "closing", "closed"}

\* qryFund, qryPositionSummary or qryOrder; a link that is not up ignores it.
Send ==
    /\ cmd.pc = "send"
    /\ link \notin NoApi
    /\ cmd' = [cmd EXCEPT !.pc = "wait", !.id = count.id + 1]
    /\ count' = [count EXCEPT !.id = @ + 1]
    /\ asked' = IF link \in {"sync", "ready"} THEN Append(asked, count.id + 1) ELSE asked
    /\ UNCHANGED <<kind, link, local, book, inbox, aux>>

\* The assertion on td_api.
SendNoApi ==
    /\ cmd.pc = "send"
    /\ link \in NoApi
    /\ Fails("raised", TRUE)
    /\ clean' = FALSE
    /\ cmd' = Rest
    /\ UNCHANGED <<conn, local, tap, told, dropped>>

\* _wait_query
WaitEnds ==
    /\ cmd.pc = "wait"
    /\ event
    /\ Goto("collect")
    /\ UNCHANGED <<conn, local, tap, aux>>

\* Time runs out: within MaxTimeouts, or when no answer can come any more.
WaitExpires ==
    /\ cmd.pc = "wait"
    /\ ~event
    /\ \/ /\ count.timeout < MaxTimeouts
          /\ count' = [count EXCEPT !.timeout = @ + 1]
       \/ /\ asked = <<>> /\ inbox = <<>>
          /\ UNCHANGED count
    /\ Fails("raised", TRUE)
    /\ clean' = FALSE
    /\ cmd' = Rest
    /\ UNCHANGED <<kind, link, local, tap, told, dropped>>

\* _raise_query_error, then the cache.
Collect ==
    /\ cmd.pc = "collect"
    /\ IF error = 0
       THEN Returns(cmd.due, cmd.mixed)
       ELSE Fails("failed", error = cmd.id)
    /\ error' = 0
    /\ clean' = (error = 0 /\ ~cmd.mixed)
    /\ cmd' = Rest
    /\ UNCHANGED <<conn, cache, stamped, event, tap, told, dropped>>

-------------------------------------------------------------------------------
(* TD callback thread *)

\* Mutant: a message without data is stored like a row.
UpdateAlways(row) == IF kind = "account" THEN {row} ELSE cache \cup {row}

\* _update_account replaces, _update_position and _update_order's cache add.
Update(row) ==
    IF row = NoRow THEN cache ELSE
    IF kind = "account" THEN {row} ELSE cache \cup {row}

\* An answer to another query is handled while a command is under way.
Mixes(m) == cmd.pc # "idle" /\ m.id \notin {0, cmd.id}

HandledBy(m) ==
    /\ inbox' = Tail(inbox)
    /\ cmd' = [cmd EXCEPT !.mixed = @ \/ Mixes(m)]
    /\ UNCHANGED <<kind, book, asked, clean, reply>>

\* A message's row, if it has one, is stored or not.
Takes(m, stored) ==
    /\ cache' = IF stored THEN Update(m.row) ELSE cache
    /\ told' = (told \cup {m.row}) \ {NoRow}
    /\ dropped' = (dropped \cup {m.row}) \ (cache' \cup {NoRow})
    /\ HandledBy(m)

Fault ==
    /\ count.fault < MaxFaults
    /\ count' = [count EXCEPT !.fault = @ + 1]

\* A row is passed over when its symbol or its side is not known; the account,
\* when the answer is about another currency, which a push is not asked.
Ignorable(m) == m.row # NoRow /\ (kind = "account" => m.id # 0)

Reads(m, stored) ==
    /\ Takes(m, stored)
    /\ IF stored THEN UNCHANGED count ELSE Ignorable(m) /\ Fault

\* A row of an answer or of a push; only an account's row renews the time.
OnRow ==
    /\ inbox # <<>> /\ ~Head(inbox).error /\ ~Head(inbox).last
    /\ \E stored \in BOOLEAN :
         /\ Reads(Head(inbox), stored)
         /\ stamped' = (stamped \/ (kind = "account" /\ stored))
    /\ UNCHANGED <<link, event, error>>

\* The last row.  The first answer to end goes on with the synchronisation,
\* whose remaining queries SessionLink has.
OnLast ==
    /\ inbox # <<>> /\ Head(inbox).last
    /\ \E stored \in BOOLEAN : Reads(Head(inbox), stored)
    /\ stamped' = TRUE
    /\ event' = TRUE
    /\ link' = IF link = "sync" THEN "ready" ELSE link
    /\ UNCHANGED error

\* The callback raises in a row and run_callback swallows it: a field does not
\* convert or, for an order, the order store fails, before the row is stored,
\* or the cancel parked for the order does, after it.  What the callback would
\* have done next is not done, be it the last row.
RowRaises ==
    /\ inbox # <<>> /\ Head(inbox).row # NoRow
    /\ \E stored \in BOOLEAN : (stored => kind = "orders") /\ Takes(Head(inbox), stored)
    /\ Fault
    /\ UNCHANGED <<link, stamped, event, error>>

\* _query_failed
OnFailure ==
    /\ inbox # <<>> /\ Head(inbox).error
    /\ error' = Head(inbox).id
    /\ event' = TRUE
    /\ HandledBy(Head(inbox))
    /\ UNCHANGED <<link, cache, stamped, told, dropped, count>>

-------------------------------------------------------------------------------
(* TAP and the link *)

Message(id, row, last) == [id |-> id, row |-> row, last |-> last, error |-> FALSE]

Failure(id) == [id |-> id, row |-> NoRow, last |-> FALSE, error |-> TRUE]

\* The rows of the book in any order; an empty book is a last message.
AnswersTo(id) ==
    IF book = {} THEN {<<Message(id, NoRow, TRUE)>>}
    ELSE {[i \in 1..Len(rows) |-> Message(id, rows[i], i = Len(rows))] : rows \in SetToSeqs(book)}

TapAnswers ==
    /\ asked # <<>>
    /\ \E answer \in AnswersTo(Head(asked)) : inbox' = inbox \o answer
    /\ asked' = Tail(asked)
    /\ UNCHANGED <<conn, local, cmd, book, aux>>

TapFails ==
    /\ asked # <<>>
    /\ count.error < MaxErrors
    /\ inbox' = Append(inbox, Failure(Head(asked)))
    /\ asked' = Tail(asked)
    /\ count' = [count EXCEPT !.error = @ + 1]
    /\ UNCHANGED <<kind, link, local, cmd, book, aux>>

\* A new row, and the push that tells of it.
BookGrows ==
    /\ link \in {"sync", "ready"}
    /\ \E row \in BookRows \ book :
         /\ book' = book \cup {row}
         /\ inbox' = Append(inbox, Message(0, row, FALSE))
    /\ UNCHANGED <<conn, local, cmd, asked, aux>>

\* What has not been handled is lost with the link.
LinkLost ==
    /\ link \in {"sync", "ready"}
    /\ count.drop < MaxDrops
    /\ link' = "down"
    /\ asked' = <<>> /\ inbox' = <<>>
    /\ count' = [count EXCEPT !.drop = @ + 1]
    /\ UNCHANGED <<kind, local, cmd, book, aux>>

\* exit() of the old object waits for its callback.
CloseNative ==
    /\ link = "down"
    /\ link' = "none"
    /\ UNCHANGED <<kind, count, local, cmd, tap, aux>>

\* _reset_connection_state, and the new native object
Connect ==
    /\ link = "none"
    /\ link' = "login"
    /\ event' = FALSE
    /\ UNCHANGED <<kind, count, cache, stamped, error, cmd, tap, aux>>

\* The synchronisation comes to this query.
SyncAsks ==
    /\ link = "login"
    /\ link' = "sync"
    /\ count' = [count EXCEPT !.id = @ + 1]
    /\ asked' = Append(asked, count.id + 1)
    /\ UNCHANGED <<kind, local, cmd, book, inbox, aux>>

\* The proxy stops; a command it has waited two seconds for may still run.
Close ==
    /\ link \notin {"closing", "closed"}
    /\ link' = "closing"
    /\ asked' = <<>> /\ inbox' = <<>>
    /\ UNCHANGED <<kind, count, local, cmd, book, aux>>

\* close releases whoever waits, who takes that for the end of an answer.
CloseReleases ==
    /\ link = "closing"
    /\ link' = "closed"
    /\ event' = TRUE
    /\ cmd' = [cmd EXCEPT !.mixed = cmd.pc # "idle"]
    /\ UNCHANGED <<kind, count, cache, stamped, error, tap, aux>>

-------------------------------------------------------------------------------
CommandStep ==
    \/ QueryNotReady \/ QueryCached \/ Query
    \/ PopError \/ ClearCache \/ ClearEvent
    \/ Send \/ SendNoApi \/ WaitEnds \/ WaitExpires \/ Collect

CallbackStep == OnRow \/ OnLast \/ RowRaises \/ OnFailure

TapStep == TapAnswers \/ TapFails \/ BookGrows

LinkStep == LinkLost \/ CloseNative \/ Connect \/ SyncAsks \/ Close \/ CloseReleases

Next == CommandStep \/ CallbackStep \/ TapStep \/ LinkStep

Spec == Init /\ [][Next]_vars

-------------------------------------------------------------------------------
(* Properties *)

\* A successful reply is a complete snapshot: it holds every row TAP had when
\* the command began or, taken from the cache, every row the callbacks had been
\* handed.  docs/protocol-v1.md 168 says this of every query that succeeds.
SnapshotComplete == reply.status = "ok" => reply.due \subseteq reply.rows

\* When it does not: the answer to another query was handled while the command
\* ran, close released it, or a reply from the cache of positions or orders,
\* which a query clears, follows a query that failed or was mixed up.  In every
\* other reply what is missing are rows the callbacks were handed since the
\* cache was cleared and passed over or raised in, and only these.
CompleteUnlessSuspect ==
    reply.suspect \/ (reply.status = "ok" => reply.due \subseteq reply.rows \cup reply.lost)

\* A query fails with the error TAP gave to that query and not with one left
\* over, unless the answer to another query was handled while it ran.
ErrorIsOwn == reply.status = "failed" => reply.own \/ reply.suspect

=============================================================================
