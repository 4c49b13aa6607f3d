------------------------------- MODULE OrderPath -------------------------------
(***************************************************************************)
(* The life of an order inside the proxy: place_order and cancel_order on  *)
(* the command thread, the order and fill callbacks on the TD callback     *)
(* thread, the order store they share, the volatile identity maps, and the *)
(* exchange behind the native API.  Code: src/src/tap_session.py and       *)
(* src/src/order_store.py.                                                 *)
(*                                                                         *)
(* A handler is one action per database transaction or native call; the    *)
(* statements between two of them touch only data of their own thread or   *)
(* one map, and join the neighbouring step.  The command thread answers    *)
(* one request at a time and the native API delivers its callbacks from    *)
(* one thread, so each thread has one program counter.                     *)
(***************************************************************************)
EXTENDS OrderStore, SequencesExt

CONSTANTS
    FillsCarryFlag, \* TRUE iff every fill message carries its ServerFlag
    MaxCrashes,     \* bounds on the disturbances of a behaviour
    MaxDrops,
    MaxFaults,
    MaxResends

ASSUME PathAssumption ==
    /\ IsFiniteSet(Natives)
    /\ FillsCarryFlag \in BOOLEAN
    /\ {MaxCrashes, MaxDrops, MaxFaults, MaxResends} \subseteq Nat

VARIABLES
    \* durable, in PostgreSQL
    orders,         \* tap_orders
    trades,         \* tap_trades
    \* volatile, in the proxy process
    mem,            \* the four identity maps of the session
    pendingCancels, \* _pending_cancels
    cmd,            \* the command thread
    td,             \* the TD callback thread
    inbox,          \* messages the native API has yet to deliver
    conn,           \* the TD link as the session sees it
    \* outside the proxy
    exch,           \* the exchange's book, by ClientOrderNo
    cancelReqs,     \* order keys the exchange was asked to cancel
    \* history and bounds
    sent,           \* calls of insertOrder, by identity
    cancelAsked,    \* identities whose cancellation a client asked for
    announced,      \* trade events published, by match
    spent           \* disturbances used up

store   == <<orders, trades>>
outside == <<exch, cancelReqs>>
history == <<sent, cancelAsked, announced>>
vars == <<orders, trades, mem, pendingCancels, cmd, td, inbox, conn,
          exch, cancelReqs, sent, cancelAsked, announced, spent>>

\* "stale": the link is dead but on_disconnect is still queued behind inbox.
Links == {"off", "login", "syncing", "ready", "stale"}
LinkUp == conn \in {"login", "syncing", "ready"}
IsReady == conn \in {"ready", "stale"}
CmdPcs == {"idle", "reserve", "insert", "set_native", "bind", "mark_failed",
           "park", "send_cancel"}
TdPcs == {"idle", "order_identity", "order_store", "order_publish",
          "fill_store", "fill_publish"}

NoMessage == [kind |-> "last", native |-> None, key |-> NoOrderKey, status |-> None]

\* A push or snapshot row of an order, a fill, the end of a snapshot.  A fill
\* names its order by number and flag only: its native stands for the MatchNo
\* (an order fills at most once, completely), which no handler reads as an id.
OrderMessages == [kind: {"order"}, native: Natives,
                  key: OrderKeys \cup {NoOrderKey}, status: ExchangeStatuses]
FillMessages  == [kind: {"fill"}, native: Natives,
                  key: [no: OrderNos, flag: Flags \cup {None}], status: {None}]
Messages == OrderMessages \cup FillMessages \cup {NoMessage}

Memory == [owner:  [Natives -> Keys \cup {None}],       \* _identity_by_native
           native: [Keys -> Natives \cup {None}],       \* _native_by_identity
           key:    [Natives -> OrderKeys \cup {NoOrderKey}],
                             \* _order_no_by_native, _server_flag_by_native
           byKey:  [OrderKeys -> Natives \cup {None}]]  \* _native_by_order_key

BookStates == {"none", "sent"} \cup ExchangeStatuses
BookEntry == [owner: Keys \cup {None}, state: BookStates,
              key: OrderKeys \cup {NoOrderKey}]

IdleCmd == [pc |-> "idle", key |-> None, native |-> None]
IdleTd  == [pc |-> "idle", msg |-> NoMessage, who |-> None]

TypeOK ==
    /\ orders \in [Keys -> Row]
    /\ trades \subseteq Trade
    /\ mem \in Memory
    /\ pendingCancels \subseteq Natives
    /\ cmd \in [pc: CmdPcs, key: Keys \cup {None}, native: Natives \cup {None}]
    /\ td \in [pc: TdPcs, msg: Messages, who: Keys \cup {None}]
    /\ inbox \in Seq(Messages)
    /\ conn \in Links
    /\ exch \in [Natives -> BookEntry]
    /\ cancelReqs \subseteq OrderKeys
    /\ sent \in [Keys -> Nat]
    /\ cancelAsked \subseteq Keys
    /\ announced \in [Natives -> Nat]
    /\ spent \in [crash: Nat, drop: Nat, fault: Nat, resend: Nat]

-------------------------------------------------------------------------------
(* The identity maps *)

\* _hydrate_record: load what the row of identity k knows.
Hydrated(m, k, row) ==
    IF row.native = None
    THEN m
    ELSE [owner  |-> [m.owner EXCEPT ![row.native] = k],
          native |-> [m.native EXCEPT ![k] = row.native],
          key    |-> IF row.key = NoOrderKey THEN m.key
                     ELSE [m.key EXCEPT ![row.native] = row.key],
          byKey  |-> IF row.key = NoOrderKey THEN m.byKey
                     ELSE [m.byKey EXCEPT ![row.key] = row.native]]

\* place_order's last step: both directions under _mapping_lock.
Bound(m, k, n) ==
    [m EXCEPT !.owner = [@ EXCEPT ![n] = k], !.native = [@ EXCEPT ![k] = n]]

\* Mutant: numbers are looked up without their server flag.
NumberedAnyFlag(m, n, key) ==
    [m EXCEPT !.key = [@ EXCEPT ![n] = key],
              !.byKey = [other \in OrderKeys |->
                            IF other.no = key.no THEN n ELSE @[other]]]

Numbered(m, n, key) ==
    [m EXCEPT !.key = [@ EXCEPT ![n] = key], !.byKey = [@ EXCEPT ![key] = n]]

\* Mutant: the number of an order without known owner is not kept.
LearntIfOwned(m, msg) ==
    IF msg.key = NoOrderKey \/ m.owner[msg.native] = None THEN m
    ELSE Numbered(m, msg.native, msg.key)

\* _update_order's first step.
Learnt(m, msg) ==
    IF msg.key = NoOrderKey THEN m ELSE Numbered(m, msg.native, msg.key)

\* _restore_order_mappings on empty maps: every row hydrated.
OwnerIn(table, n) ==
    IF FindByNative(table, n) = {} THEN None ELSE CHOOSE k \in FindByNative(table, n) : TRUE

\* Mutant: a restart forgets the numbers of the orders.
RestoredIds(table) ==
    [owner  |-> [n \in Natives |-> OwnerIn(table, n)],
     native |-> [k \in Keys |-> table[k].native],
     key    |-> [n \in Natives |-> NoOrderKey],
     byKey  |-> [key \in OrderKeys |-> None]]

Restored(table) ==
    [owner  |-> [n \in Natives |-> OwnerIn(table, n)],
     native |-> [k \in Keys |-> table[k].native],
     key    |-> [n \in Natives |->
                    IF OwnerIn(table, n) = None THEN NoOrderKey
                    ELSE table[OwnerIn(table, n)].key],
     byKey  |-> [key \in OrderKeys |->
                    IF \E k \in Keys : table[k].native # None /\ table[k].key = key
                    THEN table[CHOOSE k \in Keys :
                                 table[k].native # None /\ table[k].key = key].native
                    ELSE None]]

\* What the exchange pushes reaches the proxy only over a live link.
Push(msgs) == inbox' = IF LinkUp THEN inbox \o msgs ELSE inbox

Spend(what, max) == /\ spent[what] < max
                    /\ spent' = [spent EXCEPT ![what] = @ + 1]

\* cancelOrder; its return value is ignored and a dead link loses the request.
AskCancel(key) ==
    cancelReqs' = IF LinkUp THEN cancelReqs \cup {key} ELSE cancelReqs

OrderMessage(n, entry) ==
    [kind |-> "order", native |-> n, key |-> entry.key, status |-> entry.state]

FillsOf(n, key) ==
    {fill \in FillMessages :
        /\ fill.native = n
        /\ \/ fill.key = key
           \/ ~FillsCarryFlag /\ fill.key = [key EXCEPT !.flag = None]}

-------------------------------------------------------------------------------
(* The command thread: place_order *)

\* _require_ready, then the row already there answers a repeated request.
PlaceOrder(k) ==
    /\ cmd.pc = "idle"
    /\ IsReady
    /\ IF RowExists(orders, k)
       THEN mem' = Hydrated(mem, k, orders[k]) /\ UNCHANGED cmd
       ELSE cmd' = [IdleCmd EXCEPT !.pc = "reserve", !.key = k] /\ UNCHANGED mem
    /\ UNCHANGED <<store, pendingCancels, td, inbox, conn, outside, history, spent>>

PlaceReserve ==
    /\ cmd.pc = "reserve"
    /\ orders' = Reserve(orders, cmd.key)
    /\ cmd' = IF RowExists(orders, cmd.key) THEN IdleCmd ELSE [cmd EXCEPT !.pc = "insert"]
    /\ UNCHANGED <<trades, mem, pendingCancels, td, inbox, conn, outside, history, spent>>

\* insertOrder returned success and a fresh ClientOrderNo.
InsertAccepted(n) ==
    /\ cmd.pc = "insert"
    /\ LinkUp
    /\ exch[n].state = "none"
    /\ sent' = [sent EXCEPT ![cmd.key] = @ + 1]
    /\ exch' = [exch EXCEPT ![n] = [@ EXCEPT !.owner = cmd.key, !.state = "sent"]]
    /\ cmd' = [cmd EXCEPT !.pc = "set_native", !.native = n]
    /\ UNCHANGED <<store, mem, pendingCancels, td, inbox, conn, cancelReqs,
                   cancelAsked, announced, spent>>

\* insertOrder raised, returned an error code or returned no ClientOrderNo.
InsertRefused ==
    /\ cmd.pc = "insert"
    /\ sent' = [sent EXCEPT ![cmd.key] = @ + 1]
    /\ cmd' = [cmd EXCEPT !.pc = "mark_failed"]
    /\ UNCHANGED <<store, mem, pendingCancels, td, inbox, conn, outside,
                   cancelAsked, announced, spent>>

\* A reconnect has taken td_api away: the assertion raises, the row stays.
InsertNoApi ==
    /\ cmd.pc = "insert"
    /\ conn = "off"
    /\ cmd' = IdleCmd
    /\ UNCHANGED <<store, mem, pendingCancels, td, inbox, conn, outside, history, spent>>

PlaceSetNative ==
    /\ cmd.pc = "set_native"
    /\ orders' = SetNative(orders, cmd.key, cmd.native)
    /\ cmd' = [cmd EXCEPT !.pc = "bind"]
    /\ UNCHANGED <<trades, mem, pendingCancels, td, inbox, conn, outside, history, spent>>

PlaceBind ==
    /\ cmd.pc = "bind"
    /\ mem' = Bound(mem, cmd.key, cmd.native)
    /\ cmd' = IdleCmd
    /\ UNCHANGED <<store, pendingCancels, td, inbox, conn, outside, history, spent>>

PlaceMarkFailed ==
    /\ cmd.pc = "mark_failed"
    /\ orders' = MarkFailed(orders, cmd.key)
    /\ cmd' = IdleCmd
    /\ UNCHANGED <<trades, mem, pendingCancels, td, inbox, conn, outside, history, spent>>

\* A statement of the command thread raises; whether it committed is unknown.
CmdFault ==
    /\ Spend("fault", MaxFaults)
    /\ \/ cmd.pc = "reserve" /\ orders' \in {orders, Reserve(orders, cmd.key)}
       \/ cmd.pc = "set_native"
          /\ orders' \in {orders, SetNative(orders, cmd.key, cmd.native)}
       \/ cmd.pc = "mark_failed" /\ orders' \in {orders, MarkFailed(orders, cmd.key)}
    /\ cmd' = IdleCmd
    /\ UNCHANGED <<trades, mem, pendingCancels, td, inbox, conn, outside, history>>

-------------------------------------------------------------------------------
(* The command thread: cancel_order *)

\* The identity is found in memory or through its row; the membership test on
\* _order_no_by_native decides here, and the thread acts on it a step later.
CancelOrder(k) ==
    LET m == IF mem.native[k] # None THEN mem ELSE Hydrated(mem, k, orders[k])
        n == m.native[k]
    IN  /\ cmd.pc = "idle"
        /\ IsReady
        /\ n # None
        /\ mem' = m
        /\ cancelAsked' = cancelAsked \cup {k}
        /\ cmd' = [key |-> k, native |-> n,
                   pc |-> IF m.key[n] = NoOrderKey THEN "park" ELSE "send_cancel"]
        /\ UNCHANGED <<store, pendingCancels, td, inbox, conn, outside, sent,
                       announced, spent>>

CancelPark ==
    /\ cmd.pc = "park"
    /\ pendingCancels' = pendingCancels \cup {cmd.native}
    /\ cmd' = IdleCmd
    /\ UNCHANGED <<store, mem, td, inbox, conn, outside, history, spent>>

CancelSend ==
    /\ cmd.pc = "send_cancel"
    /\ AskCancel(mem.key[cmd.native])
    /\ cmd' = IdleCmd
    /\ UNCHANGED <<store, mem, pendingCancels, td, inbox, conn, exch, history, spent>>

-------------------------------------------------------------------------------
(* The TD callback thread: order messages, pushed or from a snapshot *)

Incoming(kind) == td.pc = "idle" /\ inbox # <<>> /\ Head(inbox).kind = kind

\* _update_order up to its lookup: the number is learnt before anything else.
OnOrder ==
    /\ Incoming("order")
    /\ LET msg == Head(inbox)
       IN  /\ mem' = Learnt(mem, msg)
           /\ td' = [IdleTd EXCEPT !.pc = "order_identity", !.msg = msg]
    /\ inbox' = Tail(inbox)
    /\ UNCHANGED <<store, pendingCancels, cmd, conn, outside, history, spent>>

OrderIdentity ==
    /\ td.pc = "order_identity"
    /\ LET n     == td.msg.native
           rows  == FindByNative(orders, n)
       IN  \/ /\ mem.owner[n] # None \/ rows = {}
              /\ td' = [td EXCEPT !.pc = "order_store", !.who = mem.owner[n]]
              /\ UNCHANGED mem
           \/ /\ mem.owner[n] = None
              /\ \E k \in rows :
                    /\ td' = [td EXCEPT !.pc = "order_store", !.who = k]
                    /\ mem' = Hydrated(mem, k, orders[k])
    /\ UNCHANGED <<store, pendingCancels, cmd, inbox, conn, outside, history, spent>>

OrderUpdate ==
    /\ td.pc = "order_store"
    /\ orders' = UpdateTap(orders, td.msg.native, td.msg.key, td.msg.status)
    /\ td' = [td EXCEPT !.pc = "order_publish"]
    /\ UNCHANGED <<trades, mem, pendingCancels, cmd, inbox, conn, outside, history, spent>>

\* Mutants: the test before a parked cancel is sent, weakened.
Parked(msg) == msg.native \in pendingCancels

AnyParked(msg) == pendingCancels # {} /\ msg.key # NoOrderKey

ParkedAndNumbered(msg) == msg.native \in pendingCancels /\ msg.key # NoOrderKey

\* The event goes out to td.who; a parked cancel of the order is sent.
OrderPublish ==
    /\ td.pc = "order_publish"
    /\ IF ParkedAndNumbered(td.msg)
       THEN /\ pendingCancels' = pendingCancels \ {td.msg.native}
            /\ AskCancel(mem.key[td.msg.native])
       ELSE UNCHANGED <<pendingCancels, cancelReqs>>
    /\ td' = IdleTd
    /\ UNCHANGED <<store, mem, cmd, inbox, conn, exch, history, spent>>

\* The last row of the initial order snapshot opens the session.
OnOrderLast ==
    /\ Incoming("last")
    /\ conn' = IF conn = "syncing" THEN "ready" ELSE conn
    /\ inbox' = Tail(inbox)
    /\ UNCHANGED <<store, mem, pendingCancels, cmd, td, outside, history, spent>>

-------------------------------------------------------------------------------
(* The TD callback thread: fills *)

\* The owner comes from the number known in memory or, failing that, from the
\* row with the number; a message without flag matches any flag.
OnFill ==
    /\ Incoming("fill")
    /\ LET msg   == Head(inbox)
           known == msg.key \in OrderKeys /\ mem.byKey[msg.key] # None
           rows  == FindByOrderNo(orders, msg.key.no, msg.key.flag)
           With(who) == td' = [pc |-> "fill_store", msg |-> msg, who |-> who]
       IN  \/ known /\ With(mem.owner[mem.byKey[msg.key]]) /\ UNCHANGED mem
           \/ ~known /\ rows = {} /\ With(None) /\ UNCHANGED mem
           \/ ~known /\ \E k \in rows : With(k) /\ mem' = Hydrated(mem, k, orders[k])
    /\ inbox' = Tail(inbox)
    /\ UNCHANGED <<store, pendingCancels, cmd, conn, outside, history, spent>>

FillRecord ==
    /\ td.pc = "fill_store"
    /\ trades' = RecordTrade(trades, td.msg.native, td.who)
    /\ td' = IF TradeRecorded(trades, td.msg.native)
             THEN IdleTd ELSE [td EXCEPT !.pc = "fill_publish"]
    /\ UNCHANGED <<orders, mem, pendingCancels, cmd, inbox, conn, outside, history, spent>>

FillPublish ==
    /\ td.pc = "fill_publish"
    /\ announced' = [announced EXCEPT ![td.msg.native] = @ + 1]
    /\ td' = IdleTd
    /\ UNCHANGED <<store, mem, pendingCancels, cmd, inbox, conn, outside, sent,
                   cancelAsked, spent>>

\* A statement of a callback raises: run_callback swallows it and the rest of
\* the handler is skipped; whether the statement committed is unknown.
TdFault ==
    /\ Spend("fault", MaxFaults)
    /\ \/ td.pc = "order_identity" /\ UNCHANGED store
       \/ /\ td.pc = "order_store"
          /\ orders' \in {orders, UpdateTap(orders, td.msg.native,
                                            td.msg.key, td.msg.status)}
          /\ UNCHANGED trades
       \/ /\ td.pc = "fill_store"
          /\ trades' \in {trades, RecordTrade(trades, td.msg.native, td.who)}
          /\ UNCHANGED orders
    /\ td' = IdleTd
    /\ UNCHANGED <<mem, pendingCancels, cmd, inbox, conn, outside, history>>

-------------------------------------------------------------------------------
(* The exchange *)

ExchMoves(n, entry, msgs) ==
    /\ exch' = [exch EXCEPT ![n] = entry]
    /\ Push(msgs)
    /\ UNCHANGED <<store, mem, pendingCancels, cmd, td, conn, cancelReqs, history, spent>>

ExchAck(n) ==
    /\ exch[n].state = "sent"
    /\ \E key \in OrderKeys \ {exch[m].key : m \in Natives} :
          LET entry == [exch[n] EXCEPT !.state = "SUBMITTED", !.key = key]
          IN  ExchMoves(n, entry, <<OrderMessage(n, entry)>>)

ExchReject(n) ==
    /\ exch[n].state = "sent"
    /\ LET entry == [exch[n] EXCEPT !.state = "REJECTED"]
       IN  ExchMoves(n, entry, <<OrderMessage(n, entry)>>)

\* The fill and the order update reach the proxy in either order.
ExchFill(n) ==
    /\ exch[n].state = "SUBMITTED"
    /\ LET entry == [exch[n] EXCEPT !.state = "TRADED"]
       IN  \E fill \in FillsOf(n, entry.key) :
              \/ ExchMoves(n, entry, <<OrderMessage(n, entry), fill>>)
              \/ ExchMoves(n, entry, <<fill, OrderMessage(n, entry)>>)

ExchCancel(n) ==
    /\ exch[n].state = "SUBMITTED"
    /\ exch[n].key \in cancelReqs
    /\ LET entry == [exch[n] EXCEPT !.state = "CANCELLED"]
       IN  ExchMoves(n, entry, <<OrderMessage(n, entry)>>)

ResendFill(n) ==
    /\ exch[n].state = "TRADED"
    /\ LinkUp
    /\ Spend("resend", MaxResends)
    /\ \E fill \in FillsOf(n, exch[n].key) : inbox' = Append(inbox, fill)
    /\ UNCHANGED <<store, mem, pendingCancels, cmd, td, conn, outside, history>>

-------------------------------------------------------------------------------
(* The link and the process *)

\* connect: exit() of the old API joins its callback thread, so no callback
\* runs, and what it had not delivered is gone.
Connect ==
    /\ conn = "off"
    /\ td.pc = "idle"
    /\ conn' = "login"
    /\ inbox' = <<>>
    /\ UNCHANGED <<store, mem, pendingCancels, cmd, td, outside, history, spent>>

\* The exchange's answer to qryOrder: every order it has numbered or rejected.
Snapshot ==
    {OrderMessage(n, exch[n]) : n \in {m \in Natives : exch[m].state \in ExchangeStatuses}}

\* The last query of the initial synchronisation, answered in any row order.
QryOrder ==
    /\ conn = "login"
    /\ conn' = "syncing"
    /\ \E rows \in SetToSeqs(Snapshot) : inbox' = inbox \o rows \o <<NoMessage>>
    /\ UNCHANGED <<store, mem, pendingCancels, cmd, td, outside, history, spent>>

LinkDown ==
    /\ LinkUp
    /\ Spend("drop", MaxDrops)
    /\ conn' = IF conn = "ready" THEN "stale" ELSE "off"
    /\ UNCHANGED <<store, mem, pendingCancels, cmd, td, inbox, outside, history>>

OnDisconnect ==
    /\ conn = "stale"
    /\ td.pc = "idle"
    /\ inbox = <<>>
    /\ conn' = "off"
    /\ UNCHANGED <<store, mem, pendingCancels, cmd, td, inbox, outside, history, spent>>

\* The process dies anywhere and restarts on the tables it left.
CrashRestart ==
    /\ Spend("crash", MaxCrashes)
    /\ mem' = Restored(orders)
    /\ pendingCancels' = {}
    /\ cmd' = IdleCmd
    /\ td' = IdleTd
    /\ inbox' = <<>>
    /\ conn' = "off"
    /\ UNCHANGED <<store, outside, history>>

-------------------------------------------------------------------------------
Init ==
    /\ orders = [k \in Keys |-> NoRow]
    /\ trades = {}
    /\ mem = Restored(orders)
    /\ pendingCancels = {}
    /\ cmd = IdleCmd
    /\ td = IdleTd
    /\ inbox = <<>>
    /\ conn = "off"
    /\ exch = [n \in Natives |-> [owner |-> None, state |-> "none", key |-> NoOrderKey]]
    /\ cancelReqs = {}
    /\ sent = [k \in Keys |-> 0]
    /\ cancelAsked = {}
    /\ announced = [n \in Natives |-> 0]
    /\ spent = [crash |-> 0, drop |-> 0, fault |-> 0, resend |-> 0]

\* The steps of the two threads once a request or a message has arrived.
CmdStep ==
    \/ PlaceReserve
    \/ \E n \in Natives : InsertAccepted(n)
    \/ InsertRefused
    \/ InsertNoApi
    \/ PlaceSetNative
    \/ PlaceBind
    \/ PlaceMarkFailed
    \/ CancelPark
    \/ CancelSend

TdStep ==
    \/ OnOrder
    \/ OrderIdentity
    \/ OrderUpdate
    \/ OrderPublish
    \/ OnOrderLast
    \/ OnFill
    \/ FillRecord
    \/ FillPublish

Client == \E k \in Keys : PlaceOrder(k) \/ CancelOrder(k)

Exchange ==
    \E n \in Natives : \/ ExchAck(n)
                       \/ ExchReject(n)
                       \/ ExchFill(n)
                       \/ ExchCancel(n)
                       \/ ResendFill(n)

Link == Connect \/ QryOrder \/ LinkDown \/ OnDisconnect

Next == \/ Client
        \/ CmdStep
        \/ TdStep
        \/ Exchange
        \/ Link
        \/ CmdFault
        \/ TdFault
        \/ CrashRestart

Spec == Init /\ [][Next]_vars

\* Both threads run: each takes its next step unless the process dies.
FairSpec == Spec /\ WF_vars(CmdStep) /\ WF_vars(TdStep)

-------------------------------------------------------------------------------
(* Properties *)

\* A repeated place_order, in the same process or after any crash, never sends
\* a second insertOrder for one identity (place_order, reserve).
NoDoubleSubmit == \A k \in Keys : sent[k] <= 1

\* An order event is published to the identity that placed the order or to no
\* one, never to another owner (_update_order, _hydrate_record).
EventOwnerTrue ==
    td.pc \in {"order_store", "order_publish"} =>
        td.who \in {None, exch[td.msg.native].owner}

\* A stored trade belongs to the identity whose order was filled or to no one,
\* so get_trades never shows it to another owner (_update_trade).
TradeOwnerTrue ==
    \A t \in trades : t.owner \in {None, exch[t.match].owner}

\* A trade event is published at most once, and only after the trade is stored,
\* also when the exchange repeats the fill after a restart (_update_trade).
AnnouncedOnce ==
    \A n \in Natives : /\ announced[n] <= 1
                       /\ announced[n] = 1 => TradeRecorded(trades, n)

\* The exchange is asked to cancel an order only when its own owner asked for
\* it: parked cancels and restored numbers never mix two orders (_send_cancel).
CancelOnlyAsked ==
    \A n \in Natives : exch[n].key \in cancelReqs => exch[n].owner \in cancelAsked

\* A number the store knows is the number memory uses, also right after a
\* restart: the cancel path and the fill path agree with the rows
\* (_restore_order_mappings, _update_order).
StoredNumberLoaded ==
    \A k \in Keys :
        LET row == orders[k]
        IN  row.key # NoOrderKey => /\ mem.key[row.native] = row.key
                                    /\ mem.byKey[row.key] = row.native
                                    /\ exch[row.native].key = row.key

\* While the session is ready, the number of an order is known to the proxy or
\* on its way to it: pushes and the snapshot of each new link leave no order
\* that could not be cancelled (on_order_response, _update_order).
NumberKnownOrQueued ==
    IsReady /\ LinkUp =>
        \A n \in Natives : exch[n].key # NoOrderKey =>
            \/ mem.key[n] = exch[n].key
            \/ \E i \in DOMAIN inbox : inbox[i].kind = "order" /\ inbox[i].native = n

\* A row left in PENDING_SUBMIT by a crash or a fault is in doubt for good: no
\* later step submits the order again or settles the row (place_order).
InDoubt(k) == orders[k].status = "PENDING_SUBMIT" /\ cmd.key # k

InDoubtStays ==
    [][\A k \in Keys : InDoubt(k) => InDoubt(k)' /\ sent'[k] = sent[k]]_vars

\* The ids a row has received are never replaced, by whichever thread, restart
\* or late message (set_native, update_tap).
BindingsPermanent ==
    [][\A k \in Keys :
          /\ orders[k].native # None => orders'[k].native = orders[k].native
          /\ orders[k].key # NoOrderKey => orders'[k].key = orders[k].key]_vars

\* place_order with its store implements SubmitOnce.
PhaseOf(row) ==
    CASE row.status = "ABSENT"         -> "new"
      [] row.status = "PENDING_SUBMIT" -> "claimed"
      [] row.status = "SUBMIT_FAILED"  -> "failed"
      [] OTHER                         -> "accepted"

Abstract == INSTANCE SubmitOnce
                WITH phase <- [k \in Keys |-> PhaseOf(orders[k])], calls <- sent

\* Every behaviour of the order path is one of SubmitOnce.
SubmitsOnce == Abstract!Spec

\* A cancel accepted as pending is sent once the order has its number, unless
\* the order is over before (cancel_order, _update_order).
AcceptedCancelSent ==
    \A n \in Natives :
        (n \in pendingCancels /\ exch[n].state = "SUBMITTED")
            ~> (exch[n].state # "SUBMITTED" \/ exch[n].key \in cancelReqs)

\* A stored trade is found by the owner of the filled order (_update_trade).
TradeReachesOwner ==
    \A t \in trades : t.owner = exch[t.match].owner
===============================================================================
