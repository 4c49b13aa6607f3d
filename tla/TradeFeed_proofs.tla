--------------------------- MODULE TradeFeed_proofs ---------------------------
(***************************************************************************)
(* Theorems of TradeFeed for every value of its constants: its types, that *)
(* a fill is stored once, that paging is complete, that a client that has  *)
(* caught up may trust the events, that stop drains the queue, and that    *)
(* the feed implements TradeLog.                                           *)
(***************************************************************************)
EXTENDS TradeFeed, FiniteSetTheorems, WellFoundedInduction, SequenceTheorems, TLAPS

-------------------------------------------------------------------------------
(* The inductive invariant *)

Announcing == td.pc \in {"account", "strategy"}
Sending == pub.pc = "send"

\* Ids and event ids are unique; a trade's owner is its true one or none.
RowsInv ==
    /\ IsFiniteSet(rows)
    /\ \A r \in rows : r.id <= lastId /\ r.owner \in {NoOwner, OwnerOf(r.fill)}
    /\ \A r, q \in rows : r.id = q.id \/ EventId(r) = EventId(q) => r = q
    /\ td.pc = "record" =>
         lastId < MaxId /\ td.trade.owner \in {NoOwner, OwnerOf(td.trade.fill)}

\* What is announced, queued, sent, missed or known has been stored.
KnownInv ==
    /\ Announcing => td.trade \in rows
    /\ \A i \in DOMAIN queue : queue[i].trade \in rows
    /\ Sending => pub.event.trade \in rows
    /\ unsent \subseteq rows
    /\ seen \subseteq Owned /\ client.page.rows \subseteq Owned

\* Events are under way in the order of the ids.
OrderInv ==
    /\ \A i, j \in DOMAIN queue : i <= j => queue[i].trade.id <= queue[j].trade.id
    /\ Announcing => \A i \in DOMAIN queue : queue[i].trade.id <= td.trade.id
    /\ Sending => \A i \in DOMAIN queue : pub.event.trade.id <= queue[i].trade.id
    /\ Announcing /\ Sending => pub.event.trade.id <= td.trade.id

\* A page on its way has all that lies between the cursors before and after it.
PageInv ==
    /\ PagedComplete
    /\ cursor <= lastId
    /\ client.pc = "new" => cursor = 0
    /\ client.pc = "answered" =>
         /\ cursor <= client.page.next /\ client.page.next <= lastId
         /\ \A r \in client.page.rows : r.id <= client.page.next
         /\ \A r \in Owned : cursor < r.id /\ r.id <= client.page.next => r \in client.page.rows

\* The strategy's event of a trade is still to come.
InFlight(t) ==
    \/ Announcing /\ td.trade = t
    \/ \E i \in DOMAIN queue : queue[i].topic = "strategy" /\ queue[i].trade = t
    \/ Sending /\ pub.event.topic = "strategy" /\ pub.event.trade = t

\* With what is in S the client will not miss a trade but for the unsent.
Covered(S) ==
    \A t \in Owned : base < t.id => t \in seen \cup unsent \cup S \/ InFlight(t)

\* What is still to come is newer than all the client knows.
NoOvertaking ==
    \A t \in Owned : base < t.id /\ InFlight(t) /\ t \notin seen \cup unsent =>
        \A q \in seen : q.id < t.id

LiveInv ==
    /\ client.synced \/ client.page.linked => linked
    /\ client.synced => Covered({})
    /\ client.pc = "answered" /\ client.page.linked /\ ~client.page.more =>
         Covered(client.page.rows)
    /\ NoOvertaking

\* A publisher that has ended has left nothing behind from before the stop.
DrainInv == pub.pc = "exit" => ~Active /\ \A i \in DOMAIN queue : ~queue[i].early

Inv == TypeOK /\ RowsInv /\ KnownInv /\ OrderInv /\ PageInv /\ LiveInv /\ DrainInv

-------------------------------------------------------------------------------
(* What the operators of the model return *)

\* A set of ids has a greatest one.
LEMMA MaxOfIds ==
    ASSUME NEW n \in Nat, NEW S \in SUBSET (0..n), S # {}
    PROVE  Max(S) \in S /\ \A y \in S : y <= Max(S)
<1>. DEFINE Gaps == {g \in Nat : \E x \in S : g = n - x}
<1>1. Gaps \subseteq Nat /\ Gaps # {}
  <2>1. PICK x \in S : TRUE
    OBVIOUS
  <2>2. n - x \in Gaps
    BY <2>1
  <2>. QED
    BY <2>2
<1>2. PICK g \in Gaps : \A h \in Gaps : ~ (<<h, g>> \in OpToRel(<, Nat))
  <2>. HIDE DEF Gaps
  <2>. QED
    BY <1>1, NatLessThanWellFounded, WFMin
<1>3. \A h \in Gaps : ~ (h < g)
  BY <1>1, <1>2 DEF OpToRel
<1>4. PICK x \in S : g = n - x
  BY <1>2
<1>5. \A y \in S : x >= y
  <2>1. TAKE y \in S
  <2>2. n - y \in Gaps
    BY <2>1
  <2>3. ~ (n - y < n - x)
    BY <1>3, <1>4, <2>2
  <2>. QED
    BY <2>1, <2>3
<1>6. \E z \in S : \A y \in S : z >= y
  BY <1>5
<1>7. Max(S) \in S /\ \A y \in S : Max(S) >= y
  BY <1>6 DEF Max
<1>. QED
  BY <1>7

\* A page is made of stored trades of the client.  It has every one up to its
\* cursor, or every one there is if there is no more (list_trades).
LEMMA PageOf ==
    ASSUME TypeOK, IsFiniteSet(rows), NEW after \in 0..MaxId
    PROVE  LET page == Page(after)
           IN  /\ page \in Pages
               /\ page.linked = linked
               /\ page.rows \subseteq Owned
               /\ after <= page.next
               /\ page.next = after \/ \E r \in rows : page.next = r.id
               /\ \A r \in page.rows : r.id <= page.next
               /\ \A r \in Owned : after < r.id /\ r.id <= page.next => r \in page.rows
               /\ ~page.more => \A r \in Owned : after < r.id => r \in page.rows
<1>. DEFINE later == {r \in Owned : r.id > after}
            upto(r) == {q \in later : q.id <= r.id}
            page == {r \in later : Cardinality(upto(r)) <= Limit}
            ids == {after} \cup Ids(page)
<1>1. /\ Page(after).rows = page /\ Page(after).next = Max(ids)
      /\ Page(after).more = (Cardinality(later) > Limit)
      /\ Page(after).linked = linked
      /\ Page(after) = [rows |-> page, next |-> Max(ids),
                        more |-> Cardinality(later) > Limit, linked |-> linked]
  BY DEF Page
<1>2. MaxId \in Nat /\ Limit \in Nat
  BY FeedAssumption
<1>3. \A r \in rows : r \in Rows /\ r.id \in 0..MaxId
  BY DEF TypeOK, Rows, Trades
<1>4. page \subseteq later /\ later \subseteq Owned /\ Owned \subseteq rows
  BY DEF Owned
<1>5. ids \in SUBSET (0..MaxId) /\ ids # {}
  BY <1>3, <1>4 DEF Ids
<1>6. Max(ids) \in ids /\ \A y \in ids : y <= Max(ids)
  BY <1>2, <1>5, MaxOfIds
<1>7. \A r \in page : r.id \in ids
  BY DEF Ids
<1>8. \A S \in SUBSET later : IsFiniteSet(S) /\ Cardinality(S) \in Nat
  BY <1>4, FS_Subset, FS_CardinalityType
<1>9. \A r \in later, q \in page : r.id <= q.id => r \in page
  <2>1. SUFFICES ASSUME NEW r \in later, NEW q \in page, r.id <= q.id
                 PROVE  r \in page
    OBVIOUS
  <2>2. upto(r) \subseteq upto(q)
    BY <1>3, <1>4, <2>1
  <2>3. Cardinality(upto(r)) <= Cardinality(upto(q))
    BY <1>8, <2>2, FS_Subset
  <2>. QED
    BY <1>2, <1>8, <2>1, <2>3
<1>10. Cardinality(later) <= Limit => later \subseteq page
  <2>1. SUFFICES ASSUME Cardinality(later) <= Limit, NEW r \in later
                 PROVE  Cardinality(upto(r)) <= Limit
    OBVIOUS
  <2>2. Cardinality(upto(r)) <= Cardinality(later)
    BY <1>8, FS_Subset
  <2>. QED
    BY <1>2, <1>8, <2>1, <2>2
<1>11. Page(after) \in Pages
  <2>1. page \in SUBSET Rows /\ Max(ids) \in 0..MaxId /\ linked \in BOOLEAN
    BY <1>3, <1>4, <1>5, <1>6 DEF TypeOK
  <2>. HIDE DEF page, ids, later
  <2>. QED
    BY <1>1, <2>1 DEF Pages
<1>12. Max(ids) = after \/ \E r \in page : Max(ids) = r.id
  BY <1>6 DEF Ids
<1>13. \A r \in Owned : after < r.id => r \in later
  BY <1>3, <1>4
<1>14. \A r \in later : r.id <= Max(ids) => r \in page
  <2>1. SUFFICES ASSUME NEW r \in later, r.id <= Max(ids) PROVE r \in page
    OBVIOUS
  <2>2. r.id > after /\ r.id \in Nat /\ after \in Nat
    BY <1>3, <1>4
  <2>3. PICK q \in page : Max(ids) = q.id
    BY <1>12, <2>1, <2>2
  <2>. QED
    BY <1>9, <2>1, <2>3
<1>15. after <= Max(ids) /\ \A r \in page : r.id <= Max(ids)
  BY <1>6, <1>7
<1>16. ~(Cardinality(later) > Limit) => Cardinality(later) <= Limit
  BY <1>2, <1>8
<1>. HIDE DEF page, ids, later
<1>17. /\ Page(after).rows \subseteq Owned
       /\ Page(after).next = after \/ \E r \in rows : Page(after).next = r.id
  BY <1>1, <1>4, <1>12
<1>18. /\ \A r \in Owned : after < r.id /\ r.id <= Page(after).next => r \in Page(after).rows
       /\ ~Page(after).more => \A r \in Owned : after < r.id => r \in Page(after).rows
  BY <1>1, <1>10, <1>13, <1>14, <1>16
<1>. QED
  BY <1>1, <1>11, <1>15, <1>17, <1>18

\* What enqueue_publish does to the queue.
LEMMA EnqueueEffect ==
    ASSUME TypeOK, Announcing, NEW topic \in {"account", "strategy"}, Enqueue(topic)
    PROVE  /\ queue' \in Seq(Events) /\ Len(queue') <= QueueSize
           /\ \/ /\ DOMAIN queue' = 1..(Len(queue) + 1)
                 /\ \A i \in DOMAIN queue : queue'[i] = queue[i]
                 /\ queue'[Len(queue) + 1] =
                      [topic |-> topic, trade |-> td.trade, early |-> Active]
                 /\ unsent' = unsent
              \/ /\ queue' = queue
                 /\ unsent' = unsent \cup {t \in {td.trade} : topic = "strategy"}
<1>. DEFINE event == [topic |-> topic, trade |-> td.trade, early |-> Active]
<1>1. QueueSize \in Nat /\ queue \in Seq(Events) /\ Len(queue) \in Nat
  BY FeedAssumption, LenProperties DEF TypeOK
<1>2. event \in Events
  BY DEF TypeOK, Events, Announcing, Idle, Active
<1>3. CASE Len(queue) < QueueSize
  <2>1. queue' = Append(queue, event) /\ unsent' = unsent
    BY <1>3 DEF Enqueue
  <2>. HIDE DEF event
  <2>2. /\ queue' \in Seq(Events) /\ Len(queue') = Len(queue) + 1
        /\ \A i \in 1..Len(queue) : queue'[i] = queue[i]
        /\ queue'[Len(queue) + 1] = event
    BY <1>1, <1>2, <2>1, AppendProperties
  <2>3. DOMAIN queue = 1..Len(queue) /\ DOMAIN queue' = 1..Len(queue')
    BY <1>1, <2>2, LenProperties
  <2>4. Len(queue') <= QueueSize
    BY <1>1, <1>3, <2>2
  <2>5. DOMAIN queue' = 1..(Len(queue) + 1)
    BY <2>2, <2>3
  <2>6. \A i \in DOMAIN queue : queue'[i] = queue[i]
    BY <2>2, <2>3
  <2>. QED
    BY <2>1, <2>2, <2>4, <2>5, <2>6 DEF event
<1>4. CASE ~(Len(queue) < QueueSize)
  BY <1>4 DEF Enqueue, Misses, TypeOK
<1>. QED
  BY <1>3, <1>4

\* What taking the first event does to the queue.
LEMMA GetEffect ==
    ASSUME TypeOK, queue # <<>>
    PROVE  /\ 1 \in DOMAIN queue /\ Head(queue) = queue[1] /\ queue[1] \in Events
           /\ Tail(queue) \in Seq(Events) /\ Len(Tail(queue)) <= QueueSize
           /\ \A i \in DOMAIN Tail(queue) : i + 1 \in DOMAIN queue /\ Tail(queue)[i] = queue[i + 1]
           /\ \A i \in DOMAIN queue : i # 1 => i - 1 \in DOMAIN Tail(queue)
<1>1. QueueSize \in Nat /\ queue \in Seq(Events) /\ Len(queue) \in Nat \ {0}
  BY FeedAssumption, EmptySeq DEF TypeOK
<1>2. /\ Tail(queue) \in Seq(Events) /\ Len(Tail(queue)) = Len(queue) - 1
      /\ \A i \in 1..Len(Tail(queue)) : Tail(queue)[i] = queue[i + 1]
  BY <1>1, HeadTailProperties
<1>3. DOMAIN queue = 1..Len(queue) /\ DOMAIN Tail(queue) = 1..Len(Tail(queue))
  BY <1>1, <1>2, LenProperties
<1>4. Head(queue) = queue[1] /\ queue[1] \in Events
  BY <1>1, ElementOfSeq
<1>. QED
  BY <1>1, <1>2, <1>3, <1>4 DEF TypeOK

-------------------------------------------------------------------------------
(* Types, one part per group of variables *)

TableType == rows \subseteq Rows /\ lastId \in 0..MaxId /\ unsent \subseteq Rows
TdType == td \in {Idle} \cup [pc: {"record"}, trade: Trades]
                        \cup [pc: {"account", "strategy"}, trade: Rows]
QueueType == queue \in Seq(Events) /\ Len(queue) <= QueueSize
PubType == pub \in [pc: {"get", "exit"}] \cup [pc: {"send"}, event: Events]
ClientType == client \in [pc: {"new", "idle", "answered"}, page: Pages, synced: BOOLEAN]
CursorType == /\ linked \in BOOLEAN
              /\ base \in 0..MaxId /\ cursor \in base..MaxId
              /\ seen \subseteq Rows
MainType == /\ main \in {"serving", "stopping", "closed", "stopped"}
            /\ spent \in [restart: 0..MaxRestarts, fault: 0..MaxFaults]

Types == /\ TableType /\ TdType /\ QueueType /\ PubType
         /\ ClientType /\ CursorType /\ MainType

\* The parts make up TypeOK, before and after a step.
LEMMA TypeParts == (TypeOK <=> Types) /\ (TypeOK' <=> Types')
BY DEF TypeOK, Types, TableType, TdType, QueueType, PubType, ClientType, CursorType, MainType

\* A disturbance is counted up to its bound.
LEMMA SpendType ==
    ASSUME TypeOK,
           Spend("fault", MaxFaults) \/ Spend("restart", MaxRestarts) \/ UNCHANGED spent
    PROVE  spent' \in [restart: 0..MaxRestarts, fault: 0..MaxFaults]
<1>1. MaxFaults \in Nat /\ MaxRestarts \in Nat
  BY FeedAssumption
<1>2. spent \in [restart: 0..MaxRestarts, fault: 0..MaxFaults]
  BY DEF TypeOK
<1>3. CASE Spend("fault", MaxFaults)
  <2>1. spent["fault"] < MaxFaults /\ spent' = [spent EXCEPT !["fault"] = spent["fault"] + 1]
    BY <1>3 DEF Spend
  <2>2. spent["fault"] \in 0..MaxFaults
    BY <1>2
  <2>3. spent["fault"] + 1 \in 0..MaxFaults
    BY <1>1, <2>1, <2>2
  <2>. QED
    BY <1>2, <2>1, <2>3
<1>4. CASE Spend("restart", MaxRestarts)
  <2>1. spent["restart"] < MaxRestarts /\ spent' = [spent EXCEPT !["restart"] = spent["restart"] + 1]
    BY <1>4 DEF Spend
  <2>2. spent["restart"] \in 0..MaxRestarts
    BY <1>2
  <2>3. spent["restart"] + 1 \in 0..MaxRestarts
    BY <1>1, <2>1, <2>2
  <2>. QED
    BY <1>2, <2>1, <2>3
<1>. QED
  BY <1>2, <1>3, <1>4

\* A trade about to be stored gets a new id and keeps its event id.
LEMMA DrawnIsNew ==
    ASSUME Inv, td.pc = "record"
    PROVE  /\ Drawn \in Rows /\ Drawn.id = lastId + 1 /\ Drawn.id \in 0..MaxId
           /\ Drawn.owner \in {NoOwner, OwnerOf(Drawn.fill)}
           /\ EventId(Drawn) = EventId(td.trade)
           /\ \A r \in rows : r.id < Drawn.id /\ r.id \in 0..MaxId
           /\ Drawn \notin rows
<1>1. td.trade \in Trades
  BY DEF Inv, TypeOK, Idle, Rows
<1>2. lastId \in 0..MaxId /\ lastId < MaxId /\ MaxId \in Nat
  BY FeedAssumption DEF Inv, TypeOK, RowsInv
<1>3. /\ Drawn \in Rows /\ Drawn.id = lastId + 1
      /\ Drawn.fill = td.trade.fill /\ Drawn.owner = td.trade.owner
  BY <1>1, <1>2 DEF Drawn, Rows, Trades
<1>4. \A r \in rows : r.id <= lastId /\ r.id \in 0..MaxId
  BY DEF Inv, TypeOK, RowsInv, Rows, Trades
<1>. QED
  BY <1>2, <1>3, <1>4 DEF Inv, RowsInv, EventId

\* Storing it keeps ids and event ids unique.
LEMMA StoredRows ==
    ASSUME Inv, td.pc = "record", ~Duplicate, rows' = rows \cup {Drawn},
           lastId' = lastId + 1, td'.pc # "record"
    PROVE  RowsInv'
<1>1. IsFiniteSet(rows')
  BY FS_AddElement DEF Inv, RowsInv
<1>2. \A r \in rows' : r.id <= lastId' /\ r.owner \in {NoOwner, OwnerOf(r.fill)}
  BY DrawnIsNew DEF Inv, TypeOK, RowsInv
<1>3. \A r \in rows : EventId(r) # EventId(Drawn) /\ r.id # Drawn.id
  BY DrawnIsNew DEF Duplicate
<1>4. \A r, q \in rows' : r.id = q.id \/ EventId(r) = EventId(q) => r = q
  BY <1>3 DEF Inv, RowsInv
<1>5. \A r : EventId(r)' = EventId(r)
  BY DEF EventId
<1>. QED
  BY <1>1, <1>2, <1>4, <1>5 DEF RowsInv

\* The rows are left alone, whatever becomes of the id.
LEMMA SameRows ==
    ASSUME Inv, UNCHANGED rows, lastId' \in {lastId, lastId + 1},
           td'.pc = "record" => td' = td /\ lastId' = lastId
    PROVE  RowsInv'
<1>1. \A r : EventId(r)' = EventId(r)
  BY DEF EventId
<1>2. \A r \in rows : r.id <= lastId /\ r.id \in Nat /\ lastId \in Nat
  BY DEF Inv, RowsInv, TypeOK, Rows, Trades
<1>3. \A r \in rows : r.id <= lastId'
  BY <1>2
<1>. QED
  BY <1>1, <1>3 DEF Inv, RowsInv

\* What the client has, and what it has been sent, outlives a new row.
LEMMA PageKept ==
    ASSUME Inv, lastId' \in {lastId, lastId + 1}, UNCHANGED <<reader, seen>>,
           rows' = rows \/ (td.pc = "record" /\ rows' = rows \cup {Drawn} /\ lastId' = lastId + 1)
    PROVE  PageInv'
<1>1. Owned' \subseteq Owned \cup {Drawn} /\ (rows' = rows => Owned' = Owned)
  BY DEF Owned
<1>2. lastId \in Nat /\ cursor \in Nat /\ cursor <= lastId /\ client.page.next \in Nat
  BY DEF Inv, TypeOK, PageInv, Pages
<1>3. rows' # rows => Drawn.id > lastId /\ Drawn.id \in Nat
  BY <1>2, DrawnIsNew
<1>. QED
  BY <1>1, <1>2, <1>3 DEF Inv, PageInv, PagedComplete, reader

-------------------------------------------------------------------------------
(* What becomes of the events under way *)

\* Nothing stirs between the TD thread and the socket.
LEMMA SamePipeline ==
    ASSUME UNCHANGED <<td, queue, pub>>
    PROVE  \A t : InFlight(t)' <=> InFlight(t)
BY DEF InFlight, Announcing, Sending

\* An event may go on, be dropped, or arrive in order: the client misses
\* nothing but what is dropped.
LEMMA LiveMoves ==
    ASSUME Inv, UNCHANGED <<rows, reader>>, seen \subseteq seen', unsent \subseteq unsent',
           \A t \in Owned : InFlight(t) => InFlight(t)' \/ t \in unsent' \/ (linked => t \in seen'),
           \A t \in Owned : InFlight(t)' => InFlight(t),
           \A q \in seen' \ seen, t \in Owned : InFlight(t)' /\ t # q => q.id < t.id
    PROVE  LiveInv'
<1>1. Owned' = Owned
  BY DEF Owned
<1>2. \A S : linked /\ Covered(S) => Covered(S)'
  BY <1>1 DEF Covered, reader
<1>3. NoOvertaking'
  BY <1>1 DEF Inv, LiveInv, NoOvertaking, reader
<1>4. /\ client.synced => Covered({})'
      /\ client.pc = "answered" /\ client.page.linked /\ ~client.page.more =>
            Covered(client.page.rows)'
  BY <1>2 DEF Inv, LiveInv, reader
<1>. QED
  BY <1>3, <1>4 DEF Inv, LiveInv, reader

\* A new row is announced or counted as unsent, and newer than all there is.
LEMMA LiveStores ==
    ASSUME Inv, td.pc = "record", UNCHANGED <<reader, seen>>, NEW new, new = Drawn,
           rows' = rows \cup {new}, unsent \subseteq unsent',
           \A t \in rows : InFlight(t)' <=> InFlight(t),
           InFlight(new)' \/ new \in unsent'
    PROVE  LiveInv'
<1>1. Owned \subseteq rows /\ Owned \subseteq Owned' /\ Owned' \subseteq Owned \cup {new}
  BY DEF Owned
<1>2. \A S : Covered(S) => Covered(S)'
  BY <1>1 DEF Covered, reader
<1>3. \A q \in seen : q.id < new.id
  BY <1>1, DrawnIsNew DEF Inv, KnownInv
<1>4. NoOvertaking'
  BY <1>1, <1>3 DEF Inv, LiveInv, NoOvertaking, reader
<1>. QED
  BY <1>2, <1>4 DEF Inv, LiveInv, reader

\* The publish queue of the TD thread.
LEMMA Announced ==
    ASSUME Inv, NEW topic \in {"account", "strategy"}, td.pc = topic, Enqueue(topic),
           UNCHANGED <<rows, pub, main, reader, seen>>
    PROVE  /\ QueueType'
           /\ unsent' \subseteq rows
           /\ \A i \in DOMAIN queue' :
                 \/ i \in DOMAIN queue /\ queue'[i] = queue[i]
                 \/ /\ i = Len(queue) + 1 /\ queue'[i].trade = td.trade
                    /\ queue'[i].topic = topic /\ queue'[i].early = Active
           /\ DrainInv'
           /\ \A i, j \in DOMAIN queue' : i <= j => queue'[i].trade.id <= queue'[j].trade.id
           /\ \A i \in DOMAIN queue' : queue'[i].trade \in rows /\ queue'[i].trade.id <= td.trade.id
           /\ Sending => \A i \in DOMAIN queue' : pub.event.trade.id <= queue'[i].trade.id
           /\ td.trade \in unsent' \/ topic = "account" \/
                 \E i \in DOMAIN queue' : queue'[i].topic = "strategy" /\ queue'[i].trade = td.trade
           /\ \A i \in DOMAIN queue : i \in DOMAIN queue' /\ queue'[i] = queue[i]
           /\ unsent \subseteq unsent'
<1>1. Announcing /\ td.trade \in rows /\ td.trade.id \in Nat
  BY DEF Announcing, Inv, KnownInv, TypeOK, Rows, Trades
<1>2. TypeOK /\ queue \in Seq(Events) /\ Len(queue) \in Nat /\ DOMAIN queue = 1..Len(queue)
  BY LenProperties DEF Inv, TypeOK
<1>3. /\ queue' \in Seq(Events) /\ Len(queue') <= QueueSize
      /\ \/ /\ DOMAIN queue' = 1..(Len(queue) + 1)
            /\ \A i \in DOMAIN queue : queue'[i] = queue[i]
            /\ queue'[Len(queue) + 1] =
                 [topic |-> topic, trade |-> td.trade, early |-> Active]
            /\ unsent' = unsent
         \/ /\ queue' = queue
            /\ unsent' = unsent \cup {t \in {td.trade} : topic = "strategy"}
  BY <1>1, <1>2, EnqueueEffect
<1>4. QueueType' /\ unsent' \subseteq rows /\ unsent \subseteq unsent'
  BY <1>1, <1>3 DEF QueueType, Inv, KnownInv
<1>5. \A i \in DOMAIN queue' :
         \/ i \in DOMAIN queue /\ queue'[i] = queue[i]
         \/ /\ i = Len(queue) + 1 /\ queue'[i].trade = td.trade
            /\ queue'[i].topic = topic /\ queue'[i].early = Active
  BY <1>2, <1>3
<1>6. \A i \in DOMAIN queue : i \in DOMAIN queue' /\ queue'[i] = queue[i]
  BY <1>2, <1>3
<1>7. DrainInv'
  BY <1>5 DEF DrainInv, Inv, Active
<1>8. \A i \in DOMAIN queue' : queue'[i].trade \in rows /\ queue'[i].trade.id <= td.trade.id
  BY <1>1, <1>5 DEF Inv, KnownInv, OrderInv
<1>9. \A i, j \in DOMAIN queue' : i <= j => queue'[i].trade.id <= queue'[j].trade.id
  BY <1>2, <1>5, <1>8 DEF Inv, OrderInv
<1>10. Sending => \A i \in DOMAIN queue' : pub.event.trade.id <= queue'[i].trade.id
  BY <1>1, <1>5 DEF Inv, OrderInv
<1>11. td.trade \in unsent' \/ topic = "account" \/
          \E i \in DOMAIN queue' : queue'[i].topic = "strategy" /\ queue'[i].trade = td.trade
  BY <1>2, <1>3
<1>. QED
  BY <1>4, <1>5, <1>6, <1>7, <1>8, <1>9, <1>10, <1>11

-------------------------------------------------------------------------------
(* Every step preserves the invariant *)

\* The feed starts with nothing stored, queued or known.
LEMMA InvInit == Init => Inv
<1>. SUFFICES ASSUME Init PROVE Inv
  OBVIOUS
<1>1. TypeOK
  <2>1. QueueType
    BY FeedAssumption, EmptySeq DEF Init, QueueType
  <2>2. ClientType
    BY FeedAssumption DEF Init, NoPage, Pages, ClientType
  <2>3. TableType /\ TdType /\ PubType
    BY FeedAssumption DEF Init, TableType, TdType, PubType
  <2>4. CursorType /\ MainType
    <3>1. 0 \in 0..MaxId /\ 0 \in 0..MaxRestarts /\ 0 \in 0..MaxFaults
      BY FeedAssumption
    <3>. QED
      BY <3>1 DEF Init, CursorType, MainType
  <2>. QED
    BY <2>1, <2>2, <2>3, <2>4, TypeParts DEF Types
<1>2. RowsInv
  BY FS_EmptySet DEF Init, RowsInv, Idle
<1>3. KnownInv /\ OrderInv
  BY DEF Init, KnownInv, OrderInv, Announcing, Sending, Idle, NoPage
<1>4. PageInv
  BY DEF Init, PageInv, PagedComplete, Owned
<1>5. LiveInv /\ DrainInv
  BY DEF Init, LiveInv, DrainInv, NoOvertaking, NoPage
<1>. QED
  BY <1>1, <1>2, <1>3, <1>4, <1>5 DEF Inv

\* A fill begins to be handled; nothing is announced yet.
LEMMA OnFillInv == ASSUME Inv, NEW f \in Fills, OnFill(f) PROVE Inv'
<1>1. PICK owner \in {OwnerOf(f), NoOwner} :
         td' = [pc |-> "record", trade |-> [id |-> 0, fill |-> f, owner |-> owner]]
  BY DEF OnFill
<1>2. td'.pc = "record" /\ td'.trade.fill = f /\ td'.trade.owner = owner /\ td.pc = "idle"
  BY <1>1 DEF OnFill, Idle
<1>3. TypeOK'
  <2>1. TdType'
    BY <1>1, FeedAssumption DEF TdType, Trades, Owners, OwnerOf
  <2>. QED
    BY <2>1, TypeParts DEF Inv, OnFill, table, reader, Types, TableType, QueueType, PubType,
                           ClientType, CursorType, MainType
<1>4. RowsInv'
  BY <1>2 DEF Inv, RowsInv, EventId, OnFill, table
<1>5. KnownInv'
  BY <1>2 DEF Inv, KnownInv, Announcing, Sending, Owned, OnFill, table, reader
<1>6. OrderInv'
  BY <1>2 DEF Inv, OrderInv, Announcing, Sending, OnFill, table
<1>7. PageInv'
  BY PageKept DEF OnFill, table
<1>8. LiveInv'
  <2>1. \A t : InFlight(t)' <=> InFlight(t)
    BY <1>2 DEF InFlight, Announcing, Sending, OnFill
  <2>. QED
    BY <2>1, LiveMoves DEF OnFill, table
<1>9. DrainInv'
  BY DEF Inv, DrainInv, Active, OnFill
<1>. QED
  BY <1>3, <1>4, <1>5, <1>6, <1>7, <1>8, <1>9 DEF Inv

\* The row is stored and announced next, or is a duplicate.
LEMMA RecordTradeInv == ASSUME Inv, RecordTrade PROVE Inv'
<1>. USE DEF RecordTrade
<1>1. CASE Duplicate
  <2>1. td' = Idle /\ UNCHANGED <<rows, queue, pub, main, reader, seen, unsent, spent>>
        /\ lastId' = lastId + 1 /\ td.pc = "record" /\ td'.pc = "idle"
    BY <1>1 DEF Idle
  <2>2. TypeOK'
    <3>1. lastId' \in 0..MaxId
      BY <2>1, FeedAssumption DEF Inv, TypeOK, RowsInv
    <3>. QED
      BY <2>1, <3>1, TypeParts DEF Inv, reader, Types, TableType, TdType, QueueType, PubType,
                             ClientType, CursorType, MainType
  <2>3. RowsInv'
    BY <2>1, SameRows
  <2>4. KnownInv' /\ OrderInv' /\ DrainInv'
    BY <2>1 DEF Inv, KnownInv, OrderInv, DrainInv, Announcing, Sending, Owned, Active, reader
  <2>5. PageInv'
    BY <2>1, PageKept
  <2>6. \A t : InFlight(t)' <=> InFlight(t)
    BY <2>1 DEF InFlight, Announcing, Sending
  <2>7. LiveInv'
    BY <2>1, <2>6, LiveMoves
  <2>. QED
    BY <2>2, <2>3, <2>4, <2>5, <2>7 DEF Inv
<1>2. CASE ~Duplicate
  <2>1. /\ rows' = rows \cup {Drawn} /\ lastId' = lastId + 1 /\ td.pc = "record"
        /\ td'.pc = "account" /\ td'.trade = Drawn /\ td' = [pc |-> "account", trade |-> Drawn]
        /\ UNCHANGED <<queue, pub, main, reader, seen, unsent, spent>>
    BY <1>2
  <2>2. TypeOK'
    BY <2>1, DrawnIsNew, TypeParts
       DEF Inv, reader, Types, TableType, TdType, QueueType, PubType, ClientType,
           CursorType, MainType
  <2>3. RowsInv'
    BY <1>2, <2>1, StoredRows
  <2>4. KnownInv'
    BY <2>1 DEF Inv, KnownInv, Announcing, Sending, Owned, reader
  <2>5. OrderInv'
    <3>1. Announcing' /\ (Sending' <=> Sending)
      BY <2>1 DEF Announcing, Sending
    <3>2. \A r \in rows : r.id <= Drawn.id
      BY <2>1, DrawnIsNew
    <3>. QED
      BY <2>1, <3>1, <3>2 DEF Inv, KnownInv, OrderInv
  <2>6. PageInv'
    BY <2>1, PageKept
  <2>7. LiveInv'
    <3>1. \A t \in rows : InFlight(t)' <=> InFlight(t)
      BY <2>1, DrawnIsNew DEF InFlight, Announcing, Sending
    <3>2. PICK new : new = Drawn
      OBVIOUS
    <3>3. InFlight(new)'
      BY <2>1, <3>2 DEF InFlight, Announcing
    <3>. QED
      BY <2>1, <3>1, <3>2, <3>3, LiveStores
  <2>8. DrainInv'
    BY <2>1 DEF Inv, DrainInv, Active
  <2>. QED
    BY <2>2, <2>3, <2>4, <2>5, <2>6, <2>7, <2>8 DEF Inv
<1>. QED
  BY <1>1, <1>2

\* The statement raises: a row it has left behind counts as unsent.
LEMMA RecordRaisesInv == ASSUME Inv, RecordRaises PROVE Inv'
<1>1. /\ td.pc = "record" /\ td' = Idle /\ td'.pc = "idle" /\ lastId' = lastId + 1
      /\ UNCHANGED <<queue, pub, main, reader, seen>> /\ Spend("fault", MaxFaults)
      /\ \/ UNCHANGED <<rows, unsent>>
         \/ ~Duplicate /\ rows' = rows \cup {Drawn} /\ unsent' = unsent \cup {Drawn}
  BY DEF RecordRaises, Idle
<1>2. TypeOK'
  <2>1. TableType'
    BY <1>1, DrawnIsNew, TypeParts DEF Inv, Types, TableType
  <2>2. MainType'
    BY <1>1, SpendType DEF Inv, MainType, TypeOK
  <2>. QED
    BY <1>1, <2>1, <2>2, TypeParts
       DEF Inv, reader, Types, TdType, QueueType, PubType, ClientType, CursorType
<1>3. RowsInv'
  BY <1>1, StoredRows, SameRows
<1>4. KnownInv'
  BY <1>1 DEF Inv, KnownInv, Announcing, Sending, Owned, reader
<1>5. OrderInv' /\ DrainInv'
  BY <1>1 DEF Inv, OrderInv, DrainInv, Announcing, Sending, Active
<1>6. PageInv'
  BY <1>1, PageKept
<1>7. \A t : InFlight(t)' <=> InFlight(t)
  BY <1>1 DEF InFlight, Announcing, Sending
<1>8. LiveInv'
  <2>1. PICK new : new = Drawn
    OBVIOUS
  <2>. QED
    BY <1>1, <1>7, <2>1, LiveStores, LiveMoves
<1>. QED
  BY <1>2, <1>3, <1>4, <1>5, <1>6, <1>8 DEF Inv

\* The event on the account's topic is put or dropped; the strategy's is next.
LEMMA PublishAccountInv == ASSUME Inv, PublishAccount PROVE Inv'
<1>1. /\ td.pc = "account" /\ Enqueue("account")
      /\ td' = IF td.trade.owner = NoOwner THEN Idle ELSE [td EXCEPT !.pc = "strategy"]
      /\ UNCHANGED <<rows, lastId, pub, main, reader, seen, spent>>
  BY DEF PublishAccount, table
<1>2. td.trade \in rows /\ td \in [pc: {"account"}, trade: Rows]
  BY <1>1 DEF Inv, KnownInv, TypeOK, Announcing, Idle
<1>3. \/ td'.pc = "idle" /\ td' = Idle /\ td.trade \notin Owned
      \/ td'.pc = "strategy" /\ td' \in [pc: {"strategy"}, trade: Rows] /\ td'.trade = td.trade
  BY <1>1, <1>2 DEF Idle, Owned, NoOwner
<1>. HIDE DEF Enqueue
<1>4. TypeOK'
  BY <1>1, <1>2, <1>3, Announced, TypeParts
     DEF Inv, reader, Types, TableType, TdType, PubType, ClientType, CursorType, MainType
<1>5. RowsInv'
  BY <1>1, <1>3, SameRows
<1>6. KnownInv'
  BY <1>1, <1>2, <1>3, Announced DEF Inv, KnownInv, Announcing, Sending, Owned, reader
<1>7. OrderInv'
  BY <1>1, <1>3, Announced DEF Inv, OrderInv, Announcing, Sending
<1>8. PageInv'
  BY <1>1, PageKept
<1>9. LiveInv'
  <2>1. \A t \in Owned : InFlight(t) => InFlight(t)'
    BY <1>1, <1>3, Announced DEF InFlight, Announcing, Sending
  <2>2. \A t \in Owned : InFlight(t)' => InFlight(t)
    BY <1>1, <1>3, Announced DEF InFlight, Announcing, Sending
  <2>. QED
    BY <1>1, <2>1, <2>2, Announced, LiveMoves
<1>10. DrainInv'
  BY <1>1, Announced
<1>. QED
  BY <1>4, <1>5, <1>6, <1>7, <1>8, <1>9, <1>10 DEF Inv

\* The strategy's event is put or dropped, and the handler is over.
LEMMA PublishStrategyInv == ASSUME Inv, PublishStrategy PROVE Inv'
<1>1. /\ td.pc = "strategy" /\ Enqueue("strategy")
      /\ td' = Idle /\ td'.pc = "idle"
      /\ UNCHANGED <<rows, lastId, pub, main, reader, seen, spent>>
  BY DEF PublishStrategy, table, Idle
<1>4. TypeOK'
  BY <1>1, Announced, TypeParts
     DEF Inv, reader, Types, TableType, TdType, PubType, ClientType, CursorType, MainType
<1>5. RowsInv'
  BY <1>1, SameRows
<1>6. KnownInv'
  BY <1>1, Announced DEF Inv, KnownInv, Announcing, Sending, Owned, reader
<1>7. OrderInv'
  BY <1>1, Announced DEF Inv, OrderInv, Announcing, Sending
<1>8. PageInv'
  BY <1>1, PageKept
<1>9. LiveInv'
  <2>1. \A t \in Owned : InFlight(t) => InFlight(t)' \/ t \in unsent'
    BY <1>1, Announced DEF InFlight, Announcing, Sending
  <2>2. \A t \in Owned : InFlight(t)' => InFlight(t)
    BY <1>1, Announced DEF InFlight, Announcing, Sending
  <2>. QED
    BY <1>1, <2>1, <2>2, Announced, LiveMoves
<1>10. DrainInv'
  BY <1>1, Announced
<1>. QED
  BY <1>4, <1>5, <1>6, <1>7, <1>8, <1>9, <1>10 DEF Inv

\* The oldest event moves from the queue to the publisher.
LEMMA PublisherGetInv == ASSUME Inv, PublisherGet PROVE Inv'
<1>1. /\ pub.pc = "get" /\ pub' = [pc |-> "send", event |-> Head(queue)]
      /\ queue' = Tail(queue) /\ queue # <<>>
      /\ UNCHANGED <<rows, lastId, td, main, reader, seen, unsent, spent>>
  BY DEF PublisherGet, table
<1>2. /\ 1 \in DOMAIN queue /\ pub'.event = queue[1] /\ pub'.pc = "send" /\ queue[1] \in Events
      /\ queue' \in Seq(Events) /\ Len(queue') <= QueueSize
      /\ \A i \in DOMAIN queue' : i + 1 \in DOMAIN queue /\ queue'[i] = queue[i + 1]
      /\ \A i \in DOMAIN queue : i # 1 => i - 1 \in DOMAIN queue'
  BY <1>1, GetEffect DEF Inv
<1>3. DOMAIN queue \subseteq Nat \ {0} /\ DOMAIN queue' \subseteq Nat
  BY <1>2, LenProperties DEF Inv, TypeOK
<1>4. TypeOK'
  <2>1. QueueType' /\ PubType'
    BY <1>1, <1>2 DEF QueueType, PubType
  <2>. QED
    BY <1>1, <2>1, TypeParts DEF Inv, reader, Types, TableType, TdType,
                                 ClientType, CursorType, MainType
<1>5. RowsInv'
  BY <1>1, SameRows
<1>6. KnownInv'
  BY <1>1, <1>2 DEF Inv, KnownInv, Announcing, Sending, Owned, reader
<1>7. OrderInv'
  <2>1. \A i, j \in DOMAIN queue' : i <= j => queue'[i].trade.id <= queue'[j].trade.id
    BY <1>2, <1>3 DEF Inv, OrderInv
  <2>2. Announcing => \A i \in DOMAIN queue' : queue'[i].trade.id <= td.trade.id
    BY <1>2 DEF Inv, OrderInv
  <2>3. \A i \in DOMAIN queue' : pub'.event.trade.id <= queue'[i].trade.id
    BY <1>2, <1>3 DEF Inv, OrderInv
  <2>4. Announcing => pub'.event.trade.id <= td.trade.id
    BY <1>2 DEF Inv, OrderInv
  <2>. QED
    BY <1>1, <2>1, <2>2, <2>3, <2>4 DEF OrderInv, Announcing, Sending
<1>8. PageInv'
  BY <1>1, PageKept
<1>9. LiveInv'
  <2>1. \A t \in Owned : InFlight(t) => InFlight(t)'
    <3>1. SUFFICES ASSUME NEW t, NEW i \in DOMAIN queue, i # 1, queue[i].topic = "strategy",
                          queue[i].trade = t
                   PROVE  \E j \in DOMAIN queue' :
                             queue'[j].topic = "strategy" /\ queue'[j].trade = t
      BY <1>1, <1>2 DEF InFlight, Announcing, Sending
    <3>2. i - 1 \in DOMAIN queue' /\ queue'[i - 1] = queue[i]
      BY <1>2, <1>3, <3>1
    <3>. QED
      BY <3>1, <3>2
  <2>2. \A t \in Owned : InFlight(t)' => InFlight(t)
    BY <1>1, <1>2 DEF InFlight, Announcing, Sending
  <2>. QED
    BY <1>1, <2>1, <2>2, LiveMoves
<1>10. DrainInv'
  BY <1>1, <1>2 DEF DrainInv
<1>. QED
  BY <1>4, <1>5, <1>6, <1>7, <1>8, <1>9, <1>10 DEF Inv

\* What the client takes is the oldest of what is under way.
LEMMA PublisherSendInv == ASSUME Inv, PublisherSend PROVE Inv'
<1>1. /\ pub.pc = "send" /\ pub' = [pc |-> "get"] /\ pub'.pc = "get"
      /\ UNCHANGED <<rows, lastId, td, queue, main, reader, unsent, spent>>
      /\ seen' = IF linked /\ pub.event.topic = "strategy" /\ pub.event.trade.owner = "client"
                 THEN seen \cup {pub.event.trade} ELSE seen
  BY DEF PublisherSend, table
<1>2. pub.event.trade \in rows /\ Owned \subseteq rows
  BY <1>1 DEF Inv, KnownInv, Sending, Owned
<1>3. seen' = seen \/ (seen' = seen \cup {pub.event.trade} /\ pub.event.trade \in Owned)
  BY <1>1, <1>2 DEF Owned
<1>4. TypeOK'
  <2>1. PubType' /\ CursorType'
    BY <1>1, <1>3, TypeParts DEF Inv, Types, PubType, CursorType, reader, Owned, TableType
  <2>. QED
    BY <1>1, <2>1, TypeParts DEF Inv, reader, Types, TableType, TdType, QueueType,
                                 ClientType, MainType
<1>5. RowsInv'
  BY <1>1, SameRows
<1>6. KnownInv'
  BY <1>1, <1>3 DEF Inv, KnownInv, Announcing, Sending, Owned, reader
<1>7. OrderInv' /\ DrainInv'
  BY <1>1 DEF Inv, OrderInv, DrainInv, Announcing, Sending, Active
<1>8. PageInv'
  BY <1>1, <1>3 DEF Inv, PageInv, PagedComplete, Owned, reader
<1>9. LiveInv'
  <2>1. \A t \in Owned : InFlight(t) => InFlight(t)' \/ (linked => t \in seen')
    BY <1>1 DEF InFlight, Announcing, Sending, Owned
  <2>2. \A t \in Owned : InFlight(t)' => InFlight(t)
    BY <1>1 DEF InFlight, Announcing, Sending
  <2>3. \A q \in seen' \ seen, t \in Owned : InFlight(t)' /\ t # q => q.id < t.id
    <3>1. SUFFICES ASSUME NEW t \in Owned, InFlight(t)', t # pub.event.trade
                   PROVE  pub.event.trade.id < t.id
      BY <1>3
    <3>2. pub.event.trade.id <= t.id
      BY <1>1, <3>1 DEF Inv, OrderInv, InFlight, Announcing, Sending
    <3>3. pub.event.trade.id # t.id
      BY <1>2, <3>1 DEF Inv, RowsInv
    <3>4. pub.event.trade.id \in Nat /\ t.id \in Nat
      BY <1>2, <3>1 DEF Inv, TypeOK, Rows, Trades
    <3>. QED
      BY <3>2, <3>3, <3>4
  <2>. QED
    BY <1>1, <1>3, <2>1, <2>2, <2>3, LiveMoves
<1>. QED
  BY <1>4, <1>5, <1>6, <1>7, <1>8, <1>9 DEF Inv

\* A dropped event of the strategy's topic counts as unsent.
LEMMA PublisherFailsInv == ASSUME Inv, PublisherFails PROVE Inv'
<1>1. /\ pub.pc = "send" /\ pub' = [pc |-> "get"] /\ pub'.pc = "get"
      /\ UNCHANGED <<rows, lastId, td, queue, main, reader, seen>>
      /\ Spend("fault", MaxFaults)
      /\ unsent' = unsent \cup {t \in {pub.event.trade} : pub.event.topic = "strategy"}
  BY DEF PublisherFails, table, Misses
<1>2. pub.event.trade \in rows
  BY <1>1 DEF Inv, KnownInv, Sending
<1>4. TypeOK'
  <2>1. TableType' /\ MainType'
    BY <1>1, <1>2, TypeParts, SpendType DEF Inv, Types, TableType, MainType
  <2>. QED
    BY <1>1, <2>1, TypeParts DEF Inv, reader, Types, TdType, QueueType, PubType,
                                 ClientType, CursorType
<1>5. RowsInv'
  BY <1>1, SameRows
<1>6. KnownInv'
  BY <1>1, <1>2 DEF Inv, KnownInv, Announcing, Sending, Owned, reader
<1>7. OrderInv' /\ DrainInv'
  BY <1>1 DEF Inv, OrderInv, DrainInv, Announcing, Sending, Active
<1>8. PageInv'
  BY <1>1, PageKept
<1>9. LiveInv'
  <2>1. \A t \in Owned : InFlight(t) => InFlight(t)' \/ t \in unsent'
    BY <1>1 DEF InFlight, Announcing, Sending
  <2>2. \A t \in Owned : InFlight(t)' => InFlight(t)
    BY <1>1 DEF InFlight, Announcing, Sending
  <2>. QED
    BY <1>1, <2>1, <2>2, LiveMoves
<1>. QED
  BY <1>4, <1>5, <1>6, <1>7, <1>8, <1>9 DEF Inv

\* The publisher ends on an empty queue of a proxy that is stopping.
LEMMA PublisherExitInv == ASSUME Inv, PublisherExit PROVE Inv'
<1>1. /\ pub.pc = "get" /\ pub' = [pc |-> "exit"] /\ pub'.pc = "exit"
      /\ ~Active /\ queue = <<>>
      /\ UNCHANGED <<rows, lastId, td, queue, main, reader, seen, unsent, spent>>
  BY DEF PublisherExit, table
<1>4. TypeOK'
  BY <1>1, TypeParts DEF Inv, reader, Types, TableType, TdType, QueueType, PubType,
                         ClientType, CursorType, MainType
<1>5. RowsInv'
  BY <1>1, SameRows
<1>6. KnownInv'
  BY <1>1 DEF Inv, KnownInv, Announcing, Sending, Owned, reader
<1>7. OrderInv' /\ DrainInv'
  BY <1>1 DEF Inv, OrderInv, DrainInv, Announcing, Sending, Active
<1>8. PageInv'
  BY <1>1, PageKept
<1>9. LiveInv'
  <2>1. \A t \in Owned : InFlight(t) <=> InFlight(t)'
    BY <1>1 DEF InFlight, Announcing, Sending
  <2>. QED
    BY <1>1, <2>1, LiveMoves
<1>. QED
  BY <1>4, <1>5, <1>6, <1>7, <1>8, <1>9 DEF Inv

\* A step of the client leaves the proxy alone.
LEMMA ClientOnly ==
    ASSUME Inv, UNCHANGED <<rows, lastId, td, queue, pub, main, unsent>>
    PROVE  /\ RowsInv' /\ OrderInv' /\ DrainInv' /\ Owned' = Owned
           /\ \A t : InFlight(t)' <=> InFlight(t)
<1>1. RowsInv'
  BY SameRows
<1>2. OrderInv' /\ DrainInv'
  BY DEF Inv, OrderInv, DrainInv, Announcing, Sending, Active
<1>3. Owned' = Owned
  BY DEF Owned
<1>. QED
  BY <1>1, <1>2, <1>3, SamePipeline

\* No page is a page without rows.
LEMMA NoPageType == NoPage \in Pages
<1>1. 0 \in 0..MaxId
  BY FeedAssumption
<1>. QED
  BY <1>1 DEF NoPage, Pages

\* A page is read: with no more behind it, it has all that is stored.
LEMMA GetTradesInv == ASSUME Inv, GetTrades PROVE Inv'
<1>1. /\ client.pc \in {"new", "idle"}
      /\ client' = [client EXCEPT !.pc = "answered", !.page = Page(cursor)]
      /\ UNCHANGED <<rows, lastId, td, queue, pub, main, linked, base, cursor, seen, unsent, spent>>
  BY DEF GetTrades, table
<1>2. /\ client'.pc = "answered" /\ client'.page = Page(cursor)
      /\ client'.synced = client.synced
      /\ client' \in [pc: {"answered"}, page: {Page(cursor)}, synced: BOOLEAN]
  BY <1>1 DEF Inv, TypeOK
<1>3. TypeOK /\ IsFiniteSet(rows) /\ cursor \in 0..MaxId /\ cursor \in Nat /\ base \in Nat
  BY FeedAssumption DEF Inv, TypeOK, RowsInv
<1>4. /\ Page(cursor) \in Pages
      /\ Page(cursor).linked = linked
      /\ Page(cursor).rows \subseteq Owned
      /\ cursor <= Page(cursor).next
      /\ Page(cursor).next = cursor \/ \E r \in rows : Page(cursor).next = r.id
      /\ \A r \in Page(cursor).rows : r.id <= Page(cursor).next
      /\ \A r \in Owned : cursor < r.id /\ r.id <= Page(cursor).next => r \in Page(cursor).rows
      /\ ~Page(cursor).more => \A r \in Owned : cursor < r.id => r \in Page(cursor).rows
  BY <1>3, PageOf
<1>5. Page(cursor).next <= lastId
  BY <1>4 DEF Inv, PageInv, RowsInv
<1>. HIDE DEF Page
<1>6. TypeOK'
  <2>1. ClientType'
    BY <1>2, <1>4 DEF ClientType
  <2>. QED
    BY <1>1, <2>1, TypeParts DEF Inv, Types, TableType, TdType, QueueType, PubType,
                                 CursorType, MainType
<1>7. KnownInv'
  BY <1>1, <1>2, <1>4, ClientOnly DEF Inv, KnownInv, Announcing, Sending
<1>8. PageInv'
  BY <1>1, <1>2, <1>4, <1>5, ClientOnly DEF Inv, PageInv, PagedComplete
<1>9. LiveInv'
  <2>1. Covered({})' <=> Covered({})
    BY <1>1, ClientOnly DEF Covered
  <2>2. NoOvertaking'
    BY <1>1, ClientOnly DEF Inv, LiveInv, NoOvertaking
  <2>3. ~Page(cursor).more =>
           \A t \in Owned : base < t.id => t \in seen \/ t \in Page(cursor).rows
    <3>1. SUFFICES ASSUME ~Page(cursor).more, NEW t \in Owned, base < t.id, ~(cursor < t.id)
                   PROVE  t \in seen
      BY <1>4
    <3>2. t.id \in Nat
      BY <3>1 DEF Inv, TypeOK, Owned, Rows, Trades
    <3>. QED
      BY <1>3, <3>1, <3>2 DEF Inv, PageInv, PagedComplete
  <2>4. ~client'.page.more => Covered(client.page.rows)'
    BY <1>1, <1>2, <2>3, ClientOnly DEF Covered
  <2>. QED
    BY <1>1, <1>2, <1>4, <2>1, <2>2, <2>4 DEF Inv, LiveInv
<1>. QED
  BY <1>1, <1>6, <1>7, <1>8, <1>9, ClientOnly DEF Inv

\* A new client begins behind all there is.
LEMMA GetTradeCursorInv == ASSUME Inv, GetTradeCursor PROVE Inv'
<1>1. /\ client.pc = "new" /\ client' = [client EXCEPT !.pc = "idle"]
      /\ cursor' = Max({0} \cup Ids(Owned)) /\ base' = cursor'
      /\ UNCHANGED <<rows, lastId, td, queue, pub, main, linked, seen, unsent, spent>>
  BY DEF GetTradeCursor, table
<1>2. /\ client'.pc = "idle" /\ client'.page = client.page /\ client'.synced = client.synced
      /\ client' \in [pc: {"idle"}, page: Pages, synced: BOOLEAN]
  BY <1>1 DEF Inv, TypeOK
<1>3. MaxId \in Nat /\ \A r \in Owned : r.id \in 0..MaxId /\ r.id <= lastId
  BY FeedAssumption DEF Inv, TypeOK, RowsInv, Owned, Rows, Trades
<1>4. {0} \cup Ids(Owned) \in SUBSET (0..MaxId)
  BY <1>3 DEF Ids
<1>5. cursor' \in {0} \cup Ids(Owned)
  BY <1>1, <1>3, <1>4, MaxOfIds
<1>6. cursor' \in 0..MaxId /\ cursor' <= lastId /\ base' = cursor' /\ base = 0 /\ cursor = 0
  <2>1. base \in 0..MaxId /\ cursor \in base..MaxId /\ cursor = 0 /\ lastId \in Nat
    BY <1>1 DEF Inv, TypeOK, PageInv
  <2>. QED
    BY <1>1, <1>3, <1>4, <1>5, <2>1 DEF Ids
<1>7. TypeOK'
  <2>1. ClientType' /\ CursorType'
    BY <1>1, <1>2, <1>3, <1>6, TypeParts DEF Inv, Types, ClientType, CursorType
  <2>. QED
    BY <1>1, <2>1, TypeParts DEF Inv, Types, TableType, TdType, QueueType, PubType, MainType
<1>8. KnownInv'
  BY <1>1, <1>2, ClientOnly DEF Inv, KnownInv, Announcing, Sending
<1>9. PageInv'
  BY <1>1, <1>2, <1>3, <1>6, ClientOnly DEF Inv, PageInv, PagedComplete
<1>10. \A t \in Owned : base' < t.id => base < t.id
  BY <1>3, <1>6
<1>11. LiveInv'
  <2>1. \A S : Covered(S) => Covered(S)'
    BY <1>1, <1>10, ClientOnly DEF Covered
  <2>2. NoOvertaking'
    BY <1>1, <1>10, ClientOnly DEF Inv, LiveInv, NoOvertaking
  <2>. QED
    BY <1>1, <1>2, <2>1, <2>2 DEF Inv, LiveInv
<1>. QED
  BY <1>1, <1>7, <1>8, <1>9, <1>11, ClientOnly DEF Inv

\* The page is taken: what is still under way is newer than its cursor.
LEMMA TakePageInv == ASSUME Inv, TakePage PROVE Inv'
<1>1. /\ client.pc = "answered" /\ client'.pc = "idle" /\ client'.page = NoPage
      /\ client'.synced = (client.synced \/ (client.page.linked /\ ~client.page.more))
      /\ client' = [pc |-> "idle", page |-> NoPage,
                    synced |-> client.synced \/ (client.page.linked /\ ~client.page.more)]
      /\ seen' = seen \cup client.page.rows /\ cursor' = client.page.next
      /\ UNCHANGED <<rows, lastId, td, queue, pub, main, linked, base, unsent, spent>>
  BY DEF TakePage, table
<1>2. client.page \in Pages /\ client.synced \in BOOLEAN /\ MaxId \in Nat /\ base \in 0..MaxId
      /\ cursor \in base..MaxId
  BY FeedAssumption DEF Inv, TypeOK
<1>3. /\ client.page.next \in cursor..MaxId /\ client.page.next <= lastId
      /\ client.page.rows \subseteq Owned
      /\ \A r \in client.page.rows : r.id <= client.page.next
      /\ \A r \in Owned : cursor < r.id /\ r.id <= client.page.next => r \in client.page.rows
  BY <1>1, <1>2 DEF Inv, PageInv, KnownInv, Pages
<1>4. \A r \in Owned : r.id \in Nat
  BY DEF Inv, TypeOK, Owned, Rows, Trades
<1>5. TypeOK'
  <2>1. ClientType'
    <3>1. NoPage \in Pages
      BY NoPageType
    <3>2. client.page.linked \in BOOLEAN /\ client.page.more \in BOOLEAN
      BY <1>2 DEF Pages
    <3>. QED
      BY <1>1, <1>2, <3>1, <3>2 DEF ClientType
  <2>2. CursorType'
    BY <1>1, <1>2, <1>3, TypeParts DEF Inv, Types, CursorType, TableType, Owned
  <2>. QED
    BY <1>1, <2>1, <2>2, TypeParts DEF Inv, Types, TableType, TdType, QueueType, PubType, MainType
<1>6. KnownInv'
  BY <1>1, <1>3, ClientOnly DEF Inv, KnownInv, Announcing, Sending, NoPage
<1>7. \A r \in Owned : base < r.id /\ r.id <= client.page.next => r \in seen'
  BY <1>1, <1>2, <1>3, <1>4 DEF Inv, PageInv, PagedComplete
<1>8. PageInv'
  BY <1>1, <1>3, <1>7, ClientOnly DEF PageInv, PagedComplete
<1>9. LiveInv'
  <2>1. NoOvertaking'
    <3>1. SUFFICES ASSUME NEW t \in Owned, base < t.id, InFlight(t), t \notin seen' \cup unsent,
                          NEW q \in seen'
                   PROVE  q.id < t.id
      BY <1>1, ClientOnly DEF NoOvertaking
    <3>2. CASE q \in seen
      BY <1>1, <3>1, <3>2 DEF Inv, LiveInv, NoOvertaking
    <3>3. CASE q \in client.page.rows
      BY <1>2, <1>3, <1>4, <1>7, <3>1, <3>3
    <3>. QED
      BY <1>1, <3>1, <3>2, <3>3
  <2>2. Covered({}) \/ Covered(client.page.rows) => Covered({})'
    BY <1>1, ClientOnly DEF Covered
  <2>3. client'.synced => client.synced \/ (client.page.linked /\ ~client.page.more)
    BY <1>1
  <2>4. client'.synced => linked' /\ Covered({})'
    BY <1>1, <2>2, <2>3 DEF Inv, LiveInv
  <2>5. client'.pc # "answered" /\ client'.page.linked = FALSE
    BY <1>1 DEF NoPage
  <2>. QED
    BY <2>1, <2>4, <2>5 DEF LiveInv
<1>. QED
  BY <1>1, <1>5, <1>6, <1>8, <1>9, ClientOnly DEF Inv

\* A late reply is no reply.
LEMMA TimeoutInv == ASSUME Inv, Timeout PROVE Inv'
<1>1. /\ client.pc = "answered" /\ client' = [client EXCEPT !.pc = "idle", !.page = NoPage]
      /\ Spend("fault", MaxFaults)
      /\ UNCHANGED <<rows, lastId, td, queue, pub, main, linked, base, cursor, seen, unsent>>
  BY DEF Timeout, table
<1>2. /\ client'.pc = "idle" /\ client'.page = NoPage /\ client'.synced = client.synced
      /\ client' \in [pc: {"idle"}, page: {NoPage}, synced: BOOLEAN]
  BY <1>1 DEF Inv, TypeOK
<1>3. TypeOK'
  <2>1. ClientType'
    BY <1>2, NoPageType DEF ClientType
  <2>2. MainType'
    BY <1>1, SpendType, TypeParts DEF Inv, Types, MainType
  <2>. QED
    BY <1>1, <2>1, <2>2, TypeParts DEF Inv, Types, TableType, TdType, QueueType, PubType, CursorType
<1>4. KnownInv'
  BY <1>1, <1>2, ClientOnly DEF Inv, KnownInv, Announcing, Sending, NoPage
<1>5. PageInv'
  BY <1>1, <1>2, ClientOnly DEF Inv, PageInv, PagedComplete
<1>6. LiveInv'
  BY <1>1, <1>2, ClientOnly DEF Inv, LiveInv, NoOvertaking, Covered, NoPage
<1>. QED
  BY <1>1, <1>3, <1>4, <1>5, <1>6, ClientOnly DEF Inv

\* The socket connects.
LEMMA SubConnectsInv == ASSUME Inv, SubConnects PROVE Inv'
<1>1. /\ linked' = TRUE
      /\ UNCHANGED <<rows, lastId, td, queue, pub, main, client, base, cursor, seen, unsent, spent>>
  BY DEF SubConnects, table
<1>2. TypeOK'
  BY <1>1, TypeParts DEF Inv, Types, TableType, TdType, QueueType, PubType,
                         ClientType, CursorType, MainType
<1>3. KnownInv' /\ PageInv'
  BY <1>1, ClientOnly DEF Inv, KnownInv, Announcing, Sending, PageInv, PagedComplete
<1>4. LiveInv'
  BY <1>1, ClientOnly DEF Inv, LiveInv, NoOvertaking, Covered
<1>. QED
  BY <1>1, <1>2, <1>3, <1>4, ClientOnly DEF Inv

\* A client that loses its connection has to page anew.
LEMMA UnlinkedEffect ==
    ASSUME Inv, Unlinked
    PROVE  /\ linked' = FALSE /\ ClientType'
           /\ client'.pc = client.pc /\ client'.synced = FALSE
           /\ client'.page.linked = FALSE
           /\ client'.page.rows = client.page.rows /\ client'.page.next = client.page.next
BY DEF Inv, TypeOK, Unlinked, ClientType, Pages

\* The connection is lost.
LEMMA SubLostInv == ASSUME Inv, SubLost PROVE Inv'
<1>1. /\ Unlinked
      /\ UNCHANGED <<rows, lastId, td, queue, pub, main, base, cursor, seen, unsent, spent>>
  BY DEF SubLost, table
<1>. HIDE DEF Unlinked
<1>2. TypeOK'
  BY <1>1, UnlinkedEffect, TypeParts
     DEF Inv, Types, TableType, TdType, QueueType, PubType, CursorType, MainType
<1>3. KnownInv' /\ PageInv'
  BY <1>1, UnlinkedEffect, ClientOnly DEF Inv, KnownInv, Announcing, Sending, PageInv, PagedComplete
<1>4. LiveInv'
  BY <1>1, UnlinkedEffect, ClientOnly DEF Inv, LiveInv, NoOvertaking
<1>. QED
  BY <1>1, <1>2, <1>3, <1>4, ClientOnly DEF Inv

\* The steps of stop disturb nothing but the clock of the process.
LEMMA MainInv == ASSUME Inv, Stop \/ MainStep PROVE Inv'
<1>1. /\ UNCHANGED <<rows, lastId, td, queue, pub, reader, seen, unsent>>
      /\ main' \in {"stopping", "closed", "stopped"}
      /\ Spend("restart", MaxRestarts) \/ Spend("fault", MaxFaults) \/ UNCHANGED spent
  BY DEF Stop, MainStep, CloseSession, JoinPublisher, table
<1>2. TypeOK'
  <2>1. MainType'
    BY <1>1, SpendType DEF Inv, MainType
  <2>. QED
    BY <1>1, <2>1, TypeParts DEF Inv, reader, Types, TableType, TdType, QueueType, PubType,
                                 ClientType, CursorType
<1>3. RowsInv'
  BY <1>1, SameRows
<1>4. KnownInv' /\ OrderInv' /\ DrainInv'
  BY <1>1 DEF Inv, KnownInv, OrderInv, DrainInv, Announcing, Sending, Owned, Active, reader
<1>5. PageInv'
  BY <1>1, PageKept
<1>6. LiveInv'
  BY <1>1, SamePipeline, LiveMoves
<1>. QED
  BY <1>2, <1>3, <1>4, <1>5, <1>6 DEF Inv

\* A new process has nothing queued, and a client without connection.
LEMMA RestartInv == ASSUME Inv, Restart PROVE Inv'
<1>1. /\ td' = Idle /\ td'.pc = "idle" /\ queue' = <<>> /\ pub' = [pc |-> "get"] /\ pub'.pc = "get"
      /\ main' = "serving" /\ Unlinked
      /\ Spend("restart", MaxRestarts) \/ UNCHANGED spent
      /\ UNCHANGED <<rows, lastId, base, cursor, seen, unsent>>
  BY DEF Restart, table, Idle
<1>. HIDE DEF Unlinked
<1>2. TypeOK'
  <2>1. QueueType' /\ TdType' /\ PubType'
    BY <1>1, FeedAssumption, EmptySeq DEF QueueType, TdType, PubType
  <2>2. MainType'
    BY <1>1, SpendType DEF Inv, MainType
  <2>. QED
    BY <1>1, <2>1, <2>2, UnlinkedEffect, TypeParts DEF Inv, Types, TableType, CursorType
<1>3. RowsInv'
  BY <1>1, SameRows
<1>4. Owned' = Owned
  BY <1>1 DEF Owned
<1>5. KnownInv' /\ PageInv'
  <2>1. KnownInv'
    <3>1. ~Announcing' /\ ~Sending' /\ \A i \in DOMAIN queue' : FALSE
      BY <1>1 DEF Announcing, Sending
    <3>2. client'.page.rows = client.page.rows
      BY <1>1, UnlinkedEffect
    <3>. QED
      BY <1>1, <1>4, <3>1, <3>2 DEF Inv, KnownInv
  <2>2. PageInv'
    BY <1>1, <1>4, UnlinkedEffect DEF Inv, PageInv, PagedComplete
  <2>. QED
    BY <2>1, <2>2
<1>6. OrderInv' /\ DrainInv'
  BY <1>1 DEF OrderInv, DrainInv, Announcing, Sending
<1>7. LiveInv'
  <2>1. \A t : ~InFlight(t)'
    BY <1>1 DEF InFlight, Announcing, Sending
  <2>. QED
    BY <1>1, <2>1, UnlinkedEffect DEF LiveInv, NoOvertaking
<1>. QED
  BY <1>2, <1>3, <1>5, <1>6, <1>7 DEF Inv

\* A step of nobody changes nothing.
LEMMA InvStutter == ASSUME Inv, UNCHANGED vars PROVE Inv'
<1>1. UNCHANGED <<rows, lastId, td, queue, pub, main, linked, client, base, cursor,
                  seen, unsent, spent>>
  BY DEF vars
<1>2. TypeOK'
  BY <1>1, TypeParts DEF Inv, Types, TableType, TdType, QueueType, PubType,
                         ClientType, CursorType, MainType
<1>3. KnownInv' /\ PageInv'
  BY <1>1, ClientOnly DEF Inv, KnownInv, Announcing, Sending, PageInv, PagedComplete
<1>4. LiveInv'
  BY <1>1, ClientOnly DEF Inv, LiveInv, NoOvertaking, Covered
<1>. QED
  BY <1>1, <1>2, <1>3, <1>4, ClientOnly DEF Inv

\* Every step preserves the invariant.
LEMMA InvNext == Inv /\ [Next]_vars => Inv'
<1>. SUFFICES ASSUME Inv, [Next]_vars PROVE Inv'
  OBVIOUS
<1>1. ASSUME NEW f \in Fills, OnFill(f) PROVE Inv'
  BY <1>1, OnFillInv
<1>2. CASE TdStep \/ RecordRaises
  BY <1>2, RecordTradeInv, PublishAccountInv, PublishStrategyInv, RecordRaisesInv DEF TdStep
<1>3. CASE PublisherStep \/ PublisherFails
  BY <1>3, PublisherGetInv, PublisherSendInv, PublisherExitInv, PublisherFailsInv
     DEF PublisherStep
<1>4. CASE GetTrades \/ GetTradeCursor \/ TakePage \/ Timeout \/ SubConnects \/ SubLost
  BY <1>4, GetTradesInv, GetTradeCursorInv, TakePageInv, TimeoutInv, SubConnectsInv, SubLostInv
<1>5. CASE Stop \/ MainStep \/ Restart
  BY <1>5, MainInv, RestartInv
<1>6. CASE UNCHANGED vars
  BY <1>6, InvStutter
<1>. QED
  BY <1>1, <1>2, <1>3, <1>4, <1>5, <1>6 DEF Next

\* The invariant holds in every reachable state.
LEMMA InvAlways == Spec => []Inv
BY InvInit, InvNext, PTL DEF Spec

-------------------------------------------------------------------------------
(* The theorems *)

\* The types of TradeFeed hold for every number of fills, ids and disturbances,
\* every size of the queue and of a page; the queue never exceeds its size.
THEOREM FeedTypeCorrect == Spec => []TypeOK
<1>1. Inv => TypeOK
  BY DEF Inv
<1>. QED
  BY <1>1, InvAlways, PTL

\* One fill is one row; only a fill without MatchNo may have two, one of them
\* without owner (record_trade, _trade_event_id).
THEOREM FillsStoredOnce == Spec => []StoredOnce
<1>1. Inv => StoredOnce
  <2>1. SUFFICES ASSUME Inv, NEW r \in rows, NEW q \in rows, r.fill = q.fill, r # q
                 PROVE  r.fill \in Unnumbered /\ NoOwner \in {r.owner, q.owner}
    BY DEF StoredOnce
  <2>2. EventId(r) # EventId(q)
    BY <2>1 DEF Inv, RowsInv
  <2>3. r.fill \in Unnumbered /\ r.owner # q.owner
    BY <2>1, <2>2 DEF EventId
  <2>4. r.owner \in {NoOwner, OwnerOf(r.fill)} /\ q.owner \in {NoOwner, OwnerOf(r.fill)}
    BY <2>1 DEF Inv, RowsInv
  <2>. QED
    BY <2>3, <2>4
<1>. QED
  BY <1>1, InvAlways, PTL

\* Paging by cursor skips no trade, however rows, replies and requests interleave
\* (list_trades).
THEOREM PagingSkipsNothing == Spec => []PagedComplete
<1>1. Inv => PagedComplete
  BY DEF Inv, PageInv
<1>. QED
  BY <1>1, InvAlways, PTL

\* A client that has caught up while connected may trust the events, but for
\* those a full queue or a failing statement or send has dropped.
THEOREM EventsContinuePages == Spec => []LiveComplete
<1>1. Inv => LiveComplete
  <2>1. SUFFICES ASSUME Inv, client.synced, NEW r \in Owned, base < r.id,
                        r.id <= Max({0} \cup Ids(seen)), r \notin seen, r \notin unsent
                 PROVE  FALSE
    BY DEF LiveComplete
  <2>2. InFlight(r)
    BY <2>1 DEF Inv, LiveInv, Covered
  <2>3. \A q \in seen : q.id < r.id
    BY <2>1, <2>2 DEF Inv, LiveInv, NoOvertaking
  <2>4. MaxId \in Nat /\ r.id \in 1..MaxId /\ \A q \in seen : q.id \in 0..MaxId
    BY <2>1, FeedAssumption DEF Inv, TypeOK, Owned, Rows, Trades
  <2>5. {0} \cup Ids(seen) \in SUBSET (0..MaxId)
    BY <2>4 DEF Ids
  <2>6. Max({0} \cup Ids(seen)) \in {0} \cup Ids(seen)
    BY <2>4, <2>5, MaxOfIds
  <2>7. \A i \in {0} \cup Ids(seen) : ~(r.id <= i)
    BY <2>3, <2>4 DEF Ids
  <2>. QED
    BY <2>1, <2>6, <2>7
<1>. QED
  BY <1>1, InvAlways, PTL

\* stop sends all that was queued before it, unless the publisher outlives its
\* join (_publisher_loop, stop).
THEOREM StopDrains == Spec => []DrainedAtStop
<1>1. Inv => DrainedAtStop
  BY DEF Inv, DrainInv, DrainedAtStop
<1>. QED
  BY <1>1, InvAlways, PTL

\* A step of the feed stores a new trade, or tells the client of stored trades
\* of its own, or is none of TradeLog's business.
LEMMA LogStep == ASSUME Inv, [Next]_vars PROVE [Log!Next]_(Log!vars)
<1>. SUFFICES ASSUME ~UNCHANGED <<rows, seen>> PROVE Log!Next
  BY DEF Log!vars
<1>1. CASE RecordTrade \/ RecordRaises
  <2>1. td.pc = "record" /\ rows' = rows \cup {Drawn} /\ seen' = seen
    BY <1>1 DEF RecordTrade, RecordRaises
  <2>2. Drawn \in Rows \ rows
    BY <2>1, DrawnIsNew
  <2>. QED
    BY <2>1, <2>2 DEF Log!Next, Log!Store
<1>2. CASE PublisherSend \/ TakePage
  <2>1. rows' = rows /\ \E T \in SUBSET Owned : seen' = seen \cup T
    <3>1. CASE PublisherSend
      <4>1. rows' = rows /\ seen' = seen \cup {pub.event.trade} /\ pub.event.trade \in Owned
        BY <3>1 DEF PublisherSend, table, Inv, KnownInv, Sending, Owned
      <4>. QED
        BY <4>1
    <3>2. CASE TakePage
      <4>1. rows' = rows /\ seen' = seen \cup client.page.rows /\ client.page.rows \subseteq Owned
        BY <3>2 DEF TakePage, table, Inv, KnownInv
      <4>. QED
        BY <4>1
    <3>. QED
      BY <1>2, <3>1, <3>2
  <2>2. Owned \subseteq rows \cap {r \in Rows : r.owner = "client"}
    BY DEF Owned, Inv, TypeOK
  <2>. QED
    BY <2>1, <2>2 DEF Log!Next, Log!Learn
<1>. QED
  BY <1>1, <1>2
     DEF Next, TdStep, PublisherStep, MainStep, vars, table, reader, OnFill, PublishAccount,
         PublishStrategy, PublisherGet, PublisherExit, PublisherFails, GetTrades,
         GetTradeCursor, Timeout, SubConnects, SubLost, Stop, CloseSession, JoinPublisher, Restart

\* Storing before announcing, and answering by owner, implement TradeLog.
THEOREM ImplementsTradeLog == Spec => FeedsLog
<1>1. Init => Log!Init
  BY DEF Init, Log!Init
<1>2. Inv /\ [Next]_vars => [Log!Next]_(Log!vars)
  BY LogStep
<1>. QED
  BY <1>1, <1>2, InvAlways, PTL DEF Spec, FeedsLog, Log!Spec

===============================================================================
