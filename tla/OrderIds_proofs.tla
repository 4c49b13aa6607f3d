---------------------------- MODULE OrderIds_proofs ----------------------------
(***************************************************************************)
(* What the proxy believes of its orders, and what it does with it: memory,*)
(* rows, queued messages and the exchange's book agree on every id and     *)
(* number, whatever is restarted, repeated or late.  From this follow, for *)
(* every value of the constants, the invariants and action properties of   *)
(* OrderPath about numbers, cancels, trades and rows in doubt.             *)
(***************************************************************************)
EXTENDS OrderPath_proofs

-------------------------------------------------------------------------------
(* The inductive invariant, one part per subject.  IdsInv holds the parts    *)
(* that lean on each other; each of the parts after it leans on IdsInv.      *)

\* The exchange numbers an order when it accepts it and no two orders alike.
BookTrue ==
    /\ \A n \in Natives : exch[n].state \in {"none", "sent"} => exch[n].key = NoOrderKey
    /\ \A m, n \in Natives :
          exch[m].key = exch[n].key /\ exch[m].key # NoOrderKey => m = n

\* What a message says of its order stays true however late it is read.
MessageTrue(book, msg) ==
    /\ msg.kind = "order" => /\ book[msg.native].state \in ExchangeStatuses
                             /\ msg.key = book[msg.native].key
    /\ msg.kind = "fill"  => /\ book[msg.native].state = "TRADED"
                             /\ msg \in FillsOf(msg.native, book[msg.native].key)

InboxTrue == \A i \in DOMAIN inbox : MessageTrue(exch, inbox[i])

MessagesTrue == InboxTrue /\ (td.pc # "idle" => MessageTrue(exch, td.msg))

\* The numbers in a memory m are those of the book, in both directions; a row
\* with a number has its id, and m has learnt the number; an id m keeps for an
\* identity is the one in its row.
MemoryTrue(m) ==
    /\ \A n \in Natives : m.key[n] # NoOrderKey =>
          m.key[n] = exch[n].key /\ m.byKey[m.key[n]] = n
    /\ \A key \in OrderKeys : m.byKey[key] # None => exch[m.byKey[key]].key = key
    /\ \A k \in Keys : orders[k].key # NoOrderKey =>
          orders[k].native \in Natives /\ m.key[orders[k].native] = orders[k].key
    /\ \A k \in Keys : m.native[k] # None => orders[k].native = m.native[k]

\* place_order binds in memory what it has stored.
BindStored == cmd.pc = "bind" => orders[cmd.key].native = cmd.native

IdsInv == BookTrue /\ MessagesTrue /\ MemoryTrue(mem) /\ BindStored

\* Every request to cancel goes back to a client that owns the order.
CancelInv ==
    /\ cmd.pc \in {"park", "send_cancel"} =>
          cmd.key \in cancelAsked /\ exch[cmd.native].owner = cmd.key
    /\ \A n \in pendingCancels : exch[n].owner \in cancelAsked
    /\ \A key \in cancelReqs : \E n \in Natives :
          exch[n].key = key /\ exch[n].owner \in cancelAsked

\* From the snapshot of a link on, a number is known or on its way.
Queued(n) == \E i \in DOMAIN inbox : inbox[i].kind = "order" /\ inbox[i].native = n

QueueInv ==
    conn \in {"syncing", "ready"} =>
        \A n \in Natives : exch[n].key # NoOrderKey => mem.key[n] = exch[n].key \/ Queued(n)

\* A trade is announced by the step that follows its first insertion only.
AnnounceInv ==
    /\ \A n \in Natives : /\ announced[n] \in {0, 1}
                          /\ announced[n] = 1 => TradeRecorded(trades, n)
    /\ td.pc = "fill_publish" => /\ TradeRecorded(trades, td.msg.native)
                                 /\ announced[td.msg.native] = 0

\* Fills name their order: each carries its flag, or no two orders share a
\* number.
FillsIdentify ==
    \/ FillsCarryFlag
    \/ \A m, n \in Natives :
          exch[m].key.no = exch[n].key.no /\ exch[m].key # NoOrderKey => m = n

\* A fill being handled has been attributed to the owner of its order or to
\* no one.
FillInv ==
    /\ TradeOwnerTrue
    /\ td.pc = "fill_store" => td.who \in {None, exch[td.msg.native].owner}

\* What the earlier proofs have established of every state, and IdsInv.
Known == TypeInv /\ SubmitInv /\ OwnerInv /\ IdsInv

-------------------------------------------------------------------------------
(* The exchange's book *)

\* A numbered or settled order keeps its number, a filled order stays filled,
\* an owned order keeps its owner.
BookKept ==
    /\ \A n \in Natives :
          /\ exch[n].state \in ExchangeStatuses =>
                exch'[n].state \in ExchangeStatuses /\ exch'[n].key = exch[n].key
          /\ exch[n].state = "TRADED" => exch'[n].state = "TRADED"
          /\ exch[n].key # NoOrderKey => exch'[n].key = exch[n].key
    /\ OwnersKept

\* What an exchange that moves one order does to it.
BookMove(n, entry) ==
    /\ exch' = [exch EXCEPT ![n] = entry]
    /\ \/ /\ exch[n].state = "none" /\ entry.state = "sent"
          /\ entry.key = exch[n].key
       \/ /\ exch[n].state = "sent" /\ entry.state = "SUBMITTED"
          /\ entry.owner = exch[n].owner
          /\ entry.key \in OrderKeys \ {exch[m].key : m \in Natives}
       \/ /\ exch[n].state \in {"sent", "SUBMITTED"}
          /\ entry.state \in {"TRADED", "CANCELLED", "REJECTED"}
          /\ entry.owner = exch[n].owner /\ entry.key = exch[n].key

\* insertOrder and the exchange are the only writers of the book.
LEMMA BookMoves ==
    ASSUME TypeInv, [Next]_vars
    PROVE  UNCHANGED exch \/ \E n \in Natives, entry \in BookEntry : BookMove(n, entry)
<1>. USE DEF TypeInv, BookType
<1>1. ASSUME NEW n \in Natives, InsertAccepted(n) PROVE \E entry \in BookEntry : BookMove(n, entry)
  <2>. DEFINE entry == [exch[n] EXCEPT !.owner = cmd.key, !.state = "sent"]
  <2>1. entry \in BookEntry /\ BookMove(n, entry)
    BY <1>1 DEF InsertAccepted, BookMove, BookEntry, BookStates, CmdType
  <2>. QED
    BY <2>1
<1>2. ASSUME NEW n \in Natives, ExchAck(n) PROVE \E entry \in BookEntry : BookMove(n, entry)
  <2>. PICK key \in OrderKeys \ {exch[m].key : m \in Natives} :
          exch' = [exch EXCEPT ![n] = [exch[n] EXCEPT !.state = "SUBMITTED", !.key = key]]
    BY <1>2 DEF ExchAck, ExchMoves
  <2>. DEFINE entry == [exch[n] EXCEPT !.state = "SUBMITTED", !.key = key]
  <2>1. entry \in BookEntry /\ entry.state = "SUBMITTED" /\ entry.key = key
        /\ entry.owner = exch[n].owner /\ exch[n].state = "sent"
    BY <1>2 DEF ExchAck, BookEntry, BookStates, ExchangeStatuses
  <2>. QED
    BY <2>1 DEF BookMove
<1>3. ASSUME NEW n \in Natives, ExchReject(n) \/ ExchFill(n) \/ ExchCancel(n)
      PROVE  \E entry \in BookEntry : BookMove(n, entry)
  <2>1. PICK s \in {"TRADED", "CANCELLED", "REJECTED"} :
           exch' = [exch EXCEPT ![n] = [exch[n] EXCEPT !.state = s]]
    BY <1>3 DEF ExchReject, ExchFill, ExchCancel, ExchMoves
  <2>2. exch[n].state \in {"sent", "SUBMITTED"}
    BY <1>3 DEF ExchReject, ExchFill, ExchCancel
  <2>. DEFINE entry == [exch[n] EXCEPT !.state = s]
  <2>3. entry \in BookEntry /\ entry.state = s /\ entry.key = exch[n].key
        /\ entry.owner = exch[n].owner
    BY DEF BookEntry, BookStates, ExchangeStatuses
  <2>. QED
    BY <2>1, <2>2, <2>3 DEF BookMove
<1>4. CASE UNCHANGED vars
  BY <1>4 DEF vars
<1>5. CASE Client
  BY <1>5 DEF Client, PlaceOrder, CancelOrder, outside
<1>6. CASE CmdStep \/ CmdFault
  BY <1>1, <1>6 DEF CmdStep, CmdFault, PlaceReserve, InsertRefused, InsertNoApi, PlaceSetNative,
     PlaceBind, PlaceMarkFailed, CancelPark, CancelSend, outside
<1>7. CASE TdStep \/ TdFault
  BY <1>7 DEF TdStep, TdFault, OnOrder, OrderIdentity, OrderUpdate, OrderPublish, OnOrderLast,
     OnFill, FillRecord, FillPublish, outside
<1>8. CASE Exchange
  BY <1>2, <1>3, <1>8 DEF Exchange, ResendFill, outside
<1>9. CASE Link \/ CrashRestart
  BY <1>9 DEF Link, Connect, QryOrder, LinkDown, OnDisconnect, CrashRestart, outside
<1>. QED
  BY <1>4, <1>5, <1>6, <1>7, <1>8, <1>9 DEF Next

\* Every step keeps the book true and what others have read in it.
LEMMA BookStep ==
    ASSUME Known, [Next]_vars
    PROVE  BookTrue' /\ BookKept
<1>. USE DEF Known, IdsInv, TypeInv, BookType
<1>1. CASE UNCHANGED exch
  BY <1>1 DEF BookTrue, BookKept, OwnersKept
<1>2. ASSUME NEW n \in Natives, NEW entry \in BookEntry, BookMove(n, entry)
      PROVE  BookTrue' /\ BookKept
  <2>1. exch'[n] = entry /\ \A m \in Natives \ {n} : exch'[m] = exch[m]
    BY <1>2 DEF BookMove
  <2>2. exch[n].state \in {"none", "sent"} => exch[n].key = NoOrderKey
    BY DEF BookTrue
  <2>3. exch[n].state = "none" => exch[n].owner = None
    BY DEF OwnerInv
  <2>4. NoOrderKey \notin OrderKeys
    BY StoreAssumption DEF NoOrderKey, OrderKeys
  <2>5. BookTrue'
    BY <1>2, <2>1, <2>2, <2>4 DEF BookMove, BookTrue
  <2>6. BookKept
    BY <1>2, <2>1, <2>2, <2>3 DEF BookMove, BookKept, OwnersKept, ExchangeStatuses
  <2>. QED
    BY <2>5, <2>6
<1>. QED
  BY <1>1, <1>2, BookMoves

-------------------------------------------------------------------------------
(* Messages, queued or in the hands of the callback thread *)

\* What a message says outlives any move of the book.
LEMMA MessageStays ==
    ASSUME BookKept, NEW msg \in Messages, MessageTrue(exch, msg)
    PROVE  MessageTrue(exch', msg)
BY DEF MessageTrue, BookKept, FillsOf, Messages, OrderMessages, FillMessages, NoMessage,
       ExchangeStatuses

\* True messages added to a true inbox leave it true.
LEMMA InboxGrows ==
    ASSUME TypeInv, BookKept, InboxTrue,
           NEW msgs \in Seq(Messages), \A i \in DOMAIN msgs : MessageTrue(exch', msgs[i]),
           inbox' \in {inbox, inbox \o msgs}
    PROVE  InboxTrue'
<1>1. inbox \in Seq(Messages)
  BY DEF TypeInv, LinkType
<1>2. \A i \in DOMAIN inbox : MessageTrue(exch', inbox[i])
  BY <1>1, MessageStays DEF InboxTrue
<1>3. CASE inbox' = inbox
  BY <1>2, <1>3 DEF InboxTrue
<1>4. CASE inbox' = inbox \o msgs
  <2>. SUFFICES ASSUME NEW i \in DOMAIN (inbox \o msgs)
                PROVE  MessageTrue(exch', (inbox \o msgs)[i])
    BY <1>4 DEF InboxTrue
  <2>1. \/ i \in DOMAIN inbox /\ (inbox \o msgs)[i] = inbox[i]
        \/ i - Len(inbox) \in DOMAIN msgs /\ (inbox \o msgs)[i] = msgs[i - Len(inbox)]
    BY <1>1
  <2>. QED
    BY <1>2, <2>1
<1>. QED
  BY <1>3, <1>4

\* What the exchange pushes of an order it has just moved is true of it.
LEMMA PushTrue ==
    ASSUME TypeInv, BookKept, InboxTrue,
           NEW msgs \in Seq(Messages), \A i \in DOMAIN msgs : MessageTrue(exch', msgs[i]), Push(msgs)
    PROVE  InboxTrue'
BY InboxGrows DEF Push

\* The exchange's messages are true.
LEMMA ExchangeTrue ==
    ASSUME Known, BookKept, NEW n \in Natives,
           ExchAck(n) \/ ExchReject(n) \/ ExchFill(n) \/ ExchCancel(n) \/ ResendFill(n)
    PROVE  InboxTrue'
<1>. USE DEF Known, IdsInv
<1>1. exch \in [Natives -> BookEntry] /\ exch[n] \in BookEntry
      /\ InboxTrue
  BY DEF TypeInv, BookType, MessagesTrue
<1>2. ASSUME NEW entry \in BookEntry, entry.state \in ExchangeStatuses,
             exch' = [exch EXCEPT ![n] = entry]
      PROVE  OrderMessage(n, entry) \in Messages /\ MessageTrue(exch', OrderMessage(n, entry))
  <2>1. exch'[n] = entry
    BY <1>1, <1>2
  <2>. QED
    BY <1>2, <2>1, OrderMessageType DEF MessageTrue, OrderMessage
<1>3. ASSUME NEW entry \in BookEntry, entry.state = "TRADED", exch'[n] = entry,
             NEW fill \in FillsOf(n, entry.key)
      PROVE  fill \in Messages /\ MessageTrue(exch', fill)
  BY <1>3 DEF MessageTrue, FillsOf, Messages, FillMessages
<1>4. CASE ExchAck(n)
  <2>. PICK key \in OrderKeys :
          ExchMoves(n, [exch[n] EXCEPT !.state = "SUBMITTED", !.key = key],
                    <<OrderMessage(n, [exch[n] EXCEPT !.state = "SUBMITTED", !.key = key])>>)
    BY <1>4 DEF ExchAck
  <2>. DEFINE entry == [exch[n] EXCEPT !.state = "SUBMITTED", !.key = key]
              msgs  == <<OrderMessage(n, entry)>>
  <2>1. entry \in BookEntry /\ entry.state \in ExchangeStatuses
    BY <1>1 DEF BookEntry, BookStates, ExchangeStatuses
  <2>2. exch' = [exch EXCEPT ![n] = entry] /\ Push(msgs)
    BY DEF ExchMoves
  <2>. HIDE DEF entry
  <2>3. OrderMessage(n, entry) \in Messages /\ MessageTrue(exch', OrderMessage(n, entry))
    BY <1>2, <2>1, <2>2
  <2>4. msgs \in Seq(Messages) /\ \A i \in DOMAIN msgs : MessageTrue(exch', msgs[i])
    BY <2>3
  <2>. QED
    BY <1>1, <2>2, <2>4, PushTrue
<1>5. CASE ExchReject(n) \/ ExchCancel(n)
  <2>. PICK s \in {"REJECTED", "CANCELLED"} :
          ExchMoves(n, [exch[n] EXCEPT !.state = s],
                    <<OrderMessage(n, [exch[n] EXCEPT !.state = s])>>)
    BY <1>5 DEF ExchReject, ExchCancel
  <2>. DEFINE entry == [exch[n] EXCEPT !.state = s]
              msgs  == <<OrderMessage(n, entry)>>
  <2>1. entry \in BookEntry /\ entry.state \in ExchangeStatuses
    BY <1>1 DEF BookEntry, BookStates, ExchangeStatuses
  <2>2. exch' = [exch EXCEPT ![n] = entry] /\ Push(msgs)
    BY DEF ExchMoves
  <2>. HIDE DEF entry
  <2>3. OrderMessage(n, entry) \in Messages /\ MessageTrue(exch', OrderMessage(n, entry))
    BY <1>2, <2>1, <2>2
  <2>4. msgs \in Seq(Messages) /\ \A i \in DOMAIN msgs : MessageTrue(exch', msgs[i])
    BY <2>3
  <2>. QED
    BY <1>1, <2>2, <2>4, PushTrue
<1>6. CASE ExchFill(n)
  <2>. DEFINE entry == [exch[n] EXCEPT !.state = "TRADED"]
  <2>1. entry \in BookEntry /\ entry.state \in ExchangeStatuses /\ entry.state = "TRADED"
    BY <1>1 DEF BookEntry, BookStates, ExchangeStatuses
  <2>. PICK fill \in FillsOf(n, entry.key) :
          \/ ExchMoves(n, entry, <<OrderMessage(n, entry), fill>>)
          \/ ExchMoves(n, entry, <<fill, OrderMessage(n, entry)>>)
    BY <1>6 DEF ExchFill
  <2>. HIDE DEF entry
  <2>2. exch' = [exch EXCEPT ![n] = entry]
    BY DEF ExchMoves
  <2>3. /\ OrderMessage(n, entry) \in Messages /\ MessageTrue(exch', OrderMessage(n, entry))
        /\ fill \in Messages /\ MessageTrue(exch', fill)
    BY <1>1, <1>2, <1>3, <2>1, <2>2
  <2>4. PICK msgs \in {<<OrderMessage(n, entry), fill>>, <<fill, OrderMessage(n, entry)>>} :
           Push(msgs)
    BY DEF ExchMoves
  <2>5. msgs \in Seq(Messages)
    <3>1. /\ <<OrderMessage(n, entry), fill>> \in Seq(Messages)
          /\ <<fill, OrderMessage(n, entry)>> \in Seq(Messages)
      BY <2>3
    <3>. QED
      BY <2>4, <3>1
  <2>6. \A i \in DOMAIN msgs : msgs[i] \in {OrderMessage(n, entry), fill}
    BY <2>4
  <2>. QED
    BY <1>1, <2>3, <2>4, <2>5, <2>6, PushTrue
<1>7. CASE ResendFill(n)
  <2>1. PICK fill \in FillsOf(n, exch[n].key) : inbox' = inbox \o <<fill>>
    BY <1>7 DEF ResendFill, Append
  <2>2. exch'[n] = exch[n] /\ exch[n].state = "TRADED"
    BY <1>7 DEF ResendFill, outside
  <2>3. fill \in Messages /\ MessageTrue(exch', fill)
    BY <1>1, <1>3, <2>2
  <2>4. <<fill>> \in Seq(Messages) /\ \A i \in DOMAIN <<fill>> : MessageTrue(exch', <<fill>>[i])
    BY <2>3
  <2>. QED
    BY <1>1, <2>1, <2>4, InboxGrows
<1>. QED
  BY <1>4, <1>5, <1>6, <1>7

\* So is a snapshot, row by row.
LEMMA SnapshotTrue ==
    ASSUME TypeInv, BookKept, UNCHANGED exch, NEW rows \in SetToSeqs(Snapshot)
    PROVE  /\ rows \o <<NoMessage>> \in Seq(Messages)
           /\ \A i \in DOMAIN (rows \o <<NoMessage>>) : MessageTrue(exch', (rows \o <<NoMessage>>)[i])
<1>1. rows \in Seq(Messages)
  BY SnapshotType DEF TypeInv
<1>2. \A i \in DOMAIN rows : rows[i] \in Snapshot
  BY DEF SetToSeqs
<1>3. \A msg \in Snapshot : MessageTrue(exch', msg)
  BY DEF Snapshot, MessageTrue, OrderMessage
<1>4. NoMessage \in Messages /\ MessageTrue(exch', NoMessage)
  BY DEF Messages, NoMessage, MessageTrue
<1>5. \A i \in DOMAIN rows : MessageTrue(exch', rows[i])
  BY <1>2, <1>3
<1>6. rows \o <<NoMessage>> \in Seq(Messages)
  BY <1>1, <1>4
<1>7. ASSUME NEW i \in DOMAIN (rows \o <<NoMessage>>)
      PROVE  MessageTrue(exch', (rows \o <<NoMessage>>)[i])
  <2>1. \/ i \in DOMAIN rows /\ (rows \o <<NoMessage>>)[i] = rows[i]
        \/ (rows \o <<NoMessage>>)[i] = NoMessage
    BY <1>1, <1>4, <1>7
  <2>. QED
    BY <1>4, <1>5, <2>1
<1>. QED
  BY <1>6, <1>7

\* Every step keeps the queued messages true.
LEMMA InboxStep ==
    ASSUME Known, BookKept, [Next]_vars
    PROVE  InboxTrue'
<1>. USE DEF Known, IdsInv
<1>1. inbox \in Seq(Messages) /\ InboxTrue
  BY DEF TypeInv, LinkType, MessagesTrue
<1>2. CASE inbox' = inbox
  BY <1>1, <1>2, MessageStays DEF InboxTrue
<1>3. CASE OnOrder \/ OnOrderLast \/ OnFill
  <2>1. inbox # <<>> /\ inbox' = Tail(inbox)
    BY <1>3 DEF OnOrder, OnOrderLast, OnFill, Incoming
  <2>2. \A i \in DOMAIN inbox' : i + 1 \in DOMAIN inbox /\ inbox'[i] = inbox[i + 1]
    BY <1>1, <2>1
  <2>. QED
    BY <1>1, <2>2, MessageStays DEF InboxTrue
<1>4. CASE Connect \/ CrashRestart
  BY <1>4 DEF Connect, CrashRestart, InboxTrue
<1>5. CASE QryOrder
  <2>1. PICK rows \in SetToSeqs(Snapshot) : inbox' = inbox \o rows \o <<NoMessage>>
    BY <1>5 DEF QryOrder
  <2>2. rows \in Seq(Messages) /\ <<NoMessage>> \in Seq(Messages) /\ UNCHANGED exch
    BY <1>5, SnapshotType DEF QryOrder, TypeInv, Messages, outside
  <2>3. inbox' = inbox \o (rows \o <<NoMessage>>)
    BY <1>1, <2>1, <2>2
  <2>. QED
    BY <1>1, <2>2, <2>3, SnapshotTrue, InboxGrows
<1>6. CASE Exchange
  BY <1>6, ExchangeTrue DEF Exchange
<1>7. CASE UNCHANGED vars \/ Client \/ CmdStep \/ CmdFault \/ TdFault \/ LinkDown \/ OnDisconnect
  BY <1>2, <1>7
     DEF vars, Client, CmdStep, CmdFault, TdFault, LinkDown, OnDisconnect, PlaceOrder, CancelOrder,
         PlaceReserve, InsertAccepted, InsertRefused, InsertNoApi, PlaceSetNative, PlaceBind,
         PlaceMarkFailed, CancelPark, CancelSend
<1>8. CASE OrderIdentity \/ OrderUpdate \/ OrderPublish \/ FillRecord \/ FillPublish
  BY <1>2, <1>8 DEF OrderIdentity, OrderUpdate, OrderPublish, FillRecord, FillPublish
<1>. QED
  BY <1>3, <1>4, <1>5, <1>6, <1>7, <1>8 DEF Next, TdStep, Link

\* The callback thread takes its message from the head of the inbox and keeps
\* it until it is idle again.
LEMMA TdMessage ==
    ASSUME TypeInv, [Next]_vars, td'.pc # "idle"
    PROVE  \/ td.pc # "idle" /\ td'.msg = td.msg
           \/ /\ OnOrder \/ OnFill
              /\ inbox # <<>> /\ td'.msg = Head(inbox)
<1>. USE DEF TypeInv, TdType
<1>1. CASE UNCHANGED td
  BY <1>1
<1>2. CASE OnOrder \/ OnFill
  <2>1. inbox # <<>>
    BY <1>2 DEF OnOrder, OnFill, Incoming
  <2>2. OnOrder => td'.msg = Head(inbox)
    BY DEF OnOrder, IdleTd
  <2>3. OnFill => td'.msg = Head(inbox)
    BY DEF OnFill
  <2>. QED
    BY <1>2, <2>1, <2>2, <2>3
<1>3. CASE OrderIdentity \/ OrderUpdate \/ FillRecord
  <2>1. OrderIdentity \/ OrderUpdate => td.pc # "idle" /\ td'.msg = td.msg
    BY DEF OrderIdentity, OrderUpdate
  <2>2. FillRecord => td.pc # "idle" /\ (td' = IdleTd \/ td'.msg = td.msg)
    BY DEF FillRecord
  <2>3. td' # IdleTd
    BY DEF IdleTd
  <2>. QED
    BY <1>3, <2>1, <2>2, <2>3
<1>4. CASE OrderPublish \/ FillPublish \/ TdFault \/ CrashRestart
  BY <1>4 DEF OrderPublish, FillPublish, TdFault, CrashRestart, IdleTd
<1>5. CASE UNCHANGED vars \/ Client \/ CmdStep \/ CmdFault \/ Exchange \/ Link \/ OnOrderLast
  BY <1>1, <1>5
     DEF vars, Client, CmdStep, CmdFault, Exchange, Link, PlaceOrder, CancelOrder,
         PlaceReserve, InsertAccepted, InsertRefused, InsertNoApi, PlaceSetNative, PlaceBind,
         PlaceMarkFailed, CancelPark, CancelSend, ExchAck, ExchReject, ExchFill, ExchCancel,
         ExchMoves, ResendFill, Connect, QryOrder, LinkDown, OnDisconnect, OnOrderLast
<1>. QED
  BY <1>2, <1>3, <1>4, <1>5 DEF Next, TdStep

\* Every step keeps all messages true.
LEMMA MessagesStep ==
    ASSUME Known, BookKept, [Next]_vars
    PROVE  MessagesTrue'
<1>. USE DEF Known, IdsInv, TypeInv
<1>1. ASSUME td'.pc # "idle" PROVE MessageTrue(exch, td'.msg) /\ td'.msg \in Messages
  <2>1. CASE td.pc # "idle" /\ td'.msg = td.msg
    BY <2>1 DEF MessagesTrue, TdType
  <2>2. CASE inbox # <<>> /\ td'.msg = Head(inbox)
    <3>1. Head(inbox) = inbox[1] /\ 1 \in DOMAIN inbox /\ inbox[1] \in Messages
      BY <2>2 DEF LinkType
    <3>. QED
      BY <2>2, <3>1 DEF MessagesTrue, InboxTrue
  <2>. QED
    BY <1>1, <2>1, <2>2, TdMessage
<1>2. td'.pc # "idle" => MessageTrue(exch', td'.msg)
  BY <1>1, MessageStays
<1>. QED
  BY <1>2, InboxStep DEF MessagesTrue

-------------------------------------------------------------------------------
(* The identity maps and the rows *)

\* A hydrated memory agrees with the book and the rows,
LEMMA HydratedTrue ==
    ASSUME Known, NEW k \in Keys
    PROVE  MemoryTrue(Hydrated(mem, k, orders[k]))
<1>. DEFINE row == orders[k]
            m   == Hydrated(mem, k, row)
<1>1. MemoryTrue(mem) /\ mem \in Memory /\ row \in Row
  BY DEF Known, IdsInv, TypeInv, MemType, StoreType
<1>2. CASE row.native = None
  BY <1>1, <1>2 DEF Hydrated
<1>3. CASE row.native # None /\ row.key = NoOrderKey
  <2>1. m.key = mem.key /\ m.byKey = mem.byKey /\ m.native = [mem.native EXCEPT ![k] = row.native]
    BY <1>3 DEF Hydrated
  <2>. QED
    BY <1>1, <2>1 DEF MemoryTrue, Memory
<1>4. CASE row.native # None /\ row.key # NoOrderKey
  <2>1. /\ m.key = [mem.key EXCEPT ![row.native] = row.key]
        /\ m.byKey = [mem.byKey EXCEPT ![row.key] = row.native]
        /\ m.native = [mem.native EXCEPT ![k] = row.native]
    BY <1>4 DEF Hydrated
  <2>2. /\ row.native \in Natives /\ row.key \in OrderKeys
        /\ exch[row.native].key = row.key /\ mem.key[row.native] = row.key
        /\ mem.byKey[row.key] = row.native
    BY <1>1, <1>4 DEF MemoryTrue, Row
  <2>3. m.key = mem.key /\ m.byKey = mem.byKey
    BY <1>1, <2>1, <2>2 DEF Memory
  <2>. QED
    BY <1>1, <2>1, <2>3 DEF MemoryTrue, Memory
<1>. QED
  BY <1>2, <1>3, <1>4

\* so does one that learns a number from a true message,
LEMMA LearntTrue ==
    ASSUME Known, NEW msg \in OrderMessages, MessageTrue(exch, msg)
    PROVE  MemoryTrue(Learnt(mem, msg))
<1>. DEFINE m == Learnt(mem, msg)
<1>1. MemoryTrue(mem) /\ mem \in Memory /\ BookTrue
  BY DEF Known, IdsInv, TypeInv, MemType
<1>2. msg.native \in Natives /\ msg.key = exch[msg.native].key /\ msg.kind = "order"
  BY DEF MessageTrue, OrderMessages
<1>3. CASE msg.key = NoOrderKey
  BY <1>1, <1>3 DEF Learnt
<1>4. CASE msg.key # NoOrderKey
  <2>1. /\ m.key = [mem.key EXCEPT ![msg.native] = msg.key]
        /\ m.byKey = [mem.byKey EXCEPT ![msg.key] = msg.native]
        /\ m.native = mem.native
    BY <1>1, <1>4 DEF Learnt, Numbered, Memory
  <2>2. msg.key \in OrderKeys
    BY <1>4 DEF OrderMessages
  <2>3. \A n \in Natives : m.key[n] # NoOrderKey => m.key[n] = exch[n].key /\ m.byKey[m.key[n]] = n
    <3>. SUFFICES ASSUME NEW n \in Natives, m.key[n] # NoOrderKey
                  PROVE  m.key[n] = exch[n].key /\ m.byKey[m.key[n]] = n
      OBVIOUS
    <3>1. CASE n = msg.native
      BY <1>1, <1>2, <2>1, <2>2, <3>1 DEF Memory
    <3>2. CASE n # msg.native
      <4>1. m.key[n] = mem.key[n] /\ mem.key[n] = exch[n].key /\ mem.byKey[mem.key[n]] = n
        BY <1>1, <1>2, <2>1, <3>2 DEF MemoryTrue, Memory
      <4>2. mem.key[n] # msg.key
        BY <1>1, <1>2, <1>4, <3>2, <4>1 DEF BookTrue
      <4>3. mem.key[n] \in OrderKeys
        BY <1>1, <4>1 DEF Memory
      <4>. QED
        BY <1>1, <2>1, <4>1, <4>2, <4>3 DEF Memory
    <3>. QED
      BY <3>1, <3>2
  <2>4. \A key \in OrderKeys : m.byKey[key] # None => exch[m.byKey[key]].key = key
    BY <1>1, <1>2, <2>1, <2>2 DEF MemoryTrue, Memory
  <2>5. \A k \in Keys : orders[k].key # NoOrderKey =>
           orders[k].native \in Natives /\ m.key[orders[k].native] = orders[k].key
    BY <1>1, <1>2, <1>4, <2>1 DEF MemoryTrue, Memory
  <2>. QED
    BY <1>1, <2>1, <2>3, <2>4, <2>5 DEF MemoryTrue
<1>. QED
  BY <1>3, <1>4

\* one that binds what place_order has stored
LEMMA BoundTrue ==
    ASSUME Known, cmd.pc = "bind"
    PROVE  MemoryTrue(Bound(mem, cmd.key, cmd.native))
<1>1. MemoryTrue(mem) /\ mem \in Memory
  BY DEF Known, IdsInv, TypeInv, MemType
<1>2. cmd.key \in Keys /\ orders[cmd.key].native = cmd.native
  BY DEF Known, IdsInv, TypeInv, CmdType, BindStored
<1>. DEFINE m == Bound(mem, cmd.key, cmd.native)
<1>3. /\ m.key = mem.key /\ m.byKey = mem.byKey
      /\ m.native = [mem.native EXCEPT ![cmd.key] = cmd.native]
  BY <1>1 DEF Bound, Memory
<1>. HIDE DEF m
<1>4. MemoryTrue(m)
  BY <1>1, <1>2, <1>3 DEF MemoryTrue, Memory
<1>. QED
  BY <1>4 DEF m

\* and one rebuilt from the rows after a restart.
LEMMA RestoredTrue ==
    ASSUME Known
    PROVE  MemoryTrue(Restored(orders))
<1>. DEFINE m == Restored(orders)
<1>1. MemoryTrue(mem) /\ mem \in Memory /\ BookTrue /\ orders \in [Keys -> Row]
  BY DEF Known, IdsInv, TypeInv, MemType, StoreType
\* The row that owns an id is the only one with it.
<1>2. ASSUME NEW k \in Keys, orders[k].native \in Natives
      PROVE  OwnerIn(orders, orders[k].native) = k
  <2>1. FindByNative(orders, orders[k].native) = {k}
    BY <1>2, StoreAssumption DEF Known, OwnerInv, FindByNative
  <2>. QED
    BY <2>1 DEF OwnerIn
<1>3. ASSUME NEW n \in Natives, OwnerIn(orders, n) # None
      PROVE  OwnerIn(orders, n) \in Keys /\ orders[OwnerIn(orders, n)].native = n
  BY <1>3 DEF OwnerIn, FindByNative
<1>4. \A n \in Natives : m.key[n] = IF OwnerIn(orders, n) = None THEN NoOrderKey
                                    ELSE orders[OwnerIn(orders, n)].key
  BY DEF Restored
<1>5. ASSUME NEW k \in Keys, orders[k].key # NoOrderKey
      PROVE  /\ orders[k].native \in Natives /\ m.key[orders[k].native] = orders[k].key
             /\ exch[orders[k].native].key = orders[k].key /\ orders[k].key \in OrderKeys
  <2>1. orders[k].native \in Natives /\ exch[orders[k].native].key = orders[k].key
    BY <1>1, <1>5 DEF MemoryTrue
  <2>2. k # None
    BY StoreAssumption
  <2>. QED
    BY <1>1, <1>2, <1>4, <1>5, <2>1, <2>2 DEF Row
<1>6. ASSUME NEW key \in OrderKeys, NEW k \in Keys, orders[k].native # None, orders[k].key = key
      PROVE  m.byKey[key] = orders[k].native
  <2>. DEFINE other == CHOOSE j \in Keys : orders[j].native # None /\ orders[j].key = key
  <2>1. m.byKey[key] = orders[other].native
    BY <1>6 DEF Restored
  <2>2. other \in Keys /\ orders[other].key = key
    BY <1>6
  <2>3. key # NoOrderKey
    BY StoreAssumption DEF OrderKeys, NoOrderKey
  <2>. HIDE DEF other
  <2>4. orders[other].native = orders[k].native
    BY <1>1, <1>5, <1>6, <2>2, <2>3 DEF BookTrue
  <2>. QED
    BY <2>1, <2>4
<1>7. ASSUME NEW key \in OrderKeys, m.byKey[key] # None
      PROVE  \E k \in Keys : orders[k].native # None /\ orders[k].key = key
  BY <1>7 DEF Restored
<1>8. NoOrderKey \notin OrderKeys
  BY StoreAssumption DEF OrderKeys, NoOrderKey
<1>9. \A k \in Keys : m.native[k] = orders[k].native
  BY DEF Restored
<1>. HIDE DEF m
<1>10. ASSUME NEW n \in Natives, m.key[n] # NoOrderKey
       PROVE  m.key[n] = exch[n].key /\ m.byKey[m.key[n]] = n
  <2>1. OwnerIn(orders, n) # None
    BY <1>4, <1>10
  <2>. DEFINE k == OwnerIn(orders, n)
  <2>2. k \in Keys /\ orders[k].native = n /\ m.key[n] = orders[k].key
    BY <1>3, <1>4, <2>1
  <2>. HIDE DEF k
  <2>3. orders[k].key # NoOrderKey /\ n # None
    BY <1>10, <2>2, StoreAssumption
  <2>. QED
    BY <1>5, <1>6, <2>2, <2>3
<1>11. ASSUME NEW key \in OrderKeys, m.byKey[key] # None
       PROVE  exch[m.byKey[key]].key = key
  <2>1. PICK k \in Keys : orders[k].native # None /\ orders[k].key = key
    BY <1>7, <1>11
  <2>. QED
    BY <1>5, <1>6, <1>8, <2>1
<1>12. MemoryTrue(m)
  BY <1>5, <1>9, <1>10, <1>11 DEF MemoryTrue
<1>. QED
  BY <1>12 DEF m

\* What a step may do to the identity maps,
MemoryEffect ==
    \/ UNCHANGED mem
    \/ \E k \in Keys : mem' = Hydrated(mem, k, orders[k])
    \/ inbox # <<>> /\ Head(inbox).kind = "order" /\ mem' = Learnt(mem, Head(inbox))
    \/ cmd.pc = "bind" /\ mem' = Bound(mem, cmd.key, cmd.native)
    \/ mem' = Restored(orders) /\ conn' = "off"

\* and to the ids and numbers of the rows.
RowEffect ==
    \A k \in Keys :
        /\ \/ orders'[k].native = orders[k].native
           \/ /\ cmd.pc = "set_native" /\ k = cmd.key
              /\ orders[k].native = None /\ orders'[k].native = cmd.native
        /\ \/ orders'[k].key = orders[k].key
           \/ /\ td.pc = "order_store" /\ orders[k].native = td.msg.native
              /\ td.msg.key # NoOrderKey /\ orders'[k].key = td.msg.key

\* The statements of the two threads write rows as RowEffect says.
LEMMA RowEffects ==
    ASSUME Known, [Next]_vars
    PROVE  RowEffect
<1>. USE DEF Known, TypeInv, StoreType
<1>1. CASE UNCHANGED orders
  BY <1>1 DEF RowEffect
<1>2. CASE cmd.pc = "reserve" /\ orders' = Reserve(orders, cmd.key)
  <2>1. \A k \in Keys : ~RowExists(orders, k) =>
           orders[k].native = None /\ orders[k].key = NoOrderKey
    BY StoreAssumption DEF SubmitInv, RowExists, IdsInv, MemoryTrue
  <2>. QED
    BY <1>2, <2>1 DEF RowEffect, Reserve, NoRow, CmdType
<1>3. CASE cmd.pc = "set_native" /\ orders' = SetNative(orders, cmd.key, cmd.native)
  <2>1. orders[cmd.key].native = None
    BY <1>3 DEF SubmitInv, CmdType
  <2>. QED
    BY <1>3, <2>1 DEF RowEffect, SetNative, CmdType, Row
<1>4. CASE cmd.pc = "mark_failed" /\ orders' = MarkFailed(orders, cmd.key)
  BY <1>4 DEF RowEffect, MarkFailed, Row
<1>5. CASE /\ td.pc = "order_store"
           /\ orders' = UpdateTap(orders, td.msg.native, td.msg.key, td.msg.status)
  BY <1>5 DEF RowEffect, UpdateTap, Row
<1>6. CASE Client \/ CmdStep \/ CmdFault
  BY <1>1, <1>2, <1>3, <1>4, <1>6
     DEF Client, CmdStep, CmdFault, PlaceOrder, CancelOrder, PlaceReserve, InsertAccepted,
         InsertRefused, InsertNoApi, PlaceSetNative, PlaceBind, PlaceMarkFailed, CancelPark,
         CancelSend, store
<1>7. CASE TdStep \/ TdFault
  BY <1>1, <1>5, <1>7
     DEF TdStep, TdFault, OnOrder, OrderIdentity, OrderUpdate, OrderPublish, OnOrderLast, OnFill,
         FillRecord, FillPublish, store
<1>8. CASE UNCHANGED vars \/ Exchange \/ Link \/ CrashRestart
  BY <1>1, <1>8
     DEF vars, Exchange, Link, CrashRestart, ExchAck, ExchReject, ExchFill, ExchCancel,
         ExchMoves, ResendFill, Connect, QryOrder, LinkDown, OnDisconnect, store
<1>. QED
  BY <1>6, <1>7, <1>8 DEF Next

\* A step that changes the identity maps changes neither book nor rows.
LEMMA MemoryEffects ==
    ASSUME TypeInv, [Next]_vars
    PROVE  UNCHANGED mem \/ (MemoryEffect /\ UNCHANGED <<exch, orders>>)
<1>1. ASSUME NEW k \in Keys, PlaceOrder(k) \/ CancelOrder(k)
      PROVE  MemoryEffect /\ UNCHANGED <<exch, orders>>
  BY <1>1 DEF PlaceOrder, CancelOrder, MemoryEffect, store, outside
<1>2. CASE OnOrder
  BY <1>2 DEF OnOrder, Incoming, MemoryEffect, store, outside
<1>3. CASE OrderIdentity
  BY <1>3 DEF OrderIdentity, FindByNative, MemoryEffect, store, outside
<1>4. CASE OnFill
  BY <1>4 DEF OnFill, FindByOrderNo, MemoryEffect, store, outside
<1>5. CASE PlaceBind \/ CrashRestart
  BY <1>5 DEF PlaceBind, CrashRestart, MemoryEffect, store, outside
<1>6. CASE CmdFault \/ TdFault \/ (CmdStep /\ ~PlaceBind)
  BY <1>6
     DEF CmdStep, CmdFault, PlaceReserve, InsertAccepted, InsertRefused, InsertNoApi,
         PlaceSetNative, PlaceMarkFailed, CancelPark, CancelSend, TdFault
<1>7. CASE OrderUpdate \/ OrderPublish \/ OnOrderLast \/ FillRecord \/ FillPublish
  BY <1>7 DEF OrderUpdate, OrderPublish, OnOrderLast, FillRecord, FillPublish
<1>8. CASE UNCHANGED vars \/ Exchange \/ Link
  BY <1>8
     DEF vars, Exchange, Link, ExchAck, ExchReject, ExchFill, ExchCancel,
         ExchMoves, ResendFill, Connect, QryOrder, LinkDown, OnDisconnect
<1>. QED
  BY <1>1, <1>2, <1>3, <1>4, <1>5, <1>6, <1>7, <1>8 DEF Next, Client, TdStep

\* Every step keeps memory true.
LEMMA MemoryStep ==
    ASSUME Known, BookKept, [Next]_vars
    PROVE  MemoryTrue(mem)'
<1>1. MemoryTrue(mem) /\ mem \in Memory /\ NoOrderKey \notin OrderKeys
  BY StoreAssumption DEF Known, IdsInv, TypeInv, MemType, OrderKeys, NoOrderKey
<1>2. CASE MemoryEffect /\ UNCHANGED <<exch, orders>>
  <2>1. ASSUME inbox # <<>>, Head(inbox).kind = "order"
        PROVE  Head(inbox) \in OrderMessages /\ MessageTrue(exch, Head(inbox))
    <3>1. Head(inbox) = inbox[1] /\ 1 \in DOMAIN inbox /\ inbox[1] \in Messages
      BY <2>1 DEF Known, TypeInv, LinkType
    <3>. QED
      BY <2>1, <3>1 DEF Known, IdsInv, MessagesTrue, InboxTrue, Messages, OrderMessages,
         FillMessages, NoMessage
  <2>2. MemoryTrue(mem')
    BY <1>1, <1>2, <2>1, HydratedTrue, LearntTrue, BoundTrue, RestoredTrue DEF MemoryEffect
  <2>. QED
    BY <1>2, <2>2 DEF MemoryTrue
<1>3. CASE UNCHANGED mem
\* An id in a row stays; a number new to a row comes from a true message, learnt.
  <2>1. ASSUME NEW k \in Keys
        PROVE  /\ orders[k].native # None => orders'[k].native = orders[k].native
               /\ orders'[k].key # orders[k].key =>
                     /\ orders'[k].native \in Natives
                     /\ mem.key[orders'[k].native] = orders'[k].key
    <3>1. orders[k].native # None => orders'[k].native = orders[k].native
      BY RowEffects DEF RowEffect
    <3>2. CASE orders'[k].key # orders[k].key
      <4>1. /\ td.pc = "order_store" /\ orders[k].native = td.msg.native
            /\ td.msg.key # NoOrderKey /\ orders'[k].key = td.msg.key
        BY <3>2, RowEffects DEF RowEffect
      <4>2. td.msg.native \in Natives /\ td.msg.kind = "order"
        BY <4>1 DEF Known, TypeInv, TdType, OrderPcs, OrderMessages
      <4>3. mem.key[td.msg.native] # NoOrderKey
        BY <4>1 DEF Known, TypeInv, NumberInv, OrderPcs
      <4>4. td.msg.key = exch[td.msg.native].key
        BY <4>1, <4>2 DEF Known, IdsInv, MessagesTrue, MessageTrue
      <4>. QED
        BY <1>1, <3>1, <4>1, <4>2, <4>3, <4>4, StoreAssumption DEF MemoryTrue
    <3>. QED
      BY <3>1, <3>2
  <2>2. \A n \in Natives : mem.key[n] # NoOrderKey => exch'[n].key = exch[n].key
    BY <1>1 DEF MemoryTrue, BookKept
  <2>3. \A key \in OrderKeys : mem.byKey[key] # None => exch'[mem.byKey[key]].key = key
    BY <1>1 DEF MemoryTrue, BookKept, Memory
  <2>4. \A k \in Keys : orders'[k].key # NoOrderKey =>
           orders'[k].native \in Natives /\ mem.key[orders'[k].native] = orders'[k].key
    BY <1>1, <2>1, StoreAssumption DEF MemoryTrue
  <2>. QED
    BY <1>1, <1>3, <2>1, <2>2, <2>3, <2>4 DEF MemoryTrue
<1>. QED
  BY <1>2, <1>3, MemoryEffects DEF Known

\* place_order goes on to bind only what it has just stored.
LEMMA BindStep ==
    ASSUME Known, [Next]_vars
    PROVE  BindStored'
<1>. USE DEF Known, TypeInv, StoreType, CmdType
<1>1. CASE cmd' = cmd
  BY <1>1, RowEffects, StoreAssumption DEF RowEffect, IdsInv, BindStored
<1>2. CASE cmd'.pc # "bind"
  BY <1>2 DEF BindStored
<1>3. CASE PlaceSetNative
  BY <1>3 DEF PlaceSetNative, SetNative, BindStored, Row
<1>4. CASE CmdStep \/ CmdFault
  <2>1. CmdStep => PlaceSetNative \/ cmd' = IdleCmd \/ cmd'.pc \in {"insert", "set_native", "mark_failed"}
    BY DEF CmdStep, PlaceReserve, InsertAccepted, InsertRefused, InsertNoApi,
           PlaceBind, PlaceMarkFailed, CancelPark, CancelSend
  <2>2. CmdFault => cmd' = IdleCmd
    BY DEF CmdFault
  <2>. QED
    BY <1>2, <1>3, <1>4, <2>1, <2>2 DEF IdleCmd
<1>5. ASSUME NEW k \in Keys, PlaceOrder(k) \/ CancelOrder(k) PROVE BindStored'
  <2>1. PlaceOrder(k) => cmd' = cmd \/ cmd'.pc = "reserve"
    BY DEF PlaceOrder, IdleCmd
  <2>2. CancelOrder(k) => cmd'.pc \in {"park", "send_cancel"}
    BY DEF CancelOrder
  <2>. QED
    BY <1>1, <1>2, <1>5, <2>1, <2>2
<1>6. CASE CrashRestart
  BY <1>2, <1>6 DEF CrashRestart, IdleCmd
<1>7. CASE TdStep \/ TdFault
  BY <1>1, <1>7
     DEF TdStep, TdFault, OnOrder, OrderIdentity, OrderUpdate, OrderPublish, OnOrderLast, OnFill,
         FillRecord, FillPublish
<1>8. CASE UNCHANGED vars \/ Exchange \/ Link
  BY <1>1, <1>8
     DEF vars, Exchange, Link, ExchAck, ExchReject, ExchFill, ExchCancel,
         ExchMoves, ResendFill, Connect, QryOrder, LinkDown, OnDisconnect
<1>. QED
  BY <1>4, <1>5, <1>6, <1>7, <1>8 DEF Next, Client

\* All of it holds when the process starts
LEMMA KnownInit == Init => Known
<1>. SUFFICES ASSUME Init PROVE Known
  OBVIOUS
<1>1. TypeInv /\ SubmitInv /\ OwnerInv
  BY TypeInvInit, SubmitInit, OwnerInit
<1>2. BookTrue /\ MessagesTrue /\ BindStored
  BY DEF Init, BookTrue, MessagesTrue, InboxTrue, BindStored, IdleCmd, IdleTd
<1>3. \A k \in Keys : orders[k].native = None /\ orders[k].key = NoOrderKey
  BY DEF Init, NoRow
<1>4. \A n \in Natives : OwnerIn(orders, n) = None
  <2>1. \A n \in Natives : FindByNative(orders, n) = {}
    BY <1>3, StoreAssumption DEF FindByNative
  <2>. QED
    BY <2>1 DEF OwnerIn
<1>5. MemoryTrue(mem)
  <2>1. /\ \A n \in Natives : mem.key[n] = NoOrderKey
        /\ \A key \in OrderKeys : mem.byKey[key] = None
        /\ \A k \in Keys : mem.native[k] = None
    BY <1>3, <1>4 DEF Init, Restored
  <2>. QED
    BY <1>3, <2>1 DEF MemoryTrue
<1>. QED
  BY <1>1, <1>2, <1>5 DEF Known, IdsInv

\* and is kept by every step, with what others have read in the book.
LEMMA KnownStep == Known /\ [Next]_vars => Known' /\ BookKept
<1>. SUFFICES ASSUME Known, [Next]_vars PROVE Known' /\ BookKept
  OBVIOUS
<1>1. TypeInv' /\ SubmitInv' /\ OwnerInv'
  BY TypeInvStep, SubmitStep, OwnerStep DEF Known
<1>2. BookTrue' /\ BookKept
  BY BookStep
<1>3. MessagesTrue' /\ MemoryTrue(mem)' /\ BindStored'
  BY <1>2, MessagesStep, MemoryStep, BindStep
<1>. QED
  BY <1>1, <1>2, <1>3 DEF Known, IdsInv

\* A number the store knows is the number memory uses and the exchange gave,
\* also right after a restart.
THEOREM NumbersLoaded == Spec => []StoredNumberLoaded
<1>1. Init => Known
  BY KnownInit
<1>2. Known /\ [Next]_vars => Known'
  BY KnownStep
<1>3. Known => StoredNumberLoaded
  BY DEF Known, IdsInv, MemoryTrue, StoredNumberLoaded
<1>. QED
  BY <1>1, <1>2, <1>3, PTL DEF Spec

-------------------------------------------------------------------------------
(* What no step may do to a row *)

\* The ids and the number of a row are never replaced: a row gets an id only
\* where it had none, and every message repeats the number the row has.
THEOREM IdsNeverReplaced == Spec => BindingsPermanent
<1>. DEFINE Kept == \A k \in Keys :
          /\ orders[k].native # None => orders'[k].native = orders[k].native
          /\ orders[k].key # NoOrderKey => orders'[k].key = orders[k].key
<1>1. Known /\ [Next]_vars => Kept
  <2>. SUFFICES ASSUME Known, [Next]_vars, NEW k \in Keys
                PROVE  /\ orders[k].native # None => orders'[k].native = orders[k].native
                       /\ orders[k].key # NoOrderKey => orders'[k].key = orders[k].key
    OBVIOUS
  <2>1. orders[k].native # None => orders'[k].native = orders[k].native
    BY RowEffects DEF RowEffect
  <2>2. ASSUME orders[k].key # NoOrderKey, orders'[k].key # orders[k].key PROVE FALSE
    <3>1. /\ td.pc = "order_store" /\ orders[k].native = td.msg.native
          /\ orders'[k].key = td.msg.key
      BY <2>2, RowEffects DEF RowEffect
    <3>2. td.msg.kind = "order"
      BY <3>1 DEF Known, TypeInv, TdType, OrderPcs, OrderMessages
    <3>3. td.msg.key = exch[orders[k].native].key
      BY <3>1, <3>2 DEF Known, IdsInv, MessagesTrue, MessageTrue
    <3>4. orders[k].key = exch[orders[k].native].key
      BY <2>2 DEF Known, IdsInv, MemoryTrue
    <3>. QED
      BY <2>2, <3>1, <3>3, <3>4
  <2>. QED
    BY <2>1, <2>2
<1>2. Init => Known
  BY KnownInit
<1>3. Known /\ [Next]_vars => Known'
  BY KnownStep
<1>. QED
  BY <1>1, <1>2, <1>3, PTL DEF Spec, BindingsPermanent

\* A row that a crash or a fault left in PENDING_SUBMIT stays there, and its
\* order is not submitted again: a retry finds the row, a cancel finds no id,
\* and no message of the exchange names a row without id.
THEOREM DoubtIsKept == Spec => InDoubtStays
<1>. DEFINE Kept == \A k \in Keys : InDoubt(k) => InDoubt(k)' /\ sent'[k] = sent[k]
<1>1. Known /\ [Next]_vars => Kept
  <2>. SUFFICES ASSUME Known, [Next]_vars, NEW k \in Keys, InDoubt(k)
                PROVE  InDoubt(k)' /\ sent'[k] = sent[k]
    OBVIOUS
  <2>. USE DEF Known, TypeInv, StoreType, CmdType, CountType
  <2>1. orders[k].status = "PENDING_SUBMIT" /\ cmd.key # k /\ orders[k].native = None
        /\ RowExists(orders, k) /\ k # None
    BY StoreAssumption DEF InDoubt, SubmitInv, RowExists
  <2>2. mem.native[k] = None
    BY <2>1 DEF IdsInv, MemoryTrue
  <2>3. ASSUME orders'[k] = orders[k], cmd'.key \in {cmd.key, None}, sent'[k] = sent[k]
        PROVE  InDoubt(k)' /\ sent'[k] = sent[k]
    BY <2>1, <2>3 DEF InDoubt
  <2>4. ASSUME NEW j \in Keys, PlaceOrder(j) PROVE InDoubt(k)' /\ sent'[k] = sent[k]
    <3>1. UNCHANGED <<orders, sent>>
      BY <2>4 DEF PlaceOrder, store, history
    <3>2. j = k => cmd' = cmd
      BY <2>1, <2>4 DEF PlaceOrder
    <3>3. j # k => cmd'.key # k
      BY <2>1, <2>4 DEF PlaceOrder, IdleCmd
    <3>. QED
      BY <2>1, <3>1, <3>2, <3>3 DEF InDoubt
  <2>5. ASSUME NEW j \in Keys, CancelOrder(j) PROVE InDoubt(k)' /\ sent'[k] = sent[k]
    <3>1. UNCHANGED <<orders, sent>> /\ cmd'.key = j
      BY <2>5 DEF CancelOrder, store
    <3>2. j # k
      BY <2>1, <2>2, <2>5 DEF CancelOrder, Hydrated
    <3>. QED
      BY <2>1, <3>1, <3>2 DEF InDoubt
  <2>6. CASE PlaceReserve
    BY <2>1, <2>3, <2>6 DEF PlaceReserve, Reserve, IdleCmd, history
  <2>7. CASE InsertRefused \/ \E n \in Natives : InsertAccepted(n)
    BY <2>1, <2>3, <2>7 DEF InsertRefused, InsertAccepted, store
  <2>8. CASE PlaceSetNative \/ PlaceMarkFailed
    BY <2>1, <2>3, <2>8 DEF PlaceSetNative, PlaceMarkFailed, SetNative, MarkFailed, IdleCmd, history
  <2>9. CASE CmdFault
    BY <2>1, <2>3, <2>9 DEF CmdFault, Reserve, SetNative, MarkFailed, IdleCmd, history
  <2>10. CASE InsertNoApi \/ PlaceBind \/ CancelPark \/ CancelSend \/ CrashRestart
    BY <2>3, <2>10
       DEF InsertNoApi, PlaceBind, CancelPark, CancelSend, CrashRestart, IdleCmd, store, history
  <2>11. CASE OrderUpdate \/ TdFault
    <3>1. td.pc = "order_store" => td.msg.native # None
      BY StoreAssumption DEF TdType, OrderPcs, OrderMessages
    <3>2. td.pc = "order_store" =>
             UpdateTap(orders, td.msg.native, td.msg.key, td.msg.status)[k] = orders[k]
      BY <2>1, <3>1 DEF UpdateTap
    <3>. QED
      BY <2>3, <2>11, <3>2 DEF OrderUpdate, TdFault, store, history
  <2>12. CASE TdStep /\ ~OrderUpdate
    BY <2>3, <2>12
       DEF TdStep, OnOrder, OrderIdentity, OrderPublish, OnOrderLast, OnFill, FillRecord,
           FillPublish, store, history
  <2>13. CASE UNCHANGED vars \/ Exchange \/ Link
    BY <2>3, <2>13
       DEF vars, Exchange, Link, ExchAck, ExchReject, ExchFill, ExchCancel, ExchMoves,
           ResendFill, Connect, QryOrder, LinkDown, OnDisconnect, store, history
  <2>. QED
    BY <2>4, <2>5, <2>6, <2>7, <2>8, <2>9, <2>10, <2>11, <2>12, <2>13 DEF Next, Client, CmdStep
<1>2. Init => Known
  BY KnownInit
<1>3. Known /\ [Next]_vars => Known'
  BY KnownStep
<1>. QED
  BY <1>1, <1>2, <1>3, PTL DEF Spec, InDoubtStays

-------------------------------------------------------------------------------
(* Cancels *)

\* Owners of what the proxy means to cancel have asked, and stay owners.
LEMMA AskersStay ==
    ASSUME Known, CancelInv, BookKept, cancelAsked \subseteq cancelAsked'
    PROVE  /\ cmd.pc \in {"park", "send_cancel"} =>
                 /\ cmd.native \in Natives
                 /\ cmd.key \in cancelAsked' /\ exch'[cmd.native].owner = cmd.key
           /\ \A n \in pendingCancels : exch'[n].owner \in cancelAsked'
           /\ \A key \in cancelReqs : \E n \in Natives :
                 exch'[n].key = key /\ exch'[n].owner \in cancelAsked'
<1>. USE DEF Known, TypeInv, MemType, CmdType, BookType, CountType, CancelInv, BookKept, OwnersKept
<1>1. None \notin Keys /\ NoOrderKey \notin OrderKeys
  BY StoreAssumption DEF OrderKeys, NoOrderKey
<1>2. \A n \in Natives : exch[n].owner \in cancelAsked => exch'[n].owner \in cancelAsked'
  BY <1>1
<1>3. cmd.pc \in {"park", "send_cancel"} =>
         /\ cmd.native \in Natives
         /\ cmd.key \in cancelAsked' /\ exch'[cmd.native].owner = cmd.key
  BY <1>1
<1>4. \A key \in cancelReqs : \E n \in Natives :
         exch'[n].key = key /\ exch'[n].owner \in cancelAsked'
  BY <1>1, <1>2
<1>. QED
  BY <1>2, <1>3, <1>4

\* A step that begins no cancel and asks for none keeps CancelInv.
LEMMA CancelFrame ==
    ASSUME Known, CancelInv, BookKept, cancelAsked \subseteq cancelAsked',
           cmd'.pc \in {"park", "send_cancel"} => cmd' = cmd,
           pendingCancels' \subseteq pendingCancels, UNCHANGED cancelReqs
    PROVE  CancelInv'
BY AskersStay DEF CancelInv

\* The number with which a cancel goes out is that of an order whose owner asked.
LEMMA AskTrue ==
    ASSUME Known, CancelInv, BookKept, UNCHANGED <<exch, cancelAsked>>,
           NEW n \in Natives, exch[n].owner \in cancelAsked,
           mem.key[n] # NoOrderKey, AskCancel(mem.key[n])
    PROVE  \A key \in cancelReqs' : \E m \in Natives :
              exch'[m].key = key /\ exch'[m].owner \in cancelAsked'
<1>1. mem.key[n] = exch[n].key
  BY DEF Known, IdsInv, MemoryTrue
<1>2. cancelReqs' \subseteq cancelReqs \cup {mem.key[n]}
  BY DEF AskCancel
<1>. QED
  BY <1>1, <1>2 DEF CancelInv

\* Every step keeps CancelInv.
LEMMA CancelStep ==
    ASSUME Known, CancelInv, BookKept, [Next]_vars
    PROVE  CancelInv'
<1>. USE DEF Known, TypeInv
<1>1. ASSUME NEW k \in Keys, PlaceOrder(k) PROVE CancelInv'
  <2>1. cmd' = cmd \/ cmd'.pc = "reserve"
    BY <1>1 DEF PlaceOrder, IdleCmd
  <2>. QED
    BY <1>1, <2>1, CancelFrame DEF PlaceOrder, outside, history
<1>2. ASSUME NEW k \in Keys, CancelOrder(k) PROVE CancelInv'
  <2>. DEFINE m == IF mem.native[k] # None THEN mem ELSE Hydrated(mem, k, orders[k])
  <2>1. MemoryTrue(m) /\ m \in Memory
    BY HydratedTrue, HydratedType DEF IdsInv, MemType, StoreType
  <2>2. /\ m.native[k] # None /\ cmd'.key = k /\ cmd'.native = m.native[k]
        /\ cancelAsked' = cancelAsked \cup {k}
        /\ UNCHANGED <<pendingCancels, exch, cancelReqs>>
    BY <1>2 DEF CancelOrder, outside
  <2>. HIDE DEF m
  <2>3. orders[k].native = m.native[k] /\ exch[m.native[k]].owner = k
    BY <2>1, <2>2 DEF MemoryTrue, OwnerInv
  <2>. QED
    BY <2>2, <2>3, AskersStay DEF CancelInv
<1>3. CASE CancelPark
  <2>1. /\ pendingCancels' = pendingCancels \cup {cmd.native} /\ cmd' = IdleCmd
        /\ UNCHANGED <<exch, cancelReqs, cancelAsked>> /\ cmd.pc = "park"
    BY <1>3 DEF CancelPark, outside, history
  <2>. QED
    BY <2>1, AskersStay DEF CancelInv, IdleCmd
<1>4. CASE CancelSend
  <2>1. /\ AskCancel(mem.key[cmd.native]) /\ cmd' = IdleCmd
        /\ UNCHANGED <<exch, pendingCancels, cancelAsked>> /\ cmd.pc = "send_cancel"
    BY <1>4 DEF CancelSend, history
  <2>2. cmd.native \in Natives /\ exch[cmd.native].owner \in cancelAsked
        /\ mem.key[cmd.native] # NoOrderKey
    BY <2>1 DEF CancelInv, NumberInv, CmdType
  <2>3. \A key \in cancelReqs' : \E n \in Natives :
           exch'[n].key = key /\ exch'[n].owner \in cancelAsked'
    BY <2>1, <2>2, AskTrue
  <2>. QED
    BY <2>1, <2>3, AskersStay DEF CancelInv, IdleCmd
<1>5. CASE OrderPublish
  <2>1. td.msg.native \in Natives /\ UNCHANGED <<cmd, exch, cancelAsked>>
    BY <1>5 DEF OrderPublish, TdType, OrderPcs, OrderMessages, history
  <2>2. CASE ParkedAndNumbered(td.msg)
    <3>1. pendingCancels' \subseteq pendingCancels /\ AskCancel(mem.key[td.msg.native])
      BY <1>5, <2>2 DEF OrderPublish
    <3>2. mem.key[td.msg.native] # NoOrderKey /\ exch[td.msg.native].owner \in cancelAsked
      BY <1>5, <2>2 DEF OrderPublish, ParkedAndNumbered, NumberInv, OrderPcs, CancelInv
    <3>3. \A key \in cancelReqs' : \E n \in Natives :
             exch'[n].key = key /\ exch'[n].owner \in cancelAsked'
      BY <2>1, <3>1, <3>2, AskTrue
    <3>. QED
      BY <2>1, <3>1, <3>3, AskersStay DEF CancelInv
  <2>3. CASE ~ParkedAndNumbered(td.msg)
    BY <1>5, <2>1, <2>3, CancelFrame DEF OrderPublish
  <2>. QED
    BY <2>2, <2>3
<1>6. CASE CmdFault \/ (CmdStep /\ ~CancelPark /\ ~CancelSend)
  <2>1. cmd' = IdleCmd \/ cmd'.pc \in {"insert", "set_native", "mark_failed", "bind"}
    BY <1>6 DEF CmdStep, CmdFault, PlaceReserve, InsertAccepted, InsertRefused, InsertNoApi,
       PlaceSetNative, PlaceBind, PlaceMarkFailed, CmdType
  <2>2. UNCHANGED <<pendingCancels, cancelReqs, cancelAsked>>
    BY <1>6 DEF CmdStep, CmdFault, PlaceReserve, InsertAccepted, InsertRefused, InsertNoApi,
       PlaceSetNative, PlaceBind, PlaceMarkFailed, outside, history
  <2>. QED
    BY <2>1, <2>2, CancelFrame DEF IdleCmd
<1>7. CASE TdFault \/ (TdStep /\ ~OrderPublish)
  BY <1>7, CancelFrame
     DEF TdStep, TdFault, OnOrder, OrderIdentity, OrderUpdate, OnOrderLast, OnFill,
         FillRecord, FillPublish, outside, history
<1>8. CASE UNCHANGED vars \/ Exchange \/ Link
  BY <1>8, CancelFrame
     DEF vars, Exchange, Link, ExchAck, ExchReject, ExchFill, ExchCancel, ExchMoves,
         ResendFill, Connect, QryOrder, LinkDown, OnDisconnect, outside, history
<1>9. CASE CrashRestart
  BY <1>9, CancelFrame DEF CrashRestart, IdleCmd, outside, history
<1>. QED
  BY <1>1, <1>2, <1>3, <1>4, <1>5, <1>6, <1>7, <1>8, <1>9 DEF Next, Client, CmdStep, TdStep

\* The exchange is asked to cancel an order only when its own owner asked:
\* parked cancels and numbers restored after a crash never mix two orders.
THEOREM CancelsAsked == Spec => []CancelOnlyAsked
<1>1. Init => Known /\ CancelInv
  BY KnownInit DEF Init, CancelInv, IdleCmd
<1>2. Known /\ CancelInv /\ [Next]_vars => Known' /\ CancelInv'
  BY KnownStep, CancelStep
<1>3. Known /\ CancelInv => CancelOnlyAsked
  <2>. SUFFICES ASSUME Known, CancelInv, NEW n \in Natives, exch[n].key \in cancelReqs
                PROVE  exch[n].owner \in cancelAsked
    BY DEF CancelOnlyAsked
  <2>1. PICK m \in Natives : exch[m].key = exch[n].key /\ exch[m].owner \in cancelAsked
    BY DEF CancelInv
  <2>2. exch[n].key # NoOrderKey
    BY StoreAssumption DEF Known, TypeInv, BookType, OrderKeys, NoOrderKey
  <2>. QED
    BY <2>1, <2>2 DEF Known, IdsInv, BookTrue
<1>. QED
  BY <1>1, <1>2, <1>3, PTL DEF Spec

-------------------------------------------------------------------------------
(* Numbers known or on their way *)

\* A number memory has it keeps while the process lives, and it stays right.
LEMMA NumberStays ==
    ASSUME Known, [Next]_vars, conn' # "off",
           NEW n \in Natives, mem.key[n] = exch[n].key, exch[n].key # NoOrderKey
    PROVE  mem'.key[n] = exch'[n].key
<1>. USE DEF Known, TypeInv, MemType, StoreType
<1>1. MemoryTrue(mem)'
  BY KnownStep DEF IdsInv
<1>2. CASE UNCHANGED mem
  BY <1>1, <1>2 DEF MemoryTrue
<1>3. CASE MemoryEffect
  <2>1. inbox # <<>> /\ Head(inbox).kind = "order" => Head(inbox) \in OrderMessages
    BY HeadTailProperties DEF LinkType, Messages, FillMessages, NoMessage
  <2>2. mem'.key[n] # NoOrderKey
    <3>1. \A k \in Keys : Hydrated(mem, k, orders[k]).key[n] # NoOrderKey
      BY HydratedType
    <3>2. Head(inbox) \in OrderMessages => Learnt(mem, Head(inbox)).key[n] # NoOrderKey
      BY LearntType
    <3>3. Bound(mem, cmd.key, cmd.native).key = mem.key
      BY DEF Bound, Memory
    <3>. QED
      BY <1>2, <1>3, <2>1, <3>1, <3>2, <3>3 DEF MemoryEffect
  <2>. QED
    BY <1>1, <2>2 DEF MemoryTrue
<1>. QED
  BY <1>2, <1>3, MemoryEffects

\* A queued number stays queued while messages are only added.
LEMMA QueuedStays ==
    ASSUME TypeInv, NEW n \in Natives, Queued(n), NEW msgs \in Seq(Messages),
           inbox' \in {inbox, inbox \o msgs}
    PROVE  Queued(n)'
<1>1. inbox \in Seq(Messages)
  BY DEF TypeInv, LinkType
<1>2. PICK i \in DOMAIN inbox : inbox[i].kind = "order" /\ inbox[i].native = n
  BY DEF Queued
<1>3. i \in DOMAIN inbox' /\ inbox'[i] = inbox[i]
  BY <1>1
<1>. QED
  BY <1>2, <1>3 DEF Queued

\* The message taken from the queue is the only one that leaves it.
LEMMA QueuedOrTaken ==
    ASSUME TypeInv, NEW n \in Natives, Queued(n), inbox # <<>>, inbox' = Tail(inbox)
    PROVE  Queued(n)' \/ (Head(inbox).kind = "order" /\ Head(inbox).native = n)
<1>1. inbox \in Seq(Messages)
  BY DEF TypeInv, LinkType
<1>2. PICK i \in DOMAIN inbox : inbox[i].kind = "order" /\ inbox[i].native = n
  BY DEF Queued
<1>3. CASE i = 1
  BY <1>1, <1>2, <1>3
<1>4. CASE i # 1
  <2>1. i - 1 \in DOMAIN inbox' /\ inbox'[i - 1] = inbox[i]
    BY <1>1, <1>2, <1>4
  <2>. QED
    BY <1>2, <2>1 DEF Queued
<1>. QED
  BY <1>3, <1>4

\* The snapshot of a new link queues every number there is.
LEMMA SnapshotQueues ==
    ASSUME Known, QryOrder, NEW n \in Natives, exch[n].key # NoOrderKey
    PROVE  Queued(n)'
<1>1. PICK rows \in SetToSeqs(Snapshot) : inbox' = inbox \o rows \o <<NoMessage>>
  BY DEF QryOrder
<1>2. inbox \in Seq(Messages) /\ rows \in Seq(Messages) /\ NoMessage \in Messages
  BY SnapshotType DEF Known, TypeInv, LinkType, Messages
<1>3. OrderMessage(n, exch[n]) \in Snapshot
  BY DEF Known, TypeInv, BookType, BookEntry, BookStates, IdsInv, BookTrue, Snapshot
<1>4. PICK i \in DOMAIN rows : rows[i] = OrderMessage(n, exch[n])
  <2>1. Snapshot # {} /\ rows \in [1..Cardinality(Snapshot) -> Snapshot]
    BY <1>3 DEF SetToSeqs
  <2>2. IsFiniteSet(Snapshot)
    <3>. DEFINE Listed == {m \in Natives : exch[m].state \in ExchangeStatuses}
                row == [m \in Listed |-> OrderMessage(m, exch[m])]
    <3>1. row \in Surjection(Listed, Snapshot)
      BY DEF Surjection, Snapshot
    <3>2. IsFiniteSet(Listed)
      BY PathAssumption, FS_Subset
    <3>. HIDE DEF Listed, row
    <3>. QED
      BY <3>1, <3>2, FS_Surjection
  <2>3. rows \in Injection(1..Cardinality(Snapshot), Snapshot)
    BY <2>1 DEF SetToSeqs, Injection, IsInjective
  <2>4. Cardinality(1..Cardinality(Snapshot)) = Cardinality(Snapshot)
    BY <2>2, FS_CardinalityType, FS_Interval
  <2>5. rows \in Surjection(1..Cardinality(Snapshot), Snapshot)
    BY <2>2, <2>3, <2>4, FS_Injection
  <2>. QED
    BY <1>3, <2>1, <2>5 DEF Surjection
<1>5. /\ Len(inbox) + i \in DOMAIN inbox'
      /\ inbox'[Len(inbox) + i] = rows[i]
  BY <1>1, <1>2, <1>4
<1>. QED
  BY <1>4, <1>5 DEF Queued, OrderMessage

\* Every step keeps QueueInv.
LEMMA QueueStep ==
    ASSUME Known, QueueInv, [Next]_vars
    PROVE  QueueInv'
<1>. SUFFICES ASSUME conn' \in {"syncing", "ready"}, NEW n \in Natives, exch'[n].key # NoOrderKey
              PROVE  mem'.key[n] = exch'[n].key \/ Queued(n)'
  BY DEF QueueInv
<1>. USE DEF Known, TypeInv, LinkType
<1>1. BookKept /\ BookTrue /\ MemoryTrue(mem)'
  BY KnownStep DEF IdsInv
\* Steps that let the inbox be, or add to it, on a link already in sync.
<1>2. ASSUME conn \in {"syncing", "ready"}, exch'[n].key = exch[n].key,
             NEW msgs \in Seq(Messages), inbox' \in {inbox, inbox \o msgs}
      PROVE  mem'.key[n] = exch'[n].key \/ Queued(n)'
  BY <1>2, NumberStays, QueuedStays DEF QueueInv
<1>3. ASSUME conn' = conn, exch' = exch, inbox' = inbox
      PROVE  mem'.key[n] = exch'[n].key \/ Queued(n)'
  BY <1>2, <1>3, <1>1
<1>4. CASE QryOrder
  <2>1. exch' = exch
    BY <1>4 DEF QryOrder, outside
  <2>. QED
    BY <1>4, <2>1, SnapshotQueues
<1>5. CASE OnOrder \/ OnFill \/ OnOrderLast
  <2>1. /\ conn \in {"syncing", "ready"} /\ exch' = exch
        /\ inbox # <<>> /\ inbox' = Tail(inbox)
    BY <1>5 DEF OnOrder, OnFill, OnOrderLast, Incoming, outside
  <2>2. CASE mem.key[n] = exch[n].key
    BY <2>1, <2>2, NumberStays
  <2>3. CASE Queued(n) /\ ~Queued(n)'
    <3>1. Head(inbox).kind = "order" /\ Head(inbox).native = n
      BY <2>1, <2>3, QueuedOrTaken
    <3>2. Head(inbox) \in OrderMessages /\ MessageTrue(exch, Head(inbox))
      <4>1. Head(inbox) = inbox[1] /\ 1 \in DOMAIN inbox /\ inbox[1] \in Messages
        BY <2>1
      <4>. QED
        BY <3>1, <4>1 DEF IdsInv, MessagesTrue, InboxTrue, Messages, FillMessages, NoMessage
    <3>3. mem' = Learnt(mem, Head(inbox)) /\ Head(inbox).key = exch[n].key
      BY <1>5, <3>1, <3>2 DEF OnOrder, OnFill, OnOrderLast, Incoming, MessageTrue
    <3>4. mem'.key[n] # NoOrderKey
      BY <2>1, <3>1, <3>2, <3>3, LearntType DEF MemType
    <3>. QED
      BY <1>1, <3>4 DEF MemoryTrue
  <2>. QED
    BY <2>1, <2>2, <2>3 DEF QueueInv
<1>6. ASSUME NEW m \in Natives, ExchAck(m) PROVE mem'.key[n] = exch'[n].key \/ Queued(n)'
  <2>. PICK key \in OrderKeys :
          ExchMoves(m, [exch[m] EXCEPT !.state = "SUBMITTED", !.key = key],
                    <<OrderMessage(m, [exch[m] EXCEPT !.state = "SUBMITTED", !.key = key])>>)
    BY <1>6 DEF ExchAck
  <2>. DEFINE entry == [exch[m] EXCEPT !.state = "SUBMITTED", !.key = key]
              msgs  == <<OrderMessage(m, entry)>>
  <2>1. entry \in BookEntry /\ entry.state \in ExchangeStatuses
    BY DEF BookType, BookEntry, BookStates, ExchangeStatuses
  <2>2. exch' = [exch EXCEPT ![m] = entry] /\ Push(msgs) /\ conn' = conn
    BY DEF ExchMoves
  <2>. HIDE DEF entry
  <2>3. OrderMessage(m, entry) \in Messages
    BY <2>1, OrderMessageType
  <2>4. inbox' = inbox \o <<OrderMessage(m, entry)>>
    BY <2>2 DEF Push, LinkUp
  <2>5. CASE n = m
    <3>1. Len(inbox) + 1 \in DOMAIN inbox' /\ inbox'[Len(inbox) + 1] = OrderMessage(m, entry)
      BY <2>3, <2>4
    <3>. QED
      BY <2>5, <3>1 DEF Queued, OrderMessage
  <2>6. CASE n # m
    <3>1. exch'[n] = exch[n] /\ msgs \in Seq(Messages)
      BY <2>2, <2>3, <2>6 DEF BookType
    <3>. QED
      BY <1>2, <2>2, <2>4, <3>1
  <2>. QED
    BY <2>5, <2>6
<1>7. ASSUME NEW m \in Natives, ExchReject(m) \/ ExchCancel(m) \/ ExchFill(m)
      PROVE  mem'.key[n] = exch'[n].key \/ Queued(n)'
  <2>1. exch[m] \in BookEntry
    BY DEF BookType
  <2>2. PICK s \in {"REJECTED", "CANCELLED", "TRADED"} :
           exch' = [exch EXCEPT ![m] = [exch[m] EXCEPT !.state = s]]
    BY <1>7 DEF ExchReject, ExchCancel, ExchFill, ExchMoves
  <2>3. exch'[n].key = exch[n].key
    BY <2>1, <2>2 DEF BookType, BookEntry
  <2>4. PICK msgs \in Seq(Messages) : Push(msgs) /\ conn' = conn
    <3>. DEFINE Entry(t) == [exch[m] EXCEPT !.state = t]
    <3>1. \A t \in {"REJECTED", "CANCELLED", "TRADED"} : OrderMessage(m, Entry(t)) \in Messages
      <4>. SUFFICES ASSUME NEW t \in {"REJECTED", "CANCELLED", "TRADED"}
                    PROVE  OrderMessage(m, Entry(t)) \in Messages
        OBVIOUS
      <4>1. Entry(t) \in BookEntry /\ Entry(t).state \in ExchangeStatuses
        BY <2>1 DEF BookEntry, BookStates, ExchangeStatuses
      <4>. HIDE DEF Entry
      <4>. QED
        BY <4>1, OrderMessageType
    <3>2. CASE ExchReject(m) \/ ExchCancel(m)
      <4>1. PICK t \in {"REJECTED", "CANCELLED"} :
               Push(<<OrderMessage(m, Entry(t))>>) /\ conn' = conn
        BY <3>2 DEF ExchReject, ExchCancel, ExchMoves
      <4>2. OrderMessage(m, Entry(t)) \in Messages
        BY <3>1
      <4>. HIDE DEF Entry
      <4>3. <<OrderMessage(m, Entry(t))>> \in Seq(Messages)
        BY <4>2
      <4>. QED
        BY <4>1, <4>3
    <3>3. CASE ExchFill(m)
      <4>. DEFINE order == OrderMessage(m, Entry("TRADED"))
      <4>1. PICK fill \in Messages : (Push(<<order, fill>>) \/ Push(<<fill, order>>)) /\ conn' = conn
        BY <3>3 DEF ExchFill, ExchMoves, FillsOf, Messages
      <4>2. order \in Messages
        BY <3>1
      <4>. HIDE DEF order
      <4>3. <<order, fill>> \in Seq(Messages) /\ <<fill, order>> \in Seq(Messages)
        BY <4>2
      <4>. QED
        BY <4>1, <4>3
    <3>. QED
      BY <1>7, <3>2, <3>3
  <2>. QED
    BY <1>2, <2>3, <2>4 DEF Push
<1>8. ASSUME NEW m \in Natives, ResendFill(m) PROVE mem'.key[n] = exch'[n].key \/ Queued(n)'
  <2>1. PICK fill \in Messages : inbox' = inbox \o <<fill>>
    BY <1>8 DEF ResendFill, FillsOf, Messages, Append
  <2>2. <<fill>> \in Seq(Messages)
    OBVIOUS
  <2>3. exch' = exch /\ conn' = conn
    BY <1>8 DEF ResendFill, outside
  <2>. QED
    BY <1>2, <2>1, <2>2, <2>3
<1>9. ASSUME NEW m \in Natives, InsertAccepted(m) PROVE mem'.key[n] = exch'[n].key \/ Queued(n)'
  <2>1. exch'[n].key = exch[n].key /\ conn' = conn /\ inbox' = inbox
    BY <1>9 DEF InsertAccepted, BookType, BookEntry
  <2>. QED
    BY <1>2, <2>1
<1>10. CASE Client \/ CmdFault \/ (CmdStep /\ ~\E m \in Natives : InsertAccepted(m))
  BY <1>3, <1>10
     DEF Client, CmdStep, CmdFault, PlaceOrder, CancelOrder, PlaceReserve, InsertRefused,
         InsertNoApi, PlaceSetNative, PlaceBind, PlaceMarkFailed, CancelPark, CancelSend, outside
<1>11. CASE OrderIdentity \/ OrderUpdate \/ OrderPublish \/ FillRecord \/ FillPublish \/ TdFault
  BY <1>3, <1>11
     DEF OrderIdentity, OrderUpdate, OrderPublish, FillRecord, FillPublish, TdFault, outside
<1>12. CASE UNCHANGED vars
  BY <1>3, <1>12 DEF vars
\* The other steps of the link leave it out of sync.
<1>13. ~(Connect \/ LinkDown \/ OnDisconnect \/ CrashRestart)
  BY DEF Connect, LinkDown, OnDisconnect, CrashRestart
<1>. QED
  BY <1>4, <1>5, <1>6, <1>7, <1>8, <1>9, <1>10, <1>11, <1>12, <1>13
     DEF Next, TdStep, Exchange, Link

\* While the session is ready, no order has a number that the proxy neither
\* knows nor is about to read.
THEOREM NumbersArrive == Spec => []NumberKnownOrQueued
<1>1. Init => Known /\ QueueInv
  BY KnownInit DEF Init, QueueInv
<1>2. Known /\ QueueInv /\ [Next]_vars => Known' /\ QueueInv'
  BY KnownStep, QueueStep
<1>3. QueueInv => NumberKnownOrQueued
  BY DEF QueueInv, NumberKnownOrQueued, Queued, IsReady, LinkUp
<1>. QED
  BY <1>1, <1>2, <1>3, PTL DEF Spec

-------------------------------------------------------------------------------
(* Trades *)

\* What a step may do to the trades and to their announcements.
LEMMA TradeEffects ==
    ASSUME TypeInv, [Next]_vars
    PROVE  /\ \/ UNCHANGED trades
              \/ /\ td.pc = "fill_store" /\ UNCHANGED exch
                 /\ trades' = RecordTrade(trades, td.msg.native, td.who)
           /\ UNCHANGED announced \/ FillPublish
<1>1. CASE Client \/ CmdStep \/ CmdFault
  BY <1>1
     DEF Client, CmdStep, CmdFault, PlaceOrder, CancelOrder, PlaceReserve, InsertAccepted,
         InsertRefused, InsertNoApi, PlaceSetNative, PlaceBind, PlaceMarkFailed, CancelPark,
         CancelSend, store, history
<1>2. CASE TdStep \/ TdFault
  BY <1>2
     DEF TdStep, TdFault, OnOrder, OrderIdentity, OrderUpdate, OrderPublish, OnOrderLast, OnFill,
         FillRecord, FillPublish, store, history, outside
<1>3. CASE UNCHANGED vars \/ Exchange \/ Link \/ CrashRestart
  BY <1>3
     DEF vars, Exchange, Link, CrashRestart, ExchAck, ExchReject, ExchFill, ExchCancel,
         ExchMoves, ResendFill, Connect, QryOrder, LinkDown, OnDisconnect, store, history
<1>. QED
  BY <1>1, <1>2, <1>3 DEF Next

\* A recorded trade stays recorded.
LEMMA RecordKeeps ==
    ASSUME NEW table, NEW m, NEW owner
    PROVE  /\ table \subseteq RecordTrade(table, m, owner)
           /\ TradeRecorded(RecordTrade(table, m, owner), m)
           /\ \A n : TradeRecorded(table, n) => TradeRecorded(RecordTrade(table, m, owner), n)
<1>1. table \subseteq RecordTrade(table, m, owner)
  BY DEF RecordTrade
<1>2. CASE TradeRecorded(table, m)
  BY <1>2 DEF RecordTrade
<1>3. CASE ~TradeRecorded(table, m)
  <2>1. [match |-> m, owner |-> owner] \in RecordTrade(table, m, owner)
    BY <1>3 DEF RecordTrade
  <2>. QED
    BY <1>1, <2>1 DEF TradeRecorded
<1>. QED
  BY <1>1, <1>2, <1>3

\* The callback thread comes to publish a fill only from having inserted it.
LEMMA PublishAfterRecord ==
    ASSUME TypeInv, [Next]_vars, td'.pc = "fill_publish"
    PROVE  \/ UNCHANGED td
           \/ /\ td.pc = "fill_store" /\ td'.msg = td.msg
              /\ ~TradeRecorded(trades, td.msg.native)
              /\ trades' = RecordTrade(trades, td.msg.native, td.who)
<1>. USE DEF TypeInv, TdType
<1>1. CASE FillRecord
  BY <1>1 DEF FillRecord, IdleTd
<1>2. CASE OnOrder \/ OrderIdentity \/ OrderUpdate \/ OrderPublish \/ OnFill \/ FillPublish
           \/ TdFault \/ CrashRestart
  <2>1. td'.pc # "fill_publish"
    <3>1. OnOrder => td'.pc = "order_identity"
      BY DEF OnOrder, IdleTd
    <3>2. OrderIdentity \/ OrderUpdate => td'.pc \in {"order_store", "order_publish"}
      BY DEF OrderIdentity, OrderUpdate
    <3>3. OnFill => td'.pc = "fill_store"
      BY DEF OnFill
    <3>4. OrderPublish \/ FillPublish \/ TdFault \/ CrashRestart => td'.pc = "idle"
      BY DEF OrderPublish, FillPublish, TdFault, CrashRestart, IdleTd
    <3>. QED
      BY <1>2, <3>1, <3>2, <3>3, <3>4
  <2>. QED
    BY <2>1
<1>3. CASE UNCHANGED vars \/ Client \/ CmdStep \/ CmdFault \/ Exchange \/ Link \/ OnOrderLast
  BY <1>3
     DEF vars, Client, CmdStep, CmdFault, Exchange, Link, PlaceOrder, CancelOrder,
         PlaceReserve, InsertAccepted, InsertRefused, InsertNoApi, PlaceSetNative, PlaceBind,
         PlaceMarkFailed, CancelPark, CancelSend, ExchAck, ExchReject, ExchFill, ExchCancel,
         ExchMoves, ResendFill, Connect, QryOrder, LinkDown, OnDisconnect, OnOrderLast
<1>. QED
  BY <1>1, <1>2, <1>3 DEF Next, TdStep

\* Every step keeps AnnounceInv.
LEMMA AnnounceStep ==
    ASSUME TypeInv, AnnounceInv, [Next]_vars
    PROVE  AnnounceInv'
<1>. USE DEF TypeInv, CountType
<1>1. \A n \in Natives : TradeRecorded(trades, n) => TradeRecorded(trades', n)
  BY TradeEffects, RecordKeeps
<1>2. CASE UNCHANGED announced
  <2>1. td'.pc = "fill_publish" =>
           TradeRecorded(trades', td'.msg.native) /\ announced[td'.msg.native] = 0
    <3>1. td.pc \in FillPcs => td.msg.native \in Natives
      BY DEF TdType, FillMessages
    <3>2. CASE td'.pc = "fill_publish" /\ UNCHANGED td
      BY <1>1, <3>1, <3>2 DEF AnnounceInv, FillPcs
    <3>3. CASE /\ td.pc = "fill_store" /\ td'.msg = td.msg
               /\ ~TradeRecorded(trades, td.msg.native)
               /\ trades' = RecordTrade(trades, td.msg.native, td.who)
      BY <3>1, <3>3, RecordKeeps DEF AnnounceInv, FillPcs
    <3>. QED
      BY <3>2, <3>3, PublishAfterRecord
  <2>. QED
    BY <1>1, <1>2, <2>1 DEF AnnounceInv, TradeRecorded
<1>3. CASE FillPublish
  <2>1. td.msg.native \in Natives /\ td.pc = "fill_publish" /\ td'.pc = "idle"
        /\ announced' = [announced EXCEPT ![td.msg.native] = @ + 1]
    BY <1>3 DEF FillPublish, TdType, FillPcs, FillMessages, IdleTd
  <2>. QED
    BY <1>1, <2>1 DEF AnnounceInv, TradeRecorded
<1>. QED
  BY <1>2, <1>3, TradeEffects

\* A trade is announced at most once and only after it is stored, however
\* often the exchange repeats the fill and wherever the process dies.
THEOREM TradesAnnouncedOnce == Spec => []AnnouncedOnce
<1>1. Init => TypeInv /\ AnnounceInv
  BY TypeInvInit DEF Init, AnnounceInv, IdleTd
<1>2. TypeInv /\ AnnounceInv /\ [Next]_vars => TypeInv' /\ AnnounceInv'
  BY TypeInvStep, AnnounceStep
<1>3. AnnounceInv => AnnouncedOnce
  BY DEF AnnounceInv, AnnouncedOnce
<1>. QED
  BY <1>1, <1>2, <1>3, PTL DEF Spec

\* A fill that identifies its order is attributed to the owner of the order or
\* to no one, by the number in memory or by the row.
LEMMA FillAttributed ==
    ASSUME Known, FillsIdentify, OnFill
    PROVE  td'.who \in {None, exch[td'.msg.native].owner}
<1>. USE DEF Known, TypeInv
<1>. DEFINE msg == Head(inbox)
<1>1. msg \in FillMessages /\ MessageTrue(exch, msg)
  <2>1. inbox # <<>> /\ msg.kind = "fill"
    BY DEF OnFill, Incoming
  <2>2. msg = inbox[1] /\ 1 \in DOMAIN inbox /\ inbox[1] \in Messages
    BY <2>1 DEF LinkType
  <2>. QED
    BY <2>1, <2>2 DEF IdsInv, MessagesTrue, InboxTrue, Messages, OrderMessages, NoMessage
<1>2. td'.msg = msg
  BY DEF OnFill
<1>. HIDE DEF msg
<1>. DEFINE n == msg.native
<1>3. /\ n \in Natives /\ exch[n].state = "TRADED" /\ exch[n].key \in OrderKeys
      /\ msg.key.no = exch[n].key.no /\ msg.key.no # None
      /\ msg.key = exch[n].key \/ (~FillsCarryFlag /\ msg.key.flag = None)
  <2>1. n \in Natives /\ exch[n].state = "TRADED" /\ msg \in FillsOf(n, exch[n].key)
    BY <1>1 DEF MessageTrue, FillMessages
  <2>2. exch[n].key \in OrderKeys
    BY <2>1 DEF BookType
  <2>. QED
    BY <2>1, <2>2, StoreAssumption DEF FillsOf, OrderKeys
<1>4. ASSUME msg.key \in OrderKeys, mem.byKey[msg.key] # None
      PROVE  mem.byKey[msg.key] = n
  <2>1. msg.key = exch[n].key
    BY <1>3, <1>4, StoreAssumption DEF OrderKeys
  <2>2. exch[mem.byKey[msg.key]].key = msg.key /\ mem.byKey[msg.key] \in Natives
    BY <1>4 DEF IdsInv, MemoryTrue, MemType, Memory
  <2>3. msg.key # NoOrderKey
    BY <1>4, StoreAssumption DEF OrderKeys, NoOrderKey
  <2>. QED
    BY <1>3, <2>1, <2>2, <2>3 DEF IdsInv, BookTrue
<1>5. ASSUME NEW k \in FindByOrderNo(orders, msg.key.no, msg.key.flag)
      PROVE  k \in Keys /\ k = exch[n].owner
  <2>1. k \in Keys /\ orders[k].key.no = msg.key.no
        /\ (msg.key.flag = None \/ orders[k].key.flag = msg.key.flag)
    BY DEF FindByOrderNo
  <2>2. orders[k].key # NoOrderKey
    BY <1>3, <2>1 DEF NoOrderKey
  <2>3. orders[k].native \in Natives /\ exch[orders[k].native].key = orders[k].key
        /\ orders[k].key \in OrderKeys
    BY <2>1, <2>2 DEF IdsInv, MemoryTrue, StoreType, Row
  <2>4. orders[k].native = n
    <3>1. CASE FillsCarryFlag
      <4>1. msg.key = exch[n].key /\ msg.key.flag # None
        BY <1>3, <3>1, StoreAssumption DEF OrderKeys
      <4>2. orders[k].key = exch[n].key
        BY <1>3, <2>1, <2>3, <4>1 DEF OrderKeys
      <4>. QED
        BY <1>3, <2>2, <2>3, <4>2 DEF IdsInv, BookTrue
    <3>2. CASE \A m, j \in Natives :
                  exch[m].key.no = exch[j].key.no /\ exch[m].key # NoOrderKey => m = j
      BY <1>3, <2>1, <2>2, <2>3, <3>2
    <3>. QED
      BY <3>1, <3>2 DEF FillsIdentify
  <2>5. orders[k].native # None
    BY <2>3, StoreAssumption
  <2>. QED
    BY <2>1, <2>4, <2>5 DEF OwnerInv
<1>6. \/ /\ msg.key \in OrderKeys /\ mem.byKey[msg.key] # None
         /\ td'.who = mem.owner[mem.byKey[msg.key]]
      \/ td'.who = None
      \/ td'.who \in FindByOrderNo(orders, msg.key.no, msg.key.flag)
  BY DEF OnFill, msg
<1>7. mem.owner[n] \in {None, exch[n].owner}
  BY <1>3 DEF OwnerInv
<1>. QED
  BY <1>2, <1>4, <1>5, <1>6, <1>7

\* Every step keeps FillInv as long as fills identify their order.
LEMMA FillStep ==
    ASSUME Known, FillInv, FillsIdentify, [Next]_vars
    PROVE  FillInv'
<1>. USE DEF Known, TypeInv
<1>1. BookKept
  BY KnownStep
<1>2. \A n \in Natives : exch[n].owner \in {None, exch'[n].owner}
  BY <1>1 DEF BookKept, OwnersKept
<1>3. \A t \in trades : t.match \in Natives /\ t.owner \in {None, exch'[t.match].owner}
  BY <1>2 DEF FillInv, TradeOwnerTrue, StoreType, Trade
<1>4. TradeOwnerTrue'
  <2>1. CASE UNCHANGED trades
    BY <1>3, <2>1 DEF TradeOwnerTrue
  <2>2. CASE /\ td.pc = "fill_store" /\ UNCHANGED exch
             /\ trades' = RecordTrade(trades, td.msg.native, td.who)
    BY <1>3, <2>2 DEF TradeOwnerTrue, RecordTrade, FillInv
  <2>. QED
    BY <2>1, <2>2, TradeEffects
<1>5. td'.pc = "fill_store" => td'.who \in {None, exch'[td'.msg.native].owner}
  <2>1. CASE OnFill
    BY <2>1, FillAttributed DEF OnFill, outside
  <2>2. CASE UNCHANGED td
    <3>1. td.pc = "fill_store" => td.msg.native \in Natives
      BY DEF TdType, FillPcs, FillMessages
    <3>. QED
      BY <1>2, <2>2, <3>1 DEF FillInv
  <2>3. CASE OnOrder \/ OrderIdentity \/ OrderUpdate \/ OrderPublish \/ FillRecord \/ FillPublish
             \/ TdFault \/ CrashRestart
    <3>1. OnOrder => td'.pc = "order_identity"
      BY DEF OnOrder, IdleTd
    <3>2. OrderIdentity \/ OrderUpdate => td'.pc \in {"order_store", "order_publish"}
      BY DEF OrderIdentity, OrderUpdate, TdType
    <3>3. FillRecord => td'.pc \in {"idle", "fill_publish"}
      BY DEF FillRecord, IdleTd, TdType
    <3>4. OrderPublish \/ FillPublish \/ TdFault \/ CrashRestart => td'.pc = "idle"
      BY DEF OrderPublish, FillPublish, TdFault, CrashRestart, IdleTd
    <3>. QED
      BY <2>3, <3>1, <3>2, <3>3, <3>4
  <2>4. CASE UNCHANGED vars \/ Client \/ CmdStep \/ CmdFault \/ Exchange \/ Link \/ OnOrderLast
    BY <2>2, <2>4
       DEF vars, Client, CmdStep, CmdFault, Exchange, Link, PlaceOrder, CancelOrder,
           PlaceReserve, InsertAccepted, InsertRefused, InsertNoApi, PlaceSetNative, PlaceBind,
           PlaceMarkFailed, CancelPark, CancelSend, ExchAck, ExchReject, ExchFill, ExchCancel,
           ExchMoves, ResendFill, Connect, QryOrder, LinkDown, OnDisconnect, OnOrderLast
  <2>. QED
    BY <2>1, <2>3, <2>4 DEF Next, TdStep
<1>. QED
  BY <1>4, <1>5 DEF FillInv

\* A stored trade belongs to the owner of the filled order or to no one, in
\* every behaviour in which fills identify their order.
THEOREM TradesReachNoOther == Spec /\ []FillsIdentify => []TradeOwnerTrue
<1>1. Init => Known /\ FillInv
  BY KnownInit DEF Init, FillInv, TradeOwnerTrue, IdleTd
<1>2. Known /\ FillInv /\ FillsIdentify /\ [Next]_vars => Known' /\ FillInv'
  BY KnownStep, FillStep
<1>3. FillInv => TradeOwnerTrue
  BY DEF FillInv
<1>. QED
  BY <1>1, <1>2, <1>3, PTL DEF Spec

\* Fills that carry their flag do.
COROLLARY FlaggedTradesReachNoOther ==
    ASSUME FillsCarryFlag
    PROVE  Spec => []TradeOwnerTrue
<1>1. FillsIdentify
  BY DEF FillsIdentify
<1>. QED
  BY <1>1, TradesReachNoOther, PTL

\* So do fills on a single server, where numbers are unique by themselves.
COROLLARY OneServerTradesReachNoOther ==
    ASSUME \A f, g \in Flags : f = g
    PROVE  Spec => []TradeOwnerTrue
<1>1. Init => Known
  BY KnownInit
<1>2. Known /\ [Next]_vars => Known'
  BY KnownStep
<1>3. Known => FillsIdentify
  <2>. SUFFICES ASSUME Known, NEW m \in Natives, NEW n \in Natives,
                       exch[m].key.no = exch[n].key.no, exch[m].key # NoOrderKey
                PROVE  m = n
    BY DEF FillsIdentify
  <2>1. exch[m].key \in OrderKeys /\ exch[n].key \in OrderKeys \cup {NoOrderKey}
    BY DEF Known, TypeInv, BookType, BookEntry
  <2>2. exch[n].key \in OrderKeys
    BY <2>1, StoreAssumption DEF OrderKeys, NoOrderKey
  <2>3. exch[m].key = exch[n].key
    BY <2>1, <2>2 DEF OrderKeys
  <2>. QED
    BY <2>3 DEF Known, IdsInv, BookTrue
<1>. QED
  BY <1>1, <1>2, <1>3, TradesReachNoOther, PTL DEF Spec
===============================================================================
