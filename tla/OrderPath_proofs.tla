--------------------------- MODULE OrderPath_proofs ---------------------------
(***************************************************************************)
(* Theorems of OrderPath for every value of its constants: its types, that *)
(* insertOrder is called at most once for an identity, that the order path *)
(* implements SubmitOnce, and that no order event goes to a wrong owner.   *)
(***************************************************************************)
EXTENDS OrderPath, FiniteSetTheorems, SequenceTheorems, TLAPS

-------------------------------------------------------------------------------
(* The type invariant, one part per group of variables.  TypeOK alone is not *)
(* inductive: a thread past its first step works on a real identity, id or   *)
(* message, and a cancel is sent only for an order whose number is known.    *)

OrderPcs == {"order_identity", "order_store", "order_publish"}
FillPcs  == {"fill_store", "fill_publish"}

StoreType == orders \in [Keys -> Row] /\ trades \subseteq Trade

MemType == mem \in Memory /\ pendingCancels \subseteq Natives

CmdType ==
    /\ cmd \in [pc: CmdPcs, key: Keys \cup {None}, native: Natives \cup {None}]
    /\ cmd.pc # "idle" => cmd.key \in Keys
    /\ cmd.pc \in {"set_native", "bind", "park", "send_cancel"} => cmd.native \in Natives

TdType ==
    /\ td \in [pc: TdPcs, msg: Messages, who: Keys \cup {None}]
    /\ td.pc \in OrderPcs => td.msg \in OrderMessages
    /\ td.pc \in FillPcs => td.msg \in FillMessages

LinkType == inbox \in Seq(Messages) /\ conn \in Links

BookType ==
    /\ exch \in [Natives -> BookEntry]
    /\ cancelReqs \subseteq OrderKeys
    /\ \A n \in Natives :
          exch[n].state \in {"SUBMITTED", "TRADED", "CANCELLED"} => exch[n].key \in OrderKeys

CountType ==
    /\ sent \in [Keys -> Nat]
    /\ cancelAsked \subseteq Keys
    /\ announced \in [Natives -> Nat]
    /\ spent \in [crash: Nat, drop: Nat, fault: Nat, resend: Nat]

\* The number a thread is about to use has been learnt.
NumberInv ==
    /\ cmd.pc = "send_cancel" => mem.key[cmd.native] # NoOrderKey
    /\ td.pc \in OrderPcs /\ td.msg.key # NoOrderKey =>
           mem.key[td.msg.native] # NoOrderKey

TypeInv == /\ StoreType /\ MemType /\ CmdType /\ TdType
           /\ LinkType /\ BookType /\ CountType /\ NumberInv

\* The parts of TypeInv are those of TypeOK and more.
LEMMA TypeInvImplies == TypeInv => TypeOK
BY DEF TypeInv, TypeOK, StoreType, MemType, CmdType, TdType, LinkType, BookType, CountType

-------------------------------------------------------------------------------
(* What the operators of the model return *)

\* A row that is absent is still a row.
LEMMA NoRowType == NoRow \in Row
BY DEF NoRow, Row, Statuses

\* INSERT keeps the table a table.
LEMMA ReserveType ==
    ASSUME NEW table \in [Keys -> Row], NEW k \in Keys
    PROVE  Reserve(table, k) \in [Keys -> Row]
BY NoRowType DEF Reserve, Row, Statuses, NoRow

\* So does the UPDATE of set_native,
LEMMA SetNativeType ==
    ASSUME NEW table \in [Keys -> Row], NEW k \in Keys, NEW n \in Natives
    PROVE  SetNative(table, k, n) \in [Keys -> Row]
BY DEF SetNative, Row, Statuses

\* that of mark_failed
LEMMA MarkFailedType ==
    ASSUME NEW table \in [Keys -> Row], NEW k \in Keys
    PROVE  MarkFailed(table, k) \in [Keys -> Row]
BY DEF MarkFailed, Row, Statuses

\* and that of update_tap.
LEMMA UpdateTapType ==
    ASSUME NEW table \in [Keys -> Row], NEW msg \in OrderMessages
    PROVE  UpdateTap(table, msg.native, msg.key, msg.status) \in [Keys -> Row]
BY DEF UpdateTap, Row, Statuses, OrderMessages

\* A hydrated memory is a memory and forgets no number.
LEMMA HydratedType ==
    ASSUME NEW m \in Memory, NEW k \in Keys, NEW row \in Row
    PROVE  /\ Hydrated(m, k, row) \in Memory
           /\ \A n \in Natives : m.key[n] # NoOrderKey => Hydrated(m, k, row).key[n] # NoOrderKey
BY StoreAssumption DEF Hydrated, Memory, Row

\* So is a memory that learns the number of an order, and it then has it.
LEMMA LearntType ==
    ASSUME NEW m \in Memory, NEW msg \in OrderMessages
    PROVE  /\ Learnt(m, msg) \in Memory
           /\ msg.key # NoOrderKey => Learnt(m, msg).key[msg.native] # NoOrderKey
           /\ \A n \in Natives : m.key[n] # NoOrderKey => Learnt(m, msg).key[n] # NoOrderKey
BY DEF Learnt, Numbered, Memory, OrderMessages

\* A restart rebuilds a memory from any table.
LEMMA RestoredType ==
    ASSUME NEW table \in [Keys -> Row]
    PROVE  Restored(table) \in Memory
<1>1. \A n \in Natives : OwnerIn(table, n) \in Keys \cup {None}
  BY DEF OwnerIn, FindByNative
<1>. QED
  BY <1>1, StoreAssumption DEF Restored, Memory, Row

\* The snapshot of an exchange is a finite set of order messages, and any
\* listing of it is a sequence of messages.
LEMMA SnapshotType ==
    ASSUME BookType, NEW rows \in SetToSeqs(Snapshot)
    PROVE  rows \in Seq(Messages)
<1>. DEFINE Listed == {m \in Natives : exch[m].state \in ExchangeStatuses}
            row == [n \in Listed |-> OrderMessage(n, exch[n])]
<1>1. Snapshot \subseteq OrderMessages
  BY DEF BookType, Snapshot, OrderMessage, OrderMessages, BookEntry
<1>2. row \in Surjection(Listed, Snapshot)
  BY DEF Surjection, Snapshot
<1>3. IsFiniteSet(Listed)
  BY PathAssumption, FS_Subset
<1>4. Cardinality(Snapshot) \in Nat
  <2>. HIDE DEF Listed, row
  <2>. QED
    BY <1>2, <1>3, FS_Surjection, FS_CardinalityType
<1>5. rows \in [1..Cardinality(Snapshot) -> Messages]
  BY <1>1 DEF SetToSeqs, Messages
<1>. QED
  BY <1>4, <1>5, IsASeq

-------------------------------------------------------------------------------
(* Every step preserves the type invariant *)

\* Numbers are never forgotten while the process lives.
NumbersKept == \A n \in Natives : mem.key[n] # NoOrderKey => mem'.key[n] # NoOrderKey

\* A step that loses no number and starts neither a cancel nor an order message
\* preserves NumberInv.
LEMMA NumberFrame ==
    ASSUME TypeInv, NumbersKept,
           cmd'.pc = "send_cancel" => cmd' = cmd,
           td'.pc \in OrderPcs => td.pc \in OrderPcs /\ td'.msg = td.msg
    PROVE  NumberInv'
BY DEF TypeInv, NumberInv, NumbersKept, CmdType, TdType, OrderMessages

\* The parts whose variables a step leaves alone.
LEMMA Frames ==
    ASSUME TypeInv
    PROVE  /\ UNCHANGED store => StoreType'
           /\ UNCHANGED <<mem, pendingCancels>> => MemType'
           /\ UNCHANGED mem => NumbersKept
           /\ UNCHANGED cmd => CmdType'
           /\ UNCHANGED td => TdType'
           /\ UNCHANGED <<inbox, conn>> => LinkType'
           /\ UNCHANGED outside => BookType'
           /\ UNCHANGED <<history, spent>> => CountType'
BY DEF TypeInv, StoreType, MemType, NumbersKept, CmdType, TdType, LinkType, BookType,
       CountType, store, outside, history

\* A disturbance counted leaves the counters typed.
LEMMA SpendType ==
    ASSUME CountType, NEW what \in {"crash", "drop", "fault", "resend"}, NEW max,
           Spend(what, max), UNCHANGED history
    PROVE  CountType'
BY DEF CountType, Spend, history

\* A command thread that goes back to waiting is well typed,
LEMMA CmdIdle == cmd' = IdleCmd => CmdType'
BY DEF CmdType, IdleCmd, CmdPcs

\* and so is a callback thread.
LEMMA TdIdle == td' = IdleTd => TdType'
BY DEF TdType, IdleTd, TdPcs, Messages, OrderPcs, FillPcs

\* place_order.
LEMMA PlaceSteps ==
    ASSUME TypeInv
    PROVE  /\ \A k \in Keys : PlaceOrder(k) => TypeInv'
           /\ PlaceReserve => TypeInv'
           /\ \A n \in Natives : InsertAccepted(n) => TypeInv'
           /\ InsertRefused => TypeInv'
           /\ InsertNoApi => TypeInv'
           /\ PlaceSetNative => TypeInv'
           /\ PlaceBind => TypeInv'
           /\ PlaceMarkFailed => TypeInv'
<1>. USE DEF TypeInv
<1>1. ASSUME NEW k \in Keys, PlaceOrder(k) PROVE TypeInv'
  <2>1. MemType' /\ NumbersKept
    BY <1>1, HydratedType DEF PlaceOrder, MemType, StoreType, NumbersKept
  <2>2. CmdType' /\ (cmd'.pc = "send_cancel" => cmd' = cmd)
    BY <1>1 DEF PlaceOrder, CmdType, IdleCmd, CmdPcs
  <2>. QED
    BY <1>1, <2>1, <2>2, Frames, NumberFrame DEF PlaceOrder
<1>2. ASSUME PlaceReserve PROVE TypeInv'
  <2>1. StoreType'
    BY <1>2, ReserveType DEF PlaceReserve, StoreType, CmdType
  <2>2. CmdType' /\ cmd'.pc # "send_cancel"
    BY <1>2 DEF PlaceReserve, CmdType, IdleCmd, CmdPcs
  <2>. QED
    BY <1>2, <2>1, <2>2, Frames, NumberFrame DEF PlaceReserve
<1>3. ASSUME NEW n \in Natives, InsertAccepted(n) PROVE TypeInv'
  <2>1. CmdType' /\ cmd'.pc # "send_cancel"
    BY <1>3 DEF InsertAccepted, CmdType, CmdPcs
  <2>2. BookType'
    BY <1>3 DEF InsertAccepted, BookType, BookEntry, BookStates, CmdType
  <2>3. CountType'
    BY <1>3 DEF InsertAccepted, CountType, CmdType
  <2>. QED
    BY <1>3, <2>1, <2>2, <2>3, Frames, NumberFrame DEF InsertAccepted
<1>4. ASSUME InsertRefused PROVE TypeInv'
  <2>1. CmdType' /\ cmd'.pc # "send_cancel"
    BY <1>4 DEF InsertRefused, CmdType, CmdPcs
  <2>2. CountType'
    BY <1>4 DEF InsertRefused, CountType, CmdType
  <2>. QED
    BY <1>4, <2>1, <2>2, Frames, NumberFrame DEF InsertRefused
<1>5. ASSUME InsertNoApi PROVE TypeInv'
  BY <1>5, CmdIdle, Frames, NumberFrame DEF InsertNoApi, IdleCmd
<1>6. ASSUME PlaceSetNative PROVE TypeInv'
  <2>1. StoreType'
    BY <1>6, SetNativeType DEF PlaceSetNative, StoreType, CmdType
  <2>2. CmdType' /\ cmd'.pc # "send_cancel"
    BY <1>6 DEF PlaceSetNative, CmdType, CmdPcs
  <2>. QED
    BY <1>6, <2>1, <2>2, Frames, NumberFrame DEF PlaceSetNative
<1>7. ASSUME PlaceBind PROVE TypeInv'
  <2>1. MemType' /\ NumbersKept
    BY <1>7 DEF PlaceBind, MemType, Memory, Bound, NumbersKept, CmdType
  <2>. QED
    BY <1>7, <2>1, CmdIdle, Frames, NumberFrame DEF PlaceBind, IdleCmd
<1>8. ASSUME PlaceMarkFailed PROVE TypeInv'
  <2>1. StoreType'
    BY <1>8, MarkFailedType DEF PlaceMarkFailed, StoreType, CmdType
  <2>. QED
    BY <1>8, <2>1, CmdIdle, Frames, NumberFrame DEF PlaceMarkFailed, IdleCmd
<1>. QED
  BY <1>1, <1>2, <1>3, <1>4, <1>5, <1>6, <1>7, <1>8

\* cancel_order and a failing statement of the command thread.
LEMMA CancelSteps ==
    ASSUME TypeInv
    PROVE  /\ \A k \in Keys : CancelOrder(k) => TypeInv'
           /\ CancelPark => TypeInv'
           /\ CancelSend => TypeInv'
           /\ CmdFault => TypeInv'
<1>. USE DEF TypeInv
<1>1. ASSUME NEW k \in Keys, CancelOrder(k) PROVE TypeInv'
  <2>. DEFINE m == IF mem.native[k] # None THEN mem ELSE Hydrated(mem, k, orders[k])
  <2>1. m \in Memory /\ \A n \in Natives : mem.key[n] # NoOrderKey => m.key[n] # NoOrderKey
    BY HydratedType DEF MemType, StoreType
  <2>2. /\ m.native[k] # None
        /\ mem' = m
        /\ cmd' = [key |-> k, native |-> m.native[k],
                   pc |-> IF m.key[m.native[k]] = NoOrderKey THEN "park" ELSE "send_cancel"]
        /\ UNCHANGED <<store, pendingCancels, td, inbox, conn, outside, announced, sent, spent>>
        /\ cancelAsked' = cancelAsked \cup {k}
    BY <1>1 DEF CancelOrder
  <2>. HIDE DEF m
  <2>3. m.native[k] \in Natives
    BY <2>1, <2>2 DEF Memory
  <2>4. MemType' /\ NumbersKept
    BY <2>1, <2>2 DEF MemType, NumbersKept
  <2>5. CmdType'
    BY <2>2, <2>3 DEF CmdType, CmdPcs
  <2>6. CountType'
    BY <2>2 DEF CountType
  <2>7. NumberInv'
    BY <2>2, <2>4 DEF NumberInv, NumbersKept, TdType, OrderMessages
  <2>. QED
    BY <2>2, <2>4, <2>5, <2>6, <2>7, Frames
<1>2. ASSUME CancelPark PROVE TypeInv'
  <2>1. MemType' /\ NumbersKept
    BY <1>2 DEF CancelPark, MemType, CmdType, NumbersKept
  <2>. QED
    BY <1>2, <2>1, CmdIdle, Frames, NumberFrame DEF CancelPark, IdleCmd
<1>3. ASSUME CancelSend PROVE TypeInv'
  <2>1. mem.key[cmd.native] \in OrderKeys
    BY <1>3 DEF CancelSend, NumberInv, CmdType, MemType, Memory
  <2>2. BookType'
    BY <1>3, <2>1 DEF CancelSend, AskCancel, BookType
  <2>. QED
    BY <1>3, <2>2, CmdIdle, Frames, NumberFrame DEF CancelSend, IdleCmd
<1>4. ASSUME CmdFault PROVE TypeInv'
  <2>1. StoreType'
    BY <1>4, ReserveType, SetNativeType, MarkFailedType DEF CmdFault, StoreType, CmdType
  <2>2. CountType'
    BY <1>4, SpendType DEF CmdFault
  <2>. QED
    BY <1>4, <2>1, <2>2, CmdIdle, Frames, NumberFrame DEF CmdFault, IdleCmd
<1>. QED
  BY <1>1, <1>2, <1>3, <1>4

\* The order callbacks.
LEMMA OrderSteps ==
    ASSUME TypeInv
    PROVE  /\ OnOrder => TypeInv'
           /\ OrderIdentity => TypeInv'
           /\ OrderUpdate => TypeInv'
           /\ OrderPublish => TypeInv'
           /\ OnOrderLast => TypeInv'
<1>. USE DEF TypeInv
<1>1. ASSUME OnOrder PROVE TypeInv'
  <2>1. inbox # <<>> /\ Head(inbox).kind = "order" /\ mem' = Learnt(mem, Head(inbox))
        /\ td' = [IdleTd EXCEPT !.pc = "order_identity", !.msg = Head(inbox)]
        /\ inbox' = Tail(inbox)
        /\ UNCHANGED <<store, pendingCancels, cmd, conn, outside, history, spent>>
    BY <1>1 DEF OnOrder, Incoming
  <2>2. Head(inbox) \in OrderMessages /\ inbox' \in Seq(Messages)
    BY <2>1, HeadTailProperties DEF LinkType, Messages, OrderMessages, FillMessages, NoMessage
  <2>3. MemType' /\ NumbersKept
    BY <2>1, <2>2, LearntType DEF MemType, NumbersKept
  <2>4. TdType'
    BY <2>1, <2>2 DEF TdType, IdleTd, TdPcs, OrderPcs, FillPcs, Messages
  <2>5. NumberInv'
    <3>1. Head(inbox).key # NoOrderKey => mem'.key[Head(inbox).native] # NoOrderKey
      BY <2>1, <2>2, LearntType DEF MemType
    <3>2. td'.msg = Head(inbox)
      BY <2>1 DEF IdleTd
    <3>. QED
      BY <2>1, <2>3, <3>1, <3>2 DEF NumberInv, NumbersKept, CmdType
  <2>. QED
    BY <2>1, <2>2, <2>3, <2>4, <2>5, Frames DEF LinkType
<1>2. ASSUME OrderIdentity PROVE TypeInv'
  <2>1. MemType' /\ NumbersKept
    <3>1. mem' = mem \/ \E k \in Keys : mem' = Hydrated(mem, k, orders[k])
      BY <1>2 DEF OrderIdentity, FindByNative
    <3>2. \A k \in Keys : orders[k] \in Row
      BY DEF StoreType
    <3>3. CASE mem' = mem
      BY <1>2, <3>3 DEF OrderIdentity, MemType, NumbersKept
    <3>4. ASSUME NEW k \in Keys, mem' = Hydrated(mem, k, orders[k])
          PROVE  MemType' /\ NumbersKept
      BY <1>2, <3>2, <3>4, HydratedType DEF OrderIdentity, MemType, NumbersKept
    <3>. QED
      BY <3>1, <3>3, <3>4
  <2>2. TdType' /\ td'.pc = "order_store" /\ td'.msg = td.msg
    BY <1>2 DEF OrderIdentity, TdType, MemType, Memory, TdPcs, OrderPcs, FillPcs,
                FindByNative, OrderMessages
  <2>. QED
    BY <1>2, <2>1, <2>2, Frames, NumberFrame DEF OrderIdentity, OrderPcs
<1>3. ASSUME OrderUpdate PROVE TypeInv'
  <2>1. StoreType'
    BY <1>3, UpdateTapType DEF OrderUpdate, StoreType, TdType, OrderPcs
  <2>2. TdType' /\ td'.msg = td.msg
    BY <1>3 DEF OrderUpdate, TdType, TdPcs, OrderPcs, FillPcs
  <2>. QED
    BY <1>3, <2>1, <2>2, Frames, NumberFrame DEF OrderUpdate, OrderPcs
<1>4. ASSUME OrderPublish PROVE TypeInv'
  <2>1. MemType' /\ NumbersKept
    BY <1>4 DEF OrderPublish, MemType, NumbersKept
  <2>2. td.msg.key # NoOrderKey => mem.key[td.msg.native] \in OrderKeys
    BY <1>4 DEF OrderPublish, NumberInv, OrderPcs, TdType, MemType, Memory, OrderMessages
  <2>3. BookType'
    BY <1>4, <2>2 DEF OrderPublish, ParkedAndNumbered, AskCancel, BookType
  <2>. QED
    BY <1>4, <2>1, <2>3, TdIdle, Frames, NumberFrame DEF OrderPublish, IdleTd, OrderPcs
<1>5. ASSUME OnOrderLast PROVE TypeInv'
  <2>1. LinkType'
    BY <1>5, HeadTailProperties DEF OnOrderLast, Incoming, LinkType, Links
  <2>. QED
    BY <1>5, <2>1, Frames, NumberFrame DEF OnOrderLast
<1>. QED
  BY <1>1, <1>2, <1>3, <1>4, <1>5

\* The fill callback and a failing statement of the TD thread.
LEMMA FillSteps ==
    ASSUME TypeInv
    PROVE  /\ OnFill => TypeInv'
           /\ FillRecord => TypeInv'
           /\ FillPublish => TypeInv'
           /\ TdFault => TypeInv'
<1>. USE DEF TypeInv
<1>1. ASSUME OnFill PROVE TypeInv'
  <2>1. Head(inbox) \in FillMessages /\ inbox' \in Seq(Messages)
    BY <1>1, HeadTailProperties
       DEF OnFill, Incoming, LinkType, Messages, OrderMessages, FillMessages, NoMessage
  <2>2. MemType' /\ NumbersKept
    BY <1>1, HydratedType
       DEF OnFill, MemType, StoreType, NumbersKept, FindByOrderNo
  <2>3. \E who \in Keys \cup {None} :
            td' = [pc |-> "fill_store", msg |-> Head(inbox), who |-> who]
    BY <1>1 DEF OnFill, MemType, Memory, FindByOrderNo
  <2>4. TdType' /\ td'.pc = "fill_store"
    BY <2>1, <2>3 DEF TdType, TdPcs, OrderPcs, FillPcs, Messages
  <2>. QED
    BY <1>1, <2>1, <2>2, <2>4, Frames, NumberFrame DEF OnFill, LinkType, OrderPcs
<1>2. ASSUME FillRecord PROVE TypeInv'
  <2>1. StoreType'
    BY <1>2 DEF FillRecord, RecordTrade, StoreType, Trade, TdType, FillPcs, FillMessages
  <2>2. TdType' /\ td'.pc \notin OrderPcs
    BY <1>2, TdIdle DEF FillRecord, TdType, TdPcs, OrderPcs, FillPcs, IdleTd
  <2>. QED
    BY <1>2, <2>1, <2>2, Frames, NumberFrame DEF FillRecord
<1>3. ASSUME FillPublish PROVE TypeInv'
  <2>1. CountType'
    BY <1>3 DEF FillPublish, CountType, TdType, FillPcs, FillMessages
  <2>. QED
    BY <1>3, <2>1, TdIdle, Frames, NumberFrame DEF FillPublish, IdleTd, OrderPcs
<1>4. ASSUME TdFault PROVE TypeInv'
  <2>1. orders' \in [Keys -> Row]
    BY <1>4, UpdateTapType DEF TdFault, StoreType, TdType, OrderPcs, store
  <2>2. trades' \subseteq Trade
    BY <1>4 DEF TdFault, StoreType, TdType, FillPcs, store, RecordTrade, Trade, FillMessages
  <2>3. CountType'
    BY <1>4, SpendType DEF TdFault
  <2>. QED
    BY <1>4, <2>1, <2>2, <2>3, TdIdle, Frames, NumberFrame DEF TdFault, StoreType, IdleTd, OrderPcs
<1>. QED
  BY <1>1, <1>2, <1>3, <1>4

\* Pushed messages leave the inbox a sequence of messages.
LEMMA PushType ==
    ASSUME LinkType, NEW msgs \in Seq(Messages), Push(msgs), conn' = conn
    PROVE  LinkType'
BY ConcatProperties DEF Push, LinkType

\* A step of the exchange that pushes messages keeps every part of TypeInv.
LEMMA ExchangeMove ==
    ASSUME TypeInv, NEW n \in Natives, NEW entry \in BookEntry,
           entry.state \in {"SUBMITTED", "TRADED", "CANCELLED"} => entry.key \in OrderKeys,
           NEW msgs \in Seq(Messages), ExchMoves(n, entry, msgs)
    PROVE  TypeInv'
<1>. USE DEF TypeInv
<1>1. BookType'
  BY DEF ExchMoves, BookType
<1>2. LinkType'
  BY PushType DEF ExchMoves
<1>. QED
  BY <1>1, <1>2, Frames, NumberFrame DEF ExchMoves

\* What the exchange says of an order is an order message.
LEMMA OrderMessageType ==
    ASSUME NEW n \in Natives, NEW entry \in BookEntry, entry.state \in ExchangeStatuses
    PROVE  OrderMessage(n, entry) \in Messages
BY DEF OrderMessage, BookEntry, Messages, OrderMessages

\* Each step of the exchange keeps TypeInv.
LEMMA ExchangeSteps ==
    ASSUME TypeInv, NEW n \in Natives
    PROVE  /\ ExchAck(n) => TypeInv'
           /\ ExchReject(n) => TypeInv'
           /\ ExchFill(n) => TypeInv'
           /\ ExchCancel(n) => TypeInv'
           /\ ResendFill(n) => TypeInv'
<1>. USE DEF TypeInv
<1>1. exch[n] \in BookEntry
  BY DEF BookType
<1>2. ASSUME ExchAck(n) PROVE TypeInv'
  <2>. PICK key \in OrderKeys :
          ExchMoves(n, [exch[n] EXCEPT !.state = "SUBMITTED", !.key = key],
                    <<OrderMessage(n, [exch[n] EXCEPT !.state = "SUBMITTED", !.key = key])>>)
    BY <1>2 DEF ExchAck
  <2>. DEFINE entry == [exch[n] EXCEPT !.state = "SUBMITTED", !.key = key]
  <2>1. entry \in BookEntry /\ entry.key \in OrderKeys /\ entry.state \in ExchangeStatuses
    BY <1>1 DEF BookEntry, BookStates, ExchangeStatuses
  <2>2. ExchMoves(n, entry, <<OrderMessage(n, entry)>>)
    OBVIOUS
  <2>. HIDE DEF entry
  <2>3. <<OrderMessage(n, entry)>> \in Seq(Messages)
    BY <2>1, OrderMessageType
  <2>. QED
    BY <2>1, <2>2, <2>3, ExchangeMove
<1>3. ASSUME ExchReject(n) PROVE TypeInv'
  <2>. DEFINE entry == [exch[n] EXCEPT !.state = "REJECTED"]
  <2>1. entry \in BookEntry /\ entry.state = "REJECTED" /\ entry.state \in ExchangeStatuses
    BY <1>1 DEF BookEntry, BookStates, ExchangeStatuses
  <2>2. ExchMoves(n, entry, <<OrderMessage(n, entry)>>)
    BY <1>3 DEF ExchReject
  <2>. HIDE DEF entry
  <2>3. <<OrderMessage(n, entry)>> \in Seq(Messages)
    BY <2>1, OrderMessageType
  <2>. QED
    BY <2>1, <2>2, <2>3, ExchangeMove
<1>4. ASSUME ExchFill(n) PROVE TypeInv'
  <2>. DEFINE entry == [exch[n] EXCEPT !.state = "TRADED"]
  <2>1. entry \in BookEntry /\ entry.key \in OrderKeys /\ entry.state \in ExchangeStatuses
    BY <1>1, <1>4 DEF ExchFill, BookType, BookEntry, BookStates, ExchangeStatuses
  <2>2. PICK fill \in Messages :
           \/ ExchMoves(n, entry, <<OrderMessage(n, entry), fill>>)
           \/ ExchMoves(n, entry, <<fill, OrderMessage(n, entry)>>)
    BY <1>4 DEF ExchFill, FillsOf, Messages
  <2>. HIDE DEF entry
  <2>3. /\ <<OrderMessage(n, entry), fill>> \in Seq(Messages)
        /\ <<fill, OrderMessage(n, entry)>> \in Seq(Messages)
    BY <2>1, OrderMessageType
  <2>. QED
    BY <2>1, <2>2, <2>3, ExchangeMove
<1>5. ASSUME ExchCancel(n) PROVE TypeInv'
  <2>. DEFINE entry == [exch[n] EXCEPT !.state = "CANCELLED"]
  <2>1. entry \in BookEntry /\ entry.key \in OrderKeys /\ entry.state \in ExchangeStatuses
    BY <1>1, <1>5 DEF ExchCancel, BookType, BookEntry, BookStates, ExchangeStatuses
  <2>2. ExchMoves(n, entry, <<OrderMessage(n, entry)>>)
    BY <1>5 DEF ExchCancel
  <2>. HIDE DEF entry
  <2>3. <<OrderMessage(n, entry)>> \in Seq(Messages)
    BY <2>1, OrderMessageType
  <2>. QED
    BY <2>1, <2>2, <2>3, ExchangeMove
<1>6. ASSUME ResendFill(n) PROVE TypeInv'
  <2>1. LinkType'
    BY <1>6 DEF ResendFill, FillsOf, LinkType, Messages
  <2>2. CountType'
    BY <1>6, SpendType DEF ResendFill
  <2>. QED
    BY <1>6, <2>1, <2>2, Frames, NumberFrame DEF ResendFill
<1>. QED
  BY <1>2, <1>3, <1>4, <1>5, <1>6

\* The link and the process.
LEMMA LinkSteps ==
    ASSUME TypeInv
    PROVE  /\ Connect => TypeInv'
           /\ QryOrder => TypeInv'
           /\ LinkDown => TypeInv'
           /\ OnDisconnect => TypeInv'
           /\ CrashRestart => TypeInv'
<1>. USE DEF TypeInv
<1>1. ASSUME Connect PROVE TypeInv'
  <2>1. LinkType'
    BY <1>1 DEF Connect, LinkType, Links
  <2>. QED
    BY <1>1, <2>1, Frames, NumberFrame DEF Connect
<1>2. ASSUME QryOrder PROVE TypeInv'
  <2>1. PICK rows \in SetToSeqs(Snapshot) : inbox' = inbox \o rows \o <<NoMessage>>
    BY <1>2 DEF QryOrder
  <2>2. rows \in Seq(Messages) /\ <<NoMessage>> \in Seq(Messages)
    BY SnapshotType DEF Messages
  <2>3. LinkType'
    BY <1>2, <2>1, <2>2, ConcatProperties DEF QryOrder, LinkType, Links
  <2>. QED
    BY <1>2, <2>3, Frames, NumberFrame DEF QryOrder
<1>3. ASSUME LinkDown PROVE TypeInv'
  <2>1. LinkType' /\ CountType'
    BY <1>3, SpendType DEF LinkDown, LinkType, Links
  <2>. QED
    BY <1>3, <2>1, Frames, NumberFrame DEF LinkDown
<1>4. ASSUME OnDisconnect PROVE TypeInv'
  <2>1. LinkType'
    BY <1>4 DEF OnDisconnect, LinkType, Links
  <2>. QED
    BY <1>4, <2>1, Frames, NumberFrame DEF OnDisconnect
<1>5. ASSUME CrashRestart PROVE TypeInv'
  <2>1. MemType'
    BY <1>5, RestoredType DEF CrashRestart, MemType, StoreType
  <2>2. LinkType' /\ CountType'
    BY <1>5, SpendType DEF CrashRestart, LinkType, Links
  <2>3. NumberInv'
    BY <1>5 DEF CrashRestart, NumberInv, IdleCmd, IdleTd, OrderPcs
  <2>. QED
    BY <1>5, <2>1, <2>2, <2>3, CmdIdle, TdIdle, Frames DEF CrashRestart
<1>. QED
  BY <1>1, <1>2, <1>3, <1>4, <1>5

\* The process starts well typed
LEMMA TypeInvInit == Init => TypeInv
<1>. SUFFICES ASSUME Init PROVE TypeInv
  OBVIOUS
<1>. USE DEF Init
<1>1. StoreType
  BY NoRowType DEF StoreType
<1>2. MemType
  BY <1>1, RestoredType DEF MemType, StoreType
<1>3. CmdType /\ TdType /\ NumberInv
  BY DEF CmdType, TdType, NumberInv, IdleCmd, IdleTd, CmdPcs, TdPcs, OrderPcs, FillPcs, Messages
<1>4. LinkType /\ BookType /\ CountType
  BY DEF LinkType, Links, BookType, BookEntry, BookStates, CountType
<1>. QED
  BY <1>1, <1>2, <1>3, <1>4 DEF TypeInv

\* and every step keeps TypeInv.
LEMMA TypeInvStep == TypeInv /\ [Next]_vars => TypeInv'
<1>. SUFFICES ASSUME TypeInv, [Next]_vars PROVE TypeInv'
  OBVIOUS
<1>1. CASE UNCHANGED vars
  BY <1>1, Frames, NumberFrame DEF vars, TypeInv, store, outside, history
<1>2. CASE Next
  BY <1>2, PlaceSteps, CancelSteps, OrderSteps, FillSteps, ExchangeSteps, LinkSteps
     DEF Next, Client, CmdStep, TdStep, Exchange, Link
<1>. QED
  BY <1>1, <1>2

\* Every state the order path reaches is well typed, whatever the numbers of
\* identities, ids, crashes, lost links, failing statements and repeated fills.
THEOREM TypeCorrect == Spec => []TypeOK
<1>1. Init => TypeInv
  BY TypeInvInit
<1>2. TypeInv /\ [Next]_vars => TypeInv'
  BY TypeInvStep
<1>3. TypeInv => TypeOK
  BY TypeInvImplies
<1>. QED
  BY <1>1, <1>2, <1>3, PTL DEF Spec

-------------------------------------------------------------------------------
(* insertOrder is called at most once for an identity *)

\* Before the call the row stands in PENDING_SUBMIT with no call made; between
\* the call and its outcome the row still does.  A row gets a native id only
\* from that outcome, so an order message never touches a row without one.
SubmitInv ==
    /\ \A k \in Keys :
          /\ sent[k] \in {0, 1}
          /\ ~RowExists(orders, k) => sent[k] = 0
          /\ orders[k].native = None
                <=> orders[k].status \in {"ABSENT", "PENDING_SUBMIT", "SUBMIT_FAILED"}
    /\ cmd.pc = "insert" =>
          orders[cmd.key].status = "PENDING_SUBMIT" /\ sent[cmd.key] = 0
    /\ cmd.pc \in {"set_native", "mark_failed"} =>
          orders[cmd.key].status = "PENDING_SUBMIT" /\ sent[cmd.key] = 1

\* A step of the order path seen from SubmitOnce.
AbstractStep == [Abstract!Next]_(Abstract!vars)

\* Steps that leave the table and the count alone and begin no submission.
LEMMA SubmitFrame ==
    ASSUME SubmitInv, UNCHANGED <<orders, sent>>,
           cmd'.pc \in {"insert", "set_native", "mark_failed"} => cmd' = cmd
    PROVE  SubmitInv' /\ AbstractStep
BY DEF SubmitInv, RowExists, AbstractStep, Abstract!vars

\* The reservation, whether or not the thread goes on to submit.
LEMMA SubmitReserve ==
    ASSUME TypeInv, SubmitInv, cmd.pc = "reserve", UNCHANGED sent,
           orders' = Reserve(orders, cmd.key),
           cmd'.pc \in {"insert", "set_native", "mark_failed"} =>
               /\ cmd'.pc = "insert" /\ cmd'.key = cmd.key
               /\ ~RowExists(orders, cmd.key)
    PROVE  SubmitInv' /\ AbstractStep
<1>. DEFINE k == cmd.key
<1>1. k \in Keys /\ orders \in [Keys -> Row]
  BY DEF TypeInv, CmdType, StoreType
<1>2. CASE RowExists(orders, k)
  <2>1. orders' = orders
    BY <1>2 DEF Reserve
  <2>. QED
    BY <1>2, <2>1, SubmitFrame
<1>3. CASE ~RowExists(orders, k)
  <2>1. orders' = [orders EXCEPT ![k] = [NoRow EXCEPT !.status = "PENDING_SUBMIT"]]
    BY <1>3 DEF Reserve
  <2>2. SubmitInv'
    BY <1>1, <1>3, <2>1 DEF SubmitInv, RowExists, NoRow
  <2>3. Abstract!Claim(k)
    BY <1>1, <1>3, <2>1 DEF Abstract!Claim, PhaseOf, RowExists, NoRow
  <2>. QED
    BY <1>1, <2>2, <2>3 DEF AbstractStep, Abstract!Next
<1>. QED
  BY <1>2, <1>3

\* The call itself.
LEMMA SubmitCall ==
    ASSUME TypeInv, SubmitInv, cmd.pc = "insert", UNCHANGED orders,
           sent' = [sent EXCEPT ![cmd.key] = @ + 1],
           cmd'.key = cmd.key, cmd'.pc \in {"set_native", "mark_failed"}
    PROVE  SubmitInv' /\ AbstractStep
<1>1. cmd.key \in Keys /\ sent \in [Keys -> Nat] /\ sent[cmd.key] = 0
  BY DEF TypeInv, CmdType, CountType, SubmitInv
<1>2. SubmitInv'
  BY <1>1 DEF SubmitInv, RowExists
<1>3. Abstract!Call(cmd.key)
  BY <1>1 DEF Abstract!Call, SubmitInv, PhaseOf
<1>. QED
  BY <1>1, <1>2, <1>3 DEF AbstractStep, Abstract!Next

\* The outcome of the call written to the row.
LEMMA SubmitSettle ==
    ASSUME TypeInv, SubmitInv, UNCHANGED sent,
           \/ cmd.pc = "set_native" /\ orders' = SetNative(orders, cmd.key, cmd.native)
           \/ cmd.pc = "mark_failed" /\ orders' = MarkFailed(orders, cmd.key),
           cmd'.pc \in {"idle", "bind"}
    PROVE  SubmitInv' /\ AbstractStep
<1>1. cmd.key \in Keys /\ orders \in [Keys -> Row]
  BY DEF TypeInv, CmdType, StoreType
<1>2. orders[cmd.key].status = "PENDING_SUBMIT" /\ sent[cmd.key] = 1
  BY DEF SubmitInv
<1>3. cmd.pc = "set_native" => cmd.native # None
  BY StoreAssumption DEF TypeInv, CmdType
<1>4. SubmitInv'
  BY <1>1, <1>2, <1>3 DEF SubmitInv, RowExists, SetNative, MarkFailed, Row
<1>5. Abstract!Settle(cmd.key)
  <2>1. CASE cmd.pc = "set_native"
    BY <1>1, <1>2, <2>1 DEF Abstract!Settle, PhaseOf, SetNative, Row
  <2>2. CASE cmd.pc = "mark_failed"
    BY <1>1, <1>2, <2>2 DEF Abstract!Settle, PhaseOf, MarkFailed, Row
  <2>. QED
    BY <2>1, <2>2
<1>. QED
  BY <1>1, <1>4, <1>5 DEF AbstractStep, Abstract!Next

\* An order message rewrites only rows whose submission is over.
LEMMA SubmitUpdate ==
    ASSUME TypeInv, SubmitInv, UNCHANGED <<sent, cmd>>, td.pc = "order_store",
           orders' = UpdateTap(orders, td.msg.native, td.msg.key, td.msg.status)
    PROVE  SubmitInv' /\ AbstractStep
<1>1. td.msg.native # None /\ td.msg.status \in ExchangeStatuses
  BY StoreAssumption DEF TypeInv, TdType, OrderPcs, OrderMessages
<1>2. orders \in [Keys -> Row]
  BY DEF TypeInv, StoreType
<1>3. \A k \in Keys :
        \/ orders'[k] = orders[k]
        \/ /\ orders[k].native # None /\ orders'[k].native = orders[k].native
           /\ orders'[k].status \in ExchangeStatuses
  BY <1>1, <1>2 DEF UpdateTap, Row
<1>4. \A k \in Keys : PhaseOf(orders'[k]) = PhaseOf(orders[k])
  BY <1>3 DEF PhaseOf, SubmitInv, ExchangeStatuses
<1>5. cmd.pc \in {"insert", "set_native", "mark_failed"} => orders'[cmd.key] = orders[cmd.key]
  BY <1>3 DEF SubmitInv, TypeInv, CmdType
<1>6. SubmitInv'
  <2>1. \A k \in Keys : orders'[k].native = None
            <=> orders'[k].status \in {"ABSENT", "PENDING_SUBMIT", "SUBMIT_FAILED"}
    BY <1>3 DEF SubmitInv, ExchangeStatuses
  <2>2. \A k \in Keys : ~RowExists(orders, k)' => ~RowExists(orders, k)
    BY <1>3 DEF RowExists, ExchangeStatuses
  <2>. QED
    BY <2>1, <2>2, <1>5 DEF SubmitInv, RowExists
<1>. QED
  BY <1>4, <1>6 DEF AbstractStep, Abstract!vars

\* Every step keeps SubmitInv and is a step of SubmitOnce or none.
LEMMA SubmitStep == TypeInv /\ SubmitInv /\ [Next]_vars => SubmitInv' /\ AbstractStep
<1>. SUFFICES ASSUME TypeInv, SubmitInv, [Next]_vars PROVE SubmitInv' /\ AbstractStep
  OBVIOUS
<1>1. CASE UNCHANGED vars
  BY <1>1, SubmitFrame DEF vars
<1>2. CASE PlaceReserve
  <2>1. RowExists(orders, cmd.key) => cmd'.pc = "idle"
    BY <1>2 DEF PlaceReserve, IdleCmd
  <2>2. ~RowExists(orders, cmd.key) => cmd'.pc = "insert" /\ cmd'.key = cmd.key
    BY <1>2 DEF PlaceReserve, TypeInv, CmdType
  <2>. QED
    BY <1>2, <2>1, <2>2, SubmitReserve DEF PlaceReserve, history
<1>3. CASE \E n \in Natives : InsertAccepted(n)
  <2>1. cmd'.key = cmd.key /\ cmd'.pc = "set_native"
    BY <1>3 DEF InsertAccepted, TypeInv, CmdType
  <2>. QED
    BY <1>3, <2>1, SubmitCall DEF InsertAccepted, store
<1>4. CASE InsertRefused
  <2>1. cmd'.key = cmd.key /\ cmd'.pc = "mark_failed"
    BY <1>4 DEF InsertRefused, TypeInv, CmdType
  <2>. QED
    BY <1>4, <2>1, SubmitCall DEF InsertRefused, store
<1>5. CASE PlaceSetNative
  <2>1. cmd'.pc = "bind"
    BY <1>5 DEF PlaceSetNative, TypeInv, CmdType
  <2>. QED
    BY <1>5, <2>1, SubmitSettle DEF PlaceSetNative, history
<1>6. CASE PlaceMarkFailed
  BY <1>6, SubmitSettle DEF PlaceMarkFailed, history, IdleCmd
<1>7. CASE CmdFault
  <2>1. cmd'.pc = "idle" /\ UNCHANGED sent
    BY <1>7 DEF CmdFault, IdleCmd, history
  <2>2. \/ UNCHANGED orders
        \/ cmd.pc = "reserve" /\ orders' = Reserve(orders, cmd.key)
        \/ cmd.pc = "set_native" /\ orders' = SetNative(orders, cmd.key, cmd.native)
        \/ cmd.pc = "mark_failed" /\ orders' = MarkFailed(orders, cmd.key)
    BY <1>7 DEF CmdFault
  <2>. QED
    BY <2>1, <2>2, SubmitFrame, SubmitReserve, SubmitSettle
<1>8. CASE OrderUpdate
  BY <1>8, SubmitUpdate DEF OrderUpdate, history
<1>9. CASE TdFault
  <2>1. \/ UNCHANGED orders
        \/ /\ td.pc = "order_store"
           /\ orders' = UpdateTap(orders, td.msg.native, td.msg.key, td.msg.status)
    BY <1>9 DEF TdFault, store
  <2>. QED
    BY <1>9, <2>1, SubmitFrame, SubmitUpdate DEF TdFault, history
<1>10. ASSUME NEW k \in Keys, PlaceOrder(k) \/ CancelOrder(k)
       PROVE  SubmitInv' /\ AbstractStep
  <2>1. UNCHANGED <<orders, sent>>
    BY <1>10 DEF PlaceOrder, CancelOrder, store, history
  <2>2. PlaceOrder(k) => cmd'.pc = "reserve" \/ cmd' = cmd
    BY DEF PlaceOrder, IdleCmd
  <2>3. CancelOrder(k) => cmd'.pc \in {"park", "send_cancel"}
    BY DEF CancelOrder
  <2>. QED
    BY <1>10, <2>1, <2>2, <2>3, SubmitFrame
<1>11. CASE InsertNoApi \/ PlaceBind \/ CancelPark \/ CancelSend \/ CrashRestart
  BY <1>11, SubmitFrame
     DEF InsertNoApi, PlaceBind, CancelPark, CancelSend, CrashRestart, store, history, IdleCmd
<1>12. CASE OnOrder \/ OrderIdentity \/ OrderPublish \/ OnOrderLast
            \/ OnFill \/ FillRecord \/ FillPublish
  BY <1>12, SubmitFrame
     DEF OnOrder, OrderIdentity, OrderPublish, OnOrderLast, OnFill, FillRecord, FillPublish,
         store, history
<1>13. CASE Exchange
  BY <1>13, SubmitFrame
     DEF Exchange, ExchAck, ExchReject, ExchFill, ExchCancel, ResendFill, ExchMoves, store, history
<1>14. CASE Link
  BY <1>14, SubmitFrame
     DEF Link, Connect, QryOrder, LinkDown, OnDisconnect, store, history
<1>. QED
  BY <1>1, <1>2, <1>3, <1>4, <1>5, <1>6, <1>7, <1>8, <1>9, <1>10, <1>11, <1>12, <1>13, <1>14
     DEF Next, Client, CmdStep, TdStep

\* Both hold when the process starts on empty tables.
LEMMA SubmitInit == Init => SubmitInv /\ Abstract!Init
BY DEF Init, SubmitInv, RowExists, NoRow, IdleCmd, Abstract!Init, PhaseOf

\* Whatever is retried, crashes or fails, insertOrder is called at most once
\* for an identity.
THEOREM SubmittedOnce == Spec => []NoDoubleSubmit
<1>1. Init => TypeInv /\ SubmitInv
  BY TypeInvInit, SubmitInit
<1>2. TypeInv /\ SubmitInv /\ [Next]_vars => TypeInv' /\ SubmitInv'
  BY TypeInvStep, SubmitStep
<1>3. SubmitInv => NoDoubleSubmit
  BY DEF SubmitInv, NoDoubleSubmit
<1>. QED
  BY <1>1, <1>2, <1>3, PTL DEF Spec

\* The order path implements SubmitOnce: the call follows the durable claim,
\* and a claim whose outcome was lost is never submitted again.
THEOREM ImplementsSubmitOnce == Spec => SubmitsOnce
<1>1. Init => TypeInv /\ SubmitInv /\ Abstract!Init
  BY TypeInvInit, SubmitInit
<1>2. TypeInv /\ SubmitInv /\ [Next]_vars => TypeInv' /\ SubmitInv' /\ AbstractStep
  BY TypeInvStep, SubmitStep
<1>. QED
  BY <1>1, <1>2, PTL DEF Spec, SubmitsOnce, AbstractStep, Abstract!Spec

-------------------------------------------------------------------------------
(* Order events reach their owner or no one *)

\* Rows, memory and the command thread agree with the book on who placed an
\* order, and an id is unowned exactly until insertOrder returns it.
OwnerInv ==
    /\ \A n \in Natives : exch[n].state = "none" => exch[n].owner = None
    /\ \A k \in Keys : orders[k].native # None => exch[orders[k].native].owner = k
    /\ \A n \in Natives : mem.owner[n] \in {None, exch[n].owner}
    /\ cmd.pc \in {"set_native", "bind"} => exch[cmd.native].owner = cmd.key
    /\ EventOwnerTrue

\* Once an order has an owner it keeps it.
OwnersKept ==
    \A n \in Natives : exch[n].owner # None => exch'[n].owner = exch[n].owner

\* What a step that keeps the owners leaves true of the variables it keeps.
LEMMA OwnerFrames ==
    ASSUME TypeInv, OwnerInv, OwnersKept
    PROVE  /\ (\A k \in Keys : orders'[k].native = orders[k].native) =>
                 \A k \in Keys : orders'[k].native # None => exch'[orders'[k].native].owner = k
           /\ (\A n \in Natives : mem'.owner[n] \in {None, mem.owner[n], exch[n].owner}) =>
                 \A n \in Natives : mem'.owner[n] \in {None, exch'[n].owner}
           /\ (cmd'.pc \in {"set_native", "bind"} =>
                    /\ cmd.pc \in {"set_native", "bind"}
                    /\ cmd'.key = cmd.key /\ cmd'.native = cmd.native) =>
                 (cmd'.pc \in {"set_native", "bind"} => exch'[cmd'.native].owner = cmd'.key)
           /\ (td'.pc \in {"order_store", "order_publish"} =>
                    /\ td'.msg.native \in Natives
                    /\ td'.who \in {None, exch[td'.msg.native].owner}) => EventOwnerTrue'
           /\ UNCHANGED td => EventOwnerTrue'
<1>. USE StoreAssumption DEF TypeInv, OwnerInv, OwnersKept
<1>1. \A k \in Keys : orders[k].native # None =>
         orders[k].native \in Natives /\ exch'[orders[k].native].owner = k
  BY DEF StoreType, Row
<1>2. \A n \in Natives : mem.owner[n] \in {None, exch'[n].owner} /\ exch[n].owner \in {None, exch'[n].owner}
  OBVIOUS
<1>3. cmd.pc \in {"set_native", "bind"} => exch'[cmd.native].owner = cmd.key
  BY DEF CmdType
<1>4. td.pc \in {"order_store", "order_publish"} => td.msg.native \in Natives
  BY DEF TdType, OrderPcs, OrderMessages
<1>. QED
  BY <1>1, <1>2, <1>3, <1>4 DEF EventOwnerTrue

\* Hydrating a row binds its id to the identity that placed the order.
LEMMA HydratedOwner ==
    ASSUME TypeInv, OwnerInv, NEW k \in Keys
    PROVE  \A n \in Natives :
              Hydrated(mem, k, orders[k]).owner[n] \in {mem.owner[n], exch[n].owner}
BY DEF TypeInv, StoreType, MemType, Memory, Row, OwnerInv, Hydrated

\* So does a restart.
LEMMA RestoredOwner ==
    ASSUME TypeInv, OwnerInv
    PROVE  \A n \in Natives : Restored(orders).owner[n] \in {None, exch[n].owner}
<1>. SUFFICES ASSUME NEW n \in Natives
              PROVE  Restored(orders).owner[n] \in {None, exch[n].owner}
  OBVIOUS
<1>1. Restored(orders).owner[n] = OwnerIn(orders, n)
  BY DEF Restored
<1>2. \A k \in FindByNative(orders, n) : k \in Keys /\ exch[n].owner = k
  BY StoreAssumption DEF FindByNative, OwnerInv
<1>. QED
  BY <1>1, <1>2 DEF OwnerIn

\* Every step keeps OwnerInv.
LEMMA OwnerStep == TypeInv /\ SubmitInv /\ OwnerInv /\ [Next]_vars => OwnerInv'
<1>. SUFFICES ASSUME TypeInv, SubmitInv, OwnerInv, [Next]_vars PROVE OwnerInv'
  OBVIOUS
<1>0. UNCHANGED exch => OwnersKept
  BY DEF OwnersKept
\* Steps that touch neither the book nor a row's id nor an owner in memory.
<1>1. ASSUME UNCHANGED exch,
             \A k \in Keys : orders'[k].native = orders[k].native,
             UNCHANGED mem \/ \E k \in Keys : mem' = Hydrated(mem, k, orders[k]),
             cmd'.pc \in {"set_native", "bind"} =>
                 /\ cmd.pc \in {"set_native", "bind"}
                 /\ cmd'.key = cmd.key /\ cmd'.native = cmd.native,
             td'.pc \in {"order_store", "order_publish"} =>
                 /\ td'.msg.native \in Natives
                 /\ td'.who \in {None, exch[td'.msg.native].owner}
      PROVE  OwnerInv'
  <2>1. \A n \in Natives : mem'.owner[n] \in {None, mem.owner[n], exch[n].owner}
    BY <1>1, HydratedOwner
  <2>. QED
    BY <1>0, <1>1, <2>1, OwnerFrames DEF OwnerInv
<1>2. td.pc \in {"order_store", "order_publish"} =>
          td.msg.native \in Natives /\ td.who \in {None, exch[td.msg.native].owner}
  BY DEF OwnerInv, EventOwnerTrue, TypeInv, TdType, OrderPcs, OrderMessages
<1>3. CASE UNCHANGED vars
  BY <1>1, <1>2, <1>3 DEF vars
<1>4. CASE PlaceReserve \/ (CmdFault /\ cmd.pc # "set_native")
  <2>1. \A k \in Keys : orders'[k].native = orders[k].native
    BY <1>4 DEF PlaceReserve, CmdFault, Reserve, MarkFailed, RowExists, NoRow, SubmitInv,
                TypeInv, StoreType, CmdType, Row
  <2>2. cmd'.pc \notin {"set_native", "bind"}
    BY <1>4 DEF PlaceReserve, CmdFault, IdleCmd, TypeInv, CmdType
  <2>. QED
    BY <1>1, <1>2, <1>4, <2>1, <2>2 DEF PlaceReserve, CmdFault, outside
<1>5. ASSUME NEW n \in Natives, InsertAccepted(n) PROVE OwnerInv'
  <2>1. exch[n].owner = None /\ cmd.key \in Keys
    BY <1>5 DEF InsertAccepted, OwnerInv, TypeInv, CmdType
  <2>2. exch' = [exch EXCEPT ![n] = [@ EXCEPT !.owner = cmd.key, !.state = "sent"]]
    BY <1>5 DEF InsertAccepted
  <2>3. OwnersKept /\ \A m \in Natives : exch'[m].state = "none" => exch'[m].owner = None
    BY <2>1, <2>2 DEF OwnersKept, OwnerInv, TypeInv, BookType, BookEntry
  <2>4. cmd'.native = n /\ cmd'.key = cmd.key /\ exch'[n].owner = cmd.key
    BY <1>5, <2>2 DEF InsertAccepted, TypeInv, CmdType, BookType, BookEntry
  <2>. QED
    BY <1>5, <2>3, <2>4, OwnerFrames DEF InsertAccepted, store, OwnerInv
<1>6. CASE PlaceSetNative \/ (CmdFault /\ cmd.pc = "set_native")
  <2>1. exch[cmd.native].owner = cmd.key /\ cmd.key \in Keys
    BY <1>6 DEF OwnerInv, PlaceSetNative, TypeInv, CmdType
  <2>2. orders' = SetNative(orders, cmd.key, cmd.native) \/ UNCHANGED orders
    BY <1>6 DEF PlaceSetNative, CmdFault
  <2>3. \A k \in Keys : orders'[k].native # None => exch[orders'[k].native].owner = k
    BY <2>1, <2>2 DEF SetNative, OwnerInv, TypeInv, StoreType, Row
  <2>4. cmd'.pc = "bind" => cmd'.key = cmd.key /\ cmd'.native = cmd.native
    BY <1>6 DEF PlaceSetNative, CmdFault, IdleCmd, TypeInv, CmdType
  <2>5. cmd'.pc \in {"bind", "idle"}
    BY <1>6 DEF PlaceSetNative, CmdFault, IdleCmd, TypeInv, CmdType
  <2>6. UNCHANGED <<mem, td, exch>>
    BY <1>6 DEF PlaceSetNative, CmdFault, outside
  <2>. QED
    BY <1>0, <2>1, <2>3, <2>4, <2>5, <2>6, OwnerFrames DEF OwnerInv
<1>7. CASE PlaceBind
  <2>1. \A n \in Natives : mem'.owner[n] \in {None, mem.owner[n], exch[n].owner}
    BY <1>7 DEF PlaceBind, Bound, OwnerInv, TypeInv, MemType, Memory
  <2>2. UNCHANGED <<orders, td, exch>> /\ cmd'.pc = "idle"
    BY <1>7 DEF PlaceBind, store, outside, IdleCmd
  <2>. QED
    BY <1>0, <2>1, <2>2, OwnerFrames DEF OwnerInv
<1>8. CASE PlaceMarkFailed
  BY <1>1, <1>2, <1>8
     DEF PlaceMarkFailed, MarkFailed, IdleCmd, TypeInv, StoreType, Row, outside
<1>9. CASE InsertRefused \/ InsertNoApi \/ CancelPark \/ CancelSend
  <2>1. cmd'.pc \in {"idle", "mark_failed"}
    BY <1>9 DEF InsertRefused, InsertNoApi, CancelPark, CancelSend, IdleCmd, TypeInv, CmdType
  <2>. QED
    BY <1>1, <1>2, <1>9, <2>1
       DEF InsertRefused, InsertNoApi, CancelPark, CancelSend, store, outside
<1>10. ASSUME NEW k \in Keys, PlaceOrder(k) \/ CancelOrder(k) PROVE OwnerInv'
  <2>1. cmd'.pc \in {"reserve", "park", "send_cancel"} \/ cmd' = cmd
    <3>1. PlaceOrder(k) => cmd'.pc = "reserve" \/ cmd' = cmd
      BY DEF PlaceOrder, IdleCmd
    <3>2. CancelOrder(k) => cmd'.pc \in {"park", "send_cancel"}
      BY DEF CancelOrder
    <3>. QED
      BY <1>10, <3>1, <3>2
  <2>2. UNCHANGED mem \/ mem' = Hydrated(mem, k, orders[k])
    BY <1>10 DEF PlaceOrder, CancelOrder
  <2>3. UNCHANGED <<orders, exch, td>>
    BY <1>10 DEF PlaceOrder, CancelOrder, store, outside
  <2>. QED
    BY <1>1, <1>2, <2>1, <2>2, <2>3
<1>11. CASE OrderIdentity
  <2>1. td.msg.native \in Natives /\ td'.msg = td.msg
    BY <1>11 DEF OrderIdentity, TypeInv, TdType, OrderPcs, OrderMessages
  <2>2. td'.who \in {None, exch[td.msg.native].owner}
    <3>1. td'.who = mem.owner[td.msg.native] \/ td'.who \in FindByNative(orders, td.msg.native)
      BY <1>11 DEF OrderIdentity, TypeInv, TdType
    <3>2. \A k \in FindByNative(orders, td.msg.native) : exch[td.msg.native].owner = k
      BY <2>1, StoreAssumption DEF FindByNative, OwnerInv
    <3>. QED
      BY <2>1, <3>1, <3>2 DEF OwnerInv
  <2>3. UNCHANGED mem \/ \E k \in Keys : mem' = Hydrated(mem, k, orders[k])
    BY <1>11 DEF OrderIdentity, FindByNative
  <2>. QED
    BY <1>1, <1>11, <2>1, <2>2, <2>3 DEF OrderIdentity, store, outside
<1>12. CASE OrderUpdate \/ TdFault
  <2>1. \A k \in Keys : orders'[k].native = orders[k].native
    BY <1>12 DEF OrderUpdate, TdFault, UpdateTap, TypeInv, StoreType, Row, store
  <2>2. td'.pc \in {"idle", "order_publish"}
    BY <1>12 DEF OrderUpdate, TdFault, IdleTd, TypeInv, TdType
  <2>3. td'.pc = "order_publish" => td.pc = "order_store" /\ td'.msg = td.msg /\ td'.who = td.who
    BY <1>12 DEF OrderUpdate, TdFault, IdleTd, TypeInv, TdType
  <2>. QED
    BY <1>1, <1>2, <1>12, <2>1, <2>2, <2>3 DEF OrderUpdate, TdFault, outside
<1>13. CASE OnOrder
  <2>1. mem'.owner = mem.owner
    BY <1>13 DEF OnOrder, Learnt, Numbered, TypeInv, MemType, Memory
  <2>2. td'.pc = "order_identity" /\ UNCHANGED <<orders, cmd, exch>>
    BY <1>13 DEF OnOrder, IdleTd, store, outside
  <2>. QED
    BY <1>0, <2>1, <2>2, OwnerFrames DEF OwnerInv
<1>14. CASE OnFill
  <2>1. UNCHANGED mem \/ \E k \in Keys : mem' = Hydrated(mem, k, orders[k])
    BY <1>14 DEF OnFill, FindByOrderNo
  <2>2. td'.pc = "fill_store" /\ UNCHANGED <<orders, cmd, exch>>
    BY <1>14 DEF OnFill, store, outside
  <2>. QED
    BY <1>1, <2>1, <2>2
<1>15. CASE OrderPublish \/ FillRecord \/ FillPublish \/ OnOrderLast
  <2>1. UNCHANGED <<orders, mem, cmd, exch>>
    BY <1>15 DEF OrderPublish, FillRecord, FillPublish, OnOrderLast, store, outside
  <2>2. td'.pc \in {"idle", "fill_publish"} \/ UNCHANGED td
    BY <1>15 DEF OrderPublish, FillRecord, FillPublish, OnOrderLast, IdleTd, TypeInv, TdType
  <2>. QED
    BY <1>1, <1>2, <2>1, <2>2
<1>16. ASSUME NEW n \in Natives, ExchAck(n) \/ ExchReject(n) \/ ExchFill(n) \/ ExchCancel(n)
       PROVE  OwnerInv'
  <2>1. exch[n].state # "none"
    BY <1>16 DEF ExchAck, ExchReject, ExchFill, ExchCancel
  <2>2. \E entry \in BookEntry : /\ entry.owner = exch[n].owner
                                 /\ entry.state # "none"
                                 /\ exch' = [exch EXCEPT ![n] = entry]
    <3>1. exch[n] \in BookEntry
      BY DEF TypeInv, BookType
    <3>. QED
      BY <1>16, <3>1
         DEF ExchAck, ExchReject, ExchFill, ExchCancel, ExchMoves, BookEntry, BookStates,
             ExchangeStatuses
  <2>3. OwnersKept /\ \A m \in Natives : exch'[m].state = "none" => exch'[m].owner = None
    BY <2>1, <2>2 DEF OwnersKept, OwnerInv, TypeInv, BookType
  <2>4. UNCHANGED <<orders, mem, cmd, td>>
    BY <1>16 DEF ExchAck, ExchReject, ExchFill, ExchCancel, ExchMoves, store
  <2>. QED
    BY <2>3, <2>4, OwnerFrames DEF OwnerInv
<1>17. CASE Link \/ \E n \in Natives : ResendFill(n)
  <2>1. UNCHANGED <<orders, mem, cmd, td, exch>>
    BY <1>17 DEF Link, Connect, QryOrder, LinkDown, OnDisconnect, ResendFill, store, outside
  <2>. QED
    BY <1>1, <1>2, <2>1
<1>18. CASE CrashRestart
  <2>1. UNCHANGED <<orders, exch>> /\ cmd'.pc = "idle" /\ td'.pc = "idle"
    BY <1>18 DEF CrashRestart, store, outside, IdleCmd, IdleTd
  <2>2. \A n \in Natives : mem'.owner[n] \in {None, mem.owner[n], exch[n].owner}
    BY <1>18, RestoredOwner DEF CrashRestart
  <2>. QED
    BY <1>0, <2>1, <2>2, OwnerFrames DEF OwnerInv
<1>19. CASE Client \/ CmdStep \/ CmdFault
  BY <1>4, <1>5, <1>6, <1>7, <1>8, <1>9, <1>10, <1>19 DEF Client, CmdStep
<1>20. CASE TdStep \/ TdFault
  BY <1>11, <1>12, <1>13, <1>14, <1>15, <1>20 DEF TdStep
<1>21. CASE Exchange \/ Link
  BY <1>16, <1>17, <1>21 DEF Exchange
<1>. QED
  BY <1>3, <1>18, <1>19, <1>20, <1>21 DEF Next

\* It holds when the process starts.
LEMMA OwnerInit == Init => OwnerInv
<1>. SUFFICES ASSUME Init PROVE OwnerInv
  OBVIOUS
<1>1. \A k \in Keys : orders[k].native = None
  BY DEF Init, NoRow
<1>2. \A n \in Natives : FindByNative(orders, n) = {}
  BY <1>1, StoreAssumption DEF FindByNative
<1>3. \A n \in Natives : mem.owner[n] = None
  BY <1>2 DEF Init, Restored, OwnerIn
<1>. QED
  BY <1>1, <1>3 DEF Init, OwnerInv, EventOwnerTrue, IdleCmd, IdleTd

\* An order event is published to the identity that placed the order or to no
\* one, across restarts, hydration and events that overtake their binding.
THEOREM EventsReachOwner == Spec => []EventOwnerTrue
<1>1. Init => TypeInv /\ SubmitInv /\ OwnerInv
  BY TypeInvInit, SubmitInit, OwnerInit
<1>2. TypeInv /\ SubmitInv /\ OwnerInv /\ [Next]_vars => TypeInv' /\ SubmitInv' /\ OwnerInv'
  BY TypeInvStep, SubmitStep, OwnerStep
<1>3. OwnerInv => EventOwnerTrue
  BY DEF OwnerInv
<1>. QED
  BY <1>1, <1>2, <1>3, PTL DEF Spec
===============================================================================
