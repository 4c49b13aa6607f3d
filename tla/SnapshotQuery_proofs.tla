-------------------------- MODULE SnapshotQuery_proofs --------------------------
(***************************************************************************)
(* Theorems of SnapshotQuery for every value of its constants: its types,  *)
(* that a query fails with its own error only, and when its reply is a     *)
(* complete snapshot.                                                      *)
(***************************************************************************)
EXTENDS SnapshotQuery, FiniteSetTheorems, SequenceTheorems, TLAPS

-------------------------------------------------------------------------------
(* The inductive invariant, in parts *)

\* Before it is sent, a query has no number.
Preparing == {"pop", "clear", "event", "send"}

AnswerMessages ==
    [id: QueryIds, row: Rows, last: BOOLEAN, error: {FALSE}]
        \cup [id: QueryIds, row: {NoRow}, last: {TRUE}, error: {FALSE}]
PushMessages    == [id: {0}, row: Rows, last: {FALSE}, error: {FALSE}]
FailureMessages == [id: QueryIds, row: {NoRow}, last: {FALSE}, error: {TRUE}]
InboxMessages   == AnswerMessages \cup PushMessages \cup FailureMessages

LocalType ==
    /\ kind \in Kinds
    /\ link \in {"none", "login", "sync", "ready", "down", "closing", "closed"}
    /\ stamped \in BOOLEAN /\ event \in BOOLEAN /\ clean \in BOOLEAN
    /\ error \in QueryIds \cup {0}

CmdType ==
    /\ cmd \in [pc: {"idle", "wait", "collect"} \cup Preparing,
                id: QueryIds \cup {0}, due: SUBSET Rows, mixed: BOOLEAN]
    /\ cmd.pc = "idle" => cmd = Rest
    /\ cmd.pc \in Preparing => cmd.id = 0
    /\ cmd.pc \in {"wait", "collect"} => cmd.id # 0

QueueType ==
    /\ asked \in Seq(QueryIds)
    /\ inbox \in Seq(InboxMessages)

ReplyType ==
    reply \in [status: {"none", "ok", "failed", "raised"}, rows: SUBSET Rows,
               due: SUBSET Rows, lost: SUBSET Rows, own: BOOLEAN, suspect: BOOLEAN]

CountType ==
    count \in [id: QueryIds \cup {0}, query: 0..MaxQueries, error: 0..MaxErrors,
               timeout: 0..MaxTimeouts, drop: 0..MaxDrops, fault: 0..MaxFaults]

\* What the proxy has of the book, what it has been handed and what is on its
\* way lie within the book; an account loses no row it has stored.
RowsInv ==
    /\ cache \subseteq told /\ dropped \subseteq told /\ told \subseteq book /\ book \subseteq BookRows
    /\ cmd.due \subseteq book
    /\ \A i \in DOMAIN inbox : inbox[i].row \in book \cup {NoRow}
    /\ kind = "account" => told \subseteq cache \cup dropped

\* Every query and every synchronisation has taken one number at most.
Budget ==
    count.id + (IF cmd.pc \in Preparing THEN 1 ELSE 0)
        <= count.query + count.drop
             + (IF link \in {"sync", "ready", "closing", "closed"} THEN 1 ELSE 0)

\* Numbers in flight have been given out.
NumbersInv ==
    /\ \A i \in DOMAIN inbox : inbox[i].id <= count.id
    /\ \A i \in DOMAIN asked : asked[i] <= count.id
    /\ cmd.id <= count.id

TypeInv == /\ LocalType /\ CmdType /\ QueueType /\ ReplyType /\ CountType
           /\ RowsInv /\ Budget /\ NumbersInv

\* An error entry a command will find is its own, unless another answer was
\* handled since it began.
ErrorInv ==
    /\ cmd.pc \in {"clear", "event", "send", "wait", "collect"} /\ error # 0 =>
           cmd.mixed \/ error = cmd.id
    /\ ErrorIsOwn

\* The cache holds every row handed to the callbacks and every row of the book
\* as the command began, but for the dropped ones.
Complete == told \cup cmd.due \subseteq cache \cup dropped

\* Up to the last message of its own answer a command that waits finds every
\* such row in the cache or in the inbox, or it is dropped.
Coming ==
    cmd.pc = "wait" =>
        \A i \in DOMAIN inbox : inbox[i].id = cmd.id /\ inbox[i].last =>
            \A r \in told \cup cmd.due :
                r \in cache \cup dropped \/ \E j \in 1..i : inbox[j].row = r

\* What ends its wait is that message, its error or what mixes it up; an event
\* set before it has sent its query can only be the latter.
Woken ==
    /\ cmd.pc = "send" /\ event => cmd.mixed
    /\ (cmd.pc = "wait" /\ event) \/ cmd.pc = "collect" =>
          error # 0 \/ cmd.mixed \/ Complete

\* Between commands a clean cache has missed nothing else.
CleanInv == cmd.pc \in {"idle", "pop", "clear"} /\ clean => told \subseteq cache \cup dropped

AnswerInv == /\ Coming /\ Woken /\ CleanInv /\ CompleteUnlessSuspect

-------------------------------------------------------------------------------
(* The operators of the model *)

\* The book of an account is one row, every book is a finite set of rows.
LEMMA BookRowsType ==
    /\ BookRows \subseteq Rows
    /\ kind = "account" => \E r \in Rows : BookRows = {r}
<1>1. (CHOOSE r \in Rows : TRUE) \in Rows
  BY QueryAssumption
<1>. QED
  BY <1>1 DEF BookRows

\* Numbers are positive, and 0 is none.
LEMMA IdsType ==
    /\ QueryIds \subseteq Nat /\ 0 \notin QueryIds
    /\ \A i \in QueryIds \cup {0} : i \in Nat
    /\ \A i \in Nat : i # 0 /\ i <= MaxQueries + MaxDrops + 1 => i \in QueryIds
BY QueryAssumption DEF QueryIds

\* An answer is a sequence of messages under its number; only the last one is
\* marked, and by then every row of the book has come.
LEMMA AnswerShape ==
    ASSUME book \subseteq Rows, NEW id \in QueryIds, NEW answer \in AnswersTo(id)
    PROVE  /\ answer \in Seq(AnswerMessages)
           /\ \A i \in DOMAIN answer :
                 /\ answer[i].id = id /\ answer[i].row \in book \cup {NoRow}
                 /\ answer[i].last =>
                       \A r \in book : \E j \in 1..i : answer[j].row = r
<1>1. CASE book = {}
  <2>1. answer = <<Message(id, NoRow, TRUE)>>
    BY <1>1 DEF AnswersTo
  <2>2. Message(id, NoRow, TRUE) \in AnswerMessages
    BY DEF Message, AnswerMessages
  <2>. QED
    BY <1>1, <2>1, <2>2 DEF Message
<1>2. CASE book # {}
  <2>1. PICK rows \in SetToSeqs(book) :
           answer = [i \in 1..Len(rows) |-> Message(id, rows[i], i = Len(rows))]
    BY <1>2 DEF AnswersTo
  <2>2. IsFiniteSet(book) /\ Cardinality(book) \in Nat
    BY QueryAssumption, FS_Subset, FS_CardinalityType
  <2>3. rows \in [1..Cardinality(book) -> book] /\ Len(rows) = Cardinality(book)
    BY <2>2 DEF SetToSeqs
  <2>4. rows \in Surjection(1..Cardinality(book), book)
    <3>1. rows \in Injection(1..Cardinality(book), book)
      BY <2>3 DEF SetToSeqs, Injection, IsInjective
    <3>2. Cardinality(1..Cardinality(book)) = Cardinality(book)
      BY <2>2, FS_Interval
    <3>. QED
      BY <2>2, <3>1, <3>2, FS_Injection
  <2>5. \A i \in 1..Len(rows) : /\ answer[i] = Message(id, rows[i], i = Len(rows))
                                /\ rows[i] \in book
    BY <2>1, <2>3
  <2>6. ASSUME NEW i \in 1..Len(rows)
        PROVE  /\ answer[i] \in AnswerMessages /\ answer[i].id = id
               /\ answer[i].row = rows[i] /\ (answer[i].last => i = Len(rows))
    <3>1. CASE i = Len(rows)
      <4>1. answer[i] = [id |-> id, row |-> rows[i], last |-> TRUE, error |-> FALSE]
        BY <2>5, <3>1 DEF Message
      <4>2. rows[i] \in Rows
        BY <2>5
      <4>. QED
        BY <3>1, <4>1, <4>2 DEF AnswerMessages
    <3>2. CASE i # Len(rows)
      <4>1. answer[i] = [id |-> id, row |-> rows[i], last |-> FALSE, error |-> FALSE]
        BY <2>5, <3>2 DEF Message
      <4>2. rows[i] \in Rows
        BY <2>5
      <4>. QED
        BY <4>1, <4>2 DEF AnswerMessages
    <3>. QED
      BY <3>1, <3>2
  <2>7. DOMAIN answer = 1..Len(rows) /\ Len(rows) \in Nat
    BY <2>1, <2>2, <2>3
  <2>8. answer \in Seq(AnswerMessages)
    <3>1. answer \in [1..Len(rows) -> AnswerMessages]
      BY <2>1, <2>6
    <3>. QED
      BY <2>7, <3>1, IsASeq
  <2>9. \A r \in book : \E j \in 1..Len(rows) : answer[j].row = r
    BY <2>3, <2>4, <2>6 DEF Surjection
  <2>. QED
    BY <2>5, <2>6, <2>7, <2>8, <2>9
<1>. QED
  BY <1>1, <1>2

\* Appending keeps what was queued where it was.
LEMMA Appended ==
    ASSUME NEW S, NEW s \in Seq(S), NEW t \in Seq(S)
    PROVE  /\ s \o t \in Seq(S)
           /\ \A i \in DOMAIN s : i \in DOMAIN (s \o t) /\ (s \o t)[i] = s[i]
           /\ \A i \in DOMAIN t : Len(s) + i \in DOMAIN (s \o t) /\ (s \o t)[Len(s) + i] = t[i]
           /\ \A i \in DOMAIN (s \o t) :
                 i \in DOMAIN s \/ (i > Len(s) /\ i - Len(s) \in DOMAIN t)
OBVIOUS

-------------------------------------------------------------------------------
(* Every step preserves the type invariant *)

\* A message of an error has no row; a row and a last message are of an answer,
\* but for the rows TAP pushes.
LEMMA MessageShape ==
    \A m \in InboxMessages :
        /\ m.id \in QueryIds \cup {0} /\ m.id \in Nat
        /\ m.row \in Rows \cup {NoRow} /\ m.last \in BOOLEAN /\ m.error \in BOOLEAN
        /\ m.error => m.id \in QueryIds /\ ~m.last /\ m.row = NoRow
        /\ m.last => m.id \in QueryIds
        /\ ~m.error /\ ~m.last => m.row \in Rows
<1>. SUFFICES ASSUME NEW m \in InboxMessages
              PROVE  /\ m.id \in QueryIds \cup {0}
                     /\ m.row \in Rows \cup {NoRow} /\ m.last \in BOOLEAN /\ m.error \in BOOLEAN
                     /\ m.error => m.id \in QueryIds /\ ~m.last /\ m.row = NoRow
                     /\ m.last => m.id \in QueryIds
                     /\ ~m.error /\ ~m.last => m.row \in Rows
  <2>1. QueryIds \cup {0} \subseteq Nat
    BY IdsType
  <2>. QED
    BY <2>1
<1>1. CASE m \in AnswerMessages
  BY <1>1 DEF AnswerMessages
<1>2. CASE m \in PushMessages
  BY <1>2 DEF PushMessages
<1>3. CASE m \in FailureMessages
  BY <1>3 DEF FailureMessages
<1>. QED
  BY <1>1, <1>2, <1>3 DEF InboxMessages

\* The parts whose variables a step leaves alone.
LEMMA Frames ==
    ASSUME TypeInv
    PROVE  /\ UNCHANGED <<kind, link, stamped, event, clean, error>> => LocalType'
           /\ UNCHANGED cmd => CmdType'
           /\ UNCHANGED <<asked, inbox>> => QueueType'
           /\ UNCHANGED reply => ReplyType'
           /\ UNCHANGED count => CountType'
           /\ UNCHANGED <<kind, cache, told, dropped, book, inbox>> /\ cmd'.due \in {{}, cmd.due} => RowsInv'
           /\ UNCHANGED <<count, link>> /\ (cmd'.pc \in Preparing => cmd.pc \in Preparing) => Budget'
           /\ UNCHANGED <<inbox, asked, count>> /\ cmd'.id \in {0, cmd.id} => NumbersInv'
<1>. USE DEF TypeInv
<1>1. UNCHANGED <<kind, cache, told, dropped, book, inbox>> /\ cmd'.due \in {{}, cmd.due} => RowsInv'
  BY DEF RowsInv, BookRows
<1>2. UNCHANGED <<count, link>> /\ (cmd'.pc \in Preparing => cmd.pc \in Preparing) => Budget'
  BY DEF Budget, CountType, QueryIds
<1>3. UNCHANGED <<inbox, asked, count>> /\ cmd'.id \in {0, cmd.id} => NumbersInv'
  <2>1. count.id \in Nat
    <3>1. count.id \in QueryIds \cup {0}
      BY DEF CountType
    <3>. QED
      BY <3>1, IdsType
  <2>. QED
    BY <2>1 DEF NumbersInv
<1>. QED
  BY <1>1, <1>2, <1>3 DEF LocalType, CmdType, QueueType, ReplyType, CountType

\* A command that is over leaves a thread at rest.
LEMMA RestType ==
    ASSUME cmd' = Rest
    PROVE  /\ CmdType' /\ cmd'.due = {} /\ cmd'.id = 0 /\ cmd'.pc \notin Preparing
BY DEF CmdType, Rest, Preparing

\* A command that goes to its next label keeps its number and its rows.
LEMMA GotoType ==
    ASSUME TypeInv, NEW label \in {"clear", "event", "send", "collect"}, Goto(label),
           cmd.pc \in Preparing <=> label \in Preparing, cmd.pc \in Preparing \cup {"wait"}
    PROVE  /\ CmdType' /\ cmd'.due = cmd.due /\ cmd'.id = cmd.id /\ cmd'.mixed = cmd.mixed
           /\ cmd'.pc = label
BY DEF TypeInv, CmdType, Goto, Preparing, Rest

\* The replies of a command are replies.
LEMMA RepliesType ==
    ASSUME TypeInv
    PROVE  /\ \A due \in SUBSET Rows, suspect \in BOOLEAN : Returns(due, suspect) => ReplyType'
           /\ \A status \in {"failed", "raised"}, own \in BOOLEAN : Fails(status, own) => ReplyType'
<1>1. cache \subseteq Rows /\ dropped \subseteq Rows /\ cmd.mixed \in BOOLEAN
  BY BookRowsType DEF TypeInv, RowsInv, CmdType
<1>2. ASSUME NEW due \in SUBSET Rows, NEW suspect \in BOOLEAN, Returns(due, suspect)
      PROVE  ReplyType'
  BY <1>1, <1>2 DEF ReplyType, Returns
<1>3. ASSUME NEW status \in {"failed", "raised"}, NEW own \in BOOLEAN, Fails(status, own)
      PROVE  ReplyType'
  <2>. DEFINE mixed == cmd.mixed
  <2>1. mixed \in BOOLEAN /\ reply' = [status |-> status, rows |-> {}, due |-> {}, lost |-> {},
                                     own |-> own, suspect |-> mixed]
    BY <1>1, <1>3 DEF Fails
  <2>. HIDE DEF mixed
  <2>. QED
    BY <2>1 DEF ReplyType
<1>. QED
  BY <1>2, <1>3

\* The command thread.
LEMMA CommandTypes == TypeInv /\ CommandStep => TypeInv'
<1>. SUFFICES ASSUME TypeInv, CommandStep PROVE TypeInv'
  OBVIOUS
<1>. USE DEF TypeInv, conn, local, tap, aux
<1>1. CASE QueryNotReady
  BY <1>1, Frames, RepliesType DEF QueryNotReady
<1>2. CASE QueryCached
  <2>1. told \in SUBSET Rows /\ (kind # "account" /\ ~clean) \in BOOLEAN
    BY BookRowsType DEF RowsInv
  <2>2. ReplyType'
    BY <1>2, <2>1, RepliesType DEF QueryCached
  <2>. QED
    BY <1>2, <2>2, Frames DEF QueryCached
<1>3. CASE Query
  <2>1. /\ cmd' = [Rest EXCEPT !.pc = "pop", !.due = book] /\ count' = [count EXCEPT !.query = @ + 1]
        /\ UNCHANGED <<kind, link, local, tap, aux>> /\ cmd = Rest /\ count.query < MaxQueries
    BY <1>3 DEF Query, CmdType
  <2>2. CmdType' /\ cmd'.pc = "pop" /\ cmd'.id = 0 /\ cmd'.due = book
    BY <2>1, BookRowsType DEF CmdType, Rest, Preparing, RowsInv
  <2>3. CountType' /\ count'.id = count.id /\ count'.drop = count.drop /\ count'.query = count.query + 1
    BY <2>1, QueryAssumption DEF CountType
  <2>4. RowsInv' /\ NumbersInv'
    BY <2>1, <2>2, <2>3, IdsType DEF RowsInv, BookRows, NumbersInv, CountType
  <2>5. Budget'
    BY <2>1, <2>2, <2>3, QueryAssumption DEF Budget, CountType, Rest, Preparing, QueryIds
  <2>. QED
    BY <2>1, <2>2, <2>3, <2>4, <2>5, Frames
<1>4. CASE PopError
  <2>1. CmdType' /\ cmd'.due = cmd.due /\ cmd'.id = cmd.id /\ cmd'.pc \in Preparing /\ cmd.pc \in Preparing
    BY <1>4, GotoType DEF PopError, Preparing
  <2>2. LocalType'
    BY <1>4 DEF PopError, LocalType
  <2>. QED
    BY <1>4, <2>1, <2>2, Frames DEF PopError
<1>5. CASE ClearCache
  <2>1. CmdType' /\ cmd'.due = cmd.due /\ cmd'.id = cmd.id /\ cmd'.pc \in Preparing /\ cmd.pc \in Preparing
    BY <1>5, GotoType DEF ClearCache, Preparing
  <2>2. RowsInv'
    BY <1>5, <2>1 DEF ClearCache, RowsInv, BookRows
  <2>. QED
    BY <1>5, <2>1, <2>2, Frames DEF ClearCache
<1>6. CASE ClearEvent
  <2>1. CmdType' /\ cmd'.due = cmd.due /\ cmd'.id = cmd.id /\ cmd'.pc \in Preparing /\ cmd.pc \in Preparing
    BY <1>6, GotoType DEF ClearEvent, Preparing
  <2>2. LocalType'
    BY <1>6 DEF ClearEvent, LocalType
  <2>. QED
    BY <1>6, <2>1, <2>2, Frames DEF ClearEvent
<1>7. CASE Send
  <2>1. /\ cmd' = [cmd EXCEPT !.pc = "wait", !.id = count.id + 1]
        /\ count' = [count EXCEPT !.id = @ + 1]
        /\ asked' = asked \/ asked' = Append(asked, count.id + 1)
        /\ UNCHANGED <<kind, link, local, book, inbox, aux>>
        /\ cmd.pc = "send"
    BY <1>7 DEF Send
  <2>2. count.id + 1 \in QueryIds /\ count.id \in Nat
    <3>1. count.id + 1 <= MaxQueries + MaxDrops + 1 /\ count.id \in Nat
      BY <2>1, QueryAssumption, IdsType DEF Budget, CountType, Preparing
    <3>. QED
      BY <3>1, IdsType
  <2>3. CmdType' /\ cmd'.pc = "wait" /\ cmd'.id = count.id + 1 /\ cmd'.due = cmd.due
    <3>1. cmd'.pc = "wait" /\ cmd'.id = count.id + 1 /\ cmd'.due = cmd.due
      BY <2>1 DEF CmdType
    <3>2. cmd' \in [pc: {"idle", "wait", "collect"} \cup Preparing,
                    id: QueryIds \cup {0}, due: SUBSET Rows, mixed: BOOLEAN]
      BY <2>1, <2>2 DEF CmdType
    <3>3. cmd'.id # 0
      BY <2>2, <3>1, IdsType
    <3>. QED
      BY <3>1, <3>2, <3>3 DEF CmdType, Preparing
  <2>4. CountType' /\ count'.id = count.id + 1 /\ count'.query = count.query /\ count'.drop = count.drop
    BY <2>1, <2>2 DEF CountType
  <2>5. QueueType'
    BY <2>1, <2>2 DEF QueueType
  <2>6. Budget'
    BY <2>1, <2>2, <2>3, <2>4, QueryAssumption DEF Budget, CountType, Preparing
  <2>7. NumbersInv'
    <3>1. \A i \in DOMAIN inbox : inbox[i].id \in Nat /\ inbox[i].id <= count.id
      <4>1. \A i \in DOMAIN inbox : inbox[i] \in InboxMessages
        BY DEF QueueType
      <4>. QED
        BY <4>1, MessageShape DEF NumbersInv
    <3>2. \A i \in DOMAIN asked : asked[i] \in Nat /\ asked[i] <= count.id
      <4>1. \A i \in DOMAIN asked : asked[i] \in QueryIds
        BY DEF QueueType
      <4>. QED
        BY <4>1, IdsType DEF NumbersInv
    <3>3. \A i \in DOMAIN asked' : asked'[i] <= count.id + 1
      <4>1. CASE asked' = asked
        BY <2>2, <3>2, <4>1
      <4>2. CASE asked' = Append(asked, count.id + 1)
        <5>1. asked \in Seq(QueryIds)
          BY DEF QueueType
        <5>2. \A i \in DOMAIN asked' :
                 (i \in DOMAIN asked /\ asked'[i] = asked[i]) \/ asked'[i] = count.id + 1
          BY <2>2, <4>2, <5>1
        <5>. QED
          BY <2>2, <3>2, <5>2
      <4>. QED
        BY <2>1, <4>1, <4>2
    <3>. QED
      BY <2>1, <2>2, <2>3, <2>4, <3>1, <3>3 DEF NumbersInv
  <2>. QED
    BY <2>1, <2>3, <2>4, <2>5, <2>6, <2>7, Frames
<1>8. CASE SendNoApi
  <2>1. LocalType'
    BY <1>8 DEF SendNoApi, LocalType
  <2>. QED
    BY <1>8, <2>1, Frames, RestType, RepliesType DEF SendNoApi
<1>9. CASE WaitEnds
  <2>1. CmdType' /\ cmd'.due = cmd.due /\ cmd'.id = cmd.id /\ cmd'.pc = "collect"
    BY <1>9, GotoType DEF WaitEnds, Preparing
  <2>. QED
    BY <1>9, <2>1, Frames DEF WaitEnds, Preparing
<1>10. CASE WaitExpires
  <2>1. LocalType'
    BY <1>10 DEF WaitExpires, LocalType
  <2>2. CountType' /\ count'.id = count.id /\ count'.query = count.query /\ count'.drop = count.drop
    BY <1>10, QueryAssumption DEF WaitExpires, CountType
  <2>3. Budget' /\ NumbersInv'
    <3>1. count.id \in Nat /\ count'.drop \in Nat /\ count'.query \in Nat
      <4>1. count.id \in QueryIds \cup {0} /\ count'.query \in 0..MaxQueries /\ count'.drop \in 0..MaxDrops
        BY <2>2 DEF CountType
      <4>2. count.id \in Nat
        BY <4>1, IdsType
      <4>. QED
        BY <2>2, <4>1, <4>2
    <3>2. cmd'.id = 0 /\ cmd'.pc \notin Preparing /\ cmd.pc \notin Preparing
      BY <1>10, RestType DEF WaitExpires, Preparing
    <3>3. UNCHANGED <<link, asked, inbox>>
      BY <1>10 DEF WaitExpires
    <3>4. Budget'
      BY <2>2, <3>1, <3>2, <3>3 DEF Budget
    <3>. QED
      BY <2>2, <3>1, <3>2, <3>3, <3>4 DEF NumbersInv
  <2>. QED
    BY <1>10, <2>1, <2>2, <2>3, Frames, RestType, RepliesType DEF WaitExpires
<1>11. CASE Collect
  <2>1. LocalType'
    BY <1>11 DEF Collect, LocalType, CmdType
  <2>2. ReplyType'
    BY <1>11, RepliesType DEF Collect, CmdType, LocalType
  <2>. QED
    BY <1>11, <2>1, <2>2, Frames, RestType DEF Collect
<1>. QED
  BY <1>1, <1>2, <1>3, <1>4, <1>5, <1>6, <1>7, <1>8, <1>9, <1>10, <1>11 DEF CommandStep

\* What remains behind the head of a queue.
LEMMA Taken ==
    ASSUME NEW S, NEW s \in Seq(S), s # <<>>
    PROVE  /\ Head(s) \in S /\ Tail(s) \in Seq(S)
           /\ 1 \in DOMAIN s /\ s[1] = Head(s)
           /\ \A i \in DOMAIN Tail(s) : i \in Nat \ {0} /\ i + 1 \in DOMAIN s /\ Tail(s)[i] = s[i + 1]
OBVIOUS

\* Handling a message only marks the command and takes the message off, and may
\* use up a fault.
LEMMA Handled ==
    ASSUME TypeInv, inbox # <<>>, HandledBy(Head(inbox)), UNCHANGED count \/ Fault
    PROVE  /\ Head(inbox) \in InboxMessages /\ Head(inbox).row \in book \cup {NoRow}
           /\ CmdType' /\ QueueType' /\ ReplyType' /\ CountType' /\ NumbersInv'
           /\ link' = link \/ (link = "sync" /\ link' = "ready") => Budget'
           /\ cmd'.pc = cmd.pc /\ cmd'.id = cmd.id /\ cmd'.due = cmd.due
           /\ cmd'.mixed <=> cmd.mixed \/ Mixes(Head(inbox))
           /\ \A i \in DOMAIN inbox' : inbox'[i].row \in book \cup {NoRow}
<1>. DEFINE mixed == cmd.mixed \/ Mixes(Head(inbox))
<1>1. mixed \in BOOLEAN /\ (mixed <=> cmd.mixed \/ Mixes(Head(inbox)))
      /\ cmd' = [cmd EXCEPT !.mixed = mixed]
  BY DEF HandledBy
<1>. HIDE DEF mixed
<1>2. /\ inbox \in Seq(InboxMessages) /\ inbox' = Tail(inbox)
      /\ UNCHANGED <<kind, book, asked, clean, reply>>
  BY DEF TypeInv, QueueType, HandledBy
<1>3. /\ Head(inbox) \in InboxMessages /\ inbox' \in Seq(InboxMessages)
      /\ 1 \in DOMAIN inbox /\ inbox[1] = Head(inbox)
      /\ \A i \in DOMAIN inbox' : i + 1 \in DOMAIN inbox /\ inbox'[i] = inbox[i + 1]
  BY <1>2, Taken
<1>4. cmd'.pc = cmd.pc /\ cmd'.id = cmd.id /\ cmd'.due = cmd.due /\ cmd'.mixed = mixed
  BY <1>1 DEF TypeInv, CmdType
<1>5. CmdType'
  <2>1. cmd.pc = "idle" => mixed = cmd.mixed
    BY <1>1 DEF TypeInv, CmdType, Rest, Mixes
  <2>2. cmd' \in [pc: {"idle", "wait", "collect"} \cup Preparing,
                  id: QueryIds \cup {0}, due: SUBSET Rows, mixed: BOOLEAN]
    BY <1>1 DEF TypeInv, CmdType
  <2>3. cmd.pc = "idle" => cmd' = Rest
    BY <1>1, <2>1 DEF TypeInv, CmdType, Rest
  <2>. QED
    BY <1>4, <2>2, <2>3 DEF TypeInv, CmdType
<1>6. QueueType' /\ ReplyType'
  BY <1>2, <1>3 DEF TypeInv, QueueType, ReplyType
<1>7. CountType' /\ count'.id = count.id /\ count'.query = count.query /\ count'.drop = count.drop
  <2>1. CASE UNCHANGED count
    BY <2>1 DEF TypeInv, CountType
  <2>2. CASE Fault
    <3>1. count.fault + 1 \in 0..MaxFaults
      BY <2>2, QueryAssumption DEF Fault, TypeInv, CountType
    <3>. QED
      BY <2>2, <3>1 DEF Fault, TypeInv, CountType
  <2>. QED
    BY <2>1, <2>2
<1>8. NumbersInv'
  BY <1>2, <1>3, <1>4, <1>7 DEF TypeInv, NumbersInv
<1>9. link' = link \/ (link = "sync" /\ link' = "ready") => Budget'
  BY <1>4, <1>7 DEF TypeInv, Budget
<1>10. /\ Head(inbox).row \in book \cup {NoRow}
      /\ \A i \in DOMAIN inbox' : inbox'[i].row \in book \cup {NoRow}
  BY <1>3 DEF TypeInv, RowsInv
<1>. QED
  BY <1>1, <1>3, <1>4, <1>5, <1>6, <1>7, <1>8, <1>9, <1>10

\* A row the callbacks are handed is in the cache from then on, or dropped; the
\* cache keeps what it has.
LEMMA RowTaken ==
    ASSUME TypeInv, NEW row \in book \cup {NoRow}, UNCHANGED <<kind, book>>,
           cache' = cache \/ cache' = Update(row), told' = (told \cup {row}) \ {NoRow},
           dropped' = (dropped \cup {row}) \ (cache' \cup {NoRow})
    PROVE  /\ cache \cup dropped \subseteq cache' \cup dropped' /\ told' \subseteq told \cup {row}
           /\ row \in cache' \cup dropped' \cup {NoRow} /\ NoRow \notin told'
           /\ cache' \subseteq told' /\ dropped' \subseteq told'
           /\ told' \subseteq book /\ book' \subseteq BookRows'
           /\ kind' = "account" => told' \subseteq cache' \cup dropped'
<1>1. /\ NoRow \notin book /\ book \subseteq BookRows /\ told \subseteq book
      /\ cache \subseteq told /\ dropped \subseteq told
      /\ BookRows' = BookRows /\ (kind = "account" => told \subseteq cache \cup dropped)
  BY BookRowsType, QueryAssumption DEF TypeInv, RowsInv, BookRows
<1>2. cache \subseteq cache' /\ cache' \subseteq cache \cup ({row} \ {NoRow})
  <2>1. CASE row = NoRow \/ kind # "account"
    BY <2>1 DEF Update
  <2>2. CASE row # NoRow /\ kind = "account"
    <3>1. PICK r \in Rows : BookRows = {r}
      BY <2>2, BookRowsType
    <3>2. row = r /\ cache \subseteq {r}
      BY <1>1, <2>2, <3>1
    <3>. QED
      BY <2>2, <3>2 DEF Update
  <2>. QED
    BY <2>1, <2>2
<1>. QED
  BY <1>1, <1>2

\* What a row does to the proxy, be it stored or not, marked as the last or not.
RowStep ==
    /\ inbox # <<>> /\ (UNCHANGED count \/ Fault)
    /\ HandledBy(Head(inbox))
    /\ cache' = cache \/ cache' = Update(Head(inbox).row)
    /\ told' = (told \cup {Head(inbox).row}) \ {NoRow}
    /\ dropped' = (dropped \cup {Head(inbox).row}) \ (cache' \cup {NoRow})
    /\ UNCHANGED error

\* A row or a last marker is handled: what the callbacks do alike.
LEMMA RowSteps == OnRow \/ OnLast \/ RowRaises => RowStep
<1>1. ASSUME NEW stored \in BOOLEAN, inbox # <<>>, Reads(Head(inbox), stored), UNCHANGED error
      PROVE  RowStep
  BY <1>1 DEF RowStep, Reads, Takes
<1>2. ASSUME NEW stored \in BOOLEAN, inbox # <<>>, Takes(Head(inbox), stored), Fault, UNCHANGED error
      PROVE  RowStep
  BY <1>2 DEF RowStep, Takes
<1>3. OnRow => RowStep
  BY <1>1 DEF OnRow
<1>4. OnLast => RowStep
  BY <1>1 DEF OnLast
<1>5. RowRaises => RowStep
  BY <1>2 DEF RowRaises
<1>. QED
  BY <1>3, <1>4, <1>5

\* The TD callback thread.
LEMMA CallbackTypes == TypeInv /\ CallbackStep => TypeInv'
<1>. SUFFICES ASSUME TypeInv, CallbackStep PROVE TypeInv'
  OBVIOUS
<1>1. CASE OnRow \/ OnLast \/ RowRaises
  <2>1. RowStep
    BY <1>1, RowSteps
  <2>2. /\ Head(inbox).row \in book \cup {NoRow}
        /\ CmdType' /\ QueueType' /\ ReplyType' /\ CountType' /\ NumbersInv'
        /\ link' = link \/ (link = "sync" /\ link' = "ready") => Budget'
        /\ cmd'.due = cmd.due
        /\ \A i \in DOMAIN inbox' : inbox'[i].row \in book \cup {NoRow}
    BY <2>1, Handled DEF RowStep
  <2>3. UNCHANGED <<kind, book, clean, error>>
    BY <2>1 DEF RowStep, HandledBy
  <2>4. RowsInv'
    BY <2>1, <2>2, <2>3, RowTaken DEF RowStep, RowsInv, TypeInv
  <2>5. LocalType' /\ (link' = link \/ (link = "sync" /\ link' = "ready"))
    <3>1. CASE OnRow
      <4>1. stamped' \in BOOLEAN /\ UNCHANGED <<link, event>>
        BY <3>1 DEF OnRow, TypeInv, LocalType
      <4>. QED
        BY <2>3, <4>1 DEF TypeInv, LocalType
    <3>2. CASE OnLast
      BY <2>3, <3>2 DEF OnLast, TypeInv, LocalType
    <3>3. CASE RowRaises
      BY <2>3, <3>3 DEF RowRaises, TypeInv, LocalType
    <3>. QED
      BY <1>1, <3>1, <3>2, <3>3
  <2>. QED
    BY <2>2, <2>4, <2>5 DEF TypeInv
<1>2. CASE OnFailure
  <2>1. inbox # <<>> /\ HandledBy(Head(inbox)) /\ UNCHANGED <<link, cache, stamped, told, dropped>>
        /\ UNCHANGED <<kind, book, clean, count>>
    BY <1>2 DEF OnFailure, HandledBy
  <2>2. /\ Head(inbox) \in InboxMessages
        /\ CmdType' /\ QueueType' /\ ReplyType' /\ CountType' /\ NumbersInv' /\ Budget'
        /\ cmd'.due = cmd.due
        /\ \A i \in DOMAIN inbox' : inbox'[i].row \in book \cup {NoRow}
    BY <2>1, Handled
  <2>3. LocalType'
    BY <1>2, <2>1, <2>2, MessageShape DEF OnFailure, TypeInv, LocalType
  <2>4. RowsInv'
    BY <2>1, <2>2 DEF TypeInv, RowsInv, BookRows
  <2>. QED
    BY <2>2, <2>3, <2>4 DEF TypeInv
<1>. QED
  BY <1>1, <1>2 DEF CallbackStep

\* A message at the end of the queue, its number given out and its row known.
LEMMA Queues ==
    ASSUME TypeInv, NEW messages \in Seq(InboxMessages), inbox' = inbox \o messages,
           \A i \in DOMAIN messages : /\ messages[i].id <= count.id
                                      /\ messages[i].row \in book' \cup {NoRow},
           book \subseteq book'
    PROVE  /\ inbox' \in Seq(InboxMessages)
           /\ \A i \in DOMAIN inbox' : /\ inbox'[i].id <= count.id
                                       /\ inbox'[i].row \in book' \cup {NoRow}
<1>1. inbox \in Seq(InboxMessages)
  BY DEF TypeInv, QueueType
<1>. QED
  BY <1>1, Appended DEF TypeInv, NumbersInv, RowsInv

\* TAP: answers and pushes.
LEMMA TapTypes == TypeInv /\ TapStep => TypeInv'
<1>. SUFFICES ASSUME TypeInv, TapStep PROVE TypeInv'
  OBVIOUS
<1>. USE DEF conn, local, aux
<1>1. asked \in Seq(QueryIds) /\ inbox \in Seq(InboxMessages) /\ book \subseteq Rows
  BY BookRowsType DEF TypeInv, QueueType, RowsInv
<1>2. ASSUME asked # <<>>, asked' = Tail(asked)
      PROVE  /\ Head(asked) \in QueryIds /\ Head(asked) <= count.id /\ asked' \in Seq(QueryIds)
             /\ \A i \in DOMAIN asked' : asked'[i] <= count.id
  <2>1. /\ Head(asked) \in QueryIds /\ Tail(asked) \in Seq(QueryIds)
        /\ 1 \in DOMAIN asked /\ asked[1] = Head(asked)
        /\ \A i \in DOMAIN Tail(asked) : i + 1 \in DOMAIN asked /\ Tail(asked)[i] = asked[i + 1]
    BY <1>1, <1>2, Taken
  <2>. QED
    BY <1>2, <2>1 DEF TypeInv, NumbersInv
<1>3. CASE TapAnswers
  <2>1. PICK answer \in AnswersTo(Head(asked)) : inbox' = inbox \o answer
    BY <1>3 DEF TapAnswers
  <2>2. asked # <<>> /\ asked' = Tail(asked) /\ UNCHANGED <<kind, link, count, cache, stamped, event,
           error, cmd, book, told, dropped, clean, reply>>
    BY <1>3 DEF TapAnswers
  <2>3. /\ Head(asked) \in QueryIds /\ Head(asked) <= count.id /\ asked' \in Seq(QueryIds)
        /\ \A i \in DOMAIN asked' : asked'[i] <= count.id
    BY <1>2, <2>2
  <2>4. answer \in Seq(AnswerMessages)
        /\ \A i \in DOMAIN answer : answer[i].id = Head(asked) /\ answer[i].row \in book \cup {NoRow}
    BY <1>1, <2>3, AnswerShape
  <2>5. answer \in Seq(InboxMessages)
    BY <2>4 DEF InboxMessages
  <2>6. /\ inbox' \in Seq(InboxMessages)
        /\ \A i \in DOMAIN inbox' : /\ inbox'[i].id <= count.id
                                    /\ inbox'[i].row \in book' \cup {NoRow}
    BY <2>1, <2>2, <2>3, <2>4, <2>5, Queues
  <2>. QED
    BY <2>2, <2>3, <2>6, Frames DEF TypeInv, QueueType, NumbersInv, RowsInv, BookRows
<1>4. CASE TapFails
  <2>. DEFINE failures == <<Failure(Head(asked))>>
  <2>1. asked # <<>> /\ asked' = Tail(asked) /\ inbox' = Append(inbox, Failure(Head(asked)))
        /\ count.error < MaxErrors /\ count' = [count EXCEPT !.error = @ + 1]
        /\ UNCHANGED <<kind, link, cache, stamped, event, error, cmd, book, told, dropped, clean, reply>>
    BY <1>4 DEF TapFails
  <2>2. /\ Head(asked) \in QueryIds /\ Head(asked) <= count.id /\ asked' \in Seq(QueryIds)
        /\ \A i \in DOMAIN asked' : asked'[i] <= count.id
    BY <1>2, <2>1
  <2>3. Failure(Head(asked)) \in InboxMessages
        /\ Failure(Head(asked)).id = Head(asked) /\ Failure(Head(asked)).row = NoRow
    BY <2>2 DEF Failure, InboxMessages, FailureMessages
  <2>4. failures \in Seq(InboxMessages) /\ inbox' = inbox \o failures
    BY <1>1, <2>1, <2>3
  <2>5. \A i \in DOMAIN failures : failures[i].id <= count.id /\ failures[i].row \in book' \cup {NoRow}
    BY <2>2, <2>3
  <2>6. /\ inbox' \in Seq(InboxMessages)
        /\ \A i \in DOMAIN inbox' : /\ inbox'[i].id <= count.id
                                    /\ inbox'[i].row \in book' \cup {NoRow}
    <3>. HIDE DEF failures
    <3>. QED
      BY <2>1, <2>4, <2>5, Queues
  <2>7. CountType' /\ count'.id = count.id /\ count'.query = count.query /\ count'.drop = count.drop
    <3>1. count.error + 1 \in 0..MaxErrors
      BY <2>1, QueryAssumption DEF TypeInv, CountType
    <3>. QED
      BY <2>1, <3>1 DEF TypeInv, CountType
  <2>8. Budget'
    BY <2>1, <2>7 DEF TypeInv, Budget
  <2>. QED
    BY <2>1, <2>2, <2>6, <2>7, <2>8, Frames DEF TypeInv, QueueType, NumbersInv, RowsInv, BookRows
<1>5. CASE BookGrows
  <2>1. PICK row \in BookRows \ book :
           book' = book \cup {row} /\ inbox' = Append(inbox, Message(0, row, FALSE))
    BY <1>5 DEF BookGrows
  <2>. DEFINE push   == Message(0, row, FALSE)
              pushes == <<push>>
  <2>2. UNCHANGED <<kind, link, count, cache, stamped, event, error, cmd, asked, told, dropped, clean, reply>>
    BY <1>5 DEF BookGrows
  <2>3. push \in InboxMessages /\ push.id = 0 /\ push.row = row /\ inbox' = Append(inbox, push)
    BY <2>1, BookRowsType DEF Message, InboxMessages, PushMessages
  <2>. HIDE DEF push
  <2>4. pushes \in Seq(InboxMessages) /\ inbox' = inbox \o pushes
    BY <1>1, <2>3
  <2>5. \A i \in DOMAIN pushes : pushes[i].id <= count.id /\ pushes[i].row \in book' \cup {NoRow}
    <3>1. count.id \in QueryIds \cup {0}
      BY DEF TypeInv, CountType
    <3>2. count.id \in Nat
      BY <3>1, IdsType
    <3>. QED
      BY <2>1, <2>3, <3>2
  <2>6. /\ inbox' \in Seq(InboxMessages)
        /\ \A i \in DOMAIN inbox' : /\ inbox'[i].id <= count.id
                                    /\ inbox'[i].row \in book' \cup {NoRow}
    <3>. HIDE DEF pushes
    <3>. QED
      BY <2>1, <2>4, <2>5, Queues
  <2>7. RowsInv'
    BY <2>1, <2>2, <2>6 DEF TypeInv, RowsInv, BookRows
  <2>. QED
    BY <2>2, <2>6, <2>7, Frames DEF TypeInv, QueueType, NumbersInv
<1>. QED
  BY <1>3, <1>4, <1>5 DEF TapStep

\* The link.
LEMMA LinkTypes == TypeInv /\ LinkStep => TypeInv'
<1>. SUFFICES ASSUME TypeInv, LinkStep PROVE TypeInv'
  OBVIOUS
<1>. USE DEF local, tap, aux
<1>1. count.id \in Nat /\ count.query \in Nat /\ count.drop \in Nat
  <2>1. count.id \in QueryIds \cup {0} /\ count.query \in 0..MaxQueries /\ count.drop \in 0..MaxDrops
    BY DEF TypeInv, CountType
  <2>2. count.id \in Nat
    BY <2>1, IdsType
  <2>. QED
    BY <2>1, <2>2
<1>2. <<>> \in Seq(QueryIds) /\ <<>> \in Seq(InboxMessages)
  OBVIOUS
<1>3. asked' = <<>> /\ inbox' = <<>> => QueueType'
  BY <1>2 DEF QueueType
<1>4. CASE LinkLost
  <2>1. LocalType' /\ CountType' /\ count'.id = count.id /\ count'.query = count.query
        /\ count'.drop = count.drop + 1
    BY <1>4, QueryAssumption DEF LinkLost, TypeInv, LocalType, CountType
  <2>2. Budget' /\ NumbersInv' /\ RowsInv'
    BY <1>1, <1>4, <2>1 DEF LinkLost, TypeInv, Budget, NumbersInv, RowsInv, BookRows
  <2>. QED
    BY <1>3, <1>4, <2>1, <2>2, Frames DEF LinkLost, TypeInv
<1>5. CASE CloseNative \/ Connect
  <2>1. LocalType'
    BY <1>5 DEF CloseNative, Connect, TypeInv, LocalType
  <2>2. Budget'
    BY <1>5 DEF CloseNative, Connect, TypeInv, Budget
  <2>. QED
    BY <1>5, <2>1, <2>2, Frames DEF CloseNative, Connect, TypeInv
<1>6. CASE SyncAsks
  <2>1. /\ link = "login" /\ link' = "sync" /\ count' = [count EXCEPT !.id = @ + 1]
        /\ asked' = Append(asked, count.id + 1)
        /\ UNCHANGED <<kind, cache, stamped, event, error, cmd, book, inbox, told, dropped, clean, reply>>
    BY <1>6 DEF SyncAsks
  <2>2. count.id + 1 \in QueryIds
    <3>1. count.id <= count.query + count.drop
      BY <1>1, <2>1 DEF TypeInv, Budget
    <3>2. count.query <= MaxQueries /\ count.drop <= MaxDrops
      BY QueryAssumption DEF TypeInv, CountType
    <3>3. count.id + 1 <= MaxQueries + MaxDrops + 1
      BY <1>1, <3>1, <3>2, QueryAssumption
    <3>. QED
      BY <1>1, <3>3, IdsType
  <2>3. CountType' /\ count'.id = count.id + 1 /\ count'.query = count.query /\ count'.drop = count.drop
    BY <2>1, <2>2 DEF TypeInv, CountType
  <2>4. asked \in Seq(QueryIds)
    BY DEF TypeInv, QueueType
  <2>5. /\ asked' \in Seq(QueryIds)
        /\ \A i \in DOMAIN asked' :
              (i \in DOMAIN asked /\ asked'[i] = asked[i]) \/ asked'[i] = count.id + 1
    BY <2>1, <2>2, <2>4
  <2>6. QueueType'
    BY <2>1, <2>5 DEF TypeInv, QueueType
  <2>7. NumbersInv'
    <3>1. \A i \in DOMAIN asked : asked[i] \in Nat /\ asked[i] <= count.id
      <4>1. \A i \in DOMAIN asked : asked[i] \in QueryIds
        BY <2>4
      <4>. QED
        BY <4>1, IdsType DEF TypeInv, NumbersInv
    <3>2. \A i \in DOMAIN inbox : inbox[i].id \in Nat /\ inbox[i].id <= count.id
      <4>1. \A i \in DOMAIN inbox : inbox[i] \in InboxMessages
        BY DEF TypeInv, QueueType
      <4>. QED
        BY <4>1, MessageShape DEF TypeInv, NumbersInv
    <3>3. cmd.id \in Nat /\ cmd.id <= count.id
      <4>1. cmd.id \in QueryIds \cup {0}
        BY DEF TypeInv, CmdType
      <4>. QED
        BY <4>1, IdsType DEF TypeInv, NumbersInv
    <3>4. \A i \in DOMAIN asked' : asked'[i] <= count.id + 1
      BY <1>1, <2>5, <3>1
    <3>. QED
      BY <1>1, <2>1, <2>3, <3>2, <3>3, <3>4 DEF NumbersInv
  <2>8. Budget'
    BY <1>1, <2>1, <2>3 DEF TypeInv, Budget
  <2>9. LocalType'
    BY <2>1 DEF TypeInv, LocalType
  <2>. QED
    BY <2>1, <2>3, <2>6, <2>7, <2>8, <2>9, Frames DEF TypeInv
<1>7. CASE Close
  <2>1. LocalType'
    BY <1>7 DEF Close, TypeInv, LocalType
  <2>2. Budget'
    BY <1>1, <1>7 DEF Close, TypeInv, Budget
  <2>3. NumbersInv' /\ RowsInv'
    BY <1>7 DEF Close, TypeInv, NumbersInv, RowsInv, BookRows
  <2>. QED
    BY <1>3, <1>7, <2>1, <2>2, <2>3, Frames DEF Close, TypeInv
<1>8. CASE CloseReleases
  <2>. DEFINE busy == cmd.pc # "idle"
  <2>1. busy \in BOOLEAN /\ cmd' = [cmd EXCEPT !.mixed = busy]
    BY <1>8 DEF CloseReleases
  <2>2. cmd.pc = "idle" => ~busy /\ cmd.mixed = FALSE /\ cmd = Rest
    BY DEF TypeInv, CmdType, Rest
  <2>. HIDE DEF busy
  <2>3. cmd'.pc = cmd.pc /\ cmd'.id = cmd.id /\ cmd'.due = cmd.due
    BY <2>1 DEF TypeInv, CmdType
  <2>4. CmdType'
    <3>1. cmd' \in [pc: {"idle", "wait", "collect"} \cup Preparing,
                    id: QueryIds \cup {0}, due: SUBSET Rows, mixed: BOOLEAN]
      BY <2>1 DEF TypeInv, CmdType
    <3>2. cmd.pc = "idle" => cmd' = Rest
      BY <2>1, <2>2 DEF Rest
    <3>. QED
      BY <2>3, <3>1, <3>2 DEF TypeInv, CmdType
  <2>5. LocalType'
    BY <1>8 DEF CloseReleases, TypeInv, LocalType
  <2>6. Budget'
    BY <1>8, <2>3 DEF CloseReleases, TypeInv, Budget
  <2>. QED
    BY <1>8, <2>3, <2>4, <2>5, <2>6, Frames DEF CloseReleases, TypeInv
<1>. QED
  BY <1>4, <1>5, <1>6, <1>7, <1>8 DEF LinkStep

\* The program starts with an empty cache and nothing asked.
LEMMA TypeInvInit == Init => TypeInv
<1>. SUFFICES ASSUME Init PROVE TypeInv
  OBVIOUS
<1>. USE DEF Init
<1>1. <<>> \in Seq(QueryIds) /\ <<>> \in Seq(InboxMessages)
  OBVIOUS
<1>2. LocalType /\ QueueType /\ ReplyType
  BY <1>1 DEF LocalType, QueueType, ReplyType
<1>3. CmdType
  BY DEF CmdType, Rest, Preparing
<1>4. CountType
  BY QueryAssumption DEF CountType
<1>5. RowsInv
  BY DEF RowsInv, Rest
<1>6. Budget /\ NumbersInv
  BY DEF Budget, NumbersInv, Rest, Preparing
<1>. QED
  BY <1>2, <1>3, <1>4, <1>5, <1>6 DEF TypeInv

\* Whoever moves, the types stay.
LEMMA TypeInvStep == TypeInv /\ [Next]_vars => TypeInv'
<1>1. TypeInv /\ UNCHANGED vars => TypeInv'
  BY Frames DEF vars, conn, local, tap, aux, TypeInv, LocalType
<1>. QED
  BY <1>1, CommandTypes, CallbackTypes, TapTypes, LinkTypes DEF Next

\* TypeInv holds in every reachable state.
LEMMA TypeInvAlways == Spec => []TypeInv
BY TypeInvInit, TypeInvStep, PTL DEF Spec

\* Every reachable state of the three queries is well typed, for any rows, any
\* number of queries and any disturbances: no more numbers are given out than
\* queries and synchronisations asked, and no cache holds a row that the
\* callbacks were not handed.
THEOREM QueriesTypeCorrect == Spec => []TypeOK
<1>1. TypeInv => TypeOK
  <2>. SUFFICES ASSUME TypeInv PROVE TypeOK
    OBVIOUS
  <2>. DEFINE AnyMessage == [id: QueryIds \cup {0}, row: Rows \cup {NoRow}, last: BOOLEAN, error: BOOLEAN]
  <2>1. InboxMessages \subseteq AnyMessage
    BY DEF InboxMessages, AnswerMessages, PushMessages, FailureMessages
  <2>. HIDE DEF AnyMessage
  <2>2. inbox \in Seq(AnyMessage)
    BY <2>1 DEF TypeInv, QueueType
  <2>3. /\ inbox \in Seq([id: QueryIds \cup {0}, row: Rows \cup {NoRow}, last: BOOLEAN, error: BOOLEAN])
        /\ asked \in Seq(QueryIds)
    BY <2>2 DEF AnyMessage, TypeInv, QueueType
  <2>4. /\ cmd \in [pc: {"idle", "pop", "clear", "event", "send", "wait", "collect"},
                    id: QueryIds \cup {0}, due: SUBSET Rows, mixed: BOOLEAN]
        /\ cmd.pc = "idle" => cmd = Rest
    BY DEF TypeInv, CmdType, Preparing
  <2>5. cache \subseteq BookRows /\ dropped \subseteq told /\ told \subseteq book /\ book \subseteq BookRows
    BY DEF TypeInv, RowsInv
  <2>. QED
    BY <2>3, <2>4, <2>5 DEF TypeOK, TypeInv, LocalType, ReplyType, CountType
<1>. QED
  BY <1>1, TypeInvAlways, PTL

-------------------------------------------------------------------------------
(* Errors *)

\* A failed reply names its error, other replies are not failures.
LEMMA RepliesOwn ==
    ASSUME ErrorInv
    PROVE  /\ UNCHANGED reply => ErrorIsOwn'
           /\ \A due, suspect : Returns(due, suspect) => ErrorIsOwn'
           /\ \A own : Fails("raised", own) => ErrorIsOwn'
<1>1. \A due, suspect : Returns(due, suspect) => reply'.status = "ok"
  BY DEF Returns
<1>2. \A own : Fails("raised", own) => reply'.status = "raised"
  BY DEF Fails
<1>3. UNCHANGED reply => ErrorIsOwn'
  BY DEF ErrorInv, ErrorIsOwn
<1>4. reply'.status # "failed" => ErrorIsOwn'
  BY DEF ErrorIsOwn
<1>. QED
  BY <1>1, <1>2, <1>3, <1>4

\* The command thread forgets what was left, and finds what came since.
LEMMA CommandErrors == TypeInv /\ ErrorInv /\ CommandStep => ErrorInv'
<1>. SUFFICES ASSUME TypeInv, ErrorInv, CommandStep PROVE ErrorInv'
  OBVIOUS
<1>. USE DEF conn, local, aux
<1>1. CASE QueryNotReady
  BY <1>1, RepliesOwn DEF QueryNotReady, ErrorInv
<1>2. CASE QueryCached
  BY <1>2, RepliesOwn DEF QueryCached, ErrorInv
<1>3. CASE Query
  <2>1. cmd'.pc = "pop" /\ UNCHANGED reply
    BY <1>3 DEF Query, Rest
  <2>. QED
    BY <2>1, RepliesOwn DEF ErrorInv
<1>4. CASE PopError
  BY <1>4, RepliesOwn DEF PopError, ErrorInv
<1>5. CASE ClearCache
  <2>1. cmd'.mixed = cmd.mixed /\ cmd'.id = cmd.id /\ cmd.pc = "clear" /\ UNCHANGED <<error, reply>>
    BY <1>5, GotoType DEF ClearCache, Preparing
  <2>. QED
    BY <2>1, RepliesOwn DEF ErrorInv
<1>6. CASE ClearEvent
  <2>1. cmd'.mixed = cmd.mixed /\ cmd'.id = cmd.id /\ cmd.pc = "event" /\ UNCHANGED <<error, reply>>
    BY <1>6, GotoType DEF ClearEvent, Preparing
  <2>. QED
    BY <2>1, RepliesOwn DEF ErrorInv
<1>7. CASE Send
  <2>1. cmd'.mixed = cmd.mixed /\ cmd.id = 0 /\ cmd.pc = "send" /\ UNCHANGED <<error, reply>>
    BY <1>7 DEF Send, TypeInv, CmdType, Preparing
  <2>. QED
    BY <2>1, RepliesOwn DEF ErrorInv
<1>8. CASE SendNoApi \/ WaitExpires
  <2>1. cmd'.pc = "idle" /\ Fails("raised", TRUE)
    <3>1. CASE SendNoApi
      BY <3>1 DEF SendNoApi, Rest
    <3>2. CASE WaitExpires
      BY <3>2 DEF WaitExpires, Rest
    <3>. QED
      BY <1>8, <3>1, <3>2
  <2>. QED
    BY <2>1, RepliesOwn DEF ErrorInv
<1>9. CASE WaitEnds
  <2>1. cmd'.mixed = cmd.mixed /\ cmd'.id = cmd.id /\ cmd.pc = "wait" /\ UNCHANGED <<error, reply>>
    BY <1>9, GotoType DEF WaitEnds, Preparing
  <2>. QED
    BY <2>1, RepliesOwn DEF ErrorInv
<1>10. CASE Collect
  <2>1. cmd'.pc = "idle" /\ cmd.pc = "collect"
    BY <1>10 DEF Collect, Rest
  <2>2. CASE error = 0
    BY <1>10, <2>1, <2>2, RepliesOwn DEF Collect, ErrorInv
  <2>3. CASE error # 0
    <3>. DEFINE own == error = cmd.id
                mixed == cmd.mixed
    <3>1. own \/ mixed
      BY <2>1, <2>3 DEF ErrorInv
    <3>2. reply'.own = own /\ reply'.suspect = mixed
      <4>1. Fails("failed", own)
        BY <1>10, <2>3 DEF Collect
      <4>. HIDE DEF own
      <4>. QED
        BY <4>1 DEF Fails
    <3>3. ErrorIsOwn'
      <4>. HIDE DEF own, mixed
      <4>. QED
        BY <3>1, <3>2 DEF ErrorIsOwn
    <3>. QED
      BY <2>1, <3>3 DEF ErrorInv
  <2>. QED
    BY <2>2, <2>3
<1>. QED
  BY <1>1, <1>2, <1>3, <1>4, <1>5, <1>6, <1>7, <1>8, <1>9, <1>10 DEF CommandStep

\* The callbacks leave an error of the command's own query, or mark the command.
LEMMA CallbackErrors == TypeInv /\ ErrorInv /\ CallbackStep => ErrorInv'
<1>. SUFFICES ASSUME TypeInv, ErrorInv, CallbackStep PROVE ErrorInv'
  OBVIOUS
<1>1. inbox # <<>> /\ HandledBy(Head(inbox)) /\ UNCHANGED reply /\ (UNCHANGED count \/ Fault)
  BY RowSteps DEF CallbackStep, RowStep, OnFailure, HandledBy
<1>2. /\ cmd'.pc = cmd.pc /\ cmd'.id = cmd.id /\ Head(inbox) \in InboxMessages
      /\ cmd'.mixed <=> cmd.mixed \/ Mixes(Head(inbox))
  BY <1>1, Handled
<1>3. CASE OnRow \/ OnLast \/ RowRaises
  <2>1. UNCHANGED error
    BY <1>3, RowSteps DEF RowStep
  <2>. QED
    BY <1>1, <1>2, <2>1, RepliesOwn DEF ErrorInv
<1>4. CASE OnFailure
  <2>1. Head(inbox).id # 0 /\ error' = Head(inbox).id
    BY <1>2, <1>4, MessageShape, IdsType DEF OnFailure
  <2>. QED
    BY <1>1, <1>2, <2>1, RepliesOwn DEF Mixes, ErrorInv
<1>. QED
  BY <1>3, <1>4 DEF CallbackStep

\* What else moves cannot bring an error.
LEMMA OtherErrors == TypeInv /\ ErrorInv /\ (TapStep \/ LinkStep \/ UNCHANGED vars) => ErrorInv'
<1>. SUFFICES ASSUME TypeInv, ErrorInv, TapStep \/ LinkStep \/ UNCHANGED vars PROVE ErrorInv'
  OBVIOUS
<1>1. UNCHANGED <<error, reply>>
  BY DEF TapStep, TapAnswers, TapFails, BookGrows, LinkStep, LinkLost, CloseNative, Connect,
         SyncAsks, Close, CloseReleases, vars, conn, local, tap, aux
<1>2. CASE CloseReleases
  <2>1. cmd'.pc # "idle" => cmd'.mixed
    BY <1>2 DEF CloseReleases, TypeInv, CmdType
  <2>. QED
    BY <1>1, <2>1, RepliesOwn DEF ErrorInv
<1>3. CASE UNCHANGED cmd
  BY <1>1, <1>3, RepliesOwn DEF ErrorInv
<1>4. CloseReleases \/ UNCHANGED cmd
  BY DEF TapStep, TapAnswers, TapFails, BookGrows, LinkStep, LinkLost, CloseNative, Connect,
         SyncAsks, Close, vars, conn, local, tap, aux
<1>. QED
  BY <1>2, <1>3, <1>4

\* A query fails with the error TAP gave to that query, or it is one during
\* which the answer to another query was handled: no error left over from an
\* earlier query or from the synchronisation is told as its own.
THEOREM ErrorsAreOwn == Spec => []ErrorIsOwn
<1>1. Init => ErrorInv
  BY DEF Init, ErrorInv, ErrorIsOwn, Rest
<1>2. TypeInv /\ ErrorInv /\ [Next]_vars => ErrorInv'
  BY CommandErrors, CallbackErrors, OtherErrors DEF Next
<1>3. ErrorInv => ErrorIsOwn
  BY DEF ErrorInv
<1>. QED
  BY <1>1, <1>2, <1>3, TypeInvAlways, PTL DEF Spec

-------------------------------------------------------------------------------
(* Answers *)

\* A reply stays as good as it was; one that is no success promises nothing.
LEMMA RepliesWhole ==
    ASSUME AnswerInv
    PROVE  /\ UNCHANGED reply => CompleteUnlessSuspect'
           /\ \A own : \A status \in {"failed", "raised"} :
                 Fails(status, own) => CompleteUnlessSuspect'
<1>1. UNCHANGED reply => CompleteUnlessSuspect'
  BY DEF AnswerInv, CompleteUnlessSuspect
<1>2. ASSUME NEW own, NEW status \in {"failed", "raised"}, Fails(status, own)
      PROVE  CompleteUnlessSuspect'
  <2>1. reply'.status = status
    BY <1>2 DEF Fails
  <2>. QED
    BY <2>1 DEF CompleteUnlessSuspect
<1>. QED
  BY <1>1, <1>2

\* A success holds what was due, or says that it may not.
LEMMA SuccessWhole ==
    ASSUME NEW due, NEW suspect \in BOOLEAN, Returns(due, suspect), suspect \/ due \subseteq cache \cup dropped
    PROVE  CompleteUnlessSuspect'
<1>1. reply'.suspect = suspect /\ reply'.due = due /\ reply'.rows = cache
      /\ reply'.lost = dropped
  BY DEF Returns
<1>. QED
  BY <1>1 DEF CompleteUnlessSuspect

\* What makes it through the queue is not looked at elsewhere.
LEMMA ComingSame ==
    AnswerInv /\ UNCHANGED <<inbox, told, dropped, cache>> /\ cmd'.id = cmd.id /\ cmd'.due = cmd.due
       /\ (cmd'.pc = "wait" => cmd.pc = "wait") => Coming'
BY DEF AnswerInv, Coming

\* The command thread.
LEMMA CommandAnswers == TypeInv /\ AnswerInv /\ CommandStep => AnswerInv'
<1>. SUFFICES ASSUME TypeInv, AnswerInv, CommandStep PROVE AnswerInv'
  OBVIOUS
<1>. USE DEF conn, local, tap, aux
<1>1. CASE QueryNotReady
  BY <1>1, RepliesWhole DEF QueryNotReady, AnswerInv, Coming, Woken, Complete, CleanInv
<1>2. CASE QueryCached
  <2>. DEFINE suspect == kind # "account" /\ ~clean
  <2>1. cmd.pc = "idle" /\ suspect \in BOOLEAN /\ Returns(told, suspect)
        /\ UNCHANGED <<kind, cmd, cache, told, dropped, inbox, error, event, clean>>
    BY <1>2 DEF QueryCached
  <2>2. suspect \/ told \subseteq cache \cup dropped
    BY <2>1 DEF AnswerInv, CleanInv, TypeInv, RowsInv, LocalType
  <2>3. CompleteUnlessSuspect'
    <3>. HIDE DEF suspect
    <3>. QED
      BY <2>1, <2>2, SuccessWhole
  <2>4. Coming' /\ Woken' /\ CleanInv'
    BY <2>1 DEF AnswerInv, Coming, Woken, Complete, CleanInv
  <2>. QED
    BY <2>3, <2>4 DEF AnswerInv
<1>3. CASE Query
  <2>1. cmd'.pc = "pop" /\ cmd.pc = "idle" /\ UNCHANGED <<cache, told, dropped, clean, reply>>
    BY <1>3 DEF Query, Rest
  <2>2. Coming' /\ Woken' /\ CleanInv'
    BY <2>1 DEF AnswerInv, Coming, Woken, CleanInv
  <2>. QED
    BY <2>1, <2>2, RepliesWhole DEF AnswerInv
<1>4. CASE PopError
  <2>1. cmd'.pc = "clear" /\ cmd.pc = "pop" /\ UNCHANGED <<cache, told, dropped, clean, reply>>
    BY <1>4, GotoType DEF PopError, Preparing
  <2>2. Coming' /\ Woken' /\ CleanInv'
    BY <2>1 DEF AnswerInv, Coming, Woken, CleanInv
  <2>. QED
    BY <2>1, <2>2, RepliesWhole DEF AnswerInv
<1>5. CASE ClearCache
  <2>1. cmd'.pc = "event" /\ UNCHANGED reply
    BY <1>5, GotoType DEF ClearCache, Preparing
  <2>2. Coming' /\ Woken' /\ CleanInv'
    BY <2>1 DEF Coming, Woken, CleanInv
  <2>. QED
    BY <2>1, <2>2, RepliesWhole DEF AnswerInv
<1>6. CASE ClearEvent
  <2>1. cmd'.pc = "send" /\ ~event' /\ UNCHANGED reply
    BY <1>6, GotoType DEF ClearEvent, Preparing
  <2>2. Coming' /\ Woken' /\ CleanInv'
    BY <2>1 DEF Coming, Woken, CleanInv
  <2>. QED
    BY <2>1, <2>2, RepliesWhole DEF AnswerInv
<1>7. CASE Send
  <2>1. /\ cmd.pc = "send" /\ cmd'.pc = "wait" /\ cmd'.id = count.id + 1 /\ cmd'.mixed = cmd.mixed
        /\ UNCHANGED <<event, inbox, reply>>
    BY <1>7 DEF Send, TypeInv, CmdType
  <2>2. Coming'
    <3>1. \A i \in DOMAIN inbox : inbox[i].id # count.id + 1
      <4>1. \A i \in DOMAIN inbox : inbox[i] \in InboxMessages /\ inbox[i].id <= count.id
        BY DEF TypeInv, QueueType, NumbersInv
      <4>2. count.id \in Nat
        <5>1. count.id \in QueryIds \cup {0}
          BY DEF TypeInv, CountType
        <5>. QED
          BY <5>1, IdsType
      <4>. QED
        BY <4>1, <4>2, MessageShape
    <3>. QED
      BY <2>1, <3>1 DEF Coming
  <2>3. Woken' /\ CleanInv'
    BY <2>1 DEF AnswerInv, Woken, CleanInv
  <2>. QED
    BY <2>1, <2>2, <2>3, RepliesWhole DEF AnswerInv
<1>8. CASE SendNoApi \/ WaitExpires
  <2>1. cmd'.pc = "idle" /\ Fails("raised", TRUE) /\ clean' = FALSE
    <3>1. CASE SendNoApi
      BY <3>1 DEF SendNoApi, Rest
    <3>2. CASE WaitExpires
      BY <3>2 DEF WaitExpires, Rest
    <3>. QED
      BY <1>8, <3>1, <3>2
  <2>2. Coming' /\ Woken' /\ CleanInv'
    BY <2>1 DEF Coming, Woken, CleanInv
  <2>. QED
    BY <2>1, <2>2, RepliesWhole DEF AnswerInv
<1>9. CASE WaitEnds
  <2>1. /\ cmd.pc = "wait" /\ event /\ cmd'.pc = "collect" /\ cmd'.mixed = cmd.mixed /\ cmd'.due = cmd.due
        /\ UNCHANGED <<error, told, dropped, cache, reply>>
    BY <1>9, GotoType DEF WaitEnds, Preparing
  <2>2. Coming' /\ Woken' /\ CleanInv'
    BY <2>1 DEF AnswerInv, Coming, Woken, Complete, CleanInv
  <2>. QED
    BY <2>1, <2>2, RepliesWhole DEF AnswerInv
<1>10. CASE Collect
  <2>. DEFINE mixed == cmd.mixed
              own   == error = cmd.id
  <2>1. /\ cmd.pc = "collect" /\ cmd'.pc = "idle" /\ (clean' <=> error = 0 /\ ~mixed)
        /\ UNCHANGED <<told, dropped, cache>>
    BY <1>10 DEF Collect, Rest
  <2>2. error # 0 \/ mixed \/ Complete
    BY <2>1 DEF AnswerInv, Woken
  <2>3. Coming' /\ Woken' /\ CleanInv'
    BY <2>1, <2>2 DEF Coming, Woken, Complete, CleanInv
  <2>4. mixed \in BOOLEAN
    BY DEF TypeInv, CmdType
  <2>5. CompleteUnlessSuspect'
    <3>1. CASE error = 0
      <4>1. Returns(cmd.due, mixed) /\ (mixed \/ cmd.due \subseteq cache \cup dropped)
        BY <1>10, <2>2, <3>1 DEF Collect, Complete
      <4>. HIDE DEF mixed
      <4>. QED
        BY <2>4, <4>1, SuccessWhole
    <3>2. CASE error # 0
      <4>1. Fails("failed", own)
        BY <1>10, <3>2 DEF Collect
      <4>. HIDE DEF own
      <4>. QED
        BY <4>1, RepliesWhole
    <3>. QED
      BY <3>1, <3>2
  <2>. QED
    BY <2>3, <2>5 DEF AnswerInv
<1>. QED
  BY <1>1, <1>2, <1>3, <1>4, <1>5, <1>6, <1>7, <1>8, <1>9, <1>10 DEF CommandStep

\* A row that comes through: what was in the inbox is in the cache or dropped,
\* what is behind it in the inbox moves up.
LEMMA ComingMoves ==
    ASSUME TypeInv, AnswerInv, inbox # <<>>, inbox' = Tail(inbox),
           cmd'.pc = cmd.pc, cmd'.id = cmd.id, cmd'.due = cmd.due,
           cache \cup dropped \subseteq cache' \cup dropped',
           Head(inbox).row \in cache' \cup dropped' \cup {NoRow},
           told' \subseteq told \cup {Head(inbox).row}, NoRow \notin told'
    PROVE  Coming'
<1>. SUFFICES ASSUME cmd.pc = "wait", NEW i \in DOMAIN inbox', inbox'[i].id = cmd.id, inbox'[i].last,
                     NEW r \in told' \cup cmd.due
              PROVE  r \in cache' \cup dropped' \/ \E j \in 1..i : inbox'[j].row = r
  BY DEF Coming
<1>1. inbox \in Seq(InboxMessages)
  BY DEF TypeInv, QueueType
<1>2. /\ 1 \in DOMAIN inbox /\ inbox[1] = Head(inbox)
      /\ \A k \in DOMAIN inbox' : k \in Nat \ {0} /\ k + 1 \in DOMAIN inbox /\ inbox'[k] = inbox[k + 1]
  BY <1>1, Taken
<1>3. r # NoRow
  BY BookRowsType, QueryAssumption DEF TypeInv, RowsInv
<1>4. CASE r = Head(inbox).row
  BY <1>3, <1>4
<1>5. CASE r # Head(inbox).row
  <2>1. r \in told \cup cmd.due
    BY <1>5
  <2>2. inbox[i + 1].id = cmd.id /\ inbox[i + 1].last /\ i + 1 \in DOMAIN inbox
    BY <1>2
  <2>3. CASE r \in cache \cup dropped
    BY <2>3
  <2>4. CASE \E j \in 1..(i + 1) : inbox[j].row = r
    <3>1. PICK j \in 1..(i + 1) : inbox[j].row = r
      BY <2>4
    <3>2. j # 1
      BY <1>2, <1>5, <3>1
    <3>3. j - 1 \in 1..i /\ j - 1 \in DOMAIN inbox'
      <4>1. i \in Nat /\ DOMAIN inbox' = 1..Len(inbox') /\ Len(inbox') \in Nat
        BY <1>1, <1>2
      <4>. QED
        BY <3>1, <3>2, <4>1
    <3>4. inbox'[j - 1] = inbox[j]
      BY <1>2, <3>3
    <3>. QED
      BY <3>1, <3>3, <3>4
  <2>. QED
    BY <2>1, <2>2, <2>3, <2>4 DEF AnswerInv, Coming
<1>. QED
  BY <1>4, <1>5

\* The callbacks put what the command waits for into its cache before they wake
\* it, or mark it.
LEMMA CallbackAnswers == TypeInv /\ AnswerInv /\ CallbackStep => AnswerInv'
<1>. SUFFICES ASSUME TypeInv, AnswerInv, CallbackStep PROVE AnswerInv'
  OBVIOUS
<1>1. inbox # <<>> /\ HandledBy(Head(inbox)) /\ UNCHANGED <<reply, clean>> /\ inbox' = Tail(inbox)
      /\ (UNCHANGED count \/ Fault)
  BY RowSteps DEF CallbackStep, RowStep, OnFailure, HandledBy
<1>2. /\ cmd'.pc = cmd.pc /\ cmd'.id = cmd.id /\ cmd'.due = cmd.due
      /\ Head(inbox) \in InboxMessages /\ Head(inbox).row \in book \cup {NoRow}
      /\ cmd'.mixed <=> cmd.mixed \/ Mixes(Head(inbox))
  BY <1>1, Handled
<1>3. CompleteUnlessSuspect'
  BY <1>1, RepliesWhole
<1>4. NoRow \notin told \cup cmd.due
  BY BookRowsType, QueryAssumption DEF TypeInv, RowsInv
<1>5. cmd.pc = "send" => cmd.id = 0
  BY DEF TypeInv, CmdType, Preparing
<1>6. CASE OnRow \/ OnLast \/ RowRaises
  <2>1. RowStep
    BY <1>6, RowSteps
  <2>2. /\ cache \cup dropped \subseteq cache' \cup dropped'
        /\ told' \subseteq told \cup {Head(inbox).row} /\ NoRow \notin told'
        /\ Head(inbox).row \in cache' \cup dropped' \cup {NoRow}
    <3>1. UNCHANGED <<kind, book>>
      BY <1>1 DEF HandledBy
    <3>. QED
      BY <1>2, <2>1, <3>1, RowTaken DEF RowStep
  <2>3. Coming'
    BY <1>1, <1>2, <2>2, ComingMoves
  <2>4. UNCHANGED error /\ (OnRow \/ RowRaises => UNCHANGED event)
    BY <2>1 DEF RowStep, OnRow, RowRaises
  <2>5. Complete => Complete'
    BY <1>2, <2>2 DEF Complete
  <2>6. CleanInv'
    BY <1>1, <1>2, <2>2 DEF AnswerInv, CleanInv
  <2>7. Woken'
    <3>1. CASE OnRow \/ RowRaises
      BY <1>2, <2>4, <2>5, <3>1 DEF AnswerInv, Woken
    <3>2. CASE OnLast
      <4>1. Head(inbox).last /\ Head(inbox).id # 0
        BY <1>2, <3>2, MessageShape, IdsType DEF OnLast
      <4>2. CASE Head(inbox).id # cmd.id
        <5>1. cmd.pc # "idle" => cmd'.mixed
          BY <1>2, <4>1, <4>2 DEF Mixes
        <5>. QED
          BY <1>2, <5>1 DEF Woken
      <4>3. CASE Head(inbox).id = cmd.id
        <5>1. cmd.pc # "send"
          BY <1>5, <4>1, <4>3
        <5>2. cmd.pc = "wait" => Complete'
          <6>. SUFFICES ASSUME cmd.pc = "wait", NEW r \in told' \cup cmd.due PROVE r \in cache' \cup dropped'
            BY <1>2 DEF Complete
          <6>1. 1 \in DOMAIN inbox /\ inbox[1] = Head(inbox)
            <7>1. inbox \in Seq(InboxMessages)
              BY DEF TypeInv, QueueType
            <7>. QED
              BY <1>1, <7>1, Taken
          <6>2. r # NoRow
            BY <1>4, <2>2
          <6>3. CASE r = Head(inbox).row
            BY <2>2, <6>2, <6>3
          <6>4. CASE r # Head(inbox).row
            <7>1. r \in told \cup cmd.due
              BY <2>2, <6>4
            <7>2. r \in cache \cup dropped \/ \E j \in 1..1 : inbox[j].row = r
              BY <4>1, <4>3, <6>1, <7>1 DEF AnswerInv, Coming
            <7>3. \A j \in 1..1 : j = 1
              OBVIOUS
            <7>. QED
              BY <2>2, <6>1, <6>4, <7>2, <7>3
          <6>. QED
            BY <6>3, <6>4
        <5>. QED
          BY <1>2, <2>4, <2>5, <5>1, <5>2 DEF AnswerInv, Woken
      <4>. QED
        BY <4>2, <4>3
    <3>. QED
      BY <1>6, <3>1, <3>2
  <2>. QED
    BY <1>3, <2>3, <2>6, <2>7 DEF AnswerInv
<1>7. CASE OnFailure
  <2>1. /\ error' = Head(inbox).id /\ UNCHANGED <<cache, told, dropped>>
        /\ Head(inbox).id # 0 /\ Head(inbox).row = NoRow
    BY <1>2, <1>7, MessageShape, IdsType DEF OnFailure
  <2>2. Coming'
    BY <1>1, <1>2, <1>4, <2>1, ComingMoves
  <2>3. Woken'
    BY <1>2, <1>5, <2>1 DEF Woken, Mixes
  <2>4. CleanInv'
    BY <1>1, <1>2, <2>1 DEF AnswerInv, CleanInv
  <2>. QED
    BY <1>3, <2>2, <2>3, <2>4 DEF AnswerInv
<1>. QED
  BY <1>6, <1>7 DEF CallbackStep

\* What TAP sends comes after what it has sent, an answer with every row of the
\* book before its end.
LEMMA ComingGrows ==
    ASSUME TypeInv, AnswerInv, NEW messages \in Seq(InboxMessages), inbox' = inbox \o messages,
           \A i \in DOMAIN messages : messages[i].last =>
               \A r \in book : \E j \in 1..i : messages[j].row = r,
           UNCHANGED <<cmd, told, dropped, cache>>
    PROVE  Coming'
<1>. SUFFICES ASSUME cmd.pc = "wait", NEW i \in DOMAIN inbox', inbox'[i].id = cmd.id, inbox'[i].last,
                     NEW r \in told \cup cmd.due
              PROVE  r \in cache \cup dropped \/ \E j \in 1..i : inbox'[j].row = r
  BY DEF Coming
<1>1. inbox \in Seq(InboxMessages)
  BY DEF TypeInv, QueueType
<1>2. /\ \A k \in DOMAIN inbox : inbox'[k] = inbox[k]
      /\ \A k \in DOMAIN messages : inbox'[Len(inbox) + k] = messages[k]
      /\ i \in DOMAIN inbox \/ (i > Len(inbox) /\ i - Len(inbox) \in DOMAIN messages)
  BY <1>1, Appended
<1>3. /\ Len(inbox) \in Nat /\ DOMAIN inbox = 1..Len(inbox)
      /\ Len(messages) \in Nat /\ DOMAIN messages = 1..Len(messages)
  BY <1>1
<1>4. CASE i \in DOMAIN inbox
  <2>1. r \in cache \cup dropped \/ \E j \in 1..i : inbox[j].row = r
    BY <1>2, <1>4 DEF AnswerInv, Coming
  <2>2. \A j \in 1..i : inbox'[j] = inbox[j]
    BY <1>2, <1>3, <1>4
  <2>. QED
    BY <2>1, <2>2
<1>5. CASE i > Len(inbox) /\ i - Len(inbox) \in DOMAIN messages
  <2>. DEFINE k == i - Len(inbox)
  <2>1. k \in DOMAIN messages /\ k \in Nat /\ i = Len(inbox) + k /\ inbox'[i] = messages[k]
    <3>1. i \in Nat
      BY <1>1, <1>5, <1>3
    <3>2. k \in DOMAIN messages /\ k \in Nat /\ i = Len(inbox) + k
      BY <1>3, <1>5, <3>1
    <3>. QED
      BY <1>2, <3>2
  <2>. HIDE DEF k
  <2>2. r \in book
    BY DEF TypeInv, RowsInv
  <2>3. PICK j \in 1..k : messages[j].row = r
    BY <2>1, <2>2
  <2>4. j \in DOMAIN messages /\ Len(inbox) + j \in 1..i
    BY <1>3, <2>1, <2>3
  <2>. QED
    BY <1>2, <2>3, <2>4
<1>. QED
  BY <1>2, <1>4, <1>5

\* TAP.
LEMMA QueueAnswers == TypeInv /\ AnswerInv /\ TapStep => AnswerInv'
<1>. SUFFICES ASSUME TypeInv, AnswerInv, TapStep PROVE AnswerInv'
  OBVIOUS
<1>1. UNCHANGED <<cmd, told, dropped, cache, event, error, clean, reply>>
  BY DEF TapStep, TapAnswers, TapFails, BookGrows, conn, local, aux
<1>2. Woken' /\ CleanInv' /\ CompleteUnlessSuspect'
  BY <1>1, RepliesWhole DEF AnswerInv, Woken, Complete, CleanInv
<1>3. asked \in Seq(QueryIds) /\ book \subseteq Rows /\ inbox \in Seq(InboxMessages)
  BY BookRowsType DEF TypeInv, QueueType, RowsInv
<1>4. asked # <<>> => Head(asked) \in QueryIds
  BY <1>3, Taken
<1>5. CASE TapAnswers
  <2>1. PICK answer \in AnswersTo(Head(asked)) : inbox' = inbox \o answer
    BY <1>5 DEF TapAnswers
  <2>2. Head(asked) \in QueryIds
    BY <1>4, <1>5 DEF TapAnswers
  <2>3. /\ answer \in Seq(AnswerMessages)
        /\ \A i \in DOMAIN answer : answer[i].last =>
              \A r \in book : \E j \in 1..i : answer[j].row = r
    BY <1>3, <2>2, AnswerShape
  <2>4. answer \in Seq(InboxMessages)
    BY <2>3 DEF InboxMessages
  <2>5. Coming'
    BY <1>1, <2>1, <2>3, <2>4, ComingGrows
  <2>. QED
    BY <1>2, <2>5 DEF AnswerInv
<1>6. ASSUME NEW m \in InboxMessages, ~m.last, inbox' = Append(inbox, m)
      PROVE  Coming'
  <2>. DEFINE one == <<m>>
  <2>1. one \in Seq(InboxMessages) /\ inbox' = inbox \o one /\ \A i \in DOMAIN one : one[i] = m
    BY <1>3, <1>6
  <2>. HIDE DEF one
  <2>. QED
    BY <1>1, <1>6, <2>1, ComingGrows
<1>7. CASE TapFails
  <2>. DEFINE m == Failure(Head(asked))
  <2>1. inbox' = Append(inbox, m) /\ m \in InboxMessages /\ m.last = FALSE
    BY <1>4, <1>7 DEF TapFails, Failure, InboxMessages, FailureMessages
  <2>. HIDE DEF m
  <2>. QED
    BY <1>2, <1>6, <2>1 DEF AnswerInv
<1>8. CASE BookGrows
  <2>1. PICK row \in BookRows \ book : inbox' = Append(inbox, Message(0, row, FALSE))
    BY <1>8 DEF BookGrows
  <2>. DEFINE m == Message(0, row, FALSE)
  <2>2. inbox' = Append(inbox, m) /\ m \in InboxMessages /\ m.last = FALSE
    BY <2>1, BookRowsType DEF Message, InboxMessages, PushMessages
  <2>. HIDE DEF m
  <2>. QED
    BY <1>2, <1>6, <2>2 DEF AnswerInv
<1>. QED
  BY <1>5, <1>7, <1>8 DEF TapStep

\* A link that goes takes the answers with it; close marks whoever it releases.
LEMMA LinkAnswers == TypeInv /\ AnswerInv /\ (LinkStep \/ UNCHANGED vars) => AnswerInv'
<1>. SUFFICES ASSUME TypeInv, AnswerInv, LinkStep \/ UNCHANGED vars PROVE AnswerInv'
  OBVIOUS
<1>1. UNCHANGED <<told, dropped, cache, error, clean, reply>>
  BY DEF LinkStep, LinkLost, CloseNative, Connect, SyncAsks, Close, CloseReleases,
         vars, conn, local, tap, aux
<1>2. cmd'.pc = cmd.pc /\ cmd'.id = cmd.id /\ cmd'.due = cmd.due
      /\ (~CloseReleases => UNCHANGED cmd) /\ (CloseReleases => (cmd.pc # "idle" => cmd'.mixed))
  <2>1. CASE CloseReleases
    BY <2>1 DEF CloseReleases, TypeInv, CmdType
  <2>2. CASE ~CloseReleases
    BY <2>2 DEF LinkStep, LinkLost, CloseNative, Connect, SyncAsks, Close,
         vars, conn, local, tap, aux
  <2>. QED
    BY <2>1, <2>2
<1>3. UNCHANGED inbox \/ inbox' = <<>>
  BY DEF LinkStep, LinkLost, CloseNative, Connect, SyncAsks, Close, CloseReleases,
         vars, conn, local, tap, aux
<1>4. Coming'
  BY <1>1, <1>2, <1>3 DEF AnswerInv, Coming
<1>5. CleanInv' /\ CompleteUnlessSuspect'
  BY <1>1, <1>2, RepliesWhole DEF AnswerInv, CleanInv
<1>6. Woken'
  <2>1. CASE CloseReleases
    BY <1>2, <2>1 DEF Woken
  <2>2. CASE ~CloseReleases
    <3>1. UNCHANGED event \/ event' = FALSE
      BY <2>2 DEF LinkStep, LinkLost, CloseNative, Connect, SyncAsks, Close, vars, conn, local, tap, aux
    <3>. QED
      BY <1>1, <1>2, <2>2, <3>1 DEF AnswerInv, Woken, Complete
  <2>. QED
    BY <2>1, <2>2
<1>. QED
  BY <1>4, <1>5, <1>6 DEF AnswerInv

\* A successful reply misses no row TAP had when the command began or, taken
\* from the cache, none the callbacks had been handed, other than rows the
\* callbacks passed over or raised in since the cache was cleared; unless the
\* command was marked: the answer to another query was handled while it ran,
\* close released it, or the cache it was taken from followed a query that
\* failed or was mixed up.
THEOREM RepliesComplete == Spec => []CompleteUnlessSuspect
<1>1. Init => AnswerInv
  BY DEF Init, AnswerInv, Coming, Woken, CleanInv, CompleteUnlessSuspect, Rest
<1>2. TypeInv /\ AnswerInv /\ [Next]_vars => AnswerInv'
  BY CommandAnswers, CallbackAnswers, QueueAnswers, LinkAnswers DEF Next
<1>3. AnswerInv => CompleteUnlessSuspect
  BY DEF AnswerInv
<1>. QED
  BY <1>1, <1>2, <1>3, TypeInvAlways, PTL DEF Spec

===============================================================================
