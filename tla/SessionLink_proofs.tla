-------------------------- MODULE SessionLink_proofs --------------------------
(***************************************************************************)
(* Theorems of SessionLink for every value of its constants: its types,    *)
(* that ready means a synchronised link, and that the two threads never    *)
(* work on each other's half-built link.                                   *)
(***************************************************************************)
EXTENDS SessionLink, TLAPS

-------------------------------------------------------------------------------
(* The inductive invariant *)

\* A thread that rebuilds the link holds the lock; main stops after _closing.
LockInv ==
    /\ \A p \in Threads : pc[p] \in {"close", "create", "init"} => lock = p
    /\ pc["main"] \in {"close_native", "close_clear", "stopped"} => closing

\* How far the links have come when an event is set.
EventInv ==
    /\ "md" \in raised => md = "up"
    /\ "td" \in raised => td \notin {"none", "new", "login", "down"}
    /\ "account" \in raised => td \in {"fund", "position", "order", "done", "stalled"}
    /\ "sync" \in raised => td \in {"done", "down"}

\* Between _close_native and _reset_connection_state the events are stale.
Rebuilding == \E p \in Threads : pc[p] = "create"

LinkInv ==
    /\ TypeOK
    /\ LockInv
    /\ ConnectOwnsApi
    /\ closing \/ Rebuilding \/ EventInv

\* Such events mean a synchronised link.
LEMMA LinkInvReady == LinkInv => ReadyIsReal
BY DEF LinkInv, ReadyIsReal, Rebuilding, EventInv, IsReady, ReadinessEvents, Events

\* The process starts without a link, an event or a holder of the lock.
LEMMA LinkInvInit == Init => LinkInv
<1>. SUFFICES ASSUME Init PROVE LinkInv
  OBVIOUS
<1>1. TypeOK
  <2>1. /\ pc \in [Threads -> MainPcs \cup ReconnectPcs]
        /\ pc["main"] \in MainPcs /\ pc["reconnect"] \in ReconnectPcs
    BY DEF Init, Threads, MainPcs, ReconnectPcs, ConnectPcs
  <2>2. attempts \in Nat /\ (RetryForever \/ attempts <= MaxAttempts)
    BY LinkAssumption DEF Init
  <2>3. spent \in Budgets
    BY LinkAssumption DEF Init, Budgets
  <2>4. awaiting \in [Threads -> SUBSET Events]
    BY DEF Init
  <2>5. /\ md \in MdStages /\ td \in TdStages
        /\ raised \subseteq Events /\ closing \in BOOLEAN
        /\ lock \in Threads \cup {Nobody} /\ scheduling \subseteq Channels
    BY DEF Init, MdStages, TdStages
  <2>. QED
    BY <2>1, <2>2, <2>3, <2>4, <2>5 DEF TypeOK
<1>2. LockInv /\ ConnectOwnsApi /\ EventInv
  BY DEF Init, LockInv, ConnectOwnsApi, EventInv, Threads
<1>. QED
  BY <1>1, <1>2 DEF LinkInv

-------------------------------------------------------------------------------
(* Types *)

\* connect keeps the types, whoever calls it.
LEMMA ConnectTypes ==
    ASSUME TypeOK, NEW p \in Threads, Connect(p) \/ ConnectRaises(p)
    PROVE  TypeOK'
<1>. USE DEF TypeOK, MdStages, TdStages, Threads, Nobody, MainPcs, ReconnectPcs, ConnectPcs,
           Goto, Returned, Budgets
<1>1. CASE ConnectEnter(p)
  BY <1>1 DEF ConnectEnter, links
<1>2. CASE ConnectLock(p)
  BY <1>2 DEF ConnectLock, links
<1>3. CASE ConnectClose(p)
  BY <1>3 DEF ConnectClose, CloseNative
<1>4. CASE ConnectCreate(p)
  BY <1>4 DEF ConnectCreate, Reset
<1>5. CASE ConnectInit(p)
  <2>1. CASE td = "none"
    BY <1>5, <2>1 DEF ConnectInit, Raise
  <2>2. CASE td # "none"
    <3>1. awaiting' \in [Threads -> SUBSET Events]
      BY <1>5, <2>2 DEF ConnectInit, ReadinessEvents, Events
    <3>. QED
      BY <1>5, <2>2, <3>1 DEF ConnectInit
  <2>. QED
    BY <2>1, <2>2
<1>6. CASE WaitPasses(p)
  BY <1>6, LinkAssumption DEF WaitPasses, links
<1>7. CASE WaitExpires(p)
  BY <1>7, LinkAssumption DEF WaitExpires, Spend, links
<1>8. CASE ConnectRaises(p)
  BY <1>8, LinkAssumption DEF ConnectRaises, Raise, Reset, Spend, links
<1>. QED
  BY <1>1, <1>2, <1>3, <1>4, <1>5, <1>6, <1>7, <1>8 DEF Connect

\* The reconnect thread keeps the types,
LEMMA ReconnectTypes ==
    ASSUME TypeOK, ReconnectLoop \/ ReconnectDelay \/ ReconnectEnds
    PROVE  TypeOK'
<1>. USE LinkAssumption
     DEF TypeOK, Threads, MainPcs, ReconnectPcs, ConnectPcs, Goto, links
<1>1. CASE ReconnectLoop
  BY <1>1 DEF ReconnectLoop, Attempt
<1>2. CASE ReconnectDelay
  BY <1>2 DEF ReconnectDelay
<1>3. CASE ReconnectEnds
  BY <1>3 DEF ReconnectEnds
<1>. QED
  BY <1>1, <1>2, <1>3

Callback ==
    \/ MdAnswers
    \/ TdAnswers
    \/ \E c \in Channels : OnDisconnect(c) \/ ScheduleReconnect(c)
    \/ OnFailure

\* the callbacks do,
LEMMA CallbackTypes ==
    ASSUME TypeOK, Callback
    PROVE  TypeOK'
<1>. USE LinkAssumption
     DEF TypeOK, MdStages, TdStages, Events, Channels, Threads, MainPcs, ReconnectPcs,
         ConnectPcs, Goto, links, Answers, Spend, Budgets
<1>1. CASE OnMdReady
  BY <1>1 DEF OnMdReady
<1>2. CASE OnTdReady
  BY <1>2 DEF OnTdReady
<1>3. CASE OnAccountResponse
  BY <1>3 DEF OnAccountResponse
<1>4. CASE OnFundLast
  BY <1>4 DEF OnFundLast
<1>5. CASE OnPositionLast
  BY <1>5 DEF OnPositionLast
<1>6. CASE OnOrderLast
  BY <1>6 DEF OnOrderLast
<1>7. CASE OnFailure
  BY <1>7 DEF OnFailure
<1>8. ASSUME NEW c \in Channels, OnDisconnect(c) PROVE TypeOK'
  <2>1. spent' \in Budgets
    <3>1. spent' = [spent EXCEPT !.drop = @ + 1, !.overlap = @ \/ ~AtRest]
      BY <1>8 DEF OnDisconnect
    <3>2. spent.drop + 1 \in 0..MaxDrops
      BY <1>8 DEF OnDisconnect
    <3>3. (spent.overlap \/ ~AtRest) \in BOOLEAN
      OBVIOUS
    <3>. QED
      BY <3>1, <3>2, <3>3
  <2>2. md' \in MdStages /\ td' \in TdStages /\ raised' \subseteq Events
    BY <1>8 DEF OnDisconnect
  <2>3. UNCHANGED <<closing, lock, pc, awaiting, attempts>>
    BY <1>8 DEF OnDisconnect
  <2>4. scheduling' \subseteq Channels
    BY <1>8 DEF OnDisconnect
  <2>. QED
    BY <2>1, <2>2, <2>3, <2>4
<1>9. ASSUME NEW c \in Channels, ScheduleReconnect(c) PROVE TypeOK'
  BY <1>9 DEF ScheduleReconnect
<1>. QED
  BY <1>1, <1>2, <1>3, <1>4, <1>5, <1>6, <1>7, <1>8, <1>9
     DEF Callback, MdAnswers, TdAnswers

\* and so does close.
LEMMA CloseTypes ==
    ASSUME TypeOK, Close \/ CloseApis \/ CloseClear
    PROVE  TypeOK'
<1>. USE DEF TypeOK, MdStages, TdStages, Threads, MainPcs, Goto, links
<1>1. CASE Close
  BY <1>1 DEF Close
<1>2. CASE CloseApis
  BY <1>2 DEF CloseApis, CloseNative
<1>3. CASE CloseClear
  BY <1>3 DEF CloseClear
<1>. QED
  BY <1>1, <1>2, <1>3

\* The steps of Next by the thread that takes them.
LEMMA NextCases ==
    ASSUME Next
    PROVE  \/ \E p \in Threads : Connect(p) \/ ConnectRaises(p)
           \/ ReconnectLoop \/ ReconnectDelay \/ ReconnectEnds
           \/ Callback
           \/ Close \/ CloseApis \/ CloseClear
BY DEF Next, MainStep, ReconnectStep, Disturbance, Callback, Threads

\* Every step keeps the types.
LEMMA TypeStep == TypeOK /\ [Next]_vars => TypeOK'
<1>1. ASSUME TypeOK, UNCHANGED vars PROVE TypeOK'
  BY <1>1 DEF vars, TypeOK
<1>. QED
  BY <1>1, NextCases, ConnectTypes, ReconnectTypes, CallbackTypes, CloseTypes

-------------------------------------------------------------------------------
(* The lock, the native objects and the events *)

Kept == LockInv /\ ConnectOwnsApi /\ (closing \/ Rebuilding \/ EventInv)

\* connect takes the lock before it touches the link, empties the events before
\* a new link can raise any, and gives the lock back when the login is sent.
LEMMA ConnectKeeps ==
    ASSUME TypeOK, Kept, NEW p \in Threads, Connect(p) \/ ConnectRaises(p)
    PROVE  Kept'
<1>. USE DEF Kept, LockInv, ConnectOwnsApi, TypeOK, Threads, Nobody, Goto, Returned
<1>1. CASE ConnectEnter(p)
  BY <1>1 DEF ConnectEnter, links, Rebuilding, EventInv
<1>2. CASE ConnectLock(p)
  BY <1>2 DEF ConnectLock, links, Rebuilding, EventInv
<1>3. CASE ConnectClose(p)
  BY <1>3 DEF ConnectClose, CloseNative, Rebuilding
<1>4. CASE ConnectCreate(p)
  BY <1>4 DEF ConnectCreate, Reset, EventInv
<1>5. CASE ConnectInit(p)
  BY <1>5 DEF ConnectInit, Raise, Rebuilding, EventInv
<1>6. CASE WaitPasses(p)
  BY <1>6 DEF WaitPasses, links, Rebuilding, EventInv
<1>7. CASE WaitExpires(p)
  BY <1>7 DEF WaitExpires, links, Rebuilding, EventInv
<1>8. CASE ConnectRaises(p)
  BY <1>8 DEF ConnectRaises, Raise, Reset, links, Rebuilding, EventInv
<1>. QED
  BY <1>1, <1>2, <1>3, <1>4, <1>5, <1>6, <1>7, <1>8 DEF Connect

\* Outside connect the reconnect thread touches neither lock nor link.
LEMMA ReconnectKeeps ==
    ASSUME TypeOK, Kept, ReconnectLoop \/ ReconnectDelay \/ ReconnectEnds
    PROVE  Kept'
BY DEF Kept, LockInv, ConnectOwnsApi, TypeOK, Threads, Goto, Rebuilding, EventInv, links,
       ReconnectLoop, Attempt, ReconnectDelay, ReconnectEnds

\* A callback raises an event when its link has come that far and clears the
\* events of a lost link; it never touches a link that is not logging in.
LEMMA CallbackKeeps ==
    ASSUME TypeOK, Kept, Callback
    PROVE  Kept'
<1>. USE DEF Kept, LockInv, ConnectOwnsApi, TypeOK, Threads, Rebuilding, EventInv, Answers
<1>1. CASE OnMdReady
  BY <1>1 DEF OnMdReady
<1>2. CASE OnTdReady
  BY <1>2 DEF OnTdReady
<1>3. CASE OnAccountResponse
  BY <1>3 DEF OnAccountResponse
<1>4. CASE OnFundLast
  BY <1>4 DEF OnFundLast
<1>5. CASE OnPositionLast
  BY <1>5 DEF OnPositionLast
<1>6. CASE OnOrderLast
  BY <1>6 DEF OnOrderLast
<1>7. CASE OnFailure
  BY <1>7 DEF OnFailure
<1>8. ASSUME NEW c \in Channels, OnDisconnect(c) PROVE Kept'
  BY <1>8 DEF OnDisconnect
<1>9. ASSUME NEW c \in Channels, ScheduleReconnect(c) PROVE Kept'
  BY <1>9 DEF ScheduleReconnect, Goto, ReconnectAlive, links
<1>. QED
  BY <1>1, <1>2, <1>3, <1>4, <1>5, <1>6, <1>7, <1>8, <1>9
     DEF Callback, MdAnswers, TdAnswers

\* close sets _closing first, after which nothing counts as ready.
LEMMA CloseKeeps ==
    ASSUME TypeOK, Kept, Close \/ CloseApis \/ CloseClear
    PROVE  Kept'
BY DEF Kept, LockInv, ConnectOwnsApi, TypeOK, Threads, Goto, links, Close, CloseApis,
       CloseNative, CloseClear

\* The invariant is inductive.
LEMMA LinkInvStep == LinkInv /\ [Next]_vars => LinkInv'
<1>1. ASSUME Kept, UNCHANGED vars PROVE Kept'
  BY <1>1 DEF vars, Kept, LockInv, ConnectOwnsApi, Rebuilding, EventInv
<1>2. ASSUME TypeOK, Kept, Next PROVE Kept'
  BY <1>2, NextCases, ConnectKeeps, ReconnectKeeps, CallbackKeeps, CloseKeeps
<1>. QED
  BY <1>1, <1>2, TypeStep DEF LinkInv, Kept

-------------------------------------------------------------------------------
(* The theorems *)

\* LinkInv holds in every state the session reaches.
LEMMA LinkInvAlways == Spec => []LinkInv
BY LinkInvInit, LinkInvStep, PTL DEF Spec

\* Every state the session reaches is well typed, and a bounded number of
\* attempts is never exceeded (_reconnect_loop).
THEOREM LinkTypeCorrect == Spec => []TypeOK
<1>1. LinkInv => TypeOK
  BY DEF LinkInv
<1>. QED
  BY <1>1, LinkInvAlways, PTL

\* The session reports itself ready only when the present link has been through
\* the whole synchronisation, however many links came before it (is_ready).
THEOREM ReadyOnlyInSync == Spec => []ReadyIsReal
BY LinkInvReady, LinkInvAlways, PTL

\* main and the reconnect thread never log in on each other's native object,
\* whatever is lost, fails or raises meanwhile (connect, _connect_lock).
THEOREM ConnectExclusive == Spec => []ConnectOwnsApi
<1>1. LinkInv => ConnectOwnsApi
  BY DEF LinkInv
<1>. QED
  BY <1>1, LinkInvAlways, PTL
===============================================================================
