----------------------------- MODULE SessionLink ------------------------------
(***************************************************************************)
(* How the session connects, reports itself ready, reconnects and closes   *)
(* (src/src/tap_session.py, src/src/main.py).  Two threads call connect:   *)
(* the main thread once, and the reconnect thread that a lost link starts. *)
(* The callbacks of the MD and TD links run on two further threads, one    *)
(* for each link; they raise and clear the readiness events that connect   *)
(* waits for and is_ready reads.                                           *)
(*                                                                         *)
(* Each statement of connect that touches what another thread may touch is *)
(* a step; a callback is one step, on_disconnect two.  exit() of a native  *)
(* API joins its callback thread.  Time is abstracted: a wait may expire   *)
(* when its answer can no longer come and, within MaxSlow, at any moment.  *)
(***************************************************************************)
EXTENDS Naturals

CONSTANTS
    EnableMd,          \* settings.enable_md
    RetryForever,      \* settings.reconnect_max_attempts = -1
    MaxAttempts,       \* settings.reconnect_max_attempts otherwise
    DelayLimit,        \* last attempt whose delay is a float: 1024 in Python
    MaxDrops,          \* bounds on the disturbances of a behaviour
    MaxFailures,
    MaxSlow

ASSUME LinkAssumption ==
    /\ {EnableMd, RetryForever} \subseteq BOOLEAN
    /\ {MaxAttempts, DelayLimit, MaxDrops, MaxFailures, MaxSlow} \subseteq Nat

VARIABLES
    md,         \* how far the native MD API of md_api has come
    td,         \* how far the native TD API of td_api has come
    raised,     \* the readiness events that are set
    closing,    \* _closing
    lock,       \* who holds _connect_lock
    pc,         \* the main and the reconnect thread
    awaiting,   \* the events a thread in connect has yet to see
    attempts,   \* reconnect_attempts
    scheduling, \* links whose on_disconnect has yet to reach _schedule_reconnect
    spent       \* disturbances used up; overlap: a link was lost while the session
                \* was not at rest (auxiliary)

vars == <<md, td, raised, closing, lock, pc, awaiting, attempts, scheduling, spent>>
links == <<md, td>>

Threads == {"main", "reconnect"}
Nobody == "nobody"
Channels == {"md", "td"}

Events == {"md", "td", "account", "sync"}
ReadinessEvents == IF EnableMd THEN Events ELSE Events \ {"md"}

\* "none" is an api that is None; "stalled" one whose answer was an error.
MdStages == {"none", "login", "up", "stalled", "down"}
TdStages == {"none", "new", "login", "account", "fund", "position", "order",
             "done", "stalled", "down"}

ConnectPcs == {"enter", "lock", "close", "create", "init", "wait"}
MainPcs == ConnectPcs \cup {"running", "close_native", "close_clear", "stopped"}
ReconnectPcs == ConnectPcs \cup {"dead", "loop", "delay", "exit"}

Budgets == [drop: 0..MaxDrops, fail: 0..MaxFailures, slow: 0..MaxSlow,
            overlap: BOOLEAN]

TypeOK ==
    /\ md \in MdStages
    /\ td \in TdStages
    /\ raised \subseteq Events
    /\ closing \in BOOLEAN
    /\ lock \in Threads \cup {Nobody}
    /\ pc \in [Threads -> MainPcs \cup ReconnectPcs]
    /\ pc["main"] \in MainPcs /\ pc["reconnect"] \in ReconnectPcs
    /\ awaiting \in [Threads -> SUBSET Events]
    /\ attempts \in Nat
    /\ RetryForever \/ attempts <= MaxAttempts
    /\ scheduling \subseteq Channels
    /\ spent \in Budgets

IsReady == ReadinessEvents \subseteq raised /\ ~closing

ReconnectAlive == pc["reconnect"] # "dead"

Spend(what, max) == /\ spent[what] < max
                    /\ spent' = [spent EXCEPT ![what] = @ + 1]

Goto(p, label) == pc' = [pc EXCEPT ![p] = label]

\* Where connect leaves its caller: main serves until it is told to stop, the
\* reconnect loop returns or tries again.
Returned(p, ok) ==
    CASE p = "main"                 -> "running"
      [] p = "reconnect" /\ ok      -> "exit"
      [] p = "reconnect" /\ ~ok     -> "loop"

-------------------------------------------------------------------------------
(* connect *)

ConnectEnter(p) ==
    /\ pc[p] = "enter"
    /\ Goto(p, IF closing THEN Returned(p, FALSE) ELSE "lock")
    /\ UNCHANGED <<links, raised, closing, lock, awaiting, attempts, scheduling, spent>>

\* Mutant: connect does without _connect_lock.
ConnectUnlocked(p) ==
    /\ pc[p] = "lock"
    /\ Goto(p, IF IsReady THEN Returned(p, TRUE) ELSE "close")
    /\ lock' = IF IsReady THEN lock ELSE p
    /\ UNCHANGED <<links, raised, closing, awaiting, attempts, scheduling, spent>>

\* Taking _connect_lock; a session found ready gives it back at once.
ConnectLock(p) ==
    /\ pc[p] = "lock"
    /\ lock = Nobody
    /\ Goto(p, IF IsReady THEN Returned(p, TRUE) ELSE "close")
    /\ lock' = IF IsReady THEN Nobody ELSE p
    /\ UNCHANGED <<links, raised, closing, awaiting, attempts, scheduling, spent>>

\* _close_native waits for the callbacks that are running.
CloseNative ==
    /\ scheduling = {}
    /\ md' = "none"
    /\ td' = "none"

ConnectClose(p) ==
    /\ pc[p] = "close"
    /\ CloseNative
    /\ Goto(p, "create")
    /\ UNCHANGED <<raised, closing, lock, awaiting, attempts, scheduling, spent>>

\* Mutant: the end of the last synchronisation is left standing.
ResetKeepsSync == raised' = raised \cap {"sync"}

\* _reset_connection_state
Reset == raised' = {}

\* The new objects; the MD login is sent.
ConnectCreate(p) ==
    /\ pc[p] = "create"
    /\ Reset
    /\ td' = "new"
    /\ md' = IF EnableMd THEN "login" ELSE "none"
    /\ Goto(p, "init")
    /\ UNCHANGED <<closing, lock, awaiting, attempts, scheduling, spent>>

\* An exception in connect: main gives up and closes, the loop catches it.
Raise(p) ==
    /\ Goto(p, IF p = "main" THEN "close_native" ELSE "loop")
    /\ closing' = (closing \/ p = "main")
    /\ lock' = Nobody

\* A native call of connect raises; what was created before it stays.
ConnectRaises(p) ==
    /\ pc[p] \in {"create", "init"}
    /\ Spend("fail", MaxFailures)
    /\ Raise(p)
    /\ \/ pc[p] = "create" /\ Reset /\ td' \in {td, "new"} /\ UNCHANGED md
       \/ pc[p] = "init" /\ UNCHANGED <<raised, links>>
    /\ UNCHANGED <<awaiting, attempts, scheduling>>

\* The TD login is sent, unless close has taken td_api away meanwhile.
ConnectInit(p) ==
    /\ pc[p] = "init"
    /\ IF td = "none"
       THEN Raise(p) /\ UNCHANGED <<td, awaiting>>
       ELSE /\ td' = IF td = "new" THEN "login" ELSE td
            /\ awaiting' = [awaiting EXCEPT ![p] = ReadinessEvents]
            /\ lock' = Nobody
            /\ Goto(p, "wait")
            /\ UNCHANGED closing
    /\ UNCHANGED <<md, raised, attempts, scheduling, spent>>

\* The events are waited for one after the other, in this order.
NextAwaited(p) ==
    CHOOSE e \in awaiting[p] :
        \/ e = "md"
        \/ "md" \notin awaiting[p] /\ e = "td"
        \/ awaiting[p] \cap {"md", "td"} = {} /\ e = "account"
        \/ awaiting[p] = {"sync"} /\ e = "sync"

\* An event seen once is not looked at again.
WaitPasses(p) ==
    /\ pc[p] = "wait"
    /\ NextAwaited(p) \in raised
    /\ awaiting' = [awaiting EXCEPT ![p] = @ \ {NextAwaited(p)}]
    /\ IF awaiting'[p] = {}
       THEN Goto(p, Returned(p, TRUE)) /\ attempts' = 0
       ELSE UNCHANGED <<pc, attempts>>
    /\ UNCHANGED <<links, raised, closing, lock, scheduling, spent>>

\* What the present link may still raise.
Expected(e) ==
    CASE e = "md"      -> md = "login"
      [] e = "td"      -> td \in {"new", "login"}
      [] e = "account" -> td \in {"new", "login", "account"}
      [] e = "sync"    -> td \in TdStages \ {"none", "done", "stalled", "down"}

\* Mutant: a wait whose answer cannot come any more never ends.
WaitWithoutDeadline(p) ==
    /\ pc[p] = "wait"
    /\ Spend("slow", MaxSlow)
    /\ Goto(p, Returned(p, FALSE))
    /\ awaiting' = [awaiting EXCEPT ![p] = {}]
    /\ UNCHANGED <<links, raised, closing, lock, attempts, scheduling>>

\* The deadline passes before the next event is seen.
WaitExpires(p) ==
    /\ pc[p] = "wait"
    /\ \/ NextAwaited(p) \notin raised /\ ~Expected(NextAwaited(p)) /\ UNCHANGED spent
       \/ Spend("slow", MaxSlow)
    /\ Goto(p, Returned(p, FALSE))
    /\ awaiting' = [awaiting EXCEPT ![p] = {}]
    /\ UNCHANGED <<links, raised, closing, lock, attempts, scheduling>>

-------------------------------------------------------------------------------
(* The reconnect thread *)

\* initial_delay * 2 ** (attempts - 1) overflows after DelayLimit attempts, and
\* the exception ends the thread.
Attempt ==
    /\ attempts' = attempts + 1
    /\ Goto("reconnect", IF attempts' > DelayLimit THEN "exit" ELSE "delay")

\* Mutant: one attempt too many.
LoopOnceMore ==
    /\ pc["reconnect"] = "loop"
    /\ IF RetryForever \/ attempts <= MaxAttempts
       THEN Attempt
       ELSE Goto("reconnect", "exit") /\ UNCHANGED attempts
    /\ UNCHANGED <<links, raised, closing, lock, awaiting, scheduling, spent>>

\* The attempts used up end the thread: the session stays as it is.
ReconnectLoop ==
    /\ pc["reconnect"] = "loop"
    /\ IF RetryForever \/ attempts < MaxAttempts
       THEN Attempt
       ELSE Goto("reconnect", "exit") /\ UNCHANGED attempts
    /\ UNCHANGED <<links, raised, closing, lock, awaiting, scheduling, spent>>

\* _closing.wait(delay)
ReconnectDelay ==
    /\ pc["reconnect"] = "delay"
    /\ Goto("reconnect", IF closing THEN "exit" ELSE "enter")
    /\ UNCHANGED <<links, raised, closing, lock, awaiting, attempts, scheduling, spent>>

\* Until here the thread is alive, whatever it has decided.
ReconnectEnds ==
    /\ pc["reconnect"] = "exit"
    /\ Goto("reconnect", "dead")
    /\ UNCHANGED <<links, raised, closing, lock, awaiting, attempts, scheduling, spent>>

-------------------------------------------------------------------------------
(* The callbacks of the two links *)

Answers == UNCHANGED <<closing, lock, pc, awaiting, scheduling>>

OnMdReady ==
    /\ md = "login"
    /\ md' = "up"
    /\ raised' = raised \cup {"md"}
    /\ Answers /\ UNCHANGED <<td, attempts, spent>>

\* Ready: the account is asked for.
OnTdReady ==
    /\ td = "login"
    /\ td' = "account"
    /\ raised' = raised \cup {"td"}
    /\ Answers /\ UNCHANGED <<md, attempts, spent>>

OnAccountResponse ==
    /\ td = "account"
    /\ td' = "fund"
    /\ raised' = raised \cup {"account"}
    /\ Answers /\ UNCHANGED <<md, attempts, spent>>

\* The last row of a query asks the next one, until the session is in sync.
OnFundLast ==
    /\ td = "fund"
    /\ td' = IF "sync" \in raised THEN "stalled" ELSE "position"
    /\ Answers /\ UNCHANGED <<md, raised, attempts, spent>>

OnPositionLast ==
    /\ td = "position"
    /\ td' = IF "sync" \in raised THEN "stalled" ELSE "order"
    /\ Answers /\ UNCHANGED <<md, raised, attempts, spent>>

OnOrderLast ==
    /\ td = "order"
    /\ td' = "done"
    /\ raised' = raised \cup {"sync"}
    /\ attempts' = 0
    /\ Answers /\ UNCHANGED <<md, spent>>

\* A refused login, a failed query or an empty account answer: reported, and
\* nothing asks the next question.
OnFailure ==
    /\ \/ md = "login" /\ md' = "stalled" /\ UNCHANGED td
       \/ td \in {"login", "account", "fund", "position", "order"}
          /\ td' = "stalled" /\ UNCHANGED md
    /\ Spend("fail", MaxFailures)
    /\ Answers /\ UNCHANGED <<raised, attempts>>

\* Reconnecting is switched off by reconnect_max_attempts = 0.
Reconnecting == RetryForever \/ MaxAttempts # 0

AtRest == IsReady /\ ~ReconnectAlive /\ pc["main"] = "running"

\* on_disconnect's first half.  A lost TD link leaves initial_sync_event set.
OnDisconnect(c) ==
    /\ spent.drop < MaxDrops
    /\ spent' = [spent EXCEPT !.drop = @ + 1, !.overlap = @ \/ ~AtRest]
    /\ \/ /\ c = "md" /\ md \notin {"none", "down"}
          /\ md' = "down"
          /\ raised' = raised \ {"md"}
          /\ UNCHANGED td
       \/ /\ c = "td" /\ td \notin {"none", "new", "down"}
          /\ td' = "down"
          /\ raised' = raised \ {"td", "account"}
          /\ UNCHANGED md
    /\ scheduling' = scheduling \cup {c}
    /\ UNCHANGED <<closing, lock, pc, awaiting, attempts>>

\* Mutant: a link lost while the session is not ready starts no thread.
ScheduleIfReady(c) ==
    /\ c \in scheduling
    /\ scheduling' = scheduling \ {c}
    /\ IF IsReady /\ Reconnecting /\ ~ReconnectAlive
       THEN Goto("reconnect", "loop") ELSE UNCHANGED pc
    /\ UNCHANGED <<links, raised, closing, lock, awaiting, attempts, spent>>

\* _schedule_reconnect: not while a reconnect thread is alive.
ScheduleReconnect(c) ==
    /\ c \in scheduling
    /\ scheduling' = scheduling \ {c}
    /\ IF ~closing /\ Reconnecting /\ ~ReconnectAlive
       THEN Goto("reconnect", "loop") ELSE UNCHANGED pc
    /\ UNCHANGED <<links, raised, closing, lock, awaiting, attempts, spent>>

-------------------------------------------------------------------------------
(* close, called once by main *)

Close ==
    /\ pc["main"] = "running"
    /\ closing' = TRUE
    /\ Goto("main", "close_native")
    /\ UNCHANGED <<links, raised, lock, awaiting, attempts, scheduling, spent>>

CloseApis ==
    /\ pc["main"] = "close_native"
    /\ CloseNative
    /\ Goto("main", "close_clear")
    /\ UNCHANGED <<raised, closing, lock, awaiting, attempts, scheduling, spent>>

\* The join of the reconnect thread has a timeout, so close never waits for it.
CloseClear ==
    /\ pc["main"] = "close_clear"
    /\ raised' = {}
    /\ Goto("main", "stopped")
    /\ UNCHANGED <<links, closing, lock, awaiting, attempts, scheduling, spent>>

-------------------------------------------------------------------------------
Init ==
    /\ md = "none"
    /\ td = "none"
    /\ raised = {}
    /\ closing = FALSE
    /\ lock = Nobody
    /\ pc = [p \in Threads |-> IF p = "main" THEN "enter" ELSE "dead"]
    /\ awaiting = [p \in Threads |-> {}]
    /\ attempts = 0
    /\ scheduling = {}
    /\ spent = [drop |-> 0, fail |-> 0, slow |-> 0, overlap |-> FALSE]

Connect(p) ==
    \/ ConnectEnter(p)
    \/ ConnectLock(p)
    \/ ConnectClose(p)
    \/ ConnectCreate(p)
    \/ ConnectInit(p)
    \/ WaitPasses(p)
    \/ WaitExpires(p)

MainStep == Connect("main") \/ CloseApis \/ CloseClear

ReconnectStep ==
    \/ ReconnectLoop
    \/ ReconnectDelay
    \/ Connect("reconnect")
    \/ ReconnectEnds

MdAnswers == OnMdReady

TdAnswers ==
    \/ OnTdReady
    \/ OnAccountResponse
    \/ OnFundLast
    \/ OnPositionLast
    \/ OnOrderLast

Disturbance ==
    \/ \E p \in Threads : ConnectRaises(p)
    \/ OnFailure
    \/ \E c \in Channels : OnDisconnect(c)

Next ==
    \/ MainStep
    \/ ReconnectStep
    \/ MdAnswers
    \/ TdAnswers
    \/ \E c \in Channels : ScheduleReconnect(c)
    \/ Disturbance
    \/ Close

Spec == Init /\ [][Next]_vars

\* Threads run, callbacks finish, and a link that is asked answers.
Fairness ==
    /\ WF_vars(MainStep)
    /\ WF_vars(ReconnectStep)
    /\ WF_vars(MdAnswers)
    /\ WF_vars(TdAnswers)
    /\ \A c \in Channels : WF_vars(ScheduleReconnect(c))

FairSpec == Spec /\ Fairness

-------------------------------------------------------------------------------
(* Properties *)

\* ping reports ready only on a link that has answered the login, the account
\* and all three snapshots itself: neither a late answer of the link before it
\* nor the sync event that a lost TD link leaves set counts.  The exception is
\* the moment between _close_native and _reset_connection_state (is_ready).
ReadyIsReal ==
    IsReady => \/ td = "done" /\ (EnableMd => md = "up")
               \/ \E p \in Threads : pc[p] = "create"

\* The thread that logs in works on the TD object it has just created itself,
\* unless the session is being closed: main and the reconnect thread never
\* destroy or reuse each other's half-built link (connect, _connect_lock).
ConnectOwnsApi ==
    \A p \in Threads : pc[p] = "init" /\ ~closing => td = "new" /\ lock = p

\* After close the reconnect thread comes to its end, wherever it was and
\* however many attempts it is allowed (_reconnect_loop, close).
CloseEndsReconnect == closing ~> ~ReconnectAlive

\* A session that lost a link becomes ready again: README.md:150.
RecoversFromDrop ==
    (\E c \in Channels : c \in scheduling) ~> (IsReady \/ closing)

\* And so it does, given more attempts than disturbances, unless a link is lost
\* while the session is not at rest: answers that are late or errors, and native
\* calls that raise, do not keep it from recovering at any moment of a connect.
RecoversUnlessOverlapped ==
    (\E c \in Channels : c \in scheduling) ~> (IsReady \/ closing \/ spent.overlap)

\* When the first connect has failed, the session becomes ready later or is
\* reconnecting: main.py:57-59 goes on serving because of it.
FirstConnectContinues ==
    (pc["main"] = "running" /\ ~IsReady) ~> (IsReady \/ ReconnectAlive \/ closing)
===============================================================================
