---------------------------- MODULE Subscriptions -----------------------------
(***************************************************************************)
(* Market data subscriptions: the registry that counts owners              *)
(* (src/src/registry.py), the two commands with their rollbacks            *)
(* (src/src/proxy.py), and active_symbols with the native calls            *)
(* (src/src/tap_session.py).  Commands run one at a time on the command    *)
(* thread; on_md_ready and on_disconnect run on the MD callback thread;    *)
(* a connecting thread replaces md_api.  SessionLink says when that        *)
(* happens; here it may happen at any moment, and any number of times.     *)
(*                                                                         *)
(* A client is the pair client_id, strategy_id.  A native call on a link   *)
(* that is up is answered, by data or by a refusal; on any other link it   *)
(* raises or has no effect.                                                *)
(***************************************************************************)
CONSTANTS
    Symbols,         \* symbols clients ask for
    Clients,         \* owners that send commands
    Startup,         \* the owner of TAP_SYMBOLS
    InitialSymbols   \* settings.initial_symbols

ASSUME SubscriptionsAssumption ==
    /\ Startup \notin Clients
    /\ InitialSymbols \subseteq Symbols

VARIABLES
    owners,   \* registry: the owners of each symbol
    active,   \* active_symbols
    mdReady,  \* md_ready_event
    api,      \* md_api and its link
    stream,   \* what TAP does for each symbol on the link of md_api
    cmd,      \* command thread
    callback, \* MD callback thread
    undone    \* symbols of an unsubscription rolled back (auxiliary)

vars == <<owners, active, mdReady, api, stream, cmd, callback, undone>>

Owners == Clients \cup {Startup}

CommandPcs == {"idle", "activate", "check", "enter", "subscribe", "undo_subscribe",
               "deactivate", "test", "bind", "unsubscribe", "undo_unsubscribe"}
CallbackPcs == {"idle", "copy", "subscribe"}

\* No command: the locals of the command thread at rest.  bound says that the
\* unsubscribeQuote it holds is a method of the object md_api still names.
Rest == [pc |-> "idle", owner |-> Startup, symbols |-> {}, delta |-> {},
         todo |-> {}, bound |-> FALSE]

TypeOK ==
    /\ owners \in [Symbols -> SUBSET Owners]
    /\ active \subseteq Symbols
    /\ mdReady \in BOOLEAN
    /\ api \in {"none", "login", "up", "down"}
    /\ stream \in [Symbols -> {"off", "on", "refused"}]
    /\ cmd \in [pc: CommandPcs, owner: Owners, symbols: SUBSET Symbols,
                delta: SUBSET Symbols, todo: SUBSET Symbols, bound: BOOLEAN]
    /\ cmd.todo \subseteq cmd.delta /\ cmd.delta \subseteq cmd.symbols
    /\ cmd.pc = "idle" => cmd = Rest
    /\ callback \in [pc: CallbackPcs, todo: SUBSET Symbols]
    /\ undone \subseteq Symbols

Init ==
    /\ owners = [s \in Symbols |-> IF s \in InitialSymbols THEN {Startup} ELSE {}]
    /\ active = InitialSymbols
    /\ mdReady = FALSE
    /\ api = "none"
    /\ stream = [s \in Symbols |-> "off"]
    /\ cmd = Rest
    /\ callback = [pc |-> "idle", todo |-> {}]
    /\ undone = {}

-------------------------------------------------------------------------------
(* SubscriptionRegistry; its lock makes each call one step *)

Added(c, S)   == [s \in Symbols |-> IF s \in S THEN owners[s] \cup {c} ELSE owners[s]]
Removed(c, S) == [s \in Symbols |-> IF s \in S THEN owners[s] \ {c} ELSE owners[s]]

NewlyActive(S) == {s \in S : owners[s] = {}}

\* Mutant: every symbol given up by one owner counts as inactive.
HeldByAny(c, S) == {s \in S : c \in owners[s]}

NewlyInactive(c, S) == {s \in S : owners[s] = {c}}

-------------------------------------------------------------------------------
(* The native side, as the calls in tap_session.py see it *)

Subscribed(s) == IF api = "up"
                 THEN stream' \in {[stream EXCEPT ![s] = a] : a \in {"on", "refused"}}
                 ELSE stream' = stream

Unsubscribed(s) == stream' = IF api = "up" /\ cmd.bound
                             THEN [stream EXCEPT ![s] = "off"] ELSE stream

-------------------------------------------------------------------------------
(* Command thread: subscribe_market_data *)

Done == cmd' = Rest

Goto(label, todo) == cmd' = [cmd EXCEPT !.pc = label, !.todo = todo]

Subscribe(c, S) ==
    /\ cmd.pc = "idle"
    /\ owners' = Added(c, S)
    /\ cmd' = [Rest EXCEPT !.pc = "activate", !.owner = c, !.symbols = S,
                           !.delta = NewlyActive(S), !.todo = NewlyActive(S)]
    /\ UNCHANGED <<active, mdReady, api, stream, callback, undone>>

\* Mutant: a symbol is remembered only while it cannot be subscribed at once.
ActivateUnlessReady ==
    /\ cmd.pc = "activate"
    /\ \/ \E s \in cmd.todo :
            /\ active' = IF mdReady THEN active ELSE active \cup {s}
            /\ undone' = undone \ {s}
            /\ Goto("activate", cmd.todo \ {s})
       \/ /\ cmd.todo = {}
          /\ Goto("check", {})
          /\ UNCHANGED <<active, undone>>
    /\ UNCHANGED <<owners, mdReady, api, stream, callback>>

\* active_symbols.add, symbol by symbol.
Activate ==
    /\ cmd.pc = "activate"
    /\ \/ \E s \in cmd.todo :
            /\ active' = active \cup {s}
            /\ undone' = undone \ {s}
            /\ Goto("activate", cmd.todo \ {s})
       \/ /\ cmd.todo = {}
          /\ Goto("check", {})
          /\ UNCHANGED <<active, undone>>
    /\ UNCHANGED <<owners, mdReady, api, stream, callback>>

\* Without MD the symbols wait for on_md_ready.
SubscribeCheck ==
    /\ cmd.pc = "check"
    /\ IF mdReady THEN Goto("enter", {}) ELSE Done
    /\ UNCHANGED <<owners, active, mdReady, api, stream, callback, undone>>

\* Mutant: on a ready link every active symbol is asked for again.
EnterWithAll ==
    /\ cmd.pc = "enter"
    /\ IF api = "none" THEN Done ELSE Goto("subscribe", active)
    /\ UNCHANGED <<owners, active, mdReady, api, stream, callback, undone>>

\* _subscribe_symbols
SubscribeEnter ==
    /\ cmd.pc = "enter"
    /\ IF cmd.delta = {} \/ api = "none" THEN Done ELSE Goto("subscribe", cmd.delta)
    /\ UNCHANGED <<owners, active, mdReady, api, stream, callback, undone>>

\* subscribeQuote; md_api is looked up again for each symbol.
SubscribeCall ==
    /\ cmd.pc = "subscribe"
    /\ \E s \in cmd.todo :
         /\ api # "none"
         /\ Subscribed(s)
         /\ IF cmd.todo = {s} THEN Done ELSE Goto("subscribe", cmd.todo \ {s})
    /\ UNCHANGED <<owners, active, mdReady, api, callback, undone>>

SubscribeRaises ==
    /\ cmd.pc = "subscribe"
    /\ api # "up"
    /\ Goto("undo_subscribe", {})
    /\ UNCHANGED <<owners, active, mdReady, api, stream, callback, undone>>

-------------------------------------------------------------------------------
(* Command thread: unsubscribe_market_data *)

Unsubscribe(c, S) ==
    /\ cmd.pc = "idle"
    /\ owners' = Removed(c, S)
    /\ cmd' = [Rest EXCEPT !.pc = "deactivate", !.owner = c, !.symbols = S,
                           !.delta = NewlyInactive(c, S), !.todo = NewlyInactive(c, S)]
    /\ UNCHANGED <<active, mdReady, api, stream, callback, undone>>

\* active_symbols.discard, symbol by symbol.
Deactivate ==
    /\ cmd.pc = "deactivate"
    /\ \/ \E s \in cmd.todo :
            /\ active' = active \ {s}
            /\ Goto("deactivate", cmd.todo \ {s})
       \/ /\ cmd.todo = {}
          /\ Goto("test", {})
          /\ UNCHANGED active
    /\ UNCHANGED <<owners, mdReady, api, stream, callback, undone>>

UnsubscribeTest ==
    /\ cmd.pc = "test"
    /\ IF api = "none" \/ ~mdReady THEN Done ELSE Goto("bind", {})
    /\ UNCHANGED <<owners, active, mdReady, api, stream, callback, undone>>

\* The method is looked up once; md_api that is None by now has none.
UnsubscribeBind ==
    /\ cmd.pc = "bind"
    /\ IF api = "none" \/ cmd.delta = {}
       THEN Done
       ELSE cmd' = [cmd EXCEPT !.pc = "unsubscribe", !.todo = cmd.delta, !.bound = TRUE]
    /\ UNCHANGED <<owners, active, mdReady, api, stream, callback, undone>>

UnsubscribeCall ==
    /\ cmd.pc = "unsubscribe"
    /\ \E s \in cmd.todo :
         /\ Unsubscribed(s)
         /\ IF cmd.todo = {s} THEN Done ELSE Goto("unsubscribe", cmd.todo \ {s})
    /\ UNCHANGED <<owners, active, mdReady, api, callback, undone>>

UnsubscribeRaises ==
    /\ cmd.pc = "unsubscribe"
    /\ api # "up" \/ ~cmd.bound
    /\ Goto("undo_unsubscribe", {})
    /\ UNCHANGED <<owners, active, mdReady, api, stream, callback, undone>>

-------------------------------------------------------------------------------
(* handle_command rolls the registry back, for every symbol of the command *)
(* and not only for those it changed; active_symbols stays as it is.       *)

UndoSubscribe ==
    /\ cmd.pc = "undo_subscribe"
    /\ owners' = Removed(cmd.owner, cmd.symbols)
    /\ Done
    /\ UNCHANGED <<active, mdReady, api, stream, callback, undone>>

UndoUnsubscribe ==
    /\ cmd.pc = "undo_unsubscribe"
    /\ owners' = Added(cmd.owner, cmd.symbols)
    /\ undone' = undone \cup (cmd.symbols \ active)
    /\ Done
    /\ UNCHANGED <<active, mdReady, api, stream, callback>>

-------------------------------------------------------------------------------
(* MD callback thread *)

OnMdReady ==
    /\ callback.pc = "idle"
    /\ api = "login"
    /\ api' = "up"
    /\ mdReady' = TRUE
    /\ callback' = [pc |-> "copy", todo |-> {}]
    /\ UNCHANGED <<owners, active, stream, cmd, undone>>

\* sorted(active_symbols) is a copy; what changes later is not in it.
OnMdReadyCopy ==
    /\ callback.pc = "copy"
    /\ callback' = [pc |-> "subscribe", todo |-> active]
    /\ UNCHANGED <<owners, active, mdReady, api, stream, cmd, undone>>

OnMdReadyCall ==
    /\ callback.pc = "subscribe"
    /\ \/ \E s \in callback.todo :
            /\ Subscribed(s)
            /\ callback' = [callback EXCEPT !.todo = @ \ {s}]
       \/ /\ callback.todo = {}
          /\ callback' = [callback EXCEPT !.pc = "idle"]
          /\ UNCHANGED stream
    /\ UNCHANGED <<owners, active, mdReady, api, cmd, undone>>

\* run_callback swallows what a native call raises; the rest is not asked for.
OnMdReadyRaises ==
    /\ callback.pc = "subscribe"
    /\ api = "down"
    /\ callback' = [pc |-> "idle", todo |-> {}]
    /\ UNCHANGED <<owners, active, mdReady, api, stream, cmd, undone>>

OnDisconnect ==
    /\ callback.pc = "idle"
    /\ api = "down" /\ mdReady
    /\ mdReady' = FALSE
    /\ UNCHANGED <<owners, active, api, stream, cmd, callback, undone>>

-------------------------------------------------------------------------------
(* The link, and the thread that connects *)

LinkLost ==
    /\ api \in {"login", "up"}
    /\ api' = "down"
    /\ stream' = [s \in Symbols |-> "off"]
    /\ UNCHANGED <<owners, active, mdReady, cmd, callback, undone>>

\* exit() of the old object waits for its callback.
CloseNative ==
    /\ api # "none"
    /\ callback.pc = "idle"
    /\ api' = "none"
    /\ stream' = [s \in Symbols |-> "off"]
    /\ cmd' = [cmd EXCEPT !.bound = FALSE]
    /\ UNCHANGED <<owners, active, mdReady, callback, undone>>

ConnectCreate ==
    /\ api = "none"
    /\ mdReady' = FALSE
    /\ api' = "login"
    /\ UNCHANGED <<owners, active, stream, cmd, callback, undone>>

-------------------------------------------------------------------------------
CommandStep ==
    \/ Activate \/ SubscribeCheck \/ SubscribeEnter
    \/ SubscribeCall \/ SubscribeRaises \/ UndoSubscribe
    \/ Deactivate \/ UnsubscribeTest \/ UnsubscribeBind
    \/ UnsubscribeCall \/ UnsubscribeRaises \/ UndoUnsubscribe

CallbackStep ==
    \/ OnMdReady \/ OnMdReadyCopy \/ OnMdReadyCall \/ OnMdReadyRaises \/ OnDisconnect

Next ==
    \/ \E c \in Clients, S \in SUBSET Symbols : Subscribe(c, S) \/ Unsubscribe(c, S)
    \/ CommandStep
    \/ CallbackStep
    \/ LinkLost \/ CloseNative \/ ConnectCreate

Spec == Init /\ [][Next]_vars

-------------------------------------------------------------------------------
(* Properties *)

AtRest == cmd.pc = "idle" /\ callback.pc = "idle"

\* On a link that is up and reported ready, once no command and no callback is
\* under way, every symbol with an owner has been asked for on that very link,
\* whichever of the two threads had to do it.  The symbols of an unsubscription
\* that was rolled back are the exception: the rollback gives them an owner
\* again but does not put them back into active_symbols (proxy.py 197-203).
OwnedStreamed ==
    mdReady /\ api = "up" /\ AtRest =>
        \A s \in Symbols : owners[s] # {} => stream[s] # "off" \/ s \in undone

\* While a link lasts, a symbol it streams is given up for no owner's sake but
\* the last one's: nobody loses data through another owner's command.
LastOwnerOnly ==
    [][\A s \in Symbols :
         stream[s] = "on" /\ stream'[s] = "off" /\ api' = "up" => owners[s] = {}]_vars

=============================================================================
