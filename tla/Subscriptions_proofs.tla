------------------------- MODULE Subscriptions_proofs -------------------------
(***************************************************************************)
(* Theorems of Subscriptions for every set of symbols and clients: its     *)
(* types, that every symbol with an owner is asked for on a ready link,    *)
(* and that no owner loses a symbol through another one's command.         *)
(***************************************************************************)
EXTENDS Subscriptions, TLAPS

-------------------------------------------------------------------------------
(* The inductive invariant *)

Unsubscribing == {"deactivate", "test", "bind", "unsubscribe", "undo_unsubscribe"}

\* What an unsubscription works on has lost its last owner, and leaves
\* active_symbols before it is unsubscribed.
GivenUpInv ==
    /\ cmd.pc \in Unsubscribing => \A s \in cmd.delta : owners[s] = {}
    /\ cmd.pc = "deactivate" => \A s \in cmd.delta \ cmd.todo : s \notin active
    /\ cmd.pc \in {"test", "bind", "unsubscribe"} => \A s \in cmd.delta : s \notin active

\* A symbol with an owner is active, or about to be, or left so by a rollback.
OwnedInv ==
    \A s \in Symbols : owners[s] # {} =>
        s \in active \cup undone \/ (cmd.pc = "activate" /\ s \in cmd.todo)

\* The thread that has yet to ask for a symbol.
ByCommand(s) ==
    \/ cmd.pc \in {"activate", "check", "enter"} /\ s \in cmd.delta
    \/ cmd.pc = "subscribe" /\ s \in cmd.todo
ByCallback(s) ==
    \/ callback.pc = "copy"
    \/ callback.pc = "subscribe" /\ s \in callback.todo

\* On a ready link an active symbol has been asked for, or one of the threads
\* will ask for it, whether or not it has an owner.
AskedInv ==
    mdReady /\ api = "up" =>
        \A s \in active : stream[s] # "off" \/ ByCommand(s) \/ ByCallback(s)

Inv == TypeOK /\ GivenUpInv /\ OwnedInv /\ AskedInv

\* The threads' parts of TypeOK.
CmdTyped ==
    /\ cmd \in [pc: CommandPcs, owner: Owners, symbols: SUBSET Symbols,
                delta: SUBSET Symbols, todo: SUBSET Symbols, bound: BOOLEAN]
    /\ cmd.todo \subseteq cmd.delta /\ cmd.delta \subseteq cmd.symbols
    /\ cmd.pc = "idle" => cmd = Rest

CallbackTyped == callback \in [pc: CallbackPcs, todo: SUBSET Symbols]

\* At rest no thread has anything left to do.
LEMMA InvOwnedStreamed == Inv => OwnedStreamed
BY DEF Inv, TypeOK, OwnedInv, AskedInv, ByCommand, ByCallback, OwnedStreamed, AtRest

\* The process starts without a link and without a command.
LEMMA InvInit == Init => Inv
<1>. SUFFICES ASSUME Init PROVE Inv
  OBVIOUS
<1>1. CmdTyped
  BY DEF Init, CmdTyped, Rest, CommandPcs, Owners
<1>2. CallbackTyped /\ owners \in [Symbols -> SUBSET Owners]
  BY DEF Init, CallbackTyped, CallbackPcs, Owners
<1>3. TypeOK
  BY <1>1, <1>2, SubscriptionsAssumption DEF Init, TypeOK, CmdTyped, CallbackTyped
<1>4. GivenUpInv /\ OwnedInv /\ AskedInv
  BY DEF Init, Rest, GivenUpInv, OwnedInv, AskedInv, Unsubscribing
<1>. QED
  BY <1>3, <1>4 DEF Inv

-------------------------------------------------------------------------------
(* Types *)

\* The registry stays a registry.
LEMMA RegistryType ==
    ASSUME TypeOK, NEW c \in Owners, NEW S \in SUBSET Symbols
    PROVE  /\ Added(c, S) \in [Symbols -> SUBSET Owners]
           /\ Removed(c, S) \in [Symbols -> SUBSET Owners]
           /\ NewlyActive(S) \subseteq S /\ NewlyInactive(c, S) \subseteq S
BY DEF TypeOK, Added, Removed, NewlyActive, NewlyInactive

\* A native call leaves a state for each symbol.
LEMMA StreamType ==
    ASSUME TypeOK, NEW s \in Symbols, Subscribed(s) \/ Unsubscribed(s)
    PROVE  stream' \in [Symbols -> {"off", "on", "refused"}]
BY DEF TypeOK, Subscribed, Unsubscribed

\* The command thread comes to a label, with the symbols T left.
At(pc, T) == CmdTyped' /\ cmd'.pc = pc /\ cmd'.todo = T /\ cmd'.delta = cmd.delta

\* The command thread at a label, with some of its symbols left.
LEMMA GotoType ==
    ASSUME CmdTyped, NEW pc \in CommandPcs \ {"idle"}, NEW T \in SUBSET cmd.delta, Goto(pc, T)
    PROVE  At(pc, T)
BY DEF CmdTyped, Goto, At

\* The same for a thread that goes on with a part of what it had left.
LEMMA GotoRest ==
    ASSUME CmdTyped, NEW s \in cmd.todo, NEW pc \in CommandPcs \ {"idle"}, Goto(pc, cmd.todo \ {s})
    PROVE  At(pc, cmd.todo \ {s})
BY GotoType DEF CmdTyped

\* The command thread at rest.
LEMMA DoneType == ASSUME Done PROVE CmdTyped' /\ cmd'.pc = "idle"
BY DEF Done, CmdTyped, Rest, CommandPcs, Owners

-------------------------------------------------------------------------------
(* Every step preserves the invariant *)

\* A new command starts on the symbols nobody owned.
LEMMA SubscribeInv ==
    ASSUME Inv, NEW c \in Clients, NEW S \in SUBSET Symbols, Subscribe(c, S)
    PROVE  Inv'
<1>1. CmdTyped'
  BY DEF Subscribe, CmdTyped, CommandPcs, Rest, Owners, NewlyActive
<1>2. TypeOK'
  BY <1>1, RegistryType DEF Inv, TypeOK, Subscribe, CmdTyped, Owners
<1>3. GivenUpInv'
  BY DEF Inv, TypeOK, GivenUpInv, Unsubscribing, Subscribe, Rest, Added, NewlyActive
<1>4. OwnedInv'
  BY DEF Inv, TypeOK, OwnedInv, Subscribe, Rest, Added, NewlyActive
<1>5. AskedInv'
  BY DEF Inv, TypeOK, AskedInv, ByCommand, ByCallback, Subscribe, Rest
<1>. QED
  BY <1>2, <1>3, <1>4, <1>5 DEF Inv

\* A new command starts on the symbols that lost their last owner.
LEMMA UnsubscribeInv ==
    ASSUME Inv, NEW c \in Clients, NEW S \in SUBSET Symbols, Unsubscribe(c, S)
    PROVE  Inv'
<1>1. CmdTyped'
  BY DEF Unsubscribe, CmdTyped, CommandPcs, Rest, Owners, NewlyInactive
<1>2. TypeOK'
  BY <1>1, RegistryType DEF Inv, TypeOK, Unsubscribe, CmdTyped, Owners
<1>3. GivenUpInv'
  BY DEF Inv, TypeOK, GivenUpInv, Unsubscribing, Unsubscribe, Rest, Removed, NewlyInactive
<1>4. OwnedInv'
  BY DEF Inv, TypeOK, OwnedInv, Unsubscribe, Rest, Removed, NewlyInactive
<1>5. AskedInv'
  BY DEF Inv, TypeOK, AskedInv, ByCommand, ByCallback, Unsubscribe, Rest
<1>. QED
  BY <1>2, <1>3, <1>4, <1>5 DEF Inv

\* A symbol that becomes active is still to be asked for by the command.
LEMMA ActivateInv == ASSUME Inv, Activate PROVE Inv'
<1>1. CmdTyped
  BY DEF Inv, TypeOK, CmdTyped
<1>2. \/ \E s \in cmd.todo : /\ active' = active \cup {s} /\ undone' = undone \ {s}
                             /\ At("activate", cmd.todo \ {s})
      \/ cmd.todo = {} /\ At("check", {}) /\ UNCHANGED <<active, undone>>
  BY <1>1, GotoType, GotoRest, DoneType DEF Activate, CmdTyped, CommandPcs
<1>3. TypeOK'
  BY <1>2 DEF Inv, TypeOK, Activate, CmdTyped, At
<1>4. GivenUpInv'
  BY <1>1, <1>2 DEF Inv, GivenUpInv, Unsubscribing, Activate, At, CmdTyped
<1>5. OwnedInv'
  BY <1>1, <1>2 DEF Inv, OwnedInv, Activate, At, CmdTyped
<1>6. AskedInv'
  BY <1>1, <1>2 DEF Inv, AskedInv, ByCommand, ByCallback, Activate, At, CmdTyped
<1>. QED
  BY <1>3, <1>4, <1>5, <1>6 DEF Inv

\* Only symbols without owner become inactive.
LEMMA DeactivateInv == ASSUME Inv, Deactivate PROVE Inv'
<1>1. CmdTyped
  BY DEF Inv, TypeOK, CmdTyped
<1>2. \/ \E s \in cmd.todo : active' = active \ {s} /\ At("deactivate", cmd.todo \ {s})
      \/ cmd.todo = {} /\ At("test", {}) /\ UNCHANGED active
  BY <1>1, GotoType, GotoRest, DoneType DEF Deactivate, CmdTyped, CommandPcs
<1>3. TypeOK'
  BY <1>2 DEF Inv, TypeOK, Deactivate, CmdTyped, At
<1>4. GivenUpInv'
  BY <1>1, <1>2 DEF Inv, GivenUpInv, Unsubscribing, Deactivate, At, CmdTyped
<1>5. OwnedInv'
  BY <1>1, <1>2 DEF Inv, OwnedInv, GivenUpInv, Unsubscribing, Deactivate, At, CmdTyped
<1>6. AskedInv'
  BY <1>2 DEF Inv, AskedInv, ByCommand, ByCallback, Deactivate, At, CmdTyped
<1>. QED
  BY <1>3, <1>4, <1>5, <1>6 DEF Inv

\* On a link that is not ready nothing is owed; on_md_ready will ask.
LEMMA SubscribeCheckInv == ASSUME Inv, SubscribeCheck PROVE Inv'
<1>1. CmdTyped
  BY DEF Inv, TypeOK, CmdTyped
<1>2. IF mdReady THEN At("enter", {}) ELSE CmdTyped' /\ cmd'.pc = "idle"
  BY <1>1, GotoType, GotoRest, DoneType DEF SubscribeCheck, CmdTyped, CommandPcs
<1>3. TypeOK'
  BY <1>2 DEF Inv, TypeOK, SubscribeCheck, CmdTyped, At
<1>4. GivenUpInv'
  BY <1>1, <1>2 DEF Inv, GivenUpInv, Unsubscribing, SubscribeCheck, At, CmdTyped
<1>5. OwnedInv'
  BY <1>1, <1>2 DEF Inv, OwnedInv, SubscribeCheck, At, CmdTyped
<1>6. AskedInv'
  BY <1>2 DEF Inv, AskedInv, ByCommand, ByCallback, SubscribeCheck, At, CmdTyped
<1>. QED
  BY <1>3, <1>4, <1>5, <1>6 DEF Inv

\* The command goes on to ask for all it made active, or there is no link.
LEMMA SubscribeEnterInv == ASSUME Inv, SubscribeEnter PROVE Inv'
<1>1. CmdTyped
  BY DEF Inv, TypeOK, CmdTyped
<1>2. IF cmd.delta = {} \/ api = "none"
      THEN CmdTyped' /\ cmd'.pc = "idle" ELSE At("subscribe", cmd.delta)
  BY <1>1, GotoType, GotoRest, DoneType DEF SubscribeEnter, CmdTyped, CommandPcs
<1>3. TypeOK'
  BY <1>2 DEF Inv, TypeOK, SubscribeEnter, CmdTyped, At
<1>4. GivenUpInv'
  BY <1>1, <1>2 DEF Inv, GivenUpInv, Unsubscribing, SubscribeEnter, At, CmdTyped
<1>5. OwnedInv'
  BY <1>1, <1>2 DEF Inv, OwnedInv, SubscribeEnter, At, CmdTyped
<1>6. AskedInv'
  BY <1>2 DEF Inv, AskedInv, ByCommand, ByCallback, SubscribeEnter, At, CmdTyped
<1>. QED
  BY <1>3, <1>4, <1>5, <1>6 DEF Inv

\* A call on a link that is up is answered for its symbol, and touches no other.
LEMMA SubscribeCallInv == ASSUME Inv, SubscribeCall PROVE Inv'
<1>1. CmdTyped
  BY DEF Inv, TypeOK, CmdTyped
<1>2. \E s \in cmd.todo :
         /\ Subscribed(s)
         /\ \/ cmd.todo = {s} /\ CmdTyped' /\ cmd'.pc = "idle"
            \/ At("subscribe", cmd.todo \ {s})
  BY <1>1, GotoType, GotoRest, DoneType DEF SubscribeCall, CmdTyped, CommandPcs
<1>3. TypeOK'
  BY <1>2, StreamType DEF Inv, TypeOK, SubscribeCall, CmdTyped, At
<1>4. GivenUpInv'
  BY <1>1, <1>2 DEF Inv, GivenUpInv, Unsubscribing, SubscribeCall, At, CmdTyped
<1>5. OwnedInv'
  BY <1>1, <1>2 DEF Inv, OwnedInv, SubscribeCall, At, CmdTyped
<1>6. AskedInv'
  <2>1. SUFFICES ASSUME mdReady, api = "up", NEW a \in active
                 PROVE  stream'[a] # "off" \/ ByCommand(a)' \/ ByCallback(a)'
    BY DEF AskedInv, SubscribeCall
  <2>2. PICK s \in cmd.todo :
          /\ stream' \in {[stream EXCEPT ![s] = x] : x \in {"on", "refused"}}
          /\ cmd.todo = {s} \/ At("subscribe", cmd.todo \ {s})
    BY <1>2, <2>1 DEF Subscribed
  <2>3. CASE a = s
    BY <2>2, <2>3, <1>3 DEF Inv, TypeOK
  <2>4. CASE a # s
    <3>1. stream'[a] = stream[a]
      BY <2>1, <2>2, <2>4 DEF Inv, TypeOK, CmdTyped
    <3>2. ByCallback(a) => ByCallback(a)'
      BY DEF ByCallback, SubscribeCall
    <3>3. ByCommand(a) => ByCommand(a)'
      BY <2>2, <2>4 DEF ByCommand, At, SubscribeCall
    <3>. QED
      BY <2>1, <3>1, <3>2, <3>3 DEF Inv, AskedInv
  <2>. QED
    BY <2>3, <2>4
<1>. QED
  BY <1>3, <1>4, <1>5, <1>6 DEF Inv

\* A call only raises on a link that is not up, which owes nothing.
LEMMA SubscribeRaisesInv == ASSUME Inv, SubscribeRaises PROVE Inv'
<1>1. CmdTyped
  BY DEF Inv, TypeOK, CmdTyped
<1>2. At("undo_subscribe", {})
  BY <1>1, GotoType, GotoRest, DoneType DEF SubscribeRaises, CmdTyped, CommandPcs
<1>3. TypeOK'
  BY <1>2 DEF Inv, TypeOK, SubscribeRaises, CmdTyped, At
<1>4. GivenUpInv'
  BY <1>1, <1>2 DEF Inv, GivenUpInv, Unsubscribing, SubscribeRaises, At, CmdTyped
<1>5. OwnedInv'
  BY <1>1, <1>2 DEF Inv, OwnedInv, SubscribeRaises, At, CmdTyped
<1>6. AskedInv'
  BY <1>2 DEF Inv, AskedInv, ByCommand, ByCallback, SubscribeRaises, At, CmdTyped
<1>. QED
  BY <1>3, <1>4, <1>5, <1>6 DEF Inv

\* Nothing is left to deactivate.
LEMMA UnsubscribeTestInv == ASSUME Inv, UnsubscribeTest PROVE Inv'
<1>1. CmdTyped
  BY DEF Inv, TypeOK, CmdTyped
<1>2. At("bind", {}) \/ (CmdTyped' /\ cmd'.pc = "idle")
  BY <1>1, GotoType, GotoRest, DoneType DEF UnsubscribeTest, CmdTyped, CommandPcs
<1>3. TypeOK'
  BY <1>2 DEF Inv, TypeOK, UnsubscribeTest, CmdTyped, At
<1>4. GivenUpInv'
  BY <1>1, <1>2 DEF Inv, GivenUpInv, Unsubscribing, UnsubscribeTest, At, CmdTyped
<1>5. OwnedInv'
  BY <1>1, <1>2 DEF Inv, OwnedInv, UnsubscribeTest, At, CmdTyped
<1>6. AskedInv'
  BY <1>2 DEF Inv, AskedInv, ByCommand, ByCallback, UnsubscribeTest, At, CmdTyped
<1>. QED
  BY <1>3, <1>4, <1>5, <1>6 DEF Inv

\* All that was deactivated is to be unsubscribed.
LEMMA UnsubscribeBindInv == ASSUME Inv, UnsubscribeBind PROVE Inv'
<1>1. CmdTyped
  BY DEF Inv, TypeOK, CmdTyped
<1>2. \/ CmdTyped' /\ cmd'.pc = "idle"
      \/ At("unsubscribe", cmd.delta)
  BY <1>1, DoneType DEF UnsubscribeBind, CmdTyped, CommandPcs, At
<1>3. TypeOK'
  BY <1>2 DEF Inv, TypeOK, UnsubscribeBind, CmdTyped, At
<1>4. GivenUpInv'
  BY <1>1, <1>2 DEF Inv, GivenUpInv, Unsubscribing, UnsubscribeBind, At, CmdTyped
<1>5. OwnedInv'
  BY <1>1, <1>2 DEF Inv, OwnedInv, UnsubscribeBind, At, CmdTyped
<1>6. AskedInv'
  BY <1>2 DEF Inv, AskedInv, ByCommand, ByCallback, UnsubscribeBind, At, CmdTyped
<1>. QED
  BY <1>3, <1>4, <1>5, <1>6 DEF Inv

\* The symbol given up is not active, so nothing is owed for it.
LEMMA UnsubscribeCallInv == ASSUME Inv, UnsubscribeCall PROVE Inv'
<1>1. CmdTyped
  BY DEF Inv, TypeOK, CmdTyped
<1>2. \E s \in cmd.todo :
         /\ Unsubscribed(s)
         /\ \/ CmdTyped' /\ cmd'.pc = "idle"
            \/ At("unsubscribe", cmd.todo \ {s})
  BY <1>1, GotoType, GotoRest, DoneType DEF UnsubscribeCall, CmdTyped, CommandPcs
<1>3. TypeOK'
  BY <1>2, StreamType DEF Inv, TypeOK, UnsubscribeCall, CmdTyped, At
<1>4. GivenUpInv'
  BY <1>1, <1>2 DEF Inv, GivenUpInv, Unsubscribing, UnsubscribeCall, At, CmdTyped
<1>5. OwnedInv'
  BY <1>1, <1>2 DEF Inv, OwnedInv, UnsubscribeCall, At, CmdTyped
<1>6. AskedInv'
  BY <1>2 DEF Inv, TypeOK, AskedInv, GivenUpInv, Unsubscribed, ByCommand, ByCallback,
              UnsubscribeCall, At, CmdTyped
<1>. QED
  BY <1>3, <1>4, <1>5, <1>6 DEF Inv

\* A rollback follows.
LEMMA UnsubscribeRaisesInv == ASSUME Inv, UnsubscribeRaises PROVE Inv'
<1>1. CmdTyped
  BY DEF Inv, TypeOK, CmdTyped
<1>2. At("undo_unsubscribe", {})
  BY <1>1, GotoType, GotoRest, DoneType DEF UnsubscribeRaises, CmdTyped, CommandPcs
<1>3. TypeOK'
  BY <1>2 DEF Inv, TypeOK, UnsubscribeRaises, CmdTyped, At
<1>4. GivenUpInv'
  BY <1>1, <1>2 DEF Inv, GivenUpInv, Unsubscribing, UnsubscribeRaises, At, CmdTyped
<1>5. OwnedInv'
  BY <1>1, <1>2 DEF Inv, OwnedInv, UnsubscribeRaises, At, CmdTyped
<1>6. AskedInv'
  BY <1>2 DEF Inv, AskedInv, ByCommand, ByCallback, UnsubscribeRaises, At, CmdTyped
<1>. QED
  BY <1>3, <1>4, <1>5, <1>6 DEF Inv

\* The rollback takes owners away.
LEMMA UndoSubscribeInv == ASSUME Inv, UndoSubscribe PROVE Inv'
<1>1. CmdTyped
  BY DEF Inv, TypeOK, CmdTyped
<1>2. CmdTyped' /\ cmd'.pc = "idle"
  BY <1>1, GotoType, GotoRest, DoneType DEF UndoSubscribe, CmdTyped, CommandPcs
<1>3. TypeOK'
  BY <1>2, RegistryType DEF Inv, TypeOK, UndoSubscribe, CmdTyped, At
<1>4. GivenUpInv'
  BY <1>1, <1>2 DEF Inv, GivenUpInv, Unsubscribing, UndoSubscribe, At, CmdTyped
<1>5. OwnedInv'
  BY <1>1, <1>2 DEF Inv, TypeOK, OwnedInv, UndoSubscribe, Removed, CmdTyped
<1>6. AskedInv'
  BY <1>2 DEF Inv, AskedInv, ByCommand, ByCallback, UndoSubscribe, At, CmdTyped
<1>. QED
  BY <1>3, <1>4, <1>5, <1>6 DEF Inv

\* The rollback gives owners back; what is not active is noted as undone.
LEMMA UndoUnsubscribeInv == ASSUME Inv, UndoUnsubscribe PROVE Inv'
<1>1. CmdTyped
  BY DEF Inv, TypeOK, CmdTyped
<1>2. CmdTyped' /\ cmd'.pc = "idle"
  BY <1>1, GotoType, GotoRest, DoneType DEF UndoUnsubscribe, CmdTyped, CommandPcs
<1>3. TypeOK'
  BY <1>2, RegistryType DEF Inv, TypeOK, UndoUnsubscribe, CmdTyped, At
<1>4. GivenUpInv'
  BY <1>1, <1>2 DEF Inv, GivenUpInv, Unsubscribing, UndoUnsubscribe, At, CmdTyped
<1>5. OwnedInv'
  BY <1>1, <1>2 DEF Inv, TypeOK, OwnedInv, UndoUnsubscribe, Added, CmdTyped
<1>6. AskedInv'
  BY <1>2 DEF Inv, AskedInv, ByCommand, ByCallback, UndoUnsubscribe, At, CmdTyped
<1>. QED
  BY <1>3, <1>4, <1>5, <1>6 DEF Inv

\* A link that becomes ready is owed every active symbol, by the callback.
LEMMA OnMdReadyInv == ASSUME Inv, OnMdReady PROVE Inv'
<1>1. CmdTyped'
  BY DEF Inv, TypeOK, CmdTyped, OnMdReady
<1>2. TypeOK'
  BY <1>1 DEF Inv, TypeOK, CmdTyped, CallbackPcs, OnMdReady
<1>3. GivenUpInv'
  BY DEF Inv, GivenUpInv, OnMdReady
<1>4. OwnedInv'
  BY DEF Inv, OwnedInv, OnMdReady
<1>5. AskedInv'
  BY DEF Inv, AskedInv, ByCommand, ByCallback, OnMdReady, OwnedInv, TypeOK
<1>. QED
  BY <1>2, <1>3, <1>4, <1>5 DEF Inv

\* The copy has every active symbol; what becomes active later is owed by the command.
LEMMA OnMdReadyCopyInv == ASSUME Inv, OnMdReadyCopy PROVE Inv'
<1>1. CmdTyped'
  BY DEF Inv, TypeOK, CmdTyped, OnMdReadyCopy
<1>2. TypeOK'
  BY <1>1 DEF Inv, TypeOK, CmdTyped, CallbackPcs, OnMdReadyCopy
<1>3. GivenUpInv'
  BY DEF Inv, GivenUpInv, OnMdReadyCopy
<1>4. OwnedInv'
  BY DEF Inv, OwnedInv, OnMdReadyCopy
<1>5. AskedInv'
  BY DEF Inv, AskedInv, ByCommand, ByCallback, OnMdReadyCopy
<1>. QED
  BY <1>2, <1>3, <1>4, <1>5 DEF Inv

\* The callback takes a symbol off its copy when it has asked for it.
LEMMA OnMdReadyCallInv == ASSUME Inv, OnMdReadyCall PROVE Inv'
<1>1. CmdTyped'
  BY DEF Inv, TypeOK, CmdTyped, OnMdReadyCall
<1>2. TypeOK'
  BY <1>1, StreamType DEF Inv, TypeOK, CmdTyped, CallbackPcs, OnMdReadyCall
<1>3. GivenUpInv'
  BY DEF Inv, GivenUpInv, OnMdReadyCall
<1>4. OwnedInv'
  BY DEF Inv, OwnedInv, OnMdReadyCall
<1>5. AskedInv'
  BY DEF Inv, AskedInv, ByCommand, ByCallback, OnMdReadyCall, TypeOK, CallbackTyped, Subscribed
<1>. QED
  BY <1>2, <1>3, <1>4, <1>5 DEF Inv

\* The callback gives up on a link that is down.
LEMMA OnMdReadyRaisesInv == ASSUME Inv, OnMdReadyRaises PROVE Inv'
<1>1. CmdTyped'
  BY DEF Inv, TypeOK, CmdTyped, OnMdReadyRaises
<1>2. TypeOK'
  BY <1>1 DEF Inv, TypeOK, CmdTyped, CallbackPcs, OnMdReadyRaises
<1>3. GivenUpInv'
  BY DEF Inv, GivenUpInv, OnMdReadyRaises
<1>4. OwnedInv'
  BY DEF Inv, OwnedInv, OnMdReadyRaises
<1>5. AskedInv'
  BY DEF Inv, AskedInv, ByCommand, ByCallback, OnMdReadyRaises
<1>. QED
  BY <1>2, <1>3, <1>4, <1>5 DEF Inv

\* The link is no longer ready.
LEMMA OnDisconnectInv == ASSUME Inv, OnDisconnect PROVE Inv'
<1>1. CmdTyped'
  BY DEF Inv, TypeOK, CmdTyped, OnDisconnect
<1>2. TypeOK'
  BY <1>1 DEF Inv, TypeOK, CmdTyped, CallbackPcs, OnDisconnect
<1>3. GivenUpInv'
  BY DEF Inv, GivenUpInv, OnDisconnect
<1>4. OwnedInv'
  BY DEF Inv, OwnedInv, OnDisconnect
<1>5. AskedInv'
  BY DEF Inv, AskedInv, ByCommand, ByCallback, OnDisconnect
<1>. QED
  BY <1>2, <1>3, <1>4, <1>5 DEF Inv

\* A lost link is not up.
LEMMA LinkLostInv == ASSUME Inv, LinkLost PROVE Inv'
<1>1. CmdTyped'
  BY DEF Inv, TypeOK, CmdTyped, LinkLost
<1>2. TypeOK'
  BY <1>1 DEF Inv, TypeOK, CmdTyped, CallbackPcs, LinkLost
<1>3. GivenUpInv'
  BY DEF Inv, GivenUpInv, LinkLost
<1>4. OwnedInv'
  BY DEF Inv, OwnedInv, LinkLost
<1>5. AskedInv'
  BY DEF Inv, AskedInv, ByCommand, ByCallback, LinkLost
<1>. QED
  BY <1>2, <1>3, <1>4, <1>5 DEF Inv

\* Without md_api nothing is up.
LEMMA CloseNativeInv == ASSUME Inv, CloseNative PROVE Inv'
<1>1. CmdTyped'
  <2>1. CASE cmd.pc = "idle"
    <3>1. cmd = Rest /\ cmd' = cmd
      BY <2>1 DEF Inv, TypeOK, CloseNative, Rest
    <3>. QED
      BY <3>1, DoneType DEF Done
  <2>2. CASE cmd.pc # "idle"
    BY <2>2 DEF Inv, TypeOK, CloseNative, CmdTyped
  <2>. QED
    BY <2>1, <2>2
<1>2. TypeOK'
  BY <1>1 DEF Inv, TypeOK, CmdTyped, CallbackPcs, CloseNative
<1>3. GivenUpInv'
  BY DEF Inv, GivenUpInv, CloseNative, TypeOK, Rest
<1>4. OwnedInv'
  BY DEF Inv, OwnedInv, CloseNative, TypeOK, Rest
<1>5. AskedInv'
  BY DEF Inv, AskedInv, ByCommand, ByCallback, CloseNative
<1>. QED
  BY <1>2, <1>3, <1>4, <1>5 DEF Inv

\* A new link has not logged in.
LEMMA ConnectCreateInv == ASSUME Inv, ConnectCreate PROVE Inv'
<1>1. CmdTyped'
  BY DEF Inv, TypeOK, CmdTyped, ConnectCreate
<1>2. TypeOK'
  BY <1>1 DEF Inv, TypeOK, CmdTyped, CallbackPcs, ConnectCreate
<1>3. GivenUpInv'
  BY DEF Inv, GivenUpInv, ConnectCreate
<1>4. OwnedInv'
  BY DEF Inv, OwnedInv, ConnectCreate
<1>5. AskedInv'
  BY DEF Inv, AskedInv, ByCommand, ByCallback, ConnectCreate
<1>. QED
  BY <1>2, <1>3, <1>4, <1>5 DEF Inv

-------------------------------------------------------------------------------
(* The theorems *)

\* A step of nobody changes nothing.
LEMMA InvStutter == ASSUME Inv, UNCHANGED vars PROVE Inv'
BY DEF Inv, TypeOK, GivenUpInv, OwnedInv, AskedInv, ByCommand, ByCallback, vars

\* Every step preserves the invariant.
LEMMA InvNext == Inv /\ [Next]_vars => Inv'
<1>. SUFFICES ASSUME Inv, [Next]_vars PROVE Inv'
  OBVIOUS
<1>1. ASSUME NEW c \in Clients, NEW S \in SUBSET Symbols, Subscribe(c, S) \/ Unsubscribe(c, S)
      PROVE  Inv'
  BY <1>1, SubscribeInv, UnsubscribeInv
<1>2. CASE CommandStep
  BY <1>2, ActivateInv, SubscribeCheckInv, SubscribeEnterInv, SubscribeCallInv,
     SubscribeRaisesInv, UndoSubscribeInv, DeactivateInv, UnsubscribeTestInv,
     UnsubscribeBindInv, UnsubscribeCallInv, UnsubscribeRaisesInv, UndoUnsubscribeInv
     DEF CommandStep
<1>3. CASE CallbackStep
  BY <1>3, OnMdReadyInv, OnMdReadyCopyInv, OnMdReadyCallInv, OnMdReadyRaisesInv,
     OnDisconnectInv DEF CallbackStep
<1>4. CASE LinkLost \/ CloseNative \/ ConnectCreate
  BY <1>4, LinkLostInv, CloseNativeInv, ConnectCreateInv
<1>5. CASE UNCHANGED vars
  BY <1>5, InvStutter
<1>. QED
  BY <1>1, <1>2, <1>3, <1>4, <1>5 DEF Next

\* The invariant holds in every reachable state.
LEMMA InvAlways == Spec => []Inv
BY InvInit, InvNext, PTL DEF Spec

\* The types of Subscriptions hold for every set of symbols and clients.
THEOREM SubscriptionsTypeCorrect == Spec => []TypeOK
<1>1. Inv => TypeOK
  BY DEF Inv
<1>. QED
  BY <1>1, InvAlways, PTL

\* Whichever of the command thread and the MD callback thread has to ask for a
\* symbol, one of them does: no interleaving of the two, and no lost or
\* replaced link, leaves an owned symbol without a stream.
THEOREM OwnersGetStreams == Spec => []OwnedStreamed
BY InvAlways, InvOwnedStreamed, PTL

\* Only unsubscribe_market_data ends a stream of a link that lasts, and only
\* for symbols that have lost their last owner.
LEMMA LastOwnerStep ==
    ASSUME Inv, [Next]_vars, NEW s \in Symbols,
           stream[s] = "on", stream'[s] = "off", api' = "up"
    PROVE  owners[s] = {}
<1>1. CASE UnsubscribeCall
  BY <1>1 DEF Inv, TypeOK, GivenUpInv, Unsubscribing, UnsubscribeCall, Unsubscribed
<1>2. CASE SubscribeCall \/ OnMdReadyCall
  <2>1. \/ stream' = stream
        \/ \E t \in Symbols, x \in {"on", "refused"} : stream' = [stream EXCEPT ![t] = x]
    BY <1>2 DEF Inv, TypeOK, SubscribeCall, OnMdReadyCall, Subscribed
  <2>. QED
    BY <2>1 DEF Inv, TypeOK
<1>3. CASE LinkLost \/ CloseNative
  BY <1>3 DEF LinkLost, CloseNative
<1>. QED
  BY <1>1, <1>2, <1>3
     DEF Next, CommandStep, CallbackStep, vars, Subscribe, Unsubscribe, Activate,
         SubscribeCheck, SubscribeEnter, SubscribeRaises, UndoSubscribe, Deactivate,
         UnsubscribeTest, UnsubscribeBind, UnsubscribeRaises, UndoUnsubscribe,
         OnMdReady, OnMdReadyCopy, OnMdReadyRaises, OnDisconnect, ConnectCreate

\* No owner loses its data through a command of another.
THEOREM OthersKeepStreams == Spec => LastOwnerOnly
<1>1. Inv /\ [Next]_vars =>
        [\A s \in Symbols :
            stream[s] = "on" /\ stream'[s] = "off" /\ api' = "up" => owners[s] = {}]_vars
  BY LastOwnerStep
<1>. QED
  BY <1>1, InvAlways, PTL DEF Spec, LastOwnerOnly

===============================================================================
