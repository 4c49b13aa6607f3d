------------------------------ MODULE SubmitOnce ------------------------------
(***************************************************************************)
(* What place_order promises to the owner of an order identity, whatever   *)
(* retries, crashes and database failures happen: the identity is claimed  *)
(* durably, insertOrder is called for it at most once and only afterwards, *)
(* and the claim ends accepted, failed or, when the outcome was lost, not  *)
(* at all: a claim in doubt is never submitted again                       *)
(* (src/docs/protocol-v1.md:187-188 and 439-442).                          *)
(***************************************************************************)
EXTENDS Naturals

CONSTANT Keys

VARIABLES
    phase,  \* what the durable record says of each identity
    calls   \* calls of insertOrder for each identity

vars == <<phase, calls>>

Init ==
    /\ phase = [k \in Keys |-> "new"]
    /\ calls = [k \in Keys |-> 0]

Claim(k) ==
    /\ phase[k] = "new"
    /\ phase' = [phase EXCEPT ![k] = "claimed"]
    /\ UNCHANGED calls

Call(k) ==
    /\ phase[k] = "claimed"
    /\ calls[k] = 0
    /\ calls' = [calls EXCEPT ![k] = 1]
    /\ UNCHANGED phase

Settle(k) ==
    /\ phase[k] = "claimed"
    /\ calls[k] = 1
    /\ \E outcome \in {"accepted", "failed"} :
          phase' = [phase EXCEPT ![k] = outcome]
    /\ UNCHANGED calls

Next == \E k \in Keys : Claim(k) \/ Call(k) \/ Settle(k)

Spec == Init /\ [][Next]_vars
===============================================================================
