----------------------------- MODULE SalePromise -----------------------------
(***************************************************************************)
(* What a merchant may rely on who sells without a connection, said        *)
(* without batches, requests, jobs or retries: a sale he has handed over   *)
(* gets one ticket at most, which stays what it is; the service decides    *)
(* the sale once, and accepts none without its ticket; he is told that     *)
(* decision and no other; and a receipt is for a sale he was told is       *)
(* accepted.                                                               *)
(*                                                                         *)
(* It does not say that a refused sale has no ticket: the first request    *)
(* for it may still be on its way.                                         *)
(***************************************************************************)
CONSTANTS Sales

VARIABLES
    told,     \* what the app shows: nothing, queued, accepted or refused
    verdict,  \* what the service has decided: none, accepted or refused
    ticket,   \* none, or the ticket: on the draws asked for or on another
    receipt

promiseVars == <<told, verdict, ticket, receipt>>

PromiseInit ==
    /\ told = [s \in Sales |-> "nothing"]
    /\ verdict = [s \in Sales |-> "none"]
    /\ ticket = [s \in Sales |-> "none"]
    /\ receipt = [s \in Sales |-> FALSE]

HandOver(s) ==
    /\ told[s] = "nothing"
    /\ told' = [told EXCEPT ![s] = "queued"]
    /\ UNCHANGED <<verdict, ticket, receipt>>

Issue(s) ==
    /\ told[s] # "nothing" /\ ticket[s] = "none"
    /\ \E draws \in {"asked", "other"} : ticket' = [ticket EXCEPT ![s] = draws]
    /\ UNCHANGED <<told, verdict, receipt>>

Decide(s) ==
    /\ told[s] = "queued" /\ verdict[s] = "none"
    /\ \/ ticket[s] # "none" /\ verdict' = [verdict EXCEPT ![s] = "accepted"]
       \/ verdict' = [verdict EXCEPT ![s] = "refused"]
    /\ UNCHANGED <<told, ticket, receipt>>

Tell(s) ==
    /\ told[s] = "queued" /\ verdict[s] # "none"
    /\ told' = [told EXCEPT ![s] = verdict[s]]
    /\ UNCHANGED <<verdict, ticket, receipt>>

HandReceipt(s) ==
    /\ told[s] = "accepted"
    /\ receipt' = [receipt EXCEPT ![s] = TRUE]
    /\ UNCHANGED <<told, verdict, ticket>>

PromiseNext == \E s \in Sales : HandOver(s) \/ Issue(s) \/ Decide(s) \/ Tell(s) \/ HandReceipt(s)

PromiseSpec == PromiseInit /\ [][PromiseNext]_promiseVars
=============================================================================
