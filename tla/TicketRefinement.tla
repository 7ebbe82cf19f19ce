-------------------------- MODULE TicketRefinement --------------------------
(***************************************************************************)
(* TicketLifecycle implements TicketPromise: the phase of a ticket is read *)
(* off its status, its prize off its winning row and its money off the     *)
(* ledger transactions that carry its id.                                  *)
(***************************************************************************)
EXTENDS TicketLifecycle, Integers

PhaseOf ==
    [NONE |-> "unsold", VALID |-> "open", PENDING |-> "undecided", WINNER |-> "won",
     LOSER |-> "lost", PAID |-> "paid", CANCELLED |-> "refunded"]

\* Every stake is one unit: only whether the sale entries stand, and what was paid, matters.
UnitStake == [t \in Tickets |-> 1]

\* MERCHANT_CASH over the ticket's transactions: POSTED and REVERSED sales both keep their entries,
\* an ADJUSTMENT takes them back, a payout takes its amount.
CashOf(t) ==
    (IF "SALE" \in posted[t] \cup reversed[t] THEN UnitStake[t] ELSE 0)
        - (IF "SALE" \in adjusted[t] THEN UnitStake[t] ELSE 0)
        - (IF "PAYOUT" \in posted[t] THEN paid[t] ELSE 0)

Promise ==
    INSTANCE TicketPromise WITH
        Stake <- UnitStake,
        phase <- [t \in Tickets |-> PhaseOf[status[t]]],
        prize <- [t \in Tickets |-> winning[t]],
        cash  <- [t \in Tickets |-> CashOf(t)]

\* Every step of the ticket service is a step of the promise or leaves what it speaks of alone.
\* (tickets.service.ts, results.service.ts, payouts.service.ts, commission-processor.service.ts)
KeepsPromise == Promise!PromiseSpec
=============================================================================
