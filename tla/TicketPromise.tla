---------------------------- MODULE TicketPromise ----------------------------
(***************************************************************************)
(* What the ticket service promises a customer and an accountant, without  *)
(* draws, results, clocks or requests: a ticket is sold for its stake; it  *)
(* is given back for the stake or it is decided, perhaps more than once,   *)
(* until it is paid; and the money of the ticket moves with these steps    *)
(* and with nothing else.                                                  *)
(***************************************************************************)
EXTENDS Integers

CONSTANTS Tickets, Stake

VARIABLES
    phase,  \* unsold, open, undecided, won, lost, refunded or paid
    prize,  \* what a won ticket is worth, 0 otherwise
    cash    \* what the ticket has brought the house so far

promiseVars == <<phase, prize, cash>>

PhaseSet == {"unsold", "open", "undecided", "won", "lost", "refunded", "paid"}

PromiseInit ==
    /\ phase = [t \in Tickets |-> "unsold"]
    /\ prize = [t \in Tickets |-> 0]
    /\ cash = [t \in Tickets |-> 0]

SellTicket(t) ==
    /\ phase[t] = "unsold"
    /\ phase' = [phase EXCEPT ![t] = "open"]
    /\ cash' = [cash EXCEPT ![t] = Stake[t]]
    /\ UNCHANGED prize

\* Only a ticket that no result has reached is given back.
RefundTicket(t) ==
    /\ phase[t] = "open"
    /\ phase' = [phase EXCEPT ![t] = "refunded"]
    /\ cash' = [cash EXCEPT ![t] = 0]
    /\ UNCHANGED prize

\* One result can decide many tickets; a correction can turn a decision round, and never takes a
\* decided ticket back to undecided.
MayBecome(t, p) ==
    \/ p = phase[t]
    \/ phase[t] \in {"open", "undecided"} /\ p \in {"undecided", "won", "lost"}
    \/ phase[t] \in {"won", "lost"} /\ p \in {"won", "lost"}

DecideTickets ==
    /\ phase' \in [Tickets -> PhaseSet]
    /\ prize' \in [Tickets -> Nat]
    /\ \A t \in Tickets :
          /\ MayBecome(t, phase'[t])
          /\ phase'[t] = "won" => prize'[t] > 0
          /\ phase'[t] \notin {"won", "paid"} => prize'[t] = 0
          /\ phase[t] = "paid" => prize'[t] = prize[t]
    /\ UNCHANGED cash

PayTicket(t) ==
    /\ phase[t] = "won"
    /\ phase' = [phase EXCEPT ![t] = "paid"]
    /\ cash' = [cash EXCEPT ![t] = Stake[t] - prize[t]]
    /\ UNCHANGED prize

PromiseNext ==
    \/ \E t \in Tickets : SellTicket(t) \/ RefundTicket(t) \/ PayTicket(t)
    \/ DecideTickets

PromiseSpec == PromiseInit /\ [][PromiseNext]_promiseVars
=============================================================================
