---------------------------- MODULE TicketProofs ----------------------------
(***************************************************************************)
(* The safety of TicketLifecycle for any number of tickets, draws, results *)
(* and keys.  TicketInv is inductive: a lemma for what a recalculation     *)
(* does, one for the steps that touch neither results nor money, and one   *)
(* lemma per remaining action.  The second half proves, step by step, that *)
(* TicketLifecycle implements TicketPromise.                               *)
(***************************************************************************)
EXTENDS TicketRefinement, TLAPS

\* The verdict on a ticket is a function of the results of its own draws (recalculateTicket).
LEMMA VerdictOfOwnDraws ==
    ASSUME NEW t \in Tickets, NEW ds, NEW rs, NEW ds2, NEW rs2,
           \A d \in DrawsOf[t] : /\ ds[d] = "RESULT_PUBLISHED" <=> ds2[d] = "RESULT_PUBLISHED"
                                 /\ rs[d] = rs2[d]
    PROVE  /\ Decided(t, ds) <=> Decided(t, ds2)
           /\ Amount(t, ds, rs) = Amount(t, ds2, rs2)
           /\ Verdict(t, ds, rs) = Verdict(t, ds2, rs2)
<1>1. Decided(t, ds) <=> Decided(t, ds2)
  BY DEF Decided
<1>2. OutcomeOf(t, rs) = OutcomeOf(t, rs2)
  BY DEF OutcomeOf
<1>3. Amount(t, ds, rs) = Amount(t, ds2, rs2)
  BY <1>1, <1>2 DEF Amount
<1> QED
  BY <1>1, <1>3 DEF Verdict

\* A verdict is PENDING, WINNER or LOSER, and exactly a WINNER has an amount (recalculateTicket).
LEMMA VerdictAndAmount ==
    ASSUME NEW t \in Tickets, NEW ds, NEW rs,
           \A d \in DrawsOf[t] : ds[d] = "RESULT_PUBLISHED" => rs[d] \in Results
    PROVE  /\ Amount(t, ds, rs) \in Nat
           /\ Verdict(t, ds, rs) \in {"PENDING", "WINNER", "LOSER"}
<1>1. CASE Decided(t, ds)
  <2>1. OutcomeOf(t, rs) \in Outcomes(t)
    BY <1>1 DEF Decided, OutcomeOf, Outcomes
  <2>2. Prize(t, OutcomeOf(t, rs)) \in Nat
    BY <2>1, PrizeAssumption
  <2> QED
    BY <1>1, <2>2 DEF Amount, Verdict
<1>2. CASE ~Decided(t, ds)
  BY <1>2 DEF Amount, Verdict
<1> QED
  BY <1>1, <1>2

\* The steps that sell, cancel, evaluate and pay nothing preserve the invariant.
LEMMA FrameStep ==
    ASSUME TicketInv, TypeOK', UNCHANGED <<drawStatus, result, version, stateVars, bookVars, payVars>>
    PROVE  TicketInv'
<1> USE DEF TicketInv, stateVars, bookVars, payVars
<1>1. PublishedDraws'
  BY DEF PublishedDraws
<1>2. SettledTicketsAgree' /\ PaidMatchesResults'
  BY DEF SettledTicketsAgree, PaidMatchesResults, Verdict, Amount, Decided, OutcomeOf, CurrentCheck
<1>3. BooksFollowStatus' /\ OnePayoutPerKey' /\ InsideIsWinner'
  BY DEF BooksFollowStatus, OnePayoutPerKey, PaidWith, InsideIsWinner
<1> QED
  BY <1>1, <1>2, <1>3

\* With no ticket sold and no draw published every part of the invariant holds.
LEMMA InitInv == Init => TicketInv
<1> SUFFICES ASSUME Init PROVE TicketInv
  OBVIOUS
<1> USE DEF Init
<1>1. TypeOK
  BY BoundAssumption DEF TypeOK, DrawStatus, Phases, TicketStatus, Kinds, Payments
<1>2. PublishedDraws
  BY DEF PublishedDraws
<1>3. SettledTicketsAgree /\ PaidMatchesResults
  BY DEF SettledTicketsAgree, PaidMatchesResults
<1>4. BooksFollowStatus /\ OnePayoutPerKey
  BY SentinelAssumption DEF BooksFollowStatus, OnePayoutPerKey, PaidWith
<1>5. InsideIsWinner
  BY DEF InsideIsWinner, Idle
<1> QED
  BY <1>1, <1>2, <1>3, <1>4, <1>5 DEF TicketInv

(***************************************************************************)
(* Recalculation.  ds, rs and vs are the draws as they are afterwards.     *)
(***************************************************************************)

\* Recalculating tickets leaves every variable it writes in its type (recalculateTicket).
LEMMA RecalculateType ==
    ASSUME TypeOK, NEW S \in SUBSET Tickets, NEW ds, NEW rs, NEW vs \in [Draws -> 0..MaxVersion],
           \A d \in Draws : ds[d] = "RESULT_PUBLISHED" => rs[d] \in Results,
           Recalculate(S, ds, rs, vs)
    PROVE  /\ status' \in [Tickets -> TicketStatus]
           /\ winning' \in [Tickets -> Nat]
           /\ checked' \in [Tickets -> [Draws -> 0..MaxVersion]]
<1>1. \A t \in Tickets : Amount(t, ds, rs) \in Nat /\ Verdict(t, ds, rs) \in TicketStatus
  BY VerdictAndAmount, TicketAssumption DEF TicketStatus
<1>2. \A t \in Tickets : CheckedBy(t, ds, vs) \in [Draws -> 0..MaxVersion]
  BY DEF CheckedBy, TypeOK
<1> QED
  BY <1>1, <1>2 DEF Recalculate, TypeOK

\* When the recalculated tickets include every settled ticket whose draws changed, tickets and
\* results agree afterwards and the books have not moved (publish, editPlatform, reconcileOneTicket).
LEMMA RecalculateAgrees ==
    ASSUME TicketInv, NEW S \in SUBSET Tickets, NEW ds, NEW rs, NEW vs,
           Recalculate(S, ds, rs, vs), ds = drawStatus', rs = result', vs = version',
           version' \in [Draws -> 0..MaxVersion],
           PublishedDraws', UNCHANGED <<bookVars, payVars>>,
           \A t \in S : Evaluable(t),
           \A t \in Tickets \ S : status[t] \in {"PENDING", "WINNER", "LOSER", "PAID"} =>
               \A d \in DrawsOf[t] :
                   /\ drawStatus'[d] = "RESULT_PUBLISHED" <=> drawStatus[d] = "RESULT_PUBLISHED"
                   /\ result'[d] = result[d]
                   /\ version'[d] = version[d]
    PROVE  /\ SettledTicketsAgree' /\ PaidMatchesResults' /\ BooksFollowStatus'
           /\ OnePayoutPerKey' /\ InsideIsWinner'
<1> USE DEF TicketInv, bookVars, payVars
<1>a. \A t \in Tickets : DrawsOf[t] \subseteq Draws
  BY TicketAssumption
<1>b. \A d \in Draws : drawStatus'[d] = "RESULT_PUBLISHED" => result'[d] \in Results
  BY DEF PublishedDraws
<1>1. ASSUME NEW t \in S
      PROVE  /\ status'[t] = Verdict(t, drawStatus', result')
             /\ status'[t] \in {"PENDING", "WINNER", "LOSER"}
             /\ winning'[t] = Amount(t, drawStatus', result')
             /\ \A d \in DrawsOf[t] : drawStatus'[d] = "RESULT_PUBLISHED" => checked'[t][d] = version'[d]
  <2>1. /\ status'[t] = Verdict(t, drawStatus', result')
        /\ winning'[t] = Amount(t, drawStatus', result')
        /\ checked'[t] = CheckedBy(t, drawStatus', version')
    BY DEF Recalculate
  <2>2. Verdict(t, drawStatus', result') \in {"PENDING", "WINNER", "LOSER"}
    BY <1>a, <1>b, VerdictAndAmount
  <2>3. \A d \in DrawsOf[t] : drawStatus'[d] = "RESULT_PUBLISHED" => checked'[t][d] = version'[d]
    BY <2>1, <1>a DEF CheckedBy
  <2> QED
    BY <2>1, <2>2, <2>3
<1>2. ASSUME NEW t \in Tickets \ S
      PROVE  status'[t] = status[t] /\ winning'[t] = winning[t] /\ checked'[t] = checked[t]
  BY DEF Recalculate
<1>3. ASSUME NEW t \in Tickets \ S, status[t] \in {"PENDING", "WINNER", "LOSER", "PAID"}
      PROVE  /\ Decided(t, drawStatus') <=> Decided(t, drawStatus)
             /\ Amount(t, drawStatus', result') = Amount(t, drawStatus, result)
             /\ Verdict(t, drawStatus', result') = Verdict(t, drawStatus, result)
             /\ \A d \in DrawsOf[t] :
                   drawStatus'[d] = "RESULT_PUBLISHED" => (CurrentCheck(t, d)' <=> CurrentCheck(t, d))
  <2>1. /\ Decided(t, drawStatus') <=> Decided(t, drawStatus)
        /\ Amount(t, drawStatus', result') = Amount(t, drawStatus, result)
        /\ Verdict(t, drawStatus', result') = Verdict(t, drawStatus, result)
    BY <1>3, VerdictOfOwnDraws
  <2> QED
    BY <2>1, <1>2, <1>3 DEF CurrentCheck
<1>4. SettledTicketsAgree'
  <2> SUFFICES ASSUME NEW t \in Tickets
               PROVE  /\ status'[t] \in {"PENDING", "WINNER", "LOSER"} =>
                            /\ status'[t] = Verdict(t, drawStatus', result')
                            /\ winning'[t] = Amount(t, drawStatus', result')
                            /\ \A d \in DrawsOf[t] :
                                   drawStatus'[d] = "RESULT_PUBLISHED" => CurrentCheck(t, d)'
                      /\ status'[t] \in {"NONE", "VALID", "CANCELLED"} => winning'[t] = 0
    BY DEF SettledTicketsAgree
  <2>1. CASE t \in S
    BY <2>1, <1>1 DEF CurrentCheck
  <2>2. CASE t \notin S
    BY <2>2, <1>2, <1>3 DEF SettledTicketsAgree
  <2> QED
    BY <2>1, <2>2
<1>5. \A t \in S : status[t] \notin {"NONE", "PAID", "CANCELLED"}
  BY DEF Evaluable
<1>6. PaidMatchesResults'
  <2> SUFFICES ASSUME NEW t \in Tickets
               PROVE  /\ status'[t] = "PAID" <=> paid[t] > 0
                      /\ status'[t] = "PAID" => /\ Decided(t, drawStatus')
                                                /\ paid[t] = Amount(t, drawStatus', result')
    BY DEF PaidMatchesResults
  <2>1. CASE t \in S
    BY <2>1, <1>1, <1>5 DEF PaidMatchesResults
  <2>2. CASE t \notin S
    BY <2>2, <1>2, <1>3 DEF PaidMatchesResults
  <2> QED
    BY <2>1, <2>2
<1>7. \A t \in Tickets : \A s \in {"NONE", "PAID", "CANCELLED"} : status'[t] = s <=> status[t] = s
  BY <1>1, <1>2, <1>5
<1>8. BooksFollowStatus'
  BY <1>7 DEF BooksFollowStatus
<1>9. OnePayoutPerKey' /\ InsideIsWinner'
  BY <1>7 DEF OnePayoutPerKey, PaidWith, InsideIsWinner
<1> QED
  BY <1>4, <1>6, <1>8, <1>9

(***************************************************************************)
(* One lemma per action, or per group of actions that the frame lemma      *)
(* covers.                                                                 *)
(***************************************************************************)

\* The clock, the reading half of a sale or of a cancellation, deletion and the scan's bookkeeping.
LEMMA QuietStep ==
    ASSUME TicketInv,
           \/ \E d \in Draws : Tick(d) \/ ScanDraw(d)
           \/ StartScan
           \/ \E t \in Tickets : \/ \E d \in Draws : CheckDraw(t, d)
                                 \/ WindowLapses(t) \/ BeginCancel(t) \/ CancelRefused(t)
                                 \/ \E byMerchant \in BOOLEAN : DeleteTicket(t, byMerchant)
    PROVE  TicketInv'
<1> USE BoundAssumption DEF TicketInv, drawVars, stateVars, flagVars, callVars, payVars, bookVars, scanVars
<1>1. ASSUME NEW d \in Draws, Tick(d) PROVE TicketInv'
  <2>1. Later(clock[d]) \in Phases
    BY DEF TypeOK, Later, Phases
  <2>2. TypeOK'
    BY <1>1, <2>1 DEF TypeOK, Tick
  <2> QED
    BY <1>1, <2>2, FrameStep DEF Tick
<1>2. ASSUME NEW d \in Draws, ScanDraw(d) PROVE TicketInv'
  <2>1. TypeOK'
    BY <1>2 DEF TypeOK, ScanDraw, StalePairs
  <2> QED
    BY <1>2, <2>1, FrameStep DEF ScanDraw
<1>3. ASSUME StartScan PROVE TicketInv'
  <2>1. TypeOK'
    BY <1>3 DEF TypeOK, StartScan
  <2> QED
    BY <1>3, <2>1, FrameStep DEF StartScan
<1>4. ASSUME NEW t \in Tickets, NEW d \in Draws, CheckDraw(t, d) PROVE TicketInv'
  <2>1. TypeOK'
    BY <1>4 DEF TypeOK, CheckDraw
  <2> QED
    BY <1>4, <2>1, FrameStep DEF CheckDraw
<1>5. ASSUME NEW t \in Tickets, WindowLapses(t) PROVE TicketInv'
  <2>1. TypeOK'
    BY <1>5 DEF TypeOK, WindowLapses
  <2> QED
    BY <1>5, <2>1, FrameStep DEF WindowLapses
<1>6. ASSUME NEW t \in Tickets, BeginCancel(t) PROVE TicketInv'
  <2>1. TypeOK'
    BY <1>6 DEF TypeOK, BeginCancel
  <2> QED
    BY <1>6, <2>1, FrameStep DEF BeginCancel
<1>7. ASSUME NEW t \in Tickets, CancelRefused(t) PROVE TicketInv'
  <2>1. TypeOK'
    BY <1>7 DEF TypeOK, CancelRefused
  <2> QED
    BY <1>7, <2>1, FrameStep DEF CancelRefused
<1>8. ASSUME NEW t \in Tickets, NEW b \in BOOLEAN, DeleteTicket(t, b) PROVE TicketInv'
  <2>1. TypeOK'
    BY <1>8 DEF TypeOK, DeleteTicket
  <2> QED
    BY <1>8, <2>1, FrameStep DEF DeleteTicket
<1> QED
  BY <1>1, <1>2, <1>3, <1>4, <1>5, <1>6, <1>7, <1>8

\* The job and the manual transitions neither publish a draw nor take a publication back.
LEMMA DrawStatusStep ==
    ASSUME TicketInv, DrawsJob \/ \E d \in Draws : \E next \in DrawStatus : Transition(d, next)
    PROVE  TicketInv'
<1> USE DEF TicketInv, stateVars, bookVars
<1>0. /\ drawStatus' \in [Draws -> DrawStatus]
      /\ \A d \in Draws : drawStatus'[d] = "RESULT_PUBLISHED" <=> drawStatus[d] = "RESULT_PUBLISHED"
      /\ UNCHANGED <<clock, result, version, stateVars, flagVars, callVars, bookVars, scanVars>>
  <2>1. CASE DrawsJob
    BY <2>1 DEF DrawsJob, JobStatus, TypeOK, DrawStatus
  <2>2. ASSUME NEW d \in Draws, NEW next \in DrawStatus, Transition(d, next) PROVE <1>0!:
    <3>1. drawStatus[d] # "RESULT_PUBLISHED"
      BY <2>2 DEF Transition, Transitions
    <3> QED
      BY <2>2, <3>1 DEF Transition, TypeOK
  <2> QED
    BY <2>1, <2>2
<1>1. TypeOK'
  BY <1>0 DEF TypeOK, flagVars, callVars, payVars, scanVars
<1>2. PublishedDraws'
  BY <1>0 DEF PublishedDraws
<1>3. ASSUME NEW t \in Tickets
      PROVE  /\ Decided(t, drawStatus') <=> Decided(t, drawStatus)
             /\ Amount(t, drawStatus', result') = Amount(t, drawStatus, result)
             /\ Verdict(t, drawStatus', result') = Verdict(t, drawStatus, result)
  <2>1. \A d \in DrawsOf[t] : /\ drawStatus'[d] = "RESULT_PUBLISHED" <=> drawStatus[d] = "RESULT_PUBLISHED"
                              /\ result'[d] = result[d]
    BY <1>0, TicketAssumption
  <2> HIDE DEF TicketInv
  <2> QED
    BY <2>1, VerdictOfOwnDraws
<1>4. SettledTicketsAgree'
  BY <1>0, <1>3, TicketAssumption DEF SettledTicketsAgree, CurrentCheck
<1>5. PaidMatchesResults'
  BY <1>0, <1>3 DEF PaidMatchesResults
<1>6. BooksFollowStatus' /\ OnePayoutPerKey' /\ InsideIsWinner'
  BY <1>0 DEF BooksFollowStatus, OnePayoutPerKey, PaidWith, InsideIsWinner, callVars, payVars
<1> QED
  BY <1>1, <1>2, <1>4, <1>5, <1>6

\* A step that moves one ticket to VALID, CANCELLED or PAID and leaves draws, winning rows and
\* checks alone keeps tickets and results in agreement when that ticket does (create, cancel, pay).
LEMMA OneTicketAgrees ==
    ASSUME TicketInv, NEW t \in Tickets, UNCHANGED <<drawVars, winning, checked>>,
           \A u \in Tickets \ {t} : status'[u] = status[u] /\ paid'[u] = paid[u],
           \/ status'[t] \in {"VALID", "CANCELLED"} /\ winning[t] = 0 /\ paid'[t] = 0
           \/ /\ status'[t] = "PAID" /\ paid'[t] > 0
              /\ Decided(t, drawStatus) /\ paid'[t] = Amount(t, drawStatus, result)
    PROVE  SettledTicketsAgree' /\ PaidMatchesResults'
<1> USE DEF TicketInv, drawVars
<1>1. SettledTicketsAgree'
  <2> SUFFICES ASSUME NEW u \in Tickets
               PROVE  /\ status'[u] \in {"PENDING", "WINNER", "LOSER"} =>
                            /\ status'[u] = Verdict(u, drawStatus, result)
                            /\ winning[u] = Amount(u, drawStatus, result)
                            /\ \A d \in DrawsOf[u] :
                                   drawStatus[d] = "RESULT_PUBLISHED" => checked[u][d] = version[d]
                      /\ status'[u] \in {"NONE", "VALID", "CANCELLED"} => winning[u] = 0
    BY DEF SettledTicketsAgree, CurrentCheck
  <2>1. CASE u = t
    BY <2>1
  <2>2. CASE u # t
    BY <2>2 DEF SettledTicketsAgree, CurrentCheck
  <2> QED
    BY <2>1, <2>2
<1>2. PaidMatchesResults'
  <2> SUFFICES ASSUME NEW u \in Tickets
               PROVE  /\ status'[u] = "PAID" <=> paid'[u] > 0
                      /\ status'[u] = "PAID" => /\ Decided(u, drawStatus)
                                                /\ paid'[u] = Amount(u, drawStatus, result)
    BY DEF PaidMatchesResults
  <2>1. CASE u = t
    BY <2>1
  <2>2. CASE u # t
    BY <2>2 DEF PaidMatchesResults
  <2> QED
    BY <2>1, <2>2
<1> QED
  BY <1>1, <1>2

\* A sale changes a ticket that no result, payout or journal knows yet.
LEMMA SellStep == ASSUME TicketInv, NEW t \in Tickets, Sell(t) PROVE TicketInv'
<1> USE DEF TicketInv, Sell, drawVars, payVars
<1>1. TypeOK'
  BY DEF TypeOK, TicketStatus, scanVars
<1>2. PublishedDraws'
  BY DEF PublishedDraws
<1>3. winning[t] = 0
  BY DEF SettledTicketsAgree
<1>4. paid[t] = 0
  <2>1. status[t] = "NONE" /\ paid[t] \in Nat
    BY DEF TypeOK
  <2>2. ~(paid[t] > 0)
    BY <2>1 DEF PaidMatchesResults
  <2> QED
    BY <2>1, <2>2
<1>5. SettledTicketsAgree' /\ PaidMatchesResults'
  BY <1>3, <1>4, OneTicketAgrees DEF TypeOK
<1>6. BooksFollowStatus'
  BY DEF BooksFollowStatus, TypeOK
<1>7. OnePayoutPerKey' /\ InsideIsWinner'
  BY DEF OnePayoutPerKey, PaidWith, InsideIsWinner, TypeOK
<1> QED
  BY <1>1, <1>2, <1>5, <1>6, <1>7

\* A late commission is one more posted transaction of a ticket that is not cancelled.
LEMMA ApplyCommissionStep == ASSUME TicketInv, NEW t \in Tickets, ApplyCommission(t) PROVE TicketInv'
<1> USE DEF TicketInv, ApplyCommission, drawVars, stateVars, callVars, payVars
<1>1. TypeOK'
  BY DEF TypeOK, flagVars, callVars, scanVars
<1>2. PublishedDraws'
  BY DEF PublishedDraws
<1>3. SettledTicketsAgree' /\ PaidMatchesResults'
  BY DEF SettledTicketsAgree, PaidMatchesResults, Verdict, Amount, Decided, OutcomeOf, CurrentCheck
<1>4. BooksFollowStatus' /\ OnePayoutPerKey' /\ InsideIsWinner'
  BY DEF BooksFollowStatus, OnePayoutPerKey, PaidWith, InsideIsWinner, TypeOK, MayEarnCommission
<1> QED
  BY <1>1, <1>2, <1>3, <1>4

\* Either cancellation reverses the journals of a ticket that no result has reached.
LEMMA CancelStep ==
    ASSUME TicketInv, NEW t \in Tickets, MerchantCancel(t) \/ OwnerCancel(t)
    PROVE  TicketInv'
<1> USE DEF TicketInv, Refund, drawVars, payVars
<1>0. PICK who \in {"MERCHANT", "TENANT_OWNER"} : Refund(t, who) /\ cancelling' \in [Tickets -> BOOLEAN]
  BY DEF MerchantCancel, OwnerCancel, TypeOK
<1>1. TypeOK'
  BY <1>0 DEF TypeOK, TicketStatus, Reversible, Kinds, scanVars
<1>2. PublishedDraws'
  BY <1>0 DEF PublishedDraws
<1>3. SettledTicketsAgree' /\ PaidMatchesResults'
  BY <1>0, OneTicketAgrees DEF TypeOK, Untouched
<1>4. BooksFollowStatus'
  <2>1. /\ posted'[t] = {} /\ adjusted'[t] = reversed'[t] /\ "SALE" \in reversed'[t]
        /\ status'[t] = "CANCELLED"
    BY <1>0 DEF BooksFollowStatus, TypeOK, Untouched, Reversible, Kinds
  <2>2. \A u \in Tickets \ {t} : /\ posted'[u] = posted[u] /\ adjusted'[u] = adjusted[u]
                                 /\ reversed'[u] = reversed[u] /\ status'[u] = status[u]
    BY <1>0 DEF TypeOK
  <2> QED
    BY <2>1, <2>2 DEF BooksFollowStatus
<1>5. OnePayoutPerKey' /\ InsideIsWinner'
  BY <1>0 DEF OnePayoutPerKey, PaidWith, InsideIsWinner, TypeOK, Untouched
<1> QED
  BY <1>1, <1>2, <1>3, <1>4, <1>5

\* A payout in flight names a ticket and a key, and inside its transaction the row it has read.
LEMMA PaymentFields ==
    ASSUME TypeOK, NEW p \in Payers
    PROVE  /\ payment[p].at \in {"asked", "inside"} =>
                 payment[p] # Idle /\ payment[p].ticket \in Tickets /\ payment[p].key \in Keys
           /\ payment[p].at = "inside" => payment[p].row \in Rows
<1>1. payment[p] \in Payments
  BY DEF TypeOK
<1> QED
  BY <1>1 DEF Payments, Idle

\* Looking the key up, taking the snapshot and failing change no ticket and no book, and answer with
\* nothing but what is on the books.
LEMMA PayLookStep ==
    ASSUME TicketInv,
           \/ \E p \in Payers, t \in Tickets, k \in Keys : PayRead(p, t, k)
           \/ \E p \in Payers : PaySnapshot(p) \/ PayFails(p)
    PROVE  TicketInv'
<1> USE DEF TicketInv
<1>1. PICK p \in Payers : \/ \E t \in Tickets, k \in Keys : PayRead(p, t, k)
                         \/ PaySnapshot(p) \/ PayFails(p)
  OBVIOUS
<1>2. UNCHANGED <<drawVars, stateVars, flagVars, checkedOpen, cancelling, bookVars, scanVars>>
  BY <1>1 DEF PayRead, PaySnapshot, PayFails
<1> DEFINE Moves(call) ==
        /\ payment' = [payment EXCEPT ![p] = call]
        /\ call.at = "inside" => call.row.status = "WINNER" /\ call.row.winning > 0
<1>3. PICK call \in Payments : Moves(call)
  <2>1. Idle \in Payments /\ Idle.at # "inside"
    BY DEF Idle, Payments
  <2>2. ASSUME NEW t \in Tickets, NEW k \in Keys, PayRead(p, t, k) PROVE \E call \in Payments : Moves(call)
    <3>1. CASE PaidWith(k) = {}
      <4> DEFINE asked == [at |-> "asked", ticket |-> t, key |-> k]
      <4>1. asked \in Payments /\ asked.at # "inside"
        BY DEF Payments
      <4>2. payment' = [payment EXCEPT ![p] = asked]
        BY <2>2, <3>1 DEF PayRead
      <4> QED
        BY <4>1, <4>2
    <3>2. CASE PaidWith(k) # {}
      <4>1. payment' = payment
        BY <2>2, <3>2 DEF PayRead
      <4>2. payment' = [payment EXCEPT ![p] = payment[p]] /\ payment[p] \in Payments
        BY <4>1 DEF TypeOK
      <4> QED
        BY <4>2 DEF InsideIsWinner
    <3> QED
      BY <3>1, <3>2
  <2>3. CASE PaySnapshot(p)
    <3> DEFINE t == payment[p].ticket
               k == payment[p].key
               inside == [at |-> "inside", ticket |-> t, key |-> k, row |-> Row(t)]
    <3>1. t \in Tickets /\ k \in Keys
      BY <2>3, PaymentFields DEF PaySnapshot
    <3>2. CASE Payable(t) /\ payment' = [payment EXCEPT ![p] = inside]
      <4>1. Row(t) \in Rows
        BY <3>1 DEF Row, Rows, TypeOK
      <4>2. inside \in Payments
        BY <3>1, <4>1 DEF Payments
      <4>3. inside.row.status = "WINNER" /\ inside.row.winning > 0
        BY <3>2 DEF Row, Payable, PresentedWinner
      <4> HIDE DEF inside
      <4> QED
        BY <3>2, <4>2, <4>3
    <3>3. CASE payment' = [payment EXCEPT ![p] = Idle]
      BY <3>3, <2>1
    <3> QED
      BY <2>3, <3>2, <3>3 DEF PaySnapshot
  <2>4. CASE PayFails(p)
    BY <2>1, <2>4 DEF PayFails
  <2> QED
    BY <1>1, <2>2, <2>3, <2>4
<1>4. told' = told \/ \E k \in Keys : told' = [told EXCEPT ![k] = @ \cup PaidWith(k)]
  <2>1. CASE PaySnapshot(p)
    <3>1. payment[p].key \in Keys
      BY <2>1, PaymentFields DEF PaySnapshot
    <3> QED
      BY <2>1, <3>1 DEF PaySnapshot
  <2> QED
    BY <1>1, <2>1 DEF PayRead, PayFails
<1>5. \A k \in Keys : PaidWith(k) \subseteq Tickets /\ PaidWith(k)' = PaidWith(k)
  BY <1>2 DEF PaidWith, bookVars
<1>6. /\ told' \in [Keys -> SUBSET Tickets]
      /\ \A k \in Keys : told'[k] \subseteq told[k] \cup PaidWith(k)
  <2>1. told \in [Keys -> SUBSET Tickets]
    BY DEF TypeOK
  <2>2. CASE told' = told
    BY <2>1, <2>2
  <2>3. ASSUME NEW k \in Keys, told' = [told EXCEPT ![k] = @ \cup PaidWith(k)]
        PROVE  /\ told' \in [Keys -> SUBSET Tickets]
               /\ \A j \in Keys : told'[j] \subseteq told[j] \cup PaidWith(j)
    <3>1. told[k] \cup PaidWith(k) \in SUBSET Tickets
      BY <2>1, <1>5
    <3>2. \A j \in Keys : told'[j] = IF j = k THEN told[k] \cup PaidWith(k) ELSE told[j]
      BY <2>1, <2>3
    <3> QED
      BY <2>1, <2>3, <3>1, <3>2
  <2> QED
    BY <1>4, <2>2, <2>3
<1>7. TypeOK'
  BY <1>2, <1>3, <1>6 DEF TypeOK, drawVars, stateVars, flagVars, bookVars, scanVars
<1>8. PublishedDraws'
  BY <1>2 DEF PublishedDraws, drawVars
<1>9. SettledTicketsAgree' /\ PaidMatchesResults'
  BY <1>2 DEF SettledTicketsAgree, PaidMatchesResults, Verdict, Amount, Decided, OutcomeOf, CurrentCheck,
              drawVars, stateVars, bookVars
<1>10. BooksFollowStatus'
  BY <1>2 DEF BooksFollowStatus, stateVars, bookVars
<1>11. OnePayoutPerKey'
  BY <1>2, <1>5, <1>6 DEF OnePayoutPerKey, stateVars, bookVars
<1>12. InsideIsWinner'
  BY <1>3 DEF InsideIsWinner, TypeOK
<1> QED
  BY <1>7, <1>8, <1>9, <1>10, <1>11, <1>12

\* What a committing payout writes.
PaysTicket(t, k) ==
    /\ status[t] = "WINNER" /\ winning[t] > 0
    /\ IndexAdmits(k)
    /\ status' = [status EXCEPT ![t] = "PAID"]
    /\ paid' = [paid EXCEPT ![t] = winning[t]]
    /\ payKey' = [payKey EXCEPT ![t] = k]
    /\ posted' = [posted EXCEPT ![t] = @ \cup {"PAYOUT"}]
    /\ told' = [told EXCEPT ![k] = @ \cup {t}]
    /\ UNCHANGED <<drawVars, winning, checked, flagVars, checkedOpen, cancelling, reversed, adjusted, scanVars>>

\* The row a payout commits on is the one it has read: a winner, and its winnings.
LEMMA CommitPays ==
    ASSUME TicketInv, NEW p \in Payers, PayCommit(p)
    PROVE  /\ \E t \in Tickets, k \in Keys : PaysTicket(t, k)
           /\ payment' = [payment EXCEPT ![p] = Idle]
<1>1. payment[p].ticket \in Tickets /\ payment[p].key \in Keys
  BY PaymentFields DEF TicketInv, PayCommit
<1>2. payment[p].row.status = "WINNER" /\ payment[p].row.winning > 0
  BY DEF TicketInv, InsideIsWinner, PayCommit
<1>3. /\ status[payment[p].ticket] = payment[p].row.status
      /\ winning[payment[p].ticket] = payment[p].row.winning
  BY DEF PayCommit, Row
<1>4. PaysTicket(payment[p].ticket, payment[p].key)
  BY <1>2, <1>3 DEF PaysTicket, PayCommit
<1> QED
  BY <1>1, <1>4 DEF PayCommit

\* A payout pays what the ticket's current results make it worth, under a key no ticket has used.
LEMMA PayCommitStep == ASSUME TicketInv, NEW p \in Payers, PayCommit(p) PROVE TicketInv'
<1> USE DEF TicketInv
<1>1. PICK t \in Tickets, k \in Keys : PaysTicket(t, k)
  BY CommitPays
<1>2. payment' = [payment EXCEPT ![p] = Idle] /\ Idle \in Payments /\ Idle.at # "inside"
  BY CommitPays DEF Idle, Payments
<1> USE <1>1 DEF PaysTicket, drawVars
<1>3. Decided(t, drawStatus) /\ winning[t] = Amount(t, drawStatus, result)
  BY DEF SettledTicketsAgree, Verdict
<1>4. TypeOK'
  BY <1>2 DEF TypeOK, TicketStatus, flagVars, scanVars
<1>5. PublishedDraws'
  BY DEF PublishedDraws
<1>6. SettledTicketsAgree' /\ PaidMatchesResults'
  BY <1>3, OneTicketAgrees DEF TypeOK
<1>7. BooksFollowStatus'
  BY DEF BooksFollowStatus, TypeOK
<1>8. OnePayoutPerKey'
  <2>1. \A u \in Tickets : payKey'[u] = IF u = t THEN k ELSE payKey[u]
    BY DEF TypeOK
  <2>2. PaidWith(k) = {} /\ payKey[t] \notin Keys
    <3>1. status[t] # "PAID"
      OBVIOUS
    <3> QED
      BY <3>1 DEF IndexAdmits, OnePayoutPerKey, PaidWith
  <2>3. PaidWith(k)' = {t} /\ \A j \in Keys \ {k} : PaidWith(j)' = PaidWith(j)
    BY <2>1, <2>2 DEF PaidWith
  <2>4. told'[k] = told[k] \cup {t} /\ \A j \in Keys \ {k} : told'[j] = told[j]
    BY DEF TypeOK
  <2>5. told[k] = {}
    BY <2>2 DEF OnePayoutPerKey
  <2>6. \A u \in Tickets : payKey'[u] \in Keys => status'[u] = "PAID" /\ paid'[u] > 0
    BY <2>1 DEF OnePayoutPerKey, PaidWith, TypeOK
  <2> QED
    BY <2>3, <2>4, <2>5, <2>6 DEF OnePayoutPerKey, PaidWith
<1>9. InsideIsWinner'
  BY <1>2 DEF InsideIsWinner, TypeOK
<1> QED
  BY <1>4, <1>5, <1>6, <1>7, <1>8, <1>9

\* A publication reaches every settled ticket of its draw: one with a line on a draw that was not
\* published is PENDING, so it is evaluable.
LEMMA PublishStep == ASSUME TicketInv, NEW d \in Draws, NEW r \in Results, Publish(d, r) PROVE TicketInv'
<1> USE DEF TicketInv, Publish, callVars, payVars
<1>1. /\ drawStatus[d] # "RESULT_PUBLISHED"
      /\ \A e \in Draws \ {d} : /\ drawStatus'[e] = drawStatus[e]
                                /\ result'[e] = result[e]
                                /\ version'[e] = version[e]
  BY DEF Publishable, TypeOK
<1>2. PublishedDraws'
  BY <1>1 DEF PublishedDraws, TypeOK
<1>3. version' \in [Draws -> 0..MaxVersion]
  BY BoundAssumption DEF TypeOK
<1>4. TypeOK'
  <2>1. /\ status' \in [Tickets -> TicketStatus]
        /\ winning' \in [Tickets -> Nat]
        /\ checked' \in [Tickets -> [Draws -> 0..MaxVersion]]
    BY <1>2, <1>3, RecalculateType DEF PublishedDraws, TicketsForDraw
  <2> QED
    BY <2>1, <1>3 DEF TypeOK, DrawStatus, flagVars, callVars, bookVars, scanVars
<1>5. \A t \in Tickets \ TicketsForDraw(d) :
         status[t] \in {"PENDING", "WINNER", "LOSER", "PAID"} => d \notin DrawsOf[t]
  BY <1>1 DEF TicketsForDraw, Evaluable, PaidMatchesResults, Decided
<1>6. \A t \in Tickets \ TicketsForDraw(d) :
         status[t] \in {"PENDING", "WINNER", "LOSER", "PAID"} =>
             \A e \in DrawsOf[t] :
                 /\ drawStatus'[e] = "RESULT_PUBLISHED" <=> drawStatus[e] = "RESULT_PUBLISHED"
                 /\ result'[e] = result[e]
                 /\ version'[e] = version[e]
  BY <1>1, <1>5, TicketAssumption
<1>7. SettledTicketsAgree' /\ PaidMatchesResults' /\ BooksFollowStatus' /\ OnePayoutPerKey' /\ InsideIsWinner'
  <2>1. TicketsForDraw(d) \in SUBSET Tickets /\ \A t \in TicketsForDraw(d) : Evaluable(t)
    BY DEF TicketsForDraw
  <2> QED
    BY <1>2, <1>3, <1>6, <2>1, RecalculateAgrees
<1> QED
  BY <1>2, <1>4, <1>7

\* A correction is refused once a ticket of the draw is paid, and reaches every other settled one.
LEMMA EditResultStep ==
    ASSUME TicketInv, NEW d \in Draws, NEW r \in Results, EditResult(d, r)
    PROVE  TicketInv'
<1> USE DEF TicketInv, EditResult, callVars, payVars
<1>1. \A e \in Draws \ {d} : result'[e] = result[e] /\ version'[e] = version[e]
  BY DEF TypeOK
<1>2. PublishedDraws'
  BY <1>1 DEF PublishedDraws, TypeOK
<1>3. version' \in [Draws -> 0..MaxVersion]
  BY BoundAssumption DEF TypeOK
<1>4. TypeOK'
  <2>1. /\ status' \in [Tickets -> TicketStatus]
        /\ winning' \in [Tickets -> Nat]
        /\ checked' \in [Tickets -> [Draws -> 0..MaxVersion]]
    BY <1>2, <1>3, RecalculateType DEF PublishedDraws, TicketsForDraw
  <2> QED
    BY <2>1, <1>3, <1>1 DEF TypeOK, flagVars, callVars, bookVars, scanVars
<1>5. \A t \in Tickets \ TicketsForDraw(d) :
         status[t] \in {"PENDING", "WINNER", "LOSER", "PAID"} => d \notin DrawsOf[t]
  BY DEF TicketsForDraw, Evaluable, PaidMatchesResults, Unlocked, TypeOK
<1>6. \A t \in Tickets \ TicketsForDraw(d) :
         status[t] \in {"PENDING", "WINNER", "LOSER", "PAID"} =>
             \A e \in DrawsOf[t] :
                 /\ drawStatus'[e] = "RESULT_PUBLISHED" <=> drawStatus[e] = "RESULT_PUBLISHED"
                 /\ result'[e] = result[e]
                 /\ version'[e] = version[e]
  BY <1>1, <1>5, TicketAssumption
<1>7. SettledTicketsAgree' /\ PaidMatchesResults' /\ BooksFollowStatus' /\ OnePayoutPerKey' /\ InsideIsWinner'
  <2>1. TicketsForDraw(d) \in SUBSET Tickets /\ \A t \in TicketsForDraw(d) : Evaluable(t)
    BY DEF TicketsForDraw
  <2> QED
    BY <1>2, <1>3, <1>6, <2>1, RecalculateAgrees
<1> QED
  BY <1>2, <1>4, <1>7

\* The scan recalculates one ticket that is still stale when its turn comes, or none.
LEMMA ReconcileStep ==
    ASSUME TicketInv, NEW d \in Draws, NEW t \in Tickets, ReconcileTicket(d, t)
    PROVE  TicketInv'
<1> DEFINE S == {u \in {t} : Stale(u, d)}
<1>0. /\ S \in SUBSET Tickets
      /\ \A u \in S : Evaluable(u)
      /\ Recalculate(S, drawStatus, result, version)
      /\ UNCHANGED <<drawVars, flagVars, callVars, bookVars, toScan, starts>>
      /\ todo' \subseteq todo
  BY DEF ReconcileTicket, Stale
<1> HIDE DEF S
<1>1. drawStatus = drawStatus' /\ result = result' /\ version = version' /\ UNCHANGED <<clock, bookVars, payVars>>
  BY <1>0 DEF drawVars, callVars
<1>2. PublishedDraws'
  BY <1>1 DEF TicketInv, PublishedDraws
<1>3. version \in [Draws -> 0..MaxVersion]
  BY DEF TicketInv, TypeOK
<1>4. TypeOK'
  <2>1. /\ status' \in [Tickets -> TicketStatus]
        /\ winning' \in [Tickets -> Nat]
        /\ checked' \in [Tickets -> [Draws -> 0..MaxVersion]]
    BY <1>0, <1>3, RecalculateType DEF TicketInv, PublishedDraws
  <2> QED
    BY <1>0, <1>1, <2>1 DEF TicketInv, TypeOK, flagVars, callVars, payVars, bookVars
<1>5. SettledTicketsAgree' /\ PaidMatchesResults' /\ BooksFollowStatus' /\ OnePayoutPerKey' /\ InsideIsWinner'
  <2>1. version' \in [Draws -> 0..MaxVersion]
    BY <1>1, <1>3
  <2> QED
    BY <1>0, <1>1, <1>2, <2>1, RecalculateAgrees
<1> QED
  BY <1>2, <1>4, <1>5 DEF TicketInv

-----------------------------------------------------------------------------
\* Every step of every handler, job and scan preserves the invariant.
LEMMA NextInv == TicketInv /\ [Next]_vars => TicketInv'
<1> SUFFICES ASSUME TicketInv, [Next]_vars PROVE TicketInv'
  OBVIOUS
<1>1. CASE DrawStep
  BY <1>1, DrawStatusStep, QuietStep, PublishStep, EditResultStep DEF DrawStep
<1>2. ASSUME NEW t \in Tickets, TicketStep(t) PROVE TicketInv'
  BY <1>2, QuietStep, SellStep, ApplyCommissionStep, CancelStep DEF TicketStep
<1>5. CASE PayStep
  BY <1>5, PayLookStep, PayCommitStep DEF PayStep
<1>3. CASE ScanStep
  BY <1>3, QuietStep, ReconcileStep DEF ScanStep
<1>4. CASE UNCHANGED vars
  <2>1. TypeOK'
    BY <1>4 DEF vars, TicketInv, TypeOK, drawVars, stateVars, flagVars, callVars, payVars, bookVars, scanVars
  <2> QED
    BY <1>4, <2>1, FrameStep DEF vars, drawVars, callVars
<1> QED
  BY <1>1, <1>2, <1>3, <1>4, <1>5 DEF Next

\* In every reachable state the invariant holds, for any tickets, draws, results and keys.
THEOREM TicketInvariant == Spec => []TicketInv
  BY InitInv, NextInv, PTL DEF Spec

\* Every variable keeps its type.
THEOREM TypeCorrect == Spec => []TypeOK
<1>1. TicketInv => TypeOK
  BY DEF TicketInv
<1> QED
  BY <1>1, TicketInvariant, PTL

\* A settled ticket says what the published results of its draws say.
THEOREM SettledTicketsAlwaysAgree == Spec => []SettledTicketsAgree
<1>1. TicketInv => SettledTicketsAgree
  BY DEF TicketInv
<1> QED
  BY <1>1, TicketInvariant, PTL

\* What was paid is what the results still say.
THEOREM PaidAlwaysMatchesResults == Spec => []PaidMatchesResults
<1>1. TicketInv => PaidMatchesResults
  BY DEF TicketInv
<1> QED
  BY <1>1, TicketInvariant, PTL

\* Sale, commission, adjustment and payout entries stay in step with the ticket's status.
THEOREM BooksAlwaysFollowStatus == Spec => []BooksFollowStatus
<1>1. TicketInv => BooksFollowStatus
  BY DEF TicketInv
<1> QED
  BY <1>1, TicketInvariant, PTL

\* No payout key moves money twice.
THEOREM AlwaysOnePayoutPerKey == Spec => []OnePayoutPerKey
<1>1. TicketInv => OnePayoutPerKey
  BY DEF TicketInv
<1> QED
  BY <1>1, TicketInvariant, PTL

-----------------------------------------------------------------------------
\* Where a payout or a cancellation has been, no step of any handler, job or scan comes back.
LEMMA NextStaysFinal == TicketInv /\ [Next]_vars => [\A t \in Tickets : StaysFinal(t)]_vars
<1> SUFFICES ASSUME TicketInv, Next, NEW t \in Tickets PROVE StaysFinal(t)
  OBVIOUS
<1> DEFINE Kept == /\ status'[t] = status[t] /\ paid'[t] = paid[t] /\ payKey'[t] = payKey[t]
                   /\ \A d \in DrawsOf[t] : result'[d] = result[d] /\ drawStatus'[d] = drawStatus[d]
<1> USE DEF TicketInv
<1>1. SUFFICES ASSUME status[t] \in {"PAID", "CANCELLED"}
               PROVE  status'[t] = status[t] /\ (status[t] = "PAID" => Kept)
  BY DEF StaysFinal
<1>2. ASSUME NEW S \in SUBSET Tickets, NEW ds, NEW rs, NEW vs, Recalculate(S, ds, rs, vs), t \notin S
      PROVE  status'[t] = status[t] /\ winning'[t] = winning[t]
  BY <1>2 DEF Recalculate
<1>3. ~Evaluable(t) /\ DrawsOf[t] \subseteq Draws
  BY <1>1, TicketAssumption DEF Evaluable
<1>4. status[t] = "PAID" => paid[t] > 0 /\ \A d \in DrawsOf[t] : drawStatus[d] = "RESULT_PUBLISHED"
  BY DEF PaidMatchesResults, Decided
<1>5. CASE DrawStep
  <2> USE DEF stateVars, bookVars
  <2>1. CASE DrawsJob
    BY <2>1, <1>3, <1>4 DEF DrawsJob, JobStatus
  <2>2. ASSUME NEW d \in Draws, Tick(d) PROVE Kept
    BY <2>2 DEF Tick
  <2>3. ASSUME NEW d \in Draws, NEW next \in DrawStatus, Transition(d, next)
        PROVE  status'[t] = status[t] /\ (status[t] = "PAID" => Kept)
    <3>1. drawStatus[d] # "RESULT_PUBLISHED"
      BY <2>3 DEF Transition, Transitions
    <3> QED
      BY <2>3, <3>1, <1>3, <1>4 DEF Transition, TypeOK
  <2>4. ASSUME NEW d \in Draws, NEW r \in Results, Publish(d, r)
        PROVE  status'[t] = status[t] /\ (status[t] = "PAID" => Kept)
    <3>1. status'[t] = status[t]
      BY <2>4, <1>2, <1>3 DEF Publish, TicketsForDraw
    <3>2. status[t] = "PAID" => d \notin DrawsOf[t]
      BY <2>4, <1>4 DEF Publish, Publishable
    <3> QED
      BY <2>4, <3>1, <3>2, <1>3 DEF Publish, TypeOK
  <2>5. ASSUME NEW d \in Draws, NEW r \in Results, EditResult(d, r)
        PROVE  status'[t] = status[t] /\ (status[t] = "PAID" => Kept)
    <3>1. status'[t] = status[t]
      BY <2>5, <1>2, <1>3 DEF EditResult, TicketsForDraw
    <3>2. status[t] = "PAID" => d \notin DrawsOf[t]
      BY <2>5, <1>4 DEF EditResult, Unlocked
    <3> QED
      BY <2>5, <3>1, <3>2, <1>3 DEF EditResult, TypeOK
  <2> QED
    BY <1>5, <2>1, <2>2, <2>3, <2>4, <2>5 DEF DrawStep
<1>6. ASSUME NEW u \in Tickets, TicketStep(u) PROVE Kept
  <2> USE DEF drawVars, stateVars, bookVars
  <2>1. CASE \/ \E d \in Draws : CheckDraw(u, d)
             \/ WindowLapses(u) \/ BeginCancel(u) \/ CancelRefused(u)
             \/ \E byMerchant \in BOOLEAN : DeleteTicket(u, byMerchant)
    BY <2>1 DEF CheckDraw, WindowLapses, BeginCancel, CancelRefused, DeleteTicket
  <2>2. CASE Sell(u) \/ ApplyCommission(u)
    BY <2>2, <1>1 DEF Sell, ApplyCommission, TypeOK
  <2>3. CASE MerchantCancel(u) \/ OwnerCancel(u)
    BY <2>3, <1>1 DEF MerchantCancel, OwnerCancel, Refund, Untouched, TypeOK
  <2> QED
    BY <1>6, <2>1, <2>2, <2>3 DEF TicketStep
<1>8. CASE PayStep
  <2> USE DEF drawVars, stateVars, bookVars
  <2>1. CASE \/ \E p \in Payers, u \in Tickets, k \in Keys : PayRead(p, u, k)
             \/ \E p \in Payers : PaySnapshot(p) \/ PayFails(p)
    BY <2>1 DEF PayRead, PaySnapshot, PayFails
  <2>2. ASSUME NEW p \in Payers, PayCommit(p) PROVE Kept
    <3>1. PICK u \in Tickets, k \in Keys : PaysTicket(u, k)
      BY <2>2, CommitPays
    <3> QED
      BY <3>1, <1>1 DEF PaysTicket, TypeOK
  <2> QED
    BY <1>8, <2>1, <2>2 DEF PayStep
<1>7. CASE ScanStep
  <2> USE DEF drawVars, stateVars, bookVars
  <2>1. CASE StartScan \/ \E d \in Draws : ScanDraw(d)
    BY <2>1 DEF StartScan, ScanDraw
  <2>2. ASSUME NEW d \in Draws, NEW u \in Tickets, ReconcileTicket(d, u) PROVE Kept
    <3>1. /\ {v \in {u} : Stale(v, d)} \in SUBSET Tickets
          /\ t \notin {v \in {u} : Stale(v, d)}
      BY <1>3 DEF Stale
    <3> QED
      BY <2>2, <3>1, <1>2 DEF ReconcileTicket
  <2> QED
    BY <1>7, <2>1, <2>2 DEF ScanStep
<1> QED
  BY <1>5, <1>6, <1>7, <1>8 DEF Next

\* After a payout neither the ticket, nor its payout, nor the result of any of its draws changes;
\* a cancelled ticket stays cancelled.
THEOREM PaidAlwaysFinal == Spec => PaidIsFinal
  BY TicketInvariant, NextStaysFinal, PTL DEF Spec, PaidIsFinal
-----------------------------------------------------------------------------
(* The refinement. *)

\* Sold, the ticket's journals are worth its stake; refunded, nothing; paid, the stake less the payout.
CashAgrees ==
    \A t \in Tickets :
        CashOf(t) = IF status[t] \in {"NONE", "CANCELLED"} THEN 0
                    ELSE IF status[t] = "PAID" THEN 1 - paid[t] ELSE 1

\* The cash of a ticket is a function of its status and its payout (BooksFollowStatus).
LEMMA CashFollowsStatus == TicketInv => CashAgrees
<1> SUFFICES ASSUME TicketInv, NEW t \in Tickets
             PROVE  CashOf(t) = IF status[t] \in {"NONE", "CANCELLED"} THEN 0
                                ELSE IF status[t] = "PAID" THEN 1 - paid[t] ELSE 1
  BY DEF CashAgrees
<1> USE DEF TicketInv
<1>1. /\ "SALE" \in posted[t] <=> status[t] \notin {"NONE", "CANCELLED"}
      /\ "PAYOUT" \in posted[t] <=> status[t] = "PAID"
      /\ "SALE" \in reversed[t] <=> status[t] = "CANCELLED"
      /\ "SALE" \in adjusted[t] <=> status[t] = "CANCELLED"
  BY DEF BooksFollowStatus
<1>2. paid[t] \in Nat /\ status[t] \in TicketStatus
  BY DEF TypeOK
<1> QED
  BY <1>1, <1>2 DEF CashOf, UnitStake

\* The same in the next state.
LEMMA CashFollowsStatusNext == TicketInv' => CashAgrees'
  BY CashFollowsStatus, PTL

\* Unsold tickets map to unsold tickets that have brought nothing.
LEMMA InitKeepsPromise == Init => Promise!PromiseInit
<1> SUFFICES ASSUME Init PROVE Promise!PromiseInit
  OBVIOUS
<1>1. \A t \in Tickets : PhaseOf[status[t]] = "unsold" /\ winning[t] = 0 /\ CashOf(t) = 0
  BY InitInv, CashFollowsStatus DEF CashAgrees, Init, PhaseOf
<1> QED
  BY <1>1 DEF Promise!PromiseInit

\* A step that changes neither statuses, winning rows nor the money of a ticket is a stutter.
LEMMA StutterKeepsPromise ==
    ASSUME UNCHANGED <<status, winning>>, \A t \in Tickets : CashOf(t)' = CashOf(t)
    PROVE  UNCHANGED Promise!promiseVars
  BY DEF Promise!promiseVars

\* A recalculation decides tickets, and moves no money (publish, editPlatform, reconcileOneTicket).
LEMMA RecalculateKeepsPromise ==
    ASSUME TicketInv, TicketInv', NEW S \in SUBSET Tickets, NEW ds, NEW rs, NEW vs,
           Recalculate(S, ds, rs, vs), \A t \in S : Evaluable(t), UNCHANGED bookVars,
           ds = drawStatus',
           \A d \in Draws : drawStatus[d] = "RESULT_PUBLISHED" => drawStatus'[d] = "RESULT_PUBLISHED"
    PROVE  Promise!DecideTickets
<1> USE DEF TicketInv
<1>1. ASSUME NEW t \in Tickets
      PROVE  /\ winning'[t] \in Nat
             /\ PhaseOf[status'[t]] \in Promise!PhaseSet
             /\ Promise!MayBecome(t, PhaseOf[status'[t]])
             /\ status'[t] = "WINNER" => winning'[t] > 0
             /\ status'[t] \notin {"WINNER", "PAID"} => winning'[t] = 0
             /\ status[t] = "PAID" => winning'[t] = winning[t]
  <2>1. winning'[t] \in Nat /\ status'[t] \in TicketStatus /\ status[t] \in TicketStatus
    BY DEF TypeOK
  <2>2. status'[t] = status[t] \/ (Evaluable(t) /\ status'[t] = Verdict(t, ds, rs))
    BY DEF Recalculate
  <2>3. status[t] \in {"WINNER", "LOSER"} => Decided(t, ds)
    <3>1. status[t] \in {"WINNER", "LOSER"} => Decided(t, drawStatus)
      BY DEF SettledTicketsAgree, Verdict
    <3> QED
      BY <3>1, TicketAssumption DEF Decided
  <2>4. \/ status'[t] = status[t]
        \/ status[t] \in {"VALID", "PENDING"} /\ status'[t] \in {"PENDING", "WINNER", "LOSER"}
        \/ status[t] \in {"WINNER", "LOSER"} /\ status'[t] \in {"WINNER", "LOSER"}
    BY <2>2, <2>3 DEF Evaluable, Verdict
  <2>5. /\ status'[t] = "WINNER" => winning'[t] > 0
        /\ status'[t] \notin {"WINNER", "PAID"} => winning'[t] = 0
    <3>1. status'[t] \in {"PENDING", "WINNER", "LOSER"} =>
              /\ status'[t] = Verdict(t, drawStatus', result')
              /\ winning'[t] = Amount(t, drawStatus', result')
      BY DEF SettledTicketsAgree
    <3>2. status'[t] \in {"NONE", "VALID", "CANCELLED"} => winning'[t] = 0
      BY DEF SettledTicketsAgree
    <3>3. status'[t] = "WINNER" => winning'[t] > 0
      BY <3>1 DEF Verdict
    <3>4. status'[t] = "PENDING" => winning'[t] = 0
      BY <3>1 DEF Verdict, Amount
    <3>5. status'[t] = "LOSER" => winning'[t] = 0
      BY <3>1, <2>1 DEF Verdict
    <3> QED
      BY <3>2, <3>3, <3>4, <3>5, <2>1 DEF TicketStatus
  <2>6. status[t] = "PAID" => winning'[t] = winning[t]
    BY DEF Recalculate, Evaluable
  <2>7. PhaseOf[status'[t]] \in Promise!PhaseSet
    BY <2>1 DEF TicketStatus, PhaseOf, Promise!PhaseSet
  <2>8. Promise!MayBecome(t, PhaseOf[status'[t]])
    BY <2>1, <2>4 DEF TicketStatus, PhaseOf, Promise!MayBecome
  <2> QED
    BY <2>1, <2>5, <2>6, <2>7, <2>8
<1>2. \A t \in Tickets : CashOf(t)' = CashOf(t)
  BY DEF CashOf, bookVars
<1>3. \A t \in Tickets : /\ status[t] \in TicketStatus /\ status'[t] \in TicketStatus
                         /\ PhaseOf[status'[t]] = "won" <=> status'[t] = "WINNER"
                         /\ PhaseOf[status'[t]] = "paid" <=> status'[t] = "PAID"
                         /\ PhaseOf[status[t]] = "paid" <=> status[t] = "PAID"
  BY DEF TypeOK, TicketStatus, PhaseOf
<1> QED
  BY <1>1, <1>2, <1>3 DEF Promise!DecideTickets

\* A sale is the promise's sale, for one stake (create).
LEMMA SellKeepsPromise ==
    ASSUME TicketInv, TicketInv', NEW t \in Tickets, Sell(t)
    PROVE  Promise!SellTicket(t)
<1> USE DEF TicketInv
<1>1. /\ status[t] = "NONE" /\ status' = [status EXCEPT ![t] = "VALID"] /\ winning' = winning
      /\ status \in [Tickets -> TicketStatus] /\ status' \in [Tickets -> TicketStatus] /\ paid' = paid
  BY DEF Sell, TypeOK
<1>2. \A u \in Tickets : CashOf(u)' = IF u = t THEN UnitStake[t] ELSE CashOf(u)
  <2>1. CashOf(t)' = 1
    BY <1>1, CashFollowsStatusNext DEF CashAgrees
  <2>2. \A u \in Tickets \ {t} : CashOf(u)' = CashOf(u)
    BY <1>1 DEF Sell, CashOf, TypeOK
  <2> QED
    BY <2>1, <2>2 DEF UnitStake
<1>3. [u \in Tickets |-> CashOf(u)]' = [[u \in Tickets |-> CashOf(u)] EXCEPT ![t] = UnitStake[t]]
  BY <1>2
<1>4. [u \in Tickets |-> PhaseOf[status[u]]]' = [[u \in Tickets |-> PhaseOf[status[u]]] EXCEPT ![t] = "open"]
  BY <1>1 DEF PhaseOf
<1> QED
  BY <1>1, <1>3, <1>4 DEF Promise!SellTicket, PhaseOf

\* Either cancellation is the promise's refund: the swapped entries give the stake back (cancel).
LEMMA CancelKeepsPromise ==
    ASSUME TicketInv, TicketInv', NEW t \in Tickets, MerchantCancel(t) \/ OwnerCancel(t)
    PROVE  Promise!RefundTicket(t)
<1> USE DEF TicketInv
<1>1. /\ status[t] = "VALID" /\ status' = [status EXCEPT ![t] = "CANCELLED"] /\ winning' = winning
      /\ status \in [Tickets -> TicketStatus] /\ status' \in [Tickets -> TicketStatus] /\ paid' = paid
      /\ \A u \in Tickets \ {t} : /\ posted'[u] = posted[u] /\ reversed'[u] = reversed[u]
                                  /\ adjusted'[u] = adjusted[u]
  BY DEF MerchantCancel, OwnerCancel, Refund, Untouched, TypeOK
<1>2. \A u \in Tickets : CashOf(u)' = IF u = t THEN 0 ELSE CashOf(u)
  <2>1. CashOf(t)' = 0
    BY <1>1, CashFollowsStatusNext DEF CashAgrees
  <2>2. \A u \in Tickets \ {t} : CashOf(u)' = CashOf(u)
    BY <1>1 DEF CashOf
  <2> QED
    BY <2>1, <2>2
<1>3. [u \in Tickets |-> CashOf(u)]' = [[u \in Tickets |-> CashOf(u)] EXCEPT ![t] = 0]
  BY <1>2
<1>4. [u \in Tickets |-> PhaseOf[status[u]]]' = [[u \in Tickets |-> PhaseOf[status[u]]] EXCEPT ![t] = "refunded"]
  BY <1>1 DEF PhaseOf
<1> QED
  BY <1>1, <1>3, <1>4 DEF Promise!RefundTicket, PhaseOf

\* A payout is the promise's payment, of exactly the prize (pay).
LEMMA PayKeepsPromise ==
    ASSUME TicketInv, TicketInv', NEW t \in Tickets, NEW k \in Keys, PaysTicket(t, k)
    PROVE  Promise!PayTicket(t)
<1> USE DEF TicketInv
<1>1. /\ status[t] = "WINNER" /\ status' = [status EXCEPT ![t] = "PAID"] /\ winning' = winning
      /\ status \in [Tickets -> TicketStatus] /\ status' \in [Tickets -> TicketStatus]
      /\ paid'[t] = winning[t] /\ reversed' = reversed /\ adjusted' = adjusted
      /\ \A u \in Tickets \ {t} : posted'[u] = posted[u] /\ paid'[u] = paid[u]
  BY DEF PaysTicket, TypeOK
<1>2. \A u \in Tickets : CashOf(u)' = IF u = t THEN UnitStake[t] - winning[t] ELSE CashOf(u)
  <2>1. CashOf(t)' = 1 - winning[t]
    BY <1>1, CashFollowsStatusNext DEF CashAgrees
  <2>2. \A u \in Tickets \ {t} : CashOf(u)' = CashOf(u)
    BY <1>1 DEF CashOf
  <2> QED
    BY <2>1, <2>2 DEF UnitStake
<1>3. [u \in Tickets |-> CashOf(u)]'
          = [[u \in Tickets |-> CashOf(u)] EXCEPT ![t] = UnitStake[t] - winning[t]]
  BY <1>2
<1>4. [u \in Tickets |-> PhaseOf[status[u]]]' = [[u \in Tickets |-> PhaseOf[status[u]]] EXCEPT ![t] = "paid"]
  BY <1>1 DEF PhaseOf
<1> QED
  BY <1>1, <1>3, <1>4 DEF Promise!PayTicket, PhaseOf

\* Every step of every handler, job and scan is a step of the promise or changes nothing it speaks of.
LEMMA NextKeepsPromise ==
    TicketInv /\ TicketInv' /\ [Next]_vars => [Promise!PromiseNext]_(Promise!promiseVars)
<1> SUFFICES ASSUME TicketInv, TicketInv', [Next]_vars
             PROVE  Promise!PromiseNext \/ UNCHANGED Promise!promiseVars
  OBVIOUS
<1> USE DEF drawVars, stateVars, bookVars
<1>1. CASE UNCHANGED vars
  BY <1>1, StutterKeepsPromise DEF vars, CashOf
<1>2. CASE DrawStep
  <2>1. CASE DrawsJob \/ \E d \in Draws : Tick(d) \/ \E next \in DrawStatus : Transition(d, next)
    BY <2>1, StutterKeepsPromise DEF DrawsJob, Tick, Transition, CashOf
  <2>2. ASSUME NEW d \in Draws, NEW r \in Results, Publish(d, r) PROVE Promise!DecideTickets
    <3>1. /\ TicketsForDraw(d) \in SUBSET Tickets
          /\ \A t \in TicketsForDraw(d) : Evaluable(t)
      BY DEF TicketsForDraw
    <3>2. \A e \in Draws : drawStatus[e] = "RESULT_PUBLISHED" => drawStatus'[e] = "RESULT_PUBLISHED"
      BY <2>2 DEF Publish, TicketInv, TypeOK
    <3>3. UNCHANGED bookVars /\ Recalculate(TicketsForDraw(d), drawStatus', result', version')
      BY <2>2 DEF Publish
    <3> QED
      BY <3>1, <3>2, <3>3, RecalculateKeepsPromise
  <2>3. ASSUME NEW d \in Draws, NEW r \in Results, EditResult(d, r) PROVE Promise!DecideTickets
    <3>1. /\ TicketsForDraw(d) \in SUBSET Tickets
          /\ \A t \in TicketsForDraw(d) : Evaluable(t)
      BY DEF TicketsForDraw
    <3>2. UNCHANGED bookVars /\ Recalculate(TicketsForDraw(d), drawStatus, result', version')
          /\ drawStatus = drawStatus'
      BY <2>3 DEF EditResult
    <3> QED
      BY <3>1, <3>2, RecalculateKeepsPromise
  <2> QED
    BY <1>2, <2>1, <2>2, <2>3 DEF DrawStep, Promise!PromiseNext
<1>3. ASSUME NEW t \in Tickets, TicketStep(t) PROVE Promise!PromiseNext \/ UNCHANGED Promise!promiseVars
  <2>1. CASE \/ \E d \in Draws : CheckDraw(t, d)
             \/ WindowLapses(t) \/ BeginCancel(t) \/ CancelRefused(t)
             \/ \E byMerchant \in BOOLEAN : DeleteTicket(t, byMerchant)
    BY <2>1, StutterKeepsPromise DEF CheckDraw, WindowLapses, BeginCancel, CancelRefused, DeleteTicket, CashOf
  <2>2. CASE ApplyCommission(t)
    <3>1. \A u \in Tickets : CashOf(u)' = CashOf(u)
      BY <2>2 DEF ApplyCommission, CashOf, TicketInv, TypeOK
    <3> QED
      BY <2>2, <3>1, StutterKeepsPromise DEF ApplyCommission
  <2>3. CASE Sell(t)
    BY <2>3, SellKeepsPromise DEF Promise!PromiseNext
  <2>4. CASE MerchantCancel(t) \/ OwnerCancel(t)
    BY <2>4, CancelKeepsPromise DEF Promise!PromiseNext
  <2> QED
    BY <1>3, <2>1, <2>2, <2>3, <2>4 DEF TicketStep, Promise!PromiseNext
<1>5. CASE PayStep
  <2>1. CASE \/ \E p \in Payers, u \in Tickets, k \in Keys : PayRead(p, u, k)
             \/ \E p \in Payers : PaySnapshot(p) \/ PayFails(p)
    BY <2>1, StutterKeepsPromise DEF PayRead, PaySnapshot, PayFails, CashOf
  <2>2. ASSUME NEW p \in Payers, PayCommit(p) PROVE Promise!PromiseNext
    <3>1. PICK t \in Tickets, k \in Keys : PaysTicket(t, k)
      BY <2>2, CommitPays
    <3> QED
      BY <3>1, PayKeepsPromise DEF Promise!PromiseNext
  <2> QED
    BY <1>5, <2>1, <2>2 DEF PayStep
<1>4. CASE ScanStep
  <2>1. CASE StartScan \/ \E d \in Draws : ScanDraw(d)
    BY <2>1, StutterKeepsPromise DEF StartScan, ScanDraw, CashOf
  <2>2. ASSUME NEW d \in Draws, NEW t \in Tickets, ReconcileTicket(d, t) PROVE Promise!DecideTickets
    <3>1. /\ {u \in {t} : Stale(u, d)} \in SUBSET Tickets
          /\ \A u \in {u \in {t} : Stale(u, d)} : Evaluable(u)
      BY DEF Stale
    <3>2. /\ UNCHANGED bookVars /\ Recalculate({u \in {t} : Stale(u, d)}, drawStatus, result, version)
          /\ drawStatus = drawStatus'
      BY <2>2 DEF ReconcileTicket
    <3> QED
      BY <3>1, <3>2, RecalculateKeepsPromise
  <2> QED
    BY <1>4, <2>1, <2>2 DEF ScanStep, Promise!PromiseNext
<1> QED
  BY <1>1, <1>2, <1>3, <1>4, <1>5 DEF Next

\* The ticket service implements the promise: the money of a ticket moves with its sale, its refund
\* and its payout, for the amounts the promise says, and with nothing else.
THEOREM TicketServiceKeepsPromise == Spec => KeepsPromise
  BY InitKeepsPromise, NextKeepsPromise, TicketInvariant, PTL DEF Spec, KeepsPromise, Promise!PromiseSpec
=============================================================================
