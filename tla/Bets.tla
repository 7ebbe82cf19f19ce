-------------------------------- MODULE Bets --------------------------------
(***************************************************************************)
(* One bet from its sale to its prize: services/api/src/tickets/           *)
(* (ticket-policy.ts, free-maryaj-policy.ts, ticket-line-flags.ts, and the *)
(* create and checkLimits of tickets.service.ts and multi-ticket.service.ts*)
(* ), results/result-payout-policy.ts and the odds of                      *)
(* lottery/lottery.service.ts.                                             *)
(*                                                                         *)
(* A ball, a result key and a selection of a LOTO game are the numbers they*)
(* are compared as, without leading zeros.  A sale is two steps: it reads  *)
(* odds and blocked numbers, draws the free Maryaj and prices, and later   *)
(* checks the limits and commits.  Odds and blocked numbers change between *)
(* any two steps, and a change of the payouts is itself two: it is dated,  *)
(* and later entered.                                                      *)
(***************************************************************************)
EXTENDS Integers, Sequences, FiniteSets, SequencesExt, FiniteSetsExt

CONSTANTS
    Balls,        \* the balls free pairs are drawn from
    Offers,       \* the bets asked for: [code, sel, pos, stake, multi]
    Results,      \* the sequences of winning keys that may be published
    Blocks,       \* the rules blockNumber may enter: [number, pos, code]
    Payouts,      \* the triples of Bolet multipliers that may be configured
    General,      \* the multiplier of the rule without a position
    FreeMinimum,  \* freePolicy.minimumAmount
    FreeCount,    \* freePolicy.freeTicketCount
    MaxClock,     \* bound: number of dated events
    MaxRules,     \* bound: blocked numbers at a time
    MaxChanges    \* bound: changes of the payouts under way

ASSUME BetsAssumption ==
    /\ Balls \subseteq 0..99
    /\ General \in Nat \ {0} /\ FreeMinimum \in Nat \ {0}
    /\ FreeCount \in 1..10 /\ MaxClock \in Nat /\ MaxRules \in Nat /\ MaxChanges \in Nat
    /\ Payouts \subseteq [1..3 -> Nat \ {0}] /\ Results \subseteq Seq(Nat)
    \* validateSelection wants two balls of a Maryaj, priceLines a stake, blockNumber takes one number or two
    /\ \A o \in Offers : (o.code = "MARYAJ" => DOMAIN o.sel = 1..2) /\ o.stake \in Nat \ {0}
    /\ \A r \in Blocks : Len(r.number) \in 1..2

VARIABLES
    rules,      \* BettingLimit rows of scope NUMBER, maxStake 0, in force
    odds,       \* OddsRule rows of BOLET: [pos, mult, starts, ends]
    changes,    \* changes of the payouts that are dated and not yet entered: [at, mult]
    clock,
    step,       \* "idle", "priced", "refused", "sold" or "evaluated"
    bet,        \* the paid line, as priced
    free,       \* the free Maryaj pairs drawn
    known,      \* the blocked numbers the free pairs were drawn against
    created,    \* createdAt of the ticket
    quoted,     \* ghost: multiplier of each rank in force when the ticket was created
    keys,       \* the published winning keys, or <<>>
    prize,      \* the prize of the paid line at its last evaluation
    backdated   \* ghost: a rule entered by hand started in the past, or new payouts before a ticket sold already

saleVars == <<step, bet, free, known, created, quoted>>
vars == <<rules, odds, changes, clock, saleVars, keys, prize, backdated>>

Forever == MaxClock + 1
NoBet == [code |-> "NONE", sel |-> <<>>, pos |-> 0, stake |-> 0, odds |-> 0]
RankOf == 1..3                                   \* the ranks that have payouts
Ranks == UNION {DOMAIN ks : ks \in Results}      \* a result may have more keys, or fewer

-----------------------------------------------------------------------------
(* Odds. *)

InForce(table, at) == {o \in table : o.starts <= at /\ at < o.ends}
Newest(S) == CHOOSE o \in S : \A p \in S : p.starts <= o.starts

\* The rule of a rank among those in force, else the general one, else what the line was sold at.
Multiplier(table, rank, at, sold) ==
    LET mine == {o \in InForce(table, at) : o.pos = rank}
        any == {o \in InForce(table, at) : o.pos = 0}
    IN IF mine # {} THEN Newest(mine).mult ELSE IF any # {} THEN Newest(any).mult ELSE sold

-----------------------------------------------------------------------------
(* Selections. *)

DoubleBalls == {n \in 0..99 : n % 11 = 0}
ValidFor(b) == b.code = "BOUL_PE" => Len(b.sel) = 1 /\ b.sel[1] \in DoubleBalls

\* tickets.service.ts takes a position for a LOTO only; multi-ticket.service.ts gives every Bolet one.
PositionOf(o) == IF o.multi /\ o.code = "BOLET" /\ o.pos = 0 THEN 1 ELSE o.pos
PositionTaken(o) ==
    /\ o.pos \in 0..3
    /\ ~o.multi => o.pos = 0 \/ o.code \in {"LOTO3", "LOTO4", "LOTO5"}

\* The last two characters of a three-digit key against a ball whose leading zero is gone.
LastTwo(key, ball) == key \in 100..999 /\ ball >= 10 /\ key % 100 = ball

\* The ranks a Bolet or a Boul Pe wins at.
WinningPositions(b, ks) ==
    IF b.code \notin {"BOLET", "BOUL_PE"} THEN {}
    ELSE {i \in DOMAIN ks : /\ b.pos \in {0, i}
                            /\ ks[i] = b.sel[1] \/ LastTwo(ks[i], b.sel[1])}

WinCount(b, ks) ==
    CASE b.code = "MARYAJ" -> IF \A i \in 1..2 : b.sel[i] \in ToSet(ks) THEN 1 ELSE 0
      [] b.code \in {"BOLET", "BOUL_PE"} -> Cardinality(WinningPositions(b, ks))
      [] OTHER -> IF \E i \in DOMAIN ks : b.pos \in {0, i} /\ ks[i] = b.sel[1] THEN 1 ELSE 0

\* The matches without the rule for a three-digit key.
MatchedWhole(b, ks) ==
    LET ranks == IF b.code = "BOLET" THEN DOMAIN ks \cap RankOf ELSE {i \in DOMAIN ks : b.pos \in {0, i}}
    IN IF b.code = "MARYAJ" THEN {i \in DOMAIN ks : ks[i] \in ToSet(b.sel)} ELSE {i \in ranks : ks[i] = b.sel[1]}

\* The keys the presented ticket points at as the matches of a line that won.
MatchedKeys(b, ks) ==
    LET ranks == IF b.code = "BOLET" THEN DOMAIN ks \cap RankOf
                 ELSE {i \in DOMAIN ks : b.pos \in {0, i}}
    IN CASE b.code \in {"BOLET", "BOUL_PE"} -> {i \in ranks : ks[i] = b.sel[1] \/ LastTwo(ks[i], b.sel[1])}
         [] b.code = "MARYAJ" -> IF \A i \in 1..2 : b.sel[i] \in ToSet(ks)
                                 THEN {i \in DOMAIN ks : ks[i] \in ToSet(b.sel)} ELSE {}
         [] OTHER -> {i \in ranks : ks[i] = b.sel[1]}

\* What the odds in force at the evaluation would pay.
RateNow(b, rank, at) == IF b.code = "BOLET" THEN Multiplier(odds, rank, clock, b.odds) ELSE General

\* Only a Bolet has rules per rank here, and the general rules stay as they are.
Rate(b, rank, at) == IF b.code = "BOLET" THEN Multiplier(odds, rank, at, b.odds) ELSE General

\* A stake at a rate per rank, over the ranks won.
PaidAt(stake, rate) == SumFunction([i \in DOMAIN rate |-> stake * rate[i]])

LineWinningAmount(b, ks, at) ==
    IF WinCount(b, ks) = 0 THEN 0
    ELSE IF b.code \notin {"BOLET", "BOUL_PE"} THEN b.stake * b.odds * WinCount(b, ks)
    ELSE PaidAt(b.stake, [i \in WinningPositions(b, ks) |-> Rate(b, i, at)])

-----------------------------------------------------------------------------
(* Blocked numbers. *)

\* Whether a rule concerns a line: a Maryaj whatever its order and position, a single ball either ball of it.
BlockMatches(r, b) ==
    IF b.code = "MARYAJ"
    THEN IF Len(r.number) = 1 THEN r.number[1] \in ToSet(b.sel) ELSE ToSet(r.number) = ToSet(b.sel)
    ELSE r.pos \in {0, b.pos} /\ r.number = b.sel

NumberBlocked(b) == \E r \in rules : r.code \in {"ANY", b.code} /\ BlockMatches(r, b)

FreeLine(p) == [code |-> "MARYAJ", sel |-> p, pos |-> 0, stake |-> 1, odds |-> General]

\* The pairs if a blocked pair were compared in the order it was written.
DrawableInOrder(read) ==
    {p \in Balls \X Balls :
        p[1] # p[2] /\ \A r \in read : r.code \in {"ANY", "MARYAJ"} =>
            IF Len(r.number) = 2 THEN r.number # p ELSE r.number[1] \notin {p[1], p[2]}}

\* The pairs randomFreeMaryajSelections may keep, given the rules read.
Drawable(read) ==
    {p \in Balls \X Balls :
        /\ p[1] # p[2]
        /\ \A r \in read : r.code \in {"ANY", "MARYAJ"} =>
              IF Len(r.number) = 2 THEN ToSet(r.number) # {p[1], p[2]}
              ELSE r.number[1] \notin {p[1], p[2]}}

\* Any FreeCount of them, no two the same pair of balls.
Draws(read) ==
    {S \in kSubset(FreeCount, Drawable(read)) :
        \A p, q \in S : {p[1], p[2]} = {q[1], q[2]} => p = q}

-----------------------------------------------------------------------------
Init ==
    /\ rules = {} /\ changes = {} /\ clock = 0
    /\ odds = {[pos |-> 0, mult |-> General, starts |-> 0, ends |-> Forever]}
    /\ step = "idle" /\ bet = NoBet /\ free = {} /\ known = {} /\ created = 0
    /\ quoted = [i \in Ranks |-> 0]
    /\ keys = <<>> /\ prize = 0 /\ backdated = FALSE

\* No two dated events share a millisecond.
Tick == clock < MaxClock /\ clock' = clock + 1

\* bound: the rules stay as they are once the sale is decided, for they concern no later step.
Deciding == step \in {"idle", "priced"}

BlockNumber(r) ==
    /\ Deciding /\ r \notin rules /\ Cardinality(rules) < MaxRules
    /\ rules' = rules \union {r}
    /\ UNCHANGED <<odds, changes, clock, saleVars, keys, prize, backdated>>

SetLimitStatus(r) ==
    /\ Deciding /\ r \in rules
    /\ rules' = rules \ {r}
    /\ UNCHANGED <<odds, changes, clock, saleVars, keys, prize, backdated>>

Decided == step \in {"sold", "evaluated"}

\* updateBoletPayouts reads `now` before its transaction.
DatePayouts(m) ==
    /\ Cardinality(changes) < MaxChanges /\ Tick
    /\ changes' = changes \union {[at |-> clock', mult |-> m]}
    /\ UNCHANGED <<rules, odds, saleVars, keys, prize, backdated>>

\* The transaction ends the rules of the three ranks in force at that time and enters three new ones from it on.
UpdateBoletPayouts(c) ==
    LET old == {o \in InForce(odds, c.at) : o.pos \in RankOf}
    IN /\ changes' = changes \ {c}
       /\ odds' = (odds \ old) \union {[o EXCEPT !.ends = c.at] : o \in old}
                  \union {[pos |-> i, mult |-> c.mult[i], starts |-> c.at, ends |-> Forever] : i \in RankOf}
       /\ backdated' = (backdated \/ (Decided /\ c.at <= created))
       /\ UNCHANGED <<rules, clock, saleVars, keys, prize>>

\* createOdds enters a rule with the start it is given.
CreateOdds(i, m, starts) ==
    /\ Tick
    /\ odds' = odds \union {[pos |-> i, mult |-> m[i], starts |-> starts, ends |-> Forever]}
    /\ backdated' = (backdated \/ starts < clock')
    /\ UNCHANGED <<rules, changes, saleVars, keys, prize>>

\* The reads of create: the price, and the free Maryaj the stake earns.
Price(o) ==
    LET pos == PositionOf(o)
        rank == IF o.code = "BOLET" /\ pos = 0 THEN 1 ELSE pos
        line == [code |-> o.code, sel |-> o.sel, pos |-> pos, stake |-> o.stake,
                 odds |-> IF o.code = "BOLET" THEN Multiplier(odds, rank, clock, General) ELSE General]
    IN /\ step = "idle" /\ keys = <<>>
       /\ PositionTaken(o) /\ ValidFor(o)
       /\ bet' = line /\ known' = rules
       /\ IF o.stake < FreeMinimum THEN free' = {} /\ step' = "priced"
          ELSE IF Draws(rules) = {} THEN free' = {} /\ step' = "refused"
          ELSE step' = "priced" /\ \E S \in Draws(rules) : free' = S
       /\ UNCHANGED <<rules, odds, changes, clock, created, quoted, keys, prize, backdated>>

\* checkLimits over the paid line and the free ones; thresholds of stakes are left out.
LineRefused == NumberBlocked(bet) \/ \E p \in free : NumberBlocked(FreeLine(p))

\* The check, and the transaction that creates the ticket.
Commit ==
    /\ step = "priced"
    /\ IF LineRefused
       THEN step' = "refused" /\ UNCHANGED <<created, quoted, clock>>
       ELSE /\ Tick /\ step' = "sold" /\ created' = clock'
            /\ quoted' = [i \in Ranks |-> Multiplier(odds, i, clock', bet.odds)]
    /\ UNCHANGED <<rules, odds, changes, bet, free, known, keys, prize, backdated>>

\* A publication or a correction, which recalculates the ticket in its transaction.
Publish(ks) ==
    /\ step \in {"sold", "evaluated"} /\ ks # keys
    /\ Tick
    /\ keys' = ks /\ step' = "evaluated"
    /\ prize' = LineWinningAmount(bet, ks, created)
    /\ UNCHANGED <<rules, odds, changes, bet, free, known, created, quoted, backdated>>

Next ==
    \/ \E r \in Blocks : BlockNumber(r) \/ SetLimitStatus(r)
    \/ \E m \in Payouts : DatePayouts(m)
    \/ \E c \in changes : UpdateBoletPayouts(c)
    \/ \E m \in Payouts, i \in RankOf, starts \in 0..clock + 1 : CreateOdds(i, m, starts)
    \/ \E o \in Offers : Price(o)
    \/ Commit
    \/ \E ks \in Results : Publish(ks)

Spec == Init /\ [][Next]_vars

-----------------------------------------------------------------------------
TypeOK ==
    /\ rules \subseteq Blocks /\ clock \in 0..MaxClock /\ changes \subseteq [at : 0..MaxClock, mult : Payouts]
    /\ \A o \in odds : o.pos \in 0..3 /\ o.starts \in 0..MaxClock /\ o.ends \in 0..Forever
    /\ step \in {"idle", "priced", "refused", "sold", "evaluated"}
    /\ free \subseteq Balls \X Balls /\ known \subseteq Blocks
    /\ created \in 0..MaxClock /\ keys \in Results \union {<<>>} /\ prize \in Nat /\ backdated \in BOOLEAN

\* The free pairs drawn never cost the buyer the sale: while the blocked numbers stay as they were read, the
\* check that refuses a blocked line finds none among them, whatever the order of the balls in a rule.
\* (free-maryaj-policy.ts: randomFreeMaryajSelections against ticket-policy.ts: isNumberBlocked)
FreeNeverRefused ==
    step = "priced" /\ rules = known => \A p \in free : ~NumberBlocked(FreeLine(p))

\* A line that is paid is one the ticket shows the matching balls of; of a Bolet it shows the first three
\* ranks only, so a result with more keys is excepted.
\* (ticket-policy.ts: winningSelectionCount against ticket-line-flags.ts: winningKeysForLine)
PaidMatchIsShown ==
    step = "evaluated" =>
        /\ prize > 0 /\ (bet.code = "BOLET" => DOMAIN keys \subseteq RankOf) => MatchedKeys(bet, keys) # {}
        /\ \A p \in free : WinCount(FreeLine(p), keys) > 0 => MatchedKeys(FreeLine(p), keys) # {}

\* Every rank is paid at the multiplier in force when the ticket was created, however often and however late the
\* ticket is evaluated and the payouts are changed.  Excepted are a rule entered by hand with a start in the past,
\* and new payouts that were dated before the ticket was sold and entered after: the ticket is paid at these.
\* (results.service.ts: recalculateTicket looks the odds up again; lottery.service.ts: updateBoletPayouts)
PrizeAsSold ==
    step = "evaluated" /\ bet.code = "BOLET" /\ ~backdated =>
        prize = PaidAt(bet.stake, [i \in WinningPositions(bet, keys) |-> quoted[i]])
=============================================================================
