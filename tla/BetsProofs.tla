----------------------------- MODULE BetsProofs ------------------------------
(***************************************************************************)
(* One bet from its sale to its prize, for any balls, bets, results, blocks*)
(* and payouts.  BetsInv is inductive.  Its core is Quoted: what was in    *)
(* force when the ticket was created can be looked up for ever, because    *)
(* rules entered later start after it and a rule that is ended is only cut  *)
(* off where they start.  FitInv is inductive beside it: the      *)
(* multipliers of every time are positive, so that what wins is paid.      *)
(***************************************************************************)
EXTENDS Bets, TLAPS, FiniteSetTheorems, WellFoundedInduction

OddsRows == [pos : 0..3, mult : Nat, starts : Nat, ends : Nat]

\* No rule starts in the future, and no change is dated there.
OddsKept ==
    /\ clock \in Nat /\ odds \subseteq OddsRows /\ \A o \in odds : o.starts <= clock
    /\ changes \subseteq [at : Nat, mult : Payouts] /\ \A c \in changes : c.at <= clock

\* Two rules of a rank start at different times.
OneStart == \A o, p \in odds : o.pos = p.pos /\ o.starts = p.starts => o = p

\* The free pairs are pairs of balls, and of those that may be drawn.
FreeDrawn ==
    /\ free \subseteq Balls \X Balls
    /\ step = "priced" => free \subseteq Drawable(known)

\* A Maryaj is a bet on two balls.
MaryajIsPair == bet.code = "MARYAJ" => DOMAIN bet.sel = 1..2

\* A change under way is the only one of its date, and no rule starts then.
DatesFree ==
    /\ \A c, d \in changes : c.at = d.at => c = d
    /\ \A c \in changes : \A o \in odds : o.starts # c.at

\* The odds of the ticket can still be looked up as they were when it was created.
Quoted ==
    Decided => /\ created \in Nat /\ created <= clock
               /\ quoted = [i \in Ranks |-> Multiplier(odds, i, created, bet.odds)]

\* The prize is that of a line that won, at the odds of its creation.
Evaluated ==
    step = "evaluated" => keys \in Results /\ (WinCount(bet, keys) = 0 => prize = 0)

BetsInv ==
    /\ rules \subseteq Blocks /\ OddsKept /\ FreeDrawn /\ MaryajIsPair /\ Evaluated
    /\ ~backdated => OneStart /\ DatesFree /\ Quoted
    /\ PrizeAsSold

-----------------------------------------------------------------------------
(* Odds. *)

\* Some rule of those that have started by a time is the newest.
LEMMA NewestExists ==
    ASSUME NEW S, NEW n \in Nat, S # {}, \A o \in S : o.starts \in Nat /\ o.starts <= n
    PROVE  \E o \in S : \A p \in S : p.starts <= o.starts
<1> DEFINE ages == {n - o.starts : o \in S}
<1>1. ages \subseteq Nat /\ ages # {}
  OBVIOUS
<1>2. PICK x \in ages : \A y \in ages : ~ (<<y, x>> \in OpToRel(<, Nat))
  <2> HIDE DEF ages
  <2> QED
    BY <1>1, NatLessThanWellFounded, WFMin, Zenon
<1>3. \A y \in ages : ~ (y < x)
  BY <1>1, <1>2 DEF OpToRel
<1>4. PICK o \in S : x = n - o.starts
  OBVIOUS
<1>5. \A p \in S : p.starts <= o.starts
  <2> SUFFICES ASSUME NEW p \in S PROVE p.starts <= o.starts
    OBVIOUS
  <2>1. n - p.starts \in ages
    OBVIOUS
  <2>2. ~ (n - p.starts < n - o.starts)
    BY <1>3, <1>4, <2>1
  <2> QED
    BY <2>2
<1> QED
  BY <1>5

LEMMA NewestIsNewest ==
    ASSUME NEW S, NEW n \in Nat, S # {}, \A o \in S : o.starts \in Nat /\ o.starts <= n
    PROVE  Newest(S) \in S /\ \A p \in S : p.starts <= Newest(S).starts
BY NewestExists DEF Newest

\* A rule as it is after a change: itself, or, while it is in force, ended.
Kept(o, p, now) == p = o \/ (now < o.ends /\ p = [o EXCEPT !.ends = now])

LEMMA KeptRule ==
    ASSUME NEW o \in OddsRows, NEW now \in Nat, NEW p, Kept(o, p, now)
    PROVE  /\ p \in OddsRows /\ p.pos = o.pos /\ p.starts = o.starts /\ p.mult = o.mult
           /\ \A at \in Nat : at < now => (at < p.ends <=> at < o.ends)
BY DEF Kept, OddsRows

\* What was in force at a time stays in force at it, whatever rules are entered and cut off later.
LEMMA OddsOfThePast ==
    ASSUME NEW old, NEW new, NEW at \in Nat, NEW now \in Nat, at < now,
           old \subseteq OddsRows, new \subseteq OddsRows,
           \A o, p \in old : o.pos = p.pos /\ o.starts = p.starts => o = p,
           \A o \in old : \E p \in new : Kept(o, p, now),
           \A p \in new : p.starts = now \/ \E o \in old : Kept(o, p, now)
    PROVE  \A i, sold : Multiplier(new, i, at, sold) = Multiplier(old, i, at, sold)
<1> DEFINE R(table, i) == {o \in InForce(table, at) : o.pos = i}
<1>1. \A o \in old : \A p : Kept(o, p, now) =>
          /\ p.pos = o.pos /\ p.starts = o.starts /\ p.mult = o.mult
          /\ (at < p.ends <=> at < o.ends)
  BY KeptRule
<1>2. \A i : \A o \in R(old, i) : \E p \in R(new, i) : p.starts = o.starts /\ p.mult = o.mult
  BY <1>1 DEF InForce
<1>3. \A i : \A p \in R(new, i) : \E o \in R(old, i) : p.starts = o.starts /\ p.mult = o.mult
  BY <1>1 DEF InForce, OddsRows
<1>4. \A i : /\ \A o \in R(old, i) : o.starts \in Nat /\ o.starts <= at
             /\ \A o \in R(new, i) : o.starts \in Nat /\ o.starts <= at
             /\ R(old, i) \subseteq {o \in old : o.pos = i}
  BY DEF InForce, OddsRows
<1>5. ASSUME NEW i, R(old, i) # {}
      PROVE  R(new, i) # {} /\ Newest(R(new, i)).mult = Newest(R(old, i)).mult
  <2>1. R(new, i) # {}
    BY <1>2, <1>5
  <2> DEFINE m == Newest(R(old, i))
             n == Newest(R(new, i))
  <2>2. m \in R(old, i) /\ \A p \in R(old, i) : p.starts <= m.starts
    <3> HIDE DEF R
    <3> QED BY <1>4, <1>5, NewestIsNewest
  <2>3. n \in R(new, i) /\ \A p \in R(new, i) : p.starts <= n.starts
    <3> HIDE DEF R
    <3> QED BY <1>4, <2>1, NewestIsNewest
  <2> HIDE DEF m, n
  <2>4. PICK o \in R(old, i) : n.starts = o.starts /\ n.mult = o.mult
    BY <1>3, <2>3
  <2>5. PICK p \in R(new, i) : p.starts = m.starts /\ p.mult = m.mult
    BY <1>2, <2>2
  <2>6. o.starts \in Nat /\ m.starts \in Nat /\ o.starts <= m.starts /\ m.starts <= o.starts
    <3>1. o.starts \in Nat /\ m.starts \in Nat
      BY <1>4, <2>2, <2>4
    <3>2. o.starts <= m.starts
      BY <2>2, <2>4
    <3>3. p.starts <= n.starts
      BY <2>3, <2>5
    <3> QED
      BY <3>1, <3>2, <3>3, <2>4, <2>5
  <2>7. o = m
    BY <1>4, <2>2, <2>4, <2>6
  <2> QED
    BY <2>1, <2>4, <2>7 DEF m, n
<1>6. \A i : R(old, i) = {} <=> R(new, i) = {}
  BY <1>2, <1>3
<1> QED
  BY <1>5, <1>6 DEF Multiplier

-----------------------------------------------------------------------------
(* Blocked numbers and matches. *)

LEMMA PairIsItsBalls ==
    ASSUME NEW p \in Balls \X Balls
    PROVE  DOMAIN p = 1..2 /\ ToSet(p) = {p[1], p[2]}
<1>1. PICK a \in Balls, b \in Balls : p = <<a, b>>
  OBVIOUS
<1>2. DOMAIN p = 1..2 /\ p[1] = a /\ p[2] = b
  BY <1>1
<1>3. \A i \in 1..2 : i = 1 \/ i = 2
  OBVIOUS
<1>4. 1 \in 1..2 /\ 2 \in 1..2
  OBVIOUS
<1> QED
  BY <1>2, <1>3, <1>4 DEF ToSet

\* No rule read blocks a pair that may be drawn.
LEMMA DrawableIsFree ==
    ASSUME rules \subseteq Blocks, NEW p \in Drawable(rules)
    PROVE  ~NumberBlocked(FreeLine(p))
<1>1. p \in Balls \X Balls
  BY DEF Drawable
<1>2. ToSet(p) = {p[1], p[2]}
  BY <1>1, PairIsItsBalls
<1>3. \A r \in rules : Len(r.number) = 1 \/ Len(r.number) = 2
  BY BetsAssumption
<1>4. \A r \in rules : r.code \in {"ANY", "MARYAJ"} =>
          IF Len(r.number) = 2 THEN ToSet(r.number) # {p[1], p[2]} ELSE r.number[1] \notin {p[1], p[2]}
  BY DEF Drawable
<1>5. FreeLine(p).code = "MARYAJ" /\ FreeLine(p).sel = p
  BY DEF FreeLine
<1> QED
  BY <1>2, <1>3, <1>4, <1>5 DEF NumberBlocked, BlockMatches

\* A line that wins anything has a match to show.
LEMMA WinHasMatch ==
    ASSUME NEW b, NEW ks, WinCount(b, ks) # 0,
           b.code = "MARYAJ" => DOMAIN b.sel = 1..2,
           b.code = "BOLET" => DOMAIN ks \subseteq RankOf
    PROVE  MatchedKeys(b, ks) # {}
<1>1. CASE b.code = "MARYAJ"
  <2>1. \A i \in 1..2 : b.sel[i] \in ToSet(ks)
    BY <1>1 DEF WinCount
  <2>2. PICK i \in DOMAIN ks : ks[i] = b.sel[1]
    BY <2>1 DEF ToSet
  <2>3. ks[i] \in ToSet(b.sel)
    BY <1>1, <2>2 DEF ToSet
  <2> QED
    BY <1>1, <2>1, <2>3 DEF MatchedKeys
<1>2. CASE b.code \in {"BOLET", "BOUL_PE"}
  <2>1. WinningPositions(b, ks) # {}
    BY <1>2, FS_EmptySet DEF WinCount
  <2>2. PICK i \in DOMAIN ks : b.pos \in {0, i} /\ (ks[i] = b.sel[1] \/ LastTwo(ks[i], b.sel[1]))
    BY <1>2, <2>1 DEF WinningPositions
  <2> QED
    BY <1>2, <2>2 DEF MatchedKeys
<1>3. CASE b.code \notin {"MARYAJ", "BOLET", "BOUL_PE"}
  <2>1. PICK i \in DOMAIN ks : b.pos \in {0, i} /\ ks[i] = b.sel[1]
    BY <1>3 DEF WinCount
  <2> QED
    BY <1>3, <2>1 DEF MatchedKeys
<1> QED
  BY <1>1, <1>2, <1>3

\* A sum of no numbers.
LEMMA NothingPaid ==
    ASSUME NEW stake, NEW rate, DOMAIN rate = {}
    PROVE  PaidAt(stake, rate) = 0
<1> QED BY DEF PaidAt, SumFunction, SumFunctionOnSet, FoldFunctionOnSet, MapThenFoldSet

-----------------------------------------------------------------------------
(* The invariant. *)

LEMMA InitInv == Init => BetsInv
<1> SUFFICES ASSUME Init PROVE BetsInv
  OBVIOUS
<1>1. OddsKept
  <2>1. Forever \in Nat /\ General \in Nat
    BY BetsAssumption DEF Forever
  <2> QED
    BY <2>1 DEF Init, OddsKept, OddsRows
<1>2. OneStart /\ DatesFree
  BY DEF Init, OneStart, DatesFree
<1>3. FreeDrawn /\ MaryajIsPair /\ Evaluated /\ Quoted /\ PrizeAsSold /\ rules \subseteq Blocks
  BY DEF Init, FreeDrawn, MaryajIsPair, Evaluated, Quoted, Decided, PrizeAsSold, NoBet
<1> QED
  BY <1>1, <1>2, <1>3 DEF BetsInv

\* A step that leaves the sale, the odds and the evaluation alone.
LEMMA RulesStep ==
    ASSUME BetsInv, rules' \subseteq Blocks,
           UNCHANGED <<odds, changes, clock, saleVars, keys, prize, backdated>>
    PROVE  BetsInv'
<1>1. OddsKept' /\ (OneStart /\ DatesFree => OneStart' /\ DatesFree')
  BY DEF BetsInv, OddsKept, OneStart, DatesFree
<1>2. FreeDrawn' /\ MaryajIsPair' /\ Evaluated'
  BY DEF BetsInv, FreeDrawn, MaryajIsPair, Evaluated, saleVars
<1>3. Quoted => Quoted'
  BY DEF BetsInv, Quoted, Decided, saleVars
<1>4. PrizeAsSold'
  BY DEF BetsInv, PrizeAsSold, saleVars
<1> QED
  BY <1>1, <1>2, <1>3, <1>4 DEF BetsInv

\* A step that enters rules that start at one time, after the sale, and ends others there.
LEMMA OddsStep ==
    ASSUME BetsInv, OddsKept', NEW now \in Nat, UNCHANGED <<rules, saleVars, keys, prize>>,
           clock' \in {clock, clock + 1},
           \A o \in odds : \E p \in odds' : Kept(o, p, now),
           ~backdated' => /\ ~backdated /\ OneStart' /\ DatesFree' /\ (Decided => created < now)
                          /\ \A p \in odds' : p.starts = now \/ \E o \in odds : Kept(o, p, now)
    PROVE  BetsInv'
<1>1. FreeDrawn' /\ MaryajIsPair' /\ Evaluated' /\ rules' \subseteq Blocks
  BY DEF BetsInv, FreeDrawn, MaryajIsPair, Evaluated, saleVars
<1>2. ~backdated' => Quoted'
  <2> SUFFICES ASSUME ~backdated', Decided' PROVE Quoted'
    BY DEF Quoted
  <2>1. Quoted /\ Decided /\ OneStart
    BY DEF BetsInv, Decided, saleVars
  <2>2. created \in Nat /\ created <= clock /\ created' = created /\ created < now
    BY <2>1 DEF Quoted, saleVars
  <2>3. odds \subseteq OddsRows /\ odds' \subseteq OddsRows
    BY DEF BetsInv, OddsKept
  <2>4. \A i, sold : Multiplier(odds', i, created, sold) = Multiplier(odds, i, created, sold)
    <3>1. \A p \in odds' : p.starts = now \/ \E o \in odds : Kept(o, p, now)
      OBVIOUS
    <3>2. \A o, p \in odds : o.pos = p.pos /\ o.starts = p.starts => o = p
      BY <2>1 DEF OneStart
    <3> QED
      BY <2>2, <2>3, <3>1, <3>2, OddsOfThePast
  <2>5. created <= clock'
    BY <2>2 DEF BetsInv, OddsKept
  <2> QED
    BY <2>1, <2>2, <2>4, <2>5 DEF Quoted, Decided, saleVars
<1>3. PrizeAsSold'
  <2>1. ~backdated' => ~backdated
    OBVIOUS
  <2> QED
    BY <2>1 DEF BetsInv, PrizeAsSold, saleVars
<1> QED
  BY <1>1, <1>2, <1>3 DEF BetsInv

LEMMA DatePayoutsStep ==
    ASSUME BetsInv, NEW m \in Payouts, DatePayouts(m)
    PROVE  BetsInv'
<1> DEFINE c == [at |-> clock', mult |-> m]
<1>1. /\ changes' = changes \union {c} /\ Tick
      /\ UNCHANGED <<rules, odds, saleVars, keys, prize, backdated>>
  BY DEF DatePayouts
<1>2. clock \in Nat /\ clock' = clock + 1 /\ \A d \in changes : d.at \in Nat /\ d.at <= clock
  BY <1>1 DEF BetsInv, OddsKept, Tick
<1>3. \A o \in odds : o \in OddsRows /\ o.starts \in Nat /\ o.starts <= clock
  BY DEF BetsInv, OddsKept, OddsRows
<1>4. c \in [at : Nat, mult : Payouts] /\ c.at = clock'
  BY <1>2
<1> HIDE DEF c
<1>5. OddsKept'
  BY <1>1, <1>2, <1>3, <1>4 DEF BetsInv, OddsKept
<1>6. OneStart /\ DatesFree => OneStart' /\ DatesFree'
  <2>1. OneStart => OneStart'
    BY <1>1 DEF OneStart
  <2>2. \A d \in changes : d.at # c.at
    BY <1>2, <1>4
  <2>3. \A o \in odds : o.starts # c.at
    BY <1>2, <1>3, <1>4
  <2> QED
    BY <1>1, <2>1, <2>2, <2>3 DEF DatesFree
<1>7. FreeDrawn' /\ MaryajIsPair' /\ Evaluated' /\ PrizeAsSold' /\ rules' \subseteq Blocks
  BY <1>1 DEF BetsInv, FreeDrawn, MaryajIsPair, Evaluated, PrizeAsSold, saleVars
<1>8. Quoted => Quoted'
  BY <1>1, <1>2 DEF Quoted, Decided, saleVars
<1> QED
  BY <1>1, <1>5, <1>6, <1>7, <1>8 DEF BetsInv

LEMMA UpdateBoletPayoutsStep ==
    ASSUME BetsInv, NEW c \in changes, UpdateBoletPayouts(c)
    PROVE  BetsInv'
<1> DEFINE now == c.at
           old == {o \in InForce(odds, now) : o.pos \in RankOf}
           cut == {[o EXCEPT !.ends = now] : o \in old}
           new == {[pos |-> i, mult |-> c.mult[i], starts |-> now, ends |-> Forever] : i \in RankOf}
<1>1. /\ odds' = (odds \ old) \union cut \union new
      /\ changes' = changes \ {c} /\ backdated' = (backdated \/ (Decided /\ now <= created))
      /\ UNCHANGED <<rules, clock, saleVars, keys, prize>>
  BY DEF UpdateBoletPayouts
<1>2. /\ odds \subseteq OddsRows /\ clock \in Nat /\ \A o \in odds : o.starts <= clock
      /\ now \in Nat /\ now <= clock /\ c.mult \in Payouts
  BY DEF BetsInv, OddsKept
<1>3. \A o \in old : o \in odds /\ now < o.ends
  BY DEF InForce
<1>4. \A o \in old : Kept(o, [o EXCEPT !.ends = now], now)
  BY <1>3 DEF Kept
<1>5. \A p \in new : p \in OddsRows /\ p.starts = now
  <2>1. Forever \in Nat /\ \A i \in RankOf : c.mult[i] \in Nat /\ i \in 0..3
    BY <1>2, BetsAssumption DEF Forever, RankOf
  <2> QED
    BY <1>2, <2>1 DEF OddsRows
<1>6. \A o, p \in new : o.pos = p.pos => o = p
  OBVIOUS
<1> HIDE DEF now, old, new
<1>7. \A o \in odds : \E p \in odds' : Kept(o, p, now)
  <2> SUFFICES ASSUME NEW o \in odds PROVE \E p \in odds' : Kept(o, p, now)
    OBVIOUS
  <2>1. CASE o \in old
    BY <1>1, <1>4, <2>1
  <2>2. CASE o \notin old
    BY <1>1, <2>2 DEF Kept
  <2> QED
    BY <2>1, <2>2
<1>8. \A p \in odds' : p \in new \/ p \in odds \ old \/ \E o \in old : p = [o EXCEPT !.ends = now]
  BY <1>1
<1>9. \A p \in odds' : p \in new \/ \E o \in odds : Kept(o, p, now) /\ (p = o => p \notin old \/ p.ends = now)
  <2> SUFFICES ASSUME NEW p \in odds', p \notin new
               PROVE  \E o \in odds : Kept(o, p, now) /\ (p = o => p \notin old \/ p.ends = now)
    OBVIOUS
  <2>1. CASE p \in odds \ old
    BY <2>1 DEF Kept
  <2>2. ASSUME NEW o \in old, p = [o EXCEPT !.ends = now]
        PROVE  o \in odds /\ Kept(o, p, now) /\ p.ends = now
    BY <1>2, <1>3, <1>4, <2>2 DEF OddsRows
  <2> QED
    BY <1>8, <2>1, <2>2
<1>10. odds' \subseteq OddsRows /\ \A p \in odds' : p.starts <= clock
  <2> SUFFICES ASSUME NEW p \in odds' PROVE p \in OddsRows /\ p.starts <= clock
    OBVIOUS
  <2>1. CASE p \in new
    BY <1>2, <1>5, <2>1
  <2>2. ASSUME NEW o \in odds, Kept(o, p, now)
        PROVE  p \in OddsRows /\ p.starts <= clock
    <3>1. p \in OddsRows /\ p.starts = o.starts
      BY <1>2, <2>2, KeptRule
    <3> QED
      BY <1>2, <3>1 DEF OddsRows
  <2> QED
    BY <1>9, <2>1, <2>2
<1>11. OneStart /\ DatesFree => OneStart'
  <2> SUFFICES ASSUME OneStart, DatesFree, NEW x \in odds', NEW y \in odds', x.pos = y.pos, x.starts = y.starts
               PROVE  x = y
    BY DEF OneStart
  <2>1. \A p \in odds' : p \notin new => p.starts # now
    <3> SUFFICES ASSUME NEW p \in odds', NEW o \in odds, Kept(o, p, now) PROVE p.starts # now
      BY <1>9
    <3>1. p.starts = o.starts
      BY <1>2, KeptRule
    <3>2. o.starts # now
      BY DEF DatesFree, now
    <3> QED
      BY <3>1, <3>2
  <2>2. CASE x \in new \/ y \in new
    <3>1. x \in new /\ y \in new
      BY <1>2, <1>5, <2>1, <2>2
    <3> QED
      BY <1>6, <3>1
  <2>3. CASE x \notin new /\ y \notin new
    <3> DEFINE Source(p, o) == (p = o /\ o \notin old) \/ (o \in old /\ p = [o EXCEPT !.ends = now])
    <3>1. \A p \in odds' : p \notin new => \E o \in odds : Source(p, o)
      BY <1>3, <1>8
    <3>2. PICK o \in odds : Source(x, o)
      BY <2>3, <3>1
    <3>3. PICK q \in odds : Source(y, q)
      BY <2>3, <3>1
    <3>4. o.pos = x.pos /\ o.starts = x.starts /\ q.pos = y.pos /\ q.starts = y.starts
      BY <1>2, <3>2, <3>3 DEF OddsRows
    <3>5. o = q
      BY <3>4 DEF OneStart
    <3> QED
      BY <3>2, <3>3, <3>5
  <2> QED
    BY <2>2, <2>3
<1>12. \A p \in odds' : p.starts = now \/ \E o \in odds : Kept(o, p, now)
  BY <1>5, <1>9
<1>13. \A p \in odds' : p \in new \/ \E o \in odds : p.starts = o.starts
  <2> SUFFICES ASSUME NEW p \in odds', NEW o \in odds, Kept(o, p, now) PROVE p.starts = o.starts
    BY <1>9
  <2> QED
    BY <1>2, KeptRule
<1>14. DatesFree => DatesFree'
  <2> SUFFICES ASSUME DatesFree PROVE DatesFree'
    OBVIOUS
  <2>1. \A d \in changes' : d \in changes /\ d.at # now
    BY <1>1 DEF DatesFree, now
  <2>2. \A d \in changes' : \A p \in odds' : p.starts # d.at
    BY <1>5, <1>13, <2>1 DEF DatesFree
  <2> QED
    BY <2>1, <2>2 DEF DatesFree
<1>15. OddsKept'
  BY <1>1, <1>2, <1>10 DEF BetsInv, OddsKept
<1>16. ~backdated' => ~backdated /\ OneStart' /\ DatesFree' /\ (Decided => created < now)
  <2> SUFFICES ASSUME ~backdated' PROVE ~backdated /\ OneStart' /\ DatesFree' /\ (Decided => created < now)
    OBVIOUS
  <2>1. ~backdated /\ (Decided => ~(now <= created))
    BY <1>1, Zenon
  <2>2. OneStart /\ DatesFree /\ Quoted
    BY <2>1 DEF BetsInv
  <2>3. Decided => created < now
    BY <1>2, <2>1, <2>2 DEF Quoted
  <2> QED
    BY <1>11, <1>14, <2>1, <2>2, <2>3
<1> QED
  BY <1>1, <1>2, <1>7, <1>12, <1>15, <1>16, OddsStep

LEMMA CreateOddsStep ==
    ASSUME BetsInv, NEW m \in Payouts, NEW i \in RankOf, NEW starts \in 0..clock + 1, CreateOdds(i, m, starts)
    PROVE  BetsInv'
<1> DEFINE row == [pos |-> i, mult |-> m[i], starts |-> starts, ends |-> Forever]
<1>1. /\ odds' = odds \union {row} /\ backdated' = (backdated \/ starts < clock')
      /\ UNCHANGED <<rules, changes, saleVars, keys, prize>> /\ Tick
  BY DEF CreateOdds
<1>2. odds \subseteq OddsRows /\ clock \in Nat /\ clock' = clock + 1 /\ \A o \in odds : o.starts <= clock
  BY <1>1 DEF BetsInv, OddsKept, Tick
<1>3. row \in OddsRows /\ row.starts = starts /\ row.starts <= clock'
  <2>1. Forever \in Nat /\ m[i] \in Nat /\ i \in 0..3 /\ starts \in Nat /\ starts <= clock + 1
    BY <1>2, BetsAssumption DEF Forever, RankOf
  <2> QED
    BY <1>2, <2>1 DEF OddsRows
<1> HIDE DEF row
<1>4. \A o \in odds : \E p \in odds' : Kept(o, p, clock')
  BY <1>1 DEF Kept
<1>5. OddsKept'
  BY <1>1, <1>2, <1>3 DEF BetsInv, OddsKept, OddsRows
<1>6. ~backdated' => ~backdated /\ starts = clock'
  <2>1. starts = clock' \/ starts < clock'
    BY <1>2
  <2>2. ~backdated' => ~backdated /\ ~(starts < clock')
    BY <1>1, Zenon
  <2> QED
    BY <2>1, <2>2
<1>7. ~backdated' => /\ ~backdated /\ OneStart' /\ DatesFree' /\ (Decided => created < clock')
                     /\ \A p \in odds' : p.starts = clock' \/ \E o \in odds : Kept(o, p, clock')
  <2> SUFFICES ASSUME ~backdated'
               PROVE  /\ OneStart' /\ DatesFree' /\ (Decided => created < clock')
                      /\ \A p \in odds' : p.starts = clock' \/ \E o \in odds : Kept(o, p, clock')
    BY <1>6
  <2>1. /\ starts = clock' /\ OneStart /\ DatesFree /\ Quoted
        /\ \A o \in odds : o.starts # clock'
    BY <1>2, <1>6 DEF BetsInv, OddsRows
  <2>2. \A c \in changes : c.at # clock'
    BY <1>2 DEF BetsInv, OddsKept
  <2>3. DatesFree'
    BY <1>1, <1>3, <2>1, <2>2 DEF DatesFree
  <2>4. Decided => created < clock'
    BY <1>2, <2>1 DEF Quoted
  <2>5. OneStart' /\ \A p \in odds' : p.starts = clock' \/ \E o \in odds : Kept(o, p, clock')
    BY <1>1, <1>3, <2>1 DEF OneStart, Kept
  <2> QED
    BY <2>3, <2>4, <2>5
<1>8. clock' \in Nat /\ clock' \in {clock, clock + 1}
  BY <1>2
<1> QED
  BY <1>1, <1>4, <1>5, <1>7, <1>8, OddsStep

LEMMA PriceStep ==
    ASSUME BetsInv, NEW o \in Offers, Price(o)
    PROVE  BetsInv'
<1>1. /\ step = "idle" /\ step' \in {"priced", "refused"} /\ known' = rules
      /\ bet'.code = o.code /\ bet'.sel = o.sel
      /\ UNCHANGED <<rules, odds, changes, clock, created, quoted, keys, prize, backdated>>
  BY DEF Price
<1>2. free' = {} \/ free' \in Draws(rules)
  BY DEF Price
<1>3. FreeDrawn'
  BY <1>1, <1>2 DEF FreeDrawn, Draws, kSubset, Drawable
<1>4. MaryajIsPair'
  BY <1>1, BetsAssumption DEF MaryajIsPair
<1>5. OddsKept' /\ (OneStart /\ DatesFree => OneStart' /\ DatesFree')
  BY <1>1 DEF BetsInv, OddsKept, OneStart, DatesFree
<1>6. Evaluated' /\ Quoted' /\ PrizeAsSold'
  BY <1>1 DEF Evaluated, Quoted, Decided, PrizeAsSold
<1> QED
  BY <1>1, <1>3, <1>4, <1>5, <1>6 DEF BetsInv

LEMMA CommitStep ==
    ASSUME BetsInv, Commit
    PROVE  BetsInv'
<1>1. /\ step = "priced" /\ step' \in {"refused", "sold"}
      /\ UNCHANGED <<rules, odds, changes, bet, free, known, keys, prize, backdated>>
  BY DEF Commit
<1>2. clock \in Nat /\ clock' \in {clock, clock + 1}
  BY DEF BetsInv, OddsKept, Commit, Tick
<1>3. OddsKept' /\ (OneStart /\ DatesFree => OneStart' /\ DatesFree')
  BY <1>1, <1>2 DEF BetsInv, OddsKept, OneStart, DatesFree, OddsRows
<1>4. FreeDrawn' /\ MaryajIsPair' /\ Evaluated' /\ PrizeAsSold'
  BY <1>1 DEF BetsInv, FreeDrawn, MaryajIsPair, Evaluated, PrizeAsSold
<1>5. Quoted'
  <2>1. CASE step' = "refused"
    BY <2>1 DEF Quoted, Decided
  <2>2. CASE step' = "sold"
    <3>1. /\ Tick /\ created' = clock'
          /\ quoted' = [i \in Ranks |-> Multiplier(odds, i, clock', bet.odds)]
      BY <2>2 DEF Commit
    <3> QED
      BY <1>1, <1>2, <3>1 DEF Quoted, Tick
  <2> QED
    BY <1>1, <2>1, <2>2
<1> QED
  BY <1>1, <1>3, <1>4, <1>5 DEF BetsInv

\* What a Bolet is paid, at the odds of its creation.
LEMMA BoletIsPaid ==
    ASSUME Quoted, Decided, bet.code = "BOLET", NEW ks \in Results
    PROVE  LineWinningAmount(bet, ks, created)
               = PaidAt(bet.stake, [i \in WinningPositions(bet, ks) |-> quoted[i]])
<1> DEFINE W == WinningPositions(bet, ks)
<1>1. W \subseteq DOMAIN ks /\ DOMAIN ks \subseteq Ranks
  BY DEF WinningPositions, Ranks
<1>2. IsFiniteSet(W)
  <2>1. DOMAIN ks = 1..Len(ks) /\ Len(ks) \in Nat
    BY BetsAssumption
  <2>2. IsFiniteSet(1..Len(ks))
    BY <2>1, FS_Interval
  <2> QED
    BY <1>1, <2>1, <2>2, FS_Subset
<1>3. WinCount(bet, ks) = Cardinality(W)
  BY DEF WinCount
<1>4. \A i \in W : Rate(bet, i, created) = quoted[i]
  BY <1>1 DEF Rate, Quoted
<1>5. [i \in W |-> Rate(bet, i, created)] = [i \in W |-> quoted[i]]
  BY <1>4
<1>6. CASE W = {}
  <2>1. WinCount(bet, ks) = 0
    BY <1>3, <1>6, FS_EmptySet
  <2>2. PaidAt(bet.stake, [i \in W |-> quoted[i]]) = 0
    <3>1. DOMAIN [i \in W |-> quoted[i]] = {}
      BY <1>6
    <3> QED
      BY <3>1, NothingPaid
  <2> QED
    BY <2>1, <2>2 DEF LineWinningAmount
<1>7. CASE W # {}
  <2>1. WinCount(bet, ks) # 0
    BY <1>2, <1>3, <1>7, FS_EmptySet
  <2>2. LineWinningAmount(bet, ks, created) = PaidAt(bet.stake, [i \in W |-> Rate(bet, i, created)])
    BY <2>1 DEF LineWinningAmount
  <2> QED
    BY <1>5, <2>2
<1> QED
  BY <1>6, <1>7

LEMMA PublishStep ==
    ASSUME BetsInv, NEW ks \in Results, Publish(ks)
    PROVE  BetsInv'
<1>1. /\ Decided /\ Tick /\ keys' = ks /\ step' = "evaluated"
      /\ prize' = LineWinningAmount(bet, ks, created)
      /\ UNCHANGED <<rules, odds, changes, bet, free, known, created, quoted, backdated>>
  BY DEF Publish, Decided
<1>2. clock \in Nat /\ clock' = clock + 1
  BY <1>1 DEF BetsInv, OddsKept, Tick
<1>3. OddsKept' /\ (OneStart /\ DatesFree => OneStart' /\ DatesFree')
  BY <1>1, <1>2 DEF BetsInv, OddsKept, OneStart, DatesFree, OddsRows
<1>4. FreeDrawn' /\ MaryajIsPair'
  BY <1>1 DEF BetsInv, FreeDrawn, MaryajIsPair
<1>5. Evaluated'
  BY <1>1 DEF Evaluated, LineWinningAmount
<1>6. Quoted => Quoted'
  BY <1>1, <1>2 DEF Quoted, Decided
<1>7. PrizeAsSold'
  <2> SUFFICES ASSUME bet.code = "BOLET", ~backdated
               PROVE  prize' = PaidAt(bet.stake, [i \in WinningPositions(bet, ks) |-> quoted[i]])
    BY <1>1 DEF PrizeAsSold
  <2>1. Quoted
    BY DEF BetsInv
  <2> QED
    BY <1>1, <2>1, BoletIsPaid
<1> QED
  BY <1>1, <1>3, <1>4, <1>5, <1>6, <1>7 DEF BetsInv

LEMMA NextInv == BetsInv /\ [Next]_vars => BetsInv'
<1> SUFFICES ASSUME BetsInv, [Next]_vars PROVE BetsInv'
  OBVIOUS
<1>1. ASSUME NEW r \in Blocks, BlockNumber(r) \/ SetLimitStatus(r) PROVE BetsInv'
  <2>1. rules' \subseteq Blocks /\ UNCHANGED <<odds, changes, clock, saleVars, keys, prize, backdated>>
    BY <1>1 DEF BetsInv, BlockNumber, SetLimitStatus
  <2> QED
    BY <2>1, RulesStep
<1>2. ASSUME NEW c \in changes, UpdateBoletPayouts(c) PROVE BetsInv'
  BY <1>2, UpdateBoletPayoutsStep
<1>8. ASSUME NEW m \in Payouts, DatePayouts(m) PROVE BetsInv'
  BY <1>8, DatePayoutsStep
<1>3. ASSUME NEW m \in Payouts, NEW i \in RankOf, NEW starts \in 0..clock + 1, CreateOdds(i, m, starts)
      PROVE  BetsInv'
  BY <1>3, CreateOddsStep
<1>4. ASSUME NEW o \in Offers, Price(o) PROVE BetsInv'
  BY <1>4, PriceStep
<1>5. ASSUME Commit PROVE BetsInv'
  BY <1>5, CommitStep
<1>6. ASSUME NEW ks \in Results, Publish(ks) PROVE BetsInv'
  BY <1>6, PublishStep
<1>7. ASSUME UNCHANGED vars PROVE BetsInv'
  <2>1. rules' \subseteq Blocks /\ UNCHANGED <<odds, changes, clock, saleVars, keys, prize, backdated>>
    BY <1>7 DEF BetsInv, vars
  <2> QED
    BY <2>1, RulesStep
<1> QED
  BY <1>1, <1>2, <1>3, <1>4, <1>5, <1>6, <1>7, <1>8 DEF Next

-----------------------------------------------------------------------------
(* The types, and who is paid: a second inductive invariant, beside BetsInv. *)

\* A line wins exactly when it is paid something.
WinnersArePaid == step = "evaluated" => (prize > 0 <=> WinCount(bet, keys) > 0)

OddsFit ==
    \A o \in odds : /\ o.pos \in 0..3 /\ o.mult \in Nat \ {0}
                    /\ o.starts \in 0..MaxClock /\ o.ends \in 0..Forever

SaleFits ==
    /\ step \in {"idle", "priced", "refused", "sold", "evaluated"}
    /\ known \subseteq Blocks /\ created \in 0..MaxClock
    /\ step # "idle" => bet.stake \in Nat \ {0} /\ bet.odds \in Nat \ {0}

PaidFits == keys \in Results \union {<<>>} /\ backdated \in BOOLEAN /\ prize \in Nat /\ WinnersArePaid

ChangesFit == changes \subseteq [at : 0..MaxClock, mult : Payouts]

FitInv == clock \in 0..MaxClock /\ ChangesFit /\ OddsFit /\ SaleFits /\ PaidFits

\* Induction up to a bound, for sets: the library's induction takes an operator, which its well-founded minimum does
\* not.
LEMMA UpTo ==
    ASSUME NEW N \in Nat, NEW T, 0 \in T, \A n \in 0..N - 1 : n \in T => n + 1 \in T
    PROVE  \A n \in 0..N : n \in T
<1> SUFFICES ASSUME ~ \A n \in 0..N : n \in T PROVE FALSE
  OBVIOUS
<1> DEFINE Missing == {n \in 0..N : n \notin T}
<1>1. Missing \subseteq Nat /\ Missing # {}
  OBVIOUS
<1>2. PICK x \in Missing : \A z \in Missing : ~ (<<z, x>> \in OpToRel(<, Nat))
  BY <1>1, NatLessThanWellFounded, WFMin, Zenon
<1>3. x # 0 /\ x - 1 \in 0..N - 1
  <2>1. x \in 0..N /\ x \notin T
    OBVIOUS
  <2>2. x # 0
    BY <2>1, Zenon
  <2> QED
    BY <2>1, <2>2
<1>4. x - 1 \in T
  <2> SUFFICES ASSUME x - 1 \notin T PROVE FALSE
    OBVIOUS
  <2>1. x - 1 \in Missing /\ x \in Nat /\ x - 1 \in Nat /\ x - 1 < x
    BY <1>3
  <2>2. <<x - 1, x>> \in OpToRel(<, Nat)
    BY <2>1 DEF OpToRel
  <2> QED
    BY <1>2, <2>1, <2>2
<1>5. x - 1 + 1 = x
  BY <1>3
<1> QED
  BY <1>3, <1>4, <1>5, <1>2


\* A sum over a finite set of numbers is one, and is zero only if all are.
LEMMA SumOfNumbers ==
    ASSUME NEW D, IsFiniteSet(D), NEW f \in [D -> Nat]
    PROVE  SumFunction(f) \in Nat /\ ((\E i \in D : f[i] > 0) => SumFunction(f) > 0)
<1> DEFINE One(s) == CHOOSE x \in s : TRUE
           Value(g, s) == IF s = {} THEN 0 ELSE f[One(s)] + g[s \ {One(s)}]
           sum == CHOOSE g : g = [s \in SUBSET D |-> Value(g, s)]
           Small(k) == {s \in SUBSET D : Cardinality(s) <= k}
           N == Cardinality(D)
           T == {k \in 0..N : \E g \in [Small(k) -> Nat] : \A s \in Small(k) : g[s] = Value(g, s)}
<1>1. SumFunction(f) = sum[D]
  <2>1. DOMAIN f = D
    OBVIOUS
  <2> QED
    BY <2>1, Zenon DEF SumFunction, SumFunctionOnSet, FoldFunctionOnSet, MapThenFoldSet
<1>2. N \in Nat
  BY FS_CardinalityType
<1>3. ASSUME NEW s \in SUBSET D
      PROVE  /\ IsFiniteSet(s) /\ Cardinality(s) \in Nat /\ Cardinality(s) <= N
             /\ Cardinality(s) = 0 <=> s = {}
  BY FS_Subset, FS_CardinalityType, FS_EmptySet
<1>4. ASSUME NEW s \in SUBSET D, s # {}
      PROVE  /\ One(s) \in s /\ s \ {One(s)} \in SUBSET D
             /\ Cardinality(s \ {One(s)}) = Cardinality(s) - 1 /\ One(s) \in D /\ f[One(s)] \in Nat
  <2>1. One(s) \in s
    BY <1>4
  <2> HIDE DEF One
  <2>2. IsFiniteSet(s)
    BY <1>3
  <2>3. Cardinality(s \ {One(s)}) = Cardinality(s) - 1
    BY <2>1, <2>2, FS_RemoveElement
  <2> QED
    BY <2>1, <2>3
<1> HIDE DEF One
<1>5. 0 \in T
  <2> DEFINE g == [s \in Small(0) |-> 0]
  <2>1. g \in [Small(0) -> Nat]
    OBVIOUS
  <2>2. ASSUME NEW s \in Small(0) PROVE g[s] = Value(g, s)
    <3>1. s = {}
      BY <1>3
    <3> QED
      BY <3>1
  <2> HIDE DEF g, Value, Small
  <2>3. \E h \in [Small(0) -> Nat] : \A s \in Small(0) : h[s] = Value(h, s)
    BY <2>1, <2>2
  <2> QED
    BY <1>2, <2>3
<1>6. ASSUME NEW k \in 0..N - 1, k \in T PROVE k + 1 \in T
  <2>1. PICK g \in [Small(k) -> Nat] : \A s \in Small(k) : g[s] = Value(g, s)
    BY <1>6
  <2> DEFINE h == [s \in Small(k + 1) |-> IF s = {} THEN 0 ELSE f[One(s)] + g[s \ {One(s)}]]
  <2>2. ASSUME NEW s \in Small(k + 1), s # {} PROVE s \ {One(s)} \in Small(k) /\ s \ {One(s)} \in Small(k + 1)
    <3>1. Cardinality(s) <= k + 1 /\ s \in SUBSET D
      OBVIOUS
    <3> QED
      BY <1>2, <1>3, <1>4, <2>2, <3>1
  <2>3. ASSUME NEW s \in Small(k + 1) PROVE h[s] \in Nat
    <3>1. CASE s = {}
      BY <3>1
    <3>2. CASE s # {}
      <4>1. f[One(s)] \in Nat
        BY <1>4, <3>2
      <4>2. g[s \ {One(s)}] \in Nat
        BY <2>2, <3>2
      <4> QED
        BY <3>2, <4>1, <4>2
    <3> QED
      BY <3>1, <3>2
  <2>4. ASSUME NEW s \in Small(k) PROVE s \in Small(k + 1) /\ h[s] = g[s]
    <3>1. s \in Small(k + 1)
      BY <1>2, <1>3
    <3>2. h[s] = Value(g, s)
      BY <3>1
    <3> QED
      BY <2>1, <3>1, <3>2
  <2>5. ASSUME NEW s \in Small(k + 1) PROVE h[s] = Value(h, s)
    <3>1. CASE s = {}
      BY <3>1
    <3>2. CASE s # {}
      <4>1. h[s] = f[One(s)] + g[s \ {One(s)}]
        BY <3>2
      <4>2. h[s \ {One(s)}] = g[s \ {One(s)}]
        BY <2>2, <2>4, <3>2
      <4> QED
        BY <3>2, <4>1, <4>2
    <3> QED
      BY <3>1, <3>2
  <2>6. h \in [Small(k + 1) -> Nat]
    <3> HIDE DEF Small
    <3> QED
      BY <2>3
  <2> HIDE DEF h, Value, Small
  <2>7. \E r \in [Small(k + 1) -> Nat] : \A s \in Small(k + 1) : r[s] = Value(r, s)
    BY <2>5, <2>6
  <2>8. k + 1 \in 0..N
    BY <1>2
  <2> QED
    BY <2>7, <2>8
<1>7. N \in T
  <2> HIDE DEF T, N
  <2>1. \A n \in 0..N : n \in T
    BY <1>2, <1>5, <1>6, UpTo
  <2> QED
    BY <1>2, <2>1
<1>8. Small(N) = SUBSET D
  BY <1>3
<1>9. PICK g \in [SUBSET D -> Nat] : \A s \in SUBSET D : g[s] = Value(g, s)
  <2> HIDE DEF Value, N, Small
  <2> QED
    BY <1>7, <1>8
<1>10. g = [s \in SUBSET D |-> Value(g, s)]
  <2> HIDE DEF Value
  <2> QED
    BY <1>9
<1>11. sum = [s \in SUBSET D |-> Value(sum, s)]
  <2> HIDE DEF Value
  <2> QED
    BY <1>10, Zenon
<1> HIDE DEF sum
<1>12. \A s \in SUBSET D : sum[s] = Value(sum, s)
  <2> HIDE DEF Value
  <2> QED
    BY <1>11
<1> DEFINE U == {k \in 0..N : \A s \in Small(k) : sum[s] \in Nat /\ ((\E i \in s : f[i] > 0) => sum[s] > 0)}
<1>13. 0 \in U
  <2> SUFFICES ASSUME NEW s \in Small(0) PROVE sum[s] \in Nat /\ ((\E i \in s : f[i] > 0) => sum[s] > 0)
    BY <1>2
  <2>1. s = {} /\ s \in SUBSET D
    BY <1>3
  <2>2. sum[s] = 0
    BY <1>12, <2>1
  <2> QED
    BY <2>1, <2>2
<1>14. ASSUME NEW k \in 0..N - 1, k \in U PROVE k + 1 \in U
  <2>1. k + 1 \in 0..N
    BY <1>2
  <2>2. ASSUME NEW s \in Small(k + 1) PROVE sum[s] \in Nat /\ ((\E i \in s : f[i] > 0) => sum[s] > 0)
    <3>1. CASE s = {}
      <4>1. sum[s] = 0
        BY <1>12, <3>1
      <4> QED
        BY <3>1, <4>1
    <3>2. CASE s # {}
      <4> DEFINE x == One(s)
                 r == s \ {One(s)}
      <4>1. s \in SUBSET D /\ Cardinality(s) <= k + 1
        OBVIOUS
      <4>2. x \in s /\ r \in SUBSET D /\ Cardinality(r) = Cardinality(s) - 1 /\ f[x] \in Nat
        BY <1>4, <3>2, <4>1
      <4>3. r \in Small(k)
        BY <1>2, <1>3, <4>1, <4>2
      <4>4. sum[r] \in Nat /\ ((\E i \in r : f[i] > 0) => sum[r] > 0)
        <5> HIDE DEF Small, r
        <5> QED
          BY <1>14, <4>3
      <4>5. sum[s] = f[x] + sum[r]
        BY <1>12, <3>2, <4>1
      <4>6. ASSUME NEW i \in s, f[i] > 0 PROVE sum[s] > 0
        <5>1. CASE i = x
          BY <4>2, <4>4, <4>5, <4>6, <5>1
        <5>2. CASE i # x
          <6>1. i \in r
            BY <4>6, <5>2
          <6>2. sum[r] > 0
            BY <4>4, <4>6, <6>1
          <6> HIDE DEF r
          <6> QED
            BY <4>2, <4>4, <4>5, <6>2
        <5> QED
          BY <5>1, <5>2
      <4>7. sum[s] \in Nat
        <5> HIDE DEF r, x
        <5> QED
          BY <4>2, <4>4, <4>5
      <4> QED
        BY <4>6, <4>7
    <3> QED
      BY <3>1, <3>2
  <2> HIDE DEF Small
  <2> QED
    BY <2>1, <2>2
<1>15. N \in U
  <2> HIDE DEF U, N
  <2>1. \A n \in 0..N : n \in U
    BY <1>2, <1>13, <1>14, UpTo
  <2> QED
    BY <1>2, <2>1
<1>16. D \in Small(N)
  BY <1>2
<1>17. sum[D] \in Nat /\ ((\E i \in D : f[i] > 0) => sum[D] > 0)
  <2> HIDE DEF Small, N
  <2> QED
    BY <1>15, <1>16
<1> QED
  BY <1>1, <1>17

\* Whatever rules are in force, a multiplier is positive.
LEMMA PositiveMultiplier ==
    ASSUME BetsInv, FitInv, NEW at \in Nat, NEW rank, NEW sold \in Nat \ {0}
    PROVE  Multiplier(odds, rank, at, sold) \in Nat \ {0}
<1> DEFINE R(i) == {o \in InForce(odds, at) : o.pos = i}
<1>1. ASSUME NEW i, R(i) # {} PROVE Newest(R(i)).mult \in Nat \ {0}
  <2>1. \A o \in R(i) : o.starts \in Nat /\ o.starts <= at /\ o \in odds
    BY DEF BetsInv, OddsKept, OddsRows, InForce
  <2>2. Newest(R(i)) \in R(i)
    <3> HIDE DEF R
    <3> QED
      BY <1>1, <2>1, NewestIsNewest
  <2> QED
    BY <2>1, <2>2 DEF FitInv, OddsFit
<1> QED
  BY <1>1 DEF Multiplier

LEMMA Product == ASSUME NEW x \in Nat \ {0}, NEW y \in Nat \ {0} PROVE x * y \in Nat \ {0}
OBVIOUS

\* The ranks won are finite in number.
LEMMA WinsAreCounted ==
    ASSUME NEW b, NEW ks \in Results
    PROVE  /\ WinCount(b, ks) \in Nat /\ IsFiniteSet(WinningPositions(b, ks))
           /\ Cardinality(WinningPositions(b, ks)) = 0 <=> WinningPositions(b, ks) = {}
<1>1. WinningPositions(b, ks) \subseteq DOMAIN ks
  BY DEF WinningPositions
<1>2. DOMAIN ks = 1..Len(ks) /\ Len(ks) \in Nat
  BY BetsAssumption
<1>3. IsFiniteSet(WinningPositions(b, ks))
  <2>1. IsFiniteSet(1..Len(ks))
    BY <1>2, FS_Interval
  <2> QED
    BY <1>1, <1>2, <2>1, FS_Subset
<1>4. Cardinality(WinningPositions(b, ks)) \in Nat
  BY <1>3, FS_CardinalityType
<1>5. WinCount(b, ks) \in Nat
  BY <1>4 DEF WinCount
<1> QED
  BY <1>3, <1>5, FS_EmptySet

\* A line is paid exactly when it wins, at whatever odds.
LEMMA LineIsPaid ==
    ASSUME BetsInv, FitInv, step # "idle", NEW ks \in Results
    PROVE  /\ LineWinningAmount(bet, ks, created) \in Nat
           /\ LineWinningAmount(bet, ks, created) > 0 <=> WinCount(bet, ks) > 0
<1> DEFINE W == WinningPositions(bet, ks)
           n == WinCount(bet, ks)
           line == LineWinningAmount(bet, ks, created)
<1>1. bet.stake \in Nat \ {0} /\ bet.odds \in Nat \ {0} /\ created \in Nat
  BY DEF FitInv, SaleFits
<1>2. n \in Nat /\ IsFiniteSet(W) /\ (Cardinality(W) = 0 <=> W = {})
  BY WinsAreCounted
<1>3. CASE n = 0
  <2>1. line = 0
    BY <1>3 DEF LineWinningAmount
  <2> QED
    BY <1>3, <2>1
<1>4. CASE n # 0 /\ bet.code \notin {"BOLET", "BOUL_PE"}
  <2>1. line = bet.stake * bet.odds * n
    BY <1>4 DEF LineWinningAmount
  <2>2. bet.stake * bet.odds \in Nat \ {0}
    BY <1>1, Product
  <2>3. (bet.stake * bet.odds) * n \in Nat \ {0}
    BY <1>2, <1>4, <2>2, Product
  <2> QED
    BY <1>2, <1>4, <2>1, <2>3
<1>5. CASE n # 0 /\ bet.code \in {"BOLET", "BOUL_PE"}
  <2> DEFINE rate == [i \in W |-> Rate(bet, i, created)]
             paid == [i \in W |-> bet.stake * rate[i]]
  <2>1. line = PaidAt(bet.stake, rate)
    BY <1>5 DEF LineWinningAmount
  <2>2. line = SumFunction(paid)
    <3>1. DOMAIN rate = W
      OBVIOUS
    <3> QED
      BY <2>1, <3>1 DEF PaidAt
  <2>3. ASSUME NEW i \in W PROVE rate[i] \in Nat \ {0}
    <3>1. Multiplier(odds, i, created, bet.odds) \in Nat \ {0}
      BY <1>1, PositiveMultiplier
    <3> QED
      BY <3>1, BetsAssumption DEF Rate
  <2>4. ASSUME NEW i \in W PROVE paid[i] \in Nat \ {0}
    <3> HIDE DEF rate, W
    <3> QED
      BY <1>1, <2>3, Product
  <2>5. W # {}
    BY <1>2, <1>5 DEF WinCount
  <2> HIDE DEF W
  <2>6. paid \in [W -> Nat] /\ \E i \in W : paid[i] > 0
    <3>1. paid \in [W -> Nat]
      BY <2>4
    <3>2. PICK i \in W : TRUE
      BY <2>5
    <3>3. paid[i] > 0
      <4>1. paid[i] \in Nat \ {0}
        BY <2>4
      <4> HIDE DEF paid
      <4> QED
        BY <4>1
    <3> HIDE DEF paid
    <3> QED
      BY <3>1, <3>2, <3>3
  <2> HIDE DEF paid, rate
  <2>7. SumFunction(paid) \in Nat /\ SumFunction(paid) > 0
    BY <1>2, <2>6, SumOfNumbers
  <2>8. line \in Nat /\ line > 0 /\ n > 0
    <3> HIDE DEF line, n
    <3> QED
      BY <1>2, <1>5, <2>2, <2>7
  <2> QED
    BY <2>8
<1> QED
  BY <1>3, <1>4, <1>5

LEMMA InitFits == Init => FitInv
<1> SUFFICES ASSUME Init PROVE FitInv
  OBVIOUS
<1>1. MaxClock \in Nat /\ Forever \in Nat /\ General \in Nat \ {0}
  BY BetsAssumption DEF Forever
<1>2. OddsFit /\ ChangesFit
  BY <1>1 DEF Init, OddsFit, ChangesFit, Forever
<1>3. SaleFits /\ clock \in 0..MaxClock
  BY <1>1 DEF Init, SaleFits
<1>4. PaidFits
  BY DEF Init, PaidFits, WinnersArePaid
<1> QED
  BY <1>2, <1>3, <1>4 DEF FitInv

\* A step that changes rules only, of odds or of blocked numbers.
LEMMA TablesStep ==
    ASSUME FitInv, clock' \in 0..MaxClock, OddsFit', ChangesFit', backdated' \in BOOLEAN, UNCHANGED <<saleVars, keys, prize>>
    PROVE  FitInv'
<1>1. SaleFits'
  BY DEF FitInv, SaleFits, saleVars
<1>2. PaidFits'
  BY DEF FitInv, PaidFits, WinnersArePaid, saleVars
<1> QED
  BY <1>1, <1>2 DEF FitInv

LEMMA UpdateFits ==
    ASSUME BetsInv, FitInv, NEW c \in changes, UpdateBoletPayouts(c)
    PROVE  FitInv'
<1> DEFINE now == c.at
           old == {o \in InForce(odds, now) : o.pos \in RankOf}
           cut == {[o EXCEPT !.ends = now] : o \in old}
           new == {[pos |-> i, mult |-> c.mult[i], starts |-> now, ends |-> Forever] : i \in RankOf}
<1>1. /\ odds' = (odds \ old) \union cut \union new
      /\ changes' = changes \ {c} /\ backdated' = (backdated \/ (Decided /\ now <= created))
      /\ UNCHANGED <<rules, clock, saleVars, keys, prize>>
  BY DEF UpdateBoletPayouts
<1>2. MaxClock \in Nat /\ now \in 0..MaxClock /\ now \in 0..Forever /\ Forever \in 0..Forever /\ c.mult \in Payouts
  BY BetsAssumption DEF FitInv, ChangesFit, Forever
<1>3. \A i \in RankOf : c.mult[i] \in Nat \ {0} /\ i \in 0..3
  BY <1>2, BetsAssumption DEF RankOf
<1> DEFINE Fit(o) == /\ o.pos \in 0..3 /\ o.mult \in Nat \ {0}
                     /\ o.starts \in 0..MaxClock /\ o.ends \in 0..Forever
<1>4. \A o \in odds : o \in OddsRows /\ Fit(o)
  BY DEF BetsInv, OddsKept, FitInv, OddsFit
<1>5. \A p \in cut : Fit(p)
  <2> SUFFICES ASSUME NEW o \in old PROVE Fit([o EXCEPT !.ends = now])
    OBVIOUS
  <2>1. o \in odds
    BY DEF InForce
  <2>2. o \in OddsRows /\ Fit(o)
    BY <1>4, <2>1
  <2> HIDE DEF now, old
  <2> QED
    BY <1>2, <2>2 DEF OddsRows
<1>6. \A p \in new : Fit(p)
  <2> HIDE DEF now
  <2> QED
    BY <1>2, <1>3
<1> HIDE DEF now, old, cut, new
<1>7. \A p \in odds' : Fit(p)
  <2> HIDE DEF Fit
  <2> QED
    BY <1>1, <1>4, <1>5, <1>6
<1>8. OddsFit'
  BY <1>7 DEF OddsFit
<1>9. backdated' \in BOOLEAN
  BY <1>1, Zenon
<1>10. clock' \in 0..MaxClock /\ ChangesFit'
  BY <1>1 DEF FitInv, ChangesFit
<1> QED
  BY <1>1, <1>8, <1>9, <1>10, TablesStep

LEMMA DateFits ==
    ASSUME FitInv, NEW m \in Payouts, DatePayouts(m)
    PROVE  FitInv'
<1>1. /\ changes' = changes \union {[at |-> clock', mult |-> m]} /\ Tick
      /\ UNCHANGED <<rules, odds, saleVars, keys, prize, backdated>>
  BY DEF DatePayouts
<1>2. clock' \in 0..MaxClock
  BY <1>1, BetsAssumption DEF FitInv, Tick
<1>3. ChangesFit' /\ OddsFit' /\ backdated' \in BOOLEAN
  BY <1>1, <1>2 DEF FitInv, ChangesFit, OddsFit, PaidFits
<1> QED
  BY <1>1, <1>2, <1>3, TablesStep

LEMMA CreateFits ==
    ASSUME FitInv, NEW m \in Payouts, NEW i \in RankOf, NEW starts \in 0..clock + 1, CreateOdds(i, m, starts)
    PROVE  FitInv'
<1>1. /\ odds' = odds \union {[pos |-> i, mult |-> m[i], starts |-> starts, ends |-> Forever]}
      /\ backdated' = (backdated \/ starts < clock')
      /\ UNCHANGED <<rules, changes, saleVars, keys, prize>> /\ Tick
  BY DEF CreateOdds
<1>2. clock' \in 0..MaxClock /\ starts \in 0..MaxClock /\ Forever \in 0..Forever
  BY <1>1, BetsAssumption DEF FitInv, Tick, Forever
<1>3. m[i] \in Nat \ {0} /\ i \in 0..3
  BY BetsAssumption DEF RankOf
<1>4. OddsFit' /\ ChangesFit'
  BY <1>1, <1>2, <1>3 DEF FitInv, OddsFit, ChangesFit
<1>5. backdated' \in BOOLEAN
  BY <1>1, Zenon
<1> QED
  BY <1>1, <1>2, <1>4, <1>5, TablesStep

LEMMA PriceFits ==
    ASSUME BetsInv, FitInv, NEW o \in Offers, Price(o)
    PROVE  FitInv'
<1>1. /\ step = "idle" /\ step' \in {"priced", "refused"} /\ known' = rules
      /\ UNCHANGED <<rules, odds, changes, clock, created, quoted, keys, prize, backdated>>
  BY DEF Price
<1>2. /\ bet'.stake = o.stake
      /\ \/ bet'.odds = General
         \/ \E rank : bet'.odds = Multiplier(odds, rank, clock, General)
  BY DEF Price
<1>3. bet'.stake \in Nat \ {0} /\ bet'.odds \in Nat \ {0}
  <2>1. clock \in Nat /\ General \in Nat \ {0} /\ o.stake \in Nat \ {0}
    BY BetsAssumption DEF FitInv
  <2> QED
    BY <1>2, <2>1, PositiveMultiplier
<1>4. SaleFits'
  BY <1>1, <1>3 DEF FitInv, SaleFits, BetsInv
<1>5. PaidFits'
  BY <1>1 DEF FitInv, PaidFits, WinnersArePaid
<1> QED
  BY <1>1, <1>4, <1>5 DEF FitInv, OddsFit, ChangesFit

LEMMA CommitFits ==
    ASSUME FitInv, Commit
    PROVE  FitInv'
<1>1. /\ step = "priced" /\ step' \in {"refused", "sold"}
      /\ UNCHANGED <<rules, odds, changes, bet, free, known, keys, prize, backdated>>
  BY DEF Commit
<1>2. clock' \in 0..MaxClock /\ created' \in 0..MaxClock
  BY BetsAssumption DEF FitInv, SaleFits, Commit, Tick
<1>3. SaleFits'
  BY <1>1, <1>2 DEF FitInv, SaleFits
<1>4. PaidFits'
  BY <1>1 DEF FitInv, PaidFits, WinnersArePaid
<1> QED
  BY <1>1, <1>2, <1>3, <1>4 DEF FitInv, OddsFit, ChangesFit

LEMMA PublishFits ==
    ASSUME BetsInv, FitInv, NEW ks \in Results, Publish(ks)
    PROVE  FitInv'
<1>1. /\ step \in {"sold", "evaluated"} /\ Tick /\ keys' = ks /\ step' = "evaluated"
      /\ prize' = LineWinningAmount(bet, ks, created)
      /\ UNCHANGED <<rules, odds, changes, bet, free, known, created, quoted, backdated>>
  BY DEF Publish
<1>2. clock' \in 0..MaxClock
  BY <1>1, BetsAssumption DEF FitInv, Tick
<1>3. SaleFits'
  BY <1>1 DEF FitInv, SaleFits
<1>4. prize' \in Nat /\ (prize' > 0 <=> WinCount(bet, ks) > 0)
  BY <1>1, LineIsPaid
<1>5. PaidFits'
  BY <1>1, <1>4 DEF FitInv, PaidFits, WinnersArePaid
<1> QED
  BY <1>1, <1>2, <1>3, <1>5 DEF FitInv, OddsFit, ChangesFit

LEMMA NextFits == BetsInv /\ FitInv /\ [Next]_vars => FitInv'
<1> SUFFICES ASSUME BetsInv, FitInv, [Next]_vars PROVE FitInv'
  OBVIOUS
<1>1. ASSUME UNCHANGED <<odds, changes, clock, saleVars, keys, prize, backdated>> PROVE FitInv'
  <2>1. clock' \in 0..MaxClock /\ OddsFit' /\ ChangesFit' /\ backdated' \in BOOLEAN
    BY <1>1 DEF FitInv, OddsFit, ChangesFit, PaidFits
  <2> QED
    BY <1>1, <2>1, TablesStep
<1>2. ASSUME NEW r \in Blocks, BlockNumber(r) \/ SetLimitStatus(r) PROVE FitInv'
  BY <1>1, <1>2 DEF BlockNumber, SetLimitStatus
<1>3. ASSUME NEW c \in changes, UpdateBoletPayouts(c) PROVE FitInv'
  BY <1>3, UpdateFits
<1>9. ASSUME NEW m \in Payouts, DatePayouts(m) PROVE FitInv'
  BY <1>9, DateFits
<1>4. ASSUME NEW m \in Payouts, NEW i \in RankOf, NEW starts \in 0..clock + 1, CreateOdds(i, m, starts)
      PROVE  FitInv'
  BY <1>4, CreateFits
<1>5. ASSUME NEW o \in Offers, Price(o) PROVE FitInv'
  BY <1>5, PriceFits
<1>6. ASSUME Commit PROVE FitInv'
  BY <1>6, CommitFits
<1>7. ASSUME NEW ks \in Results, Publish(ks) PROVE FitInv'
  BY <1>7, PublishFits
<1>8. ASSUME UNCHANGED vars PROVE FitInv'
  BY <1>1, <1>8 DEF vars
<1> QED
  BY <1>2, <1>3, <1>4, <1>5, <1>6, <1>7, <1>8, <1>9 DEF Next

-----------------------------------------------------------------------------
\* The inductive invariant holds in every reachable state: the odds in force at the sale can be looked up for ever,
\* though a change of the payouts is dated before it is entered (updateBoletPayouts), unless it is entered late.
THEOREM BetsInvariant == Spec => []BetsInv
BY InitInv, NextInv, PTL DEF Spec

\* The free pairs drawn are never what a sale is refused for, while the blocked numbers stay as they were read
\* (randomFreeMaryajSelections against isNumberBlocked), for any blocks of one number or two.
THEOREM FreePairsPass == Spec => []FreeNeverRefused
<1>1. BetsInv => FreeNeverRefused
  <2> SUFFICES ASSUME BetsInv, step = "priced", rules = known, NEW p \in free
               PROVE  ~NumberBlocked(FreeLine(p))
    BY DEF FreeNeverRefused
  <2> QED
    BY DrawableIsFree DEF BetsInv, FreeDrawn
<1> QED
  BY <1>1, BetsInvariant, PTL

\* A line that is paid has matches to show (winningSelectionCount against winningKeysForLine), for any kind of bet.
THEOREM PaidMatchesAreShown == Spec => []PaidMatchIsShown
<1>1. BetsInv => PaidMatchIsShown
  <2> SUFFICES ASSUME BetsInv, step = "evaluated" PROVE PaidMatchIsShown
    BY DEF PaidMatchIsShown
  <2>1. ASSUME prize > 0, bet.code = "BOLET" => DOMAIN keys \subseteq RankOf
        PROVE  MatchedKeys(bet, keys) # {}
    <3>1. WinCount(bet, keys) # 0
      BY <2>1 DEF BetsInv, Evaluated
    <3> QED
      BY <2>1, <3>1, WinHasMatch DEF BetsInv, MaryajIsPair
  <2>2. ASSUME NEW p \in free, WinCount(FreeLine(p), keys) > 0
        PROVE  MatchedKeys(FreeLine(p), keys) # {}
    <3>1. FreeLine(p).code = "MARYAJ" /\ FreeLine(p).sel = p
      BY DEF FreeLine
    <3>2. DOMAIN p = 1..2
      BY PairIsItsBalls DEF BetsInv, FreeDrawn
    <3>3. WinCount(FreeLine(p), keys) # 0
      BY <2>2
    <3> QED
      BY <3>1, <3>2, <3>3, WinHasMatch
  <2> QED
    BY <2>1, <2>2 DEF PaidMatchIsShown
<1> QED
  BY <1>1, BetsInvariant, PTL

\* A Bolet is paid at the odds of its creation at whatever time it is evaluated (recalculateTicket looks them up
\* again), for any payouts and results and any number of changes, dated before they are entered; not if a rule is
\* entered by hand with a start in the past, or after the sale payouts dated before it.
THEOREM PrizeStaysAsSold == Spec => []PrizeAsSold
<1>1. BetsInv => PrizeAsSold
  BY DEF BetsInv
<1> QED
  BY <1>1, BetsInvariant, PTL

\* Every variable keeps its type: the times within the clock, the multipliers and the prize numbers.
THEOREM BetsTypes == Spec => []TypeOK
<1>1. BetsInv /\ FitInv => TypeOK
  BY DEF BetsInv, FreeDrawn, FitInv, ChangesFit, OddsFit, SaleFits, PaidFits, TypeOK
<1> QED
  BY <1>1, BetsInvariant, InitFits, NextFits, PTL DEF Spec

\* A line wins exactly when it is paid something, at whatever odds it is evaluated and however often: no ticket is
\* a winner of nothing (results-reconciliation-policy.ts: needsWinnerRepair looks for such tickets), and none is
\* paid for without a win.
THEOREM NoWinnerOfNothing == Spec => []WinnersArePaid
<1>1. FitInv => WinnersArePaid
  BY DEF FitInv, PaidFits
<1> QED
  BY <1>1, BetsInvariant, InitFits, NextFits, PTL DEF Spec
=============================================================================
