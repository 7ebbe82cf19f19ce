----------------------------- MODULE MCReports ------------------------------
(* A ticket of the single sale, whose line has no draw, and one for two    *)
(* draws with a free line.                                                 *)
EXTENDS Reports

CONSTANTS d1, d2, m1, m2, b1, b2

MCContents ==
    {[primary |-> d1, draws |-> {}, lines |-> {[id |-> 1, draw |-> NoDraw, free |-> FALSE]}],
     [primary |-> d1, draws |-> {d1, d2},
      lines |-> {[id |-> 1, draw |-> d1, free |-> FALSE], [id |-> 2, draw |-> d2, free |-> FALSE],
                 [id |-> 3, draw |-> d1, free |-> TRUE]}]}
\* Every query comes before every other in one of them.
MCBatches ==
    LET order == <<"totals", "cancelled", "statuses", "merchants", "days", "payouts", "commissions", "draws",
                   "mine", "platform", "platformReport">>
        upTo(n) == {order[i] : i \in 1..n}
    IN {upTo(n) : n \in 1..11} \union {Queries \ upTo(n) : n \in 1..10}
\* The owner: everything, a merchant, an office, a merchant of an office; a merchant who asks for another's.
MCRequests ==
    {[by |-> w[1], merchants |-> w[2], office |-> w[3], days |-> ds] :
        w \in {<<"owner", Nothing, Nothing>>, <<"owner", {m1}, Nothing>>, <<"owner", Nothing, b1>>,
               <<"owner", {m1}, b1>>, <<m1, {m2}, b2>>},
        ds \in {{1}, {2}, {1, 2}}}
MCHomeOffice == [m \in Merchants |-> IF m = m1 THEN b1 ELSE b2]
=============================================================================
