------------------------- MODULE MCTicketLifecycle -------------------------
(* t1 has a line on every draw and t2 on d1 only, so that with one ticket   *)
(* and two draws a ticket can be partly decided, and with two tickets and   *)
(* one draw they contend for the draw's result.                             *)
EXTENDS TicketRefinement

CONSTANTS t1, d1, r1

MCDrawsOf == [t \in Tickets |-> IF t = t1 THEN Draws ELSE {d1}]
MCPrimary == [t \in Tickets |-> d1]

\* A line on d1 wins 1 with r1, one on another draw wins 2 with any other result: the amounts 0 to
\* 3 of t1 tell which of its lines won.
LinePrize(d, r) == IF d = d1 THEN (IF r = r1 THEN 1 ELSE 0) ELSE (IF r = r1 THEN 0 ELSE 2)
MCPrize(t, o) ==
    IF DrawsOf[t] = {d1} THEN LinePrize(d1, o[d1])
    ELSE LinePrize(d1, o[d1]) + LinePrize(CHOOSE d \in Draws : d # d1, o[CHOOSE d \in Draws : d # d1])
=============================================================================
