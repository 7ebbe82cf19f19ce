------------------------------- MODULE MCBets -------------------------------
(* A Bolet sold alone and among several draws, a Boul Pe, a Maryaj that     *)
(* earns free ones and a LOTO with a position; results whose first key has  *)
(* three digits, where a ball comes out late, or twice, and of four keys.   *)
EXTENDS Bets

Offer(code, sel, pos, stake, multi) == [code |-> code, sel |-> sel, pos |-> pos, stake |-> stake, multi |-> multi]
MCOffers == {Offer("BOLET", <<12>>, 0, 1, FALSE), Offer("BOLET", <<12>>, 0, 2, TRUE), Offer("BOLET", <<5>>, 0, 1, FALSE),
             Offer("BOUL_PE", <<55>>, 0, 1, FALSE), Offer("MARYAJ", <<34, 55>>, 0, 2, FALSE),
             Offer("LOTO3", <<112>>, 1, 1, TRUE)}
MCResults == {<<112, 34, 55>>, <<105, 12, 12>>, <<21, 34, 55, 12>>}
MCBlocks == {[number |-> <<34>>, pos |-> 0, code |-> "ANY"],
             [number |-> <<34, 12>>, pos |-> 0, code |-> "MARYAJ"],
             [number |-> <<12>>, pos |-> 1, code |-> "BOLET"]}
MCPayouts == {<<5, 3, 1>>}
=============================================================================
