---------------------------- MODULE MCDocuments -----------------------------
(* Reports of three tables, short and long, whose cells take one to three  *)
(* lines, with words at the limits of the column; receipts with and without*)
(* every optional part.                                                    *)
EXTENDS Documents

MCTexts == {<<8>>, <<20, 20>>, <<25, 26>>, <<76>>, <<79>>, <<10, 10, 10, 10, 10, 10, 10>>}
MCTables ==
    [rows : {0, 1, 5, 12}, text : {<<8>>, <<20, 20>>, <<10, 10, 10, 10, 10, 10, 10>>}]
    \union [rows : {9}, text : MCTexts] \union [rows : {13, 40}, text : {<<8>>, <<25, 26>>}]
MCReports == [1..3 -> MCTables]

MCRows == [number : {<<2>>, <<2, 1, 2>>, <<9, 1, 9, 1, 9>>}, extra : {<<>>, <<7, 1, 1, 1, 8, 1, 9>>, <<7, 1, 2, 1, 8, 1, 1, 1, 14>>}]
MCReceipts ==
    [logo : BOOLEAN, brand : {<<>>, <<9, 24>>}, draw : {<<6>>, <<10, 12, 1, 10, 12>>}, branch : {<<>>, <<14>>},
     rows : {<<r>> : r \in MCRows} \union {<<r, s>> : r, s \in MCRows}, won : BOOLEAN]
=============================================================================
