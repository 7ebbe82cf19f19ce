----------------------------- MODULE Documents ------------------------------
(***************************************************************************)
(* The documents of the system, drawn by hand with a cursor: the sales     *)
(* report (services/api/src/reports/pdf-report.ts), tables over several    *)
(* pages whose cursor falls from the top of the page; and the receipt      *)
(* (apps/merchant-web/app/receipt-export.ts) as a PDF, one page whose      *)
(* height is measured by one walk over its blocks and drawn by another, and*)
(* as an image, of code and sizes of its own.                              *)
(*                                                                         *)
(* A text is the sequence of the lengths of its words.  Lengths are points *)
(* in the report, thousandths of a millimetre in the receipt and hundredths*)
(* of a pixel in the image.  Colours, fonts, columns and wording are left  *)
(* out: a row is as high as its longest cell, so it has one.               *)
(***************************************************************************)
EXTENDS Integers, Sequences

CONSTANTS
    Reports,    \* sequences of tables, a table being [rows: a number, text: what each row holds]
    Receipts    \* tickets to print: [logo, brand, draw, branch, rows, won], a row being [number, extra]

Text == Seq(Nat)

ASSUME DocumentsAssumption ==
    /\ Reports \subseteq Seq([rows : Nat, text : Text])
    /\ Receipts \subseteq [logo : BOOLEAN, brand : Text, draw : Text, branch : Text,
                          rows : Seq([number : Text, extra : Text]), won : BOOLEAN]

VARIABLES
    doc,        \* what is drawn: [kind, input]
    at,         \* how far: the table and the row of a report, or the number of blocks of a receipt
    pages,      \* what is on each page: a sequence of [kind, table, row, top, bottom]
    y,          \* the cursor
    done

docVars == <<doc, at, pages, y, done>>

SumTo(s, k) ==
    LET sum[n \in 0..Len(s)] == IF n = 0 THEN 0 ELSE sum[n - 1] + s[n]
    IN sum[k]

Total(s) == SumTo(s, Len(s))
Largest(a, b) == IF a > b THEN a ELSE b

-----------------------------------------------------------------------------
(* The report: wrapping. *)

MaxLines == 3
MaxChars == 25    \* floor((125 - 16) / 4.2), the column of merchants

\* The lines filled so far and the length of the one being filled.
Flushed(w) == w.lines + (IF w.cur > 0 THEN 1 ELSE 0)

\* One turn of the loop over the words; none after a turn that ends with all lines in use.
WrapWord(w, word) ==
    IF w.lines >= MaxLines THEN w
    ELSE IF word > MaxChars
    THEN LET slices == (word - 1) \div MaxChars
             room == MaxLines - Flushed(w)
             n == IF slices < room THEN slices ELSE room
         IN [lines |-> Flushed(w) + n, cur |-> word - n * MaxChars]
    ELSE IF w.cur > 0 /\ w.cur + 1 + word > MaxChars THEN [lines |-> Flushed(w), cur |-> word]
    ELSE [w EXCEPT !.cur = IF w.cur > 0 THEN w.cur + 1 + word ELSE word]

Empty == [lines |-> 0, cur |-> 0]

\* What does not fit is cut off, and dots are put in the place of its last letters.
Wrapped(text) ==
    LET words[n \in 0..Len(text)] == IF n = 0 THEN Empty ELSE WrapWord(words[n - 1], text[n])
        w == words[Len(text)]
    IN IF w.lines < MaxLines THEN Flushed(w) ELSE w.lines

-----------------------------------------------------------------------------
(* The report: pages. *)

PageTop == 842 - 104
FirstTop == 842 - 158 - 86
Bottom == 57
TitleHeight == 22
HeaderHeight == 29
Gap == 14

RowHeight(text) == Largest(26, Wrapped(text) * 10 + 12)

Table == doc.input[at.table]
RowsOf(table) == Largest(1, table.rows)    \* an empty table has a row that says so

\* The projected height without the title and the header.
ProjectedRows(table) == RowsOf(table) * RowHeight(table.text) + Gap

Projected(table) == TitleHeight + HeaderHeight + RowsOf(table) * RowHeight(table.text) + Gap

Item(kind, top, height) == [kind |-> kind, table |-> at.table, row |-> at.row, top |-> top, bottom |-> top - height]

\* The title and the header of the table, at the cursor or on a new page.
Block(fresh) ==
    LET top == IF fresh THEN PageTop ELSE y
        here == <<Item("title", top, TitleHeight), Item("header", top - TitleHeight, HeaderHeight)>>
    IN [top |-> top - TitleHeight - HeaderHeight,
        pages |-> IF fresh THEN Append(pages, here)
                  ELSE [pages EXCEPT ![Len(pages)] = @ \o here]]

\* table: a short table that does not fit moves to the next page as a whole.
KeptTogether(table) == RowsOf(table) <= 12 /\ y - Projected(table) < Bottom /\ y < 842 - 200

StartTable ==
    /\ doc.kind = "report" /\ at.row = 0 /\ at.table <= Len(doc.input)
    /\ LET block == Block(KeptTogether(Table) \/ y < 112)
       IN pages' = block.pages /\ y' = block.top
    /\ at' = [at EXCEPT !.row = 1] /\ UNCHANGED <<doc, done>>

\* The row starts a page of its own only when the cursor is below the bottom.
RowBreaksLate(height) == y < Bottom

RowBreaks(height) == y - height < Bottom

DrawRow ==
    /\ doc.kind = "report" /\ at.row > 0
    /\ LET height == RowHeight(Table.text)
           block == IF RowBreaks(height) THEN Block(TRUE) ELSE [top |-> y, pages |-> pages]
           last == at.row = RowsOf(Table)
       IN /\ pages' = [block.pages EXCEPT ![Len(block.pages)] = Append(@, Item("row", block.top, height))]
          /\ y' = block.top - height - (IF last THEN Gap ELSE 0)
          /\ at' = IF last THEN [table |-> at.table + 1, row |-> 0] ELSE [at EXCEPT !.row = @ + 1]
    /\ UNCHANGED <<doc, done>>

FinishReport ==
    /\ doc.kind = "report" /\ at.table > Len(doc.input) /\ ~done
    /\ done' = TRUE /\ UNCHANGED <<doc, at, pages, y>>

-----------------------------------------------------------------------------
(* The receipt. *)

\* wrapText: a word that is too long is cut and nothing follows its last piece.
WrapReceiptWord(limit, w, word) ==
    IF word > limit THEN [lines |-> Flushed(w) + (word + limit - 1) \div limit, cur |-> 0]
    ELSE IF w.cur > 0 /\ w.cur + 1 + word > limit THEN [lines |-> Flushed(w), cur |-> word]
    ELSE [w EXCEPT !.cur = IF w.cur > 0 THEN w.cur + 1 + word ELSE word]

LinesOf(text, limit) ==
    LET words[n \in 0..Len(text)] == IF n = 0 THEN Empty ELSE WrapReceiptWord(limit, words[n - 1], text[n])
    IN Largest(1, Flushed(words[Len(text)]))

\* Sizes are in tenths of a point: a line of size s holds 50 / (s * 0.21) characters.
TextBlock(text, size, gap) ==
    [kind |-> "text", lines |-> LinesOf(text, Largest(12, 500000 \div (size * 210))), size |-> size, gap |-> gap]
Rule(gap) == [kind |-> "rule", gap |-> gap]
RowBlock(row) == [kind |-> "row", row |-> row]
Simple(kind) == [kind |-> kind]
If(cond, blocks) == IF cond THEN blocks ELSE <<>>

\* pdfBlocks: what goes on the receipt of ticket t, in this order.
Blocks(t) ==
    If(t.logo, <<Simple("logo")>>) \o If(t.brand # <<>>, <<TextBlock(t.brand, 120, 1200)>>)
    \o <<TextBlock(<<5, 12>>, 80, 1200), TextBlock(<<6>> \o t.draw, 80, 1200)>>
    \o If(t.branch # <<>>, <<TextBlock(<<5>> \o t.branch, 75, 1200)>>)
    \o <<TextBlock(<<3, 1, 3, 10, 5>>, 75, 1200), Rule(1700), Simple("heading")>>
    \o [i \in 1..Len(t.rows) |-> RowBlock(t.rows[i])]
    \o <<Rule(2000), TextBlock(<<6, 9>>, 110, 1000), TextBlock(<<7, 6>>, 80, 1200)>>
    \o If(t.won, <<TextBlock(<<3, 8, 9>>, 80, 1200)>>)
    \o <<TextBlock(<<8, 12>>, 75, 1200), Simple("qr"), TextBlock(<<5, 5, 7, 3>>, 70, 0)>>

TextHeight(b) == b.lines * (b.size * 45 + 1500) + b.gap
NumberHeight(row) == Largest(6100, LinesOf(row.number, 20) * 4800)

\* A measure that takes every row for a line.
MeasuredFlat(b) ==
    CASE b.kind = "text" -> TextHeight(b) [] b.kind = "rule" -> b.gap * 2 + 700
      [] b.kind = "row" -> NumberHeight(b.row)
      [] b.kind = "heading" -> 6100 [] b.kind = "logo" -> 15000 [] b.kind = "qr" -> 29000

\* pdfBlocks: what a block adds to the height of the page.
Measured(b) ==
    CASE b.kind = "text" -> TextHeight(b) [] b.kind = "rule" -> b.gap * 2 + 700
      [] b.kind = "row" -> NumberHeight(b.row) + (IF b.row.extra # <<>> THEN LinesOf(b.row.extra, 38) * 4200 ELSE 0)
      [] b.kind = "heading" -> 6100 [] b.kind = "logo" -> 15000 [] b.kind = "qr" -> 29000

\* makeTicketPdf: how far a block moves the cursor.
Drawn(b) ==
    CASE b.kind = "text" -> TextHeight(b) [] b.kind = "rule" -> b.gap * 2 + 700
      [] b.kind = "row" -> NumberHeight(b.row) + (IF b.row.extra # <<>> THEN LinesOf(b.row.extra, 38) * 4200 ELSE 0)
      [] b.kind = "heading" -> 6100 [] b.kind = "logo" -> 14000 [] b.kind = "qr" -> 27000 + 2000

UpToMillimetre(n) == ((n + 999) \div 1000) * 1000
ReceiptHeight(t) ==
    LET blocks == Blocks(t)
    IN Largest(65000, UpToMillimetre(6000 + Total([i \in 1..Len(blocks) |-> Measured(blocks[i])]) + 5000))

DrawBlock ==
    /\ doc.kind = "receipt" /\ at.row < Len(Blocks(doc.input))
    /\ LET b == Blocks(doc.input)[at.row + 1]
       IN /\ y' = y + Drawn(b)
          /\ pages' = [pages EXCEPT ![1] = Append(@, [kind |-> b.kind, top |-> y, bottom |-> y + Drawn(b)])]
    /\ at' = [at EXCEPT !.row = @ + 1] /\ done' = (at.row + 1 = Len(Blocks(doc.input)))
    /\ UNCHANGED doc

-----------------------------------------------------------------------------
(* The receipt as an image. *)

\* ticketSvg, addText: a line of size s holds 430 / (s * 0.62) characters.
ImageText(text, size, gap) ==
    [kind |-> "text", lines |-> LinesOf(text, Largest(12, 43000 \div (size * 62))), size |-> size, gap |-> gap]

\* ticketSvg: what goes on the image of ticket t, in this order.
ImageBlocks(t) ==
    If(t.logo, <<Simple("logo")>>) \o (If(t.brand # <<>>, <<ImageText(t.brand, 24, 8)>>)
    \o <<ImageText(<<5, 12>>, 17, 5), ImageText(<<6>> \o t.draw, 16, 5)>>
    \o If(t.branch # <<>>, <<ImageText(<<5>> \o t.branch, 14, 3)>>)
    \o <<ImageText(<<3, 1, 3, 10, 5>>, 14, 5), Rule(22), Simple("heading")>>
    \o [i \in 1..Len(t.rows) |-> RowBlock(t.rows[i])]
    \o <<Rule(28), ImageText(<<6, 9>>, 22, 7), ImageText(<<7, 6>>, 16, 5)>>
    \o If(t.won, <<ImageText(<<3, 8, 9>>, 16, 5)>>)
    \o <<ImageText(<<8, 12>>, 14, 4), Simple("qr"), ImageText(<<5, 5, 7, 3>>, 13, 0)>>)

Pitch(size) == size * 145 + 500
NumberLines(b) == LinesOf(b.row.number, 25)

\* The cursor after a block drawn at z; the logo has a place of its own, and the texts start below it.
After(b, z) ==
    CASE b.kind = "text" -> z + b.lines * Pitch(b.size) + b.gap * 100
      [] b.kind = "rule" -> z + b.gap * 100
      [] b.kind = "row" -> z + 2800 + (NumberLines(b) - 1) * 2200 + (IF b.row.extra # <<>> THEN 2100 ELSE 0)
      [] b.kind = "heading" -> z + 2400 [] b.kind = "logo" -> 7400 [] b.kind = "qr" -> z + 23800

\* The first and the last baseline of a block drawn at z, with the sizes of their letters.
Baselines(b, z) ==
    CASE b.kind = "text" -> [first |-> z, last |-> z + (b.lines - 1) * Pitch(b.size), size |-> b.size, end |-> b.size]
      [] b.kind = "heading" -> [first |-> z, last |-> z, size |-> 14, end |-> 14]
      [] b.kind = "row" ->
           LET n == NumberLines(b)
           IN IF b.row.extra # <<>> THEN [first |-> z, last |-> z + 2800 + (n - 1) * 2200, size |-> 16, end |-> 12]
              ELSE [first |-> z, last |-> IF n = 1 THEN z ELSE z + 2800 + (n - 2) * 2200, size |-> 16, end |-> 16]

\* What a block covers: letters reach 0.72 of their size over the baseline and 0.22 under it.
Ink(b, z) ==
    CASE b.kind = "logo" -> [top |-> 1200, bottom |-> 5600]
      [] b.kind = "qr" -> [top |-> z, bottom |-> z + 22000]
      [] b.kind = "rule" -> [top |-> z, bottom |-> z]
      [] OTHER -> LET at0 == Baselines(b, z)
                  IN [top |-> at0.first - 72 * at0.size, bottom |-> at0.last + 22 * at0.end]

DrawImageBlock ==
    /\ doc.kind = "image" /\ at.row < Len(ImageBlocks(doc.input))
    /\ LET b == ImageBlocks(doc.input)[at.row + 1]
       IN /\ y' = After(b, y)
          /\ pages' = [pages EXCEPT ![1] = Append(@, [kind |-> b.kind, top |-> Ink(b, y).top, bottom |-> Ink(b, y).bottom])]
    /\ at' = [at EXCEPT !.row = @ + 1] /\ done' = (at.row + 1 = Len(ImageBlocks(doc.input)))
    /\ UNCHANGED doc

ImageHeight == ((y + 1800 + 99) \div 100) * 100

-----------------------------------------------------------------------------
DocInit ==
    /\ \/ doc \in [kind : {"report"}, input : Reports] /\ y = FirstTop /\ at = [table |-> 1, row |-> 0]
       \/ doc \in [kind : {"receipt"}, input : Receipts] /\ y = 6000 /\ at = [table |-> 0, row |-> 0]
       \/ doc \in [kind : {"image"}, input : Receipts] /\ y = 4000 /\ at = [table |-> 0, row |-> 0]
    /\ pages = <<<<>>>> /\ done = FALSE

DocNext == StartTable \/ DrawRow \/ FinishReport \/ DrawBlock \/ DrawImageBlock

DocSpec == DocInit /\ [][DocNext]_docVars

-----------------------------------------------------------------------------
DocTypeOK ==
    /\ doc \in [kind : {"report"}, input : Reports] \union [kind : {"receipt", "image"}, input : Receipts]
    /\ at \in [table : Nat, row : Nat] /\ y \in Int /\ done \in BOOLEAN
    /\ \A p \in DOMAIN pages : \A i \in DOMAIN pages[p] : pages[p][i].top \in Int /\ pages[p][i].bottom \in Int

\* On this page no row runs into the footer or into what is above it, and every row stands under the title and the
\* header of its table.
Readable(page) ==
    \A i \in DOMAIN page : page[i].kind = "row" =>
        /\ \E j \in 1..(i - 1) : page[j].kind = "header" /\ page[j].table = page[i].table
        /\ page[i].bottom >= Bottom /\ page[i].top <= page[i - 1].bottom

\* Whatever is on a page of a report can be read there, on every page of it.  (pdf-report.ts: table)
RowsReadUnderTheirHeader ==
    doc.kind = "report" => \A p \in DOMAIN pages : Readable(pages[p])

\* With a later row of a table of twelve rows or less its first row is on this page.
Whole(page) ==
    \A i \in DOMAIN page : page[i].kind = "row" /\ page[i].row > 1 /\ RowsOf(doc.input[page[i].table]) <= 12 =>
        \E j \in DOMAIN page : page[j].kind = "row" /\ page[j].table = page[i].table /\ page[j].row = 1

\* A table of twelve rows or less is never split, wherever it starts and however its cells wrap: when its first
\* row is placed there is room for all.  (pdf-report.ts: table, projectedHeight)
ShortTablesAreWhole ==
    doc.kind = "report" => \A p \in DOMAIN pages : Whole(pages[p])

\* The page of a receipt is as long as what is drawn on it and its lower margin, which is measured by other code
\* than draws it; and on its image nothing is printed over what stands above it, whichever of its parts there are,
\* nor below the edge.  (receipt-export.ts: pdfBlocks, makeTicketPdf, ticketSvg)
ReceiptFits ==
    /\ doc.kind = "receipt" => y + 5000 <= ReceiptHeight(doc.input)
    /\ doc.kind = "image" =>
          /\ \A i \in 2..Len(pages[1]) : pages[1][i].top >= pages[1][i - 1].bottom
          /\ done => pages[1][Len(pages[1])].bottom <= ImageHeight
=============================================================================
