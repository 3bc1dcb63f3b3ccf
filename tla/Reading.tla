------------------------------ MODULE Reading -------------------------------
(***************************************************************************)
(* What is read off a statement: printed money (services/normalize.py for  *)
(* CSV, services/statements/parse.py for PDF), the columns of a page       *)
(* (layout.py), its rows and the check against the running balance         *)
(* (parse.py), the check of the text layer against the rendering           *)
(* (verify.py), and the fields of a receipt (services/ocr/parse.py).       *)
(* Every operator is a function of its arguments.                          *)
(*                                                                         *)
(* A line is a set of words [shape, at, value]: at is where the word's     *)
(* landmark (left edge; of money, the right one) is, in steps of two and a *)
(* half times COLUMN_TOLERANCE.  Confidence is in percent.                 *)
(***************************************************************************)
EXTENDS Integers, Sequences, FiniteSets, FiniteSetsExt, SequencesExt

CONSTANTS
    None,                \* no value
    MinTableRows,        \* MIN_TABLE_ROWS_PER_PAGE
    MaxOmissions,        \* statement_verify_max_omissions
    OmissionPercent      \* statement_verify_omission_fraction

(* Printed money: (lead value trail) suffix, with or without parentheses   *)
(* and decimals.                                                           *)
Printed(amounts) ==
    [cents : amounts, lead : {"", "-", "+"}, paren : BOOLEAN, trail : BOOLEAN,
     suffix : {"", "CR", "DR", "D"}, decimals : BOOLEAN]

(* A date as printed, and where the columns of a page are.                 *)
Dates == [day : Int, year : Int \cup {None}]
Columns == [date : Int, amount : Int, balance : Int \cup {None}]

ASSUME ReadingAssumption ==
    /\ None \notin Int \cup Printed(Nat) \cup Dates \cup Columns
    /\ MinTableRows \in Nat \ {0}
    /\ MaxOmissions \in Nat /\ OmissionPercent \in 0 .. 99

Magnitude(n) == IF n < 0 THEN -n ELSE n
Signed(negative, n) == IF negative THEN -n ELSE n

-----------------------------------------------------------------------------
(* Money.                                                                  *)

(* parse_amount of a statement: parentheses only where they enclose all.   *)
StatementAmount(p) ==
    IF (p.paren /\ p.suffix # "") \/ ~p.decimals THEN None
    ELSE Signed(p.paren \/ p.trail \/ p.lead = "-" \/ p.suffix \in {"DR", "D"}, p.cents)

(* parse_amount_to_cents of a CSV: a trailing minus is no number, a D is   *)
(* cleaned away with the other letters.                                    *)
CsvAmount(p) ==
    IF p.trail THEN None
    ELSE Signed(p.paren \/ p.lead = "-" \/ p.suffix = "DR", p.cents)

(* _resolve_amount: the signed column, or debit before credit; a row whose *)
(* amount cannot be read, or is zero, is an error.                         *)
CsvRow(amount, debit, credit) ==
    LET read == IF amount # None THEN CsvAmount(amount)
                ELSE IF debit # None THEN
                    IF CsvAmount(debit) = None THEN None ELSE -Magnitude(CsvAmount(debit))
                ELSE IF credit # None THEN
                    IF CsvAmount(credit) = None THEN None ELSE Magnitude(CsvAmount(credit))
                ELSE None
    IN IF read = 0 THEN None ELSE read

(* A date as printed, day and month and perhaps the year; the year of the  *)
(* end of the period stands in.                                            *)
DateRead(printed, hint) ==
    IF printed.year # None THEN printed
    ELSE IF hint = None THEN None
    ELSE [printed EXCEPT !.year = hint]

-----------------------------------------------------------------------------
(* Columns.                                                                *)

(* Landmarks that at least MinTableRows words of a shape share.            *)
Populated(lines, shape) ==
    LET words == {e \in (DOMAIN lines) \X (UNION Range(lines)) :
                    e[2] \in lines[e[1]] /\ e[2].shape = shape}
    IN {x \in {e[2].at : e \in words} :
            Cardinality({e \in words : e[2].at = x}) >= MinTableRows}

(* infer_columns: the leftmost dates; of the money, the rightmost is the   *)
(* balance and the one before it the amount.                               *)
InferColumns(lines) ==
    LET dates == Populated(lines, "date")
        money == Populated(lines, "money")
    IN IF dates = {} \/ money = {} THEN None
       ELSE LET one == Cardinality(money) = 1
                amount == IF one THEN Max(money) ELSE Max(money \ {Max(money)})
            IN IF amount <= Min(dates) + 1 THEN None
               ELSE [date |-> Min(dates), amount |-> amount,
                     balance |-> IF one THEN None ELSE Max(money)]

(* column_of goes by the place only, line_matches by the shape as well.    *)
Within(line, columns, column) ==
    LET Landmark(w) == CASE w.at = columns.amount -> "amount"
                         [] w.at = columns.balance -> "balance"
                         [] w.at = columns.date -> "date"
                         [] columns.date < w.at /\ w.at < columns.amount -> "description"
                         [] OTHER -> "unknown"
    IN {w \in line : Landmark(w) = column}

LineMatches(line, columns) ==
    /\ \E w \in Within(line, columns, "date") : w.shape = "date"
    /\ \E w \in Within(line, columns, "amount") : w.shape = "money"

IsTable(lines, columns, minimum) ==
    Cardinality({i \in DOMAIN lines : LineMatches(lines[i], columns)}) >= minimum

ValueIn(line, columns, column) ==
    LET words == Within(line, columns, column)
    IN IF words = {} THEN None ELSE (CHOOSE w \in words : TRUE).value

Described(line, columns) == {w.value : w \in Within(line, columns, "description")}

(* _row_from_line: the lines that resolve to a row, and the row.           *)
Resolves(line, columns, hint) ==
    /\ LineMatches(line, columns)
    /\ DateRead(ValueIn(line, columns, "date"), hint) # None
    /\ ValueIn(line, columns, "amount") # None
    /\ Described(line, columns) # {}

RowFrom(line, columns, hint) ==
    LET balance == ValueIn(line, columns, "balance")
        brief == Described(line, columns) = {"brief"}
    IN [date |-> DateRead(ValueIn(line, columns, "date"), hint),
        amount |-> ValueIn(line, columns, "amount"), balance |-> balance,
        confidence |-> 100 - (IF balance = None THEN 10 ELSE 0) - (IF brief THEN 20 ELSE 0),
        notes |-> {n \in {"no_balance_column", "short_description"} :
                       \/ n = "no_balance_column" /\ balance = None
                       \/ n = "short_description" /\ brief}]

(* The rows of a page, by line.  A page that resolves its own columns must *)
(* corroborate them; another borrows the document's and needs one row.     *)
PageRows(lines, document, hint) ==
    LET own == InferColumns(lines)
        columns == IF own # None THEN own ELSE document
        minimum == IF own # None THEN MinTableRows ELSE 1
    IN [i \in {i \in DOMAIN lines : /\ columns # None
                                    /\ IsTable(lines, columns, minimum)
                                    /\ Resolves(lines[i], columns, hint)} |->
            RowFrom(lines[i], columns, hint)]

(* What all pages hold, by page and line.                                  *)
Paged(pages) == [at \in UNION {{p} \X DOMAIN pages[p] : p \in DOMAIN pages} |-> pages[at[1]][at[2]]]

DocumentRows(pages, hint) ==
    Paged([p \in DOMAIN pages |-> PageRows(pages[p], InferColumns(Paged(pages)), hint)])

-----------------------------------------------------------------------------
(* The balance chain.                                                      *)

(* Mutant of Settled: the sign is always taken from the page.              *)
SettledAsPrinted(row, previous) ==
    IF Magnitude(row.balance - previous) = Magnitude(row.amount) THEN row
    ELSE [row EXCEPT !.notes = @ \cup {"balance_mismatch"}]

(* A row with a balance, after one: the balance settles the sign, or shows *)
(* that something was misread.                                             *)
Settled(row, previous) ==
    LET delta == row.balance - previous
    IN IF delta = row.amount THEN row
       ELSE IF Magnitude(delta) = Magnitude(row.amount)
            THEN [row EXCEPT !.amount = delta, !.notes = @ \cup {"sign_from_balance"}]
       ELSE [row EXCEPT !.confidence = IF @ < 40 THEN @ ELSE 40,
                        !.notes = @ \cup {"balance_mismatch"}]

Chained(rows) ==
    FoldLeft(LAMBDA sofar, row :
                [previous |-> IF row.balance = None THEN sofar.previous ELSE row.balance,
                 rows |-> Append(sofar.rows,
                            IF row.balance = None \/ sofar.previous = None THEN row
                            ELSE Settled(row, sofar.previous))],
             [previous |-> None, rows |-> <<>>], rows).rows

Noted(row, note) == note \in row.notes

(* Where amounts are printed unsigned, the first row has no balance before *)
(* it to tell its sign.                                                    *)
Unresolved(rows) ==
    {i \in DOMAIN rows : rows[i].balance # None
                         /\ ~Noted(rows[i], "sign_from_balance") /\ ~Noted(rows[i], "balance_mismatch")}

Unsure(row) ==
    [row EXCEPT !.confidence = IF @ < 50 THEN @ ELSE 50, !.notes = @ \cup {"sign_unresolved"}]

FlagFirst(rows) ==
    IF (\E i \in DOMAIN rows : Noted(rows[i], "sign_from_balance")) /\ Unresolved(rows) # {}
    THEN [rows EXCEPT ![Min(Unresolved(rows))] = Unsure(@)]
    ELSE rows

ChainChecked(rows) == Cardinality({i \in DOMAIN rows : rows[i].balance # None}) >= 2
AfterChain(rows) == IF ChainChecked(rows) THEN FlagFirst(Chained(rows)) ELSE rows
ChainOk(rows) ==
    ChainChecked(rows) /\ \A i \in DOMAIN rows : ~Noted(AfterChain(rows)[i], "balance_mismatch")

-----------------------------------------------------------------------------
(* The text layer against the rendering.  A token is what the page draws   *)
(* there (what is claimed, a longer figure that contains it, another, or   *)
(* nothing), and what each pass over the page and the focused read find:   *)
(* the token, its digits, other digits, or none.                           *)
Reads == {"exact", "digits", "other", "unread"}
Token == [drawn : {"claimed", "longer", "other", "nothing"},
          first : Reads, second : Reads, focused : Reads]

(* Optical recognition may fail or err, but reads nothing off blank paper. *)
Plausible(t) ==
    /\ t.drawn = "nothing" => {t.first, t.second, t.focused} = {"unread"}
    /\ t.drawn = "other" => {t.first, t.second, t.focused} \subseteq {"other", "unread"}

Verdict(t, read) ==
    CASE read \in {"exact", "digits"} -> "matched"
      [] read = "other" -> "conflict"
      [] read = "unread" /\ t.drawn = "nothing" -> "conflict"
      [] read = "unread" /\ t.drawn # "nothing" ->
            IF t.focused = "unread" THEN "omitted"
            ELSE IF t.focused = "other" THEN "conflict" ELSE "matched"

FirstPass(t) == Verdict(t, t.first)
SecondPass(t) == Verdict(t, t.second)

(* statement_verify_min_coverage asks for nothing more: without conflicts  *)
(* every token is covered.                                                 *)
Budget(tokens) == Max({MaxOmissions, (Len(tokens) * OmissionPercent) \div 100})
WithinBudget(verdicts) ==
    /\ "conflict" \notin Range(verdicts)
    /\ Cardinality({i \in DOMAIN verdicts : verdicts[i] = "omitted"}) <= Budget(verdicts)

(* A page is read again, at a higher resolution, before it is refused; one *)
(* that cannot be rendered is not checked, and one that cannot be rendered *)
(* again stays refused.                                                    *)
PageAgrees(tokens, rendered, again) ==
    \/ tokens = <<>> \/ ~rendered
    \/ WithinBudget([i \in DOMAIN tokens |-> FirstPass(tokens[i])])
    \/ again /\ WithinBudget([i \in DOMAIN tokens |-> SecondPass(tokens[i])])

-----------------------------------------------------------------------------
(* A receipt: lines [label, cents, confidence] from the top, a label being *)
(* the money field the line starts with, or "none".  The merchant and the  *)
(* date come as [found, confidence].                                       *)
Fields == {"subtotal", "tax", "tip", "total"}

(* The first line with a field's label is the field; with no total, the    *)
(* largest amount is, at reduced confidence.                               *)
FieldRead(lines, field) ==
    LET own == {i \in DOMAIN lines : lines[i].label = field}
        largest == {i \in DOMAIN lines : \A j \in DOMAIN lines : lines[j].cents <= lines[i].cents}
    IN IF own # {} THEN [cents |-> lines[Min(own)].cents, confidence |-> lines[Min(own)].confidence]
       ELSE IF field = "total" /\ lines # <<>>
            THEN [cents |-> lines[Min(largest)].cents,
                  confidence |-> (lines[Min(largest)].confidence * 60) \div 100]
       ELSE None

OrZero(read) == IF read = None THEN 0 ELSE read.cents

(* is_arithmetically_consistent, where there is enough to check.           *)
Checkable(read) == read["total"] # None /\ read["subtotal"] # None
AddsUp(read) ==
    Magnitude(read["subtotal"].cents + OrZero(read["tax"]) + OrZero(read["tip"])
                - read["total"].cents) <= 2

(* _apply_consistency                                                      *)
Corroborated(read) ==
    IF ~Checkable(read) THEN read
    ELSE [f \in Fields |->
            IF read[f] = None THEN None
            ELSE [read[f] EXCEPT !.confidence =
                    IF AddsUp(read) THEN Min({100, @ + 10}) ELSE Max({0, @ - 25})]]

ReceiptRead(lines) == Corroborated([f \in Fields |-> FieldRead(lines, f)])

(* needs_review, FIELD_REVIEW_THRESHOLD being 75.                          *)
ReceiptNeedsReview(lines, merchant, date) ==
    LET read == ReceiptRead(lines)
    IN \/ read["total"] = None \/ ~merchant.found \/ ~date.found
       \/ Checkable(read) /\ ~AddsUp(read)
       \/ merchant.confidence < 75 \/ date.confidence < 75
       \/ \E f \in Fields : read[f] # None /\ read[f].confidence < 75
=============================================================================
