------------------------------ MODULE MCRules -------------------------------
(***************************************************************************)
(* The rules of Reading, Detecting, Planning and Telling over small        *)
(* inputs: every initial state is one input, and nothing happens after it. *)
(***************************************************************************)
EXTENDS Reading, Detecting, Telling

VARIABLE case

-----------------------------------------------------------------------------
(* Statements by the balances after their lines, printed with signs or     *)
(* without, with at most one figure misread.                               *)
Misread == [what : {"amount", "balance"}, at : 1 .. 3, by : {-6, -4, -2, -1, 1, 2, 4, 6}]
                \cup {[what |-> "nothing", at |-> 1, by |-> 0]}
Moved(balances, i) == balances[i] - (IF i = 1 THEN 20 ELSE balances[i - 1])
Balances == {b \in UNION {[1 .. n -> 11 .. 29] : n \in 2 .. 3} :
                \A i \in DOMAIN b : Moved(b, i) \in (-3 .. 3) \ {0}}
Chains == [kind : {"chain"}, balances : Balances, signed : BOOLEAN, misread : Misread]

OffBy(c, what, i) == IF c.misread.what = what /\ c.misread.at = i THEN c.misread.by ELSE 0
RowsOf(c) ==
    [i \in DOMAIN c.balances |->
        [date |-> i, confidence |-> 100, notes |-> {},
         amount |-> (IF c.signed THEN Moved(c.balances, i) ELSE Magnitude(Moved(c.balances, i)))
                        + OffBy(c, "amount", i),
         balance |-> c.balances[i] + OffBy(c, "balance", i)]]

(* Documents of two pages.  A full line has a date, a description, an      *)
(* amount and a balance, a bare one no balance, a carried one no amount, a *)
(* summary an amount only.                                                 *)
LineOf(kind, i) ==
    {w \in {[shape |-> "date", at |-> 1, value |-> [day |-> i, year |-> None]],
            [shape |-> "text", at |-> 2, value |-> "words"],
            [shape |-> "money", at |-> 3, value |-> i],
            [shape |-> "money", at |-> 4, value |-> 100 + i]} :
        CASE w.at = 1 -> kind \in {"full", "bare", "carried"}
          [] w.at = 2 -> TRUE
          [] w.at = 3 -> kind \in {"full", "bare", "summary"}
          [] w.at = 4 -> kind \in {"full", "carried"}}
Pages == UNION {[1 .. n -> {"full", "bare", "carried", "summary", "text"}] : n \in 0 .. 3}
Documents == [kind : {"document"}, pages : [1 .. 2 -> Pages]]
LinesOf(page, from) == [i \in DOMAIN page |-> LineOf(page[i], from + i)]
PagesOf(c) == <<LinesOf(c.pages[1], 0), LinesOf(c.pages[2], 3)>>

Amounts == [kind : {"amount"}, printed : Printed({0, 500, 1200})]
Plain(cents) == [cents |-> cents, lead |-> "", paren |-> FALSE, trail |-> FALSE,
                 suffix |-> "", decimals |-> TRUE]
Exports == [kind : {"export"}, move : {-500, 500}, other : {None, Plain(0)}]

(* Rows of a statement of the months from .. to, numbered over the years.  *)
Months == [kind : {"months"}, from : 20 .. 28, to : 20 .. 28, row : 20 .. 28]

Tokens == {t \in Token : Plausible(t) /\ "digits" \notin {t.first, t.second, t.focused}}
Renderings == [kind : {"rendering"}, tokens : [1 .. 2 -> Tokens], again : BOOLEAN]

ReceiptLines == [label : Fields \cup {"none"}, cents : {10, 20, 30}, confidence : {70, 90}]
Slips == [kind : {"receipt"}, lines : UNION {[1 .. n -> ReceiptLines] : n \in 0 .. 3}]

-----------------------------------------------------------------------------
(* Charges, imported as two uploads, of one merchant.                      *)
Imports == [kind : {"imports"},
            book : [1 .. 3 -> [day : {1, 2, 6}, amount : {-8, -4}, merchant : {"m"},
                               category : {"food", "transfers"}, currency : {"USD"},
                               upload : {1, 2}]]]

(* One charge against a history of others like it, of the same merchant or *)
(* of another.                                                             *)
Judged == [kind : {"judged"}, history : UNION {[1 .. n -> {2, 4, 6, 20}] : n \in 0 .. 4},
           own : BOOLEAN, value : {4, 6, 8, 12, 20}, greater : {8, 12, 20, 40}]
BookOf(history, own, value) ==
    [i \in 1 .. Len(history) + 1 |->
        [day |-> i, amount |-> IF i > Len(history) THEN -value ELSE -history[i],
         merchant |-> IF own \/ i > Len(history) THEN "m" ELSE "n",
         category |-> "food", currency |-> "USD", upload |-> i]]

(* A receipt of 100 on day 10, and three transactions, of which one may    *)
(* have been rejected and each may be held by other receipts.              *)
Purchases ==
    [day : {4, 6, 9, 10}, amount : {-102, -100}, currency : {"USD"}, likeness : {0, 100}, holders : {0}]
    \cup [day : {9}, amount : {-103, -100, 100}, currency : {"USD"}, likeness : {50}, holders : 0 .. 2]
Matchings == [kind : {"matching"}, rejected : {{}, {1}}, book : [1 .. 3 -> Purchases]]
ReceiptOf(c) == [day |-> 10, total |-> 100, currency |-> "USD", rejected |-> c.rejected]

Candidates == [kind : {"candidate"}, learned : {"none", "dining"}, pattern : {"none", "transfers"},
               keyword : {"none", "fees"}, amount : {-1, 1}]

-----------------------------------------------------------------------------
(* Questions.                                                              *)
Phrase(kind, n, year) == [kind |-> kind, n |-> n, year |-> year]
Phrases ==
    {Phrase(k, 0, 0) : k \in {"this_month", "last_month", "this_year", "last_year", "this_week",
                              "last_week", "all", "unnamed"}}
    \cup {Phrase(k, n, 0) : k \in {"days", "weeks", "months", "years"}, n \in {0, 1, 3, 13}}
    \cup {Phrase("quarter", n, y) : n \in 1 .. 4, y \in {0, 2019}}
    \cup {Phrase("month", n, y) : n \in {1, 2, 12}, y \in {0, 2020}}
    \cup {Phrase("year", 0, 2021)}
FirstToday == FirstOf[12 * 15 + 6]
Todays == FirstToday .. FirstToday + 420
Spans == {c \in [kind : {"span"}, phrase : Phrases, today : Todays] :
            c.phrase.kind = "years" => c.phrase.n <= 3}

Questions == [kind : {"question"}, today : {FirstToday + 80, FirstToday + 180},
              q : [recurring : BOOLEAN, top : BOOLEAN, trend : BOOLEAN, breakdown : BOOLEAN,
                   search : BOOLEAN, compares : BOOLEAN, by : {"none", "week", "merchant"},
                   categories : {{}, {"food"}}, merchants : {{}, {"m"}}, residue : {TRUE},
                   transfers : {FALSE}, direction : {"spend", "net"}, number : {0},
                   averages : {FALSE}, counts : BOOLEAN,
                   phrase : {Phrase("unnamed", 0, 0), Phrase("last_month", 0, 0),
                             Phrase("this_year", 0, 0)}]]

Books == [kind : {"book"},
          book : [1 .. 2 -> [day : {FirstToday - 40, FirstToday + 5, FirstToday + 36},
                             amount : {-3, -2, 5}, category : {"none", "food", "transfers"},
                             merchant : {"m", "n"}, currency : {"USD", "EUR"}]]]

-----------------------------------------------------------------------------
(* What is told of an answer, in words of the template or of the model.    *)
Told == [kind : {"told"}, direction : {"spend", "net"}, metric : {"sum", "avg", "count", "max"},
         group : {"none", "month", "merchant"}, against : {"nothing", "month", "days"},
         about : {"all", "m", "n", "text"}, period : {{}, {4500}},
         wording : {{Unset}, {205}, {6600}},
         book : [1 .. 2 -> [day : {FirstToday - 10, FirstToday + 5},
                            amount : {-205, -4000, 300}, category : {"food"},
                            merchant : {"m", "n"}, currency : {"USD"}]]]
ToldPlan(c) ==
    [intent |-> "breakdown", group |-> c.group, direction |-> c.direction,
     period |-> MonthPeriod(MonthOf(FirstToday)),
     baseline |-> CASE c.against = "nothing" -> NoPeriod
                    [] c.against = "month" -> MonthPeriod(MonthOf(FirstToday) - 1)
                    [] c.against = "days" -> Period(FirstToday - 45, FirstToday - 1),
     categories |-> {}, merchants |-> {c.about} \cap {"m", "n"}, text |-> c.about = "text",
     transfers |-> TRUE, metric |-> c.metric, byTime |-> c.group = "month", limit |-> 25]

(* The merchant n has the number 66 in its name; the text, 54.             *)
PrintedOf(c) ==
    [period |-> c.period, query |-> {5400}, names |-> [m |-> {}, n |-> {6600}, food |-> {}]]

(* Questions that name merchants, in the order of the vocabulary, and      *)
(* categories.                                                             *)
Needles == [dining |-> {<<"coffee">>, <<"lunch">>}, housing |-> {<<"rent">>, <<"coffee", "rent">>}]
Letters == [bottle |-> 6, coffee |-> 6, lunch |-> 5, lunchbox |-> 8, rent |-> 4, co |-> 2]
Vocabulary == {<<"bottle", "coffee">>, <<"lunchbox">>, <<"rent", "co">>, <<"co">>}
Namings == [kind : {"naming"},
            question : UNION {[1 .. n -> {"bottle", "coffee", "lunch", "lunchbox", "rent", "co"}] :
                                n \in 0 .. 3},
            merchants : UNION {Injection(1 .. n, Vocabulary) : n \in 0 .. 3}]

(* A lunchbox has a lunch in it.                                           *)
Joined == {FlattenSeq(names) : names \in UNION {Injection(1 .. n, Vocabulary) : n \in 0 .. 2}}
Inside == [text \in Joined |->
             {phrase \in UNION Range(Needles) :
                 \/ Found(phrase, text)
                 \/ phrase = <<"lunch">> /\ Found(<<"lunchbox">>, text)}]
NamesOf(c) == NamedMerchants(c.question, c.merchants, Letters)

(* Calls of a model that answers nothing for a while.                      *)
Calls == [kind : {"calls"},
          calls : [1 .. 5 -> [gap : {0, 3, 6}, took : {1},
                              attempts : {<<"error", "answer">>, <<"error", "error">>,
                                          <<"limited", "answer">>}]]]

(* Charges of one merchant, of accounts with and without its category.     *)
Charges == [kind : {"charges"},
            charges : [1 .. 3 -> [merchant : {"m"}, known : {"none", "fees"},
                                  reply : {"pets", "nonsense", "nothing"}, forgets : BOOLEAN,
                                  own : {{"fees"}, {"fees", "pets"}}]]]

-----------------------------------------------------------------------------
(* What holds of a statement.                                              *)

(* Where every row has its balance and the chain holds, every amount is    *)
(* the difference of the balances around it, however it was printed.       *)
ChainReconciles(c) ==
    LET rows == RowsOf(c)
    IN ChainOk(rows) =>
        \A i \in 2 .. Len(rows) : AfterChain(rows)[i].amount = rows[i].balance - rows[i - 1].balance

(* Read without error, every amount has its true sign or a confidence that *)
(* asks for review; unless nothing but credits follows a first row that is *)
(* printed without its sign.                                               *)
SignsKnown(c) ==
    LET rows == AfterChain(RowsOf(c))
        onlyCredits == \A i \in 2 .. Len(c.balances) : Moved(c.balances, i) > 0
    IN c.misread.what = "nothing" =>
        \A i \in DOMAIN c.balances :
            \/ rows[i].amount = Moved(c.balances, i) \/ rows[i].confidence <= 50
            \/ i = 1 /\ ~c.signed /\ onlyCredits

(* One misread figure breaks the chain, if a balance stands before it, and *)
(* if it is not a balance off by twice an amount beside it, which flips a  *)
(* sign instead.                                                           *)
MisreadSeen(c) ==
    LET e == c.misread.by
        i == c.misread.at
        flips == c.misread.what = "balance"
                    /\ \/ i > 1 /\ e = -2 * Moved(c.balances, i)
                       \/ i < Len(c.balances) /\ e = 2 * Moved(c.balances, i + 1)
        unsigned == c.misread.what = "amount"
                        /\ Magnitude(RowsOf(c)[i].amount) = Magnitude(Moved(c.balances, i))
    IN c.misread.what # "nothing" /\ i \in DOMAIN c.balances /\ ~flips /\ ~unsigned =>
        \/ c.misread.what = "amount" /\ i = 1
        \/ \E r \in DOMAIN c.balances : Noted(AfterChain(RowsOf(c))[r], "balance_mismatch")

(* Every line with a date, a description and an amount becomes a row with  *)
(* that amount, on a short last page too, and no other line does; unless a *)
(* page has enough dated balances, and too few amounts, to take the        *)
(* balances for the amounts, a page has enough of both in lines that lack  *)
(* the other, which drops it, or the document has too few rows.            *)
NothingLost(pages, hint) ==
    LET lines == Paged(pages)
        At(place, line) == {w \in lines[line] : w.at = place}
        complete == {line \in DOMAIN lines : At(1, line) # {} /\ At(3, line) # {}}
        rows == DocumentRows(pages, hint)
        Confused(some) == 4 \in Populated(some, "money") /\ 3 \notin Populated(some, "money")
        Dropped(page) == LET own == InferColumns(page)
                         IN own # None /\ ~IsTable(page, own, MinTableRows)
    IN \/ Confused(lines)
       \/ \E p \in DOMAIN pages : Confused(pages[p]) \/ Dropped(pages[p])
       \/ Cardinality(complete) < MinTableRows
       \/ /\ DOMAIN rows = complete
          /\ \A line \in complete : {rows[line].amount} = {w.value : w \in At(3, line)}

(* What both parsers take for money is the same money to them, but for a   *)
(* trailing D, a debit in one and nothing in the other.                    *)
AmountsAgree(c) ==
    LET p == c.printed
    IN StatementAmount(p) # None /\ CsvAmount(p) # None /\ p.suffix # "D"
        => StatementAmount(p) = CsvAmount(p)

(* An export with a debit and a credit column gives what one with a signed *)
(* column gives, unless the debit of a credit is printed as zero.          *)
SplitAgrees(c) ==
    LET signed == [Plain(Magnitude(c.move)) EXCEPT !.lead = IF c.move < 0 THEN "-" ELSE ""]
        plain == Plain(Magnitude(c.move))
    IN \/ c.move > 0 /\ c.other # None
       \/ CsvRow(signed, None, None)
            = CsvRow(None, IF c.move < 0 THEN plain ELSE c.other,
                           IF c.move < 0 THEN c.other ELSE plain)

(* Dates printed without a year get their own, unless the period crosses   *)
(* New Year.                                                               *)
YearRight(c) ==
    c.from \div 12 = c.to \div 12 /\ c.from <= c.row /\ c.row <= c.to =>
        DateRead([month |-> c.row % 12, year |-> None], c.to \div 12).year = c.row \div 12

(* An accepted page draws something for every figure its text claims, and  *)
(* all but a few were read or hold what is claimed.                        *)
VerifiedMeansDrawn(c) ==
    PageAgrees(c.tokens, TRUE, c.again) =>
        /\ \A i \in DOMAIN c.tokens : c.tokens[i].drawn # "nothing"
        /\ Cardinality({i \in DOMAIN c.tokens : c.tokens[i].drawn = "other"}) <= Budget(c.tokens)

(* A total no line is labelled with is reviewed, even when the parts add   *)
(* up to it; a receipt that is not reviewed has a labelled total.          *)
GuessReviewed(c) ==
    (\E i \in DOMAIN c.lines : c.lines[i].label = "total")
        \/ ReceiptNeedsReview(c.lines, [found |-> TRUE, confidence |-> 100],
                                       [found |-> TRUE, confidence |-> 100])

(* Money read off a statement is right, or asks for review: rows reconcile *)
(* with the balances, no transaction is lost with a short page, the two    *)
(* importers agree, a verified page draws what it claims, and a guess at a *)
(* receipt's total is reviewed.                                            *)
ReadingHolds ==
    /\ case.kind = "chain" => ChainReconciles(case) /\ SignsKnown(case) /\ MisreadSeen(case)
    /\ case.kind = "document" => NothingLost(PagesOf(case), 2026)
    /\ case.kind = "amount" => AmountsAgree(case)
    /\ case.kind = "export" => SplitAgrees(case)
    /\ case.kind = "months" => YearRight(case)
    /\ case.kind = "rendering" => VerifiedMeansDrawn(case)
    /\ case.kind = "receipt" => GuessReviewed(case)

-----------------------------------------------------------------------------
(* What holds of alerts, matches and categories.                           *)

(* Whichever of two uploads is imported last, a charge both have is        *)
(* reported, and one that repeats another within the days is, if the later *)
(* of the two is not imported first; never both of one row.                *)
RepeatsFound(c) ==
    \A last \in {1, 2} : \A i, j \in DOMAIN c.book :
        LET said == {a.type : a \in {b \in DetectedIn(c.book, last) : b.row = j}}
        IN /\ i # j /\ c.book[j].upload = last /\ c.book[j].category # "transfers"
                /\ c.book[i].amount = c.book[j].amount =>
                /\ c.book[i].upload # last /\ c.book[i].day = c.book[j].day
                    => "duplicate" \in said
                /\ c.book[i].day < c.book[j].day /\ c.book[j].day <= c.book[i].day + NearDays
                    => said \cap {"duplicate", "near_duplicate"} # {}
           /\ ~({"duplicate", "near_duplicate"} \subseteq said)

SaidOf(c, value) ==
    Detected(BookOf(c.history, c.own, value), Len(c.history) + 1) \ {"duplicate", "near_duplicate"}

(* A larger charge raises every alert about its size that a smaller one    *)
(* does, and one that is large for its merchant is not normal there.       *)
GrowthKeepsAlerts(c) ==
    /\ c.greater >= c.value => SaidOf(c, c.value) \subseteq SaidOf(c, c.greater)
    /\ "large_for_merchant" \in SaidOf(c, c.value) =>
            ~NormalForMerchant(BookOf(c.history, c.own, c.value), Len(c.history) + 1)

(* The largest charge of a history cannot hide an outlier by being larger. *)
OutlierHidesNothing(c) ==
    \A k \in DOMAIN c.history :
        LET larger == [c.history EXCEPT ![k] = @ + 100]
            Deviation(i) == Magnitude(2 * c.history[i] - TwiceMedian(c.history))
        IN /\ Len(c.history) >= 3
           /\ \A i \in DOMAIN c.history \ {k} :
                    c.history[i] <= c.history[k] /\ Deviation(i) <= Deviation(k)
           => Outlying(c.value, c.history) = Outlying(c.value, larger)

(* A receipt is offered open outflows within the window and the tolerance  *)
(* only, as many as there are up to the limit; one that is left out is as  *)
(* near in days, in cents and in name as one offered only where the two    *)
(* score the same.  The search fails where two other receipts hold one of  *)
(* them (confirmations that overlapped), and nowhere else.                 *)
MatchesRanked(c) ==
    LET receipt == ReceiptOf(c)
        Gap(k) == Size(c.book[k].day - receipt.day)
        Off(k) == Size(Size(c.book[k].amount) - receipt.total)
        near == {k \in DOMAIN c.book \ c.rejected :
                    c.book[k].amount < 0 /\ Gap(k) <= MatchWindow /\ Off(k) <= MatchTolerance}
        open == {k \in near : c.book[k].holders = 0}
        offered == Matches(receipt, c.book)
        fails == \E k \in near : c.book[k].holders > 1
    IN /\ MatchFails(receipt, c.book) <=> fails
       /\ offered \subseteq open /\ Cardinality(offered) <= MaxCandidates
       /\ offered # open => fails \/ Cardinality(offered) = MaxCandidates
       /\ \A i \in offered, j \in open \ offered :
            /\ MatchScore(receipt, c.book[j]) <= MatchScore(receipt, c.book[i])
            /\ Gap(j) <= Gap(i) /\ Off(j) <= Off(i) /\ c.book[j].likeness >= c.book[i].likeness
                    => MatchScore(receipt, c.book[j]) = MatchScore(receipt, c.book[i])

(* Money in that matches anything is what it matches, never income by its  *)
(* sign; what only the sign tells, or nothing does, is reviewed.           *)
GuessesReviewed(c) ==
    LET known == {c.learned, c.pattern, c.keyword} \ {"none"}
    IN /\ NeedsReview(c) <=> known = {}
       /\ known # {} => Categorized(c).category \in known
       /\ c.learned # "none" => Categorized(c).category = c.learned

(* Repeated charges are reported in either order of the imports, larger    *)
(* charges are not said less of, one outlier does not hide the next, and a *)
(* receipt is offered the best of what may be it.                          *)
DetectingHolds ==
    /\ case.kind = "imports" => RepeatsFound(case)
    /\ case.kind = "judged" => GrowthKeepsAlerts(case) /\ OutlierHidesNothing(case)
    /\ case.kind = "matching" => MatchesRanked(case)
    /\ case.kind = "candidate" => GuessesReviewed(case)

-----------------------------------------------------------------------------
(* What holds of plans and figures.                                        *)

(* Every phrase is a period that begins by today, unless it asks for no    *)
(* days or months, for a date that its year does not have, or for a        *)
(* quarter to come; and the period before it ends the day before, and is a *)
(* whole month if it is one, and otherwise as long.                        *)
PeriodsSound(c) ==
    LET period == Resolved(c.phrase, c.today)
        before == PreviousPeriod(period)
        leap == DayOfMonth(c.today) = 29 /\ MonthOf(c.today) % 12 = 1
    IN IF period = NoPeriod
       THEN \/ c.phrase.kind \in {"days", "months"} /\ c.phrase.n = 0
            \/ c.phrase.kind = "years" /\ leap
       ELSE /\ period.start <= c.today \/ c.phrase.kind = "quarter"
            /\ before.end = period.start - 1
            /\ IF FullMonth(period) THEN FullMonth(before)
               ELSE before.end - before.start = period.end - period.start

Before(plan) == plan.baseline = NoPeriod \/ plan.baseline.end < plan.period.start

(* Every plan the rules make is coherent, and so is every plan two follow- *)
(* ups make of it, each of those offered changes it, and what a plan       *)
(* compares with lies before its period.  Unless an ungrouped comparison   *)
(* is widened, a year that is the year already is, or a question about     *)
(* repeating charges compares over a period nobody named.                  *)
PlansCoherent(c) ==
    LET first == Planned(c.q, c.today)
        Step(plan) == {Refined(plan, key) : key \in {k \in Offered(plan) : ~LosesBaseline(plan, k)}}
        plans == {first} \cup Step(first) \cup UNION {Step(plan) : plan \in Step(first)}
    IN \A plan \in plans :
        /\ Coherent(plan)
        /\ Before(plan) \/ (c.q.recurring /\ c.q.compares /\ c.q.phrase.kind = "unnamed")
        /\ \A key \in Offered(plan) :
                \/ Refined(plan, key) # plan
                \/ key = "widen_to_year" /\ plan.period = YearSoFar(plan)
                \/ key \in {"only_category", "only_merchant"}

AskedOf(month) ==
    [intent |-> "total", group |-> "none", direction |-> "spend", period |-> MonthPeriod(month),
     baseline |-> MonthPeriod(month - 1), categories |-> {}, merchants |-> {}, text |-> FALSE,
     transfers |-> FALSE, metric |-> "sum", byTime |-> FALSE, limit |-> 25]

(* The dashboard and an answer about the same month show the same figures, *)
(* in total, by category and by month; and the rows of sums and of counts  *)
(* add up to the whole however they are grouped, uncategorised ones        *)
(* included.                                                               *)
SurfacesAgree(c) ==
    LET shown == Dashboard(c.book, FirstToday)
        asked == AskedOf(shown.month)
        answer == Executed(c.book, asked)
        slices == Executed(c.book, Refined(asked, "group_by_category"))
        trend == Executed(c.book, Refined(asked, "monthly_trend"))
        year == [asked EXCEPT !.period = Period(FirstOf[shown.month - 11], LastOf(shown.month))]
        Sum(rows) == SumOf([i \in DOMAIN rows |-> rows[i].value], DOMAIN rows)
    IN /\ answer.total = shown.spend /\ answer.count = shown.count
       /\ answer.previous = shown.previous
       /\ {[label |-> r.label, value |-> r.value] : r \in Range(slices.rows)} = shown.slices
       /\ trend.rows # <<>> => Len(trend.rows) = 6
       /\ \A r \in Range(trend.rows) :
                r.value = IF r.label \in DOMAIN shown.trend THEN shown.trend[r.label] ELSE 0
       /\ SumOf(shown.trend, DOMAIN shown.trend)
            = Executed(c.book, year).total
       /\ \A group \in {"category", "merchant", "month", "week"}, metric \in {"sum", "count"} :
            Sum(Executed(c.book, [year EXCEPT !.group = group, !.metric = metric]).rows)
                = Executed(c.book, [year EXCEPT !.metric = metric]).total

-----------------------------------------------------------------------------
(* What holds of words.                                                    *)

(* No number is told that the answer does not have, whoever words it; the  *)
(* template passes its own check, unless it prints a negative figure that  *)
(* is not compared, or a number in the words around the figures (a name, a *)
(* text, the label of a period) is no small count and no year.             *)
NumbersAreComputed(c) ==
    LET plan == ToldPlan(c)
        printed == PrintedOf(c)
    IN \A answer \in {Executed(c.book, plan)} :
       \A shown \in {{c.book[i].amount : i \in Range(Supporting(c.book, plan))}} :
          LET template == Narrated(answer, plan, printed)
              said == NumbersTold(answer, shown, plan, printed, c.wording # {Unset}, c.wording)
              negative == answer.total < 0 \/ \E r \in Range(answer.rows) : r.value < 0
          IN /\ said = template \/ Verified(said, answer, shown)
             /\ \/ Verified(template, answer, shown)
                \/ negative \/ \E n \in Worded(answer, plan, printed) : ~Benign(n)

(* What a question filters by does not depend on which phrase of a         *)
(* category is tried first, unless it has one inside and one outside the   *)
(* names of the merchants it names; and one inside them, on its own, never *)
(* filters by a category.                                                  *)
NamesSettled(c) ==
    LET claimed == Inside[FlattenSeq(NamesOf(c))]
        Hits(category) == {phrase \in Needles[category] : Found(phrase, c.question)}
        outcomes == NamedCategories(c.question, NamesOf(c), Needles, Inside)
        Split(category) == Hits(category) \cap claimed # {} /\ Hits(category) \ claimed # {}
    IN /\ Cardinality(outcomes) = 1 \/ \E category \in DOMAIN Needles : Split(category)
       /\ \A outcome \in outcomes : \A category \in outcome : Hits(category) \ claimed # {}

(* A call is refused only shortly after another failed, and more failures  *)
(* in a row than open the breaker take at least a cooldown.                *)
BreakerSpares(c) ==
    LET log == Consulted(c.calls)
    IN \A j \in DOMAIN log :
        /\ log[j].outcome = "refused" =>
                \E i \in 1 .. j - 1 : log[i].outcome = "failed" /\ log[j].start - log[i].end < Cooldown
        /\ \A i \in 1 .. j - 1 :
                /\ log[i].outcome = "failed" /\ log[j].outcome = "failed"
                /\ \A k \in i .. j : log[k].outcome # "answered"
                /\ Cardinality({k \in i .. j : log[k].outcome = "failed"}) > Threshold
                => log[j].start - log[i].end >= Cooldown

(* What the rules say stands; a model's category is one the account has,   *)
(* and a merchant is sent again if, and only if, the reply before was no   *)
(* use or everything was forgotten.                                        *)
ModelIsLastResort(c) ==
    LET log == PlacedAll(c.charges)
    IN \A j \in DOMAIN log :
        LET charge == c.charges[j]
        IN /\ charge.known # "none" => log[j].category = charge.known /\ ~log[j].asked
           /\ log[j].category \in charge.own \cup {"none"}
           /\ log[j].asked =>
                \A i \in 1 .. j - 1 : log[i].asked =>
                    \/ c.charges[i].reply \notin c.charges[i].own
                    \/ \E k \in i + 1 .. j : c.charges[k].forgets
           /\ charge.known = "none" /\ ~log[j].asked =>
                \E i \in 1 .. j - 1 : log[i].asked /\ c.charges[i].reply \in c.charges[i].own

(* What is asked is what is answered: phrases resolve to the periods they  *)
(* name and comparisons to those before, follow-ups make plans that can be *)
(* read again, the surfaces agree on the figures, and no words around them *)
(* have figures of their own.                                              *)
AnsweringHolds ==
    /\ case.kind = "span" => PeriodsSound(case)
    /\ case.kind = "question" => PlansCoherent(case)
    /\ case.kind = "book" => SurfacesAgree(case)
    /\ case.kind = "told" => NumbersAreComputed(case)
    /\ case.kind = "naming" => NamesSettled(case)
    /\ case.kind = "calls" => BreakerSpares(case)
    /\ case.kind = "charges" => ModelIsLastResort(case)

-----------------------------------------------------------------------------
Init ==
    \/ case \in Chains \/ case \in Documents \/ case \in Amounts \/ case \in Exports
    \/ case \in Months \/ case \in Renderings \/ case \in Slips
    \/ case \in Imports \/ case \in Judged \/ case \in Matchings \/ case \in Candidates
    \/ case \in Spans \/ case \in Questions \/ case \in Books
    \/ case \in Told \/ case \in Namings \/ case \in Calls \/ case \in Charges

Next == UNCHANGED case

Spec == Init /\ [][Next]_case
=============================================================================
