------------------------------ MODULE Planning ------------------------------
(***************************************************************************)
(* How a question becomes figures: phrases to periods                      *)
(* (services/analysis/dates.py), words to a plan (planner_rules.py,        *)
(* plan.py), follow-ups (refine.py), the figures (executor.py), and those  *)
(* of the dashboard (routers/dashboard.py).  Every operator is a function  *)
(* of its arguments.                                                       *)
(*                                                                         *)
(* Days are numbered from 1 January of FirstYear, months from 0.  What a   *)
(* question's words match is a record of the patterns that hit.            *)
(***************************************************************************)
EXTENDS Integers, Sequences, FiniteSets, FiniteSetsExt, SequencesExt

CONSTANTS
    FirstYear, Years,    \* the calendar
    FirstWeekday,        \* of its first day, Monday being 0
    NoPeriod,            \* no period, or one the code refuses
    BaseCurrency

ASSUME PlanningAssumption ==
    /\ FirstYear \in Nat /\ Years \in Nat \ {0} /\ FirstWeekday \in 0 .. 6
    /\ NoPeriod \notin Int \cup [start : Int, end : Int]

-----------------------------------------------------------------------------
(* The calendar.                                                           *)
AllMonths == 0 .. 12 * Years - 1
LeapYear(year) == year % 4 = 0 /\ (year % 100 # 0 \/ year % 400 = 0)
DaysIn(month) ==
    CASE month % 12 = 1 -> IF LeapYear(FirstYear + month \div 12) THEN 29 ELSE 28
      [] month % 12 \in {3, 5, 8, 10} -> 30
      [] OTHER -> 31

LeapsBefore(year) == (year - 1) \div 4 - (year - 1) \div 100 + (year - 1) \div 400
DaysBefore == <<0, 31, 59, 90, 120, 151, 181, 212, 243, 273, 304, 334>>
FirstOf == [month \in AllMonths |->
    LET year == FirstYear + month \div 12
    IN 1 + 365 * (month \div 12) + LeapsBefore(year) - LeapsBefore(FirstYear)
         + DaysBefore[(month % 12) + 1] + IF month % 12 > 1 /\ LeapYear(year) THEN 1 ELSE 0]
LastOf(month) == FirstOf[month] + DaysIn(month) - 1
MonthTable == [day \in 1 .. LastOf(12 * Years - 1) |->
                 CHOOSE month \in AllMonths : FirstOf[month] <= day /\ day <= LastOf(month)]
MonthOf(day) == MonthTable[day]
DayOfMonth(day) == day - FirstOf[MonthOf(day)] + 1
JanuaryOf(day) == 12 * (MonthOf(day) \div 12)
Weekday(day) == (day - 1 + FirstWeekday) % 7

(* shift_month: whole months, clamped to the last valid day.               *)
ShiftMonth(day, months) ==
    LET month == MonthOf(day) + months
    IN FirstOf[month] + Min({DayOfMonth(day), DaysIn(month)}) - 1

(* DateRange, which refuses an end before its start.                       *)
Period(start, end) == IF end < start THEN NoPeriod ELSE [start |-> start, end |-> end]
MonthPeriod(month) == Period(FirstOf[month], LastOf(month))
FullMonth(period) ==
    period.start = FirstOf[MonthOf(period.start)] /\ period.end = LastOf(MonthOf(period.start))

(* previous_period: a whole month goes with the whole month before it, any *)
(* other window with one of its length.                                    *)
PreviousPeriod(period) ==
    IF FullMonth(period) THEN MonthPeriod(MonthOf(period.start) - 1)
    ELSE Period(period.start - (period.end - period.start + 1), period.start - 1)

(* resolve_date_phrase: a phrase is [kind, n, year]; n counts or names,    *)
(* year is the year it gives, or 0.                                        *)
Resolved(phrase, today) ==
    LET month == MonthOf(today)
        year == IF phrase.year = 0 THEN JanuaryOf(today) ELSE 12 * (phrase.year - FirstYear)
        monday == today - Weekday(today)
    IN CASE phrase.kind = "this_month" -> Period(FirstOf[month], Min({LastOf(month), today}))
         [] phrase.kind = "last_month" -> MonthPeriod(month - 1)
         [] phrase.kind = "this_year" -> Period(FirstOf[JanuaryOf(today)], today)
         [] phrase.kind = "last_year" -> Period(FirstOf[year - 12], LastOf(year - 1))
         [] phrase.kind = "this_week" -> Period(monday, today)
         [] phrase.kind = "last_week" -> Period(monday - 7, monday - 1)
         [] phrase.kind = "days" -> Period(today - (phrase.n - 1), today)
         [] phrase.kind = "weeks" -> Period(today - 7 * phrase.n, today)
         [] phrase.kind = "months" ->
                Period(ShiftMonth(FirstOf[month], -(phrase.n - 1)), today)
         [] phrase.kind = "years" ->
                IF DayOfMonth(today) > DaysIn(month - 12 * phrase.n) THEN NoPeriod
                ELSE Period(ShiftMonth(today, -12 * phrase.n), today)
         [] phrase.kind = "quarter" ->
                Period(FirstOf[year + 3 * (phrase.n - 1)], LastOf(year + 3 * (phrase.n - 1) + 2))
         [] phrase.kind = "month" ->
                MonthPeriod(IF phrase.year = 0 /\ phrase.n > (month % 12) + 1
                            THEN year - 12 + phrase.n - 1 ELSE year + phrase.n - 1)
         [] phrase.kind = "year" -> Period(FirstOf[year], LastOf(year + 11))
         [] phrase.kind = "all" -> Period(FirstOf[year - 60], today)
         [] phrase.kind = "unnamed" -> Period(today - 29, today)

-----------------------------------------------------------------------------
(* Plans.                                                                  *)

(* The first pattern that matches decides; later adjustments of the code   *)
(* cannot apply, for a question that compares is never a plain total.      *)
Shape(q) ==
    CASE q.recurring -> [intent |-> "recurring", group |-> "merchant"]
      [] ~q.recurring /\ q.top -> [intent |-> "top_n",
            group |-> IF q.categories # {} \/ q.by = "category" THEN "category" ELSE "merchant"]
      [] ~q.recurring /\ ~q.top /\ q.trend -> [intent |-> "trend",
            group |-> IF q.by = "week" THEN "week" ELSE "month"]
      [] ~q.recurring /\ ~q.top /\ ~q.trend /\ q.breakdown -> [intent |-> "breakdown",
            group |-> IF q.by = "merchant" THEN "merchant" ELSE "category"]
      [] ~q.recurring /\ ~q.top /\ ~q.trend /\ ~q.breakdown ->
            IF q.search THEN [intent |-> "search", group |-> "none"]
            ELSE IF q.compares THEN [intent |-> "comparison",
                group |-> IF q.categories = {} /\ q.merchants = {} THEN "category" ELSE "none"]
            ELSE [intent |-> "total", group |-> "none"]

(* RulePlanner.plan; an average is looked for before a count.              *)
Planned(q, today) ==
    LET named == Resolved(q.phrase, today)
        shape == Shape(q)
        widened == Period(FirstOf[MonthOf(named.end) - 6], named.end)
    IN IF named = NoPeriod THEN NoPeriod
       ELSE [intent |-> shape.intent, group |-> shape.group, direction |-> q.direction,
             period |-> IF shape.intent = "recurring" /\ q.phrase.kind = "unnamed"
                        THEN widened ELSE named,
             baseline |-> IF q.compares THEN PreviousPeriod(named) ELSE NoPeriod,
             categories |-> q.categories, merchants |-> q.merchants,
             text |-> shape.intent = "search" /\ q.categories = {} /\ q.merchants = {} /\ q.residue,
             transfers |-> q.transfers \/ q.direction = "net",
             metric |-> IF q.averages THEN "avg" ELSE IF q.counts THEN "count" ELSE "sum",
             byTime |-> shape.intent = "trend",
             limit |-> IF q.number # 0 THEN q.number
                       ELSE CASE shape.intent = "top_n" -> 10
                              [] shape.intent = "search" -> 50
                              [] OTHER -> 25]

(* The validator of AnalysisPlan, which a stored plan passes when it is    *)
(* read again (runner.py, _refine and _replay).                            *)
Coherent(plan) ==
    /\ plan.intent = "comparison" => plan.baseline # NoPeriod
    /\ plan.intent \in {"breakdown", "top_n"} => plan.group # "none"
    /\ plan.intent = "trend" => plan.group \in {"month", "week"}

-----------------------------------------------------------------------------
(* Follow-ups: named transforms of a plan.                                 *)
GroupedBy(plan, group) ==
    [plan EXCEPT !.intent = "breakdown", !.group = group, !.byTime = FALSE]

Narrowed(plan, category, merchant) ==
    [plan EXCEPT !.intent = IF plan.intent = "trend" THEN "trend" ELSE "total",
                 !.group = IF plan.intent = "trend" THEN "month" ELSE "none",
                 !.categories = IF category = {} THEN @ ELSE category,
                 !.merchants = IF merchant = {} THEN @ ELSE merchant]

YearSoFar(plan) == Period(FirstOf[JanuaryOf(plan.period.end)], plan.period.end)

Refined(plan, key) ==
    CASE key = "group_by_merchant" -> GroupedBy(plan, "merchant")
      [] key = "group_by_category" -> GroupedBy(plan, "category")
      [] key = "compare_previous_period" ->
            [plan EXCEPT !.intent = "comparison", !.group = "none",
                         !.baseline = PreviousPeriod(plan.period)]
      [] key = "monthly_trend" ->
            [plan EXCEPT !.intent = "trend", !.group = "month", !.byTime = TRUE,
                         !.baseline = NoPeriod,
                         !.period = Period(FirstOf[MonthOf(plan.period.end) - 5],
                                           plan.period.end)]
      [] key = "widen_to_year" ->
            [plan EXCEPT !.period = YearSoFar(plan), !.baseline = NoPeriod,
                         !.intent = IF plan.group # "none" THEN "breakdown" ELSE @]
      [] key = "show_transactions" ->
            [plan EXCEPT !.intent = "search", !.group = "none", !.baseline = NoPeriod,
                         !.limit = 50]
      [] key = "only_category" -> Narrowed(plan, {"top"}, {})
      [] key = "only_merchant" -> Narrowed(plan, {}, {"top"})

(* available_refinements, of which the first six are offered.  The chip of *)
(* the top row works where the row is a category or a merchant; that of a  *)
(* month or a week is refused when it is applied.                          *)
Offered(plan) ==
    LET Makes(key) ==
            CASE key = "group_by_merchant" -> plan.group # "merchant" /\ plan.intent # "search"
              [] key = "group_by_category" -> plan.group # "category" /\ plan.categories = {}
              [] key = "compare_previous_period" ->
                    plan.baseline = NoPeriod /\ plan.intent # "trend"
              [] key = "monthly_trend" -> plan.intent # "trend"
              [] key = "show_transactions" -> plan.intent # "search"
              [] key = "widen_to_year" ->
                    /\ JanuaryOf(plan.period.start) = JanuaryOf(plan.period.end)
                    /\ plan.period.end - plan.period.start < 200
              [] key = "only_category" -> plan.group = "category"
              [] key = "only_merchant" -> plan.group = "merchant"
        keys == <<"group_by_merchant", "group_by_category", "compare_previous_period",
                  "monthly_trend", "show_transactions", "widen_to_year",
                  "only_category", "only_merchant">>
        made == {i \in 1 .. 8 : Makes(keys[i])}
    IN {keys[i] : i \in {i \in made : Cardinality(made \cap 1 .. i) <= 6}}

(* Widening an ungrouped comparison drops what it compares with.           *)
LosesBaseline(plan, key) ==
    key = "widen_to_year" /\ plan.intent = "comparison" /\ plan.group = "none"

-----------------------------------------------------------------------------
(* Figures.  A book is a sequence of transactions [day, amount, category,  *)
(* merchant, currency], category "none" where it has none.                 *)
AmountSize(n) == IF n < 0 THEN -n ELSE n
SumOf(f, S) == MapThenSumSet(LAMBDA x : f[x], S)
SizesOf(book, rows) == SumOf([i \in DOMAIN book |-> AmountSize(book[i].amount)], rows)

(* Mutant of Selected: an inner join, which loses rows without category.   *)
SelectedCategorised(book, plan, period) ==
    {i \in DOMAIN book :
        /\ book[i].currency = BaseCurrency
        /\ period.start <= book[i].day /\ book[i].day <= period.end
        /\ plan.direction = "spend" => book[i].amount < 0
        /\ plan.direction = "income" => book[i].amount > 0
        /\ plan.categories # {} => book[i].category \in plan.categories
        /\ plan.merchants # {} => book[i].merchant \in plan.merchants
        /\ book[i].category # "none"
        /\ ~plan.transfers => book[i].category # "transfers"}

(* _base_conditions; a filter on categories loses rows without one.        *)
Selected(book, plan, period) ==
    {i \in DOMAIN book :
        /\ book[i].currency = BaseCurrency
        /\ period.start <= book[i].day /\ book[i].day <= period.end
        /\ plan.direction = "spend" => book[i].amount < 0
        /\ plan.direction = "income" => book[i].amount > 0
        /\ plan.categories # {} => book[i].category \in plan.categories
        /\ plan.merchants # {} => book[i].merchant \in plan.merchants
        /\ ~plan.transfers => book[i].category # "transfers"}

(* A quotient of n by d > 0 as a numeric of no decimals is rounded, halves *)
(* away from zero.                                                         *)
Rounded(n, d) ==
    LET half == (2 * AmountSize(n) + d) \div (2 * d)
    IN IF n < 0 THEN -half ELSE half

(* _metric_expr over rows: none of them total, average or extreme zero.  A *)
(* count is a sum of ones.                                                 *)
Total(book, plan, rows) ==
    LET each == [i \in DOMAIN book |->
                    IF plan.metric = "count" THEN 1
                    ELSE IF plan.direction = "net" THEN book[i].amount
                    ELSE AmountSize(book[i].amount)]
    IN CASE plan.metric \in {"sum", "count"} \/ rows = {} -> SumOf(each, rows)
         [] plan.metric = "avg" /\ rows # {} -> Rounded(SumOf(each, rows), Cardinality(rows))
         [] plan.metric = "max" /\ rows # {} -> Max({each[i] : i \in rows})
         [] OTHER -> Min({each[i] : i \in rows})

(* Group labels: weeks by their Monday, months by their number.            *)
Bucket(transaction, group) ==
    CASE group = "category" -> transaction.category
      [] group = "merchant" -> transaction.merchant
      [] group = "month" -> MonthOf(transaction.day)
      [] group = "week" -> transaction.day - Weekday(transaction.day)

(* ORDER BY: a sequence of all of S by its key.  Ties are the database's.  *)
InOrder(S, key) ==
    CHOOSE s \in Injection(1 .. Cardinality(S), S) :
        \A i, j \in DOMAIN s : i < j => key[s[i]] <= key[s[j]]

(* _grouped: the buckets in order, as far as the limit; a recurring one    *)
(* needs three months.                                                     *)
Members(book, plan, bucket) ==
    {i \in Selected(book, plan, plan.period) : Bucket(book[i], plan.group) = bucket}
Groups(book, plan) ==
    LET Group(bucket) == [label |-> bucket,
                          value |-> Total(book, plan, Members(book, plan, bucket)),
                          count |-> Cardinality(Members(book, plan, bucket))]
        Repeats(bucket) ==
            Cardinality({MonthOf(book[i].day) : i \in Members(book, plan, bucket)}) >= 3
    IN {Group(bucket) : bucket \in
            {b \in {Bucket(book[i], plan.group) : i \in Selected(book, plan, plan.period)} :
                plan.intent = "recurring" => Repeats(b)}}
Grouped(book, plan) ==
    LET groups == Groups(book, plan)
        ordered == InOrder(groups, [g \in groups |-> IF plan.byTime THEN g.label ELSE -g.value])
    IN SubSeq(ordered, 1, Min({plan.limit, Len(ordered)}))

(* _fill_time_gaps: an empty month between is a zero.                      *)
Filled(rows, plan) ==
    IF plan.group # "month" \/ rows = <<>> THEN rows
    ELSE LET first == MonthOf(plan.period.start)
             Known(month) == {i \in DOMAIN rows : rows[i].label = month}
         IN [k \in 1 .. MonthOf(plan.period.end) - first + 1 |->
                IF Known(first + k - 1) = {}
                THEN [label |-> first + k - 1, value |-> 0, count |-> 0]
                ELSE rows[CHOOSE i \in Known(first + k - 1) : TRUE]]

(* execute_plan; previous is NoPeriod where nothing is compared.           *)
Executed(book, plan) ==
    LET rows == Selected(book, plan, plan.period)
    IN [total |-> Total(book, plan, rows), count |-> Cardinality(rows),
        rows |-> IF plan.group = "none" THEN <<>> ELSE Filled(Grouped(book, plan), plan),
        previous |-> IF plan.baseline = NoPeriod THEN NoPeriod
                     ELSE Total(book, plan, Selected(book, plan, plan.baseline))]

-----------------------------------------------------------------------------
(* The dashboard.                                                          *)
TrendMonths == 12

SpentIn(book, period) ==
    {i \in DOMAIN book :
        /\ book[i].currency = BaseCurrency /\ book[i].amount < 0
        /\ period.start <= book[i].day /\ book[i].day <= period.end
        /\ book[i].category # "transfers"}

(* The latest month that has data in the base currency.                    *)
Anchor(book, today) ==
    LET days == {book[i].day : i \in {j \in DOMAIN book : book[j].currency = BaseCurrency}}
    IN MonthOf(IF days = {} THEN today ELSE Max(days))

MonthSpend(book, month) == SizesOf(book, SpentIn(book, MonthPeriod(month)))

(* The months shown: leading ones without spending are dropped, gaps stay. *)
TrendShown(book, anchor) ==
    LET active == {m \in anchor - (TrendMonths - 1) .. anchor : MonthSpend(book, m) # 0}
    IN [m \in (IF active = {} THEN anchor ELSE Min(active)) .. anchor |-> MonthSpend(book, m)]

NotConverted(book) == Cardinality({i \in DOMAIN book : book[i].currency # BaseCurrency})

Dashboard(book, today) ==
    LET anchor == Anchor(book, today)
        current == SpentIn(book, MonthPeriod(anchor))
        income == {i \in DOMAIN book :
                    /\ book[i].currency = BaseCurrency /\ book[i].amount > 0
                    /\ MonthOf(book[i].day) = anchor}
    IN [month |-> anchor, spend |-> MonthSpend(book, anchor),
        previous |-> MonthSpend(book, anchor - 1),
        count |-> Cardinality(current), income |-> SizesOf(book, income),
        net |-> SizesOf(book, income) - MonthSpend(book, anchor),
        slices |-> {[label |-> c, value |-> SizesOf(book, {i \in current : book[i].category = c})] :
                        c \in {book[i].category : i \in current}},
        trend |-> TrendShown(book, anchor), elsewhere |-> NotConverted(book)]
=============================================================================
