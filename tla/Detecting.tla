----------------------------- MODULE Detecting ------------------------------
(***************************************************************************)
(* What is said about a transaction: its alerts (services/alerts), its     *)
(* category (services/categorize) and how well it matches a receipt        *)
(* (services/receipts.py).  Every operator is a function of its arguments. *)
(*                                                                         *)
(* A book is a sequence of charges [day, amount, merchant, category,       *)
(* currency, upload]; the index is the id.  Medians are kept doubled, so   *)
(* that half cents stay integers, and scores in thousandths.               *)
(***************************************************************************)
EXTENDS Integers, Sequences, FiniteSets, FiniteSetsExt

CONSTANTS
    NearDays,            \* NEAR_DUPLICATE_WINDOW_DAYS
    CategoryDays,        \* CATEGORY_WINDOW_DAYS
    UnusualSamples, FamiliarSamples, LargeSamples,     \* the MIN_SAMPLES
    UnusualFloor, NewFloor, LargeFloor,                \* the FLOOR_CENTS
    MaxCandidates        \* how many matches a receipt is offered

ASSUME DetectingAssumption ==
    /\ {NearDays, CategoryDays, UnusualFloor, NewFloor, LargeFloor} \subseteq Nat
    /\ {UnusualSamples, FamiliarSamples, LargeSamples, MaxCandidates} \subseteq Nat \ {0}

Size(n) == IF n < 0 THEN -n ELSE n

-----------------------------------------------------------------------------
(* Order statistics of a non-empty family of integers.                     *)
Kth(values, k) ==
    CHOOSE x \in {values[i] : i \in DOMAIN values} :
        /\ Cardinality({i \in DOMAIN values : values[i] < x}) < k
        /\ k <= Cardinality({i \in DOMAIN values : values[i] <= x})

TwiceMedian(values) ==
    LET n == Cardinality(DOMAIN values)
    IN Kth(values, (n + 1) \div 2) + Kth(values, (n + 2) \div 2)

(* robust_z_score against its threshold of 3.5; where all samples are the  *)
(* same, three times the median stands in.                                 *)
Outlying(value, samples) ==
    /\ Cardinality(DOMAIN samples) >= UnusualSamples
    /\ LET median == TwiceMedian(samples)
           mad == TwiceMedian([i \in DOMAIN samples |-> Size(2 * samples[i] - median)])
       IN IF mad = 0 THEN median > 0 /\ 2 * value >= 3 * median
          ELSE 6745 * 2 * (2 * value - median) >= 35000 * mad

-----------------------------------------------------------------------------
(* Mutant of MerchantHistory: the days before only.                        *)
MerchantHistoryBefore(book, i) ==
    {j \in DOMAIN book \ {i} :
        /\ book[j].amount < 0 /\ book[j].merchant = book[i].merchant
        /\ book[j].currency = book[i].currency /\ book[j].day < book[i].day}

(* What _load_history finds: outflows up to the day, other rows of the     *)
(* same upload included.                                                   *)
MerchantHistory(book, i) ==
    {j \in DOMAIN book \ {i} :
        /\ book[j].amount < 0 /\ book[j].merchant = book[i].merchant
        /\ book[j].currency = book[i].currency /\ book[j].day <= book[i].day}

CategoryHistory(book, i) ==
    {j \in DOMAIN book \ {i} :
        /\ book[i].category # "none" /\ book[j].category = book[i].category
        /\ book[j].amount < 0 /\ book[j].currency = book[i].currency
        /\ book[i].day - CategoryDays <= book[j].day /\ book[j].day <= book[i].day}

Sizes(book, rows) == [j \in rows |-> Size(book[j].amount)]

ExactDuplicate(book, i) ==
    \E j \in MerchantHistory(book, i) :
        /\ book[j].day = book[i].day /\ book[j].amount = book[i].amount
        /\ book[j].upload # book[i].upload

NearDuplicate(book, i) ==
    \E j \in MerchantHistory(book, i) :
        /\ book[j].amount = book[i].amount /\ book[j].day # book[i].day
        /\ Size(book[j].day - book[i].day) <= NearDays

NormalForMerchant(book, i) ==
    LET known == Sizes(book, MerchantHistory(book, i))
    IN /\ Cardinality(DOMAIN known) >= FamiliarSamples
       /\ TwiceMedian(known) > 0
       /\ 4 * Size(book[i].amount) <= 3 * TwiceMedian(known)

UnusualAmount(book, i) ==
    /\ Size(book[i].amount) >= UnusualFloor
    /\ book[i].category # "none"
    /\ ~NormalForMerchant(book, i)
    /\ Outlying(Size(book[i].amount), Sizes(book, CategoryHistory(book, i)))

NewMerchant(book, i) ==
    MerchantHistory(book, i) = {} /\ Size(book[i].amount) >= NewFloor

LargeForMerchant(book, i) ==
    LET known == {Size(book[j].amount) : j \in MerchantHistory(book, i)}
    IN /\ Size(book[i].amount) >= LargeFloor
       /\ Cardinality(MerchantHistory(book, i)) >= LargeSamples
       /\ Max(known) > 0 /\ Size(book[i].amount) >= 2 * Max(known)

(* analyze_transaction over detect_all: income and transfers raise none,   *)
(* and an exact duplicate is not also a near one.                          *)
Detected(book, i) ==
    IF book[i].amount >= 0 \/ book[i].category = "transfers" THEN {}
    ELSE {a \in {"duplicate", "near_duplicate", "unusual_amount", "new_merchant",
                 "large_for_merchant"} :
            \/ a = "duplicate" /\ ExactDuplicate(book, i)
            \/ a = "near_duplicate" /\ NearDuplicate(book, i) /\ ~ExactDuplicate(book, i)
            \/ a = "unusual_amount" /\ UnusualAmount(book, i)
            \/ a = "new_merchant" /\ NewMerchant(book, i)
            \/ a = "large_for_merchant" /\ LargeForMerchant(book, i)}

(* analyze_upload: the rows of one upload, against the book as it is then. *)
DetectedIn(book, upload) ==
    UNION {{[row |-> i, type |-> a] : a \in Detected(book, i)} :
            i \in {j \in DOMAIN book : book[j].upload = upload}}

-----------------------------------------------------------------------------
(* RuleCategorizer: a candidate has what the merchant's corrections teach, *)
(* the category of the longest pattern that matches, that of the first     *)
(* keyword, each "none" if there is none, and its amount.                  *)
Categorized(c) ==
    CASE c.learned # "none" -> [category |-> c.learned, confidence |-> 100]
      [] c.learned = "none" /\ c.pattern # "none" -> [category |-> c.pattern, confidence |-> 90]
      [] c.learned = "none" /\ c.pattern = "none" /\ c.keyword # "none" ->
            [category |-> c.keyword, confidence |-> 65]
      [] c.learned = "none" /\ c.pattern = "none" /\ c.keyword = "none" ->
            IF c.amount > 0 THEN [category |-> "income", confidence |-> 50]
            ELSE [category |-> "uncategorized", confidence |-> 0]

NeedsReview(c) == Categorized(c).confidence < 60

-----------------------------------------------------------------------------
(* find_match_candidates, of a receipt that has its total and its day:     *)
(* [day, total, currency, rejected].  likeness is the similarity of the    *)
(* names, in percent, and holders the number of other receipts that hold   *)
(* the transaction.  The book is in the order the query returned it, which *)
(* may be any.                                                             *)
MatchWindow == 4
MatchTolerance == 2

DateScore(gap) ==
    CASE gap = 0 -> 300 [] gap = 1 -> 220 [] OTHER -> Max({0, 180 - 30 * gap})

MatchScore(receipt, charge) ==
    (IF Size(charge.amount) = receipt.total THEN 500 ELSE 350)
        + DateScore(Size(charge.day - receipt.day)) + 2 * charge.likeness

(* The rows of the query, but for the rejected ones.                       *)
Considered(receipt, book) ==
    {i \in DOMAIN book :
        /\ Size(book[i].day - receipt.day) <= MatchWindow
        /\ book[i].amount < 0 /\ book[i].currency = receipt.currency
        /\ Size(Size(book[i].amount) - receipt.total) <= MatchTolerance
        /\ i \notin receipt.rejected}

(* scalar_one_or_none raises where it finds a second receipt.              *)
MatchFails(receipt, book) == \E i \in Considered(receipt, book) : book[i].holders > 1

Eligible(receipt, book) ==
    {i \in Considered(receipt, book) : book[i].holders = 0 /\ MatchScore(receipt, book[i]) >= 350}

(* What the sort, which is stable, puts before i.                          *)
Ahead(receipt, book, i) ==
    {j \in Eligible(receipt, book) :
        \/ MatchScore(receipt, book[j]) > MatchScore(receipt, book[i])
        \/ /\ MatchScore(receipt, book[j]) = MatchScore(receipt, book[i])
           /\ j < i}

(* The best candidates are offered; an error offers none.                  *)
Matches(receipt, book) ==
    {i \in Eligible(receipt, book) :
        ~MatchFails(receipt, book) /\ Cardinality(Ahead(receipt, book, i)) < MaxCandidates}
=============================================================================
