------------------------------- MODULE Telling ------------------------------
(***************************************************************************)
(* The words around the figures: what a question names                     *)
(* (services/analysis/planner_rules.py), what an answer says and the check *)
(* of its numbers (narrate.py), and the language model that may stand in   *)
(* for the planner, the narrator and the last stage of the categoriser     *)
(* (services/ai), behind its circuit breaker.  Every operator is a         *)
(* function of its arguments; what the model replies is one of them.       *)
(*                                                                         *)
(* Numbers are kept in hundredths: a dollar is 100, and so is a percent.   *)
(***************************************************************************)
EXTENDS Planning

CONSTANTS
    Unset,               \* no number, or no time
    Threshold,           \* BREAKER_THRESHOLD
    Cooldown,            \* BREAKER_COOLDOWN_SECONDS
    MaxAttempts,         \* MAX_ATTEMPTS of one call
    MaxNamed,            \* how many merchants a question may name
    MaxSupporting        \* how many transactions an answer shows

ASSUME TellingAssumption ==
    /\ {Threshold, Cooldown, MaxAttempts, MaxNamed, MaxSupporting} \subseteq Nat \ {0}
    /\ Unset \notin Int

-----------------------------------------------------------------------------
(* What a question, a sequence of words, names.  Names of merchants and    *)
(* what categories are called are phrases, sequences of words too; letters *)
(* is how many a word has.                                                 *)
Found(phrase, text) ==
    \E i \in 1 .. Len(text) - Len(phrase) + 1 : SubSeq(text, i, i + Len(phrase) - 1) = phrase

Length(phrase, letters) ==
    Len(phrase) - 1 + MapThenSumSet(LAMBDA i : letters[phrase[i]], DOMAIN phrase)

(* A merchant is found by its whole name or by its first word, if long     *)
(* enough; the first ones of the vocabulary, which is a sequence, count.   *)
NamedMerchants(question, merchants, letters) ==
    LET Named(m) == \/ Length(m, letters) >= 4 /\ Found(m, question)
                    \/ letters[Head(m)] >= 5 /\ Found(<<Head(m)>>, question)
        named == SelectSeq(merchants, Named)
    IN SubSeq(named, 1, Min({MaxNamed, Len(named)}))

(* One phrase of a category that the question has, whichever a set yields  *)
(* first, decides; it does not count where the joined names of the         *)
(* merchants have it, as whole words or not.  inside gives what the words  *)
(* of those names have in them.                                            *)
NamedCategories(question, named, categories, inside) ==
    LET Hits(c) == {phrase \in categories[c] : Found(phrase, question)}
        hit == {c \in DOMAIN categories : Hits(c) # {}}
    IN {{c \in hit : chosen[c] \notin inside[FlattenSeq(named)]} :
            chosen \in {f \in [hit -> UNION Range(categories)] : \A c \in hit : f[c] \in Hits(c)}}

-----------------------------------------------------------------------------
(* The transactions shown with an answer: the largest, as far as the limit.*)
Supporting(book, plan) ==
    LET rows == InOrder(Selected(book, plan, plan.period),
                        [i \in DOMAIN book |-> -AmountSize(book[i].amount)])
        limit == IF plan.intent = "search" THEN plan.limit ELSE MaxSupporting
    IN SubSeq(rows, 1, Min({limit, Len(rows)}))

(* A part of a whole, and a change, in percent with one decimal.           *)
Percent(part, whole) ==
    10 * ((1000 * AmountSize(part) + AmountSize(whole) \div 2) \div AmountSize(whole))

(* allowed_numeric_tokens of what was executed and the amounts of the      *)
(* transactions shown: figures keep their sign, except differences.        *)
AllowedNumbers(answer, shown) ==
    LET Money(cents) == {cents, 100 * cents}
        Unsigned(cents) == {cents, 100 * cents, AmountSize(cents)}
        rows == Range(answer.rows)
    IN Money(answer.total) \cup {100 * answer.count, 100 * Len(answer.rows)}
        \cup (UNION {Money(r.value) \cup {100 * r.count} : r \in rows})
        \cup (IF answer.total = 0 THEN {} ELSE {Percent(r.value, answer.total) : r \in rows})
        \cup (IF answer.previous = NoPeriod THEN {}
              ELSE Unsigned(answer.total) \cup Unsigned(answer.previous)
                    \cup Unsigned(answer.total - answer.previous)
                    \cup (IF answer.previous = 0 THEN {}
                          ELSE {Percent(answer.total - answer.previous, answer.previous)}))
        \cup (UNION {Unsigned(amount) \cup {100 * AmountSize(amount)} : amount \in shown})

(* Years, days, months and small counts are formatting, not claims.        *)
Benign(number) ==
    number % 100 = 0 /\ number \div 100 \in (0 .. 31) \cup (1900 .. 2100)

Verified(numbers, answer, shown) ==
    \A n \in numbers \ AllowedNumbers(answer, shown) : Benign(n)

(* build_narration: the numbers it prints, without their signs.  printed   *)
(* has those of names, of the text searched for and of the period's label; *)
(* years and days of the month in labels are Benign and left out.          *)
ScopePhrase(plan, printed) ==
    CASE plan.merchants # {} -> UNION {printed.names[m] : m \in plan.merchants}
      [] plan.merchants = {} /\ plan.categories # {} ->
            UNION {printed.names[c] : c \in plan.categories}
      [] OTHER -> IF plan.text THEN printed.query ELSE {}

(* The largest row is named, unless the rows are months or weeks.          *)
NamesTop(answer, plan) ==
    answer.rows # <<>> /\ plan.group \notin {"month", "week"} /\ answer.total # 0

(* Those in words; a baseline that is no month is called by its length.    *)
Worded(answer, plan, printed) ==
    printed.period \cup ScopePhrase(plan, printed)
    \cup IF answer.count = 0 THEN {}
         ELSE (IF plan.baseline = NoPeriod \/ FullMonth(plan.baseline) THEN {}
               ELSE {100 * (plan.baseline.end - plan.baseline.start + 1)})
              \cup (IF NamesTop(answer, plan) THEN printed.names[Head(answer.rows).label] ELSE {})

(* Those that are figures.                                                 *)
Figured(answer, plan) ==
    LET delta == answer.total - answer.previous
        values == {r.value : r \in Range(answer.rows)}
        top == Head(answer.rows)
    IN (IF plan.metric = "count" THEN {100 * answer.total}
        ELSE {AmountSize(answer.total), 100 * answer.count})
        \cup (IF plan.baseline = NoPeriod THEN {}
              ELSE IF delta = 0 THEN {}
              ELSE {AmountSize(delta), AmountSize(answer.previous)}
                    \cup (IF answer.previous = 0 THEN {} ELSE {Percent(delta, answer.previous)}))
        \cup (IF values # {} /\ plan.group \in {"month", "week"}
              THEN {AmountSize(Max(values)), AmountSize(Min(values))} ELSE {})
        \cup (IF NamesTop(answer, plan)
              THEN {AmountSize(top.value), Percent(top.value, answer.total), 100 * top.count}
              ELSE {})
        \cup (IF plan.intent = "recurring" /\ values # {} THEN {100 * Len(answer.rows)} ELSE {})

Narrated(answer, plan, printed) ==
    Worded(answer, plan, printed) \cup IF answer.count = 0 THEN {} ELSE Figured(answer, plan)

-----------------------------------------------------------------------------
(* One process's circuit breaker, which knows how many calls failed in a   *)
(* row and since when it is open; and complete_json, which tries again     *)
(* after any error but a rate limit.                                       *)
Answered(attempts) ==
    \E k \in 1 .. Min({MaxAttempts, Len(attempts)}) :
        attempts[k] = "answer" /\ \A j \in 1 .. k - 1 : attempts[j] = "error"

Open(breaker, now) == breaker.opened # Unset /\ now - breaker.opened < Cooldown

(* After the cooldown it closes and forgets its failures.                  *)
Rested(breaker) ==
    IF breaker.opened = Unset THEN breaker ELSE [breaker EXCEPT !.opened = Unset, !.failures = 0]

Failed(breaker, now) ==
    [breaker EXCEPT !.failures = @ + 1,
                    !.opened = IF breaker.failures + 1 >= Threshold THEN now ELSE @]

(* A call starts some time after the one before it and takes some time.    *)
Called(breaker, call) ==
    LET start == breaker.now + call.gap
        end == start + call.took
        Ends(outcome, b) ==
            [b EXCEPT !.now = IF outcome = "refused" THEN start ELSE end,
                      !.log = Append(@, [outcome |-> outcome, start |-> start, end |-> end])]
    IN IF Open(breaker, start) THEN Ends("refused", breaker)
       ELSE IF Answered(call.attempts)
            THEN Ends("answered", [Rested(breaker) EXCEPT !.failures = 0])
            ELSE Ends("failed", Failed(Rested(breaker), end))

Consulted(calls) ==
    FoldLeft(Called, [failures |-> 0, opened |-> Unset, now |-> 0, log |-> <<>>], calls).log

-----------------------------------------------------------------------------
(* What stands in for what.                                                *)

(* LLMPlanner: a plan the schema accepts, in the account's currency, or    *)
(* that of the rules.                                                      *)
PlanChosen(rules, replied, proposal) ==
    IF replied /\ Coherent(proposal) THEN proposal ELSE rules

(* narrate_with_model: wording whose numbers are all verified, or the      *)
(* template.                                                               *)
NumbersTold(answer, shown, plan, printed, replied, wording) ==
    IF replied /\ Verified(wording, answer, shown) THEN wording ELSE Narrated(answer, plan, printed)

(* LLMCategorizer over charges [merchant, known, reply, own, forgets]:     *)
(* known is what the rules say, own the categories of the account, and     *)
(* forgets whether both caches are lost before it.  A proposal the account *)
(* does not have is dropped and not remembered; a remembered one that it   *)
(* does not have is not asked for again.                                   *)
Placed(sofar, charge) ==
    LET memory == IF charge.forgets THEN <<>> ELSE sofar.memory
        remembered == charge.merchant \in DOMAIN memory
        asks == charge.known = "none" /\ ~remembered
        usable == charge.reply \in charge.own
        slug == IF remembered THEN memory[charge.merchant] ELSE charge.reply
    IN [memory |-> IF asks /\ usable
                   THEN [m \in DOMAIN memory \cup {charge.merchant} |->
                            IF m = charge.merchant THEN charge.reply ELSE memory[m]]
                   ELSE memory,
        log |-> Append(sofar.log,
                    [asked |-> asks,
                     category |-> IF charge.known # "none" THEN charge.known
                                  ELSE IF slug \in charge.own THEN slug ELSE "none"])]

PlacedAll(charges) == FoldLeft(Placed, [memory |-> <<>>, log |-> <<>>], charges).log
=============================================================================
