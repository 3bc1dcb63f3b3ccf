--------------------------- MODULE AnsweringProofs ---------------------------
(* What is proved of the answers for every input, and not only the small   *)
(* ones of MCRules: when the model is asked, what a question names, what   *)
(* its plan and the follow-ups cover, that the figures agree wherever they *)
(* are shown, and that what is told of them is checked.                    *)
EXTENDS RuleProofs

-----------------------------------------------------------------------------
(***************************************************************************)
(* The circuit breaker.                                                    *)
(***************************************************************************)

(* A call, and what a breaker has seen. *)
AnyCall == [gap : Nat, took : Nat, attempts : Seq({"error", "answer", "limited"})]
LogEntry == [outcome : {"refused", "answered", "failed"}, start : Nat, end : Nat]
AnyBreaker == [failures : Nat, opened : Nat \cup {Unset}, now : Nat, log : Seq(LogEntry)]
FreshBreaker == [failures |-> 0, opened |-> Unset, now |-> 0, log |-> <<>>]

(* What a call makes of a breaker: it is refused, answered or failed. *)
CallEntry(outcome, b, call) ==
    [outcome |-> outcome, start |-> b.now + call.gap, end |-> b.now + call.gap + call.took]
Refusal(b, call, c) ==
    /\ b.opened # Unset /\ (b.now + call.gap) - b.opened < Cooldown
    /\ c = [failures |-> b.failures, opened |-> b.opened, now |-> b.now + call.gap,
            log |-> Append(b.log, CallEntry("refused", b, call))]
Answering(b, call, c) ==
    c = [failures |-> 0, opened |-> Unset, now |-> b.now + call.gap + call.took,
         log |-> Append(b.log, CallEntry("answered", b, call))]
Failing(b, call, c) ==
    /\ b.opened = Unset \/ (b.now + call.gap) - b.opened >= Cooldown
    /\ \E n \in Nat :
        /\ n = (IF b.opened = Unset THEN b.failures ELSE 0) + 1
        /\ c = [failures |-> n,
                opened |-> IF n >= Threshold THEN b.now + call.gap + call.took ELSE Unset,
                now |-> b.now + call.gap + call.took,
                log |-> Append(b.log, CallEntry("failed", b, call))]

(* No other ways to go. *)
LEMMA CalledIs ==
    ASSUME NEW b \in AnyBreaker, NEW call \in AnyCall
    PROVE  LET c == Called(b, call)
           IN Refusal(b, call, c) \/ Answering(b, call, c) \/ Failing(b, call, c)
<1> DEFINE start == b.now + call.gap
           end == start + call.took
<1>1. start \in Nat /\ end \in Nat  BY DEF AnyBreaker, AnyCall
<1>2. b = [failures |-> b.failures, opened |-> b.opened, now |-> b.now, log |-> b.log]
  BY DEF AnyBreaker
<1>3. CASE Open(b, start)
  <2>1. Called(b, call) = [b EXCEPT !.now = start, !.log = Append(b.log, CallEntry("refused", b, call))]
    BY <1>3 DEF Called, CallEntry
  <2>2. Called(b, call) = [failures |-> b.failures, opened |-> b.opened, now |-> start,
                           log |-> Append(b.log, CallEntry("refused", b, call))]
    BY <2>1 DEF AnyBreaker
  <2>8. Open(b, b.now + call.gap)  BY <1>3
  <2>3. b.opened # Unset /\ (b.now + call.gap) - b.opened < Cooldown  BY <2>8 DEF Open
  <2>4. Refusal(b, call, Called(b, call))  BY <2>2, <2>3, Zenon DEF Refusal
  <2> QED  BY <2>4
<1>4. CASE ~Open(b, start) /\ Answered(call.attempts)
  <2>1. Called(b, call) = [[Rested(b) EXCEPT !.failures = 0] EXCEPT !.now = end,
                            !.log = Append(Rested(b).log, CallEntry("answered", b, call))]
    BY <1>4 DEF Called, CallEntry, Rested
  <2>2. Called(b, call) = [failures |-> 0, opened |-> Unset, now |-> end,
                           log |-> Append(b.log, CallEntry("answered", b, call))]
    BY <2>1 DEF AnyBreaker, Rested
  <2>3. Answering(b, call, Called(b, call))  BY <2>2, Zenon DEF Answering
  <2> QED  BY <2>3
<1>5. CASE ~Open(b, start) /\ ~Answered(call.attempts)
  <2> DEFINE n == (IF b.opened = Unset THEN b.failures ELSE 0) + 1
             rested == Rested(b)
  <2>1. n \in Nat  BY DEF AnyBreaker
  <2>2. rested = [failures |-> IF b.opened = Unset THEN b.failures ELSE 0, opened |-> Unset,
                  now |-> b.now, log |-> b.log]
    BY DEF Rested, AnyBreaker
  <2>3. Called(b, call) = [Failed(rested, end) EXCEPT !.now = end,
                            !.log = Append(Failed(rested, end).log, CallEntry("failed", b, call))]
    BY <1>5 DEF Called, CallEntry
  <2> HIDE DEF rested
  <2>9. rested.failures + 1 = n /\ rested.opened = Unset  BY <2>2
  <2> HIDE DEF n
  <2> DEFINE one == [rested EXCEPT !.failures = rested.failures + 1]
             two == [one EXCEPT !.opened = IF n >= Threshold THEN end ELSE rested.opened]
             three == [two EXCEPT !.now = end]
  <2>4. two = Failed(rested, end)
    <3>1. Failed(rested, end) = [one EXCEPT !.opened =
                                    IF rested.failures + 1 >= Threshold THEN end ELSE rested.opened]
      BY Zenon DEF Failed
    <3> QED  BY <2>9, <3>1, Zenon
  <2>11. one = [failures |-> n, opened |-> Unset, now |-> b.now, log |-> b.log]
    BY <2>2, <2>9
  <2>12. two = [failures |-> n, opened |-> IF n >= Threshold THEN end ELSE Unset,
                now |-> b.now, log |-> b.log]
    <3> HIDE DEF one
    <3> QED  BY <2>11, <2>9
  <2>13. three = [failures |-> n, opened |-> IF n >= Threshold THEN end ELSE Unset,
                  now |-> end, log |-> b.log]
    <3> HIDE DEF two
    <3> QED  BY <2>12
  <2> HIDE DEF one, two
  <2>14. Called(b, call) = [three EXCEPT !.log = Append(two.log, CallEntry("failed", b, call))]
    BY <2>3, <2>4, Zenon
  <2>5. Called(b, call) = [failures |-> n, opened |-> IF n >= Threshold THEN end ELSE Unset,
                           now |-> end, log |-> Append(b.log, CallEntry("failed", b, call))]
    <3>1. two.log = b.log  BY <2>12
    <3> HIDE DEF three
    <3> QED  BY <2>13, <2>14, <3>1
  <2>6. b.opened = Unset \/ (b.now + call.gap) - b.opened >= Cooldown
    <3>1. b.opened # Unset => ~((b.now + call.gap) - b.opened < Cooldown)
      BY <1>5, Zenon DEF Open
    <3>2. Cooldown \in Nat /\ (b.opened # Unset => b.opened \in Nat)
          /\ b.now + call.gap \in Nat
      BY <1>1, TellingAssumption DEF AnyBreaker
    <3>3. CASE b.opened = Unset  BY <3>3
    <3>4. CASE b.opened # Unset
      <4> DEFINE gap == (b.now + call.gap) - b.opened
      <4>1. ~(gap < Cooldown) /\ gap \in Int /\ Cooldown \in Int  BY <3>1, <3>2, <3>4
      <4> HIDE DEF gap
      <4>2. gap >= Cooldown  BY <4>1
      <4> QED  BY <4>2 DEF gap
    <3> QED  BY <3>3, <3>4
  <2>7. \E m \in Nat : m = n /\ Called(b, call) =
            [failures |-> m, opened |-> IF m >= Threshold THEN end ELSE Unset,
             now |-> end, log |-> Append(b.log, CallEntry("failed", b, call))]
    BY <2>1, <2>5
  <2>8. Failing(b, call, Called(b, call))  BY <2>6, <2>7, Zenon DEF Failing, n
  <2> QED  BY <2>8
<1> QED  BY <1>3, <1>4, <1>5

(* A breaker stays one. *)
LEMMA CalledTyped ==
    ASSUME NEW b \in AnyBreaker, NEW call \in AnyCall
    PROVE  Called(b, call) \in AnyBreaker
<1> DEFINE c == Called(b, call)
<1>1. /\ b.now \in Nat /\ call.gap \in Nat /\ call.took \in Nat /\ b.log \in Seq(LogEntry)
      /\ b.failures \in Nat /\ b.opened \in Nat \cup {Unset}
  BY DEF AnyBreaker, AnyCall
<1>2. \A outcome \in {"refused", "answered", "failed"} :
          Append(b.log, CallEntry(outcome, b, call)) \in Seq(LogEntry)
  <2> SUFFICES ASSUME NEW outcome \in {"refused", "answered", "failed"}
               PROVE  Append(b.log, CallEntry(outcome, b, call)) \in Seq(LogEntry)
    OBVIOUS
  <2> DEFINE entry == CallEntry(outcome, b, call)
  <2>1. entry \in LogEntry  BY <1>1 DEF CallEntry, LogEntry
  <2> HIDE DEF entry
  <2>2. b.log \in Seq(LogEntry)  BY <1>1
  <2>3. Append(b.log, entry) \in Seq(LogEntry)  BY <2>1, <2>2
  <2> QED  BY <2>3 DEF entry
<1>3. Refusal(b, call, c) \/ Answering(b, call, c) \/ Failing(b, call, c)
  BY CalledIs, Zenon
<1> HIDE DEF c
<1>7. b.now + call.gap \in Nat /\ b.now + call.gap + call.took \in Nat
  <2>1. \A x, y, z \in Nat : x + y \in Nat /\ x + y + z \in Nat  OBVIOUS
  <2> QED  BY <1>1, <2>1, Zenon
<1>4. ASSUME Refusal(b, call, c)  PROVE c \in AnyBreaker
  BY <1>1, <1>2, <1>4, <1>7 DEF Refusal, AnyBreaker
<1>5. ASSUME Answering(b, call, c)  PROVE c \in AnyBreaker
  BY <1>1, <1>2, <1>5, <1>7 DEF Answering, AnyBreaker
<1>6. ASSUME Failing(b, call, c)  PROVE c \in AnyBreaker
  <2>1. PICK m \in Nat : c = [failures |-> m,
                opened |-> IF m >= Threshold THEN b.now + call.gap + call.took ELSE Unset,
                now |-> b.now + call.gap + call.took,
                log |-> Append(b.log, CallEntry("failed", b, call))]
    BY <1>6 DEF Failing
  <2> QED  BY <1>1, <1>2, <1>7, <2>1 DEF AnyBreaker
<1> QED  BY <1>3, <1>4, <1>5, <1>6 DEF c

(* What a breaker logs, call by call. *)
LEMMA ConsultedIs ==
    ASSUME NEW n \in Nat, NEW calls \in [1 .. n -> AnyCall]
    PROVE  \E st \in [0 .. n -> AnyBreaker] :
              /\ st[0] = FreshBreaker
              /\ \A k \in 1 .. n : st[k] = Called(st[k - 1], calls[k])
              /\ Consulted(calls) = st[n].log
<1> DEFINE step == [k \in 1 .. n |-> [b \in AnyBreaker |-> Called(b, calls[k])]]
           Right(g) == g = [s \in SUBSET (1 .. n) |->
                              IF s = {} THEN FreshBreaker
                              ELSE Called(g[s \ {Max(s)}], calls[Max(s)])]
           h == CHOOSE g : Right(g)
<1>1. FreshBreaker \in AnyBreaker
  <2>1. <<>> \in Seq(LogEntry)  OBVIOUS
  <2> QED  BY <2>1 DEF FreshBreaker, AnyBreaker
<1>2. step \in [1 .. n -> [AnyBreaker -> AnyBreaker]]  BY CalledTyped
<1>3. PICK w \in [SUBSET (1 .. n) -> AnyBreaker] : Walks(w, FreshBreaker, step, SUBSET (1 .. n))
  <2> HIDE DEF step
  <2> QED  BY <1>1, <1>2, WalkExists
<1>4. Right(w)
  <2>1. ASSUME NEW s \in SUBSET (1 .. n), s # {}
        PROVE  step[Max(s)][w[s \ {Max(s)}]] = Called(w[s \ {Max(s)}], calls[Max(s)])
    <3>1. Max(s) \in 1 .. n  BY <2>1, GreatestOfPart
    <3>2. w[s \ {Max(s)}] \in AnyBreaker  OBVIOUS
    <3> QED  BY <3>1, <3>2
  <2> HIDE DEF step
  <2>2. w = [s \in SUBSET (1 .. n) |->
               IF s = {} THEN FreshBreaker ELSE step[Max(s)][w[s \ {Max(s)}]]]
    BY <1>3 DEF Walks
  <2> QED  BY <2>1, <2>2
<1>5. Right(h)
  <2> HIDE DEF Right
  <2> QED  BY <1>4, Zenon
<1>6. Consulted(calls) = h[1 .. n].log
  <2>1. DOMAIN calls = 1 .. n  OBVIOUS
  <2>2. Consulted(calls) =
          (CHOOSE g : g = [s \in SUBSET DOMAIN calls |->
                             IF s = {} THEN FreshBreaker
                             ELSE Called(g[s \ {Max(s)}], calls[Max(s)])])[DOMAIN calls].log
    BY DEF Consulted, FoldLeft, MapThenFoldSet, FreshBreaker
  <2> QED  BY <2>1, <2>2, Zenon
<1> HIDE DEF h
<1>7. h[{}] = FreshBreaker
  <2>1. {} \in SUBSET (1 .. n)  OBVIOUS
  <2> QED  BY <1>5, <2>1
<1>8. \A k \in 1 .. n : h[1 .. k] = Called(h[1 .. k - 1], calls[k])
  <2> SUFFICES ASSUME NEW k \in 1 .. n  PROVE h[1 .. k] = Called(h[1 .. k - 1], calls[k])
    OBVIOUS
  <2>1. 1 .. k \in SUBSET (1 .. n) /\ 1 .. k # {} /\ k \in Nat \ {0}  BY FirstPart
  <2>2. Max(1 .. k) = k /\ (1 .. k) \ {k} = 1 .. k - 1  BY <2>1, GreatestOfFirst
  <2>3. h[1 .. k] = Called(h[(1 .. k) \ {Max(1 .. k)}], calls[Max(1 .. k)])
    BY <1>5, <2>1
  <2> QED  BY <2>2, <2>3, Zenon
<1> DEFINE T == {k \in Nat : k <= n => h[1 .. k] \in AnyBreaker}
<1>9. T = Nat
  <2>1. 1 .. 0 = {}  OBVIOUS
  <2>2. T \in SUBSET Nat /\ 0 \in T  BY <1>1, <1>7, <2>1
  <2>3. ASSUME NEW k \in T  PROVE k + 1 \in T
    <3> SUFFICES ASSUME k + 1 <= n  PROVE h[1 .. k + 1] \in AnyBreaker  OBVIOUS
    <3>1. k \in Nat /\ k <= n /\ h[1 .. k] \in AnyBreaker  OBVIOUS
    <3>2. k + 1 \in 1 .. n /\ (k + 1) - 1 = k  BY <3>1
    <3>3. h[1 .. k + 1] = Called(h[1 .. k], calls[k + 1])
      <4>1. h[1 .. k + 1] = Called(h[1 .. (k + 1) - 1], calls[k + 1])  BY <1>8, <3>2
      <4> QED  BY <3>2, <4>1
    <3>4. calls[k + 1] \in AnyCall  BY <3>2
    <3> QED  BY <3>1, <3>3, <3>4, CalledTyped
  <2> HIDE DEF T
  <2> QED  BY <2>2, <2>3, AllNaturals
<1> DEFINE st == [k \in 0 .. n |-> h[1 .. k]]
<1>10. st \in [0 .. n -> AnyBreaker]
  <2>1. \A k \in 0 .. n : h[1 .. k] \in AnyBreaker  BY <1>9
  <2> QED  BY <2>1
<1>11. st[0] = FreshBreaker
  <2>1. 1 .. 0 = {}  OBVIOUS
  <2> QED  BY <1>7, <2>1
<1>12. \A k \in 1 .. n : st[k] = Called(st[k - 1], calls[k])
  <2>1. \A k \in 1 .. n : k - 1 \in 0 .. n /\ k \in 0 .. n  OBVIOUS
  <2> QED  BY <1>8, <2>1
<1>13. st[n] = h[1 .. n]  OBVIOUS
<1> HIDE DEF st
<1> QED  BY <1>6, <1>10, <1>11, <1>12, <1>13

(* How many calls failed from the i-th to the j-th, none being answered. *)
FailuresIn(log, i, j) == Cardinality({x \in i .. j : log[x].outcome = "failed"})
NoAnswerIn(log, i, j) == \A x \in i .. j : log[x].outcome # "answered"
(* The j-th call is spared and spares as BreakerSpares says. *)
SparedAt(log, j) ==
    /\ log[j].outcome = "refused" =>
            \E i \in 1 .. j - 1 : log[i].outcome = "failed" /\ log[j].start - log[i].end < Cooldown
    /\ \A i \in 1 .. j - 1 :
            /\ log[i].outcome = "failed" /\ log[j].outcome = "failed"
            /\ NoAnswerIn(log, i, j) /\ FailuresIn(log, i, j) > Threshold
            => log[j].start - log[i].end >= Cooldown

(* One more call has been logged, and counted if it is a failure. *)
Recounted(log, new, k, i) ==
    /\ \A j \in 0 .. k : FailuresIn(new, i, j) = FailuresIn(log, i, j)
                         /\ FailuresIn(log, i, j) \in Nat
    /\ new[k + 1].outcome # "failed" => FailuresIn(new, i, k + 1) = FailuresIn(log, i, k)
    /\ new[k + 1].outcome = "failed" => FailuresIn(new, i, k + 1) = FailuresIn(log, i, k) + 1

(* A log that goes on is so recounted. *)
LEMMA FailureCounted ==
    ASSUME NEW k \in Nat, NEW log, NEW new, \A x \in 1 .. k : new[x] = log[x],
           NEW i \in 1 .. k + 1
    PROVE  Recounted(log, new, k, i)
<1> DEFINE At(l, j) == {x \in i .. j : l[x].outcome = "failed"}
<1>1. \A j \in 0 .. k : At(new, j) = At(log, j)  OBVIOUS
<1>2. \A j \in 0 .. k : IsFiniteSet(At(log, j)) /\ Cardinality(At(log, j)) \in Nat
  <2> SUFFICES ASSUME NEW j \in 0 .. k
               PROVE  IsFiniteSet(At(log, j)) /\ Cardinality(At(log, j)) \in Nat
    OBVIOUS
  <2>1. i \in Int /\ j \in Int  OBVIOUS
  <2>2. IsFiniteSet(i .. j) /\ At(log, j) \in SUBSET (i .. j)  BY <2>1, FS_Interval
  <2> HIDE DEF At
  <2> QED  BY <2>2, FS_Subset, FS_CardinalityType
<1>3. k \in 0 .. k  OBVIOUS
<1>4. new[k + 1].outcome # "failed" => At(new, k + 1) = At(log, k)
  <2> SUFFICES ASSUME new[k + 1].outcome # "failed"  PROVE At(new, k + 1) = At(log, k)
    OBVIOUS
  <2>1. \A x \in i .. k + 1 : x = k + 1 \/ (x \in i .. k /\ new[x] = log[x])  OBVIOUS
  <2>2. \A x \in i .. k : x \in i .. k + 1 /\ new[x] = log[x]  OBVIOUS
  <2> QED  BY <2>1, <2>2
<1>5. new[k + 1].outcome = "failed" => At(new, k + 1) = At(log, k) \cup {k + 1}
  <2> SUFFICES ASSUME new[k + 1].outcome = "failed"
               PROVE  At(new, k + 1) = At(log, k) \cup {k + 1}
    OBVIOUS
  <2>1. \A x \in i .. k + 1 : x = k + 1 \/ (x \in i .. k /\ new[x] = log[x])  OBVIOUS
  <2>2. \A x \in i .. k : x \in i .. k + 1 /\ new[x] = log[x]  OBVIOUS
  <2>3. k + 1 \in i .. k + 1  OBVIOUS
  <2> QED  BY <2>1, <2>2, <2>3
<1>6. k + 1 \notin At(log, k)  OBVIOUS
<1>7. \A l, j : FailuresIn(l, i, j) = Cardinality(At(l, j))  BY DEF FailuresIn
<1> HIDE DEF At
<1>8. Cardinality(At(log, k) \cup {k + 1}) = Cardinality(At(log, k)) + 1
  BY <1>2, <1>3, <1>6, FS_AddElement
<1>9. \A j \in 0 .. k : FailuresIn(new, i, j) = FailuresIn(log, i, j) /\ FailuresIn(log, i, j) \in Nat
  BY <1>1, <1>2, <1>7, Zenon
<1>10. new[k + 1].outcome # "failed" => FailuresIn(new, i, k + 1) = FailuresIn(log, i, k)
  BY <1>4, <1>7, Zenon
<1>11. new[k + 1].outcome = "failed" => FailuresIn(new, i, k + 1) = FailuresIn(log, i, k) + 1
  <2> SUFFICES ASSUME new[k + 1].outcome = "failed"
               PROVE  FailuresIn(new, i, k + 1) = FailuresIn(log, i, k) + 1
    OBVIOUS
  <2>1. FailuresIn(new, i, k + 1) = Cardinality(At(new, k + 1))  BY <1>7
  <2>2. FailuresIn(log, i, k) = Cardinality(At(log, k))  BY <1>7
  <2>3. At(new, k + 1) = At(log, k) \cup {k + 1}  BY <1>5
  <2> QED  BY <1>8, <2>1, <2>2, <2>3, Zenon
<1> QED  BY <1>9, <1>10, <1>11, Zenon DEF Recounted

(* What was said of an earlier call is still true. *)
LEMMA StillSpared ==
    ASSUME NEW k \in Nat, NEW log, NEW new, \A x \in 1 .. k : new[x] = log[x],
           NEW j \in 1 .. k, SparedAt(log, j)
    PROVE  SparedAt(new, j)
<1>1. \A i \in 1 .. k : FailuresIn(new, i, j) = FailuresIn(log, i, j)
  <2> SUFFICES ASSUME NEW i \in 1 .. k  PROVE FailuresIn(new, i, j) = FailuresIn(log, i, j)
    OBVIOUS
  <2>1. i \in 1 .. k + 1 /\ j \in 0 .. k  OBVIOUS
  <2>2. \A m \in 0 .. k : FailuresIn(new, i, m) = FailuresIn(log, i, m)
    <3>1. Recounted(log, new, k, i)  BY <2>1, FailureCounted, Zenon
    <3> QED  BY <3>1, Zenon DEF Recounted
  <2> QED  BY <2>1, <2>2, Zenon
<1>2. \A i \in 1 .. k : NoAnswerIn(new, i, j) <=> NoAnswerIn(log, i, j)  BY DEF NoAnswerIn
<1>3. new[j] = log[j] /\ \A i \in 1 .. j - 1 : i \in 1 .. k /\ new[i] = log[i]  OBVIOUS
<1>4. new[j].outcome = "refused" =>
        \E i \in 1 .. j - 1 : new[i].outcome = "failed" /\ new[j].start - new[i].end < Cooldown
  BY <1>3 DEF SparedAt
<1>5. ASSUME NEW i \in 1 .. j - 1, new[i].outcome = "failed", new[j].outcome = "failed",
             NoAnswerIn(new, i, j), FailuresIn(new, i, j) > Threshold
      PROVE  new[j].start - new[i].end >= Cooldown
  <2>1. NoAnswerIn(log, i, j) /\ FailuresIn(log, i, j) > Threshold
    BY <1>1, <1>2, <1>3, <1>5
  <2>2. log[j].start - log[i].end >= Cooldown
    BY <1>3, <1>5, <2>1 DEF SparedAt
  <2> QED  BY <1>3, <2>2
<1> QED  BY <1>4, <1>5 DEF SparedAt

(* What a breaker knows after k calls: while it is open, since when the    *)
(* last call failed; while it is closed, of every failure since the last   *)
(* answer that it counted it, unless that was a cooldown ago.              *)
FailedAt(log, i) == log[i].outcome = "failed"
Logged(b, k) ==
    /\ b \in AnyBreaker /\ Len(b.log) = k
    /\ \A i \in 1 .. k : FailedAt(b.log, i) => b.log[i].end <= b.now
Opening(b, k) ==
    /\ b.opened = Unset => b.failures < Threshold
    /\ b.opened # Unset =>
        /\ \E i \in 1 .. k : FailedAt(b.log, i) /\ b.log[i].end = b.opened
        /\ \A i \in 1 .. k : FailedAt(b.log, i) => b.log[i].end <= b.opened
Remembers(b, k) ==
    \A i \in 1 .. k : FailedAt(b.log, i) /\ NoAnswerIn(b.log, i, k) =>
        b.now - b.log[i].end >= Cooldown \/ FailuresIn(b.log, i, k) <= b.failures
Spares(b, k) == \A j \in 1 .. k : SparedAt(b.log, j)
BreakerInv(b, k) == Logged(b, k) /\ Opening(b, k) /\ Remembers(b, k) /\ Spares(b, k)

(* A fresh one knows nothing. *)
LEMMA FreshInv == BreakerInv(FreshBreaker, 0)
<1>1. FreshBreaker \in AnyBreaker /\ Len(FreshBreaker.log) = 0
  <2>1. <<>> \in Seq(LogEntry) /\ Len(<<>>) = 0  OBVIOUS
  <2> QED  BY <2>1 DEF FreshBreaker, AnyBreaker
<1>2. FreshBreaker.opened = Unset /\ FreshBreaker.failures < Threshold
  BY TellingAssumption DEF FreshBreaker
<1>3. 1 .. 0 = {}  OBVIOUS
<1> QED  BY <1>1, <1>2, <1>3 DEF BreakerInv, Logged, Opening, Remembers, Spares

(* The breaker before a call, the call, and the log after it, typed. *)
BeforeCall(b, k, call, outcome, new) ==
    /\ k \in Nat /\ BreakerInv(b, k) /\ call \in AnyCall
    /\ new = Append(b.log, CallEntry(outcome, b, call))
    /\ outcome \in {"refused", "answered", "failed"}

(* What is known of the numbers and the log. *)
LEMMA CallKnown ==
    ASSUME NEW b, NEW k, NEW call, NEW outcome, NEW new, BeforeCall(b, k, call, outcome, new)
    PROVE  /\ k \in Nat /\ k + 1 \in Nat /\ b \in AnyBreaker /\ call \in AnyCall
           /\ b.now \in Nat /\ b.failures \in Nat /\ (b.opened # Unset => b.opened \in Nat)
           /\ b.now + call.gap \in Nat /\ b.now + call.gap + call.took \in Nat
           /\ b.now <= b.now + call.gap /\ b.now + call.gap <= b.now + call.gap + call.took
           /\ Cooldown \in Nat /\ Threshold \in Nat /\ Threshold > 0 /\ Cooldown > 0
           /\ new \in Seq(LogEntry) /\ Len(new) = k + 1
           /\ new[k + 1] = CallEntry(outcome, b, call)
           /\ new[k + 1].outcome = outcome /\ new[k + 1].start = b.now + call.gap
           /\ new[k + 1].end = b.now + call.gap + call.took
           /\ \A x \in 1 .. k : new[x] = b.log[x] /\ new[x].start \in Nat /\ new[x].end \in Nat
<1>1. k \in Nat /\ b \in AnyBreaker /\ call \in AnyCall /\ Len(b.log) = k
      /\ new = Append(b.log, CallEntry(outcome, b, call))
      /\ outcome \in {"refused", "answered", "failed"}
  BY DEF BeforeCall, BreakerInv, Logged
<1>2. /\ b.now \in Nat /\ b.failures \in Nat /\ (b.opened # Unset => b.opened \in Nat)
      /\ call.gap \in Nat /\ call.took \in Nat /\ b.log \in Seq(LogEntry)
  BY <1>1 DEF AnyBreaker, AnyCall
<1>3. CallEntry(outcome, b, call) \in LogEntry
  BY <1>1, <1>2 DEF CallEntry, LogEntry
<1>4. /\ new \in Seq(LogEntry) /\ Len(new) = k + 1 /\ new[k + 1] = CallEntry(outcome, b, call)
      /\ \A x \in 1 .. k : new[x] = b.log[x] /\ new[x] \in LogEntry
  <2> DEFINE log == b.log
             e == CallEntry(outcome, b, call)
  <2>1. log \in Seq(LogEntry) /\ Len(log) = k /\ e \in LogEntry /\ new = Append(log, e)
    BY <1>1, <1>2, <1>3
  <2> HIDE DEF log, e
  <2>2. /\ Append(log, e) \in Seq(LogEntry) /\ Len(Append(log, e)) = k + 1
        /\ Append(log, e)[k + 1] = e
        /\ \A x \in 1 .. k : Append(log, e)[x] = log[x] /\ log[x] \in LogEntry
    BY <1>1, <2>1, EntryAdded
  <2> QED  BY <2>1, <2>2 DEF log, e
<1>5. \A x \in 1 .. k : new[x].start \in Nat /\ new[x].end \in Nat
  BY <1>4 DEF LogEntry
<1>6. Cooldown \in Nat /\ Threshold \in Nat /\ Threshold > 0 /\ Cooldown > 0
  BY TellingAssumption
<1>7. /\ new[k + 1].outcome = outcome /\ new[k + 1].start = b.now + call.gap
      /\ new[k + 1].end = b.now + call.gap + call.took
  BY <1>4 DEF CallEntry
<1>8. /\ b.now + call.gap \in Nat /\ b.now + call.gap + call.took \in Nat
      /\ b.now <= b.now + call.gap /\ b.now + call.gap <= b.now + call.gap + call.took
  BY <1>2
<1> QED  BY <1>1, <1>2, <1>4, <1>5, <1>6, <1>7, <1>8

(* The earlier calls are spared still, and the new one is if SparedAt says *)
(* so.                                                                     *)
LEMMA SparesOn ==
    ASSUME NEW b, NEW k, NEW call, NEW outcome, NEW c, BeforeCall(b, k, call, outcome, c.log),
           SparedAt(c.log, k + 1)
    PROVE  Spares(c, k + 1)
<1>1. k \in Nat /\ \A x \in 1 .. k : c.log[x] = b.log[x]  BY CallKnown
<1>2. \A j \in 1 .. k : SparedAt(b.log, j)  BY DEF BeforeCall, BreakerInv, Spares
<1> DEFINE new == c.log
           old == b.log
<1>3. \A j \in 1 .. k : SparedAt(new, j)
  <2> SUFFICES ASSUME NEW j \in 1 .. k  PROVE SparedAt(new, j)  OBVIOUS
  <2>1. SparedAt(old, j) /\ \A x \in 1 .. k : new[x] = old[x]  BY <1>1, <1>2
  <2> HIDE DEF new, old
  <2> QED  BY <1>1, <2>1, StillSpared
<1>4. \A j \in 1 .. k + 1 : j \in 1 .. k \/ j = k + 1  BY <1>1
<1> QED  BY <1>3, <1>4 DEF Spares

(* A refused call leaves all as it is; it is refused for a failure.  *)
LEMMA RefusalKeeps ==
    ASSUME NEW k \in Nat, NEW b, BreakerInv(b, k), NEW call \in AnyCall, NEW c \in AnyBreaker,
           Refusal(b, call, c)
    PROVE  BreakerInv(c, k + 1)
<1> DEFINE new == c.log
<1>1. /\ c.failures = b.failures /\ c.opened = b.opened /\ c.now = b.now + call.gap
      /\ new = Append(b.log, CallEntry("refused", b, call))
      /\ b.opened # Unset /\ (b.now + call.gap) - b.opened < Cooldown
  BY DEF Refusal
<1>2. BeforeCall(b, k, call, "refused", new)  BY <1>1 DEF BeforeCall
<1> HIDE DEF new
<1>3. /\ k + 1 \in Nat /\ Len(new) = k + 1
      /\ b.now \in Nat /\ b.opened \in Nat /\ b.now + call.gap \in Nat /\ b.now <= b.now + call.gap
      /\ b.failures \in Nat /\ Cooldown \in Nat
      /\ new[k + 1].outcome = "refused" /\ new[k + 1].start = b.now + call.gap
      /\ \A x \in 1 .. k : new[x] = b.log[x] /\ new[x].start \in Nat /\ new[x].end \in Nat
  <2>1. /\ k + 1 \in Nat /\ Len(new) = k + 1 /\ Cooldown \in Nat
        /\ new[k + 1].outcome = "refused" /\ new[k + 1].start = b.now + call.gap
        /\ \A x \in 1 .. k : new[x] = b.log[x] /\ new[x].start \in Nat /\ new[x].end \in Nat
    BY <1>2, CallKnown
  <2>2. /\ b.now \in Nat /\ (b.opened # Unset => b.opened \in Nat) /\ b.failures \in Nat
        /\ b.now + call.gap \in Nat /\ b.now <= b.now + call.gap
    BY <1>2, CallKnown
  <2> QED  BY <1>1, <2>1, <2>2
<1>4. \A x \in 1 .. k + 1 : x \in 1 .. k \/ x = k + 1  OBVIOUS
<1>5. Logged(c, k + 1)
  <2>1. \A i \in 1 .. k : FailedAt(b.log, i) => b.log[i].end <= b.now
    BY DEF BreakerInv, Logged
  <2>2. \A i \in 1 .. k + 1 : FailedAt(new, i) => new[i].end <= c.now
    <3> SUFFICES ASSUME NEW i \in 1 .. k + 1, FailedAt(new, i)  PROVE new[i].end <= c.now
      OBVIOUS
    <3>1. i \in 1 .. k
      <4>1. i # k + 1  BY <1>3 DEF FailedAt
      <4> QED  BY <1>4, <4>1, Zenon
    <3>2. new[i] = b.log[i] /\ new[i].end \in Nat  BY <1>3, <3>1
    <3>3. new[i].end <= b.now  BY <2>1, <3>1, <3>2 DEF FailedAt
    <3>4. b.now \in Nat /\ c.now \in Nat /\ b.now <= c.now  BY <1>1, <1>3
    <3>5. new[i].end \in Nat  BY <3>2
    <3> HIDE DEF new
    <3> QED  BY <3>3, <3>4, <3>5
  <2> QED  BY <1>3, <2>2 DEF Logged, new
<1>6. Opening(c, k + 1)
  <2>1. /\ \E i \in 1 .. k : FailedAt(b.log, i) /\ b.log[i].end = b.opened
        /\ \A i \in 1 .. k : FailedAt(b.log, i) => b.log[i].end <= b.opened
    BY <1>1 DEF BreakerInv, Opening
  <2>2. \E i \in 1 .. k + 1 : FailedAt(new, i) /\ new[i].end = c.opened
    <3>1. PICK i \in 1 .. k : FailedAt(b.log, i) /\ b.log[i].end = b.opened  BY <2>1
    <3>2. i \in 1 .. k + 1 /\ new[i] = b.log[i]  BY <1>3
    <3> QED  BY <1>1, <3>1, <3>2 DEF FailedAt
  <2>3. \A i \in 1 .. k + 1 : FailedAt(new, i) => new[i].end <= c.opened
    <3> SUFFICES ASSUME NEW i \in 1 .. k + 1, FailedAt(new, i)  PROVE new[i].end <= c.opened
      OBVIOUS
    <3>1. i \in 1 .. k
      <4>1. i # k + 1  BY <1>3 DEF FailedAt
      <4> QED  BY <1>4, <4>1, Zenon
    <3>2. new[i] = b.log[i]  BY <1>3, <3>1
    <3> QED  BY <1>1, <2>1, <3>1, <3>2 DEF FailedAt
  <2> QED  BY <1>1, <2>2, <2>3 DEF Opening, new
<1>7. Remembers(c, k + 1)
  <2> SUFFICES ASSUME NEW i \in 1 .. k + 1, FailedAt(new, i), NoAnswerIn(new, i, k + 1)
               PROVE  c.now - new[i].end >= Cooldown \/ FailuresIn(new, i, k + 1) <= c.failures
    BY DEF Remembers, new
  <2>1. i \in 1 .. k
    <3>1. i # k + 1  BY <1>3 DEF FailedAt
    <3> QED  BY <1>4, <3>1, Zenon
  <2>2. FailedAt(b.log, i) /\ NoAnswerIn(b.log, i, k)
    BY <1>3, <2>1 DEF FailedAt, NoAnswerIn
  <2>3. b.now - b.log[i].end >= Cooldown \/ FailuresIn(b.log, i, k) <= b.failures
    BY <2>1, <2>2 DEF BreakerInv, Remembers
  <2>4. FailuresIn(new, i, k + 1) = FailuresIn(b.log, i, k)
    <3>1. \A x \in 1 .. k : new[x] = b.log[x]  BY <1>3
    <3>2. new[k + 1].outcome # "failed"  BY <1>3
    <3> DEFINE old == b.log
    <3>3. \A x \in 1 .. k : new[x] = old[x]  BY <3>1
    <3> HIDE DEF old
    <3>4. i \in 1 .. k + 1  BY <2>1
    <3>5. Recounted(old, new, k, i)  BY <3>3, <3>4, FailureCounted, Zenon
    <3>6. FailuresIn(new, i, k + 1) = FailuresIn(old, i, k)  BY <3>2, <3>5, Zenon DEF Recounted
    <3> QED  BY <3>6 DEF old
  <2>5. new[i] = b.log[i] /\ new[i].end \in Nat  BY <1>3, <2>1
  <2>6. b.now <= c.now /\ b.now \in Nat /\ c.now \in Nat /\ c.failures = b.failures
    BY <1>1, <1>3
  <2>7. b.now - new[i].end >= Cooldown => c.now - new[i].end >= Cooldown
    <3>1. Cooldown \in Nat  BY <1>3
    <3> QED  BY <2>5, <2>6, <3>1
  <2> QED  BY <2>3, <2>4, <2>5, <2>6, <2>7
<1>8. SparedAt(new, k + 1)
  <2>1. PICK i \in 1 .. k : FailedAt(b.log, i) /\ b.log[i].end = b.opened
    BY <1>1 DEF BreakerInv, Opening
  <2>2. i \in 1 .. (k + 1) - 1 /\ new[i].outcome = "failed"
        /\ new[k + 1].start - new[i].end < Cooldown
    BY <1>1, <1>3, <2>1 DEF FailedAt
  <2> QED  BY <1>3, <2>2 DEF SparedAt
<1>9. Spares(c, k + 1)  BY <1>2, <1>8, SparesOn DEF new
<1> QED  BY <1>5, <1>6, <1>7, <1>9 DEF BreakerInv

(* An answer closes the breaker and forgets the failures. *)
LEMMA AnswerKeeps ==
    ASSUME NEW k \in Nat, NEW b, BreakerInv(b, k), NEW call \in AnyCall, NEW c \in AnyBreaker,
           Answering(b, call, c)
    PROVE  BreakerInv(c, k + 1)
<1> DEFINE new == c.log
<1>1. /\ c.failures = 0 /\ c.opened = Unset /\ c.now = b.now + call.gap + call.took
      /\ new = Append(b.log, CallEntry("answered", b, call))
  BY DEF Answering
<1>2. BeforeCall(b, k, call, "answered", new)  BY <1>1 DEF BeforeCall
<1> HIDE DEF new
<1>3. /\ k + 1 \in Nat /\ Len(new) = k + 1
      /\ b.now \in Nat /\ c.now \in Nat /\ b.now <= c.now
      /\ Threshold \in Nat /\ Threshold > 0
      /\ new[k + 1].outcome = "answered"
      /\ \A x \in 1 .. k : new[x] = b.log[x] /\ new[x].start \in Nat /\ new[x].end \in Nat
  <2>1. /\ b.now \in Nat /\ b.now + call.gap \in Nat /\ b.now + call.gap + call.took \in Nat
        /\ b.now <= b.now + call.gap /\ b.now + call.gap <= b.now + call.gap + call.took
    BY <1>2, CallKnown
  <2>2. b.now <= b.now + call.gap + call.took  BY <2>1
  <2>3. /\ k + 1 \in Nat /\ Len(new) = k + 1 /\ Threshold \in Nat /\ Threshold > 0
        /\ new[k + 1].outcome = "answered"
        /\ \A x \in 1 .. k : new[x] = b.log[x] /\ new[x].start \in Nat /\ new[x].end \in Nat
    BY <1>2, CallKnown
  <2> QED  BY <1>1, <2>1, <2>2, <2>3
<1>4. \A x \in 1 .. k + 1 : x \in 1 .. k \/ x = k + 1  OBVIOUS
<1>5. Logged(c, k + 1)
  <2>1. \A i \in 1 .. k : FailedAt(b.log, i) => b.log[i].end <= b.now
    BY DEF BreakerInv, Logged
  <2>2. \A i \in 1 .. k + 1 : FailedAt(new, i) => new[i].end <= c.now
    BY <1>3, <1>4, <2>1 DEF FailedAt
  <2> QED  BY <1>3, <2>2 DEF Logged, new
<1>6. Opening(c, k + 1)  BY <1>1, <1>3 DEF Opening
<1>7. Remembers(c, k + 1)
  <2> SUFFICES ASSUME NEW i \in 1 .. k + 1, FailedAt(new, i), NoAnswerIn(new, i, k + 1)
               PROVE  FALSE
    BY DEF Remembers, new
  <2>1. k + 1 \in i .. k + 1  OBVIOUS
  <2> QED  BY <1>3, <2>1 DEF NoAnswerIn
<1>8. SparedAt(new, k + 1)  BY <1>3 DEF SparedAt
<1>9. Spares(c, k + 1)  BY <1>2, <1>8, SparesOn DEF new
<1> QED  BY <1>5, <1>6, <1>7, <1>9 DEF BreakerInv

(* A failure is counted, and opens the breaker if it is one too many. *)
LEMMA FailureKeeps ==
    ASSUME NEW k \in Nat, NEW b, BreakerInv(b, k), NEW call \in AnyCall, NEW c \in AnyBreaker,
           Failing(b, call, c)
    PROVE  BreakerInv(c, k + 1)
<1> DEFINE new == c.log
           start == b.now + call.gap
           end == start + call.took
<1>1. PICK m \in Nat :
        /\ m = (IF b.opened = Unset THEN b.failures ELSE 0) + 1
        /\ c = [failures |-> m, opened |-> IF m >= Threshold THEN end ELSE Unset, now |-> end,
                log |-> Append(b.log, CallEntry("failed", b, call))]
  BY DEF Failing
<1>2. /\ c.failures = m /\ c.now = end /\ new = Append(b.log, CallEntry("failed", b, call))
      /\ c.opened = (IF m >= Threshold THEN end ELSE Unset)
  BY <1>1
<1>3. BeforeCall(b, k, call, "failed", new)  BY <1>2 DEF BeforeCall
<1>4. b.opened = Unset \/ start - b.opened >= Cooldown  BY DEF Failing
<1> DEFINE old == b.log
<1> HIDE DEF new
<1>5. /\ k + 1 \in Nat /\ Len(new) = k + 1
      /\ new[k + 1].outcome = "failed" /\ new[k + 1].start = start /\ new[k + 1].end = end
      /\ Threshold \in Nat /\ Threshold > 0 /\ Cooldown \in Nat
  BY <1>3, CallKnown
<1>6. /\ b.now \in Nat /\ b.failures \in Nat /\ (b.opened # Unset => b.opened \in Nat)
      /\ start \in Nat /\ end \in Nat /\ b.now <= start /\ start <= end
  BY <1>3, CallKnown
<1>7. \A x \in 1 .. k : new[x] = old[x] /\ new[x].start \in Nat /\ new[x].end \in Nat
  BY <1>3, CallKnown
<1>8. \A x \in 1 .. k + 1 : x \in 1 .. k \/ x = k + 1  OBVIOUS
<1>9. \A i \in 1 .. k : FailedAt(old, i) => old[i].end <= b.now
  BY DEF BreakerInv, Logged
<1>10. /\ b.opened = Unset => b.failures < Threshold
       /\ b.opened # Unset => \A i \in 1 .. k : FailedAt(old, i) => old[i].end <= b.opened
  BY DEF BreakerInv, Opening
<1>11. \A i \in 1 .. k : FailedAt(old, i) /\ NoAnswerIn(old, i, k) =>
          b.now - old[i].end >= Cooldown \/ FailuresIn(old, i, k) <= b.failures
  BY DEF BreakerInv, Remembers
<1> HIDE DEF old, start, end
<1>12. Unset \notin Int  BY TellingAssumption
<1>13. Logged(c, k + 1)
  <2>1. \A i \in 1 .. k + 1 : FailedAt(new, i) => new[i].end <= c.now
    <3> SUFFICES ASSUME NEW i \in 1 .. k + 1, FailedAt(new, i)  PROVE new[i].end <= end
      BY <1>2
    <3>1. CASE i = k + 1  BY <1>5, <1>6, <3>1
    <3>2. CASE i \in 1 .. k
      <4>1. new[i] = old[i] /\ new[i].end \in Nat /\ FailedAt(old, i)
        BY <1>7, <3>2 DEF FailedAt
      <4>2. old[i].end <= b.now  BY <1>9, <3>2, <4>1
      <4> QED  BY <1>6, <4>1, <4>2
    <3> QED  BY <1>8, <3>1, <3>2
  <2> QED  BY <1>5, <2>1 DEF Logged, new
<1>14. Opening(c, k + 1)
  <2>1. c.opened = Unset => c.failures < Threshold
    BY <1>2, <1>5, <1>6, <1>12
  <2>2. ASSUME c.opened # Unset
        PROVE  /\ \E i \in 1 .. k + 1 : FailedAt(new, i) /\ new[i].end = c.opened
               /\ \A i \in 1 .. k + 1 : FailedAt(new, i) => new[i].end <= c.opened
    <3>1. c.opened = end /\ c.now = end  BY <1>2, <2>2
    <3>2. k + 1 \in 1 .. k + 1 /\ FailedAt(new, k + 1) /\ new[k + 1].end = end
      BY <1>5 DEF FailedAt
    <3>3. \A i \in 1 .. k + 1 : FailedAt(new, i) => new[i].end <= c.now
      BY <1>13 DEF Logged, new
    <3> QED  BY <3>1, <3>2, <3>3
  <2> QED  BY <2>1, <2>2 DEF Opening, new
(* Of an earlier failure after which nothing was answered: a cooldown has  *)
(* passed since, or it is among those that are counted.                    *)
<1>15. ASSUME NEW i \in 1 .. k, FailedAt(new, i), NoAnswerIn(new, i, k)
       PROVE  /\ FailuresIn(new, i, k + 1) \in Nat
              /\ \/ start - new[i].end >= Cooldown
                 \/ b.opened = Unset /\ FailuresIn(new, i, k + 1) <= b.failures + 1
  <2>1. new[i] = old[i] /\ new[i].end \in Nat  BY <1>7
  <2>2. FailedAt(old, i) /\ NoAnswerIn(old, i, k)
    BY <1>7, <1>15 DEF FailedAt, NoAnswerIn
  <2>3. b.now - old[i].end >= Cooldown \/ FailuresIn(old, i, k) <= b.failures
    BY <1>11, <2>2
  <2>4. FailuresIn(new, i, k + 1) = FailuresIn(old, i, k) + 1 /\ FailuresIn(old, i, k) \in Nat
    <3>1. i \in 1 .. k + 1 /\ k \in 0 .. k /\ \A x \in 1 .. k : new[x] = old[x]
      BY <1>7
    <3>2. Recounted(old, new, k, i)  BY <3>1, FailureCounted, Zenon
    <3> QED  BY <1>5, <3>1, <3>2, Zenon DEF Recounted
  <2>5. CASE b.now - old[i].end >= Cooldown
    <3>1. start - new[i].end >= Cooldown  BY <1>5, <1>6, <2>1, <2>5
    <3>2. FailuresIn(new, i, k + 1) \in Nat  BY <2>4
    <3> QED  BY <3>1, <3>2
  <2>6. CASE b.opened # Unset
    <3>1. old[i].end <= b.opened /\ start - b.opened >= Cooldown /\ b.opened \in Nat
      BY <1>4, <1>6, <1>10, <2>2, <2>6
    <3>2. \A x, y, z, d \in Nat : x <= y /\ z - y >= d => z - x >= d  OBVIOUS
    <3>3. Cooldown \in Nat /\ start \in Nat  BY <1>5, <1>6
    <3>4. old[i].end \in Nat  BY <2>1
    <3>5. start - old[i].end >= Cooldown  BY <3>1, <3>2, <3>3, <3>4, Zenon
    <3>6. FailuresIn(new, i, k + 1) \in Nat  BY <2>4
    <3> QED  BY <2>1, <3>5, <3>6, Zenon
  <2>7. CASE b.opened = Unset /\ FailuresIn(old, i, k) <= b.failures
    <3>1. FailuresIn(new, i, k + 1) \in Nat /\ FailuresIn(new, i, k + 1) <= b.failures + 1
      BY <1>6, <2>4, <2>7
    <3> QED  BY <2>7, <3>1
  <2> QED  BY <2>3, <2>5, <2>6, <2>7
<1>16. Remembers(c, k + 1)
  <2> SUFFICES ASSUME NEW i \in 1 .. k + 1, FailedAt(new, i), NoAnswerIn(new, i, k + 1)
               PROVE  c.now - new[i].end >= Cooldown \/ FailuresIn(new, i, k + 1) <= c.failures
    BY DEF Remembers, new
  <2>1. CASE i \in 1 .. k
    <3>1. NoAnswerIn(new, i, k)  BY <2>1 DEF NoAnswerIn
    <3>2. /\ FailuresIn(new, i, k + 1) \in Nat
          /\ \/ start - new[i].end >= Cooldown
             \/ b.opened = Unset /\ FailuresIn(new, i, k + 1) <= b.failures + 1
      BY <1>15, <2>1, <3>1
    <3>3. CASE start - new[i].end >= Cooldown
      <4>1. new[i].end \in Nat /\ c.now = end  BY <1>2, <1>7, <2>1
      <4> QED  BY <1>5, <1>6, <3>3, <4>1
    <3>4. CASE b.opened = Unset /\ FailuresIn(new, i, k + 1) <= b.failures + 1
      <4>1. c.failures = b.failures + 1  BY <1>1, <1>2, <3>4
      <4> QED  BY <3>4, <4>1
    <3> QED  BY <3>2, <3>3, <3>4
  <2>2. CASE i = k + 1
    <3>1. {x \in i .. k + 1 : new[x].outcome = "failed"} = {k + 1}
      BY <1>5, <2>2
    <3>2. FailuresIn(new, i, k + 1) = 1
      BY <3>1, FS_Singleton DEF FailuresIn
    <3>3. c.failures \in Nat /\ 1 <= c.failures
      BY <1>1, <1>2, <1>6
    <3> QED  BY <3>2, <3>3
  <2> QED  BY <1>8, <2>1, <2>2
<1>17. SparedAt(new, k + 1)
  <2>1. ASSUME NEW i \in 1 .. k, new[i].outcome = "failed", NoAnswerIn(new, i, k + 1),
               FailuresIn(new, i, k + 1) > Threshold
        PROVE  new[k + 1].start - new[i].end >= Cooldown
    <3>1. NoAnswerIn(new, i, k)  BY <2>1 DEF NoAnswerIn
    <3>2. /\ FailuresIn(new, i, k + 1) \in Nat
          /\ \/ start - new[i].end >= Cooldown
             \/ b.opened = Unset /\ FailuresIn(new, i, k + 1) <= b.failures + 1
      BY <1>15, <2>1, <3>1 DEF FailedAt
    <3>3. ~(b.opened = Unset /\ FailuresIn(new, i, k + 1) <= b.failures + 1)
      <4> SUFFICES ASSUME b.opened = Unset, FailuresIn(new, i, k + 1) <= b.failures + 1
                   PROVE  FALSE
        OBVIOUS
      <4>1. b.failures < Threshold  BY <1>10
      <4> QED  BY <1>5, <1>6, <2>1, <3>2, <4>1
    <3> QED  BY <1>5, <3>2, <3>3
  <2>2. 1 .. (k + 1) - 1 = 1 .. k  OBVIOUS
  <2>3. new[k + 1].outcome # "refused"  BY <1>5
  <2> QED  BY <2>1, <2>2, <2>3 DEF SparedAt
<1>18. Spares(c, k + 1)  BY <1>3, <1>17, SparesOn DEF new
<1> QED  BY <1>13, <1>14, <1>16, <1>18 DEF BreakerInv

(* For every sequence of calls, every threshold and every cooldown: a call *)
(* is refused only within the cooldown after one that failed, and more     *)
(* failures in a row than open the breaker take at least a cooldown        *)
(* (CircuitBreaker of services/ai/client.py).                              *)
THEOREM BreakerIsSound ==
    ASSUME NEW n \in Nat, NEW calls \in [1 .. n -> AnyCall]
    PROVE  /\ Len(Consulted(calls)) = n
           /\ \A j \in 1 .. n : SparedAt(Consulted(calls), j)
<1>1. PICK st \in [0 .. n -> AnyBreaker] :
        /\ st[0] = FreshBreaker
        /\ \A k \in 1 .. n : st[k] = Called(st[k - 1], calls[k])
        /\ Consulted(calls) = st[n].log
  BY ConsultedIs
<1> DEFINE T == {k \in Nat : k <= n => BreakerInv(st[k], k)}
<1>2. T = Nat
  <2>1. T \in SUBSET Nat /\ 0 \in T  BY <1>1, FreshInv
  <2>2. ASSUME NEW k \in T  PROVE k + 1 \in T
    <3> SUFFICES ASSUME k + 1 <= n  PROVE BreakerInv(st[k + 1], k + 1)  OBVIOUS
    <3>1. k \in Nat /\ k <= n /\ BreakerInv(st[k], k)  OBVIOUS
    <3>2. k + 1 \in 1 .. n /\ (k + 1) - 1 = k /\ k \in 0 .. n  BY <3>1
    <3>3. st[k + 1] = Called(st[k], calls[k + 1])
      <4>1. st[k + 1] = Called(st[(k + 1) - 1], calls[k + 1])  BY <1>1, <3>2
      <4> QED  BY <3>2, <4>1
    <3>4. calls[k + 1] \in AnyCall /\ st[k] \in AnyBreaker /\ st[k + 1] \in AnyBreaker
      BY <3>2
    <3> DEFINE b == st[k]
               c == st[k + 1]
               call == calls[k + 1]
    <3>5. Refusal(b, call, c) \/ Answering(b, call, c) \/ Failing(b, call, c)
      BY <3>3, <3>4, CalledIs
    <3>6. k \in Nat /\ BreakerInv(b, k) /\ call \in AnyCall /\ c \in AnyBreaker
      BY <3>1, <3>4
    <3> HIDE DEF b, c, call
    <3>7. BreakerInv(c, k + 1)
      BY <3>5, <3>6, RefusalKeeps, AnswerKeeps, FailureKeeps
    <3> QED  BY <3>7 DEF c
  <2> HIDE DEF T
  <2> QED  BY <2>1, <2>2, AllNaturals
<1>3. BreakerInv(st[n], n)  BY <1>2
<1> QED  BY <1>1, <1>3 DEF BreakerInv, Logged, Spares

-----------------------------------------------------------------------------
(***************************************************************************)
(* What a model is asked of.                                               *)
(***************************************************************************)

(* A charge whose category the rules know or do not, and what has been     *)
(* made of the charges so far.                                             *)
AnyPurchase(Merchants, Slugs) ==
    {c \in [merchant : Merchants, known : Slugs \cup {"none"}, reply : Slugs,
            own : SUBSET Slugs, forgets : BOOLEAN] : c.known \in c.own \cup {"none"}}
Placement(Slugs) == [asked : BOOLEAN, category : Slugs \cup {"none"}]
Memories(Merchants, Slugs) == UNION {[D -> Slugs] : D \in SUBSET Merchants}
Placing(Merchants, Slugs) ==
    [memory : Memories(Merchants, Slugs), log : Seq(Placement(Slugs))]
FreshPlacing == [memory |-> <<>>, log |-> <<>>]

(* What a charge finds remembered, and what is remembered after it. *)
Recalled(p, charge) == IF charge.forgets THEN {} ELSE DOMAIN p.memory
Asks(p, charge) == charge.known = "none" /\ charge.merchant \notin Recalled(p, charge)
Usable(charge) == charge.reply \in charge.own

(* Nothing is remembered at first. *)
LEMMA NothingRemembered ==
    ASSUME NEW Merchants, NEW Slugs
    PROVE  /\ <<>> \in Memories(Merchants, Slugs) /\ DOMAIN <<>> = {}
           /\ FreshPlacing \in Placing(Merchants, Slugs)
<1>1. <<>> \in Seq(Slugs) /\ <<>> \in Seq(Placement(Slugs)) /\ Len(<<>>) = 0  OBVIOUS
<1>2. <<>> \in [1 .. 0 -> Slugs] /\ DOMAIN <<>> = 1 .. 0  BY <1>1
<1>3. 1 .. 0 = {}  OBVIOUS
<1>4. <<>> \in [{} -> Slugs]  BY <1>2, <1>3
<1>5. <<>> \in Memories(Merchants, Slugs)
  <2>1. {} \in SUBSET Merchants  OBVIOUS
  <2> QED  BY <1>4, <2>1 DEF Memories
<1> QED  BY <1>1, <1>2, <1>3, <1>5 DEF FreshPlacing, Placing

(* What a charge makes of what is remembered and of the log. *)
LEMMA PlacedIs ==
    ASSUME NEW Merchants, NEW Slugs, NEW p \in Placing(Merchants, Slugs),
           NEW charge \in AnyPurchase(Merchants, Slugs)
    PROVE  LET new == Placed(p, charge)
           IN /\ new \in Placing(Merchants, Slugs)
              /\ DOMAIN new.memory = Recalled(p, charge)
                    \cup {m \in {charge.merchant} : Asks(p, charge) /\ Usable(charge)}
              /\ \E entry \in Placement(Slugs) :
                    /\ new.log = Append(p.log, entry)
                    /\ entry.asked = Asks(p, charge)
                    /\ entry.category \in charge.own \cup {"none"}
                    /\ charge.known # "none" => entry.category = charge.known
<1> DEFINE memory == IF charge.forgets THEN <<>> ELSE p.memory
           remembered == charge.merchant \in DOMAIN memory
           slug == IF remembered THEN memory[charge.merchant] ELSE charge.reply
           entry == [asked |-> charge.known = "none" /\ ~remembered,
                     category |-> IF charge.known # "none" THEN charge.known
                                  ELSE IF slug \in charge.own THEN slug ELSE "none"]
           grown == [m \in DOMAIN memory \cup {charge.merchant} |->
                        IF m = charge.merchant THEN charge.reply ELSE memory[m]]
           kept == IF (charge.known = "none" /\ ~remembered) /\ Usable(charge) THEN grown ELSE memory
<1>1. /\ charge.merchant \in Merchants /\ charge.known \in Slugs \cup {"none"}
      /\ charge.reply \in Slugs /\ charge.own \in SUBSET Slugs
      /\ charge.known \in charge.own \cup {"none"}
  BY DEF AnyPurchase
<1>2. p.memory \in Memories(Merchants, Slugs) /\ p.log \in Seq(Placement(Slugs))
  BY DEF Placing
<1>3. memory \in Memories(Merchants, Slugs) /\ DOMAIN memory = Recalled(p, charge)
  BY <1>2, NothingRemembered DEF Recalled
<1>4. PICK D \in SUBSET Merchants : memory \in [D -> Slugs] /\ D = Recalled(p, charge)
  BY <1>3 DEF Memories
<1>5. Placed(p, charge) = [memory |-> kept, log |-> Append(p.log, entry)]
  BY Zenon DEF Placed, Usable
<1> HIDE DEF memory
<1>6. remembered <=> charge.merchant \in Recalled(p, charge)  BY <1>3
<1>7. entry \in Placement(Slugs)
  <2>1. slug \in Slugs  BY <1>1, <1>4
  <2> HIDE DEF slug, remembered
  <2> QED  BY <1>1, <2>1 DEF Placement
<1>8. /\ entry.asked = Asks(p, charge)
      /\ entry.category \in charge.own \cup {"none"}
      /\ charge.known # "none" => entry.category = charge.known
  <2> HIDE DEF slug, remembered
  <2> QED  BY <1>1, <1>6 DEF Asks
<1>9. kept \in Memories(Merchants, Slugs)
      /\ DOMAIN kept = Recalled(p, charge)
            \cup {m \in {charge.merchant} : Asks(p, charge) /\ Usable(charge)}
  <2>1. CASE Asks(p, charge) /\ Usable(charge)
    <3>1. kept = grown  BY <1>6, <2>1 DEF Asks
    <3>2. D \cup {charge.merchant} \in SUBSET Merchants  BY <1>1
    <3>3. DOMAIN memory = D  BY <1>4
    <3>4. grown \in [D \cup {charge.merchant} -> Slugs]  BY <1>1, <1>4, <3>3
    <3> QED  BY <1>4, <2>1, <3>1, <3>2, <3>3, <3>4 DEF Memories
  <2>2. CASE ~(Asks(p, charge) /\ Usable(charge))
    <3>1. kept = memory  BY <1>6, <2>2 DEF Asks
    <3> QED  BY <1>3, <2>2, <3>1
  <2> QED  BY <2>1, <2>2
<1> HIDE DEF kept, entry
<1>10. Append(p.log, entry) \in Seq(Placement(Slugs))  BY <1>2, <1>7
<1> QED  BY <1>5, <1>7, <1>8, <1>9, <1>10 DEF Placing

(* st[k] is what is made of the first k charges. *)
PlacingSteps(n, charges, st) ==
    /\ st[0] = FreshPlacing
    /\ \A k \in 1 .. n : st[k] = Placed(st[k - 1], charges[k])
    /\ PlacedAll(charges) = st[n].log

(* What is made of charges, charge by charge. *)
LEMMA PlacedAllIs ==
    ASSUME NEW Merchants, NEW Slugs,
           NEW n \in Nat, NEW charges \in [1 .. n -> AnyPurchase(Merchants, Slugs)]
    PROVE  \E st \in [0 .. n -> Placing(Merchants, Slugs)] : PlacingSteps(n, charges, st)
<1> DEFINE P == Placing(Merchants, Slugs)
           C == AnyPurchase(Merchants, Slugs)
           step == [k \in 1 .. n |-> [p \in P |-> Placed(p, charges[k])]]
           Right(g) == g = [s \in SUBSET (1 .. n) |->
                              IF s = {} THEN FreshPlacing
                              ELSE Placed(g[s \ {Max(s)}], charges[Max(s)])]
           h == CHOOSE g : Right(g)
<1>1. FreshPlacing \in P  BY NothingRemembered
<1>2. \A p \in P, c \in C : Placed(p, c) \in P  BY PlacedIs
<1> HIDE DEF P, C
<1>3. charges \in [1 .. n -> C]  BY DEF C
<1>4. step \in [1 .. n -> [P -> P]]  BY <1>2, <1>3
<1>5. PICK w \in [SUBSET (1 .. n) -> P] : Walks(w, FreshPlacing, step, SUBSET (1 .. n))
  <2> HIDE DEF step
  <2> QED  BY <1>1, <1>4, WalkExists
<1>6. Right(w)
  <2>1. ASSUME NEW s \in SUBSET (1 .. n), s # {}
        PROVE  step[Max(s)][w[s \ {Max(s)}]] = Placed(w[s \ {Max(s)}], charges[Max(s)])
    <3>1. Max(s) \in 1 .. n  BY <2>1, GreatestOfPart
    <3>2. w[s \ {Max(s)}] \in P  OBVIOUS
    <3> QED  BY <3>1, <3>2
  <2> HIDE DEF step
  <2>2. w = [s \in SUBSET (1 .. n) |->
               IF s = {} THEN FreshPlacing ELSE step[Max(s)][w[s \ {Max(s)}]]]
    BY <1>5 DEF Walks
  <2> QED  BY <2>1, <2>2
<1>7. Right(h)
  <2> HIDE DEF Right
  <2> QED  BY <1>6, Zenon
<1>8. PlacedAll(charges) = h[1 .. n].log
  <2>1. DOMAIN charges = 1 .. n  BY <1>3
  <2>2. PlacedAll(charges) =
          (CHOOSE g : g = [s \in SUBSET DOMAIN charges |->
                             IF s = {} THEN FreshPlacing
                             ELSE Placed(g[s \ {Max(s)}], charges[Max(s)])])[DOMAIN charges].log
    BY DEF PlacedAll, FoldLeft, MapThenFoldSet, FreshPlacing
  <2> QED  BY <2>1, <2>2, Zenon
<1> HIDE DEF h
<1>9. h[{}] = FreshPlacing
  <2>1. {} \in SUBSET (1 .. n)  OBVIOUS
  <2> QED  BY <1>7, <2>1
<1>10. \A k \in 1 .. n : h[1 .. k] = Placed(h[1 .. k - 1], charges[k])
  <2> SUFFICES ASSUME NEW k \in 1 .. n  PROVE h[1 .. k] = Placed(h[1 .. k - 1], charges[k])
    OBVIOUS
  <2>1. 1 .. k \in SUBSET (1 .. n) /\ 1 .. k # {} /\ k \in Nat \ {0}  BY FirstPart
  <2>2. Max(1 .. k) = k /\ (1 .. k) \ {k} = 1 .. k - 1  BY <2>1, GreatestOfFirst
  <2>3. h[1 .. k] = Placed(h[(1 .. k) \ {Max(1 .. k)}], charges[Max(1 .. k)])
    BY <1>7, <2>1
  <2> QED  BY <2>2, <2>3, Zenon
<1> DEFINE T == {k \in Nat : k <= n => h[1 .. k] \in P}
<1>11. T = Nat
  <2>1. 1 .. 0 = {}  OBVIOUS
  <2>2. T \in SUBSET Nat /\ 0 \in T  BY <1>1, <1>9, <2>1
  <2>3. ASSUME NEW k \in T  PROVE k + 1 \in T
    <3> SUFFICES ASSUME k + 1 <= n  PROVE h[1 .. k + 1] \in P  OBVIOUS
    <3>1. k \in Nat /\ k <= n /\ h[1 .. k] \in P  OBVIOUS
    <3>2. k + 1 \in 1 .. n /\ (k + 1) - 1 = k  BY <3>1
    <3>3. h[1 .. k + 1] = Placed(h[1 .. k], charges[k + 1])
      <4>1. h[1 .. k + 1] = Placed(h[1 .. (k + 1) - 1], charges[k + 1])  BY <1>10, <3>2
      <4> QED  BY <3>2, <4>1
    <3>4. charges[k + 1] \in C  BY <1>3, <3>2
    <3> QED  BY <1>2, <3>1, <3>3, <3>4
  <2> HIDE DEF T
  <2> QED  BY <2>2, <2>3, AllNaturals
<1> DEFINE st == [k \in 0 .. n |-> h[1 .. k]]
<1>12. st \in [0 .. n -> P]
  <2>1. \A k \in 0 .. n : h[1 .. k] \in P  BY <1>11
  <2> QED  BY <2>1
<1>13. st[0] = FreshPlacing
  <2>1. 1 .. 0 = {}  OBVIOUS
  <2> QED  BY <1>9, <2>1
<1>14. \A k \in 1 .. n : st[k] = Placed(st[k - 1], charges[k])
  <2>1. \A k \in 1 .. n : k - 1 \in 0 .. n /\ k \in 0 .. n  OBVIOUS
  <2> QED  BY <1>10, <2>1
<1>15. st[n] = h[1 .. n]  OBVIOUS
<1> HIDE DEF st
<1>16. PlacingSteps(n, charges, st)  BY <1>8, <1>13, <1>14, <1>15 DEF PlacingSteps
<1> QED  BY <1>12, <1>16 DEF P

(* The j-th charge is placed as ModelIsLastResort says, among charges of   *)
(* any merchants.                                                          *)
PlacedWell(charges, log, j) ==
    LET Same(i) == charges[i].merchant = charges[j].merchant
    IN /\ charges[j].known # "none" => log[j].category = charges[j].known /\ ~log[j].asked
       /\ log[j].category \in charges[j].own \cup {"none"}
       /\ log[j].asked =>
            \A i \in 1 .. j - 1 : log[i].asked /\ Same(i) =>
                ~Usable(charges[i]) \/ \E k \in i + 1 .. j : charges[k].forgets
       /\ charges[j].known = "none" /\ ~log[j].asked =>
            \E i \in 1 .. j - 1 : log[i].asked /\ Same(i) /\ Usable(charges[i])

(* After k charges: what is remembered was asked and of use, and what was  *)
(* asked, of use and not forgotten is remembered.                          *)
PlacingInv(charges, p, k) ==
    /\ Len(p.log) = k
    /\ \A j \in 1 .. k : PlacedWell(charges, p.log, j)
    /\ \A m \in DOMAIN p.memory : \E i \in 1 .. k :
            p.log[i].asked /\ charges[i].merchant = m /\ Usable(charges[i])
    /\ \A i \in 1 .. k :
            \/ ~p.log[i].asked \/ ~Usable(charges[i])
            \/ \E x \in i + 1 .. k : charges[x].forgets
            \/ charges[i].merchant \in DOMAIN p.memory

(* How a charge is placed does not change with those after it. *)
LEMMA PlacedStays ==
    ASSUME NEW charges, NEW k \in Nat, NEW log, NEW new,
           \A i \in 1 .. k : new[i] = log[i],
           NEW j \in 1 .. k, PlacedWell(charges, log, j)
    PROVE  PlacedWell(charges, new, j)
<1>1. j \in 1 .. k /\ \A i \in 1 .. j - 1 : i \in 1 .. k  OBVIOUS
<1>2. new[j] = log[j] /\ \A i \in 1 .. j - 1 : new[i] = log[i]  BY <1>1
<1> QED  BY <1>2 DEF PlacedWell

(* One more charge keeps the invariant. *)
LEMMA PlacingKeeps ==
    ASSUME NEW Merchants, NEW Slugs, NEW k \in Nat, NEW charges,
           NEW p \in Placing(Merchants, Slugs), PlacingInv(charges, p, k),
           charges[k + 1] \in AnyPurchase(Merchants, Slugs)
    PROVE  PlacingInv(charges, Placed(p, charges[k + 1]), k + 1)
<1> DEFINE charge == charges[k + 1]
           new == Placed(p, charge)
           now == new.log
           old == p.log
<1>1. PICK entry \in Placement(Slugs) :
        /\ now = Append(old, entry)
        /\ entry.asked = Asks(p, charge)
        /\ entry.category \in charge.own \cup {"none"}
        /\ charge.known # "none" => entry.category = charge.known
  BY PlacedIs
<1>2. DOMAIN new.memory = Recalled(p, charge)
        \cup {m \in {charge.merchant} : Asks(p, charge) /\ Usable(charge)}
  BY PlacedIs
<1>3. /\ Len(old) = k /\ \A j \in 1 .. k : PlacedWell(charges, old, j)
      /\ \A m \in DOMAIN p.memory : \E i \in 1 .. k :
            old[i].asked /\ charges[i].merchant = m /\ Usable(charges[i])
      /\ \A i \in 1 .. k :
            \/ ~old[i].asked \/ ~Usable(charges[i])
            \/ \E x \in i + 1 .. k : charges[x].forgets
            \/ charges[i].merchant \in DOMAIN p.memory
  BY DEF PlacingInv
<1>4. old \in Seq(Placement(Slugs)) /\ entry.asked \in BOOLEAN  BY DEF Placing, Placement
<1> HIDE DEF old
<1>5. /\ Len(now) = k + 1 /\ now[k + 1] = entry
      /\ \A i \in 1 .. k : now[i] = old[i]
  BY <1>1, <1>3, <1>4, EntryAdded
<1>6. Recalled(p, charge) \subseteq DOMAIN p.memory
      /\ (~charge.forgets => Recalled(p, charge) = DOMAIN p.memory)
  BY DEF Recalled
<1> HIDE DEF charge, new, now
<1>7. \A i \in 1 .. k + 1 : i \in 1 .. k \/ i = k + 1  OBVIOUS
<1>8. k + 1 \in 1 .. k + 1 /\ (k + 1) - 1 = k /\ \A i \in 1 .. k : i \in 1 .. k + 1
  OBVIOUS
<1>9. PlacedWell(charges, now, k + 1)
  <2>1. charge.known # "none" => entry.category = charge.known /\ ~entry.asked
    BY <1>1 DEF Asks
  <2>2. ASSUME entry.asked, NEW i \in 1 .. k, old[i].asked, charges[i].merchant = charge.merchant,
               Usable(charges[i]), \A x \in i + 1 .. k + 1 : ~charges[x].forgets
        PROVE  FALSE
    <3>1. charge.merchant \notin Recalled(p, charge)  BY <1>1, <2>2 DEF Asks
    <3>2. k + 1 \in i + 1 .. k + 1 /\ \A x \in i + 1 .. k : x \in i + 1 .. k + 1  OBVIOUS
    <3>3. ~charge.forgets  BY <2>2, <3>2 DEF charge
    <3>4. charge.merchant \in DOMAIN p.memory  BY <1>3, <2>2, <3>2
    <3> QED  BY <1>6, <3>1, <3>3, <3>4
  <2>3. ASSUME charge.known = "none", ~entry.asked
        PROVE  \E i \in 1 .. k : old[i].asked /\ charges[i].merchant = charge.merchant
                                  /\ Usable(charges[i])
    <3>1. charge.merchant \in Recalled(p, charge)  BY <1>1, <2>3 DEF Asks
    <3> QED  BY <1>3, <1>6, <3>1
  <2> QED  BY <1>1, <1>5, <1>8, <2>1, <2>2, <2>3 DEF PlacedWell, charge
<1>10. \A j \in 1 .. k + 1 : PlacedWell(charges, now, j)
  <2>1. \A j \in 1 .. k : PlacedWell(charges, now, j)  BY <1>3, <1>5, PlacedStays
  <2> QED  BY <1>7, <1>9, <2>1
<1>11. ASSUME NEW m \in DOMAIN new.memory
       PROVE  \E i \in 1 .. k + 1 : now[i].asked /\ charges[i].merchant = m /\ Usable(charges[i])
  <2>1. CASE m \in Recalled(p, charge)
    <3>1. PICK i \in 1 .. k : old[i].asked /\ charges[i].merchant = m /\ Usable(charges[i])
      BY <1>3, <1>6, <2>1
    <3> QED  BY <1>5, <1>8, <3>1
  <2>2. CASE m = charge.merchant /\ Asks(p, charge) /\ Usable(charge)
    BY <1>1, <1>5, <1>8, <2>2 DEF charge
  <2> QED  BY <1>2, <2>1, <2>2
<1>12. ASSUME NEW i \in 1 .. k + 1, now[i].asked, Usable(charges[i]),
              \A x \in i + 1 .. k + 1 : ~charges[x].forgets
       PROVE  charges[i].merchant \in DOMAIN new.memory
  <2>1. CASE i \in 1 .. k
    <3>1. k + 1 \in i + 1 .. k + 1 /\ \A x \in i + 1 .. k : x \in i + 1 .. k + 1  BY <2>1
    <3>2. ~charge.forgets /\ old[i].asked  BY <1>5, <1>12, <2>1, <3>1 DEF charge
    <3>3. charges[i].merchant \in DOMAIN p.memory  BY <1>3, <1>12, <2>1, <3>1, <3>2
    <3> QED  BY <1>2, <1>6, <3>2, <3>3
  <2>2. CASE i = k + 1
    <3>1. Asks(p, charge) /\ Usable(charge)  BY <1>1, <1>5, <1>12, <2>2 DEF charge
    <3> QED  BY <1>2, <2>2, <3>1 DEF charge
  <2> QED  BY <1>7, <2>1, <2>2
<1> QED  BY <1>5, <1>10, <1>11, <1>12 DEF PlacingInv, now, new, charge

(* For every sequence of charges of any merchants: what the rules say      *)
(* stands, a model's category is one the account has, a merchant is sent   *)
(* again only if no reply about it was of use since all was forgotten, and *)
(* spared only if one was (LLMCategorizer of services/ai/categorizer.py).  *)
THEOREM ModelIsAskedLast ==
    ASSUME NEW Merchants, NEW Slugs,
           NEW n \in Nat, NEW charges \in [1 .. n -> AnyPurchase(Merchants, Slugs)]
    PROVE  /\ Len(PlacedAll(charges)) = n
           /\ \A j \in 1 .. n : PlacedWell(charges, PlacedAll(charges), j)
<1>0. n \in Nat /\ charges \in [1 .. n -> AnyPurchase(Merchants, Slugs)]  OBVIOUS
<1>1. PICK st \in [0 .. n -> Placing(Merchants, Slugs)] : PlacingSteps(n, charges, st)
  BY <1>0, PlacedAllIs
<1> DEFINE T == {k \in Nat : k <= n => PlacingInv(charges, st[k], k)}
<1>2. T = Nat
  <2>1. PlacingInv(charges, FreshPlacing, 0)
    <3>1. FreshPlacing.log = <<>> /\ FreshPlacing.memory = <<>> /\ Len(<<>>) = 0
      BY DEF FreshPlacing
    <3>2. DOMAIN FreshPlacing.memory = {}  BY <3>1, NothingRemembered
    <3>3. 1 .. 0 = {}  OBVIOUS
    <3> QED  BY <3>1, <3>2, <3>3 DEF PlacingInv
  <2>2. T \in SUBSET Nat /\ 0 \in T  BY <1>1, <2>1 DEF PlacingSteps
  <2>3. ASSUME NEW k \in T  PROVE k + 1 \in T
    <3> SUFFICES ASSUME k + 1 <= n  PROVE PlacingInv(charges, st[k + 1], k + 1)  OBVIOUS
    <3>1. k \in Nat /\ k <= n /\ PlacingInv(charges, st[k], k)  OBVIOUS
    <3>2. k + 1 \in 1 .. n /\ (k + 1) - 1 = k /\ k \in 0 .. n  BY <3>1
    <3>3. st[k + 1] = Placed(st[k], charges[k + 1])
      <4>1. st[k + 1] = Placed(st[(k + 1) - 1], charges[k + 1])  BY <1>1, <3>2 DEF PlacingSteps
      <4> QED  BY <3>2, <4>1
    <3>4. charges[k + 1] \in AnyPurchase(Merchants, Slugs) /\ st[k] \in Placing(Merchants, Slugs)  BY <3>2
    <3> QED  BY <3>1, <3>3, <3>4, PlacingKeeps
  <2> HIDE DEF T
  <2> QED  BY <2>2, <2>3, AllNaturals
<1>3. PlacingInv(charges, st[n], n)  BY <1>2
<1> QED  BY <1>1, <1>3 DEF PlacingInv, PlacingSteps

-----------------------------------------------------------------------------
(***************************************************************************)
(* What a question names.                                                  *)
(***************************************************************************)

(* For every question, vocabulary and list of merchants: a phrase inside   *)
(* their joined names, as words or not, never filters by a category on its *)
(* own; and where no category is named both inside and outside of them,    *)
(* what is filtered by does not depend on which phrase is tried first      *)
(* (_match_categories of planner_rules.py).                                *)
THEOREM NamesAreSettled ==
    ASSUME NEW question, NEW named, NEW categories, NEW inside
    PROVE  LET claimed == inside[FlattenSeq(named)]
               Hits(c) == {phrase \in categories[c] : Found(phrase, question)}
               outcomes == NamedCategories(question, named, categories, inside)
               Split(c) == Hits(c) \cap claimed # {} /\ Hits(c) \ claimed # {}
           IN /\ Cardinality(outcomes) = 1 \/ \E c \in DOMAIN categories : Split(c)
              /\ \A outcome \in outcomes : \A c \in outcome : Hits(c) \ claimed # {}
<1> DEFINE claimed == inside[FlattenSeq(named)]
           Hits(c) == {phrase \in categories[c] : Found(phrase, question)}
           outcomes == NamedCategories(question, named, categories, inside)
           hit == {c \in DOMAIN categories : Hits(c) # {}}
           choices == {f \in [hit -> UNION Range(categories)] : \A c \in hit : f[c] \in Hits(c)}
           Kept(f) == {c \in hit : f[c] \notin claimed}
           Split(c) == Hits(c) \cap claimed # {} /\ Hits(c) \ claimed # {}
<1> HIDE DEF claimed
<1>0. \A c : Hits(c) \in SUBSET categories[c]  OBVIOUS
<1>1. outcomes = {Kept(f) : f \in choices}  BY Zenon DEF NamedCategories, claimed
<1> HIDE DEF Hits
<1>2. ASSUME NEW f \in choices, NEW c \in Kept(f)
      PROVE  Hits(c) \ claimed # {}
  <2>1. f[c] \in Hits(c) /\ f[c] \notin claimed  BY <1>2
  <2> QED  BY <2>1
<1>3. ASSUME \A c \in DOMAIN categories : ~Split(c)
      PROVE  Cardinality(outcomes) = 1
  <2> DEFINE first == [c \in hit |-> CHOOSE phrase \in Hits(c) : TRUE]
             free == {c \in hit : Hits(c) \ claimed # {}}
  <2>1. first \in choices
    <3>1. ASSUME NEW c \in hit
          PROVE  /\ first[c] \in Hits(c)
                 /\ first[c] \in UNION Range(categories)
      <4>1. Hits(c) # {} /\ c \in DOMAIN categories  OBVIOUS
      <4>2. first[c] \in Hits(c)  BY <4>1
      <4>3. categories[c] \in Range(categories)  BY <4>1 DEF Range
      <4> QED  BY <1>0, <4>2, <4>3
    <3> HIDE DEF hit
    <3>2. first \in [hit -> UNION Range(categories)]  BY <3>1
    <3> HIDE DEF first
    <3> QED  BY <3>1, <3>2
  <2>2. ASSUME NEW f \in choices  PROVE Kept(f) = free
    <3>1. \A c \in hit : c \in DOMAIN categories /\ f[c] \in Hits(c)  OBVIOUS
    <3>2. ASSUME NEW c \in hit  PROVE f[c] \notin claimed <=> Hits(c) \ claimed # {}
      <4>1. f[c] \in Hits(c) /\ ~Split(c)  BY <1>3, <3>1
      <4>2. CASE f[c] \in claimed
        <5>1. f[c] \in Hits(c) \cap claimed  BY <4>1, <4>2
        <5>2. Hits(c) \ claimed = {}  BY <4>1, <5>1
        <5> QED  BY <4>2, <5>2
      <4>3. CASE f[c] \notin claimed  BY <4>1, <4>3
      <4> QED  BY <1>0, <4>2, <4>3
    <3> HIDE DEF hit
    <3> QED  BY <3>2
  <2> HIDE DEF free, first, choices, Kept
  <2>3. {Kept(f) : f \in choices} = {free}  BY <2>1, <2>2
  <2> QED  BY <1>1, <2>3, FS_Singleton
<1>4. \A outcome \in outcomes : \A c \in outcome : Hits(c) \ claimed # {}
  <2> HIDE DEF choices, Kept, outcomes
  <2> QED  BY <1>1, <1>2
<1>5. Cardinality(outcomes) = 1 \/ \E c \in DOMAIN categories : Split(c)
  <2> HIDE DEF Split, outcomes
  <2> QED  BY <1>3
<1> QED  BY <1>4, <1>5, Zenon DEF claimed, Hits

-----------------------------------------------------------------------------
(***************************************************************************)
(* Plans that can be read again.                                           *)
(***************************************************************************)

AnyKey == {"group_by_merchant", "group_by_category", "compare_previous_period", "monthly_trend",
           "widen_to_year", "show_transactions", "only_category", "only_merchant"}
Intents == {"total", "comparison", "breakdown", "top_n", "trend", "search", "recurring"}
Groupings == {"none", "category", "merchant", "month", "week"}
Metrics == {"sum", "avg", "count", "max", "min"}
AnyPlan(Periods, Names) ==
    [intent : Intents, group : Groupings, direction : {"spend", "income", "net"},
     period : Periods \cup {NoPeriod}, baseline : Periods \cup {NoPeriod},
     categories : SUBSET Names, merchants : SUBSET Names, text : BOOLEAN, transfers : BOOLEAN,
     metric : Metrics, byTime : BOOLEAN, limit : Nat]

(* For every plan that the validator accepts: it accepts every follow-up,  *)
(* unless an ungrouped comparison is widened, or there is no period before *)
(* to compare with (refine.py and the validator of AnalysisPlan).          *)
THEOREM FollowUpsAreReadable ==
    ASSUME NEW Periods, NEW Names, NEW plan \in AnyPlan(Periods, Names), Coherent(plan),
           NEW key \in AnyKey, ~LosesBaseline(plan, key),
           key = "compare_previous_period" => PreviousPeriod(plan.period) # NoPeriod
    PROVE  Coherent(Refined(plan, key))
<1> DEFINE new == Refined(plan, key)
<1>1. plan.intent \in Intents /\ plan.group \in Groupings  BY DEF AnyPlan
<1>2. CASE key \in {"group_by_merchant", "group_by_category"}
  <2>1. new.intent = "breakdown" /\ new.group \in {"merchant", "category"}
    BY <1>2 DEF Refined, GroupedBy, AnyPlan
  <2> HIDE DEF new
  <2> QED  BY <2>1 DEF Coherent, new
<1>3. CASE key = "compare_previous_period"
  <2>1. new.intent = "comparison" /\ new.baseline = PreviousPeriod(plan.period)
    BY <1>3 DEF Refined, AnyPlan
  <2> HIDE DEF new
  <2> QED  BY <1>3, <2>1 DEF Coherent, new
<1>4. CASE key = "monthly_trend"
  <2>1. new.intent = "trend" /\ new.group = "month"
    BY <1>4 DEF Refined, AnyPlan
  <2> HIDE DEF new
  <2> QED  BY <2>1 DEF Coherent, new
<1>5. CASE key = "widen_to_year"
  <2>1. /\ new.group = plan.group
        /\ new.intent = IF plan.group # "none" THEN "breakdown" ELSE plan.intent
    BY <1>5 DEF Refined, AnyPlan
  <2>2. ~(plan.intent = "comparison" /\ plan.group = "none")  BY <1>5 DEF LosesBaseline
  <2> HIDE DEF new
  <2> QED  BY <2>1, <2>2 DEF Coherent, new
<1>6. CASE key = "show_transactions"
  <2>1. new.intent = "search"
    BY <1>6 DEF Refined, AnyPlan
  <2> HIDE DEF new
  <2> QED  BY <2>1 DEF Coherent, new
<1>7. CASE key \in {"only_category", "only_merchant"}
  <2>1. /\ new.intent = IF plan.intent = "trend" THEN "trend" ELSE "total"
        /\ new.group = IF plan.intent = "trend" THEN "month" ELSE "none"
    BY <1>7 DEF Refined, Narrowed, AnyPlan
  <2> HIDE DEF new
  <2> QED  BY <2>1 DEF Coherent, new
<1> QED  BY <1>2, <1>3, <1>4, <1>5, <1>6, <1>7 DEF AnyKey

(* A phrase: its kind, what it counts or names, and the year it gives. *)
AnyPhrase ==
    [kind : {"this_month", "last_month", "this_year", "last_year", "this_week", "last_week", "days",
             "weeks", "months", "years", "quarter", "month", "year", "all", "unnamed"},
     n : Nat, year : Nat]

(* What is made of a question's words. *)
AnyQuestion(Names) ==
    [recurring : BOOLEAN, top : BOOLEAN, trend : BOOLEAN, breakdown : BOOLEAN, search : BOOLEAN,
     compares : BOOLEAN,
     by : {"none", "category", "merchant", "month", "week"}, categories : SUBSET Names, merchants : SUBSET Names,
     residue : BOOLEAN, transfers : BOOLEAN, direction : {"spend", "income", "net"},
     averages : BOOLEAN, counts : BOOLEAN, number : Nat, phrase : AnyPhrase]

(* For every question: the plan that the rules make of it is one that the  *)
(* validator accepts (RulePlanner.plan).                                   *)
THEOREM RulesPlansAreReadable ==
    ASSUME NEW Names, NEW q \in AnyQuestion(Names), NEW today,
           Resolved(q.phrase, today) # NoPeriod,
           q.compares => PreviousPeriod(Resolved(q.phrase, today)) # NoPeriod
    PROVE  Coherent(Planned(q, today))
<1> DEFINE plan == Planned(q, today)
           shape == Shape(q)
<1>1. /\ q.recurring \in BOOLEAN /\ q.top \in BOOLEAN /\ q.trend \in BOOLEAN
      /\ q.breakdown \in BOOLEAN /\ q.search \in BOOLEAN /\ q.compares \in BOOLEAN
  BY DEF AnyQuestion
<1>2. /\ shape.intent \in {"breakdown", "top_n"} => shape.group # "none"
      /\ shape.intent = "trend" => shape.group \in {"month", "week"}
      /\ shape.intent = "comparison" => q.compares
  <2>1. CASE q.recurring  BY <2>1 DEF Shape
  <2>2. CASE ~q.recurring /\ q.top  BY <2>2 DEF Shape
  <2>3. CASE ~q.recurring /\ ~q.top /\ q.trend  BY <2>3 DEF Shape
  <2>4. CASE ~q.recurring /\ ~q.top /\ ~q.trend /\ q.breakdown  BY <2>4 DEF Shape
  <2>5. CASE ~q.recurring /\ ~q.top /\ ~q.trend /\ ~q.breakdown  BY <2>5 DEF Shape
  <2> QED  BY <1>1, <2>1, <2>2, <2>3, <2>4, <2>5
<1> HIDE DEF shape
<1>3. /\ plan.intent = shape.intent /\ plan.group = shape.group
      /\ plan.baseline = IF q.compares THEN PreviousPeriod(Resolved(q.phrase, today)) ELSE NoPeriod
  BY DEF Planned, shape
<1> HIDE DEF plan
<1> QED  BY <1>2, <1>3 DEF Coherent, plan

-----------------------------------------------------------------------------
(***************************************************************************)
(* The numbers in a narration.                                             *)
(***************************************************************************)

AnyGroup(Labels) == [label : Labels, value : Nat, count : Nat]
AnyAnswer(Labels) ==
    [total : Nat, count : Nat, rows : Seq(AnyGroup(Labels)), previous : Int \cup {NoPeriod}]

(* A non-empty sequence of figures has a greatest and a least one. *)
LEMMA GreatestAndLeast ==
    ASSUME NEW n \in Nat \ {0}, NEW v \in [1 .. n -> Int],
           NEW values, \A x : x \in values <=> \E i \in 1 .. n : x = v[i]
    PROVE  Max(values) \in values /\ Min(values) \in values
<1> DEFINE w == [i \in 1 .. n |-> -v[i]]
<1>1. 1 \in Int /\ n \in Int /\ 1 .. n # {}  OBVIOUS
<1>2. IsFiniteSet(1 .. n)  BY <1>1, FS_Interval
<1>3. PICK m \in 1 .. n : \A i \in 1 .. n : v[i] <= v[m]
  BY <1>1, <1>2, FamilyGreatest
<1>4. w \in [1 .. n -> Int]  OBVIOUS
<1>5. PICK l \in 1 .. n : \A i \in 1 .. n : w[i] <= w[l]
  <2> HIDE DEF w
  <2> QED  BY <1>1, <1>2, <1>4, FamilyGreatest
<1>6. \A i \in 1 .. n : v[l] <= v[i]
  <2> SUFFICES ASSUME NEW i \in 1 .. n  PROVE v[l] <= v[i]  OBVIOUS
  <2>1. w[i] <= w[l] /\ w[i] = -v[i] /\ w[l] = -v[l] /\ v[i] \in Int /\ v[l] \in Int
    BY <1>5
  <2> HIDE DEF w
  <2> QED  BY <2>1
<1>7. v[m] \in values /\ \A x \in values : v[m] >= x  BY <1>3
<1>8. v[l] \in values /\ \A x \in values : v[l] <= x  BY <1>6
<1>9. Max(values) \in values  BY <1>7, Zenon DEF Max
<1>10. Min(values) \in values  BY <1>8, Zenon DEF Min
<1> QED  BY <1>9, <1>10

(* Some of the numbers that may be told. *)
LEMMA AllowedAre ==
    ASSUME NEW answer, NEW shown
    PROVE  LET allowed == AllowedNumbers(answer, shown)
           IN /\ answer.total \in allowed /\ 100 * answer.total \in allowed
              /\ 100 * answer.count \in allowed /\ 100 * Len(answer.rows) \in allowed
              /\ \A r \in Range(answer.rows) :
                    /\ r.value \in allowed /\ 100 * r.count \in allowed
                    /\ answer.total # 0 => Percent(r.value, answer.total) \in allowed
              /\ answer.previous # NoPeriod =>
                    /\ AmountSize(answer.previous) \in allowed
                    /\ AmountSize(answer.total - answer.previous) \in allowed
                    /\ answer.previous # 0 =>
                          Percent(answer.total - answer.previous, answer.previous) \in allowed
<1> DEFINE allowed == AllowedNumbers(answer, shown)
           rows == Range(answer.rows)
           Money(cents) == {cents, 100 * cents}
           Unsigned(cents) == {cents, 100 * cents, AmountSize(cents)}
           one == Money(answer.total) \cup {100 * answer.count, 100 * Len(answer.rows)}
           two == UNION {Money(r.value) \cup {100 * r.count} : r \in rows}
           three == IF answer.total = 0 THEN {} ELSE {Percent(r.value, answer.total) : r \in rows}
           four == IF answer.previous = NoPeriod THEN {}
                   ELSE Unsigned(answer.total) \cup Unsigned(answer.previous)
                    \cup Unsigned(answer.total - answer.previous)
                    \cup (IF answer.previous = 0 THEN {}
                          ELSE {Percent(answer.total - answer.previous, answer.previous)})
           five == UNION {Unsigned(amount) \cup {100 * AmountSize(amount)} : amount \in shown}
<1>1. allowed = one \cup two \cup three \cup four \cup five
  BY Zenon DEF AllowedNumbers
<1>2. /\ answer.total \in one /\ 100 * answer.total \in one
      /\ 100 * answer.count \in one /\ 100 * Len(answer.rows) \in one
  OBVIOUS
<1>3. \A r \in rows : r.value \in two /\ 100 * r.count \in two
  <2> SUFFICES ASSUME NEW r \in rows  PROVE r.value \in two /\ 100 * r.count \in two
    OBVIOUS
  <2> DEFINE mine == Money(r.value) \cup {100 * r.count}
  <2>1. r.value \in mine /\ 100 * r.count \in mine  OBVIOUS
  <2>2. mine \in {Money(s.value) \cup {100 * s.count} : s \in rows}
    <3> HIDE DEF rows
    <3> QED  OBVIOUS
  <2> HIDE DEF mine, rows
  <2> QED  BY <2>1, <2>2
<1>4. \A r \in rows : answer.total # 0 => Percent(r.value, answer.total) \in three
  <2> HIDE DEF rows
  <2> QED  OBVIOUS
<1>5. answer.previous # NoPeriod =>
        /\ AmountSize(answer.previous) \in four
        /\ AmountSize(answer.total - answer.previous) \in four
        /\ answer.previous # 0 =>
              Percent(answer.total - answer.previous, answer.previous) \in four
  OBVIOUS
<1> HIDE DEF allowed, one, two, three, four, five
<1>6. \A x : x \in one \/ x \in two \/ x \in three \/ x \in four => x \in allowed
  BY <1>1
<1> QED  BY <1>2, <1>3, <1>4, <1>5, <1>6 DEF allowed, rows

(* What is told passes the check if the template does. *)
LEMMA ToldIsChecked ==
    ASSUME NEW answer, NEW plan, NEW shown, NEW printed,
           Verified(Narrated(answer, plan, printed), answer, shown)
    PROVE  \A replied \in BOOLEAN : \A wording :
                Verified(NumbersTold(answer, shown, plan, printed, replied, wording), answer, shown)
<1> SUFFICES ASSUME NEW replied \in BOOLEAN, NEW wording
             PROVE  Verified(NumbersTold(answer, shown, plan, printed, replied, wording),
                             answer, shown)
  OBVIOUS
<1>1. CASE replied /\ Verified(wording, answer, shown)
  <2>1. NumbersTold(answer, shown, plan, printed, replied, wording) = wording
    BY <1>1 DEF NumbersTold
  <2> QED  BY <1>1, <2>1
<1>2. CASE ~(replied /\ Verified(wording, answer, shown))
  <2>1. NumbersTold(answer, shown, plan, printed, replied, wording) = Narrated(answer, plan, printed)
    BY <1>2 DEF NumbersTold
  <2> QED  BY <2>1
<1> QED  BY <1>1, <1>2

(* The numbers in the words around the figures are small counts or years. *)
PlainWords(answer, plan, printed) == \A n \in Worded(answer, plan, printed) : Benign(n)

(* For every answer without negative figures: every figure the template    *)
(* prints is one the answer has; and so the template passes the check that *)
(* is made of a model's wording, and nothing is told that does not, unless *)
(* a name, a text searched for or the label of a period has a number that  *)
(* is no small count and no year (narrate.py).                             *)
THEOREM TemplatePasses ==
    ASSUME NEW Labels, NEW answer \in AnyAnswer(Labels), NEW plan, NEW shown, NEW printed,
           answer.previous = NoPeriod <=> plan.baseline = NoPeriod
    PROVE  /\ Figured(answer, plan) \in SUBSET AllowedNumbers(answer, shown)
           /\ PlainWords(answer, plan, printed) =>
                /\ Verified(Narrated(answer, plan, printed), answer, shown)
                /\ \A replied \in BOOLEAN : \A wording :
                     Verified(NumbersTold(answer, shown, plan, printed, replied, wording), answer, shown)
<1> DEFINE allowed == AllowedNumbers(answer, shown)
           Fine(x) == x \in allowed
           delta == answer.total - answer.previous
           values == {r.value : r \in Range(answer.rows)}
           top == Head(answer.rows)
           first == IF plan.metric = "count" THEN {100 * answer.total}
                    ELSE {AmountSize(answer.total), 100 * answer.count}
           compared == IF plan.baseline = NoPeriod THEN {}
                  ELSE IF delta = 0 THEN {}
                  ELSE {AmountSize(delta), AmountSize(answer.previous)}
                        \cup (IF answer.previous = 0 THEN {} ELSE {Percent(delta, answer.previous)})
           periods == IF values # {} /\ plan.group \in {"month", "week"}
                      THEN {AmountSize(Max(values)), AmountSize(Min(values))} ELSE {}
           largest == IF NamesTop(answer, plan)
                      THEN {AmountSize(top.value), Percent(top.value, answer.total), 100 * top.count}
                      ELSE {}
           repeats == IF plan.intent = "recurring" /\ values # {} THEN {100 * Len(answer.rows)} ELSE {}
<1>1. Figured(answer, plan) = first \cup compared \cup periods \cup largest \cup repeats
  BY DEF Figured
<1>2. /\ answer.total \in Nat /\ answer.count \in Nat /\ answer.rows \in Seq(AnyGroup(Labels))
      /\ answer.previous \in Int \cup {NoPeriod}
  BY DEF AnyAnswer
<1>4. /\ answer.total \in allowed /\ 100 * answer.total \in allowed
      /\ 100 * answer.count \in allowed /\ 100 * Len(answer.rows) \in allowed
      /\ \A r \in Range(answer.rows) :
            /\ r.value \in allowed /\ 100 * r.count \in allowed
            /\ answer.total # 0 => Percent(r.value, answer.total) \in allowed
      /\ answer.previous # NoPeriod =>
            /\ AmountSize(answer.previous) \in allowed
            /\ AmountSize(delta) \in allowed
            /\ answer.previous # 0 => Percent(delta, answer.previous) \in allowed
  BY AllowedAre
<1>5. \A n \in Nat : AmountSize(n) = n  BY DEF AmountSize
<1>6. \A r \in Range(answer.rows) : r.value \in Nat
  <2>1. \A i \in DOMAIN answer.rows : answer.rows[i] \in AnyGroup(Labels)  BY <1>2
  <2>2. \A r \in AnyGroup(Labels) : r.value \in Nat  BY DEF AnyGroup
  <2> QED  BY <2>1, <2>2 DEF Range
<1> HIDE DEF allowed
<1>7. \A x \in first \cup repeats : Fine(x)
  <2> HIDE DEF values
  <2> QED  BY <1>2, <1>4, <1>5
<1>8. \A x \in compared : Fine(x)
  <2> HIDE DEF delta
  <2> QED  BY <1>4
<1> DEFINE n == Len(answer.rows)
           v == [i \in 1 .. n |-> answer.rows[i].value]
<1>9. n \in Nat /\ DOMAIN answer.rows = 1 .. n /\ \A i \in 1 .. n : answer.rows[i] \in AnyGroup(Labels)
  BY <1>2
<1>10. ASSUME NEW x \in periods  PROVE Fine(x)
  <2>1. values # {} /\ (x = AmountSize(Max(values)) \/ x = AmountSize(Min(values)))
    <3> HIDE DEF values
    <3> QED  BY <1>10
  <2>2. n \in Nat \ {0}
    <3>1. 1 .. 0 = {}  OBVIOUS
    <3>2. n = 0 => DOMAIN answer.rows = {}  BY <1>9, <3>1
    <3> HIDE DEF n
    <3>3. n # 0  BY <2>1, <3>2 DEF Range
    <3> QED  BY <1>9, <3>3
  <2>3. \A i \in 1 .. n : v[i] \in Nat /\ v[i] = answer.rows[i].value /\ v[i] \in allowed
    <3> SUFFICES ASSUME NEW i \in 1 .. n
                 PROVE  answer.rows[i].value \in Nat /\ answer.rows[i].value \in allowed
      OBVIOUS
    <3>1. answer.rows[i] \in Range(answer.rows)  BY <1>9 DEF Range
    <3> QED  BY <1>4, <1>6, <3>1
  <2>4. values = {v[i] : i \in 1 .. n}
    <3>1. Range(answer.rows) = {answer.rows[i] : i \in 1 .. n}  BY <1>9 DEF Range
    <3> HIDE DEF n
    <3> QED  BY <3>1
  <2>5. v \in [1 .. n -> Int]
    <3> HIDE DEF n
    <3> QED  BY <2>3
  <2> HIDE DEF v, values
  <2>6. Max(values) \in values /\ Min(values) \in values
    <3> HIDE DEF n
    <3>1. \A y : y \in values <=> \E i \in 1 .. n : y = v[i]  BY <2>4
    <3> QED  BY <2>2, <2>5, <3>1, GreatestAndLeast
  <2>7. \A y \in values : y \in Nat /\ y \in allowed
    <3> HIDE DEF n
    <3> QED  BY <2>3, <2>4
  <2> QED  BY <1>5, <2>1, <2>6, <2>7
<1>11. ASSUME NEW x \in largest  PROVE Fine(x)
  <2>1. answer.rows # <<>> /\ answer.total # 0  BY <1>11 DEF NamesTop
  <2>2. top \in Range(answer.rows)
    <3>1. 1 \in 1 .. n /\ top = answer.rows[1]  BY <1>2, <2>1
    <3> QED  BY <1>9, <3>1 DEF Range
  <2>3. \/ x = AmountSize(top.value) \/ x = Percent(top.value, answer.total) \/ x = 100 * top.count
    <3> HIDE DEF top
    <3> QED  BY <1>11
  <2> HIDE DEF top
  <2> QED  BY <1>4, <1>5, <1>6, <2>1, <2>2, <2>3
<1>12. Figured(answer, plan) \in SUBSET allowed
  <2> HIDE DEF first, compared, periods, largest, repeats
  <2> QED  BY <1>1, <1>7, <1>8, <1>10, <1>11
<1>13. ASSUME PlainWords(answer, plan, printed)
       PROVE  Verified(Narrated(answer, plan, printed), answer, shown)
  <2>1. \A x \in Narrated(answer, plan, printed) :
            x \in Figured(answer, plan) \/ x \in Worded(answer, plan, printed)
    BY DEF Narrated
  <2> QED  BY <1>12, <1>13, <2>1 DEF Verified, PlainWords, allowed
<1> QED  BY <1>12, <1>13, ToldIsChecked DEF allowed

-----------------------------------------------------------------------------
(***************************************************************************)
(* The calendar.                                                           *)
(***************************************************************************)

AllDays == 1 .. LastOf(12 * Years - 1)
LeapDay(year) == IF LeapYear(year) THEN 1 ELSE 0

(* A leap year is one more leap year before the next. *)
LEMMA LeapsCount ==
    ASSUME NEW year \in Nat
    PROVE  /\ LeapsBefore(year) \in Int /\ LeapDay(year) \in 0 .. 1
           /\ LeapsBefore(year + 1) = LeapsBefore(year) + LeapDay(year)
<1> DEFINE a == (year - 1) \div 4
           b == (year - 1) \div 100
           c == (year - 1) \div 400
<1>1. a \in Int /\ b \in Int /\ c \in Int  OBVIOUS
<1>2. (year + 1) - 1 = year  OBVIOUS
<1>3. year \div 4 = a + (IF year % 4 = 0 THEN 1 ELSE 0)  OBVIOUS
<1>4. year \div 100 = b + (IF year % 100 = 0 THEN 1 ELSE 0)  OBVIOUS
<1>5. year \div 400 = c + (IF year % 400 = 0 THEN 1 ELSE 0)  OBVIOUS
<1>6. (year % 400 = 0 => year % 100 = 0) /\ (year % 100 = 0 => year % 4 = 0)  OBVIOUS
<1>7. LeapsBefore(year) = a - b + c
  BY DEF LeapsBefore
<1>8. LeapsBefore(year + 1) = year \div 4 - year \div 100 + year \div 400
  BY <1>2 DEF LeapsBefore
<1>9. LeapYear(year) <=> year % 4 = 0 /\ (year % 100 # 0 \/ year % 400 = 0)
  BY DEF LeapYear
<1> HIDE DEF a, b, c
<1> QED  BY <1>1, <1>3, <1>4, <1>5, <1>6, <1>7, <1>8, <1>9 DEF LeapDay

(* The days of a year before each of its months. *)
DaysUpTo(k, leap) == DaysBefore[k + 1] + IF k > 1 THEN leap ELSE 0
LEMMA YearIs ==
    ASSUME NEW leap \in 0 .. 1
    PROVE  /\ \A k \in 0 .. 11 : DaysUpTo(k, leap) \in Nat
           /\ DaysUpTo(0, leap) = 0
           /\ \A k \in 0 .. 10 : DaysUpTo(k + 1, leap) - DaysUpTo(k, leap)
                = IF k = 1 THEN 28 + leap ELSE IF k \in {3, 5, 8, 10} THEN 30 ELSE 31
           /\ 365 + leap - DaysUpTo(11, leap) = 31
<1>1. /\ DaysBefore[1] = 0 /\ DaysBefore[2] = 31 /\ DaysBefore[3] = 59 /\ DaysBefore[4] = 90
      /\ DaysBefore[5] = 120 /\ DaysBefore[6] = 151 /\ DaysBefore[7] = 181 /\ DaysBefore[8] = 212
      /\ DaysBefore[9] = 243 /\ DaysBefore[10] = 273 /\ DaysBefore[11] = 304
      /\ DaysBefore[12] = 334
  BY DEF DaysBefore
<1>2. /\ DaysUpTo(0, leap) = 0 /\ DaysUpTo(1, leap) = 31 /\ DaysUpTo(2, leap) = 59 + leap
      /\ DaysUpTo(3, leap) = 90 + leap /\ DaysUpTo(4, leap) = 120 + leap
      /\ DaysUpTo(5, leap) = 151 + leap /\ DaysUpTo(6, leap) = 181 + leap
      /\ DaysUpTo(7, leap) = 212 + leap /\ DaysUpTo(8, leap) = 243 + leap
      /\ DaysUpTo(9, leap) = 273 + leap /\ DaysUpTo(10, leap) = 304 + leap
      /\ DaysUpTo(11, leap) = 334 + leap
  BY <1>1 DEF DaysUpTo
<1>3. \A k \in 0 .. 11 : \/ k = 0 \/ k = 1 \/ k = 2 \/ k = 3 \/ k = 4 \/ k = 5
                         \/ k = 6 \/ k = 7 \/ k = 8 \/ k = 9 \/ k = 10 \/ k = 11
  OBVIOUS
<1>4. \A k \in 0 .. 11 : DaysUpTo(k, leap) \in Nat  BY <1>2, <1>3
<1>5. \A k \in 0 .. 10 : DaysUpTo(k + 1, leap) - DaysUpTo(k, leap)
                = IF k = 1 THEN 28 + leap ELSE IF k \in {3, 5, 8, 10} THEN 30 ELSE 31
  BY <1>2, <1>3
<1> QED  BY <1>2, <1>4, <1>5

(* Months, and where one begins. *)
LEMMA MonthsAre ==
    ASSUME NEW month \in AllMonths
    PROVE  LET year == FirstYear + month \div 12
               k == month % 12
           IN /\ month \in Nat /\ year \in Nat /\ k \in 0 .. 11 /\ month = 12 * (month \div 12) + k
              /\ FirstOf[month] = 1 + 365 * (month \div 12) + LeapsBefore(year)
                    - LeapsBefore(FirstYear) + DaysUpTo(k, LeapDay(year))
              /\ FirstOf[month] \in Int
              /\ DaysIn(month) = IF k = 1 THEN 28 + LeapDay(year)
                                 ELSE IF k \in {3, 5, 8, 10} THEN 30 ELSE 31
              /\ DaysIn(month) \in 28 .. 31 /\ LastOf(month) \in Int
              /\ FirstOf[month] <= LastOf(month)
<1> DEFINE y == month \div 12
           year == FirstYear + y
           k == month % 12
<1>1. Years \in Nat \ {0} /\ FirstYear \in Nat  BY PlanningAssumption
<1>2. month \in Nat  BY <1>1 DEF AllMonths
<1>3. y \in Nat /\ k \in 0 .. 11 /\ month = 12 * y + k  BY <1>2
<1>4. FirstOf[month] = 1 + 365 * y + LeapsBefore(year) - LeapsBefore(FirstYear)
            + DaysBefore[k + 1] + IF k > 1 /\ LeapYear(year) THEN 1 ELSE 0
  BY Zenon DEF FirstOf
<1>5. DaysIn(month) = IF k = 1 THEN 28 + LeapDay(year)
                      ELSE IF k \in {3, 5, 8, 10} THEN 30 ELSE 31
  BY DEF DaysIn, LeapDay
<1> HIDE DEF y, k
<1>6. year \in Nat  BY <1>1, <1>3
<1> HIDE DEF year
<1>7. LeapsBefore(year) \in Int /\ LeapsBefore(FirstYear) \in Int /\ LeapDay(year) \in 0 .. 1
  BY <1>1, <1>6, LeapsCount
<1>8. DaysUpTo(k, LeapDay(year)) \in Nat  BY <1>3, <1>7, YearIs
<1>9. (IF k > 1 /\ LeapYear(year) THEN 1 ELSE 0) = IF k > 1 THEN LeapDay(year) ELSE 0
  BY DEF LeapDay
<1>10. DaysBefore[k + 1] \in Int
  <2>1. k + 1 \in 1 .. 12  BY <1>3
  <2> HIDE DEF k
  <2>2. \A i \in 1 .. 12 : DaysBefore[i] \in Int
    <3>1. \A i \in 1 .. 12 : \/ i = 1 \/ i = 2 \/ i = 3 \/ i = 4 \/ i = 5 \/ i = 6
                             \/ i = 7 \/ i = 8 \/ i = 9 \/ i = 10 \/ i = 11 \/ i = 12
      OBVIOUS
    <3> QED  BY <3>1 DEF DaysBefore
  <2> QED  BY <2>1, <2>2
<1>11. FirstOf[month] = 1 + 365 * y + LeapsBefore(year) - LeapsBefore(FirstYear)
            + DaysUpTo(k, LeapDay(year))
  BY <1>3, <1>4, <1>7, <1>9, <1>10 DEF DaysUpTo
<1>12. FirstOf[month] \in Int  BY <1>3, <1>7, <1>8, <1>11
<1>13. DaysIn(month) \in 28 .. 31  BY <1>5, <1>7
<1>14. LastOf(month) \in Int /\ FirstOf[month] <= LastOf(month)
  BY <1>12, <1>13 DEF LastOf
<1> QED  BY <1>2, <1>3, <1>5, <1>6, <1>11, <1>12, <1>13, <1>14 DEF y, k, year

(* The first month begins on the first day. *)
LEMMA FirstMonth == 0 \in AllMonths /\ FirstOf[0] = 1
<1>1. Years \in Nat \ {0} /\ FirstYear \in Nat  BY PlanningAssumption
<1>2. 0 \in AllMonths  BY <1>1 DEF AllMonths
<1>3. 0 \div 12 = 0 /\ 0 % 12 = 0 /\ FirstYear + 0 = FirstYear  BY <1>1
<1>4. FirstOf[0] = 1 + 365 * 0 + LeapsBefore(FirstYear) - LeapsBefore(FirstYear)
                    + DaysUpTo(0, LeapDay(FirstYear))
  BY <1>2, <1>3, MonthsAre
<1>5. LeapsBefore(FirstYear) \in Int /\ LeapDay(FirstYear) \in 0 .. 1  BY <1>1, LeapsCount
<1>6. DaysUpTo(0, LeapDay(FirstYear)) = 0  BY <1>5, YearIs
<1> QED  BY <1>2, <1>4, <1>5, <1>6

(* A month begins the day after the one before it ends. *)
LEMMA MonthsFollow ==
    ASSUME NEW month \in AllMonths, month + 1 \in AllMonths
    PROVE  FirstOf[month + 1] = LastOf(month) + 1
<1> DEFINE next == month + 1
           y == month \div 12
           k == month % 12
           year == FirstYear + y
<1>1. /\ month \in Nat /\ year \in Nat /\ k \in 0 .. 11 /\ month = 12 * y + k
      /\ FirstOf[month] = 1 + 365 * y + LeapsBefore(year) - LeapsBefore(FirstYear)
            + DaysUpTo(k, LeapDay(year))
      /\ FirstOf[month] \in Int
      /\ DaysIn(month) = IF k = 1 THEN 28 + LeapDay(year)
                         ELSE IF k \in {3, 5, 8, 10} THEN 30 ELSE 31
      /\ DaysIn(month) \in 28 .. 31
  BY MonthsAre
<1>2. FirstOf[next] = 1 + 365 * (next \div 12) + LeapsBefore(FirstYear + next \div 12)
            - LeapsBefore(FirstYear) + DaysUpTo(next % 12, LeapDay(FirstYear + next \div 12))
  BY MonthsAre
<1>3. FirstYear \in Nat /\ y \in Nat  BY <1>1, PlanningAssumption
<1> HIDE DEF year
<1>4. /\ LeapsBefore(year) \in Int /\ LeapsBefore(FirstYear) \in Int /\ LeapDay(year) \in 0 .. 1
      /\ LeapsBefore(year + 1) = LeapsBefore(year) + LeapDay(year)
  BY <1>1, <1>3, LeapsCount
<1>5. /\ \A j \in 0 .. 11 : DaysUpTo(j, LeapDay(year)) \in Nat
      /\ \A j \in 0 .. 10 : DaysUpTo(j + 1, LeapDay(year)) - DaysUpTo(j, LeapDay(year))
                = IF j = 1 THEN 28 + LeapDay(year) ELSE IF j \in {3, 5, 8, 10} THEN 30 ELSE 31
      /\ 365 + LeapDay(year) - DaysUpTo(11, LeapDay(year)) = 31
  BY <1>4, YearIs
<1>6. CASE k \in 0 .. 10
  <2>1. next \div 12 = y /\ next % 12 = k + 1  BY <1>1, <1>6
  <2> HIDE DEF next, y, k
  <2>2. FirstOf[next] = 1 + 365 * y + LeapsBefore(year) - LeapsBefore(FirstYear)
            + DaysUpTo(k + 1, LeapDay(year))
    BY <1>2, <2>1 DEF year
  <2>3. DaysUpTo(k + 1, LeapDay(year)) = DaysUpTo(k, LeapDay(year)) + DaysIn(month)
    <3>1. k + 1 \in 0 .. 11  BY <1>6
    <3>2. DaysUpTo(k + 1, LeapDay(year)) \in Nat /\ DaysUpTo(k, LeapDay(year)) \in Nat
      BY <1>1, <1>5, <3>1
    <3>3. DaysUpTo(k + 1, LeapDay(year)) - DaysUpTo(k, LeapDay(year)) = DaysIn(month)
      BY <1>1, <1>5, <1>6
    <3> QED  BY <1>1, <3>2, <3>3
  <2>4. FirstOf[next] = FirstOf[month] + DaysIn(month)
    <3>1. DaysUpTo(k, LeapDay(year)) \in Nat  BY <1>1, <1>5
    <3> QED  BY <1>1, <1>3, <1>4, <2>2, <2>3, <3>1
  <2> QED  BY <1>1, <2>4 DEF LastOf, next
<1>7. CASE k = 11
  <2>1. next \div 12 = y + 1 /\ next % 12 = 0  BY <1>1, <1>7
  <2> HIDE DEF next, y, k
  <2>2. FirstYear + (y + 1) = year + 1 /\ year + 1 \in Nat  BY <1>1, <1>3 DEF year
  <2>3. FirstOf[next] = 1 + 365 * (y + 1) + LeapsBefore(year + 1) - LeapsBefore(FirstYear)
            + DaysUpTo(0, LeapDay(year + 1))
    BY <1>2, <2>1, <2>2
  <2>4. DaysUpTo(0, LeapDay(year + 1)) = 0
    <3>1. LeapDay(year + 1) \in 0 .. 1  BY <2>2, LeapsCount
    <3> QED  BY <3>1, YearIs
  <2>5. DaysUpTo(11, LeapDay(year)) \in Nat /\ DaysIn(month) = 31
    BY <1>1, <1>5, <1>7
  <2>6. FirstOf[next] = FirstOf[month] + DaysIn(month)
    BY <1>1, <1>3, <1>4, <1>5, <1>7, <2>3, <2>4, <2>5
  <2> QED  BY <1>1, <2>6 DEF LastOf, next
<1> QED  BY <1>1, <1>6, <1>7

(* Months do not overlap. *)
LEMMA MonthsInOrder ==
    ASSUME NEW month \in AllMonths, NEW later \in AllMonths, month < later
    PROVE  LastOf(month) < FirstOf[later]
<1> DEFINE T == {n \in Nat : month + 1 + n \in AllMonths => LastOf(month) < FirstOf[month + 1 + n]}
<1>0. Years \in Nat \ {0}  BY PlanningAssumption
<1>1. month \in Nat /\ later \in Nat  BY <1>0 DEF AllMonths
<1>2. T = Nat
  <2>1. 0 \in T
    <3>1. month + 1 + 0 = month + 1  BY <1>1
    <3> SUFFICES ASSUME month + 1 \in AllMonths  PROVE LastOf(month) < FirstOf[month + 1]
      BY <3>1
    <3>2. FirstOf[month + 1] = LastOf(month) + 1 /\ LastOf(month) \in Int
      BY MonthsFollow, MonthsAre
    <3> QED  BY <3>2
  <2>2. ASSUME NEW n \in T  PROVE n + 1 \in T
    <3> DEFINE m == month + 1 + n
    <3>1. n \in Nat /\ month + 1 + (n + 1) = m + 1 /\ m \in Nat  BY <1>1
    <3> SUFFICES ASSUME m + 1 \in AllMonths  PROVE LastOf(month) < FirstOf[m + 1]  BY <3>1
    <3>2. m \in AllMonths  BY <1>0, <3>1 DEF AllMonths
    <3>3. LastOf(month) < FirstOf[m]  BY <3>2
    <3> HIDE DEF m
    <3>4. FirstOf[m + 1] = LastOf(m) + 1 /\ LastOf(m) \in Int /\ FirstOf[m] \in Int
          /\ FirstOf[m] <= LastOf(m) /\ LastOf(month) \in Int
      BY <3>2, MonthsFollow, MonthsAre
    <3> QED  BY <3>3, <3>4
  <2>3. T \in SUBSET Nat  OBVIOUS
  <2> HIDE DEF T
  <2> QED  BY <2>1, <2>2, <2>3, AllNaturals
<1>3. later - month - 1 \in Nat /\ month + 1 + (later - month - 1) = later  BY <1>1
<1>4. later - month - 1 \in T  BY <1>2, <1>3
<1> QED  BY <1>3, <1>4

(* Every day of the calendar is in a month, *)
LEMMA MonthIs ==
    ASSUME NEW day \in AllDays
    PROVE  /\ MonthOf(day) \in AllMonths /\ day \in Nat
           /\ FirstOf[MonthOf(day)] <= day /\ day <= LastOf(MonthOf(day))
<1> DEFINE In(d, m) == FirstOf[m] <= d /\ d <= LastOf(m)
           T == {d \in Nat : d + 1 \in AllDays => \E m \in AllMonths : In(d + 1, m)}
           last == 12 * Years - 1
<1>0. Years \in Nat \ {0} /\ last \in AllMonths  BY PlanningAssumption DEF AllMonths
<1>1. LastOf(last) \in Int  BY <1>0, MonthsAre
<1>2. \A d : d \in AllDays <=> d \in Nat /\ 1 <= d /\ d <= LastOf(last)
  BY <1>1 DEF AllDays
<1>3. T = Nat
  <2>1. 0 \in T
    <3>1. 0 \in AllMonths /\ FirstOf[0] = 1  BY FirstMonth
    <3>2. FirstOf[0] <= LastOf(0)  BY <3>1, MonthsAre
    <3>3. 0 + 1 = 1 /\ In(1, 0)  BY <3>1, <3>2
    <3> HIDE DEF In
    <3> QED  BY <3>1, <3>3
  <2>2. ASSUME NEW d \in T  PROVE d + 1 \in T
    <3>1. d \in Nat  OBVIOUS
    <3> SUFFICES ASSUME (d + 1) + 1 \in AllDays  PROVE \E m \in AllMonths : In((d + 1) + 1, m)
      BY <3>1
    <3>2. d + 1 \in AllDays  BY <1>1, <1>2, <3>1
    <3>3. PICK m \in AllMonths : In(d + 1, m)  BY <3>2
    <3>4. /\ m \in Nat /\ FirstOf[m] \in Int /\ LastOf(m) \in Int
      BY MonthsAre
    <3>5. CASE d + 1 < LastOf(m)
      <4>1. In((d + 1) + 1, m)  BY <3>1, <3>3, <3>4, <3>5
      <4> QED  BY <4>1
    <3>6. CASE ~(d + 1 < LastOf(m))
      <4>1. d + 1 = LastOf(m)  BY <3>1, <3>3, <3>4, <3>6
      <4>2. m # last
        <5>1. (d + 1) + 1 <= LastOf(last)  BY <1>2
        <5> HIDE DEF last
        <5> QED  BY <3>1, <4>1, <5>1
      <4>3. m + 1 \in AllMonths  BY <1>0, <3>4, <4>2 DEF AllMonths
      <4>4. FirstOf[m + 1] = LastOf(m) + 1 /\ FirstOf[m + 1] <= LastOf(m + 1)
        BY <4>3, MonthsFollow, MonthsAre
      <4>5. In((d + 1) + 1, m + 1)  BY <3>1, <3>4, <4>1, <4>4
      <4> QED  BY <4>3, <4>5
    <3> QED  BY <3>5, <3>6
  <2>3. T \in SUBSET Nat  OBVIOUS
  <2> HIDE DEF T
  <2> QED  BY <2>1, <2>2, <2>3, AllNaturals
<1>4. day \in Nat /\ day - 1 \in Nat /\ (day - 1) + 1 = day  BY <1>2
<1>5. \E m \in AllMonths : In(day, m)
  <2>1. day - 1 \in T  BY <1>3, <1>4
  <2> QED  BY <1>4, <2>1
<1>6. MonthOf(day) = CHOOSE m \in AllMonths : In(day, m)
  <2>1. day \in 1 .. LastOf(last)  BY DEF AllDays
  <2> QED  BY <2>1, Zenon DEF MonthOf, MonthTable
<1>7. MonthOf(day) \in AllMonths /\ In(day, MonthOf(day))
  <2> HIDE DEF In
  <2> QED  BY <1>5, <1>6, Zenon
<1> QED  BY <1>4, <1>7

(* and in no other. *)
LEMMA MonthOnly ==
    ASSUME NEW day \in AllDays, NEW month \in AllMonths, FirstOf[month] <= day, day <= LastOf(month)
    PROVE  MonthOf(day) = month
<1> DEFINE m == MonthOf(day)
<1>1. m \in AllMonths /\ day \in Nat /\ FirstOf[m] <= day /\ day <= LastOf(m)  BY MonthIs
<1> HIDE DEF m
<1>2. /\ m \in Nat /\ month \in Nat
      /\ FirstOf[m] \in Int /\ LastOf(m) \in Int /\ FirstOf[month] \in Int /\ LastOf(month) \in Int
  BY <1>1, MonthsAre
<1>3. CASE m < month
  <2>1. LastOf(m) < FirstOf[month]  BY <1>1, <1>3, MonthsInOrder
  <2> QED  BY <1>1, <1>2, <2>1
<1>4. CASE month < m
  <2>1. LastOf(month) < FirstOf[m]  BY <1>1, <1>4, MonthsInOrder
  <2> QED  BY <1>1, <1>2, <2>1
<1> QED  BY <1>2, <1>3, <1>4 DEF m

(* The days of a month are days of the calendar. *)
LEMMA MonthDays ==
    ASSUME NEW month \in AllMonths
    PROVE  /\ FirstOf[month] \in AllDays /\ LastOf(month) \in AllDays
           /\ MonthOf(FirstOf[month]) = month /\ MonthOf(LastOf(month)) = month
<1> DEFINE last == 12 * Years - 1
<1>0. Years \in Nat \ {0} /\ last \in AllMonths  BY PlanningAssumption DEF AllMonths
<1>1. /\ month \in Nat /\ FirstOf[month] \in Int /\ LastOf(month) \in Int
      /\ FirstOf[month] <= LastOf(month)
  BY MonthsAre
<1>2. 1 <= FirstOf[month]
  <2>1. 0 \in AllMonths /\ FirstOf[0] = 1 /\ LastOf(0) \in Int /\ FirstOf[0] <= LastOf(0)
    BY FirstMonth, MonthsAre
  <2>2. CASE month = 0  BY <2>1, <2>2
  <2>3. CASE month # 0
    <3>1. LastOf(0) < FirstOf[month]  BY <1>1, <2>1, <2>3, MonthsInOrder
    <3> QED  BY <1>1, <2>1, <3>1
  <2> QED  BY <2>2, <2>3
<1>3. LastOf(month) <= LastOf(last)
  <2>1. month <= last /\ last \in Nat /\ LastOf(last) \in Int /\ FirstOf[last] \in Int
        /\ FirstOf[last] <= LastOf(last)
    BY <1>0, MonthsAre DEF AllMonths
  <2> HIDE DEF last
  <2>2. CASE month = last  BY <1>1, <2>2
  <2>3. CASE month # last
    <3>1. LastOf(month) < FirstOf[last]  BY <1>0, <1>1, <2>1, <2>3, MonthsInOrder
    <3> QED  BY <1>1, <2>1, <3>1
  <2> QED  BY <2>2, <2>3
<1>4. LastOf(last) \in Int  BY <1>0, MonthsAre
<1>5. FirstOf[month] \in AllDays /\ LastOf(month) \in AllDays
  BY <1>1, <1>2, <1>3, <1>4 DEF AllDays
<1>6. FirstOf[month] <= FirstOf[month] /\ LastOf(month) <= LastOf(month)  BY <1>1
<1> QED  BY <1>1, <1>5, <1>6, MonthOnly

(* A month is a period, and a whole month. *)
LEMMA MonthPeriodIs ==
    ASSUME NEW month \in AllMonths
    PROVE  /\ MonthPeriod(month) = [start |-> FirstOf[month], end |-> LastOf(month)]
           /\ FullMonth(MonthPeriod(month))
<1>1. FirstOf[month] \in Int /\ LastOf(month) \in Int /\ FirstOf[month] <= LastOf(month)
  BY MonthsAre
<1>2. MonthPeriod(month) = [start |-> FirstOf[month], end |-> LastOf(month)]
  BY <1>1 DEF MonthPeriod, Period
<1>3. MonthOf(FirstOf[month]) = month  BY MonthDays
<1> QED  BY <1>2, <1>3 DEF FullMonth

(* For every calendar: what a period is compared with ends the day before  *)
(* it begins, is the whole month before if it is a whole month, and is     *)
(* otherwise as long (previous_period of dates.py).                        *)
THEOREM BaselinesPrecede ==
    ASSUME NEW start \in AllDays, NEW end \in AllDays, start <= end, MonthOf(start) > 0
    PROVE  LET period == [start |-> start, end |-> end]
               before == PreviousPeriod(period)
           IN /\ before = [start |-> before.start, end |-> start - 1]
              /\ before.start \in Int /\ before.start < start
              /\ IF FullMonth(period) THEN FullMonth(before)
                 ELSE before.end - before.start = end - start
<1> DEFINE period == [start |-> start, end |-> end]
           before == PreviousPeriod(period)
           month == MonthOf(start)
<1>1. /\ month \in AllMonths /\ start \in Nat /\ end \in Nat
      /\ FirstOf[month] <= start /\ start <= LastOf(month)
  BY MonthIs
<1>2. period.start = start /\ period.end = end  OBVIOUS
<1>3. CASE FullMonth(period)
  <2>1. start = FirstOf[month]  BY <1>2, <1>3 DEF FullMonth
  <2>2. before = MonthPeriod(month - 1)  BY <1>2, <1>3 DEF PreviousPeriod
  <2> HIDE DEF before, month
  <2>3. month \in Nat /\ month - 1 \in AllMonths /\ (month - 1) + 1 = month
    <3>1. Years \in Nat \ {0} /\ month > 0  BY PlanningAssumption DEF month
    <3> QED  BY <1>1, <3>1 DEF AllMonths
  <2>4. before = [start |-> FirstOf[month - 1], end |-> LastOf(month - 1)] /\ FullMonth(before)
    BY <2>2, <2>3, MonthPeriodIs
  <2>5. /\ FirstOf[month - 1] \in Int /\ LastOf(month - 1) \in Int
        /\ FirstOf[month - 1] <= LastOf(month - 1)
    BY <2>3, MonthsAre
  <2>6. FirstOf[month] = LastOf(month - 1) + 1  BY <1>1, <2>3, MonthsFollow
  <2>7. LastOf(month - 1) = start - 1 /\ FirstOf[month - 1] < start
    BY <1>1, <2>1, <2>5, <2>6
  <2>8. before.start = FirstOf[month - 1]  BY <2>4
  <2> QED  BY <1>3, <2>4, <2>5, <2>7, <2>8 DEF before
<1>4. CASE ~FullMonth(period)
  <2>1. before = Period(start - (end - start + 1), start - 1)
    BY <1>2, <1>4 DEF PreviousPeriod
  <2> HIDE DEF before
  <2>2. ~(start - 1 < start - (end - start + 1))  BY <1>1
  <2>3. before = [start |-> start - (end - start + 1), end |-> start - 1]
    BY <2>1, <2>2 DEF Period
  <2>4. before.start = start - (end - start + 1) /\ before.end = start - 1  BY <2>3
  <2>5. before.start \in Int /\ before.start < start /\ before.end - before.start = end - start
    BY <1>1, <2>4
  <2> QED  BY <1>4, <2>3, <2>4, <2>5 DEF before
<1> QED  BY <1>3, <1>4

(* Today, its month and the January before it. *)
LEMMA TodayIs ==
    ASSUME NEW today \in AllDays
    PROVE  LET month == MonthOf(today)
               january == JanuaryOf(today)
           IN /\ month \in AllMonths /\ month \in Nat /\ today \in Nat
              /\ FirstOf[month] \in Int /\ LastOf(month) \in Int
              /\ FirstOf[month] <= today /\ today <= LastOf(month)
              /\ january \in AllMonths /\ january \in Nat
              /\ january <= month /\ month <= january + 11 /\ january + 11 \in AllMonths
              /\ month = january + (month % 12) /\ month % 12 \in 0 .. 11
<1> DEFINE month == MonthOf(today)
           january == JanuaryOf(today)
<1>0. Years \in Nat \ {0}  BY PlanningAssumption
<1>1. /\ month \in AllMonths /\ today \in Nat
      /\ FirstOf[month] <= today /\ today <= LastOf(month)
  BY MonthIs
<1>2. FirstOf[month] \in Int /\ LastOf(month) \in Int  BY <1>1, MonthsAre
<1>3. january = 12 * (month \div 12)  BY DEF JanuaryOf
<1> HIDE DEF month, january
<1>4. month \in Nat /\ month < 12 * Years  BY <1>0, <1>1 DEF AllMonths
<1>5. /\ january \in Nat /\ january <= month /\ month <= january + 11
      /\ month = january + (month % 12) /\ month % 12 \in 0 .. 11
  BY <1>3, <1>4
<1>6. january + 11 < 12 * Years
  <2> DEFINE y == month \div 12
  <2>1. y \in Nat /\ 12 * y <= month /\ january = 12 * y  BY <1>3, <1>4
  <2> HIDE DEF y
  <2>2. y < Years  BY <1>0, <1>4, <2>1
  <2> QED  BY <1>0, <2>1, <2>2
<1>7. january \in AllMonths /\ january + 11 \in AllMonths
  BY <1>0, <1>5, <1>6 DEF AllMonths
<1> QED  BY <1>1, <1>2, <1>4, <1>5, <1>7 DEF month, january

(* The first day of an earlier month is earlier. *)
LEMMA EarlierMonth ==
    ASSUME NEW today \in AllDays, NEW month \in Int, 0 <= month, month <= MonthOf(today)
    PROVE  /\ month \in AllMonths /\ FirstOf[month] \in Int /\ LastOf(month) \in Int
           /\ FirstOf[month] <= today /\ FirstOf[month] <= LastOf(month)
           /\ month < MonthOf(today) => LastOf(month) < today
<1>1. /\ MonthOf(today) \in AllMonths /\ MonthOf(today) \in Nat /\ today \in Nat
      /\ FirstOf[MonthOf(today)] \in Int /\ FirstOf[MonthOf(today)] <= today
  BY TodayIs
<1>2. month \in AllMonths
  <2>1. Years \in Nat \ {0}  BY PlanningAssumption
  <2> QED  BY <1>1, <2>1 DEF AllMonths
<1>3. FirstOf[month] \in Int /\ LastOf(month) \in Int /\ FirstOf[month] <= LastOf(month)
  BY <1>2, MonthsAre
<1>4. CASE month = MonthOf(today)  BY <1>1, <1>2, <1>3, <1>4
<1>5. CASE month < MonthOf(today)
  <2>1. LastOf(month) < FirstOf[MonthOf(today)]  BY <1>1, <1>2, <1>5, MonthsInOrder
  <2> QED  BY <1>1, <1>2, <1>3, <2>1
<1> QED  BY <1>1, <1>4, <1>5

-----------------------------------------------------------------------------
(***************************************************************************)
(* Sums over finite sets, and orders.                                      *)
(***************************************************************************)

(* Sums.  SumOf folds over a set in the order CHOOSE takes; what it gives  *)
(* does not depend on that order.                                          *)

(* The element a sum takes from a set first. *)
Pick(s) == CHOOSE x \in s : TRUE
(* g is the recursive function the sum is the last value of. *)
Sums(g, f, D) ==
    g = [s \in D |-> IF s = {} THEN 0 ELSE f[Pick(s)] + g[s \ {Pick(s)}]]

(* What SumOf is by its definition. *)
LEMMA SumUnfolded ==
    ASSUME NEW f, NEW S
    PROVE  SumOf(f, S) = (CHOOSE g : Sums(g, f, SUBSET S))[S]
BY DEF SumOf, MapThenSumSet, MapThenFoldSet, Sums, Pick

(* It is one of them. *)
LEMMA PickIn ==
    ASSUME NEW s, s # {}
    PROVE  Pick(s) \in s
BY DEF Pick

(* Taking one element away. *)
LEMMA OneLess ==
    ASSUME NEW R, IsFiniteSet(R), NEW s \in SUBSET R, NEW x \in s
    PROVE  /\ s \ {x} \in SUBSET R
           /\ Cardinality(s) \in Nat
           /\ Cardinality(s \ {x}) \in Nat
           /\ Cardinality(s \ {x}) = Cardinality(s) - 1
           /\ Cardinality(s) <= Cardinality(R)
<1>1. IsFiniteSet(s) /\ Cardinality(s) <= Cardinality(R)  BY FS_Subset
<1>2. IsFiniteSet(s \ {x}) /\ Cardinality(s \ {x}) = Cardinality(s) - 1
  BY <1>1, FS_RemoveElement
<1> QED  BY <1>1, <1>2, FS_CardinalityType

(* The subsets of at most n elements. *)
Small(R, n) == {s \in SUBSET R : Cardinality(s) <= n}

(* There is such a function. *)
LEMMA SumsExist ==
    ASSUME NEW R, IsFiniteSet(R), NEW f \in [R -> Int]
    PROVE  \E g \in [SUBSET R -> Int] : Sums(g, f, SUBSET R)
<1> DEFINE Has(n) == \E g \in [Small(R, n) -> Int] : Sums(g, f, Small(R, n))
           Lacks == {n \in Nat : ~Has(n)}
<1>1. Has(0)
  <2> DEFINE g == [s \in Small(R, 0) |-> 0]
  <2>1. \A s \in Small(R, 0) : s = {}
    <3> SUFFICES ASSUME NEW s \in Small(R, 0)  PROVE s = {}  OBVIOUS
    <3>1. s \in SUBSET R /\ Cardinality(s) <= 0  BY DEF Small
    <3>2. IsFiniteSet(s)  BY <3>1, FS_Subset
    <3> QED  BY <3>1, <3>2, FS_CardinalityType, FS_EmptySet
  <2>2. Sums(g, f, Small(R, 0))  BY <2>1 DEF Sums
  <2>3. g \in [Small(R, 0) -> Int]  OBVIOUS
  <2> QED  BY <2>2, <2>3
<1>2. ASSUME NEW n \in Nat, Has(n)  PROVE Has(n + 1)
  <2>1. PICK g \in [Small(R, n) -> Int] : Sums(g, f, Small(R, n))  BY <1>2
  <2> DEFINE h == [s \in Small(R, n + 1) |->
                     IF s = {} THEN 0 ELSE f[Pick(s)] + g[s \ {Pick(s)}]]
  <2>2. ASSUME NEW s \in Small(R, n + 1), s # {}
        PROVE  Pick(s) \in s /\ Pick(s) \in R /\ s \ {Pick(s)} \in Small(R, n)
               /\ s \ {Pick(s)} \in Small(R, n + 1)
    <3>1. s \in SUBSET R /\ Cardinality(s) <= n + 1  BY DEF Small
    <3>2. Pick(s) \in s  BY <2>2, PickIn
    <3>3. /\ s \ {Pick(s)} \in SUBSET R /\ Cardinality(s) \in Nat
          /\ Cardinality(s \ {Pick(s)}) \in Nat
          /\ Cardinality(s \ {Pick(s)}) = Cardinality(s) - 1
      BY <3>1, <3>2, OneLess
    <3>4. Cardinality(s \ {Pick(s)}) <= n /\ Cardinality(s \ {Pick(s)}) <= n + 1
      BY <3>1, <3>3
    <3> QED  BY <3>1, <3>2, <3>3, <3>4 DEF Small
  <2>3. ASSUME NEW s \in Small(R, n)  PROVE s \in Small(R, n + 1) /\ h[s] = g[s]
    <3>1. s \in Small(R, n + 1)
      <4>1. s \in SUBSET R /\ Cardinality(s) <= n  BY DEF Small
      <4>2. IsFiniteSet(s)  BY <4>1, FS_Subset
      <4>3. Cardinality(s) \in Nat  BY <4>2, FS_CardinalityType
      <4> QED  BY <4>1, <4>3 DEF Small
    <3>2. g[s] = IF s = {} THEN 0 ELSE f[Pick(s)] + g[s \ {Pick(s)}]
      BY <2>1 DEF Sums
    <3> QED  BY <3>1, <3>2
  <2>4. h \in [Small(R, n + 1) -> Int]
    <3> SUFFICES ASSUME NEW s \in Small(R, n + 1)
                 PROVE  (IF s = {} THEN 0 ELSE f[Pick(s)] + g[s \ {Pick(s)}]) \in Int
      OBVIOUS
    <3>1. CASE s = {}  BY <3>1
    <3>2. CASE s # {}
      <4>1. f[Pick(s)] \in Int /\ g[s \ {Pick(s)}] \in Int  BY <2>2, <3>2
      <4> QED  BY <3>2, <4>1
    <3> QED  BY <3>1, <3>2
  <2>5. Sums(h, f, Small(R, n + 1))
    <3>1. \A s \in Small(R, n + 1) : s # {} => h[s \ {Pick(s)}] = g[s \ {Pick(s)}]
      BY <2>2, <2>3
    <3> HIDE DEF h
    <3>2. h = [s \in Small(R, n + 1) |->
                  IF s = {} THEN 0 ELSE f[Pick(s)] + g[s \ {Pick(s)}]]  BY DEF h
    <3>3. h = [s \in Small(R, n + 1) |->
                  IF s = {} THEN 0 ELSE f[Pick(s)] + h[s \ {Pick(s)}]]  BY <3>1, <3>2
    <3> QED  BY <3>3 DEF Sums
  <2> QED  BY <2>4, <2>5
<1>3. Lacks = {}
  <2> SUFFICES ASSUME Lacks # {}  PROVE FALSE  OBVIOUS
  <2>1. Lacks \in SUBSET Nat  OBVIOUS
  <2> HIDE DEF Has
  <2>2. PICK n \in Lacks : \A m \in Lacks : n <= m
    <3> HIDE DEF Lacks
    <3> QED  BY <2>1, LeastNatural
  <2>3. n # 0 /\ n \in Nat  BY <1>1
  <2>4. n - 1 \in Nat /\ n - 1 \notin Lacks  BY <2>2, <2>3
  <2>5. Has(n - 1)  BY <2>4
  <2>6. Has(n - 1 + 1)  BY <1>2, <2>4, <2>5
  <2>7. n - 1 + 1 = n  BY <2>3
  <2> QED  BY <2>6, <2>7
<1>4. Cardinality(R) \in Nat  BY FS_CardinalityType
<1>5. Has(Cardinality(R))  BY <1>3, <1>4
<1>6. Small(R, Cardinality(R)) = SUBSET R  BY FS_Subset DEF Small
<1> QED  BY <1>5, <1>6

(* The least cardinality of the members of a set of finite sets. *)
LEMMA SmallestMember ==
    ASSUME NEW R, IsFiniteSet(R), NEW F \in SUBSET SUBSET R, F # {}
    PROVE  \E s \in F : \A t \in SUBSET R : Cardinality(t) < Cardinality(s) => t \notin F
<1> DEFINE sizes == {Cardinality(s) : s \in F}
<1>1. \A s \in SUBSET R : Cardinality(s) \in Nat
  <2> SUFFICES ASSUME NEW s \in SUBSET R  PROVE Cardinality(s) \in Nat  OBVIOUS
  <2>1. IsFiniteSet(s)  BY FS_Subset
  <2> QED  BY <2>1, FS_CardinalityType
<1>2. sizes \in SUBSET Nat /\ sizes # {}  BY <1>1
<1>3. PICK n \in sizes : \A m \in sizes : n <= m
  <2> HIDE DEF sizes
  <2> QED  BY <1>2, LeastNatural
<1>4. PICK s \in F : Cardinality(s) = n  OBVIOUS
<1>5. \A t \in F : n <= Cardinality(t)  BY <1>3
<1> QED  BY <1>1, <1>4, <1>5

(* It has one value at a set, whatever set it is defined over. *)
LEMMA SumsAgree ==
    ASSUME NEW R, IsFiniteSet(R), NEW S \in SUBSET R, NEW f, NEW g, NEW h,
           Sums(g, f, SUBSET R), Sums(h, f, SUBSET S)
    PROVE  \A s \in SUBSET S : g[s] = h[s]
<1> DEFINE F == {s \in SUBSET S : g[s] # h[s]}
<1> SUFFICES ASSUME F # {}  PROVE FALSE  OBVIOUS
<1>1. IsFiniteSet(S)  BY FS_Subset
<1>2. PICK s \in F : \A t \in SUBSET S : Cardinality(t) < Cardinality(s) => t \notin F
  <2>1. F \in SUBSET SUBSET S  OBVIOUS
  <2> HIDE DEF F
  <2> QED  BY <1>1, <2>1, SmallestMember
<1>3. g[s] = IF s = {} THEN 0 ELSE f[Pick(s)] + g[s \ {Pick(s)}]  BY DEF Sums
<1>4. h[s] = IF s = {} THEN 0 ELSE f[Pick(s)] + h[s \ {Pick(s)}]  BY DEF Sums
<1>5. s # {}  BY <1>3, <1>4
<1>6. Pick(s) \in s  BY <1>5, PickIn
<1>7. s \ {Pick(s)} \in SUBSET S /\ Cardinality(s \ {Pick(s)}) < Cardinality(s)
  <2>1. /\ s \ {Pick(s)} \in SUBSET S /\ Cardinality(s) \in Nat
        /\ Cardinality(s \ {Pick(s)}) \in Nat
        /\ Cardinality(s \ {Pick(s)}) = Cardinality(s) - 1
    BY <1>1, <1>6, OneLess
  <2> QED  BY <2>1
<1>8. g[s \ {Pick(s)}] = h[s \ {Pick(s)}]  BY <1>2, <1>7
<1> QED  BY <1>3, <1>4, <1>5, <1>8

(* All sums over subsets of R are values of one function. *)
LEMMA SumIsValue ==
    ASSUME NEW R, IsFiniteSet(R), NEW f \in [R -> Int]
    PROVE  \E g \in [SUBSET R -> Int] :
              Sums(g, f, SUBSET R) /\ \A S \in SUBSET R : SumOf(f, S) = g[S]
<1>1. PICK g \in [SUBSET R -> Int] : Sums(g, f, SUBSET R)  BY SumsExist
<1>2. ASSUME NEW S \in SUBSET R  PROVE SumOf(f, S) = g[S]
  <2> DEFINE h == CHOOSE h : Sums(h, f, SUBSET S)
             r0 == [s \in SUBSET S |-> g[s]]
  <2>1. \A s \in SUBSET S : s # {} => Pick(s) \in s  BY PickIn
  <2>2. Sums(r0, f, SUBSET S)
    <3>1. \A s \in SUBSET S : g[s] = IF s = {} THEN 0 ELSE f[Pick(s)] + g[s \ {Pick(s)}]
      BY <1>1 DEF Sums
    <3>2. \A s \in SUBSET S : s # {} => r0[s \ {Pick(s)}] = g[s \ {Pick(s)}]  OBVIOUS
    <3>3. r0 = [s \in SUBSET S |-> IF s = {} THEN 0 ELSE f[Pick(s)] + r0[s \ {Pick(s)}]]
      BY <3>1, <3>2
    <3> HIDE DEF r0
    <3> QED  BY <3>3 DEF Sums
  <2>3. Sums(h, f, SUBSET S)
    <3> HIDE DEF r0
    <3> QED  BY <2>2, Zenon
  <2>4. SumOf(f, S) = h[S]  BY SumUnfolded
  <2> HIDE DEF h, r0
  <2>5. \A s \in SUBSET S : g[s] = h[s]
    <3>1. Sums(g, f, SUBSET R)  BY <1>1
    <3>2. ASSUME NEW u, Sums(u, f, SUBSET S)
          PROVE  \A s \in SUBSET S : g[s] = u[s]
      BY <3>1, <3>2, SumsAgree, SMTT(30)
    <3> QED  BY <2>3, <3>2
  <2> QED  BY <2>4, <2>5
<1> QED  BY <1>1, <1>2

(* Sums of integers are integers. *)
LEMMA SumType ==
    ASSUME NEW R, IsFiniteSet(R), NEW f \in [R -> Int], NEW T \in SUBSET R
    PROVE  SumOf(f, T) \in Int
<1>0. IsFiniteSet(R) /\ f \in [R -> Int]  OBVIOUS
<1>1. PICK g \in [SUBSET R -> Int] :
          Sums(g, f, SUBSET R) /\ \A s \in SUBSET R : SumOf(f, s) = g[s]
  BY <1>0, SumIsValue, SMTT(30)
<1>2. g[T] \in Int  BY <1>1
<1> QED  BY <1>1, <1>2

(* A sum over nothing is zero. *)
LEMMA SumEmpty ==
    ASSUME NEW f
    PROVE  SumOf(f, {}) = 0
<1> DEFINE g == [s \in SUBSET {} |-> 0]
           h == CHOOSE h : Sums(h, f, SUBSET {})
<1>1. Sums(g, f, SUBSET {})  BY DEF Sums
<1>2. Sums(h, f, SUBSET {})
  <2> HIDE DEF g
  <2> QED  BY <1>1, Zenon
<1>3. SumOf(f, {}) = h[{}]  BY SumUnfolded
<1> HIDE DEF h
<1>4. h[{}] = 0  BY <1>2 DEF Sums
<1> QED  BY <1>3, <1>4

(* One element of a set counts once, whichever it is. *)
LEMMA SumRemove ==
    ASSUME NEW R, IsFiniteSet(R), NEW f \in [R -> Int], NEW S \in SUBSET R, NEW x \in S
    PROVE  SumOf(f, S) = f[x] + SumOf(f, S \ {x})
<1>0. IsFiniteSet(R) /\ f \in [R -> Int]  OBVIOUS
<1>1. PICK g \in [SUBSET R -> Int] :
          Sums(g, f, SUBSET R) /\ \A s \in SUBSET R : SumOf(f, s) = g[s]
  BY <1>0, SumIsValue, Zenon
<1> DEFINE F == {s \in SUBSET R : \E y \in s : g[s] # f[y] + g[s \ {y}]}
<1>2. F = {}
  <2> SUFFICES ASSUME F # {}  PROVE FALSE  OBVIOUS
  <2>1. PICK s \in F : \A t \in SUBSET R : Cardinality(t) < Cardinality(s) => t \notin F
    <3>1. F \in SUBSET SUBSET R  OBVIOUS
    <3> HIDE DEF F
    <3> QED  BY <3>1, SmallestMember
  <2>2. PICK y \in s : g[s] # f[y] + g[s \ {y}]  OBVIOUS
  <2> DEFINE c == Pick(s)
  <2>3. c \in s  BY <2>2, PickIn
  <2>4. g[s] = f[c] + g[s \ {c}]  BY <1>1, <2>3 DEF Sums
  <2> HIDE DEF c
  <2>5. c # y  BY <2>2, <2>4
  <2>6. ASSUME NEW z \in s
        PROVE  /\ s \ {z} \in SUBSET R /\ s \ {z} \notin F
               /\ g[s \ {z}] \in Int /\ f[z] \in Int
    <3>1. /\ s \ {z} \in SUBSET R /\ Cardinality(s) \in Nat
          /\ Cardinality(s \ {z}) \in Nat
          /\ Cardinality(s \ {z}) = Cardinality(s) - 1
      BY OneLess
    <3>2. Cardinality(s \ {z}) < Cardinality(s)  BY <3>1
    <3>3. s \ {z} \notin F
      <4> HIDE DEF F
      <4> QED  BY <2>1, <3>1, <3>2
    <3>4. z \in R  OBVIOUS
    <3> QED  BY <3>1, <3>3, <3>4
  <2>7. g[s \ {c}] = f[y] + g[(s \ {c}) \ {y}]  BY <2>3, <2>5, <2>6
  <2>8. g[s \ {y}] = f[c] + g[(s \ {y}) \ {c}]  BY <2>3, <2>5, <2>6
  <2> DEFINE rest == g[(s \ {c}) \ {y}]
  <2>9. (s \ {y}) \ {c} = (s \ {c}) \ {y}  OBVIOUS
  <2>10. g[(s \ {y}) \ {c}] = rest  BY <2>9
  <2>11. (s \ {c}) \ {y} \in SUBSET R  OBVIOUS
  <2>12. rest \in Int  BY <2>11
  <2>13. f[c] \in Int /\ f[y] \in Int  BY <2>3, <2>6
  <2>14. g[s] = f[c] + (f[y] + rest)  BY <2>4, <2>7
  <2>15. g[s \ {y}] = f[c] + rest  BY <2>8, <2>10
  <2> HIDE DEF rest
  <2> QED  BY <2>2, <2>12, <2>13, <2>14, <2>15
<1>3. g[S] = f[x] + g[S \ {x}]  BY <1>2
<1>4. S \ {x} \in SUBSET R  OBVIOUS
<1> QED  BY <1>1, <1>3, <1>4

(* One more element adds what it carries. *)
LEMMA SumAdd ==
    ASSUME NEW R, IsFiniteSet(R), NEW f \in [R -> Int], NEW S \in SUBSET R, NEW x \in R \ S
    PROVE  SumOf(f, S \cup {x}) = SumOf(f, S) + f[x]
<1>1. S \cup {x} \in SUBSET R /\ (S \cup {x}) \ {x} = S  OBVIOUS
<1>2. SumOf(f, S \cup {x}) = f[x] + SumOf(f, S)
  <2>1. x \in S \cup {x}  OBVIOUS
  <2>2. SumOf(f, S \cup {x}) = f[x] + SumOf(f, (S \cup {x}) \ {x})
    BY <1>1, <2>1, SumRemove
  <2> QED  BY <1>1, <2>2
<1>3. SumOf(f, S) \in Int /\ f[x] \in Int  BY SumType
<1> QED  BY <1>2, <1>3

(* The sum over a set is the sum over two parts of it. *)
LEMMA SumSplit ==
    ASSUME NEW R, IsFiniteSet(R), NEW f \in [R -> Int], NEW S \in SUBSET R, NEW T \in SUBSET R,
           S \cap T = {}
    PROVE  SumOf(f, S \cup T) = SumOf(f, S) + SumOf(f, T)
<1> DEFINE F == {t \in SUBSET T : SumOf(f, S \cup t) # SumOf(f, S) + SumOf(f, t)}
<1>0. SumOf(f, S) \in Int  BY SumType
<1>1. F = {}
  <2> SUFFICES ASSUME F # {}  PROVE FALSE  OBVIOUS
  <2>0. IsFiniteSet(T)  BY FS_Subset
  <2>1. PICK t \in F : \A u \in SUBSET T : Cardinality(u) < Cardinality(t) => u \notin F
    <3>1. F \in SUBSET SUBSET T  OBVIOUS
    <3> HIDE DEF F
    <3> QED  BY <2>0, <3>1, SmallestMember
  <2>2. t # {}
    <3> SUFFICES ASSUME t = {}  PROVE FALSE  OBVIOUS
    <3>1. SumOf(f, t) = 0  BY SumEmpty
    <3>2. S \cup t = S  OBVIOUS
    <3> QED  BY <1>0, <3>1, <3>2
  <2>3. PICK x \in t : TRUE  BY <2>2
  <2>4. /\ t \ {x} \in SUBSET T /\ Cardinality(t) \in Nat
        /\ Cardinality(t \ {x}) \in Nat
        /\ Cardinality(t \ {x}) = Cardinality(t) - 1
    BY <2>0, OneLess
  <2>5. Cardinality(t \ {x}) < Cardinality(t)  BY <2>4
  <2>6. SumOf(f, S \cup (t \ {x})) = SumOf(f, S) + SumOf(f, t \ {x})
    BY <2>1, <2>4, <2>5
  <2>7. x \in R /\ x \notin t \ {x} /\ x \notin S \cup (t \ {x})
        /\ t \ {x} \in SUBSET R /\ S \cup (t \ {x}) \in SUBSET R  OBVIOUS
  <2>8. SumOf(f, t) = f[x] + SumOf(f, t \ {x})
    <3>1. t \in SUBSET R  OBVIOUS
    <3> QED  BY <3>1, SumRemove
  <2>9. SumOf(f, S \cup t) = f[x] + SumOf(f, S \cup (t \ {x}))
    <3>1. S \cup t \in SUBSET R /\ x \in S \cup t  OBVIOUS
    <3>2. SumOf(f, S \cup t) = f[x] + SumOf(f, (S \cup t) \ {x})
      BY <3>1, SumRemove
    <3>3. (S \cup t) \ {x} = S \cup (t \ {x})  BY <2>7
    <3> QED  BY <3>2, <3>3
  <2>11. SumOf(f, t \ {x}) \in Int /\ f[x] \in Int  BY <2>7, SumType
  <2>12. SumOf(f, S \cup t) = SumOf(f, S) + SumOf(f, t)
    <3>1. SumOf(f, S \cup t) = f[x] + (SumOf(f, S) + SumOf(f, t \ {x}))
      BY <2>6, <2>9
    <3> QED  BY <1>0, <2>8, <2>11, <3>1
  <2> QED  BY <2>12
<1> QED  BY <1>1
(* A sum of zeros is zero. *)
LEMMA SumZero ==
    ASSUME NEW R, IsFiniteSet(R), NEW f \in [R -> Int], NEW S \in SUBSET R, \A x \in S : f[x] = 0
    PROVE  SumOf(f, S) = 0
<1> DEFINE F == {t \in SUBSET S : SumOf(f, t) # 0}
<1>0. IsFiniteSet(S)  BY FS_Subset
<1>1. F = {}
  <2> SUFFICES ASSUME F # {}  PROVE FALSE  OBVIOUS
  <2>1. PICK t \in F : \A u \in SUBSET S : Cardinality(u) < Cardinality(t) => u \notin F
    <3>1. F \in SUBSET SUBSET S  OBVIOUS
    <3> HIDE DEF F
    <3> QED  BY <1>0, <3>1, SmallestMember
  <2>2. t # {}  BY SumEmpty
  <2>3. PICK x \in t : TRUE  BY <2>2
  <2>4. t \ {x} \in SUBSET S /\ Cardinality(t \ {x}) < Cardinality(t)
    <3>1. t \in SUBSET S  OBVIOUS
    <3>2. /\ t \ {x} \in SUBSET S /\ Cardinality(t) \in Nat /\ Cardinality(t \ {x}) \in Nat
          /\ Cardinality(t \ {x}) = Cardinality(t) - 1
      BY <1>0, <3>1, OneLess
    <3> QED  BY <3>2
  <2>5. SumOf(f, t \ {x}) = 0  BY <2>1, <2>4
  <2>6. SumOf(f, t) = f[x] + SumOf(f, t \ {x})
    <3>1. t \in SUBSET R  OBVIOUS
    <3> QED  BY <3>1, SumRemove
  <2> QED  BY <2>5, <2>6
<1> QED  BY <1>1

(* What is summed matters only where it is summed. *)
LEMMA SumSame ==
    ASSUME NEW R, IsFiniteSet(R), NEW f \in [R -> Int], NEW Q, IsFiniteSet(Q), NEW g \in [Q -> Int],
           NEW S \in SUBSET R, S \in SUBSET Q, \A x \in S : f[x] = g[x]
    PROVE  SumOf(f, S) = SumOf(g, S)
<1> DEFINE F == {t \in SUBSET S : SumOf(f, t) # SumOf(g, t)}
<1>0. IsFiniteSet(S)  BY FS_Subset
<1>1. F = {}
  <2> SUFFICES ASSUME F # {}  PROVE FALSE  OBVIOUS
  <2>1. PICK t \in F : \A u \in SUBSET S : Cardinality(u) < Cardinality(t) => u \notin F
    <3>1. F \in SUBSET SUBSET S  OBVIOUS
    <3> HIDE DEF F
    <3> QED  BY <1>0, <3>1, SmallestMember
  <2>2. t # {}  BY SumEmpty
  <2>3. PICK x \in t : TRUE  BY <2>2
  <2>4. t \ {x} \in SUBSET S /\ Cardinality(t \ {x}) < Cardinality(t)
    <3>1. t \in SUBSET S  OBVIOUS
    <3>2. /\ t \ {x} \in SUBSET S /\ Cardinality(t) \in Nat /\ Cardinality(t \ {x}) \in Nat
          /\ Cardinality(t \ {x}) = Cardinality(t) - 1
      BY <1>0, <3>1, OneLess
    <3> QED  BY <3>2
  <2>5. SumOf(f, t \ {x}) = SumOf(g, t \ {x})  BY <2>1, <2>4
  <2>6. SumOf(f, t) = f[x] + SumOf(f, t \ {x}) /\ SumOf(g, t) = g[x] + SumOf(g, t \ {x})
    <3>1. t \in SUBSET R /\ t \in SUBSET Q  OBVIOUS
    <3>2. SumOf(f, t) = f[x] + SumOf(f, t \ {x})  BY <3>1, SumRemove
    <3>3. SumOf(g, t) = g[x] + SumOf(g, t \ {x})  BY <3>1, SumRemove
    <3> QED  BY <3>2, <3>3
  <2>7. f[x] = g[x]  OBVIOUS
  <2> QED  BY <2>5, <2>6, <2>7
<1> QED  BY <1>1

(* A sum of integers from 0 on is 0 or more. *)
LEMMA SumNat ==
    ASSUME NEW R, IsFiniteSet(R), NEW f \in [R -> Int], NEW S \in SUBSET R, \A x \in S : f[x] >= 0
    PROVE  SumOf(f, S) \in Nat
<1> DEFINE F == {t \in SUBSET S : ~(SumOf(f, t) \in Nat)}
<1>0. IsFiniteSet(S)  BY FS_Subset
<1>1. F = {}
  <2> SUFFICES ASSUME F # {}  PROVE FALSE  OBVIOUS
  <2>1. PICK t \in F : \A u \in SUBSET S : Cardinality(u) < Cardinality(t) => u \notin F
    <3>1. F \in SUBSET SUBSET S  OBVIOUS
    <3> HIDE DEF F
    <3> QED  BY <1>0, <3>1, SmallestMember
  <2>2. t # {}  BY SumEmpty
  <2>3. PICK x \in t : TRUE  BY <2>2
  <2>4. t \ {x} \in SUBSET S /\ Cardinality(t \ {x}) < Cardinality(t)
    <3>1. t \in SUBSET S  OBVIOUS
    <3>2. /\ t \ {x} \in SUBSET S /\ Cardinality(t) \in Nat /\ Cardinality(t \ {x}) \in Nat
          /\ Cardinality(t \ {x}) = Cardinality(t) - 1
      BY <1>0, <3>1, OneLess
    <3> QED  BY <3>2
  <2>5. SumOf(f, t \ {x}) \in Nat  BY <2>1, <2>4
  <2>6. SumOf(f, t) = f[x] + SumOf(f, t \ {x})
    <3>1. t \in SUBSET R  OBVIOUS
    <3> QED  BY <3>1, SumRemove
  <2>7. f[x] \in Nat
    <3>1. x \in R /\ f[x] >= 0  OBVIOUS
    <3> QED  BY <3>1
  <2> QED  BY <2>5, <2>6, <2>7
<1> QED  BY <1>1

(* A sum over parts of a set, each of them summed, is the sum over the set.*)
LEMMA SumByParts ==
    ASSUME NEW R, IsFiniteSet(R), NEW f \in [R -> Int], NEW K, IsFiniteSet(K),
           NEW parts \in [K -> SUBSET R],
           \A k \in K : \A l \in K : k # l => parts[k] \cap parts[l] = {}
    PROVE  SumOf(f, UNION {parts[k] : k \in K}) = SumOf([k \in K |-> SumOf(f, parts[k])], K)
<1> DEFINE g == [k \in K |-> SumOf(f, parts[k])]
           All(t) == UNION {parts[k] : k \in t}
           F == {t \in SUBSET K : SumOf(f, All(t)) # SumOf(g, t)}
<1>0. g \in [K -> Int]
  <2> SUFFICES ASSUME NEW k \in K  PROVE SumOf(f, parts[k]) \in Int  OBVIOUS
  <2>1. parts[k] \in SUBSET R  OBVIOUS
  <2> QED  BY <2>1, SumType
<1>1. \A k \in K : g[k] = SumOf(f, parts[k])  OBVIOUS
<1>2. F = {}
  <2> SUFFICES ASSUME F # {}  PROVE FALSE  OBVIOUS
  <2>1. PICK t \in F : \A u \in SUBSET K : Cardinality(u) < Cardinality(t) => u \notin F
    <3>1. F \in SUBSET SUBSET K  OBVIOUS
    <3> HIDE DEF F
    <3> QED  BY <3>1, SmallestMember
  <2>2. t # {}
    <3> SUFFICES ASSUME t = {}  PROVE FALSE  OBVIOUS
    <3>1. All(t) = {}  OBVIOUS
    <3> HIDE DEF All, g
    <3>2. SumOf(f, {}) = 0 /\ SumOf(g, {}) = 0  BY SumEmpty
    <3> QED  BY <3>1, <3>2
  <2>3. PICK x \in t : TRUE  BY <2>2
  <2>4. t \ {x} \in SUBSET K /\ Cardinality(t \ {x}) < Cardinality(t)
    <3>1. t \in SUBSET K  OBVIOUS
    <3>2. /\ t \ {x} \in SUBSET K /\ Cardinality(t) \in Nat /\ Cardinality(t \ {x}) \in Nat
          /\ Cardinality(t \ {x}) = Cardinality(t) - 1
      BY <3>1, OneLess
    <3> QED  BY <3>2
  <2>5. SumOf(f, All(t \ {x})) = SumOf(g, t \ {x})
    <3>1. t \ {x} \notin F  BY <2>1, <2>4
    <3> HIDE DEF All, g
    <3> QED  BY <2>4, <3>1
  <2>6. /\ All(t) = All(t \ {x}) \cup parts[x] /\ All(t \ {x}) \cap parts[x] = {}
        /\ All(t \ {x}) \in SUBSET R /\ parts[x] \in SUBSET R /\ x \in K
    <3>1. t \in SUBSET K /\ x \in K  OBVIOUS
    <3>2. \A y : y \in All(t) <=> \E k \in t : y \in parts[k]  OBVIOUS
    <3>3. \A y : y \in All(t \ {x}) <=> \E k \in t \ {x} : y \in parts[k]  OBVIOUS
    <3> HIDE DEF All, F
    <3> QED  BY <3>1, <3>2, <3>3
  <2> HIDE DEF All
  <2>7. SumOf(f, All(t)) = SumOf(f, All(t \ {x})) + g[x]
    <3> HIDE DEF g, F
    <3>0. ASSUME NEW A \in SUBSET R, NEW B \in SUBSET R, A \cap B = {}
          PROVE  SumOf(f, A \cup B) = SumOf(f, A) + SumOf(f, B)
      BY <3>0, SumSplit
    <3>1. SumOf(f, All(t \ {x}) \cup parts[x]) = SumOf(f, All(t \ {x})) + SumOf(f, parts[x])
      BY <2>6, <3>0
    <3> QED  BY <1>1, <2>6, <3>1
  <2> HIDE DEF g
  <2>8. SumOf(g, t) = g[x] + SumOf(g, t \ {x})
    <3>1. t \in SUBSET K  OBVIOUS
    <3> QED  BY <1>0, <3>1, SumRemove
  <2>9. SumOf(g, t \ {x}) \in Int /\ g[x] \in Int  BY <1>0, <2>4, <2>6, SumType
  <2>10. SumOf(f, All(t)) = SumOf(g, t)  BY <2>5, <2>7, <2>8, <2>9
  <2>11. SumOf(f, All(t)) # SumOf(g, t)  OBVIOUS
  <2> QED  BY <2>10, <2>11
<1>3. SumOf(f, All(K)) = SumOf(g, K)
  <2>1. K \in SUBSET K  OBVIOUS
  <2>2. K \notin F  BY <1>2
  <2> HIDE DEF All, g
  <2> QED  BY <2>1, <2>2
<1> QED  BY <1>3

(* s is S in the order of its keys. *)
Ordering(s, S, key) ==
    /\ s \in Injection(1 .. Cardinality(S), S)
    /\ \A i, j \in DOMAIN s : i < j => key[s[i]] <= key[s[j]]

(* Every finite set can be put in order. *)
LEMMA OrderExists ==
    ASSUME NEW R, IsFiniteSet(R), NEW key \in [R -> Int]
    PROVE  \E s : Ordering(s, R, key)
<1> DEFINE Has(n) == \A S \in SUBSET R : Cardinality(S) = n => \E s : Ordering(s, S, key)
           T == {n \in Nat : Has(n)}
<1>1. Has(0)
  <2> SUFFICES ASSUME NEW S \in SUBSET R, Cardinality(S) = 0  PROVE \E s : Ordering(s, S, key)
    OBVIOUS
  <2>1. S = {}
    <3>1. IsFiniteSet(S)  BY FS_Subset
    <3> QED  BY <3>1, FS_EmptySet
  <2> DEFINE s == [i \in 1 .. 0 |-> i]
  <2>2. 1 .. 0 = {} /\ Cardinality(S) = 0  OBVIOUS
  <2>3. s \in [1 .. 0 -> S] /\ IsInjective(s)  BY <2>2 DEF IsInjective
  <2>4. Ordering(s, S, key)  BY <2>2, <2>3 DEF Ordering, Injection
  <2> QED  BY <2>4
<1>2. ASSUME NEW n \in Nat, Has(n)  PROVE Has(n + 1)
  <2> SUFFICES ASSUME NEW S \in SUBSET R, Cardinality(S) = n + 1
               PROVE  \E s : Ordering(s, S, key)
    OBVIOUS
  <2>1. IsFiniteSet(S)  BY FS_Subset
  <2>2. S # {}  BY <2>1, FS_EmptySet
  <2> DEFINE v == [x \in S |-> key[x]]
  <2>3. v \in [S -> Int]  OBVIOUS
  <2>4. PICK m \in S : \A x \in S : v[x] <= v[m]
    <3> HIDE DEF v
    <3> QED  BY <2>1, <2>2, <2>3, FamilyGreatest
  <2>5. \A x \in S : key[x] <= key[m]  BY <2>4
  <2> HIDE DEF v
  <2>6. S \ {m} \in SUBSET R /\ Cardinality(S \ {m}) = n
    <3>1. /\ S \ {m} \in SUBSET R /\ Cardinality(S) \in Nat
          /\ Cardinality(S \ {m}) = Cardinality(S) - 1
      BY OneLess
    <3> QED  BY <3>1
  <2>7. PICK s : Ordering(s, S \ {m}, key)  BY <1>2, <2>6
  <2>8. /\ s \in [1 .. n -> S \ {m}] /\ IsInjective(s)
        /\ \A i, j \in 1 .. n : i < j => key[s[i]] <= key[s[j]]
    BY <2>6, <2>7 DEF Ordering, Injection
  <2> DEFINE t == [i \in 1 .. n + 1 |-> IF i = n + 1 THEN m ELSE s[i]]
  <2>9. ASSUME NEW i \in 1 .. n + 1
        PROVE  IF i = n + 1 THEN t[i] = m ELSE i \in 1 .. n /\ t[i] = s[i] /\ t[i] \in S \ {m}
    <3>1. i = n + 1 \/ i \in 1 .. n  OBVIOUS
    <3>2. i \in 1 .. n => i # n + 1 /\ s[i] \in S \ {m}  BY <2>8
    <3> QED  BY <3>1, <3>2
  <2>10. t \in [1 .. n + 1 -> S]
    <3>1. \A i \in 1 .. n + 1 : t[i] \in S  BY <2>9
    <3>2. t = [i \in 1 .. n + 1 |-> t[i]]  OBVIOUS
    <3> HIDE DEF t
    <3> QED  BY <3>1, <3>2
  <2> HIDE DEF t
  <2>11. IsInjective(t)
    <3> SUFFICES ASSUME NEW i \in 1 .. n + 1, NEW j \in 1 .. n + 1, t[i] = t[j]  PROVE i = j
      BY <2>10 DEF IsInjective
    <3>1. CASE i = n + 1 \/ j = n + 1  BY <2>9, <3>1
    <3>2. CASE i # n + 1 /\ j # n + 1
      <4>1. i \in 1 .. n /\ j \in 1 .. n /\ s[i] = s[j]  BY <2>9, <3>2
      <4> QED  BY <2>8, <4>1 DEF IsInjective
    <3> QED  BY <3>1, <3>2
  <2>12. ASSUME NEW i \in 1 .. n + 1, NEW j \in 1 .. n + 1, i < j
         PROVE  key[t[i]] <= key[t[j]]
    <3>1. i # n + 1  BY <2>12
    <3>2. t[i] = s[i] /\ i \in 1 .. n /\ t[i] \in S  BY <2>9, <3>1
    <3>3. CASE j = n + 1  BY <2>5, <2>9, <3>2, <3>3
    <3>4. CASE j # n + 1
      <4>1. t[j] = s[j] /\ j \in 1 .. n  BY <2>9, <3>4
      <4> QED  BY <2>8, <2>12, <3>2, <4>1
    <3> QED  BY <3>3, <3>4
  <2>13. DOMAIN t = 1 .. n + 1  BY <2>10
  <2>14. Ordering(t, S, key)  BY <2>10, <2>11, <2>12, <2>13 DEF Ordering, Injection
  <2> QED  BY <2>14
<1>3. Has(Cardinality(R))
  <2>1. T \in SUBSET Nat /\ 0 \in T  BY <1>1
  <2>2. \A n \in T : n + 1 \in T  BY <1>2
  <2> HIDE DEF Has
  <2>3. T = Nat
    <3> HIDE DEF T
    <3> QED  BY <2>1, <2>2, AllNaturals
  <2>4. Cardinality(R) \in T  BY <2>3, FS_CardinalityType
  <2> QED  BY <2>4
<1> QED  BY <1>3

(* InOrder yields each member once, by its key. *)
LEMMA InOrderIs ==
    ASSUME NEW S, IsFiniteSet(S), NEW key, \A x \in S : key[x] \in Int
    PROVE  LET s == InOrder(S, key)
               n == Cardinality(S)
           IN /\ n \in Nat /\ s \in [1 .. n -> S] /\ s \in Seq(S) /\ Len(s) = n
              /\ \A i, j \in 1 .. n : s[i] = s[j] => i = j
              /\ \A x \in S : \E i \in 1 .. n : s[i] = x
              /\ \A i, j \in 1 .. n : i < j => key[s[i]] <= key[s[j]]
<1> DEFINE s == InOrder(S, key)
           n == Cardinality(S)
           own == [x \in S |-> key[x]]
<1>1. n \in Nat  BY FS_CardinalityType
<1>2. \E t : Ordering(t, S, key)
  <2>1. own \in [S -> Int] /\ \A x \in S : own[x] = key[x]  OBVIOUS
  <2> HIDE DEF own
  <2>2. PICK t : Ordering(t, S, own)  BY <2>1, OrderExists
  <2>3. t \in [1 .. n -> S] /\ DOMAIN t = 1 .. n  BY <2>2 DEF Ordering, Injection
  <2>4. \A i \in 1 .. n : own[t[i]] = key[t[i]]  BY <2>1, <2>3
  <2>5. Ordering(t, S, key)  BY <2>2, <2>3, <2>4 DEF Ordering
  <2> QED  BY <2>5
<1>3. Ordering(s, S, key)
  <2>1. s = CHOOSE t \in Injection(1 .. Cardinality(S), S) :
                \A i, j \in DOMAIN t : i < j => key[t[i]] <= key[t[j]]
    BY DEF InOrder
  <2>2. \E t \in Injection(1 .. Cardinality(S), S) :
                \A i, j \in DOMAIN t : i < j => key[t[i]] <= key[t[j]]
    BY <1>2 DEF Ordering
  <2> QED  BY <2>1, <2>2, Zenon DEF Ordering
<1> HIDE DEF s
<1>4. s \in [1 .. n -> S] /\ s \in Injection(1 .. n, S) /\ DOMAIN s = 1 .. n
  BY <1>3 DEF Ordering, Injection
<1>5. s \in Surjection(1 .. n, S)
  <2>1. Cardinality(1 .. n) = n
    <3>1. 1 \in Int /\ n \in Int  BY <1>1
    <3>2. Cardinality(1 .. n) = IF 1 > n THEN 0 ELSE n - 1 + 1  BY <3>1, FS_Interval
    <3> QED  BY <1>1, <3>2
  <2> HIDE DEF n
  <2>2. Cardinality(1 .. n) = Cardinality(S) <=> s \in Surjection(1 .. n, S)
    BY <1>4, FS_Injection
  <2> QED  BY <2>1, <2>2 DEF n
<1>6. s \in Seq(S) /\ Len(s) = n  BY <1>1, <1>4
<1>7. \A i, j \in 1 .. n : s[i] = s[j] => i = j  BY <1>4 DEF Injection, IsInjective
<1>8. \A x \in S : \E i \in 1 .. n : s[i] = x  BY <1>5 DEF Surjection
<1>9. \A i, j \in 1 .. n : i < j => key[s[i]] <= key[s[j]]  BY <1>3, <1>4 DEF Ordering
<1> QED  BY <1>1, <1>4, <1>6, <1>7, <1>8, <1>9 DEF s

-----------------------------------------------------------------------------
(***************************************************************************)
(* The figures of a book: groups, totals and rows.                         *)
(***************************************************************************)

(* A book of finitely many transactions of whole cents, in the calendar. *)
Kept(book) ==
    /\ IsFiniteSet(DOMAIN book)
    /\ \A i \in DOMAIN book : book[i].amount \in Int /\ book[i].day \in AllDays

(* What a plan counts a transaction for. *)
Counted(book, plan) ==
    [i \in DOMAIN book |-> IF plan.metric = "count" THEN 1
                           ELSE IF plan.direction = "net" THEN book[i].amount
                           ELSE AmountSize(book[i].amount)]

(* What is rounded keeps its sign. *)
LEMMA RoundedIs ==
    ASSUME NEW n \in Int, NEW d \in Nat \ {0}
    PROVE  Rounded(n, d) \in Int /\ (n >= 0 => Rounded(n, d) >= 0)
<1> DEFINE half == (2 * AmountSize(n) + d) \div (2 * d)
           up == 2 * AmountSize(n) + d
           by == 2 * d
<1>1. AmountSize(n) \in Nat  BY DEF AmountSize
<1>2. up \in Nat /\ by \in Nat \ {0}  BY <1>1
<1>3. half = up \div by  OBVIOUS
<1> HIDE DEF half, up, by
<1>4. half \in Int /\ half >= 0
  <2>1. up \div by \in Int /\ up \div by >= 0  BY ONLY <1>2, Z3
  <2> QED  BY <1>3, <2>1
<1>5. Rounded(n, d) = IF n < 0 THEN -half ELSE half  BY DEF Rounded, half
<1> QED  BY <1>4, <1>5

(* Figures are integers, and natural numbers where signs do not matter;    *)
(* sums and counts are what each transaction counts for, added up.         *)
LEMMA TotalIs ==
    ASSUME NEW book, Kept(book), NEW plan, NEW rows \in SUBSET DOMAIN book
    PROVE  /\ Counted(book, plan) \in [DOMAIN book -> Int]
           /\ plan.metric \in {"sum", "count"} =>
                Total(book, plan, rows) = SumOf(Counted(book, plan), rows)
           /\ Total(book, plan, rows) \in Int
           /\ plan.direction # "net" => Total(book, plan, rows) \in Nat
           /\ rows = {} => Total(book, plan, rows) = 0
           /\ IsFiniteSet(rows) /\ Cardinality(rows) \in Nat
<1> DEFINE f == Counted(book, plan)
           D == DOMAIN book
           values == {f[i] : i \in rows}
           total == Total(book, plan, rows)
<1>1. \A n \in Int : AmountSize(n) \in Nat  BY DEF AmountSize
<1>2. \A i \in D : f[i] \in Int /\ (plan.direction # "net" => f[i] >= 0)
  BY <1>1 DEF Counted, Kept
<1>3. f \in [D -> Int]
  <2>1. f = [i \in D |-> f[i]]  BY DEF Counted
  <2> HIDE DEF f, D
  <2> QED  BY <1>2, <2>1
<1>4. total = CASE plan.metric \in {"sum", "count"} \/ rows = {} -> SumOf(f, rows)
                [] plan.metric = "avg" /\ rows # {} -> Rounded(SumOf(f, rows), Cardinality(rows))
                [] plan.metric = "max" /\ rows # {} -> Max(values)
                [] OTHER -> Min(values)
  BY DEF Total, Counted
<1>5. IsFiniteSet(D)  BY DEF Kept
<1> HIDE DEF f, D, total
<1>6. rows \in SUBSET D  BY DEF D
<1>7. SumOf(f, rows) \in Int  BY <1>3, <1>5, <1>6, SumType
<1>8. ASSUME plan.direction # "net"  PROVE SumOf(f, rows) \in Nat
  <2>1. \A i \in rows : f[i] >= 0  BY <1>2, <1>6, <1>8
  <2> QED  BY <1>3, <1>5, <1>6, <2>1, SumNat
<1>9. IsFiniteSet(rows) /\ Cardinality(rows) \in Nat
  BY <1>5, <1>6, FS_Subset, FS_CardinalityType
<1> DEFINE Figure(x) == x \in Int /\ (plan.direction # "net" => x >= 0)
<1>10. Figure(SumOf(f, rows))  BY <1>7, <1>8
<1>11. ASSUME rows # {}  PROVE Figure(Rounded(SumOf(f, rows), Cardinality(rows)))
  <2>1. Cardinality(rows) \in Nat \ {0}  BY <1>9, <1>11, FS_EmptySet
  <2> QED  BY <1>10, <2>1, RoundedIs
<1>12. ASSUME rows # {}  PROVE Figure(Max(values)) /\ Figure(Min(values))
  <2>1. \A x \in values : Figure(x)  BY <1>2, <1>6
  <2>2. PICK m \in rows : \A i \in rows : f[i] <= f[m]
    <3>1. [i \in rows |-> f[i]] \in [rows -> Int]  BY <1>2, <1>6
    <3>2. \E k \in rows : \A i \in rows : [j \in rows |-> f[j]][i] <= [j \in rows |-> f[j]][k]
      BY <1>9, <1>12, <3>1, FamilyGreatest
    <3> QED  BY <3>2
  <2>3. PICK l \in rows : \A i \in rows : -f[i] <= -f[l]
    <3>1. [i \in rows |-> -f[i]] \in [rows -> Int]  BY <1>2, <1>6
    <3>2. \E k \in rows : \A i \in rows : [j \in rows |-> -f[j]][i] <= [j \in rows |-> -f[j]][k]
      BY <1>9, <1>12, <3>1, FamilyGreatest
    <3> QED  BY <3>2
  <2>4. f[m] \in values /\ \A x \in values : f[m] >= x  BY <1>2, <1>6, <2>2
  <2>5. f[l] \in values /\ \A x \in values : f[l] <= x  BY <1>2, <1>6, <2>3
  <2> HIDE DEF values
  <2>6. Max(values) \in values  BY <2>4, Zenon DEF Max
  <2>7. Min(values) \in values  BY <2>5, Zenon DEF Min
  <2> QED  BY <2>1, <2>6, <2>7
<1>13. Figure(total)
  <2> HIDE DEF Figure
  <2> QED  BY <1>4, <1>10, <1>11, <1>12
<1>14. plan.metric \in {"sum", "count"} \/ rows = {} => total = SumOf(f, rows)  BY <1>4
<1> QED  BY <1>3, <1>9, <1>13, <1>14, SumEmpty DEF f, D, total

(* The row of a bucket, and the buckets there are. *)
RowOf(book, plan, bucket) ==
    [label |-> bucket, value |-> Total(book, plan, Members(book, plan, bucket)),
     count |-> Cardinality(Members(book, plan, bucket))]
Buckets(book, plan) == {Bucket(book[i], plan.group) : i \in Selected(book, plan, plan.period)}

(* Every group is the row of one bucket, and no more than transactions. *)
LEMMA GroupsAre ==
    ASSUME NEW book, Kept(book), NEW plan
    PROVE  /\ Selected(book, plan, plan.period) \in SUBSET DOMAIN book
           /\ \A b : Members(book, plan, b) \in SUBSET Selected(book, plan, plan.period)
           /\ \A g \in Groups(book, plan) :
                \E b \in Buckets(book, plan) : g = RowOf(book, plan, b)
           /\ plan.intent # "recurring" =>
                \A b \in Buckets(book, plan) : RowOf(book, plan, b) \in Groups(book, plan)
           /\ IsFiniteSet(Groups(book, plan)) /\ Cardinality(Groups(book, plan)) \in Nat
           /\ Cardinality(Groups(book, plan)) <= Cardinality(DOMAIN book)
<1> DEFINE S == Selected(book, plan, plan.period)
           G == Groups(book, plan)
           B == Buckets(book, plan)
           Row(b) == RowOf(book, plan, b)
           At(i) == Bucket(book[i], plan.group)
<1>1. S \in SUBSET DOMAIN book  BY DEF Selected
<1>2. \A b : Members(book, plan, b) \in SUBSET S  BY DEF Members
<1>3. \A g \in G : \E b \in B : g = Row(b)
  BY DEF Groups, Buckets, RowOf
<1>4. plan.intent # "recurring" => \A b \in B : Row(b) \in G
  BY DEF Groups, Buckets, RowOf
<1>5. IsFiniteSet(S) /\ Cardinality(S) \in Nat /\ Cardinality(S) <= Cardinality(DOMAIN book)
      /\ Cardinality(DOMAIN book) \in Nat
  <2> HIDE DEF S
  <2> QED  BY <1>1, FS_Subset, FS_CardinalityType DEF Kept
<1>6. IsFiniteSet(G) /\ Cardinality(G) <= Cardinality(S)
  <2> DEFINE s == {i \in S : Row(At(i)) \in G}
             f == [i \in s |-> Row(At(i))]
  <2>1. \A g \in G : \E i \in s : f[i] = g
    <3> SUFFICES ASSUME NEW g \in G  PROVE \E i \in s : f[i] = g  OBVIOUS
    <3>1. PICK b \in B : g = Row(b)  BY <1>3
    <3>2. PICK i \in S : b = At(i)  BY DEF Buckets
    <3> HIDE DEF S, G, Row, At
    <3>3. Row(At(i)) = g  BY <3>1, <3>2
    <3>4. i \in s /\ f[i] = g  BY <3>3
    <3> QED  BY <3>4
  <2>2. f \in [s -> G]  OBVIOUS
  <2> HIDE DEF f
  <2>3. f \in Surjection(s, G)  BY <2>1, <2>2 DEF Surjection
  <2>4. s \in SUBSET S  OBVIOUS
  <2> HIDE DEF s, G, S
  <2>5. IsFiniteSet(s) /\ Cardinality(s) <= Cardinality(S)  BY <1>5, <2>4, FS_Subset
  <2>6. IsFiniteSet(G) /\ Cardinality(G) <= Cardinality(s)  BY <2>3, <2>5, FS_Surjection
  <2>7. Cardinality(s) \in Nat /\ Cardinality(G) \in Nat  BY <2>5, <2>6, FS_CardinalityType
  <2> QED  BY <1>5, <2>5, <2>6, <2>7
<1> HIDE DEF S, G, B, Row
<1>7. Cardinality(G) \in Nat /\ Cardinality(G) <= Cardinality(DOMAIN book)
  BY <1>5, <1>6, FS_CardinalityType
<1> QED  BY <1>1, <1>2, <1>3, <1>4, <1>6, <1>7 DEF S, G, B, Row

(* Groups that fit are all there, each once. *)
LEMMA GroupedIs ==
    ASSUME NEW book, Kept(book), NEW plan, plan.limit \in Nat,
           Cardinality(Groups(book, plan)) <= plan.limit,
           plan.byTime => \A b \in Buckets(book, plan) : b \in Int
    PROVE  LET rows == Grouped(book, plan)
               n == Cardinality(Groups(book, plan))
           IN /\ n \in Nat /\ rows \in Seq(Groups(book, plan)) /\ Len(rows) = n
              /\ \A i, j \in 1 .. n : rows[i].label = rows[j].label => i = j
              /\ \A i \in 1 .. n :
                    /\ rows[i].label \in Buckets(book, plan)
                    /\ rows[i] = RowOf(book, plan, rows[i].label)
              /\ plan.intent # "recurring" =>
                    \A b \in Buckets(book, plan) : \E i \in 1 .. n : rows[i].label = b
<1> DEFINE G == Groups(book, plan)
           B == Buckets(book, plan)
           Row(b) == RowOf(book, plan, b)
           key == [g \in G |-> IF plan.byTime THEN g.label ELSE -g.value]
           s == InOrder(G, key)
           n == Cardinality(G)
<1>1. /\ IsFiniteSet(G) /\ n \in Nat /\ \A g \in G : \E b \in B : g = Row(b)
      /\ plan.intent # "recurring" => \A b \in B : Row(b) \in G
  BY GroupsAre
<1>2. \A b : Row(b).label = b /\ Row(b).value \in Int
  <2> SUFFICES ASSUME NEW b  PROVE Row(b).label = b /\ Row(b).value \in Int  OBVIOUS
  <2>1. Members(book, plan, b) \in SUBSET DOMAIN book  BY GroupsAre
  <2>2. Total(book, plan, Members(book, plan, b)) \in Int  BY <2>1, TotalIs
  <2> QED  BY <2>2 DEF RowOf
<1>3. \A g \in G : key[g] \in Int
  <2> SUFFICES ASSUME NEW g \in G  PROVE key[g] \in Int  OBVIOUS
  <2>1. PICK b \in B : g = Row(b)  BY <1>1
  <2>2. g.label = b /\ g.value \in Int  BY <1>2, <2>1
  <2>3. key[g] = IF plan.byTime THEN g.label ELSE -g.value  OBVIOUS
  <2> HIDE DEF key, Row
  <2> QED  BY <2>2, <2>3
<1> HIDE DEF key
<1>4. /\ s \in Seq(G) /\ Len(s) = n
      /\ \A i, j \in 1 .. n : s[i] = s[j] => i = j
      /\ \A g \in G : \E i \in 1 .. n : s[i] = g
  <2> HIDE DEF G
  <2> QED  BY <1>1, <1>3, InOrderIs
<1>5. Grouped(book, plan) = s
  <2>1. Grouped(book, plan) = SubSeq(s, 1, Min({plan.limit, Len(s)}))  BY DEF Grouped, key
  <2> HIDE DEF s, G
  <2>2. Min({plan.limit, n}) = n
    <3>1. n <= plan.limit /\ n \in Int /\ plan.limit \in Int  BY <1>1 DEF G
    <3> HIDE DEF n
    <3>2. ASSUME NEW a \in Int, NEW b \in Int, b <= a  PROVE Min({a, b}) = b
      BY <3>2, MaxMinOfTwo
    <3> QED  BY <3>1, <3>2
  <2>3. SubSeq(s, 1, Len(s)) = s  BY <1>4
  <2> QED  BY <1>4, <2>1, <2>2, <2>3
<1> HIDE DEF G, B, Row, s
<1>6. \A i \in 1 .. n : s[i] \in G  BY <1>1, <1>4
<1>7. \A i \in 1 .. n : s[i].label \in B /\ s[i] = Row(s[i].label)
  <2> SUFFICES ASSUME NEW i \in 1 .. n  PROVE s[i].label \in B /\ s[i] = Row(s[i].label)
    OBVIOUS
  <2>1. PICK b \in B : s[i] = Row(b)  BY <1>1, <1>6
  <2> QED  BY <1>2, <2>1
<1>8. \A i, j \in 1 .. n : s[i].label = s[j].label => i = j  BY <1>4, <1>7
<1>9. plan.intent # "recurring" => \A b \in B : \E i \in 1 .. n : s[i].label = b
  BY <1>1, <1>2, <1>4
<1> QED  BY <1>1, <1>4, <1>5, <1>7, <1>8, <1>9 DEF G, B, Row

(* Later days are of later months. *)
LEMMA MonthsGrow ==
    ASSUME NEW a \in AllDays, NEW b \in AllDays, a <= b
    PROVE  /\ MonthOf(a) \in AllMonths /\ MonthOf(b) \in AllMonths
           /\ MonthOf(a) \in Nat /\ MonthOf(b) \in Nat /\ MonthOf(a) <= MonthOf(b)
<1> DEFINE m == MonthOf(a)
           k == MonthOf(b)
<1>1. /\ m \in AllMonths /\ a \in Nat /\ FirstOf[m] <= a /\ a <= LastOf(m)
      /\ k \in AllMonths /\ b \in Nat /\ FirstOf[k] <= b /\ b <= LastOf(k)
  BY MonthIs
<1> HIDE DEF m, k
<1>2. /\ m \in Nat /\ k \in Nat /\ FirstOf[m] \in Int /\ LastOf(m) \in Int
      /\ FirstOf[k] \in Int /\ LastOf(k) \in Int
  BY <1>1, MonthsAre
<1>3. ASSUME k < m  PROVE FALSE
  <2>1. LastOf(k) < FirstOf[m]  BY <1>1, <1>3, MonthsInOrder
  <2> QED  BY <1>1, <1>2, <2>1
<1> QED  BY <1>1, <1>2, <1>3 DEF m, k

(* A period of days of the calendar. *)
InCalendar(period) ==
    \E start, end \in AllDays : period = [start |-> start, end |-> end] /\ start <= end

(* A plan that groups, by something else than what recurs, and what it     *)
(* has room for.                                                           *)
Grouping(book, plan) ==
    /\ plan.group \in {"category", "merchant", "month", "week"} /\ plan.intent # "recurring"
    /\ plan.byTime => plan.group \in {"month", "week"}
    /\ plan.limit \in Nat /\ Cardinality(Groups(book, plan)) <= plan.limit
    /\ InCalendar(plan.period)

(* Rows that are those of the buckets, all of them and each once. *)
BucketRows(rows, book, plan) ==
    \E n \in Nat :
        /\ DOMAIN rows = 1 .. n /\ rows = [i \in 1 .. n |-> rows[i]]
        /\ \A i \in 1 .. n : rows[i] = RowOf(book, plan, rows[i].label)
        /\ \A i, j \in 1 .. n : rows[i].label = rows[j].label => i = j
        /\ \A b \in Buckets(book, plan) : \E i \in 1 .. n : rows[i].label = b

(* Months and weeks are numbers. *)
LEMMA BucketsAre ==
    ASSUME NEW book, Kept(book), NEW plan, InCalendar(plan.period)
    PROVE  /\ plan.group = "month" => \A b \in Buckets(book, plan) :
                /\ b \in Nat
                /\ MonthOf(plan.period.start) <= b /\ b <= MonthOf(plan.period.end)
           /\ plan.group = "week" => \A b \in Buckets(book, plan) : b \in Int
<1>1. PICK start \in AllDays, end \in AllDays : plan.period = [start |-> start, end |-> end]
  BY DEF InCalendar
<1>2. SUFFICES ASSUME NEW b \in Buckets(book, plan)
               PROVE  /\ plan.group = "month" => b \in Nat /\ MonthOf(start) <= b /\ b <= MonthOf(end)
                      /\ plan.group = "week" => b \in Int
  BY <1>1
<1>3. PICK i \in Selected(book, plan, plan.period) : b = Bucket(book[i], plan.group)
  BY DEF Buckets
<1> DEFINE day == book[i].day
<1>4. day \in AllDays /\ start <= day /\ day <= end  BY <1>1, <1>3 DEF Selected, Kept
<1>5. CASE plan.group = "month"
  <2>1. b = MonthOf(day)  BY <1>3, <1>5 DEF Bucket
  <2> HIDE DEF day
  <2> QED  BY <1>4, <1>5, <2>1, MonthsGrow
<1>6. CASE plan.group = "week"
  <2>1. b = day - Weekday(day)  BY <1>3, <1>6 DEF Bucket
  <2>2. day \in Nat  BY <1>4, MonthIs
  <2>3. Weekday(day) \in Int  BY <2>2, PlanningAssumption DEF Weekday
  <2> HIDE DEF day
  <2> QED  BY <1>6, <2>1, <2>2, <2>3
<1> QED  BY <1>5, <1>6

(* How many months a period begins, goes through or ends in. *)
MonthsIn(period) == MonthOf(period.end) - MonthOf(period.start) + 1

(* The rows of months without a gap. *)
MonthRows(book, plan) ==
    [k \in 1 .. MonthsIn(plan.period) |-> RowOf(book, plan, MonthOf(plan.period.start) + k - 1)]

(* Months without transactions are filled in with zeros. *)
LEMMA FilledIs ==
    ASSUME NEW book, Kept(book), NEW plan, Grouping(book, plan), plan.group = "month"
    PROVE  /\ MonthsIn(plan.period) \in Nat /\ MonthOf(plan.period.start) \in Nat
           /\ \/ /\ Filled(Grouped(book, plan), plan) = <<>>
                 /\ Selected(book, plan, plan.period) = {}
              \/ Filled(Grouped(book, plan), plan) = MonthRows(book, plan)
<1> DEFINE given == Grouped(book, plan)
           rows == Filled(given, plan)
           first == MonthOf(plan.period.start)
           n == MonthOf(plan.period.end) - first + 1
           many == Cardinality(Groups(book, plan))
           Known(month) == {i \in DOMAIN given : given[i].label = month}
           At(month) == IF Known(month) = {} THEN [label |-> month, value |-> 0, count |-> 0]
                        ELSE given[CHOOSE i \in Known(month) : TRUE]
<1>1. n \in Nat /\ first \in Nat
  <2>1. PICK start \in AllDays, end \in AllDays :
            plan.period = [start |-> start, end |-> end] /\ start <= end
    BY DEF InCalendar, Grouping
  <2> QED  BY <2>1, MonthsGrow
<1>2. plan.intent # "recurring" /\ plan.limit \in Nat /\ many <= plan.limit
      /\ (plan.byTime => \A b \in Buckets(book, plan) : b \in Int)
  BY BucketsAre DEF Grouping
<1>3. /\ many \in Nat /\ DOMAIN given = 1 .. many /\ given \in Seq(Groups(book, plan))
      /\ \A i \in 1 .. many : given[i] = RowOf(book, plan, given[i].label)
      /\ \A b \in Buckets(book, plan) : \E i \in 1 .. many : given[i].label = b
  BY <1>2, GroupedIs
<1> HIDE DEF given, first, n, many
<1>4. CASE given = <<>>
  <2>1. rows = <<>>  BY <1>4 DEF Filled
  <2>2. many = 0
    <3>1. Len(given) = 0 /\ Len(given) = many  BY <1>3, <1>4
    <3> QED  BY <3>1
  <2>3. Buckets(book, plan) = {}  BY <1>3, <2>2
  <2>4. Selected(book, plan, plan.period) = {}  BY <2>3 DEF Buckets
  <2> QED  BY <1>1, <2>1, <2>4 DEF given, first, n, MonthsIn
<1>5. CASE given # <<>>
  <2>1. rows = [k \in 1 .. n |-> At(first + k - 1)]
    BY <1>5 DEF Filled, first, n, Grouping
  <2>2. \A month : At(month) = RowOf(book, plan, month)
    <3> SUFFICES ASSUME NEW month  PROVE At(month) = RowOf(book, plan, month)  OBVIOUS
    <3>1. CASE Known(month) = {}
      <4>1. month \notin Buckets(book, plan)  BY <1>3, <3>1
      <4>2. Members(book, plan, month) = {}  BY <4>1 DEF Members, Buckets
      <4>3. {} \in SUBSET DOMAIN book  OBVIOUS
      <4>4. Total(book, plan, {}) = 0  BY <4>3, TotalIs
      <4>5. Cardinality({}) = 0  BY FS_EmptySet
      <4> QED  BY <3>1, <4>2, <4>4, <4>5 DEF RowOf
    <3>2. CASE Known(month) # {}
      <4> DEFINE i == CHOOSE i \in Known(month) : TRUE
      <4>1. i \in Known(month)  BY <3>2
      <4>2. At(month) = given[i]  BY <3>2
      <4> HIDE DEF i, At
      <4> QED  BY <1>3, <4>1, <4>2
    <3> QED  BY <3>1, <3>2
  <2> HIDE DEF At, rows
  <2>3. rows = [k \in 1 .. n |-> RowOf(book, plan, first + k - 1)]  BY <2>1, <2>2
  <2> QED  BY <1>1, <2>3 DEF given, first, n, rows, MonthsIn, MonthRows
<1> QED  BY <1>4, <1>5

(* What is answered to a plan that groups has a row for every bucket. *)
LEMMA ExecutedRows ==
    ASSUME NEW book, Kept(book), NEW plan, Grouping(book, plan)
    PROVE  BucketRows(Executed(book, plan).rows, book, plan)
<1> DEFINE rows == Executed(book, plan).rows
           given == Grouped(book, plan)
<1>1. rows = Filled(given, plan)  BY DEF Executed, Grouping
<1>2. CASE plan.group = "month"
  <2> DEFINE first == MonthOf(plan.period.start)
             n == MonthOf(plan.period.end) - first + 1
  <2>1. /\ n \in Nat /\ first \in Nat
        /\ \/ rows = <<>> /\ Selected(book, plan, plan.period) = {}
           \/ rows = [k \in 1 .. n |-> RowOf(book, plan, first + k - 1)]
    <3>1. /\ MonthsIn(plan.period) \in Nat /\ MonthOf(plan.period.start) \in Nat
          /\ \/ Filled(given, plan) = <<>> /\ Selected(book, plan, plan.period) = {}
             \/ Filled(given, plan) = MonthRows(book, plan)
      BY <1>2, FilledIs
    <3> HIDE DEF rows, given
    <3> QED  BY <1>1, <3>1 DEF MonthRows, MonthsIn
  <2>2. \A b \in Buckets(book, plan) : b \in Nat /\ first <= b /\ b <= first + n - 1
    <3>1. InCalendar(plan.period)  BY DEF Grouping
    <3>2. \A b \in Buckets(book, plan) : /\ b \in Nat
                /\ MonthOf(plan.period.start) <= b /\ b <= MonthOf(plan.period.end)
      BY <1>2, <3>1, BucketsAre
    <3>3. first = MonthOf(plan.period.start)  OBVIOUS
    <3>4. MonthOf(plan.period.end) \in Int
      <4>1. PICK start \in AllDays, end \in AllDays :
                plan.period = [start |-> start, end |-> end] /\ start <= end
        BY <3>1 DEF InCalendar
      <4> QED  BY <4>1, MonthsGrow
    <3>5. MonthOf(plan.period.end) = first + n - 1  BY <2>1, <3>4
    <3> HIDE DEF first, n
    <3> QED  BY <3>2, <3>3, <3>5
  <2> HIDE DEF rows, first, n
  <2>3. CASE rows = <<>> /\ Selected(book, plan, plan.period) = {}
    <3>1. Buckets(book, plan) = {}  BY <2>3 DEF Buckets
    <3>2. 0 \in Nat /\ DOMAIN rows = 1 .. 0 /\ 1 .. 0 = {} /\ rows = [i \in 1 .. 0 |-> rows[i]]
      BY <2>3
    <3>3. BucketRows(rows, book, plan)  BY <3>1, <3>2 DEF BucketRows
    <3> QED  BY <3>3 DEF rows
  <2>4. CASE rows = [k \in 1 .. n |-> RowOf(book, plan, first + k - 1)]
    <3>1. \A k \in 1 .. n : rows[k] = RowOf(book, plan, first + k - 1)
                            /\ rows[k].label = first + k - 1
      BY <2>4 DEF RowOf
    <3>2. DOMAIN rows = 1 .. n /\ rows = [i \in 1 .. n |-> rows[i]]  BY <2>4
    <3>3. \A i, j \in 1 .. n : rows[i].label = rows[j].label => i = j  BY <2>1, <3>1
    <3>4. \A b \in Buckets(book, plan) : \E i \in 1 .. n : rows[i].label = b
      <4> SUFFICES ASSUME NEW b \in Buckets(book, plan)
                   PROVE  \E i \in 1 .. n : rows[i].label = b
        OBVIOUS
      <4>1. b - first + 1 \in 1 .. n /\ first + (b - first + 1) - 1 = b  BY <2>1, <2>2
      <4> QED  BY <3>1, <4>1
    <3>5. BucketRows(rows, book, plan)  BY <2>1, <3>1, <3>2, <3>3, <3>4 DEF BucketRows
    <3> QED  BY <3>5 DEF rows
  <2> QED  BY <2>1, <2>3, <2>4
<1>3. CASE plan.group # "month"
  <2> DEFINE n == Cardinality(Groups(book, plan))
  <2>1. rows = given  BY <1>1, <1>3 DEF Filled
  <2>2. plan.intent # "recurring" /\ plan.limit \in Nat /\ n <= plan.limit
        /\ (plan.byTime => \A b \in Buckets(book, plan) : b \in Int)
    BY <1>3, BucketsAre DEF Grouping
  <2>3. /\ n \in Nat /\ given \in Seq(Groups(book, plan)) /\ Len(given) = n
        /\ \A i, j \in 1 .. n : given[i].label = given[j].label => i = j
        /\ \A i \in 1 .. n : given[i] = RowOf(book, plan, given[i].label)
        /\ \A b \in Buckets(book, plan) : \E i \in 1 .. n : given[i].label = b
    BY <2>2, GroupedIs
  <2> HIDE DEF given, n
  <2>4. DOMAIN given = 1 .. n /\ given = [i \in 1 .. n |-> given[i]]  BY <2>3
  <2>5. BucketRows(given, book, plan)  BY <2>3, <2>4 DEF BucketRows
  <2> QED  BY <2>1, <2>5
<1> QED  BY <1>2, <1>3

(* For every book and every plan that sums or counts groups of it, by what *)
(* does not recur and with room for all groups: the rows of the answer add *)
(* up to its total (execute_plan of executor.py).  Averages and extremes   *)
(* of groups do not.                                                       *)
THEOREM GroupsAddUp ==
    ASSUME NEW book, Kept(book), NEW plan, Grouping(book, plan), plan.metric \in {"sum", "count"}
    PROVE  LET answer == Executed(book, plan)
           IN SumOf([i \in DOMAIN answer.rows |-> answer.rows[i].value], DOMAIN answer.rows)
                = answer.total
<1> DEFINE rows == Executed(book, plan).rows
           S == Selected(book, plan, plan.period)
           f == Counted(book, plan)
<1>0. BucketRows(rows, book, plan)  BY ExecutedRows
<1>12. Executed(book, plan).rows = rows /\ Executed(book, plan).total = Total(book, plan, S)
  BY DEF Executed
<1> HIDE DEF rows
<1>1. PICK n \in Nat :
        /\ DOMAIN rows = 1 .. n
        /\ \A i \in 1 .. n : rows[i] = RowOf(book, plan, rows[i].label)
        /\ \A i, j \in 1 .. n : rows[i].label = rows[j].label => i = j
        /\ \A b \in Buckets(book, plan) : \E i \in 1 .. n : rows[i].label = b
  BY <1>0 DEF BucketRows
<1> DEFINE parts == [k \in 1 .. n |-> Members(book, plan, rows[k].label)]
<1>3. S \in SUBSET DOMAIN book /\ \A b : Members(book, plan, b) \in SUBSET S  BY GroupsAre
<1>4. /\ f \in [DOMAIN book -> Int] /\ IsFiniteSet(DOMAIN book)
      /\ Total(book, plan, S) = SumOf(f, S)
  BY <1>3, TotalIs DEF Kept
<1>5. \A k \in 1 .. n : rows[k].value = SumOf(f, parts[k])
  <2> SUFFICES ASSUME NEW k \in 1 .. n  PROVE rows[k].value = SumOf(f, parts[k])  OBVIOUS
  <2>1. rows[k].value = Total(book, plan, Members(book, plan, rows[k].label))
    BY <1>1 DEF RowOf
  <2>2. Members(book, plan, rows[k].label) \in SUBSET DOMAIN book  BY <1>3
  <2>3. Total(book, plan, Members(book, plan, rows[k].label))
            = SumOf(f, Members(book, plan, rows[k].label))
    BY <2>2, TotalIs
  <2> QED  BY <2>1, <2>3
<1>6. parts \in [1 .. n -> SUBSET DOMAIN book]
  <2> HIDE DEF S
  <2> QED  BY <1>3
<1>7. \A k, l \in 1 .. n : k # l => parts[k] \cap parts[l] = {}
  BY <1>1 DEF Members
<1>8. S = UNION {parts[k] : k \in 1 .. n}
  <2>1. ASSUME NEW i \in S  PROVE \E k \in 1 .. n : i \in parts[k]
    <3>1. Bucket(book[i], plan.group) \in Buckets(book, plan)  BY DEF Buckets
    <3>2. PICK k \in 1 .. n : rows[k].label = Bucket(book[i], plan.group)  BY <1>1, <3>1
    <3>3. i \in Members(book, plan, rows[k].label)  BY <3>2 DEF Members
    <3> QED  BY <3>3
  <2>2. \A k \in 1 .. n : parts[k] \in SUBSET S
    <3> HIDE DEF S
    <3> QED  BY <1>3
  <2> HIDE DEF S, parts
  <2> QED  BY <2>1, <2>2
<1>9. IsFiniteSet(1 .. n)
  <2>1. 1 \in Int /\ n \in Int  BY <1>1
  <2> QED  BY <2>1, FS_Interval
<1> HIDE DEF S, f, parts
<1>10. SumOf(f, UNION {parts[k] : k \in 1 .. n}) = SumOf([k \in 1 .. n |-> SumOf(f, parts[k])], 1 .. n)
  <2> DEFINE K == 1 .. n
             D == DOMAIN book
  <2>1. /\ IsFiniteSet(K) /\ parts \in [K -> SUBSET D] /\ IsFiniteSet(D) /\ f \in [D -> Int]
        /\ \A k \in K : \A l \in K : k # l => parts[k] \cap parts[l] = {}
    BY <1>4, <1>6, <1>7, <1>9
  <2> HIDE DEF K, D
  <2>2. SumOf(f, UNION {parts[k] : k \in K}) = SumOf([k \in K |-> SumOf(f, parts[k])], K)
    BY <2>1, SumByParts
  <2> QED  BY <2>2 DEF K
<1>11. [i \in DOMAIN rows |-> rows[i].value] = [k \in 1 .. n |-> SumOf(f, parts[k])]
  BY <1>1, <1>5
<1> QED  BY <1>1, <1>4, <1>8, <1>10, <1>11, <1>12

-----------------------------------------------------------------------------
(***************************************************************************)
(* The same figures on every surface.                                      *)
(***************************************************************************)

(* A day is in a month or a later one if it is not before the month. *)
LEMMA DayInMonths ==
    ASSUME NEW day \in AllDays, NEW month \in AllMonths
    PROVE  /\ FirstOf[month] <= day <=> month <= MonthOf(day)
           /\ day <= LastOf(month) <=> MonthOf(day) <= month
<1> DEFINE m == MonthOf(day)
<1>1. m \in AllMonths /\ day \in Nat /\ FirstOf[m] <= day /\ day <= LastOf(m)  BY MonthIs
<1> HIDE DEF m
<1>2. /\ m \in Nat /\ month \in Nat /\ FirstOf[m] \in Int /\ LastOf(m) \in Int
      /\ FirstOf[month] \in Int /\ LastOf(month) \in Int /\ FirstOf[month] <= LastOf(month)
  BY <1>1, MonthsAre
<1>3. CASE m = month  BY <1>1, <1>2, <1>3 DEF m
<1>4. CASE m < month
  <2>1. LastOf(m) < FirstOf[month]  BY <1>1, <1>4, MonthsInOrder
  <2> QED  BY <1>1, <1>2, <1>4, <2>1 DEF m
<1>5. CASE month < m
  <2>1. LastOf(month) < FirstOf[m]  BY <1>1, <1>5, MonthsInOrder
  <2> QED  BY <1>1, <1>2, <1>5, <2>1 DEF m
<1> QED  BY <1>2, <1>3, <1>4, <1>5

(* The months a dashboard may end with. *)
LEMMA AnchorIs ==
    ASSUME NEW book, Kept(book), NEW today \in AllDays
    PROVE  Anchor(book, today) \in AllMonths
<1> DEFINE own == {j \in DOMAIN book : book[j].currency = BaseCurrency}
           days == {book[i].day : i \in own}
           v == [j \in own |-> book[j].day]
<1>1. ASSUME days # {}  PROVE Max(days) \in AllDays
  <2>1. own # {} /\ own \in SUBSET DOMAIN book  BY <1>1
  <2>2. \A j \in own : book[j].day \in AllDays /\ book[j].day \in Int
    <3> SUFFICES ASSUME NEW j \in own  PROVE book[j].day \in AllDays /\ book[j].day \in Int
      OBVIOUS
    <3>1. book[j].day \in AllDays  BY DEF Kept
    <3> QED  BY <3>1, MonthIs
  <2>3. IsFiniteSet(own)
    <3> HIDE DEF own
    <3> QED  BY <2>1, FS_Subset DEF Kept
  <2>4. v \in [own -> Int]
    <3> HIDE DEF own
    <3> QED  BY <2>2
  <2> HIDE DEF v
  <2>5. PICK m \in own : \A i \in own : v[i] <= v[m]
    <3> HIDE DEF own
    <3> QED  BY <2>1, <2>3, <2>4, FamilyGreatest
  <2>6. \A i \in own : v[i] = book[i].day  BY DEF v
  <2> HIDE DEF own
  <2>7. book[m].day \in days /\ \A x \in days : book[m].day >= x  BY <2>2, <2>5, <2>6
  <2>8. Max(days) \in days  BY <2>7, Zenon DEF Max
  <2> QED  BY <2>2, <2>8
<1>2. Anchor(book, today) = MonthOf(IF days = {} THEN today ELSE Max(days))  BY DEF Anchor
<1> HIDE DEF days
<1> QED  BY <1>1, <1>2, MonthIs

(* What is spent at all, and the size of every amount. *)
Spent(book) ==
    {i \in DOMAIN book : /\ book[i].currency = BaseCurrency /\ book[i].amount < 0
                         /\ book[i].category # "transfers"}
SizeOfEach(book) == [i \in DOMAIN book |-> AmountSize(book[i].amount)]

(* What is spent from the beginning of a month to the end of another. *)
FromTo(first, last) == [start |-> FirstOf[first], end |-> LastOf(last)]
LEMMA SpentIs ==
    ASSUME NEW book, Kept(book), NEW first \in AllMonths, NEW last \in AllMonths
    PROVE  /\ SpentIn(book, FromTo(first, last))
                = {i \in Spent(book) : first <= MonthOf(book[i].day) /\ MonthOf(book[i].day) <= last}
           /\ SpentIn(book, FromTo(first, last)) \in SUBSET DOMAIN book
<1>1. \A i \in DOMAIN book :
        /\ FirstOf[first] <= book[i].day <=> first <= MonthOf(book[i].day)
        /\ book[i].day <= LastOf(last) <=> MonthOf(book[i].day) <= last
  <2> SUFFICES ASSUME NEW i \in DOMAIN book
               PROVE  /\ FirstOf[first] <= book[i].day <=> first <= MonthOf(book[i].day)
                      /\ book[i].day <= LastOf(last) <=> MonthOf(book[i].day) <= last
    OBVIOUS
  <2>1. book[i].day \in AllDays  BY DEF Kept
  <2> QED  BY <2>1, DayInMonths
<1> QED  BY <1>1 DEF SpentIn, FromTo, Spent

(* Sizes add up to natural numbers. *)
LEMMA SizesAre ==
    ASSUME NEW book, Kept(book)
    PROVE  /\ SizeOfEach(book) \in [DOMAIN book -> Int] /\ IsFiniteSet(DOMAIN book)
           /\ \A rows \in SUBSET DOMAIN book :
                SizesOf(book, rows) = SumOf(SizeOfEach(book), rows) /\ SizesOf(book, rows) \in Nat
<1> DEFINE f == SizeOfEach(book)
           D == DOMAIN book
<1>1. \A n \in Int : AmountSize(n) \in Nat  BY DEF AmountSize
<1>2. \A i \in D : f[i] \in Int /\ f[i] >= 0  BY <1>1 DEF SizeOfEach, Kept
<1>3. f \in [D -> Int]
  <2>1. f = [i \in D |-> f[i]]  BY DEF SizeOfEach
  <2> HIDE DEF f, D
  <2> QED  BY <1>2, <2>1
<1>4. IsFiniteSet(D)  BY DEF Kept
<1>5. \A rows : SizesOf(book, rows) = SumOf(f, rows)  BY DEF SizesOf, SizeOfEach
<1> HIDE DEF f, D
<1>6. \A rows \in SUBSET D : SumOf(f, rows) \in Nat
  <2> SUFFICES ASSUME NEW rows \in SUBSET D  PROVE SumOf(f, rows) \in Nat  OBVIOUS
  <2>0. rows \in SUBSET D  OBVIOUS
  <2>1. \A i \in rows : f[i] >= 0  BY <1>2
  <2> QED  BY <1>3, <1>4, <2>0, <2>1, SumNat
<1> QED  BY <1>3, <1>4, <1>5, <1>6 DEF f, D

(* A plan that asks for spending, for nothing less, and for its sum. *)
AsksSpending(plan) ==
    plan.direction = "spend" /\ plan.categories = {} /\ plan.merchants = {} /\ plan.transfers = FALSE
SumsSpending(plan) == AsksSpending(plan) /\ plan.metric = "sum"

LEMMA SpendingIs ==
    ASSUME NEW book, NEW plan, AsksSpending(plan)
    PROVE  \A period : Selected(book, plan, period) = SpentIn(book, period)
BY DEF Selected, SpentIn, AsksSpending

LEMMA SpendingSums ==
    ASSUME NEW book, NEW plan, SumsSpending(plan)
    PROVE  /\ \A period : Selected(book, plan, period) = SpentIn(book, period)
           /\ \A rows : Total(book, plan, rows) = SizesOf(book, rows)
<1>1. \A period : Selected(book, plan, period) = SpentIn(book, period)
  BY SpendingIs DEF SumsSpending
<1> DEFINE sizes == [i \in DOMAIN book |-> AmountSize(book[i].amount)]
           each == [i \in DOMAIN book |->
                        IF plan.metric = "count" THEN 1
                        ELSE IF plan.direction = "net" THEN book[i].amount
                        ELSE AmountSize(book[i].amount)]
<1>2. plan.metric = "sum" /\ plan.direction = "spend"  BY DEF SumsSpending, AsksSpending
<1>3. each = sizes  BY <1>2
<1>4. \A rows : Total(book, plan, rows) = SumOf(each, rows)
  <2> HIDE DEF sizes
  <2> QED  BY <1>2 DEF Total
<1>5. \A rows : SizesOf(book, rows) = SumOf(sizes, rows)  BY DEF SizesOf
<1> HIDE DEF each, sizes
<1> QED  BY <1>1, <1>3, <1>4, <1>5

(* The spending of a month. *)
LEMMA MonthSpendIs ==
    ASSUME NEW book, Kept(book), NEW month \in AllMonths
    PROVE  /\ MonthSpend(book, month) = SizesOf(book, SpentIn(book, FromTo(month, month)))
           /\ MonthSpend(book, month) \in Nat
<1>1. MonthPeriod(month) = FromTo(month, month)  BY MonthPeriodIs DEF FromTo
<1>2. MonthSpend(book, month) = SizesOf(book, SpentIn(book, FromTo(month, month)))
  BY <1>1 DEF MonthSpend
<1>3. SpentIn(book, FromTo(month, month)) \in SUBSET DOMAIN book  BY SpentIs
<1> QED  BY <1>2, <1>3, SizesAre

(* The spending of months adds up. *)
LEMMA MonthsAddUp ==
    ASSUME NEW book, Kept(book), NEW first \in AllMonths, NEW last \in AllMonths, first <= last
    PROVE  /\ first .. last \in SUBSET AllMonths /\ IsFiniteSet(first .. last)
           /\ [m \in first .. last |-> MonthSpend(book, m)] \in [first .. last -> Int]
           /\ SumOf([m \in first .. last |-> MonthSpend(book, m)], first .. last)
                = SizesOf(book, SpentIn(book, FromTo(first, last)))
<1> DEFINE K == first .. last
           f == SizeOfEach(book)
           D == DOMAIN book
           parts == [m \in K |-> SpentIn(book, FromTo(m, m))]
           S == SpentIn(book, FromTo(first, last))
<1>0. Years \in Nat \ {0}  BY PlanningAssumption
<1>1. first \in Nat /\ last \in Nat  BY MonthsAre
<1>2. K \in SUBSET AllMonths  BY <1>0, <1>1 DEF AllMonths
<1>3. IsFiniteSet(K)
  <2>1. first \in Int /\ last \in Int  BY <1>1
  <2> QED  BY <2>1, FS_Interval
<1>4. \A m \in K : /\ MonthSpend(book, m) = SizesOf(book, parts[m]) /\ MonthSpend(book, m) \in Nat
                   /\ parts[m] \in SUBSET D
                   /\ parts[m] = {i \in Spent(book) : m <= MonthOf(book[i].day)
                                                      /\ MonthOf(book[i].day) <= m}
  <2> SUFFICES ASSUME NEW m \in K
               PROVE  /\ MonthSpend(book, m) = SizesOf(book, parts[m])
                      /\ MonthSpend(book, m) \in Nat
                      /\ parts[m] \in SUBSET D
                      /\ parts[m] = {i \in Spent(book) : m <= MonthOf(book[i].day)
                                                         /\ MonthOf(book[i].day) <= m}
    OBVIOUS
  <2>1. m \in AllMonths /\ parts[m] = SpentIn(book, FromTo(m, m))  BY <1>2
  <2> HIDE DEF parts
  <2> QED  BY <2>1, MonthSpendIs, SpentIs
<1>5. \A i \in Spent(book) : MonthOf(book[i].day) \in Nat
  <2> SUFFICES ASSUME NEW i \in Spent(book)  PROVE MonthOf(book[i].day) \in Nat  OBVIOUS
  <2>1. book[i].day \in AllDays  BY DEF Spent, Kept
  <2>2. MonthOf(book[i].day) \in AllMonths  BY <2>1, MonthIs
  <2> QED  BY <2>2, MonthsAre
<1>6. S = {i \in Spent(book) : first <= MonthOf(book[i].day) /\ MonthOf(book[i].day) <= last}
  BY SpentIs
<1>7. \A m \in K : m \in Nat  BY <1>1
<1> HIDE DEF parts, S
<1>8. S = UNION {parts[m] : m \in K}
  <2>1. ASSUME NEW i \in S  PROVE \E m \in K : i \in parts[m]
    <3>1. MonthOf(book[i].day) \in K  BY <1>1, <1>5, <1>6
    <3>2. i \in parts[MonthOf(book[i].day)]  BY <1>4, <1>5, <1>6, <3>1
    <3> QED  BY <3>1, <3>2
  <2>2. ASSUME NEW m \in K, NEW i \in parts[m]  PROVE i \in S
    <3>1. i \in Spent(book) /\ MonthOf(book[i].day) = m  BY <1>4, <1>5, <1>7
    <3> QED  BY <1>1, <1>6, <3>1
  <2> HIDE DEF K
  <2> QED  BY <2>1, <2>2
<1>9. \A k, l \in K : k # l => parts[k] \cap parts[l] = {}
  <2> SUFFICES ASSUME NEW k \in K, NEW l \in K, k # l, NEW i \in parts[k] \cap parts[l]
               PROVE  FALSE
    OBVIOUS
  <2>1. MonthOf(book[i].day) = k /\ MonthOf(book[i].day) = l  BY <1>4, <1>5, <1>7
  <2> QED  BY <2>1
<1>10. parts \in [K -> SUBSET D]
  <2>1. parts = [m \in K |-> parts[m]]  BY DEF parts
  <2> HIDE DEF K
  <2> QED  BY <1>4, <2>1
<1>11. f \in [D -> Int] /\ IsFiniteSet(D)
       /\ \A rows \in SUBSET D : SizesOf(book, rows) = SumOf(f, rows)
  BY SizesAre
<1>12. S \in SUBSET D  BY <1>8, <1>10
<1>13. [m \in K |-> MonthSpend(book, m)] = [m \in K |-> SumOf(f, parts[m])]
  BY <1>4, <1>11
<1>14. [m \in K |-> MonthSpend(book, m)] \in [K -> Int]
  <2> HIDE DEF K
  <2> QED  BY <1>4
<1>15. SumOf(f, UNION {parts[m] : m \in K}) = SumOf([m \in K |-> SumOf(f, parts[m])], K)
  <2> HIDE DEF K, D, f
  <2>1. \A k \in K : \A l \in K : k # l => parts[k] \cap parts[l] = {}  BY <1>9
  <2> QED  BY <1>3, <1>10, <1>11, <2>1, SumByParts
<1>16. SumOf([m \in K |-> MonthSpend(book, m)], K) = SizesOf(book, S)
  BY <1>8, <1>11, <1>12, <1>13, <1>15
<1> QED  BY <1>2, <1>3, <1>14, <1>16 DEF K, S

(* From the beginning of a month to the end of another is a period. *)
LEMMA FromToIs ==
    ASSUME NEW first \in AllMonths, NEW last \in AllMonths, first <= last
    PROVE  /\ InCalendar(FromTo(first, last))
           /\ Period(FirstOf[first], LastOf(last)) = FromTo(first, last)
           /\ FromTo(first, last).start = FirstOf[first] /\ FromTo(first, last).end = LastOf(last)
           /\ MonthOf(FromTo(first, last).start) = first
           /\ MonthOf(FromTo(first, last).end) = last
<1>1. /\ FirstOf[first] \in AllDays /\ LastOf(last) \in AllDays
      /\ MonthOf(FirstOf[first]) = first /\ MonthOf(LastOf(last)) = last
  BY MonthDays
<1>2. FirstOf[first] \in Int /\ LastOf(last) \in Int  BY MonthsAre
<1>3. FirstOf[first] <= LastOf(last)
  <2>1. FirstOf[first] <= LastOf(last) <=> first <= MonthOf(LastOf(last))
    BY <1>1, DayInMonths
  <2> QED  BY <1>1, <2>1
<1>4. Period(FirstOf[first], LastOf(last)) = FromTo(first, last)
  BY <1>2, <1>3 DEF Period, FromTo
<1>5. FromTo(first, last).start = FirstOf[first] /\ FromTo(first, last).end = LastOf(last)
  BY DEF FromTo
<1>6. InCalendar(FromTo(first, last))  BY <1>1, <1>3 DEF FromTo, InCalendar
<1> QED  BY <1>1, <1>4, <1>5, <1>6

(* The slices of the dashboard are the rows of a breakdown by category. *)
LEMMA SlicesAgree ==
    ASSUME NEW book, Kept(book), NEW plan, SumsSpending(plan), Grouping(book, plan),
           plan.group = "category"
    PROVE  LET rows == Executed(book, plan).rows
               current == SpentIn(book, plan.period)
           IN {[label |-> r.label, value |-> r.value] : r \in Range(rows)}
                = {[label |-> c, value |-> SizesOf(book, {i \in current : book[i].category = c})] :
                        c \in {book[i].category : i \in current}}
<1> DEFINE rows == Executed(book, plan).rows
           current == SpentIn(book, plan.period)
           Slice(c) == SizesOf(book, {i \in current : book[i].category = c})
           C == {book[i].category : i \in current}
           n == Cardinality(Groups(book, plan))
<1>1. rows = Grouped(book, plan)  BY DEF Executed, Grouping, Filled
<1>2. /\ n \in Nat /\ rows \in Seq(Groups(book, plan)) /\ Len(rows) = n
      /\ \A i \in 1 .. n : /\ rows[i].label \in Buckets(book, plan)
                           /\ rows[i] = RowOf(book, plan, rows[i].label)
      /\ \A b \in Buckets(book, plan) : \E i \in 1 .. n : rows[i].label = b
  <2>1. plan.intent # "recurring" /\ plan.limit \in Nat /\ n <= plan.limit
        /\ (plan.byTime => \A b \in Buckets(book, plan) : b \in Int)
    BY DEF Grouping
  <2> QED  BY <1>1, <2>1, GroupedIs
<1> HIDE DEF rows, n
<1>3. /\ Selected(book, plan, plan.period) = current
      /\ \A some : Total(book, plan, some) = SizesOf(book, some)
  BY SpendingSums
<1>4. \A i : Bucket(book[i], plan.group) = book[i].category  BY DEF Bucket
<1>5. Buckets(book, plan) = C  BY <1>3, <1>4 DEF Buckets
<1>6. \A c : Members(book, plan, c) = {i \in current : book[i].category = c}
  BY <1>3, <1>4 DEF Members
<1>7. \A c : RowOf(book, plan, c).label = c /\ RowOf(book, plan, c).value = Slice(c)
  BY <1>3, <1>6 DEF RowOf
<1>8. \A i \in 1 .. n : rows[i].label \in C /\ rows[i].value = Slice(rows[i].label)
  BY <1>2, <1>5, <1>7
<1>9. \A c \in C : \E i \in 1 .. n : rows[i].label = c  BY <1>2, <1>5
<1>10. Range(rows) = {rows[i] : i \in 1 .. n}
  <2>1. DOMAIN rows = 1 .. n  BY <1>2
  <2> QED  BY <2>1 DEF Range
<1> HIDE DEF C, Slice, current
<1>11. {[label |-> r.label, value |-> r.value] : r \in Range(rows)}
          = {[label |-> c, value |-> Slice(c)] : c \in C}
  <2>1. ASSUME NEW r \in Range(rows)
        PROVE  \E c \in C : [label |-> r.label, value |-> r.value] = [label |-> c, value |-> Slice(c)]
    BY <1>8, <1>10
  <2>2. ASSUME NEW c \in C
        PROVE  \E r \in Range(rows) :
                  [label |-> r.label, value |-> r.value] = [label |-> c, value |-> Slice(c)]
    BY <1>8, <1>9, <1>10
  <2> DEFINE Shown(r) == [label |-> r.label, value |-> r.value]
             Due(c) == [label |-> c, value |-> Slice(c)]
  <2>3. (\A r \in Range(rows) : \E c \in C : Shown(r) = Due(c))
        /\ \A c \in C : \E r \in Range(rows) : Shown(r) = Due(c)
    BY <2>1, <2>2
  <2> HIDE DEF Shown, Due
  <2>4. {Shown(r) : r \in Range(rows)} = {Due(c) : c \in C}  BY <2>3
  <2> QED  BY <2>4 DEF Shown, Due
<1> QED  BY <1>11 DEF C, Slice, rows, current

(* The rows of a trend are the months of its period, with their spending. *)
LEMMA TrendAgrees ==
    ASSUME NEW book, Kept(book), NEW plan, SumsSpending(plan), Grouping(book, plan),
           plan.group = "month", NEW first \in AllMonths, NEW last \in AllMonths, first <= last,
           plan.period = FromTo(first, last)
    PROVE  LET rows == Executed(book, plan).rows
           IN /\ rows # <<>> => Len(rows) = last - first + 1
              /\ \A r \in Range(rows) :
                    r.label \in first .. last /\ r.value = MonthSpend(book, r.label)
<1> DEFINE rows == Executed(book, plan).rows
           n == last - first + 1
<1>1. rows = Filled(Grouped(book, plan), plan)  BY DEF Executed, Grouping
<1>2. MonthOf(plan.period.start) = first /\ MonthOf(plan.period.end) = last  BY FromToIs
<1>3. first \in Nat /\ last \in Nat /\ n \in Nat  BY MonthsAre
<1>4. rows = <<>> \/ rows = [k \in 1 .. n |-> RowOf(book, plan, first + k - 1)]
  <2>1. \/ Filled(Grouped(book, plan), plan) = <<>>
        \/ Filled(Grouped(book, plan), plan) = MonthRows(book, plan)
    BY FilledIs
  <2> HIDE DEF rows
  <2> QED  BY <1>1, <1>2, <2>1 DEF MonthRows, MonthsIn
<1> HIDE DEF rows
<1>5. CASE rows = <<>>
  <2>1. Range(rows) = {}
    <3>1. DOMAIN rows = {}  BY <1>5
    <3> QED  BY <3>1 DEF Range
  <2> QED  BY <1>5, <2>1 DEF rows
<1>6. CASE rows = [k \in 1 .. n |-> RowOf(book, plan, first + k - 1)]
  <2>1. Len(rows) = n /\ DOMAIN rows = 1 .. n
    <3> DEFINE F(k) == RowOf(book, plan, first + k - 1)
    <3>1. rows = [k \in 1 .. n |-> F(k)]  BY <1>6
    <3> HIDE DEF F, n
    <3>2. PICK X : X = {F(k) : k \in 1 .. n}  OBVIOUS
    <3>3. rows \in [1 .. n -> X]  BY <3>1, <3>2
    <3>4. rows \in Seq(X)  BY <1>3, <3>3
    <3>5. DOMAIN rows = 1 .. n  BY <3>3
    <3>6. DOMAIN rows = 1 .. Len(rows) /\ Len(rows) \in Nat  BY <3>4
    <3> QED  BY <1>3, <3>5, <3>6
  <2>2. ASSUME NEW m \in first .. last
        PROVE  RowOf(book, plan, m).label = m /\ RowOf(book, plan, m).value = MonthSpend(book, m)
    <3>1. m \in AllMonths /\ m \in Nat
      <4>1. Years \in Nat \ {0}  BY PlanningAssumption
      <4> QED  BY <1>3, <4>1 DEF AllMonths
    <3>2. Selected(book, plan, plan.period) = SpentIn(book, FromTo(first, last))
          /\ Total(book, plan, Members(book, plan, m)) = SizesOf(book, Members(book, plan, m))
      BY SpendingSums
    <3>3. /\ SpentIn(book, FromTo(first, last))
                = {i \in Spent(book) : first <= MonthOf(book[i].day) /\ MonthOf(book[i].day) <= last}
          /\ SpentIn(book, FromTo(m, m))
                = {i \in Spent(book) : m <= MonthOf(book[i].day) /\ MonthOf(book[i].day) <= m}
      BY <3>1, SpentIs
    <3>4. \A i \in Spent(book) : MonthOf(book[i].day) \in Nat
      <4> SUFFICES ASSUME NEW i \in Spent(book)  PROVE MonthOf(book[i].day) \in Nat  OBVIOUS
      <4>1. book[i].day \in AllDays  BY DEF Spent, Kept
      <4>2. MonthOf(book[i].day) \in AllMonths  BY <4>1, MonthIs
      <4> QED  BY <4>2, MonthsAre
    <3>5. Members(book, plan, m)
            = {i \in SpentIn(book, FromTo(first, last)) : MonthOf(book[i].day) = m}
      BY <3>2 DEF Members, Bucket
    <3>6. Members(book, plan, m) = SpentIn(book, FromTo(m, m))
      BY <1>3, <3>1, <3>3, <3>4, <3>5
    <3>7. MonthSpend(book, m) = SizesOf(book, SpentIn(book, FromTo(m, m)))
      BY <3>1, MonthSpendIs
    <3> QED  BY <3>2, <3>6, <3>7 DEF RowOf
  <2>3. ASSUME NEW r \in Range(rows)
        PROVE  r.label \in first .. last /\ r.value = MonthSpend(book, r.label)
    <3>1. PICK k \in 1 .. n : r = RowOf(book, plan, first + k - 1)
      BY <1>6, <2>1 DEF Range
    <3>2. first + k - 1 \in first .. last  BY <1>3
    <3> QED  BY <2>2, <3>1, <3>2
  <2> QED  BY <2>1, <2>3 DEF rows
<1> QED  BY <1>4, <1>5, <1>6

(* The trend of the dashboard drops nothing but months without spending. *)
LEMMA TrendIs ==
    ASSUME NEW book, Kept(book), NEW anchor \in AllMonths, anchor - 11 \in AllMonths
    PROVE  LET trend == TrendShown(book, anchor)
           IN /\ \A m \in DOMAIN trend : trend[m] = MonthSpend(book, m)
              /\ \A m \in anchor - 11 .. anchor : m \notin DOMAIN trend => MonthSpend(book, m) = 0
              /\ SumOf(trend, DOMAIN trend)
                    = SizesOf(book, SpentIn(book, FromTo(anchor - 11, anchor)))
<1> DEFINE trend == TrendShown(book, anchor)
           first == anchor - 11
           K == first .. anchor
           active == {m \in K : MonthSpend(book, m) # 0}
           low == IF active = {} THEN anchor ELSE Min(active)
           g == [m \in K |-> MonthSpend(book, m)]
<1>1. anchor \in Nat /\ first \in Nat /\ first <= anchor  BY MonthsAre
<1>2. /\ K \in SUBSET AllMonths /\ IsFiniteSet(K) /\ g \in [K -> Int]
      /\ SumOf(g, K) = SizesOf(book, SpentIn(book, FromTo(first, anchor)))
  BY <1>1, MonthsAddUp
<1>3. trend = [m \in low .. anchor |-> MonthSpend(book, m)]
  <2>1. anchor - (TrendMonths - 1) = first  BY <1>1 DEF TrendMonths
  <2> QED  BY <2>1 DEF TrendShown
<1> HIDE DEF trend, g
<1>4. low \in K /\ \A m \in K : m < low => MonthSpend(book, m) = 0
  <2>1. CASE active = {}
    <3>1. low = anchor /\ anchor \in K  BY <1>1, <2>1
    <3> QED  BY <2>1, <3>1
  <2>2. CASE active # {}
    <3>1. active \in SUBSET Nat  BY <1>1
    <3>2. PICK least \in active : \A m \in active : least <= m
      <4> HIDE DEF active
      <4> QED  BY <2>2, <3>1, LeastNatural
    <3>3. Min(active) \in active /\ \A m \in active : Min(active) <= m
      <4> HIDE DEF active
      <4> QED  BY <3>2, Zenon DEF Min
    <3>4. low = Min(active)  BY <2>2
    <3> HIDE DEF low
    <3>5. low \in K /\ \A m \in active : low <= m  BY <3>3, <3>4
    <3>6. ASSUME NEW m \in K, m < low, MonthSpend(book, m) # 0  PROVE FALSE
      <4>1. m \in active  BY <3>6
      <4> QED  BY <1>1, <3>5, <3>6, <4>1
    <3> QED  BY <3>5, <3>6
  <2> QED  BY <2>1, <2>2
<1> HIDE DEF low, active
<1>5. DOMAIN trend = low .. anchor /\ \A m \in low .. anchor : trend[m] = MonthSpend(book, m)
  BY <1>3
<1>6. \A m \in K : m \notin low .. anchor => MonthSpend(book, m) = 0
  BY <1>1, <1>4
<1>7. SumOf(trend, low .. anchor) = SumOf(g, K)
  <2> DEFINE L == low .. anchor
             R == K \ L
  <2>1. L \in SUBSET K /\ R \in SUBSET K /\ K = L \cup R /\ L \cap R = {}
    <3>1. \A m \in L : m \in K  BY <1>1, <1>4
    <3> HIDE DEF L, K
    <3> QED  BY <3>1
  <2>2. IsFiniteSet(L)
    <3> HIDE DEF L, K
    <3> QED  BY <1>2, <2>1, FS_Subset
  <2>3. \A m \in K : g[m] = MonthSpend(book, m)  BY DEF g
  <2>4. \A m \in R : g[m] = 0  BY <1>6, <2>1, <2>3
  <2>5. \A m \in L : trend[m] = g[m]  BY <1>5, <2>1, <2>3
  <2>6. trend \in [L -> Int]
    <3>1. trend = [m \in L |-> g[m]]  BY <1>3, <2>1, <2>3
    <3> HIDE DEF L, K
    <3> QED  BY <1>2, <2>1, <3>1
  <2> HIDE DEF L, R, K
  <2>7. SumOf(g, K) = SumOf(g, L) + SumOf(g, R)  BY <1>2, <2>1, SumSplit
  <2>8. SumOf(g, R) = 0  BY <1>2, <2>1, <2>4, SumZero
  <2>9. SumOf(g, L) \in Int  BY <1>2, <2>1, SumType
  <2>10. L \in SUBSET L  OBVIOUS
  <2>11. SumOf(trend, L) = SumOf(g, L)  BY <1>2, <2>1, <2>2, <2>5, <2>6, <2>10, SumSame
  <2> QED  BY <2>7, <2>8, <2>9, <2>11 DEF L, K
<1> QED  BY <1>2, <1>5, <1>6, <1>7 DEF trend, K

(* A plan for the spending of some months, grouped. *)
LEMMA GroupingIs ==
    ASSUME NEW book, NEW plan, Cardinality(Groups(book, plan)) <= 25,
           NEW first \in AllMonths, NEW last \in AllMonths, first <= last,
           plan.period = FromTo(first, last), plan.limit = 25, plan.intent # "recurring",
           plan.group \in {"category", "merchant", "month", "week"},
           plan.byTime => plan.group \in {"month", "week"}
    PROVE  Grouping(book, plan)
<1>1. InCalendar(plan.period)  BY FromToIs
<1> QED  BY <1>1 DEF Grouping

(* The plans of the question about a month, and about the year it ends. *)
SlicesAsked(month) == Refined(AskedOf(month), "group_by_category")
TrendAsked(month) == Refined(AskedOf(month), "monthly_trend")
YearAsked(month) ==
    [AskedOf(month) EXCEPT !.period = Period(FirstOf[month - 11], LastOf(month))]

YearGrouped(month, group, metric) ==
    [YearAsked(month) EXCEPT !.group = group, !.metric = metric]

AskedWell(month) ==
    LET plan == AskedOf(month)
    IN /\ SumsSpending(plan) /\ plan.period = FromTo(month, month) /\ plan.group = "none"
       /\ plan.baseline = FromTo(month - 1, month - 1)
SlicesAskedWell(month) ==
    LET plan == SlicesAsked(month)
    IN /\ SumsSpending(plan) /\ plan.period = FromTo(month, month) /\ plan.group = "category"
       /\ plan.limit = 25 /\ plan.intent = "breakdown" /\ plan.byTime = FALSE
TrendAskedWell(month) ==
    LET plan == TrendAsked(month)
    IN /\ SumsSpending(plan) /\ plan.period = FromTo(month - 5, month) /\ plan.group = "month"
       /\ plan.limit = 25 /\ plan.intent = "trend"
YearAskedWell(plan, group, metric, month) ==
    /\ AsksSpending(plan) /\ plan.group = group /\ plan.metric = metric /\ plan.period = FromTo(month - 11, month)
    /\ plan.limit = 25 /\ plan.intent = "total" /\ plan.byTime = FALSE

LEMMA AskedIs ==
    ASSUME NEW month \in AllMonths, month - 11 \in AllMonths
    PROVE  /\ \A m \in month - 11 .. month : m \in AllMonths
           /\ AskedWell(month) /\ SlicesAskedWell(month) /\ TrendAskedWell(month)
           /\ \A metric :
                /\ YearAskedWell([YearAsked(month) EXCEPT !.metric = metric], "none", metric, month)
                /\ \A group : YearAskedWell(YearGrouped(month, group, metric), group, metric, month)
           /\ YearAsked(month).metric = "sum" /\ YearAskedWell(YearAsked(month), "none", "sum", month)
<1> DEFINE asked == AskedOf(month)
<1>0. month \in Nat /\ month - 11 \in Nat  BY MonthsAre
<1>1. \A m \in month - 11 .. month : m \in AllMonths
  <2>1. Years \in Nat \ {0}  BY PlanningAssumption
  <2> QED  BY <1>0, <2>1 DEF AllMonths
<1>2. month - 1 \in AllMonths /\ month - 5 \in AllMonths
  <2>1. month - 1 \in month - 11 .. month /\ month - 5 \in month - 11 .. month  BY <1>0
  <2> QED  BY <1>1, <2>1
<1>3. MonthPeriod(month) = FromTo(month, month)
      /\ MonthPeriod(month - 1) = FromTo(month - 1, month - 1)
  BY <1>2, MonthPeriodIs DEF FromTo
<1>4. asked = [intent |-> "total", group |-> "none", direction |-> "spend",
               period |-> FromTo(month, month), baseline |-> FromTo(month - 1, month - 1),
               categories |-> {}, merchants |-> {}, text |-> FALSE,
               transfers |-> FALSE, metric |-> "sum", byTime |-> FALSE, limit |-> 25]
  BY <1>3 DEF AskedOf
<1>5. /\ Period(FirstOf[month - 11], LastOf(month)) = FromTo(month - 11, month)
      /\ Period(FirstOf[month - 5], LastOf(month)) = FromTo(month - 5, month)
      /\ FromTo(month, month).end = LastOf(month)
  BY <1>0, <1>2, FromToIs
<1>6. MonthOf(LastOf(month)) = month  BY MonthDays
<1> HIDE DEF asked
<1>7. asked.period.end = LastOf(month)  BY <1>4, <1>5
<1>8. TrendAsked(month)
        = [asked EXCEPT !.intent = "trend", !.group = "month", !.byTime = TRUE,
                        !.baseline = NoPeriod, !.period = FromTo(month - 5, month)]
  BY <1>5, <1>6, <1>7 DEF Refined, TrendAsked, asked
<1>9. SlicesAsked(month)
        = [asked EXCEPT !.intent = "breakdown", !.group = "category", !.byTime = FALSE]
  BY DEF Refined, GroupedBy, SlicesAsked, asked
<1>10. YearAsked(month) = [asked EXCEPT !.period = FromTo(month - 11, month)]
  BY <1>5 DEF YearAsked, asked
<1>11. AskedWell(month)  BY <1>4 DEF AskedWell, SumsSpending, AsksSpending, asked
<1>12. SlicesAskedWell(month)  BY <1>4, <1>9 DEF SlicesAskedWell, SumsSpending, AsksSpending
<1>13. TrendAskedWell(month)  BY <1>4, <1>8 DEF TrendAskedWell, SumsSpending, AsksSpending
<1> DEFINE year == YearAsked(month)
<1>14. year = [intent |-> "total", group |-> "none", direction |-> "spend",
               period |-> FromTo(month - 11, month), baseline |-> FromTo(month - 1, month - 1),
               categories |-> {}, merchants |-> {}, text |-> FALSE,
               transfers |-> FALSE, metric |-> "sum", byTime |-> FALSE, limit |-> 25]
  BY <1>4, <1>10
<1> HIDE DEF year
<1>15. year.metric = "sum" /\ YearAskedWell(year, "none", "sum", month)
  BY <1>14 DEF YearAskedWell, AsksSpending
<1>16. ASSUME NEW metric
       PROVE  /\ YearAskedWell([year EXCEPT !.metric = metric], "none", metric, month)
              /\ \A group :
                    YearAskedWell([year EXCEPT !.group = group, !.metric = metric], group, metric, month)
  BY <1>14 DEF YearAskedWell, AsksSpending
<1> QED  BY <1>1, <1>11, <1>12, <1>13, <1>15, <1>16 DEF year, YearGrouped

(* The dashboard's slices, its trend and the year have room for all rows.  *)
YearsGrouped(month) ==
    {YearGrouped(month, group, metric) :
        group \in {"category", "merchant", "month", "week"}, metric \in {"sum", "count"}}
RoomForAll(book, month) ==
    \A plan \in {SlicesAsked(month), TrendAsked(month)} \cup YearsGrouped(month) :
        Cardinality(Groups(book, plan)) <= 25

(* For every book whose last month is in the calendar, with the eleven     *)
(* before it, and of which no answer leaves rows out: the dashboard and    *)
(* the answers about its month show the same figures, in total, by         *)
(* category and by month, and rows of sums and of counts add up to the     *)
(* whole however they are grouped (dashboard.py, executor.py).             *)
THEOREM FiguresAgree ==
    ASSUME NEW c, Kept(c.book), FirstToday \in AllDays,
           Anchor(c.book, FirstToday) - 11 \in AllMonths,
           RoomForAll(c.book, Anchor(c.book, FirstToday))
    PROVE  SurfacesAgree(c)
<1> DEFINE book == c.book
           month == Anchor(book, FirstToday)
           shown == Dashboard(book, FirstToday)
           asked == AskedOf(month)
           slices == SlicesAsked(month)
           trend == TrendAsked(month)
           year == YearAsked(month)
           Divided(group, metric) == YearGrouped(month, group, metric)
           current == SpentIn(book, FromTo(month, month))
           first == month - 11
           Values(rows) == [i \in DOMAIN rows |-> rows[i].value]
           Sum(rows) == SumOf(Values(rows), DOMAIN rows)
<1>0. month \in AllMonths /\ first \in AllMonths
  BY AnchorIs
<1>1. /\ \A m \in first .. month : m \in AllMonths
      /\ AskedWell(month) /\ SlicesAskedWell(month) /\ TrendAskedWell(month)
      /\ \A metric :
            /\ YearAskedWell([year EXCEPT !.metric = metric], "none", metric, month)
            /\ \A group : YearAskedWell(Divided(group, metric), group, metric, month)
      /\ year.metric = "sum" /\ YearAskedWell(year, "none", "sum", month)
  BY <1>0, AskedIs
<1>2. month \in Nat /\ first \in Nat  BY <1>0, MonthsAre
<1>3. month - 1 \in AllMonths /\ month - 5 \in AllMonths
  <2>1. month - 1 \in first .. month /\ month - 5 \in first .. month  BY <1>2
  <2> QED  BY <1>1, <2>1
<1>4. /\ shown.month = month /\ shown.spend = MonthSpend(book, month)
      /\ shown.previous = MonthSpend(book, month - 1)
      /\ shown.count = Cardinality(SpentIn(book, MonthPeriod(month)))
      /\ shown.trend = TrendShown(book, month)
      /\ shown.slices
            = {[label |-> k, value |-> SizesOf(book, {i \in SpentIn(book, MonthPeriod(month)) :
                                                        book[i].category = k})] :
                    k \in {book[i].category : i \in SpentIn(book, MonthPeriod(month))}}
  BY DEF Dashboard
<1>5. MonthPeriod(month) = FromTo(month, month)  BY <1>0, MonthPeriodIs DEF FromTo
<1>6. /\ MonthSpend(book, month) = SizesOf(book, current)
      /\ MonthSpend(book, month - 1) = SizesOf(book, SpentIn(book, FromTo(month - 1, month - 1)))
  BY <1>0, <1>3, MonthSpendIs
<1>7. /\ Cardinality(Groups(book, slices)) <= 25 /\ Cardinality(Groups(book, trend)) <= 25
      /\ \A group \in {"category", "merchant", "month", "week"}, metric \in {"sum", "count"} :
            Cardinality(Groups(book, Divided(group, metric))) <= 25
  BY DEF RoomForAll, YearsGrouped
<1>8. Kept(book)  OBVIOUS
<1> HIDE DEF month, shown, slices, trend, year, Divided, book
<1>9. LET answer == Executed(book, asked)
      IN answer.total = shown.spend /\ answer.count = shown.count /\ answer.previous = shown.previous
  <2>1. /\ SumsSpending(asked) /\ asked.period = FromTo(month, month)
        /\ asked.baseline = FromTo(month - 1, month - 1)
    BY <1>1 DEF AskedWell
  <2>2. asked.baseline # NoPeriod
    <3>1. FromTo(month - 1, month - 1) \in [start : Int, end : Int]
      BY <1>3, MonthsAre DEF FromTo
    <3> QED  BY <2>1, <3>1, PlanningAssumption
  <2>3. /\ \A period : Selected(book, asked, period) = SpentIn(book, period)
        /\ \A rows : Total(book, asked, rows) = SizesOf(book, rows)
    BY <2>1, SpendingSums
  <2> HIDE DEF asked
  <2>4. /\ Executed(book, asked).total = Total(book, asked, Selected(book, asked, asked.period))
        /\ Executed(book, asked).count = Cardinality(Selected(book, asked, asked.period))
        /\ Executed(book, asked).previous
              = Total(book, asked, Selected(book, asked, asked.baseline))
    BY <2>2 DEF Executed
  <2> QED  BY <1>4, <1>5, <1>6, <2>1, <2>3, <2>4
<1>10. {[label |-> r.label, value |-> r.value] : r \in Range(Executed(book, slices).rows)}
         = shown.slices
  <2>1. /\ SumsSpending(slices) /\ slices.period = FromTo(month, month)
        /\ slices.group = "category" /\ slices.limit = 25 /\ slices.intent = "breakdown"
        /\ slices.byTime = FALSE
    BY <1>1 DEF SlicesAskedWell, slices
  <2>2. Grouping(book, slices)
    <3>1. slices.intent # "recurring" /\ month <= month  BY <1>2, <2>1
    <3> QED  BY <1>0, <1>7, <2>1, <3>1, GroupingIs
  <2> DEFINE SlicesOf(p) ==
                {[label |-> k, value |-> SizesOf(book, {i \in SpentIn(book, p) :
                                                          book[i].category = k})] :
                    k \in {book[i].category : i \in SpentIn(book, p)}}
             drawn == {[label |-> r.label, value |-> r.value] : r \in Range(Executed(book, slices).rows)}
  <2>3. drawn = SlicesOf(slices.period)  BY <1>8, <2>1, <2>2, SlicesAgree, Zenon
  <2>4. slices.period = MonthPeriod(month)  BY <1>5, <2>1
  <2>5. shown.slices = SlicesOf(MonthPeriod(month))  BY <1>4
  <2> HIDE DEF SlicesOf, drawn
  <2>6. drawn = shown.slices  BY <2>3, <2>4, <2>5
  <2> QED  BY <2>6 DEF drawn
<1>11. /\ \A m \in DOMAIN shown.trend : shown.trend[m] = MonthSpend(book, m)
       /\ \A m \in first .. month : m \notin DOMAIN shown.trend => MonthSpend(book, m) = 0
       /\ SumOf(shown.trend, DOMAIN shown.trend) = SizesOf(book, SpentIn(book, FromTo(first, month)))
  BY <1>0, <1>4, <1>8, TrendIs
<1>12. LET rows == Executed(book, trend).rows
       IN /\ rows # <<>> => Len(rows) = 6
          /\ \A r \in Range(rows) :
                r.value = IF r.label \in DOMAIN shown.trend THEN shown.trend[r.label] ELSE 0
  <2>1. /\ SumsSpending(trend) /\ trend.period = FromTo(month - 5, month)
        /\ trend.group = "month" /\ trend.limit = 25 /\ trend.intent = "trend"
    BY <1>1 DEF TrendAskedWell, trend
  <2>2. Grouping(book, trend)
    <3>1. trend.intent # "recurring" /\ month - 5 <= month  BY <1>2, <2>1
    <3> QED  BY <1>0, <1>3, <1>7, <2>1, <3>1, GroupingIs
  <2> DEFINE rows == Executed(book, trend).rows
  <2>3. month - 5 <= month /\ month - (month - 5) + 1 = 6  BY <1>2
  <2>4. /\ rows # <<>> => Len(rows) = month - (month - 5) + 1
        /\ \A r \in Range(rows) :
                r.label \in month - 5 .. month /\ r.value = MonthSpend(book, r.label)
    BY <1>0, <1>3, <1>8, <2>1, <2>2, <2>3, TrendAgrees
  <2> HIDE DEF rows
  <2>5. \A r \in Range(rows) :
            r.value = IF r.label \in DOMAIN shown.trend THEN shown.trend[r.label] ELSE 0
    <3> SUFFICES ASSUME NEW r \in Range(rows)
                 PROVE  r.value = IF r.label \in DOMAIN shown.trend THEN shown.trend[r.label] ELSE 0
      OBVIOUS
    <3>1. r.label \in first .. month  BY <1>2, <2>4
    <3> QED  BY <1>11, <2>4, <3>1
  <2> QED  BY <2>3, <2>4, <2>5 DEF rows
<1>13. Executed(book, year).total = SizesOf(book, SpentIn(book, FromTo(first, month)))
  <2>1. SumsSpending(year) /\ year.period = FromTo(first, month)
    BY <1>1 DEF YearAskedWell, SumsSpending, year
  <2>2. Selected(book, year, year.period) = SpentIn(book, FromTo(first, month))
        /\ \A rows : Total(book, year, rows) = SizesOf(book, rows)
    BY <2>1, SpendingSums
  <2>3. Executed(book, year).total = Total(book, year, Selected(book, year, year.period))
    BY DEF Executed
  <2> QED  BY <2>2, <2>3
<1>14. ASSUME NEW group \in {"category", "merchant", "month", "week"}, NEW metric \in {"sum", "count"}
       PROVE  Sum(Executed(book, [year EXCEPT !.group = group, !.metric = metric]).rows)
                = Executed(book, [year EXCEPT !.metric = metric]).total
  <2> DEFINE plan == Divided(group, metric)
             whole == [year EXCEPT !.metric = metric]
  <2>1. /\ YearAskedWell(plan, group, metric, month) /\ Cardinality(Groups(book, plan)) <= 25
        /\ YearAskedWell(whole, "none", metric, month)
    BY <1>1, <1>7
  <2>2. plan = [year EXCEPT !.group = group, !.metric = metric]
    BY DEF Divided, year, YearGrouped
  <2> HIDE DEF plan, whole
  <2>3. /\ AsksSpending(plan) /\ plan.group = group /\ plan.period = FromTo(first, month)
        /\ plan.limit = 25 /\ plan.intent = "total" /\ plan.byTime = FALSE
        /\ plan.metric = metric /\ whole.metric = metric
        /\ AsksSpending(whole) /\ whole.period = FromTo(first, month)
    BY <2>1 DEF YearAskedWell
  <2>4. Grouping(book, plan)
    <3>1. plan.intent # "recurring" /\ first <= month  BY <1>2, <2>3
    <3> QED  BY <1>0, <2>1, <2>3, <3>1, GroupingIs
  <2>5. Sum(Executed(book, plan).rows) = Executed(book, plan).total
    BY <1>8, <2>3, <2>4, GroupsAddUp, Zenon
  <2>6. Selected(book, plan, plan.period) = Selected(book, whole, whole.period)
    BY <2>3, SpendingIs
  <2>7. \A rows : Total(book, plan, rows) = Total(book, whole, rows)
    <3>1. plan.direction = whole.direction /\ plan.metric = whole.metric  BY <2>3 DEF AsksSpending
    <3> QED  BY <3>1 DEF Total
  <2>8. /\ Executed(book, plan).total = Total(book, plan, Selected(book, plan, plan.period))
        /\ Executed(book, whole).total = Total(book, whole, Selected(book, whole, whole.period))
    BY DEF Executed
  <2>9. Sum(Executed(book, plan).rows) = Executed(book, whole).total
    <3> HIDE DEF Sum
    <3> QED  BY <2>5, <2>6, <2>7, <2>8
  <2> QED  BY <2>2, <2>9 DEF whole
<1>15. shown.month = month  BY <1>4
<1>16. \A group \in {"category", "merchant", "month", "week"}, metric \in {"sum", "count"} :
            Sum(Executed(book, [YearAsked(shown.month) EXCEPT !.group = group, !.metric = metric]).rows)
                = Executed(book, [YearAsked(shown.month) EXCEPT !.metric = metric]).total
  <2>1. YearAsked(shown.month) = year  BY <1>15 DEF year
  <2> HIDE DEF Sum
  <2> QED  BY <1>14, <2>1
<1> QED
  BY <1>9, <1>10, <1>11, <1>12, <1>13, <1>15, <1>16, Zenon
  DEF SurfacesAgree, shown, slices, trend, year, book, SlicesAsked, TrendAsked, YearAsked

-----------------------------------------------------------------------------
(***************************************************************************)
(* Phrases, the periods they name and those before.                        *)
(***************************************************************************)

(* A month has 28 to 31 days, and so have some months on average. *)
LEMMA MonthsApart ==
    ASSUME NEW month \in AllMonths, NEW k \in Nat, month + k \in AllMonths
    PROVE  FirstOf[month] + 28 * k <= FirstOf[month + k]
           /\ FirstOf[month + k] <= FirstOf[month] + 31 * k
<1> DEFINE Apart(n) == FirstOf[month] + 28 * n <= FirstOf[month + n]
                       /\ FirstOf[month + n] <= FirstOf[month] + 31 * n
           T == {n \in Nat : month + n \in AllMonths => Apart(n)}
<1>0. Years \in Nat \ {0}  BY PlanningAssumption
<1>1. month \in Nat /\ FirstOf[month] \in Int  BY MonthsAre
<1>2. 0 \in T
  <2>1. month + 0 = month  BY <1>1
  <2> QED  BY <1>1, <2>1
<1>3. ASSUME NEW n \in T  PROVE n + 1 \in T
  <2> DEFINE m == month + n
  <2>1. n \in Nat /\ m \in Nat /\ month + (n + 1) = m + 1  BY <1>1
  <2> SUFFICES ASSUME m + 1 \in AllMonths  PROVE Apart(n + 1)  BY <2>1
  <2>2. m \in AllMonths  BY <1>0, <2>1 DEF AllMonths
  <2>3. Apart(n)  BY <2>2
  <2>4. /\ FirstOf[m] \in Int /\ FirstOf[m + 1] \in Int /\ DaysIn(m) \in 28 .. 31
        /\ LastOf(m) = FirstOf[m] + DaysIn(m) - 1 /\ FirstOf[m + 1] = LastOf(m) + 1
    BY <2>2, MonthsAre, MonthsFollow DEF LastOf
  <2> HIDE DEF m
  <2>5. FirstOf[m + 1] = FirstOf[m] + DaysIn(m)  BY <2>4
  <2>6. /\ FirstOf[month] + 28 * n <= FirstOf[m] /\ FirstOf[m] <= FirstOf[month] + 31 * n
    BY <2>3 DEF m
  <2>7. /\ FirstOf[month] + 28 * (n + 1) <= FirstOf[m + 1]
        /\ FirstOf[m + 1] <= FirstOf[month] + 31 * (n + 1)
    BY <1>1, <2>1, <2>4, <2>5, <2>6
  <2> QED  BY <2>1, <2>7
<1> HIDE DEF Apart
<1>4. T = Nat
  <2>1. T \in SUBSET Nat  OBVIOUS
  <2> HIDE DEF T
  <2> QED  BY <1>2, <1>3, <2>1, AllNaturals
<1>5. k \in T  BY <1>4
<1> QED  BY <1>5 DEF Apart

(* A period of days of the calendar that begins after its first month, and *)
(* so has something before it.                                             *)
Preceded(period) ==
    \E start, end \in AllDays :
        period = [start |-> start, end |-> end] /\ start <= end /\ MonthOf(start) > 0
LEMMA PrecededIs ==
    ASSUME NEW start \in Int, NEW end \in AllDays, start <= end, NEW month \in AllMonths,
           1 <= month, FirstOf[month] <= start
    PROVE  Period(start, end) = [start |-> start, end |-> end] /\ Preceded(Period(start, end))
<1>1. /\ month \in Nat /\ FirstOf[month] \in AllDays /\ FirstOf[month] \in Nat /\ end \in Nat
  BY MonthsAre, MonthDays, MonthIs
<1>2. start \in AllDays
  <2>1. FirstOf[month] >= 1  BY <1>1 DEF AllDays
  <2>2. LastOf(12 * Years - 1) \in Int
    <3>1. 12 * Years - 1 \in AllMonths  BY PlanningAssumption DEF AllMonths
    <3> QED  BY <3>1, MonthsAre
  <2>3. end <= LastOf(12 * Years - 1)  BY <2>2 DEF AllDays
  <2> QED  BY <1>1, <2>1, <2>2, <2>3 DEF AllDays
<1>3. month <= MonthOf(start)  BY <1>2, DayInMonths
<1>4. MonthOf(start) > 0
  <2>1. MonthOf(start) \in AllMonths  BY <1>2, MonthIs
  <2>2. MonthOf(start) \in Nat  BY <2>1, MonthsAre
  <2> QED  BY <1>1, <1>3, <2>2
<1>5. Period(start, end) = [start |-> start, end |-> end]  BY <1>1 DEF Period
<1> QED  BY <1>2, <1>4, <1>5 DEF Preceded

(* The same of the months from one to another. *)
LEMMA MonthsPreceded ==
    ASSUME NEW first \in AllMonths, NEW last \in AllMonths, 1 <= first, first <= last
    PROVE  /\ Preceded(Period(FirstOf[first], LastOf(last)))
           /\ Period(FirstOf[first], LastOf(last)) = FromTo(first, last)
<1>1. /\ FirstOf[first] \in AllDays /\ LastOf(last) \in AllDays /\ FirstOf[first] \in Int
      /\ MonthOf(LastOf(last)) = last
  BY MonthDays, MonthsAre
<1>2. FirstOf[first] <= LastOf(last)
  <2>1. FirstOf[first] <= LastOf(last) <=> first <= MonthOf(LastOf(last))
    BY <1>1, DayInMonths
  <2> QED  BY <1>1, <2>1
<1>3. FirstOf[first] <= FirstOf[first]  BY <1>1
<1> QED  BY <1>1, <1>2, <1>3, PrecededIs, FromToIs

(* What a period that is preceded is compared with. *)
LEMMA BaselineIs ==
    ASSUME NEW period, Preceded(period)
    PROVE  LET before == PreviousPeriod(period)
           IN /\ period \in [start : Int, end : Int] /\ before \in [start : Int, end : Int]
              /\ period # NoPeriod /\ before # NoPeriod
              /\ before.end = period.start - 1 /\ before.end < period.start
              /\ IF FullMonth(period) THEN FullMonth(before)
                 ELSE before.end - before.start = period.end - period.start
<1> DEFINE before == PreviousPeriod(period)
<1>1. PICK start \in AllDays, end \in AllDays :
        period = [start |-> start, end |-> end] /\ start <= end /\ MonthOf(start) > 0
  BY DEF Preceded
<1>2. /\ before = [start |-> before.start, end |-> start - 1]
      /\ before.start \in Int /\ before.start < start
      /\ IF FullMonth(period) THEN FullMonth(before)
         ELSE before.end - before.start = end - start
  BY <1>1, BaselinesPrecede
<1>3. start \in Nat /\ end \in Nat  BY MonthIs
<1>4. period \in [start : Int, end : Int] /\ period.start = start /\ period.end = end
  BY <1>1, <1>3
<1> HIDE DEF before
<1>5. before \in [start : Int, end : Int] /\ before.end = start - 1  BY <1>2, <1>3
<1>6. period # NoPeriod /\ before # NoPeriod  BY <1>4, <1>5, PlanningAssumption
<1> QED  BY <1>2, <1>3, <1>4, <1>5, <1>6 DEF before

(* Periods that have begun: from a day to another, *)
Past(p, today) == Preceded(p) /\ p.start <= today
LEMMA DaysPast ==
    ASSUME NEW today \in AllDays, 1 \in AllMonths, NEW start \in Int, NEW end \in Int,
           FirstOf[1] <= start, start <= end, end <= today
    PROVE  Past(Period(start, end), today)
<1>1. FirstOf[1] \in Nat /\ FirstOf[1] >= 1 /\ FirstOf[1] \in AllDays
  BY MonthDays, MonthIs DEF AllDays
<1>2. today \in Nat  BY MonthIs
<1>3. end \in AllDays
  <2>1. LastOf(12 * Years - 1) \in Int
    <3>1. 12 * Years - 1 \in AllMonths  BY PlanningAssumption DEF AllMonths
    <3> QED  BY <3>1, MonthsAre
  <2>2. today <= LastOf(12 * Years - 1)  BY <2>1 DEF AllDays
  <2> QED  BY <1>1, <1>2, <2>1, <2>2 DEF AllDays
<1>4. 1 <= 1  OBVIOUS
<1>5. Period(start, end) = [start |-> start, end |-> end] /\ Preceded(Period(start, end))
  BY <1>3, <1>4, PrecededIs
<1> QED  BY <1>1, <1>2, <1>5 DEF Past

(* from a month to today, *)
LEMMA SincePast ==
    ASSUME NEW today \in AllDays, NEW month \in Int, 1 <= month, month <= MonthOf(today)
    PROVE  Past(Period(FirstOf[month], today), today)
<1>1. month \in AllMonths /\ FirstOf[month] \in Int /\ FirstOf[month] <= today
  BY EarlierMonth
<1>2. FirstOf[month] <= FirstOf[month]  BY <1>1
<1>3. /\ Period(FirstOf[month], today) = [start |-> FirstOf[month], end |-> today]
      /\ Preceded(Period(FirstOf[month], today))
  BY <1>1, <1>2, PrecededIs
<1> QED  BY <1>1, <1>3 DEF Past

(* and from a month to the end of another. *)
LEMMA MonthsPast ==
    ASSUME NEW today \in AllDays, NEW first \in Int, 1 <= first, first <= MonthOf(today),
           NEW last \in AllMonths, first <= last
    PROVE  Past(Period(FirstOf[first], LastOf(last)), today)
<1>1. first \in AllMonths /\ FirstOf[first] \in Int /\ FirstOf[first] <= today
  BY EarlierMonth
<1>2. /\ Preceded(Period(FirstOf[first], LastOf(last)))
      /\ Period(FirstOf[first], LastOf(last)) = FromTo(first, last)
  BY <1>1, MonthsPreceded
<1> QED  BY <1>1, <1>2 DEF Past, FromTo

(* The smaller of two. *)
LEMMA SmallerIs ==
    ASSUME NEW a \in Int, NEW b \in Int, a <= b
    PROVE  Min({a, b}) = a
<1>1. \A x \in {a, b} : a <= x  OBVIOUS
<1>2. Min({a, b}) \in {a, b} /\ \A x \in {a, b} : Min({a, b}) <= x
  BY <1>1, Zenon DEF Min
<1> QED  BY <1>2

(* A phrase a calendar reaches: it goes back for seven years and on for a  *)
(* month, and for as long as the phrase counts; a year that is named is    *)
(* over, and not the first.                                                *)
Reached(phrase, today) ==
    LET month == MonthOf(today)
        named == 12 * (phrase.year - FirstYear)
    IN /\ 84 <= month /\ month + 1 \in AllMonths
       /\ phrase.year # 0 => /\ phrase.kind \in {"quarter", "month", "year"}
                             /\ 12 <= named /\ named + 12 <= JanuaryOf(today)
       /\ phrase.kind \in {"days", "weeks"} => FirstOf[1] <= today - 7 * phrase.n
       /\ phrase.kind = "months" => phrase.n <= month
       /\ phrase.kind = "years" => 12 * phrase.n < month
       /\ phrase.kind = "quarter" => phrase.n \in 1 .. 4
       /\ phrase.kind = "month" => phrase.n \in 1 .. 12

(* What a phrase resolves to. *)
ResolvedWell(phrase, today) ==
    LET period == Resolved(phrase, today)
    IN IF period = NoPeriod
       THEN \/ phrase.kind \in {"days", "months"} /\ phrase.n = 0
            \/ /\ phrase.kind = "years"
               /\ DayOfMonth(today) = 29 /\ MonthOf(today) % 12 = 1
       ELSE Preceded(period) /\ (period.start <= today \/ phrase.kind = "quarter")

LEMMA PastIsWell ==
    ASSUME NEW phrase, NEW today, Past(Resolved(phrase, today), today)
    PROVE  ResolvedWell(phrase, today)
<1>1. Resolved(phrase, today) # NoPeriod  BY BaselineIs DEF Past
<1> QED  BY <1>1 DEF Past, ResolvedWell

(* A date that a year does not have is 29 February. *)
LEMMA YearsBack ==
    ASSUME NEW today \in AllDays, NEW n \in Nat, 12 * n < MonthOf(today)
    PROVE  LET then == MonthOf(today) - 12 * n
           IN \/ /\ DayOfMonth(today) > DaysIn(then)
                 /\ DayOfMonth(today) = 29 /\ MonthOf(today) % 12 = 1
              \/ /\ ~(DayOfMonth(today) > DaysIn(then))
                 /\ Past(Period(ShiftMonth(today, -12 * n), today), today)
<1> DEFINE month == MonthOf(today)
           then == month - 12 * n
           day == DayOfMonth(today)
           start == ShiftMonth(today, -12 * n)
<1>1. /\ month \in AllMonths /\ month \in Nat /\ today \in Nat
      /\ FirstOf[month] \in Int /\ LastOf(month) \in Int
      /\ FirstOf[month] <= today /\ today <= LastOf(month)
  BY TodayIs
<1>2. day = today - FirstOf[month] + 1  BY DEF DayOfMonth
<1>3. start = FirstOf[month + (-12 * n)] + Min({day, DaysIn(month + (-12 * n))}) - 1
  BY DEF ShiftMonth
<1>4. then \in Int /\ 1 <= then /\ then <= month /\ month + (-12 * n) = then  BY <1>1
<1>5. /\ then \in AllMonths /\ FirstOf[then] \in Int /\ FirstOf[then] <= today
      /\ LastOf(then) \in Int /\ (then < month => LastOf(then) < today)
  BY <1>4, EarlierMonth
<1>6. ASSUME NEW m \in AllMonths
      PROVE  /\ m \in Nat /\ DaysIn(m) \in 28 .. 31 /\ LastOf(m) = FirstOf[m] + DaysIn(m) - 1
             /\ m % 12 # 1 => DaysIn(m) = IF m % 12 \in {3, 5, 8, 10} THEN 30 ELSE 31
             /\ m % 12 = 1 => DaysIn(m) \in 28 .. 29
  <2> DEFINE own == FirstYear + m \div 12
             k == m % 12
  <2>1. /\ m \in Nat /\ own \in Nat /\ DaysIn(m) \in 28 .. 31
        /\ DaysIn(m) = IF k = 1 THEN 28 + LeapDay(own)
                       ELSE IF k \in {3, 5, 8, 10} THEN 30 ELSE 31
    BY MonthsAre
  <2> HIDE DEF own, k
  <2>2. LeapDay(own) \in 0 .. 1  BY <2>1, LeapsCount
  <2> QED  BY <2>1, <2>2 DEF k, LastOf
<1>7. then % 12 = month % 12  BY <1>1, <1>4
<1> HIDE DEF month, then, day, start
<1>8. day \in Nat /\ 1 <= day /\ day <= DaysIn(month)  BY <1>1, <1>2, <1>6
<1>9. CASE day > DaysIn(then)
  <2>1. month % 12 = 1  BY <1>1, <1>5, <1>6, <1>7, <1>8, <1>9
  <2>2. day = 29  BY <1>1, <1>5, <1>6, <1>7, <1>8, <1>9, <2>1
  <2> QED  BY <1>9, <2>1, <2>2 DEF month, then, day, start
<1>10. CASE ~(day > DaysIn(then))
  <2>1. day <= DaysIn(then) /\ DaysIn(then) \in Int  BY <1>5, <1>6, <1>8, <1>10
  <2>2. Min({day, DaysIn(then)}) = day  BY <1>8, <2>1, SmallerIs
  <2>3. start = FirstOf[then] + day - 1  BY <1>3, <1>4, <2>2
  <2>4. start \in Int /\ FirstOf[then] <= start /\ start <= today
    <3>1. CASE then = month  BY <1>1, <1>2, <1>8, <2>3, <3>1
    <3>2. CASE then < month  BY <1>1, <1>5, <1>6, <1>8, <2>1, <2>3, <3>2
    <3> QED  BY <1>1, <1>4, <3>1, <3>2
  <2>5. Period(start, today) = [start |-> start, end |-> today] /\ Preceded(Period(start, today))
    BY <1>4, <1>5, <2>4, PrecededIs
  <2>6. Past(Period(start, today), today)  BY <2>4, <2>5 DEF Past
  <2> QED  BY <1>10, <2>6 DEF month, then, day, start
<1> QED  BY <1>9, <1>10

(* Every phrase a calendar reaches resolves. *)
LEMMA PhraseIs ==
    ASSUME NEW today \in AllDays, NEW phrase \in AnyPhrase, Reached(phrase, today)
    PROVE  ResolvedWell(phrase, today)
<1> DEFINE month == MonthOf(today)
           january == JanuaryOf(today)
           year == IF phrase.year = 0 THEN january ELSE 12 * (phrase.year - FirstYear)
           monday == today - Weekday(today)
           n == phrase.n
           result == Resolved(phrase, today)
           Fine == Past(result, today)
<1>1. /\ month \in AllMonths /\ month \in Nat /\ today \in Nat
      /\ FirstOf[month] \in Int /\ LastOf(month) \in Int
      /\ FirstOf[month] <= today /\ today <= LastOf(month)
      /\ january \in AllMonths /\ january \in Nat
      /\ january <= month /\ month <= january + 11 /\ january + 11 \in AllMonths
      /\ month = january + (month % 12) /\ month % 12 \in 0 .. 11
  BY TodayIs
<1>2. n \in Nat /\ phrase.year \in Nat /\ FirstYear \in Nat
  BY PlanningAssumption DEF AnyPhrase
<1>3. monday \in Int /\ monday <= today /\ today - 6 <= monday
  <2>1. FirstWeekday \in 0 .. 6  BY PlanningAssumption
  <2>2. Weekday(today) \in 0 .. 6 /\ today \in Nat  BY <1>1, <2>1 DEF Weekday
  <2>3. ASSUME NEW w \in 0 .. 6
        PROVE  today - w \in Int /\ today - w <= today /\ today - 6 <= today - w
    BY <2>2
  <2> QED  BY <2>2, <2>3
<1>4. /\ 84 <= month /\ month + 1 \in AllMonths
      /\ phrase.year # 0 => /\ phrase.kind \in {"quarter", "month", "year"}
                            /\ 12 <= year /\ year + 12 <= january
  BY DEF Reached
<1>5. 84 <= january
  <2>1. january = 12 * (month \div 12)  BY DEF JanuaryOf
  <2> HIDE DEF month, january
  <2> QED  BY <1>1, <1>4, <2>1
<1>6. year \in Int /\ 12 <= year /\ year <= january /\ (phrase.year = 0 => year = january)
  <2> HIDE DEF january
  <2>1. CASE phrase.year = 0  BY <1>1, <1>5, <2>1
  <2>2. CASE phrase.year # 0
    <3>1. year = 12 * (phrase.year - FirstYear)  BY <2>2
    <3>2. year \in Int  BY <1>2, <3>1
    <3> HIDE DEF year
    <3> QED  BY <1>1, <1>4, <2>2, <3>2
  <2> QED  BY <2>1, <2>2
<1>7. Fine => ResolvedWell(phrase, today)  BY PastIsWell
<1>8. 1 \in AllMonths /\ FirstOf[1] \in Int /\ FirstOf[1] + 28 * 83 <= today
  <2>1. Years \in Nat \ {0}  BY PlanningAssumption
  <2>2. 1 \in AllMonths
    <3> HIDE DEF month
    <3> QED  BY <1>1, <1>4, <2>1 DEF AllMonths
  <2> HIDE DEF month
  <2>3. month - 1 \in Nat /\ 1 + (month - 1) = month  BY <1>1, <1>4
  <2>4. FirstOf[1] + 28 * (month - 1) <= FirstOf[month]  BY <1>1, <2>2, <2>3, MonthsApart
  <2>5. FirstOf[1] \in Int  BY <2>2, MonthsAre
  <2> QED  BY <1>1, <1>4, <2>2, <2>4, <2>5
<1>9. /\ phrase.kind \in {"days", "weeks"} => FirstOf[1] <= today - 7 * n
      /\ phrase.kind = "months" => n <= month
      /\ phrase.kind = "years" => 12 * n < month
      /\ phrase.kind = "quarter" => n \in 1 .. 4
      /\ phrase.kind = "month" => n \in 1 .. 12
  BY DEF Reached
<1>0. ASSUME NEW a \in Int, NEW b \in Int, 1 <= a, a <= month, a <= b, b <= january + 11
      PROVE  Past(Period(FirstOf[a], LastOf(b)), today)
  <2>1. b \in AllMonths
    <3>1. Years \in Nat \ {0}  BY PlanningAssumption
    <3> HIDE DEF january, month
    <3> QED  BY <1>0, <1>1, <3>1 DEF AllMonths
  <2> QED  BY <1>0, <2>1, MonthsPast
<1> HIDE DEF january, year, monday, n, Fine
<1>11. CASE phrase.kind = "this_month"
  <2>1. result = Period(FirstOf[month], Min({LastOf(month), today}))  BY <1>11 DEF Resolved
  <2>2. Min({LastOf(month), today}) = today
    <3>1. {LastOf(month), today} = {today, LastOf(month)}  OBVIOUS
    <3> QED  BY <1>1, <3>1, SmallerIs
  <2>3. month \in Int /\ 1 <= month /\ month <= month  BY <1>1, <1>4
  <2>4. Past(Period(FirstOf[month], today), today)  BY <2>3, SincePast
  <2> QED  BY <1>7, <2>1, <2>2, <2>4 DEF Fine
<1>12. CASE phrase.kind = "last_month"
  <2>1. result = Period(FirstOf[month - 1], LastOf(month - 1))
    BY <1>12 DEF Resolved, MonthPeriod
  <2> HIDE DEF month, result
  <2>2. month - 1 \in Int /\ 1 <= month - 1 /\ month - 1 <= month /\ month - 1 <= month - 1
        /\ month - 1 <= january + 11
    BY <1>1, <1>4
  <2>3. Past(Period(FirstOf[month - 1], LastOf(month - 1)), today)  BY <1>0, <2>2
  <2> QED  BY <1>7, <2>1, <2>3 DEF Fine
<1>13. CASE phrase.kind = "this_year"
  <2>1. result = Period(FirstOf[january], today)  BY <1>13 DEF Resolved, january
  <2>2. january \in Int /\ 1 <= january /\ january <= MonthOf(today)  BY <1>1, <1>5
  <2>3. Past(Period(FirstOf[january], today), today)  BY <2>2, SincePast
  <2> QED  BY <1>7, <2>1, <2>3 DEF Fine
<1>14. CASE phrase.kind = "last_year"
  <2>1. result = Period(FirstOf[year - 12], LastOf(year - 1))
    BY <1>14 DEF Resolved, year, january
  <2>0. year = january  BY <1>4, <1>6, <1>14
  <2> HIDE DEF month, result
  <2>2. year - 12 \in Int /\ year - 1 \in Int /\ 1 <= year - 12 /\ year - 12 <= month
        /\ year - 12 <= year - 1 /\ year - 1 <= january + 11
    BY <1>1, <1>5, <1>6, <2>0
  <2>3. Past(Period(FirstOf[year - 12], LastOf(year - 1)), today)  BY <1>0, <2>2
  <2> QED  BY <1>7, <2>1, <2>3 DEF Fine
<1>15. CASE phrase.kind = "this_week"
  <2>1. result = Period(monday, today)  BY <1>15 DEF Resolved, monday
  <2>2. today \in Int /\ FirstOf[1] <= monday /\ monday <= today /\ today <= today
    BY <1>1, <1>3, <1>8
  <2>3. Past(Period(monday, today), today)  BY <1>3, <1>8, <2>2, DaysPast
  <2> QED  BY <1>7, <2>1, <2>3 DEF Fine
<1>16. CASE phrase.kind = "last_week"
  <2>1. result = Period(monday - 7, monday - 1)  BY <1>16 DEF Resolved, monday
  <2>2. monday - 7 \in Int /\ monday - 1 \in Int /\ FirstOf[1] <= monday - 7
        /\ monday - 7 <= monday - 1 /\ monday - 1 <= today
    BY <1>1, <1>3, <1>8
  <2>3. Past(Period(monday - 7, monday - 1), today)  BY <1>8, <2>2, DaysPast
  <2> QED  BY <1>7, <2>1, <2>3 DEF Fine
<1>17. CASE phrase.kind = "days"
  <2>1. result = Period(today - (n - 1), today)  BY <1>17 DEF Resolved, n
  <2> HIDE DEF result
  <2>2. CASE n = 0
    <3>1. today < today - (n - 1)  BY <1>1, <2>2
    <3>2. result = NoPeriod  BY <2>1, <3>1 DEF Period
    <3> QED  BY <1>17, <2>2, <3>2 DEF ResolvedWell, n, result
  <2>3. CASE n # 0
    <3>1. /\ today - (n - 1) \in Int /\ today \in Int /\ FirstOf[1] <= today - (n - 1)
          /\ today - (n - 1) <= today /\ today <= today
      BY <1>1, <1>2, <1>8, <1>9, <1>17, <2>3
    <3>2. Past(Period(today - (n - 1), today), today)  BY <1>8, <3>1, DaysPast
    <3> QED  BY <1>7, <2>1, <3>2 DEF Fine
  <2> QED  BY <2>2, <2>3
<1>18. CASE phrase.kind = "weeks"
  <2>1. result = Period(today - 7 * n, today)  BY <1>18 DEF Resolved, n
  <2>2. /\ today - 7 * n \in Int /\ today \in Int /\ FirstOf[1] <= today - 7 * n
        /\ today - 7 * n <= today /\ today <= today
    BY <1>1, <1>2, <1>9, <1>18
  <2>3. Past(Period(today - 7 * n, today), today)  BY <1>8, <2>2, DaysPast
  <2> QED  BY <1>7, <2>1, <2>3 DEF Fine
<1>19. CASE phrase.kind = "months"
  <2> DEFINE from == month - (n - 1)
  <2>1. result = Period(ShiftMonth(FirstOf[month], -(n - 1)), today)  BY <1>19 DEF Resolved, n
  <2>2. ShiftMonth(FirstOf[month], -(n - 1)) = FirstOf[from] /\ from \in AllMonths
        /\ FirstOf[from] \in Int
    <3>1. MonthOf(FirstOf[month]) = month  BY <1>1, MonthDays
    <3> HIDE DEF month
    <3>2. month + (-(n - 1)) = from /\ from \in Int /\ 1 <= from /\ from <= month + 1
      BY <1>1, <1>2, <1>9, <1>19
    <3>3. from \in AllMonths
      <4>1. Years \in Nat \ {0}  BY PlanningAssumption
      <4> HIDE DEF from
      <4> QED  BY <1>1, <1>4, <3>2, <4>1 DEF AllMonths
    <3>4. DayOfMonth(FirstOf[month]) = 1  BY <1>1, <3>1 DEF DayOfMonth
    <3>5. ShiftMonth(FirstOf[month], -(n - 1)) = FirstOf[from] + Min({1, DaysIn(from)}) - 1
      BY <3>1, <3>2, <3>4 DEF ShiftMonth
    <3> HIDE DEF from
    <3>6. DaysIn(from) \in 28 .. 31 /\ FirstOf[from] \in Int  BY <3>3, MonthsAre
    <3>7. DaysIn(from) \in Int /\ 1 \in Int /\ 1 <= DaysIn(from)  BY <3>6
    <3>8. Min({1, DaysIn(from)}) = 1  BY <3>7, SmallerIs
    <3> QED  BY <3>3, <3>5, <3>6, <3>8
  <2> HIDE DEF result
  <2>3. CASE n = 0
    <3>1. from = month + 1  BY <1>1, <2>3
    <3>2. LastOf(month) < FirstOf[month + 1]
      <4>1. month < month + 1  BY <1>1
      <4> QED  BY <1>1, <1>4, <4>1, MonthsInOrder
    <3>3. today < FirstOf[from]
      <4> HIDE DEF from, month
      <4> QED  BY <1>1, <2>2, <3>1, <3>2
    <3>4. result = NoPeriod  BY <2>1, <2>2, <3>3 DEF Period
    <3> QED  BY <1>19, <2>3, <3>4 DEF ResolvedWell, n, result
  <2>4. CASE n # 0
    <3>1. from \in Int /\ 1 <= from /\ from <= MonthOf(today)
      <4>1. n <= month  BY <1>9, <1>19
      <4>2. from \in Int /\ 1 <= from /\ from <= month
        <5> HIDE DEF month
        <5> QED  BY <1>1, <1>2, <2>4, <4>1
      <4> QED  BY <4>2
    <3>2. Past(Period(FirstOf[from], today), today)
      <4> HIDE DEF from
      <4> QED  BY <3>1, SincePast
    <3> QED  BY <1>7, <2>1, <2>2, <3>2 DEF Fine
  <2> QED  BY <2>3, <2>4
<1>20. CASE phrase.kind = "years"
  <2> DEFINE then == month - 12 * n
             start == ShiftMonth(today, -12 * n)
  <2>1. result = IF DayOfMonth(today) > DaysIn(then) THEN NoPeriod ELSE Period(start, today)
    BY <1>20 DEF Resolved, n
  <2>2. 12 * n < month  BY <1>9, <1>20
  <2>3. \/ /\ DayOfMonth(today) > DaysIn(then)
           /\ DayOfMonth(today) = 29 /\ month % 12 = 1
        \/ ~(DayOfMonth(today) > DaysIn(then)) /\ Past(Period(start, today), today)
    BY <1>2, <2>2, YearsBack
  <2> HIDE DEF then, start, result
  <2>4. CASE DayOfMonth(today) > DaysIn(then)
    <3>1. result = NoPeriod  BY <2>1, <2>4
    <3> QED  BY <1>20, <2>3, <2>4, <3>1 DEF ResolvedWell, result
  <2>5. CASE ~(DayOfMonth(today) > DaysIn(then))
    BY <1>7, <2>1, <2>3, <2>5 DEF Fine
  <2> QED  BY <2>4, <2>5
<1>21. CASE phrase.kind = "quarter"
  <2> DEFINE first == year + 3 * (n - 1)
  <2>1. result = Period(FirstOf[first], LastOf(first + 2))
    BY <1>21 DEF Resolved, year, january, n
  <2> HIDE DEF result, month
  <2>2. n \in 1 .. 4  BY <1>9, <1>21
  <2>3. first \in Int /\ first + 2 \in Int /\ 1 <= first /\ first <= first + 2
        /\ first + 2 <= january + 11
    BY <1>1, <1>6, <2>2
  <2>4. first \in AllMonths /\ first + 2 \in AllMonths
    <3>1. Years \in Nat \ {0}  BY PlanningAssumption
    <3> HIDE DEF first
    <3> QED  BY <1>1, <2>3, <3>1 DEF AllMonths
  <2> HIDE DEF first
  <2>5. Preceded(Period(FirstOf[first], LastOf(first + 2)))  BY <2>3, <2>4, MonthsPreceded
  <2>6. result # NoPeriod  BY <2>1, <2>5, BaselineIs
  <2> QED  BY <1>21, <2>1, <2>5, <2>6 DEF ResolvedWell, result
<1>22. CASE phrase.kind = "month"
  <2> DEFINE m == IF phrase.year = 0 /\ n > (month % 12) + 1
                  THEN year - 12 + n - 1 ELSE year + n - 1
  <2>1. result = Period(FirstOf[m], LastOf(m))
    BY <1>22 DEF Resolved, year, january, n, MonthPeriod
  <2> HIDE DEF result, month
  <2>2. n \in 1 .. 12  BY <1>9, <1>22
  <2>3. m \in Int /\ 1 <= m /\ m <= month
    <3>1. CASE phrase.year = 0  BY <1>1, <1>5, <1>6, <2>2, <3>1
    <3>2. CASE phrase.year # 0  BY <1>1, <1>4, <1>6, <2>2, <3>2
    <3> QED  BY <3>1, <3>2
  <2> HIDE DEF m
  <2>4. m <= m /\ m <= january + 11  BY <1>1, <2>3
  <2>5. Past(Period(FirstOf[m], LastOf(m)), today)  BY <1>0, <2>3, <2>4
  <2> QED  BY <1>7, <2>1, <2>5 DEF Fine
<1>23. CASE phrase.kind = "year"
  <2>1. result = Period(FirstOf[year], LastOf(year + 11))
    BY <1>23 DEF Resolved, year, january
  <2> HIDE DEF result, month
  <2>2. /\ year + 11 \in Int /\ 1 <= year /\ year <= month /\ year <= year + 11
        /\ year + 11 <= january + 11
    BY <1>1, <1>6
  <2>3. Past(Period(FirstOf[year], LastOf(year + 11)), today)  BY <1>0, <1>6, <2>2
  <2> QED  BY <1>7, <2>1, <2>3 DEF Fine
<1>24. CASE phrase.kind = "all"
  <2>1. result = Period(FirstOf[year - 60], today)  BY <1>24 DEF Resolved, year, january
  <2>2. year = january  BY <1>4, <1>6, <1>24
  <2>3. year - 60 \in Int /\ 1 <= year - 60 /\ year - 60 <= month
    <3> HIDE DEF month
    <3> QED  BY <1>1, <1>5, <1>6, <2>2
  <2>4. Past(Period(FirstOf[year - 60], today), today)  BY <2>3, SincePast
  <2> QED  BY <1>7, <2>1, <2>4 DEF Fine
<1>25. CASE phrase.kind = "unnamed"
  <2>1. result = Period(today - 29, today)  BY <1>25 DEF Resolved
  <2>2. /\ today - 29 \in Int /\ today \in Int /\ FirstOf[1] <= today - 29
        /\ today - 29 <= today /\ today <= today
    BY <1>1, <1>8
  <2>3. Past(Period(today - 29, today), today)  BY <1>8, <2>2, DaysPast
  <2> QED  BY <1>7, <2>1, <2>3 DEF Fine
<1> QED
  BY <1>11, <1>12, <1>13, <1>14, <1>15, <1>16, <1>17, <1>18, <1>19, <1>20, <1>21, <1>22, <1>23,
     <1>24, <1>25 DEF AnyPhrase

(* For every calendar that goes back seven years and on for a month, every *)
(* day and every phrase it reaches: the phrase resolves to a period that   *)
(* has begun, unless it is a quarter to come, asks for no days or months,  *)
(* or, on 29 February, for years back; and the period before it ends the   *)
(* day before, and is a whole month if it is one, and otherwise as long    *)
(* (resolve_date_phrase and previous_period of dates.py).                  *)
THEOREM PeriodsAreSound ==
    ASSUME NEW c, c.today \in AllDays, c.phrase \in AnyPhrase, Reached(c.phrase, c.today)
    PROVE  PeriodsSound(c)
<1>1. ResolvedWell(c.phrase, c.today)  BY PhraseIs
<1> DEFINE period == Resolved(c.phrase, c.today)
<1>2. CASE period = NoPeriod
  BY <1>1, <1>2 DEF ResolvedWell, PeriodsSound
<1>3. CASE period # NoPeriod
  <2>1. Preceded(period) /\ (period.start <= c.today \/ c.phrase.kind = "quarter")
    BY <1>1, <1>3 DEF ResolvedWell
  <2> HIDE DEF period
  <2>2. LET before == PreviousPeriod(period)
        IN /\ before.end = period.start - 1
           /\ IF FullMonth(period) THEN FullMonth(before)
              ELSE before.end - before.start = period.end - period.start
    BY <2>1, BaselineIs
  <2> QED  BY <1>3, <2>1, <2>2 DEF PeriodsSound, period
<1> QED  BY <1>2, <1>3

-----------------------------------------------------------------------------
(***************************************************************************)
(* What is told of an answer.                                              *)
(***************************************************************************)

(* The rows of an answer, and an answer. *)
Figures(rows) ==
    \E n \in Nat :
        /\ rows = [i \in 1 .. n |-> rows[i]]
        /\ \A i \in 1 .. n :
             /\ rows[i] = [label |-> rows[i].label, value |-> rows[i].value, count |-> rows[i].count]
             /\ rows[i].value \in Int /\ rows[i].count \in Nat
Answer(answer, plan) ==
    /\ answer.total \in Int /\ answer.count \in Nat /\ Figures(answer.rows)
    /\ answer.previous \in Int \cup {NoPeriod}
    /\ answer.previous = NoPeriod <=> plan.baseline = NoPeriod

(* What is answered, of a plan with rows for its groups or without. *)
LEMMA ExecutedIs ==
    ASSUME NEW book, Kept(book), NEW plan, plan.group = "none" \/ Grouping(book, plan)
    PROVE  Answer(Executed(book, plan), plan)
<1> DEFINE answer == Executed(book, plan)
           S == Selected(book, plan, plan.period)
           B == Selected(book, plan, plan.baseline)
           rows == answer.rows
<1>1. /\ answer.total = Total(book, plan, S) /\ answer.count = Cardinality(S)
      /\ answer.previous = IF plan.baseline = NoPeriod THEN NoPeriod ELSE Total(book, plan, B)
      /\ plan.group = "none" => answer.rows = <<>>
  BY DEF Executed
<1>2. S \in SUBSET DOMAIN book /\ B \in SUBSET DOMAIN book  BY DEF Selected
<1> HIDE DEF answer, S, B
<1>3. /\ Total(book, plan, S) \in Int /\ Cardinality(S) \in Nat
      /\ Total(book, plan, B) \in Int
  BY <1>2, TotalIs
<1>4. NoPeriod \notin Int  BY PlanningAssumption
<1>5. /\ answer.total \in Int /\ answer.count \in Nat
      /\ answer.previous \in Int \cup {NoPeriod}
      /\ answer.previous = NoPeriod <=> plan.baseline = NoPeriod
  BY <1>1, <1>3, <1>4
<1> HIDE DEF rows
<1>6. Figures(rows)
  <2>1. CASE plan.group = "none"
    <3>1. rows = <<>>  BY <1>1, <2>1 DEF rows
    <3>2. 0 \in Nat /\ 1 .. 0 = {} /\ rows = [i \in 1 .. 0 |-> rows[i]]  BY <3>1
    <3> QED  BY <3>2 DEF Figures
  <2>2. CASE Grouping(book, plan)
    <3>1. BucketRows(rows, book, plan)  BY <2>2, ExecutedRows DEF rows, answer
    <3>2. PICK n \in Nat :
             /\ DOMAIN rows = 1 .. n /\ rows = [i \in 1 .. n |-> rows[i]]
             /\ \A i \in 1 .. n : rows[i] = RowOf(book, plan, rows[i].label)
      BY <3>1 DEF BucketRows
    <3>3. ASSUME NEW i \in 1 .. n
          PROVE  /\ rows[i] = [label |-> rows[i].label, value |-> rows[i].value,
                               count |-> rows[i].count]
                 /\ rows[i].value \in Int /\ rows[i].count \in Nat
      <4> DEFINE M == Members(book, plan, rows[i].label)
                 label == rows[i].label
      <4>1. M \in SUBSET DOMAIN book  BY GroupsAre
      <4>2. Total(book, plan, M) \in Int /\ Cardinality(M) \in Nat  BY <4>1, TotalIs
      <4>3. rows[i] = [label |-> label, value |-> Total(book, plan, M), count |-> Cardinality(M)]
        BY <3>2 DEF RowOf
      <4> HIDE DEF M
      <4>4. rows[i].value = Total(book, plan, M) /\ rows[i].count = Cardinality(M)  BY <4>3
      <4> QED  BY <4>2, <4>3, <4>4
    <3> QED  BY <3>2, <3>3 DEF Figures
  <2> QED  BY <2>1, <2>2
<1> QED  BY <1>5, <1>6 DEF Answer, answer, rows

(* For every book and every plan, whatever it measures, that does not      *)
(* group, or groups what does not recur and with room for all: what is     *)
(* told of the answer passes the check of its numbers, whoever words it,   *)
(* unless one of its figures is negative, or a name, a text searched for   *)
(* or the label of a period has a number that is no small count and no     *)
(* year; and the figures of the template pass it even then (executor.py    *)
(* and narrate.py).                                                        *)
THEOREM AnswersAreChecked ==
    ASSUME NEW book, Kept(book), NEW plan, plan.group = "none" \/ Grouping(book, plan),
           NEW shown, NEW printed,
           Executed(book, plan).total >= 0,
           \A r \in Range(Executed(book, plan).rows) : r.value >= 0
    PROVE  LET answer == Executed(book, plan)
           IN /\ Figured(answer, plan) \in SUBSET AllowedNumbers(answer, shown)
              /\ PlainWords(answer, plan, printed) =>
                   /\ Verified(Narrated(answer, plan, printed), answer, shown)
                   /\ \A replied \in BOOLEAN : \A wording :
                        Verified(NumbersTold(answer, shown, plan, printed, replied, wording),
                                 answer, shown)
<1> DEFINE answer == Executed(book, plan)
           rows == answer.rows
           Labels == {rows[i].label : i \in DOMAIN rows}
<1>1. Answer(answer, plan)  BY ExecutedIs
<1>2. answer.total >= 0 /\ \A r \in Range(rows) : r.value >= 0  OBVIOUS
<1>3. answer = [total |-> answer.total, count |-> answer.count, rows |-> rows,
                previous |-> answer.previous]
  BY DEF Executed
<1> HIDE DEF answer, rows
<1>8. PICK n \in Nat :
        /\ rows = [i \in 1 .. n |-> rows[i]]
        /\ \A i \in 1 .. n :
             /\ rows[i] = [label |-> rows[i].label, value |-> rows[i].value,
                           count |-> rows[i].count]
             /\ rows[i].value \in Int /\ rows[i].count \in Nat
  BY <1>1 DEF Answer, Figures, rows
<1>9. answer.total \in Int /\ answer.count \in Nat /\ answer.previous \in Int \cup {NoPeriod}
      /\ (answer.previous = NoPeriod <=> plan.baseline = NoPeriod)
  BY <1>1 DEF Answer
<1>4. DOMAIN rows = 1 .. n  BY <1>8
<1>5. ASSUME NEW i \in 1 .. n  PROVE rows[i] \in AnyGroup(Labels)
  <2>1. rows[i] \in Range(rows) /\ rows[i].label \in Labels  BY <1>4 DEF Range
  <2>2. rows[i].value \in Nat /\ rows[i].count \in Nat  BY <1>2, <1>8, <2>1
  <2> HIDE DEF Labels
  <2> QED  BY <1>8, <2>1, <2>2 DEF AnyGroup
<1> HIDE DEF Labels
<1>6. rows \in Seq(AnyGroup(Labels))
  <2>1. rows \in [1 .. n -> AnyGroup(Labels)]  BY <1>8, <1>5
  <2> QED  BY <2>1
<1>7. answer \in AnyAnswer(Labels)  BY <1>2, <1>3, <1>6, <1>9 DEF AnyAnswer
<1>10. /\ Figured(answer, plan) \in SUBSET AllowedNumbers(answer, shown)
       /\ PlainWords(answer, plan, printed) =>
            /\ Verified(Narrated(answer, plan, printed), answer, shown)
            /\ \A replied \in BOOLEAN : \A wording :
                 Verified(NumbersTold(answer, shown, plan, printed, replied, wording), answer, shown)
  BY <1>7, <1>9, TemplatePasses
<1> QED  BY <1>10 DEF answer

-----------------------------------------------------------------------------
(***************************************************************************)
(* Plans and what follows them.                                            *)
(***************************************************************************)

(* What is offered: each follow-up where its condition holds. *)
LEMMA OfferedIs ==
    ASSUME NEW plan, NEW key \in Offered(plan)
    PROVE  /\ key \in AnyKey
           /\ key = "group_by_merchant" => plan.group # "merchant"
           /\ key = "group_by_category" => plan.group # "category"
           /\ key = "compare_previous_period" => plan.baseline = NoPeriod
           /\ key = "monthly_trend" => plan.intent # "trend"
           /\ key = "show_transactions" => plan.intent # "search"
<1> DEFINE Makes(k) ==
            CASE k = "group_by_merchant" -> plan.group # "merchant" /\ plan.intent # "search"
              [] k = "group_by_category" -> plan.group # "category" /\ plan.categories = {}
              [] k = "compare_previous_period" ->
                    plan.baseline = NoPeriod /\ plan.intent # "trend"
              [] k = "monthly_trend" -> plan.intent # "trend"
              [] k = "show_transactions" -> plan.intent # "search"
              [] k = "widen_to_year" ->
                    /\ JanuaryOf(plan.period.start) = JanuaryOf(plan.period.end)
                    /\ plan.period.end - plan.period.start < 200
              [] k = "only_category" -> plan.group = "category"
              [] k = "only_merchant" -> plan.group = "merchant"
           keys == <<"group_by_merchant", "group_by_category", "compare_previous_period",
                     "monthly_trend", "show_transactions", "widen_to_year",
                     "only_category", "only_merchant">>
           made == {i \in 1 .. 8 : Makes(keys[i])}
<1>1. Offered(plan) = {keys[i] : i \in {i \in made : Cardinality(made \cap 1 .. i) <= 6}}
  BY Zenon DEF Offered
<1>2. PICK i \in 1 .. 8 : key = keys[i] /\ Makes(keys[i])
  <2> HIDE DEF Makes, keys
  <2> QED  BY <1>1
<1> HIDE DEF Makes
<1>3. key \in AnyKey  BY <1>2 DEF AnyKey
<1>4. Makes(key)  BY <1>2
<1> QED  BY <1>3, <1>4 DEF Makes

(* A plan that can be asked again: of a period that has something before   *)
(* it and ends after the first year, compared with something before it,    *)
(* unless it is spared.                                                    *)
Askable(plan, Names, spared) ==
    /\ plan \in AnyPlan([start : Int, end : Int], Names) /\ Coherent(plan)
    /\ Preceded(plan.period) /\ 12 <= MonthOf(plan.period.end)
    /\ Before(plan) \/ spared

(* The periods of follow-ups. *)
LEMMA EndedPeriods ==
    ASSUME NEW period, Preceded(period), 12 <= MonthOf(period.end),
           NEW first \in Int, 1 <= first, first <= MonthOf(period.end)
    PROVE  LET wide == Period(FirstOf[first], period.end)
           IN Preceded(wide) /\ wide \in [start : Int, end : Int] /\ wide.end = period.end
<1>1. PICK start \in AllDays, end \in AllDays : period = [start |-> start, end |-> end]
  BY DEF Preceded
<1>2. period.end \in AllDays  BY <1>1
<1> DEFINE end0 == period.end
<1>3. end0 \in AllDays /\ first <= MonthOf(end0)  BY <1>2
<1> HIDE DEF end0
<1>4. first \in AllMonths /\ FirstOf[first] \in Int /\ FirstOf[first] <= end0
  BY <1>3, EarlierMonth
<1>5. FirstOf[first] <= FirstOf[first]  BY <1>4
<1>6. /\ Period(FirstOf[first], end0) = [start |-> FirstOf[first], end |-> end0]
      /\ Preceded(Period(FirstOf[first], end0))
  BY <1>3, <1>4, <1>5, PrecededIs
<1>7. end0 \in Int  BY <1>3, MonthIs
<1> QED  BY <1>4, <1>6, <1>7 DEF end0

(* For every plan that can be asked: what is offered to follow it changes  *)
(* it, unless it widens to a year that is the year already or narrows to a *)
(* row, and, unless it widens an ungrouped comparison, can be asked        *)
(* (refine.py).                                                            *)
THEOREM FollowUpsHold ==
    ASSUME NEW Names, "top" \in Names, NEW spared \in BOOLEAN,
           NEW plan, Askable(plan, Names, spared), NEW key \in Offered(plan)
    PROVE  /\ ~LosesBaseline(plan, key) => Askable(Refined(plan, key), Names, spared)
           /\ \/ Refined(plan, key) # plan
              \/ key = "widen_to_year" /\ plan.period = YearSoFar(plan)
              \/ key \in {"only_category", "only_merchant"}
<1> DEFINE Periods == [start : Int, end : Int]
           new == Refined(plan, key)
           period == plan.period
           month == MonthOf(period.end)
           Fine == /\ new \in AnyPlan(Periods, Names)
                   /\ Preceded(new.period) /\ 12 <= MonthOf(new.period.end)
                   /\ Before(new) \/ spared
<1>1. /\ plan \in AnyPlan(Periods, Names) /\ Coherent(plan)
      /\ Preceded(period) /\ 12 <= month
      /\ Before(plan) \/ spared
  BY DEF Askable
<1>2. /\ key \in AnyKey
      /\ key = "group_by_merchant" => plan.group # "merchant"
      /\ key = "group_by_category" => plan.group # "category"
      /\ key = "compare_previous_period" => plan.baseline = NoPeriod
      /\ key = "monthly_trend" => plan.intent # "trend"
      /\ key = "show_transactions" => plan.intent # "search"
  BY OfferedIs
<1>3. /\ PreviousPeriod(period) \in Periods /\ PreviousPeriod(period) # NoPeriod
      /\ PreviousPeriod(period).end < period.start
  BY <1>1, BaselineIs
<1>4. ~LosesBaseline(plan, key) => Coherent(new)
  BY <1>1, <1>2, <1>3, FollowUpsAreReadable
<1>5. month \in AllMonths /\ month \in Nat /\ period.end \in AllDays
  <2>1. period.end \in AllDays  BY <1>1 DEF Preceded
  <2> QED  BY <2>1, MonthIs, MonthsAre
<1>6. YearSoFar(plan) \in Periods /\ Preceded(YearSoFar(plan)) /\ YearSoFar(plan).end = period.end
  <2> DEFINE january == JanuaryOf(period.end)
  <2>1. january = 12 * (month \div 12)  BY DEF JanuaryOf
  <2> HIDE DEF month, january
  <2>2. january \in Int /\ 1 <= january /\ january <= month  BY <1>1, <1>5, <2>1
  <2>3. YearSoFar(plan) = Period(FirstOf[january], period.end)  BY DEF YearSoFar, january
  <2> QED  BY <1>1, <2>2, <2>3, EndedPeriods DEF month
<1> DEFINE half == Period(FirstOf[month - 5], period.end)
<1>7. half \in Periods /\ Preceded(half) /\ half.end = period.end
  <2> DEFINE first == month - 5
  <2>1. first \in Int /\ 1 <= first /\ first <= month  BY <1>1, <1>5
  <2> HIDE DEF first
  <2>2. half = Period(FirstOf[first], period.end)  BY DEF first
  <2> HIDE DEF half
  <2> QED  BY <1>1, <2>1, <2>2, EndedPeriods
<1> HIDE DEF Periods
<1>8. CASE key \in {"group_by_merchant", "group_by_category"}
  <2> DEFINE group == IF key = "group_by_merchant" THEN "merchant" ELSE "category"
  <2>1. new = [plan EXCEPT !.intent = "breakdown", !.group = group, !.byTime = FALSE]
    BY <1>8 DEF Refined, GroupedBy
  <2>2. group \in Groupings /\ "breakdown" \in Intents /\ plan.group # group
    BY <1>2, <1>8 DEF Groupings, Intents
  <2> HIDE DEF new, group
  <2>3. /\ new \in AnyPlan(Periods, Names) /\ new.period = period /\ new.baseline = plan.baseline
        /\ new.group = group
    BY <1>1, <2>1, <2>2 DEF AnyPlan
  <2>4. Fine  BY <1>1, <2>3 DEF Before
  <2> QED  BY <1>4, <2>2, <2>3, <2>4 DEF Askable, new, Periods
<1>9. CASE key = "compare_previous_period"
  <2>1. new = [plan EXCEPT !.intent = "comparison", !.group = "none",
                           !.baseline = PreviousPeriod(period)]
    BY <1>9 DEF Refined
  <2>2. "none" \in Groupings /\ "comparison" \in Intents  BY DEF Groupings, Intents
  <2> HIDE DEF new
  <2>3. /\ new \in AnyPlan(Periods, Names) /\ new.period = period
        /\ new.baseline = PreviousPeriod(period)
    BY <1>1, <1>3, <2>1, <2>2 DEF AnyPlan
  <2>4. Fine  BY <1>1, <1>3, <2>3 DEF Before
  <2>5. new # plan  BY <1>2, <1>3, <1>9, <2>3
  <2> QED  BY <1>4, <2>4, <2>5 DEF Askable, new, Periods
<1>10. CASE key = "monthly_trend"
  <2>1. new = [plan EXCEPT !.intent = "trend", !.group = "month", !.byTime = TRUE,
                           !.baseline = NoPeriod, !.period = half]
    BY <1>10 DEF Refined
  <2>2. "month" \in Groupings /\ "trend" \in Intents  BY DEF Groupings, Intents
  <2> HIDE DEF new, half
  <2>3. /\ new \in AnyPlan(Periods, Names) /\ new.period = half /\ new.baseline = NoPeriod
        /\ new.intent = "trend"
    BY <1>1, <1>7, <2>1, <2>2 DEF AnyPlan
  <2>4. Fine  BY <1>1, <1>7, <2>3 DEF Before
  <2> QED  BY <1>2, <1>4, <1>10, <2>3, <2>4 DEF Askable, new, Periods
<1>11. CASE key = "widen_to_year"
  <2> DEFINE intent == IF plan.group # "none" THEN "breakdown" ELSE plan.intent
  <2>1. new = [plan EXCEPT !.period = YearSoFar(plan), !.baseline = NoPeriod, !.intent = intent]
    BY <1>11 DEF Refined
  <2>2. intent \in Intents  BY <1>1 DEF AnyPlan, Intents
  <2> HIDE DEF new, intent
  <2>3. /\ new \in AnyPlan(Periods, Names) /\ new.period = YearSoFar(plan)
        /\ new.baseline = NoPeriod
    BY <1>1, <1>6, <2>1, <2>2 DEF AnyPlan
  <2>4. Fine  BY <1>1, <1>6, <2>3 DEF Before
  <2> QED  BY <1>4, <1>11, <2>3, <2>4 DEF Askable, new, Periods
<1>12. CASE key = "show_transactions"
  <2>1. new = [plan EXCEPT !.intent = "search", !.group = "none", !.baseline = NoPeriod,
                           !.limit = 50]
    BY <1>12 DEF Refined
  <2>2. "none" \in Groupings /\ "search" \in Intents  BY DEF Groupings, Intents
  <2> HIDE DEF new
  <2>3. /\ new \in AnyPlan(Periods, Names) /\ new.period = period /\ new.baseline = NoPeriod
        /\ new.intent = "search"
    BY <1>1, <2>1, <2>2 DEF AnyPlan
  <2>4. Fine  BY <1>1, <2>3 DEF Before
  <2> QED  BY <1>2, <1>4, <1>12, <2>3, <2>4 DEF Askable, new, Periods
<1>13. CASE key \in {"only_category", "only_merchant"}
  <2> DEFINE intent == IF plan.intent = "trend" THEN "trend" ELSE "total"
             group == IF plan.intent = "trend" THEN "month" ELSE "none"
             categories == IF key = "only_category" THEN {"top"} ELSE plan.categories
             merchants == IF key = "only_category" THEN plan.merchants ELSE {"top"}
  <2>1. new = [plan EXCEPT !.intent = intent, !.group = group, !.categories = categories,
                           !.merchants = merchants]
    <3>1. {"top"} # {}  OBVIOUS
    <3> QED  BY <1>13, <3>1 DEF Refined, Narrowed
  <2>2. /\ intent \in Intents /\ group \in Groupings /\ categories \in SUBSET Names
        /\ merchants \in SUBSET Names
    BY <1>1 DEF AnyPlan, Intents, Groupings
  <2> HIDE DEF new, intent, group, categories, merchants
  <2>3. /\ new \in AnyPlan(Periods, Names) /\ new.period = period /\ new.baseline = plan.baseline
    BY <1>1, <2>1, <2>2 DEF AnyPlan
  <2>4. Fine  BY <1>1, <2>3 DEF Before
  <2> QED  BY <1>4, <1>13, <2>4 DEF Askable, new, Periods
<1> QED  BY <1>2, <1>8, <1>9, <1>10, <1>11, <1>12, <1>13 DEF AnyKey

(* The shapes of questions. *)
LEMMA ShapeIs ==
    ASSUME NEW Names, NEW q \in AnyQuestion(Names)
    PROVE  /\ Shape(q).intent \in Intents /\ Shape(q).group \in Groupings
           /\ Shape(q).intent = "recurring" => q.recurring
<1>1. /\ q.recurring \in BOOLEAN /\ q.top \in BOOLEAN /\ q.trend \in BOOLEAN
      /\ q.breakdown \in BOOLEAN /\ q.search \in BOOLEAN /\ q.compares \in BOOLEAN
  BY DEF AnyQuestion
<1>2. CASE q.recurring  BY <1>2 DEF Shape, Intents, Groupings
<1>3. CASE ~q.recurring /\ q.top  BY <1>3 DEF Shape, Intents, Groupings
<1>4. CASE ~q.recurring /\ ~q.top /\ q.trend  BY <1>4 DEF Shape, Intents, Groupings
<1>5. CASE ~q.recurring /\ ~q.top /\ ~q.trend /\ q.breakdown
  BY <1>5 DEF Shape, Intents, Groupings
<1>6. CASE ~q.recurring /\ ~q.top /\ ~q.trend /\ ~q.breakdown
  BY <1>6 DEF Shape, Intents, Groupings
<1> QED  BY <1>1, <1>2, <1>3, <1>4, <1>5, <1>6

(* A question the rules plan: its period has something before it, and ends *)
(* after the first year.                                                   *)
Plannable(q, today) ==
    LET named == Resolved(q.phrase, today)
    IN Preceded(named) /\ 12 <= MonthOf(named.end)

(* What is spared: a question about repeating charges that compares over a *)
(* period nobody named.                                                    *)
Widens(q) == q.recurring /\ q.compares /\ q.phrase.kind = "unnamed"

(* The plan the rules make can be asked. *)
LEMMA PlannedIs ==
    ASSUME NEW Names, NEW q \in AnyQuestion(Names), NEW today, Plannable(q, today)
    PROVE  Askable(Planned(q, today), Names, Widens(q))
<1> DEFINE Periods == [start : Int, end : Int]
           named == Resolved(q.phrase, today)
           shape == Shape(q)
           month == MonthOf(named.end)
           widened == Period(FirstOf[month - 6], named.end)
           plan == Planned(q, today)
           period == IF shape.intent = "recurring" /\ q.phrase.kind = "unnamed"
                     THEN widened ELSE named
           baseline == IF q.compares THEN PreviousPeriod(named) ELSE NoPeriod
           text == shape.intent = "search" /\ q.categories = {} /\ q.merchants = {} /\ q.residue
           transfers == q.transfers \/ q.direction = "net"
           metric == IF q.averages THEN "avg" ELSE IF q.counts THEN "count" ELSE "sum"
           byTime == shape.intent = "trend"
           limit == IF q.number # 0 THEN q.number
                    ELSE CASE shape.intent = "top_n" -> 10
                           [] shape.intent = "search" -> 50
                           [] OTHER -> 25
<1>1. Preceded(named) /\ 12 <= month  BY DEF Plannable
<1>2. /\ named \in Periods /\ named # NoPeriod
      /\ PreviousPeriod(named) \in Periods /\ PreviousPeriod(named) # NoPeriod
      /\ PreviousPeriod(named).end < named.start
  BY <1>1, BaselineIs
<1>3. plan = [intent |-> shape.intent, group |-> shape.group, direction |-> q.direction,
              period |-> period, baseline |-> baseline, categories |-> q.categories,
              merchants |-> q.merchants, text |-> text, transfers |-> transfers,
              metric |-> metric, byTime |-> byTime, limit |-> limit]
  BY <1>2, Zenon DEF Planned
<1>4. Coherent(plan)  BY <1>2, RulesPlansAreReadable
<1>5. /\ shape.intent \in Intents /\ shape.group \in Groupings
      /\ shape.intent = "recurring" => q.recurring
  BY ShapeIs
<1>6. month \in AllMonths /\ month \in Nat /\ named.end \in AllDays
  <2>1. named.end \in AllDays  BY <1>1 DEF Preceded
  <2> QED  BY <2>1, MonthIs, MonthsAre
<1>7. widened \in Periods /\ Preceded(widened) /\ widened.end = named.end
  <2> DEFINE first == month - 6
  <2>1. first \in Int /\ 1 <= first /\ first <= month  BY <1>1, <1>6
  <2> HIDE DEF first, named
  <2>2. widened = Period(FirstOf[first], named.end)  BY DEF first
  <2> HIDE DEF widened
  <2> QED  BY <1>1, <2>1, <2>2, EndedPeriods
<1> HIDE DEF named, shape, widened, Periods, plan, month
<1>8. /\ period \in Periods /\ Preceded(period) /\ period.end = named.end
      /\ baseline \in Periods \cup {NoPeriod}
  BY <1>1, <1>2, <1>7
<1>9. \/ baseline = NoPeriod \/ baseline.end < period.start
      \/ q.recurring /\ q.compares /\ q.phrase.kind = "unnamed"
  BY <1>2, <1>5
<1>10. /\ q.direction \in {"spend", "income", "net"} /\ q.categories \in SUBSET Names
       /\ q.merchants \in SUBSET Names /\ q.number \in Nat
  BY DEF AnyQuestion
<1>11. limit \in Nat  BY <1>10
<1>12. text \in BOOLEAN /\ transfers \in BOOLEAN /\ byTime \in BOOLEAN /\ metric \in Metrics
  BY DEF Metrics
<1> HIDE DEF period, baseline, limit, text, transfers, metric, byTime
<1>13. plan \in AnyPlan(Periods, Names)
  BY <1>3, <1>5, <1>8, <1>10, <1>11, <1>12 DEF AnyPlan
<1>14. plan.period = period /\ plan.baseline = baseline  BY <1>3
<1>15. Before(plan) \/ Widens(q)  BY <1>9, <1>14 DEF Before, Widens
<1> QED  BY <1>1, <1>4, <1>8, <1>13, <1>14, <1>15 DEF Askable, plan, Periods, month

(* For every question about a period that has something before it, in a    *)
(* calendar that has a year before its end: the plan the rules make is     *)
(* coherent, so are the plans of one and of two follow-ups, each of those  *)
(* offered changes its plan, and what is compared with lies before, with   *)
(* the exceptions the property names (planner_rules.py and refine.py).     *)
THEOREM PlansAreCoherent ==
    ASSUME NEW Names, "top" \in Names, NEW c, c.q \in AnyQuestion(Names),
           Plannable(c.q, c.today)
    PROVE  PlansCoherent(c)
<1> DEFINE q == c.q
           first == Planned(q, c.today)
           Step(plan) == {Refined(plan, key) : key \in {k \in Offered(plan) : ~LosesBaseline(plan, k)}}
           plans == {first} \cup Step(first) \cup UNION {Step(plan) : plan \in Step(first)}
           Right(plan) ==
                /\ Coherent(plan)
                /\ Before(plan) \/ (q.recurring /\ q.compares /\ q.phrase.kind = "unnamed")
                /\ \A key \in Offered(plan) :
                        \/ Refined(plan, key) # plan
                        \/ key = "widen_to_year" /\ plan.period = YearSoFar(plan)
                        \/ key \in {"only_category", "only_merchant"}
           Good(plan) == Askable(plan, Names, Widens(q))
<1>1. PlansCoherent(c) <=> \A plan \in plans : Right(plan)  BY Zenon DEF PlansCoherent
<1>2. Widens(q) \in BOOLEAN  BY DEF Widens, AnyQuestion
<1>3. Good(first)  BY PlannedIs
<1>4. ASSUME NEW plan, Good(plan), NEW new \in Step(plan)  PROVE Good(new)
  <2>1. PICK key \in Offered(plan) : ~LosesBaseline(plan, key) /\ new = Refined(plan, key)
    OBVIOUS
  <2> QED  BY <1>2, <1>4, <2>1, FollowUpsHold
<1>5. ASSUME NEW plan, Good(plan)  PROVE Right(plan)
  <2>1. ASSUME NEW key \in Offered(plan)
        PROVE  \/ Refined(plan, key) # plan
               \/ key = "widen_to_year" /\ plan.period = YearSoFar(plan)
               \/ key \in {"only_category", "only_merchant"}
    BY <1>2, <1>5, FollowUpsHold
  <2>2. Coherent(plan) /\ (Before(plan) \/ Widens(q))  BY <1>5 DEF Askable
  <2> QED  BY <2>1, <2>2, Zenon DEF Widens
<1> HIDE DEF Good, Right, first, Step
<1>6. \A plan \in plans : Good(plan)
  <2>1. \A plan \in Step(first) : Good(plan)  BY <1>3, <1>4
  <2>2. \A plan \in UNION {Step(plan) : plan \in Step(first)} : Good(plan)  BY <1>4, <2>1
  <2> QED  BY <1>3, <2>1, <2>2
<1> QED  BY <1>1, <1>5, <1>6

-----------------------------------------------------------------------------
(***************************************************************************)
(* What the runs check of questions and answers.                           *)
(***************************************************************************)

(* The calls of the runs spare the model, *)
LEMMA CallsAre ==
    ASSUME NEW c \in Calls
    PROVE  BreakerSpares(c)
<1> DEFINE calls == c.calls
           log == Consulted(calls)
<1>1. calls \in [1 .. 5 -> [gap : {0, 3, 6}, took : {1},
                            attempts : {<<"error", "answer">>, <<"error", "error">>,
                                        <<"limited", "answer">>}]]
  BY DEF Calls
<1> HIDE DEF calls
<1>2. \A i \in 1 .. 5 : calls[i] \in AnyCall
  <2> SUFFICES ASSUME NEW i \in 1 .. 5  PROVE calls[i] \in AnyCall  OBVIOUS
  <2> DEFINE E == {"error", "answer", "limited"}
             call == calls[i]
  <2>1. call \in [gap : {0, 3, 6}, took : {1},
                  attempts : {<<"error", "answer">>, <<"error", "error">>, <<"limited", "answer">>}]
    BY <1>1
  <2>2. /\ <<"error", "answer">> \in Seq(E) /\ <<"error", "error">> \in Seq(E)
        /\ <<"limited", "answer">> \in Seq(E)
    OBVIOUS
  <2>3. \A x \in {0, 3, 6} : x \in Nat  OBVIOUS
  <2> DEFINE A == {<<"error", "answer">>, <<"error", "error">>, <<"limited", "answer">>}
  <2>7. \A x \in A : x \in Seq(E)  BY <2>2
  <2>8. call \in [gap : {0, 3, 6}, took : {1}, attempts : A]  BY <2>1
  <2> HIDE DEF call, E, A
  <2>4. /\ call.gap \in Nat /\ call.took \in Nat /\ call.attempts \in Seq(E)
        /\ call = [gap |-> call.gap, took |-> call.took, attempts |-> call.attempts]
    BY <2>3, <2>7, <2>8
  <2>5. AnyCall = [gap : Nat, took : Nat, attempts : Seq(E)]  BY DEF AnyCall, E
  <2>6. call \in AnyCall  BY <2>4, <2>5
  <2> QED  BY <2>6 DEF call
<1>3. calls \in [1 .. 5 -> AnyCall] /\ 5 \in Nat  BY <1>1, <1>2
<1>4. Len(log) = 5 /\ \A j \in 1 .. 5 : SparedAt(log, j)  BY <1>3, BreakerIsSound
<1>5. \E st \in [0 .. 5 -> AnyBreaker] : log = st[5].log
  BY <1>3, ConsultedIs
<1>6. log \in Seq(LogEntry)  BY <1>5 DEF AnyBreaker
<1> HIDE DEF log
<1>7. \A j \in DOMAIN log : SparedAt(log, j)  BY <1>4, <1>6
<1> QED  BY <1>7, Zenon DEF BreakerSpares, SparedAt, NoAnswerIn, FailuresIn, log, calls

(* and its replies on their charges are a last resort. *)
LEMMA ChargesAre ==
    ASSUME NEW c \in Charges
    PROVE  ModelIsLastResort(c)
<1> DEFINE charges == c.charges
           log == PlacedAll(charges)
           M == {"m"}
           S == {"pets", "nonsense", "nothing", "fees"}
<1>1. charges \in [1 .. 3 -> [merchant : {"m"}, known : {"none", "fees"},
                              reply : {"pets", "nonsense", "nothing"}, forgets : BOOLEAN,
                              own : {{"fees"}, {"fees", "pets"}}]]
  BY DEF Charges
<1> HIDE DEF charges
<1>2. \A i \in 1 .. 3 : charges[i] \in AnyPurchase(M, S) /\ charges[i].merchant = "m"
  <2> SUFFICES ASSUME NEW i \in 1 .. 3
               PROVE  charges[i] \in AnyPurchase(M, S) /\ charges[i].merchant = "m"
    OBVIOUS
  <2> DEFINE one == charges[i]
  <2>1. one \in [merchant : {"m"}, known : {"none", "fees"},
                 reply : {"pets", "nonsense", "nothing"}, forgets : BOOLEAN,
                 own : {{"fees"}, {"fees", "pets"}}]
    BY <1>1
  <2> HIDE DEF one
  <2>2. /\ one = [merchant |-> one.merchant, known |-> one.known, reply |-> one.reply,
                  own |-> one.own, forgets |-> one.forgets]
        /\ one.merchant = "m" /\ one.known \in S \cup {"none"} /\ one.reply \in S
        /\ one.own \in SUBSET S /\ one.forgets \in BOOLEAN
        /\ one.known \in one.own \cup {"none"}
    BY <2>1
  <2> QED  BY <2>2 DEF AnyPurchase, one
<1> HIDE DEF M, S
<1>3. charges \in [1 .. 3 -> AnyPurchase(M, S)] /\ 3 \in Nat  BY <1>1, <1>2
<1>4. Len(log) = 3 /\ \A j \in 1 .. 3 : PlacedWell(charges, log, j)
  BY <1>3, ModelIsAskedLast
<1>5. \E st \in [0 .. 3 -> Placing(M, S)] : PlacingSteps(3, charges, st)
  BY <1>3, PlacedAllIs
<1>6. log \in Seq(Placement(S))  BY <1>5 DEF Placing, PlacingSteps
<1> HIDE DEF log
<1>7. DOMAIN log = 1 .. 3  BY <1>4, <1>6
<1>8. ASSUME NEW j \in 1 .. 3
      PROVE  /\ charges[j].known # "none" => log[j].category = charges[j].known /\ ~log[j].asked
             /\ log[j].category \in charges[j].own \cup {"none"}
             /\ log[j].asked =>
                  \A i \in 1 .. j - 1 : log[i].asked =>
                      \/ charges[i].reply \notin charges[i].own
                      \/ \E k \in i + 1 .. j : charges[k].forgets
             /\ charges[j].known = "none" /\ ~log[j].asked =>
                  \E i \in 1 .. j - 1 : log[i].asked /\ charges[i].reply \in charges[i].own
  <2>1. \A i \in 1 .. j - 1 : i \in 1 .. 3  OBVIOUS
  <2>2. \A i \in 1 .. j - 1 : charges[i].merchant = charges[j].merchant  BY <1>2, <2>1
  <2>3. PlacedWell(charges, log, j)  BY <1>4
  <2> QED  BY <2>2, <2>3, Zenon DEF PlacedWell, Usable
<1> QED  BY <1>7, <1>8, Zenon DEF ModelIsLastResort, log, charges

(* The calendars that have the days the runs ask about, and in which the   *)
(* years they name are over.                                               *)
Covered == FirstYear \in 2007 .. 2018 /\ Years >= 17

(* The days from a month to a later one. *)
LEMMA DaysApart ==
    ASSUME NEW a \in AllMonths, NEW b \in AllMonths, NEW k \in Nat, b = a + k
    PROVE  FirstOf[a] + 28 * k <= FirstOf[b]
BY MonthsApart

(* The days of the runs. *)
LEMMA RunDays ==
    ASSUME Covered, NEW day \in Int, FirstToday - 100 <= day, day <= FirstToday + 420
    PROVE  /\ day \in AllDays /\ MonthOf(day) \in 182 .. 202 /\ MonthOf(day) + 1 \in AllMonths
           /\ 180 <= JanuaryOf(day) /\ FirstToday \in Int
           /\ \A m \in 0 .. 203 : m \in AllMonths
<1>1. Years \in Nat /\ Years >= 17  BY PlanningAssumption DEF Covered
<1>2. \A m \in 0 .. 203 : m \in AllMonths  BY <1>1 DEF AllMonths
<1>3. FirstToday = FirstOf[186]
  <2>1. 12 * 15 + 6 = 186  OBVIOUS
  <2> QED  BY <2>1 DEF FirstToday
<1>4. 1 \in AllMonths /\ 182 \in AllMonths /\ 186 \in AllMonths /\ 202 \in AllMonths
  BY <1>2
<1>5. /\ FirstOf[182] \in Int /\ FirstOf[186] \in Int /\ FirstOf[202] \in Int
      /\ FirstOf[182] \in AllDays /\ LastOf(202) \in Int /\ FirstOf[202] <= LastOf(202)
      /\ LastOf(202) \in AllDays
  BY <1>4, MonthsAre, MonthDays
<1>6. FirstOf[182] + 28 * 4 <= FirstOf[186]
  <2>1. 182 + 4 = 186 /\ 4 \in Nat  OBVIOUS
  <2> QED  BY <1>4, <2>1, DaysApart
<1>7. FirstOf[186] + 28 * 16 <= FirstOf[202]
  <2>1. PICK k \in Nat, a \in AllMonths, b \in AllMonths : k = 16 /\ a = 186 /\ b = 202  BY <1>4
  <2>2. b = a + k  BY <2>1
  <2>3. FirstOf[a] + 28 * k <= FirstOf[b]  BY <2>2, DaysApart
  <2> QED  BY <2>1, <2>3
<1>8. FirstOf[182] <= day /\ day <= LastOf(202)  BY <1>3, <1>5, <1>6, <1>7
<1>9. day \in AllDays
  <2>1. FirstOf[182] >= 1  BY <1>5 DEF AllDays
  <2>2. LastOf(12 * Years - 1) \in Int
    <3>1. 12 * Years - 1 \in AllMonths  BY <1>1 DEF AllMonths
    <3> QED  BY <3>1, MonthsAre
  <2>3. LastOf(202) <= LastOf(12 * Years - 1)  BY <1>5, <2>2 DEF AllDays
  <2> QED  BY <1>5, <1>8, <2>1, <2>2, <2>3 DEF AllDays
<1>10. 182 <= MonthOf(day) /\ MonthOf(day) <= 202  BY <1>4, <1>8, <1>9, DayInMonths
<1>11. MonthOf(day) \in Nat
  <2>1. MonthOf(day) \in AllMonths  BY <1>9, MonthIs
  <2> QED  BY <2>1, MonthsAre
<1>12. MonthOf(day) + 1 \in AllMonths  BY <1>2, <1>10, <1>11
<1>13. 180 <= JanuaryOf(day)
  <2>1. JanuaryOf(day) = 12 * (MonthOf(day) \div 12)  BY DEF JanuaryOf
  <2> QED  BY <1>10, <1>11, <2>1
<1> QED  BY <1>2, <1>3, <1>5, <1>9, <1>10, <1>11, <1>12, <1>13

(* The periods of the runs are sound, *)
LEMMA SpansAre ==
    ASSUME Covered, NEW c \in Spans
    PROVE  PeriodsSound(c)
<1> DEFINE phrase == c.phrase
           today == c.today
<1>1. /\ phrase \in Phrases /\ today \in Todays
      /\ phrase.kind = "years" => phrase.n <= 3
  BY DEF Spans
<1> HIDE DEF phrase, today
<1>2. FirstToday \in Int
  <2>1. 186 \in AllMonths /\ FirstToday = FirstOf[186]
    <3>1. Years \in Nat /\ Years >= 17 /\ 12 * 15 + 6 = 186  BY PlanningAssumption DEF Covered
    <3> QED  BY <3>1 DEF AllMonths, FirstToday
  <2> QED  BY <2>1, MonthsAre
<1>3. today \in Int /\ FirstToday - 100 <= today /\ today <= FirstToday + 420
  BY <1>1, <1>2 DEF Todays
<1>4. /\ today \in AllDays /\ MonthOf(today) \in 182 .. 202 /\ MonthOf(today) + 1 \in AllMonths
      /\ 180 <= JanuaryOf(today) /\ \A m \in 0 .. 203 : m \in AllMonths
  BY <1>3, RunDays
<1>5. /\ phrase \in AnyPhrase
      /\ phrase.year \in {0, 2019, 2020, 2021}
      /\ phrase.year # 0 => phrase.kind \in {"quarter", "month", "year"}
      /\ phrase.n <= 13
      /\ phrase.kind = "quarter" => phrase.n \in 1 .. 4
      /\ phrase.kind = "month" => phrase.n \in 1 .. 12
  <2> DEFINE Fits(p) == /\ p \in AnyPhrase
                        /\ p.year \in {0, 2019, 2020, 2021}
                        /\ p.year # 0 => p.kind \in {"quarter", "month", "year"}
                        /\ p.n <= 13
                        /\ p.kind = "quarter" => p.n \in 1 .. 4
                        /\ p.kind = "month" => p.n \in 1 .. 12
  <2>1. \A k \in {"this_month", "last_month", "this_year", "last_year", "this_week",
                  "last_week", "all", "unnamed"} : Fits(Phrase(k, 0, 0))
    BY DEF Phrase, AnyPhrase
  <2>2. \A k \in {"days", "weeks", "months", "years"} : \A n \in {0, 1, 3, 13} : Fits(Phrase(k, n, 0))
    BY DEF Phrase, AnyPhrase
  <2>3. \A n \in 1 .. 4 : \A y \in {0, 2019} : Fits(Phrase("quarter", n, y))
    BY DEF Phrase, AnyPhrase
  <2>4. \A n \in {1, 2, 12} : \A y \in {0, 2020} : Fits(Phrase("month", n, y))
    BY DEF Phrase, AnyPhrase
  <2>5. Fits(Phrase("year", 0, 2021))  BY DEF Phrase, AnyPhrase
  <2> HIDE DEF Fits
  <2>6. Fits(phrase)  BY <1>1, <2>1, <2>2, <2>3, <2>4, <2>5 DEF Phrases
  <2> QED  BY <2>6 DEF Fits
<1>6. /\ phrase.n \in Nat /\ phrase.kind \in {"this_month", "last_month", "this_year", "last_year",
             "this_week", "last_week", "days", "weeks", "months", "years", "quarter", "month",
             "year", "all", "unnamed"}
  BY <1>5 DEF AnyPhrase
<1>7. Reached(phrase, today)
  <2> DEFINE month == MonthOf(today)
             january == JanuaryOf(today)
             named == 12 * (phrase.year - FirstYear)
  <2> HIDE DEF month, january
  <2>0. month \in 182 .. 202 /\ month + 1 \in AllMonths /\ 180 <= january /\ today \in Int
        /\ FirstYear \in 2007 .. 2018 /\ january \in Int
    <3>1. january \in Nat  BY <1>4, TodayIs DEF january
    <3> QED  BY <1>3, <1>4, <3>1 DEF Covered, month, january
  <2>1. 84 <= month  BY <2>0
  <2>2. phrase.year # 0 => 12 <= named /\ named + 12 <= january
    BY <1>5, <2>0
  <2>3. phrase.kind \in {"days", "weeks"} => FirstOf[1] <= today - 7 * phrase.n
    <3>1. 1 \in AllMonths /\ 182 \in AllMonths  BY <1>4
    <3>2. FirstOf[1] + 28 * 181 <= FirstOf[182]
      <4>1. PICK k \in Nat, a \in AllMonths, b \in AllMonths : k = 181 /\ a = 1 /\ b = 182
        BY <3>1
      <4>2. b = a + k  BY <4>1
      <4>3. FirstOf[a] + 28 * k <= FirstOf[b]  BY <4>2, DaysApart
      <4> QED  BY <4>1, <4>3
    <3>3. FirstOf[1] \in Int /\ FirstOf[182] \in Int  BY <3>1, MonthsAre
    <3>4. FirstOf[182] <= today
      <4>1. FirstOf[182] <= today <=> 182 <= month  BY <1>4, <3>1, DayInMonths DEF month
      <4> QED  BY <2>0, <4>1
    <3> QED  BY <1>5, <1>6, <2>0, <3>2, <3>3, <3>4
  <2>4. phrase.kind = "months" => phrase.n <= month  BY <1>5, <1>6, <2>0
  <2>5. phrase.kind = "years" => 12 * phrase.n < month  BY <1>1, <1>6, <2>0
  <2> QED  BY <1>5, <2>0, <2>1, <2>2, <2>3, <2>4, <2>5 DEF Reached, month, january
<1> QED  BY <1>4, <1>5, <1>7, PeriodsAreSound DEF phrase, today

(* and the surfaces agree on their books. *)
LEMMA BooksAre ==
    ASSUME Covered, NEW c \in Books
    PROVE  SurfacesAgree(c)
<1> DEFINE book == c.book
           month == Anchor(book, FirstToday)
<1>1. book \in [1 .. 2 -> [day : {FirstToday - 40, FirstToday + 5, FirstToday + 36},
                             amount : {-3, -2, 5}, category : {"none", "food", "transfers"},
                             merchant : {"m", "n"}, currency : {"USD", "EUR"}]]
  BY DEF Books
<1> HIDE DEF book
<1>2. FirstToday \in Int
  <2>1. 186 \in AllMonths /\ FirstToday = FirstOf[186]
    <3>1. Years \in Nat /\ Years >= 17 /\ 12 * 15 + 6 = 186  BY PlanningAssumption DEF Covered
    <3> QED  BY <3>1 DEF AllMonths, FirstToday
  <2> QED  BY <2>1, MonthsAre
<1>3. \A day \in {FirstToday - 40, FirstToday, FirstToday + 5, FirstToday + 36} :
        day \in AllDays /\ MonthOf(day) \in 182 .. 202
  <2> SUFFICES ASSUME NEW day \in {FirstToday - 40, FirstToday, FirstToday + 5, FirstToday + 36}
               PROVE  day \in AllDays /\ MonthOf(day) \in 182 .. 202
    OBVIOUS
  <2>1. day \in Int /\ FirstToday - 100 <= day /\ day <= FirstToday + 420  BY <1>2
  <2> QED  BY <2>1, RunDays
<1>4. DOMAIN book = 1 .. 2 /\ \A i \in 1 .. 2 : book[i].amount \in Int /\ book[i].day \in
            {FirstToday - 40, FirstToday, FirstToday + 5, FirstToday + 36}
  BY <1>1
<1>5. IsFiniteSet(1 .. 2) /\ Cardinality(1 .. 2) = 2
  <2>1. 1 \in Int /\ 2 \in Int /\ 2 - 1 + 1 = 2 /\ ~(1 > 2)  OBVIOUS
  <2> QED  BY <2>1, FS_Interval
<1>6. Kept(book)  BY <1>3, <1>4, <1>5 DEF Kept
<1>7. FirstToday \in AllDays  BY <1>3
<1>8. month \in 182 .. 202
  <2> DEFINE days == {book[i].day : i \in {j \in DOMAIN book : book[j].currency = BaseCurrency}}
             latest == IF days = {} THEN FirstToday ELSE Max(days)
  <2>1. month = MonthOf(latest)  BY DEF Anchor
  <2>2. \A x \in days : x \in {FirstToday - 40, FirstToday + 5, FirstToday + 36}  BY <1>1
  <2>3. ASSUME days # {}  PROVE Max(days) \in days
    <3>1. \E x \in days : \A y \in days : x >= y
      <4> HIDE DEF days
      <4>1. CASE FirstToday + 36 \in days  BY <1>2, <2>2, <4>1
      <4>2. CASE FirstToday + 36 \notin days /\ FirstToday + 5 \in days  BY <1>2, <2>2, <4>2
      <4>3. CASE FirstToday + 36 \notin days /\ FirstToday + 5 \notin days
        BY <1>2, <2>2, <2>3, <4>3
      <4> QED  BY <4>1, <4>2, <4>3
    <3> HIDE DEF days
    <3> QED  BY <3>1, Zenon DEF Max
  <2>4. latest \in {FirstToday - 40, FirstToday, FirstToday + 5, FirstToday + 36}
    <3> HIDE DEF days
    <3> QED  BY <2>2, <2>3
  <2> HIDE DEF latest
  <2> QED  BY <1>3, <2>1, <2>4
<1> HIDE DEF month
<1>9. month - 11 \in AllMonths
  <2>1. Years \in Nat /\ Years >= 17  BY PlanningAssumption DEF Covered
  <2> QED  BY <1>8, <2>1 DEF AllMonths
<1>10. RoomForAll(book, month)
  <2>1. \A plan : Cardinality(Groups(book, plan)) <= 25
    <3> SUFFICES ASSUME NEW plan  PROVE Cardinality(Groups(book, plan)) <= 25  OBVIOUS
    <3>1. /\ Cardinality(Groups(book, plan)) \in Nat
          /\ Cardinality(Groups(book, plan)) <= Cardinality(DOMAIN book)
      BY <1>6, GroupsAre
    <3> QED  BY <1>4, <1>5, <3>1
  <2> QED  BY <2>1, Zenon DEF RoomForAll
<1> QED  BY <1>6, <1>7, <1>9, <1>10, FiguresAgree DEF book, month

(* What is told in the runs is computed. *)
LEMMA ToldAre ==
    ASSUME Covered, NEW c \in Told
    PROVE  NumbersAreComputed(c)
<1> DEFINE plan == ToldPlan(c)
           book == c.book
           answer == Executed(book, plan)
           shown == {book[i].amount : i \in Range(Supporting(book, plan))}
           printed == PrintedOf(c)
           template == Narrated(answer, plan, printed)
           said == NumbersTold(answer, shown, plan, printed, c.wording # {Unset}, c.wording)
           negative == answer.total < 0 \/ \E r \in Range(answer.rows) : r.value < 0
           month == MonthOf(FirstToday)
<1>1. /\ c.group \in {"none", "month", "merchant"} /\ c.against \in {"nothing", "month", "days"}
      /\ book \in [1 .. 2 -> [day : {FirstToday - 10, FirstToday + 5},
                              amount : {-205, -4000, 300}, category : {"food"},
                              merchant : {"m", "n"}, currency : {"USD"}]]
  BY DEF Told
<1>2. /\ plan.intent = "breakdown" /\ plan.group = c.group /\ plan.period = MonthPeriod(month)
      /\ c.against = "nothing" => plan.baseline = NoPeriod
      /\ c.against = "month" => plan.baseline = MonthPeriod(month - 1)
      /\ plan.byTime = (c.group = "month") /\ plan.limit = 25
  BY DEF ToldPlan
<1>3. NumbersAreComputed(c) <=>
        /\ said = template \/ Verified(said, answer, shown)
        /\ \/ Verified(template, answer, shown)
           \/ negative \/ \E n \in Worded(answer, plan, printed) : ~Benign(n)
  BY Zenon DEF NumbersAreComputed
<1>4. said = template \/ Verified(said, answer, shown)
  BY DEF NumbersTold
<1> HIDE DEF plan, book, answer, shown, template, said
<1>5. ASSUME ~negative, ~\E n \in Worded(answer, plan, printed) : ~Benign(n)
      PROVE  Verified(template, answer, shown)
  <2>1. FirstToday \in Int
    <3>1. 186 \in AllMonths /\ FirstToday = FirstOf[186]
      <4>1. Years \in Nat /\ Years >= 17 /\ 12 * 15 + 6 = 186  BY PlanningAssumption DEF Covered
      <4> QED  BY <4>1 DEF AllMonths, FirstToday
    <3> QED  BY <3>1, MonthsAre
  <2>2. \A day \in {FirstToday - 10, FirstToday, FirstToday + 5} :
          day \in AllDays /\ MonthOf(day) \in 182 .. 202
    <3> SUFFICES ASSUME NEW day \in {FirstToday - 10, FirstToday, FirstToday + 5}
                 PROVE  day \in AllDays /\ MonthOf(day) \in 182 .. 202
      OBVIOUS
    <3>1. day \in Int /\ FirstToday - 100 <= day /\ day <= FirstToday + 420  BY <2>1
    <3> QED  BY <3>1, RunDays
  <2>3. IsFiniteSet(1 .. 2) /\ Cardinality(1 .. 2) = 2
    <3>1. 1 \in Int /\ 2 \in Int /\ 2 - 1 + 1 = 2 /\ ~(1 > 2)  OBVIOUS
    <3> QED  BY <3>1, FS_Interval
  <2>4. DOMAIN book = 1 .. 2 /\ \A i \in 1 .. 2 : book[i].amount \in Int /\ book[i].day \in
            {FirstToday - 10, FirstToday + 5}
    BY <1>1
  <2>5. Kept(book)  BY <2>2, <2>3, <2>4 DEF Kept
  <2>6. month \in 182 .. 202 /\ month \in AllMonths /\ month - 1 \in AllMonths
    <3>1. month \in 182 .. 202  BY <2>2
    <3>2. Years \in Nat /\ Years >= 17  BY PlanningAssumption DEF Covered
    <3> HIDE DEF month
    <3> QED  BY <3>1, <3>2 DEF AllMonths
  <2> HIDE DEF month
  <2>7. MonthPeriod(month) = FromTo(month, month) /\ FullMonth(MonthPeriod(month - 1))
    BY <2>6, MonthPeriodIs DEF FromTo
  <2>8. Cardinality(Groups(book, plan)) <= 25
    <3>1. /\ Cardinality(Groups(book, plan)) \in Nat
          /\ Cardinality(Groups(book, plan)) <= Cardinality(DOMAIN book)
      BY <2>5, GroupsAre
    <3> QED  BY <2>3, <2>4, <3>1
  <2>9. plan.group = "none" \/ Grouping(book, plan)
    <3> SUFFICES ASSUME plan.group # "none"  PROVE Grouping(book, plan)  OBVIOUS
    <3>1. plan.group \in {"category", "merchant", "month", "week"}  BY <1>1, <1>2
    <3>2. month <= month /\ plan.period = FromTo(month, month)  BY <1>2, <2>6, <2>7
    <3>3. plan.byTime => plan.group \in {"month", "week"}  BY <1>2
    <3>4. plan.intent # "recurring" /\ plan.limit = 25  BY <1>2
    <3> QED  BY <2>6, <2>8, <3>1, <3>2, <3>3, <3>4, GroupingIs
  <2>12. answer.total >= 0 /\ \A r \in Range(answer.rows) : r.value >= 0
    <3>1. answer.total \in Int /\ Figures(answer.rows)
      <4>1. Answer(answer, plan)  BY <2>5, <2>9, ExecutedIs DEF answer
      <4> QED  BY <4>1 DEF Answer
    <3>2. PICK n \in Nat :
            /\ answer.rows = [i \in 1 .. n |-> answer.rows[i]]
            /\ \A i \in 1 .. n : answer.rows[i].value \in Int
      <4> DEFINE rows == answer.rows
      <4>1. Figures(rows)  BY <3>1
      <4> HIDE DEF rows
      <4>2. \E n \in Nat : /\ rows = [i \in 1 .. n |-> rows[i]]
                          /\ \A i \in 1 .. n : rows[i].value \in Int
        BY <4>1 DEF Figures
      <4> QED  BY <4>2 DEF rows
    <3>3. \A r \in Range(answer.rows) : r.value \in Int
      <4>1. DOMAIN answer.rows = 1 .. n  BY <3>2
      <4> QED  BY <3>2, <4>1 DEF Range
    <3> QED  BY <1>5, <3>1, <3>3
  <2>13. PlainWords(answer, plan, printed)  BY <1>5 DEF PlainWords
  <2> QED  BY <2>5, <2>9, <2>12, <2>13, AnswersAreChecked DEF answer, template
<1> QED  BY <1>3, <1>4, <1>5

(* The questions of the runs. *)
LEMMA QuestionsAre ==
    ASSUME Covered, NEW c \in Questions
    PROVE  PlansCoherent(c)
<1> DEFINE q == c.q
           today == c.today
           month == MonthOf(today)
           named == Resolved(q.phrase, today)
           Names == {"food", "m", "top"}
<1>1. /\ today \in {FirstToday + 80, FirstToday + 180}
      /\ q \in [recurring : BOOLEAN, top : BOOLEAN, trend : BOOLEAN, breakdown : BOOLEAN,
                   search : BOOLEAN, compares : BOOLEAN, by : {"none", "week", "merchant"},
                   categories : {{}, {"food"}}, merchants : {{}, {"m"}}, residue : {TRUE},
                   transfers : {FALSE}, direction : {"spend", "net"}, number : {0},
                   averages : {FALSE}, counts : BOOLEAN,
                   phrase : {Phrase("unnamed", 0, 0), Phrase("last_month", 0, 0),
                             Phrase("this_year", 0, 0)}]
  BY Zenon DEF Questions
<1> HIDE DEF q, today
<1>2. FirstToday \in Int
  <2>1. 186 \in AllMonths /\ FirstToday = FirstOf[186]
    <3>1. Years \in Nat /\ Years >= 17 /\ 12 * 15 + 6 = 186  BY PlanningAssumption DEF Covered
    <3> QED  BY <3>1 DEF AllMonths, FirstToday
  <2> QED  BY <2>1, MonthsAre
<1>3. ASSUME NEW day \in {today, today - 29}
      PROVE  /\ day \in AllDays /\ MonthOf(day) \in 182 .. 202 /\ day \in Int
             /\ 180 <= JanuaryOf(day)
             /\ \A m \in 0 .. 203 : m \in AllMonths
  <2>1. day \in Int /\ FirstToday - 100 <= day /\ day <= FirstToday + 420  BY <1>1, <1>2
  <2> QED  BY <2>1, RunDays
<1>4. /\ today \in AllDays /\ today \in Int /\ month \in 182 .. 202
      /\ 180 <= JanuaryOf(today)
      /\ \A m \in 0 .. 203 : m \in AllMonths
  BY <1>3
<1>5. /\ today - 29 \in AllDays /\ MonthOf(today - 29) \in 182 .. 202 /\ today - 29 \in Int
  BY <1>3
<1>6. q.phrase.kind \in {"unnamed", "last_month", "this_year"} /\ q.phrase \in AnyPhrase
  <2> DEFINE Fits(p) == /\ p.kind \in {"unnamed", "last_month", "this_year"}
                        /\ p \in AnyPhrase
  <2>1. Fits(Phrase("unnamed", 0, 0))  BY DEF Phrase, AnyPhrase
  <2>2. Fits(Phrase("last_month", 0, 0))  BY DEF Phrase, AnyPhrase
  <2>3. Fits(Phrase("this_year", 0, 0))  BY DEF Phrase, AnyPhrase
  <2>4. q.phrase \in {Phrase("unnamed", 0, 0), Phrase("last_month", 0, 0), Phrase("this_year", 0, 0)}
    BY <1>1
  <2> HIDE DEF Fits
  <2>5. Fits(q.phrase)  BY <2>1, <2>2, <2>3, <2>4
  <2> QED  BY <2>5 DEF Fits
<1>7. q \in AnyQuestion(Names)
  <2>1. q = [recurring |-> q.recurring, top |-> q.top, trend |-> q.trend,
             breakdown |-> q.breakdown, search |-> q.search, compares |-> q.compares,
             by |-> q.by, categories |-> q.categories, merchants |-> q.merchants,
             residue |-> q.residue, transfers |-> q.transfers, direction |-> q.direction,
             averages |-> q.averages, counts |-> q.counts, number |-> q.number,
             phrase |-> q.phrase]
    BY <1>1
  <2>2. /\ q.recurring \in BOOLEAN /\ q.top \in BOOLEAN /\ q.trend \in BOOLEAN
        /\ q.breakdown \in BOOLEAN /\ q.search \in BOOLEAN /\ q.compares \in BOOLEAN
        /\ q.residue \in BOOLEAN /\ q.transfers \in BOOLEAN
        /\ q.averages \in BOOLEAN /\ q.counts \in BOOLEAN
    BY <1>1
  <2>3. /\ q.by \in {"none", "week", "merchant"} /\ q.categories \in {{}, {"food"}}
        /\ q.merchants \in {{}, {"m"}} /\ q.direction \in {"spend", "net"}
        /\ q.number = 0
    BY <1>1
  <2>4. q.by \in {"none", "category", "merchant", "month", "week"}  BY <2>3
  <2>5. q.categories \in SUBSET Names /\ q.merchants \in SUBSET Names  BY <2>3
  <2>6. q.direction \in {"spend", "income", "net"} /\ q.number \in Nat  BY <2>3
  <2> HIDE DEF Names
  <2> QED  BY <1>6, <2>1, <2>2, <2>4, <2>5, <2>6 DEF AnyQuestion
<1>14. 12 <= month /\ 12 <= month - 1 /\ MonthOf(today) = month
  <2>1. month \in 182 .. 202  BY <1>4
  <2> HIDE DEF month
  <2>2. 12 <= month /\ 12 <= month - 1  BY <2>1
  <2> QED  BY <2>2 DEF month
<1> DEFINE Well == Preceded(named) /\ 12 <= MonthOf(named.end)
<1>8. ASSUME q.phrase.kind = "unnamed"  PROVE Well
  <2>1. named = Period(today - 29, today)  BY <1>8 DEF Resolved
  <2> DEFINE start == today - 29
             since == 182
  <2>2. start \in Int /\ today \in AllDays /\ start <= today /\ since \in AllMonths /\ 1 <= since
    BY <1>4, <1>5
  <2>3. FirstOf[since] <= start
    <3>1. start \in AllDays /\ since <= MonthOf(start)  BY <1>5
    <3> HIDE DEF start, since
    <3> QED  BY <2>2, <3>1, DayInMonths
  <2> HIDE DEF since
  <2>4. Period(start, today) = [start |-> start, end |-> today] /\ Preceded(Period(start, today))
    <3> HIDE DEF start
    <3> QED  BY <2>2, <2>3, PrecededIs
  <2>5. Preceded(named) /\ named.end = today  BY <2>1, <2>4
  <2> HIDE DEF named, month
  <2> QED  BY <1>14, <2>5
<1>9. ASSUME q.phrase.kind = "last_month"  PROVE Well
  <2> DEFINE last == month - 1
  <2>1. named = MonthPeriod(last)  BY <1>9 DEF Resolved
  <2>2. last \in 181 .. 201 /\ last \in AllMonths
    <3> HIDE DEF month
    <3> QED  BY <1>4
  <2> HIDE DEF last
  <2>3. 1 <= last /\ last <= last  BY <2>2
  <2>4. Preceded(Period(FirstOf[last], LastOf(last)))  BY <2>2, <2>3, MonthsPreceded
  <2>5. MonthPeriod(last) = [start |-> FirstOf[last], end |-> LastOf(last)]
    BY <2>2, MonthPeriodIs
  <2>6. MonthOf(LastOf(last)) = last  BY <2>2, MonthDays
  <2>7. Preceded(named) /\ MonthOf(named.end) = last  BY <2>1, <2>4, <2>5, <2>6 DEF MonthPeriod
  <2>8. 12 <= last  BY <1>14 DEF last
  <2> HIDE DEF named, month
  <2> QED  BY <2>7, <2>8
<1>10. ASSUME q.phrase.kind = "this_year"  PROVE Well
  <2> DEFINE january == JanuaryOf(today)
  <2>1. named = Period(FirstOf[january], today)  BY <1>10 DEF Resolved
  <2>2. january \in Nat /\ january <= month  BY <1>4, TodayIs
  <2>3. january \in Int /\ 1 <= january  BY <1>4, <2>2
  <2> HIDE DEF january
  <2>4. Past(Period(FirstOf[january], today), today)  BY <1>4, <2>2, <2>3, SincePast
  <2>5. FirstOf[january] \in Int /\ FirstOf[january] <= today
    BY <1>4, <2>2, <2>3, EarlierMonth
  <2>8. Period(FirstOf[january], today) = [start |-> FirstOf[january], end |-> today]
    BY <1>4, <2>5 DEF Period
  <2>6. named.end = today  BY <2>1, <2>8
  <2>7. Preceded(named)  BY <2>1, <2>4 DEF Past
  <2> HIDE DEF named, month
  <2> QED  BY <1>14, <2>6, <2>7
<1>11. Well  BY <1>6, <1>8, <1>9, <1>10
<1>12. Plannable(q, today)  BY <1>11 DEF Plannable
<1>13. "top" \in Names  OBVIOUS
<1> HIDE DEF Names
<1> QED  BY <1>7, <1>12, <1>13, PlansAreCoherent DEF q, today

(* The questions and the answers of the runs are what their kinds say. *)
LEMMA AnsweringKinds ==
    ASSUME Init
    PROVE  /\ case.kind = "span" => case \in Spans
           /\ case.kind = "question" => case \in Questions
           /\ case.kind = "book" => case \in Books
           /\ case.kind = "told" => case \in Told
           /\ case.kind = "calls" => case \in Calls
           /\ case.kind = "charges" => case \in Charges
<1>1. CASE case \in Spans
  <2>1. case.kind = "span"  BY <1>1 DEF Spans
  <2> QED  BY <1>1, <2>1
<1>2. CASE case \in Questions
  <2>1. case.kind = "question"  BY <1>2 DEF Questions
  <2> QED  BY <1>2, <2>1
<1>3. CASE case \in Books
  <2>1. case.kind = "book"  BY <1>3 DEF Books
  <2> QED  BY <1>3, <2>1
<1>4. CASE case \in Told
  <2>1. case.kind = "told"  BY <1>4 DEF Told
  <2> QED  BY <1>4, <2>1
<1>5. CASE case \in Calls
  <2>1. case.kind = "calls"  BY <1>5 DEF Calls
  <2> QED  BY <1>5, <2>1
<1>6. CASE case \in Charges
  <2>1. case.kind = "charges"  BY <1>6 DEF Charges
  <2> QED  BY <1>6, <2>1
<1>7. CASE case \in Chains \cup Documents \cup Amounts \cup Exports
  <2>1. case.kind \in {"chain", "document", "amount", "export"}
    BY <1>7 DEF Chains, Documents, Amounts, Exports
  <2> QED  BY <2>1
<1>8. CASE case \in Months \cup Renderings \cup Slips
  <2>1. case.kind \in {"months", "rendering", "receipt"}
    BY <1>8 DEF Months, Renderings, Slips
  <2> QED  BY <2>1
<1>9. CASE case \in Imports \cup Judged \cup Matchings \cup Candidates
  <2>1. case.kind \in {"imports", "judged", "matching", "candidate"}
    BY <1>9 DEF Imports, Judged, Matchings, Candidates
  <2> QED  BY <2>1
<1>10. CASE case \in Namings
  <2>1. case.kind = "naming"  BY <1>10 DEF Namings
  <2> QED  BY <2>1
<1> QED  BY <1>1, <1>2, <1>3, <1>4, <1>5, <1>6, <1>7, <1>8, <1>9, <1>10, Zenon DEF Init

(* In every calendar that covers the days the runs ask about, and for      *)
(* every setting of the model, its breaker and its list: phrases, plans,   *)
(* figures, numbers, names, calls and replies are as AnsweringHolds says   *)
(* (services/analysis, routers/dashboard.py and services/ai).              *)
THEOREM AnsweringIsSound ==
    ASSUME Covered
    PROVE  Spec => []AnsweringHolds
<1>1. Init => AnsweringHolds
  <2> SUFFICES ASSUME Init  PROVE AnsweringHolds  OBVIOUS
  <2>1. \A c : NamesSettled(c)  BY NamesAreSettled, Zenon DEF NamesSettled
  <2>2. case.kind = "span" => PeriodsSound(case)  BY AnsweringKinds, SpansAre
  <2>3. case.kind = "question" => PlansCoherent(case)  BY AnsweringKinds, QuestionsAre
  <2>4. case.kind = "book" => SurfacesAgree(case)  BY AnsweringKinds, BooksAre
  <2>5. case.kind = "told" => NumbersAreComputed(case)  BY AnsweringKinds, ToldAre
  <2>6. case.kind = "calls" => BreakerSpares(case)  BY AnsweringKinds, CallsAre
  <2>7. case.kind = "charges" => ModelIsLastResort(case)  BY AnsweringKinds, ChargesAre
  <2> QED  BY <2>1, <2>2, <2>3, <2>4, <2>5, <2>6, <2>7 DEF AnsweringHolds
<1>2. AnsweringHolds /\ [Next]_case => AnsweringHolds'
  <2> SUFFICES ASSUME AnsweringHolds, case' = case  PROVE AnsweringHolds'
    BY DEF Next
  <2> QED  BY DEF AnsweringHolds
<1> QED  BY <1>1, <1>2, PTL DEF Spec
=============================================================================
