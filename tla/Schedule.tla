------------------------------ MODULE Schedule ------------------------------
(***************************************************************************)
(* The money rules of a buy plan (payments/buy-plan/schedule.js): pure     *)
(* functions of a plan row, the payments on its draft and a day.           *)
(*                                                                         *)
(* Days are numbers and the months of one plan are all Month days long, so *)
(* due date q is (q - 1) * Month; amounts are whole rupees.  planState     *)
(* sorts the due dates, payments and price changes by day (a due date      *)
(* before a payment before a price change of the same day) and replays     *)
(* them; here the replay is a recursive function over the days.  Payments  *)
(* of one day count as their sum, which is what replaying them one after   *)
(* another comes to, and of one day's price changes the last one stands.   *)
(***************************************************************************)
EXTENDS Integers, Sequences, FiniteSets, SequencesExt

CONSTANTS N,               \* installments of the plan (4, 5 or 6 in the code)
          Month,           \* days between two due dates
          LastDay,         \* bound: no day after it is looked at
          MinPayment,      \* MIN_PAYMENT
          CloseAfter,      \* CLOSE_AFTER_DAYS
          WarnDays,        \* WARN_DAYS
          LastCloseAfter,  \* LAST_CLOSE_AFTER_DAYS
          LastWarnDays     \* LAST_WARN_DAYS

ASSUME ScheduleAssumption ==
    /\ N \in Nat \ {0, 1}
    /\ Month \in Nat \ {0}
    /\ LastDay \in Nat
    /\ MinPayment \in Nat
    /\ CloseAfter \in Nat /\ LastCloseAfter \in Nat
    /\ WarnDays \subseteq Nat /\ LastWarnDays \subseteq Nat

NoPrice == -1              \* final_total null
NoDay == -1

Day == 0 .. LastDay
Installment == 1 .. N

Least(a, b) == IF a <= b THEN a ELSE b
Most(a, b) == IF a >= b THEN a ELSE b
CeilDiv(a, b) == (a + b - 1) \div b

DueDate(q) == (q - 1) * Month

(* The installment whose period a day falls in.                            *)
PeriodOf(day) == Least(N, (day \div Month) + 1)

(* A floating plan is repriced before its last due date.                   *)
AwaitingFinalPrice(plan) == plan.mode = "equal" /\ plan.final = NoPrice

(* The price now: the last change, else the price at the start.            *)
CurrentTotal(plan) ==
    IF plan.changes = <<>> THEN plan.total ELSE Last(plan.changes).total

SumOf(legs) == FoldLeft(LAMBDA s, l : s + l.value, 0, legs)
PaidOn(legs, day) == SumOf(SelectSeq(legs, LAMBDA l : l.date = day))

(***************************************************************************)
(* The replay.  standing is A, the amount each installment still to come   *)
(* asks for; arrears what missed periods carried forward.                  *)
(***************************************************************************)
Opening(plan) ==
    [k |-> 1, total |-> plan.total, paid |-> 0, paidThis |-> FALSE, arrears |-> 0,
     lastPaid |-> 0,
     standing |-> IF plan.mode = "gold" /\ plan.gold > 0 THEN plan.gold ELSE CeilDiv(plan.total, N)]

Respread(s, left) ==
    [s EXCEPT !.standing = IF left > 0 THEN CeilDiv(Most(0, s.total - s.paid), left) ELSE 0]

NewPeriod(s) ==
    [s EXCEPT !.k = Least(N, s.k + 1), !.paidThis = FALSE,
              !.arrears = IF s.paidThis THEN 0 ELSE s.arrears + s.standing]

Receive(s, amount) ==
    Respread([s EXCEPT !.paid = @ + amount, !.paidThis = TRUE, !.arrears = 0, !.lastPaid = s.k],
             N - s.k)

Reprice(s, total) ==
    Respread([s EXCEPT !.total = total, !.arrears = 0], IF s.paidThis THEN N - s.k ELSE N - s.k + 1)

(* One day: its due date if it has come, its payments, its price change.   *)
OneDay(plan, legs, now, d, s) ==
    LET turned == IF d <= now /\ \E q \in 2 .. N : DueDate(q) = d THEN NewPeriod(s) ELSE s
        amount == PaidOn(legs, d)
        funded == IF amount > 0 THEN Receive(turned, amount) ELSE turned
        priced == SelectSeq(plan.changes, LAMBDA c : c.date = d)
    IN IF priced = <<>> THEN funded ELSE Reprice(funded, Last(priced).total)

(* The day before is bound by a set of one, so that TLC replays it once.   *)
Only(set) == CHOOSE x \in set : TRUE

Replay(plan, legs, now) ==
    LET upTo[d \in Day] ==
            Only({OneDay(plan, legs, now, d, s) :
                    s \in {IF d = 0 THEN Opening(plan) ELSE upTo[d - 1]}})
    IN upTo[LastDay]

(***************************************************************************)
(* planState: where the plan stands on day `now`.                          *)
(***************************************************************************)
(* No payment since before a due date that has come.                       *)
Silent(s, now) == s.lastPaid < N /\ DueDate(s.lastPaid + 1) <= now

\* Faulty Silence: the days since the current installment came due.
SilenceOfPeriod(s, now) == now - DueDate(s.k)

Silence(s, now) == now - DueDate(s.lastPaid + 1)

\* Faulty CloseOn: who pays something in every period is never closed.
CloseOnSilence(s, now) ==
    IF Silent(s, now) THEN DueDate(s.lastPaid + 1) + CloseAfter ELSE LastDay + 1

(* The day the plan closes if nothing is paid.                             *)
CloseOn(s, now) ==
    LET byLast == DueDate(N) + LastCloseAfter
    IN IF Silent(s, now) THEN Least(DueDate(s.lastPaid + 1) + CloseAfter, byLast) ELSE byLast

(* That day, and the warning in force.                                     *)
Closure(s, balance, now) ==
    LET closeOn == CloseOn(s, now)
        gapWarn == {w \in WarnDays : Silent(s, now) /\ Silence(s, now) >= w}
        lastWarn == {w \in LastWarnDays : now - DueDate(N) >= w}
    IN IF balance = 0
       THEN [close |-> FALSE, closeOn |-> NoDay, warn |-> <<>>]
       ELSE [close |-> now >= closeOn, closeOn |-> closeOn,
             warn |-> IF lastWarn # {}
                      THEN <<N, "last", CHOOSE w \in lastWarn : \A v \in lastWarn : v <= w>>
                      ELSE IF gapWarn # {}
                      THEN <<s.lastPaid + 1, "warn", CHOOSE w \in gapWarn : \A v \in gapWarn : v <= w>>
                      ELSE <<>>]

StateAt(plan, s, now) ==
    LET balance == Most(0, s.total - s.paid)
        due == IF balance = 0 THEN 0
               ELSE IF s.k = N THEN balance
               ELSE IF s.paidThis THEN 0
               ELSE Least(balance, s.arrears + s.standing)
        coming == IF balance = 0 \/ s.k = N THEN 0
                  ELSE IF s.k + 1 = N THEN balance
                  ELSE Least(balance, due + s.standing)
    IN [k |-> s.k, total |-> s.total, paid |-> s.paid, balance |-> balance,
        credit |-> Most(0, s.paid - s.total), standing |-> s.standing,
        dueNow |-> due,
        upcoming |-> coming,                       \* 0 stands for null
        minPayment |-> IF balance = 0 THEN 0 ELSE Least(MinPayment, balance),
        suggested |-> IF balance = 0 THEN 0
                      ELSE IF due > 0 THEN due ELSE IF coming > 0 THEN coming ELSE balance,
        closure |-> Closure(s, balance, now)]

PlanState(plan, legs, now) == Only({StateAt(plan, s, now) : s \in {Replay(plan, legs, now)}})

(* The rows the customer and staff see for the installments after k: each  *)
(* asks for what the plan would if the ones before it are paid as asked.   *)
ScheduleRows(st) ==
    LET left == st.balance - st.dueNow
        row[q \in st.k .. N] ==                    \* [amount, left after it, standing after it]
            IF q = st.k
            THEN [amount |-> st.dueNow, left |-> left,
                  standing |-> IF q = N THEN 0
                               ELSE IF st.dueNow > 0 THEN CeilDiv(Most(0, left), N - q) ELSE st.standing]
            ELSE LET p == row[q - 1]
                     amount == IF p.left <= 0 THEN 0 ELSE IF q = N THEN p.left ELSE Least(p.left, p.standing)
                     rest == p.left - amount
                 IN [amount |-> amount, left |-> rest,
                     standing |-> IF p.left > 0 /\ q < N THEN CeilDiv(Most(0, rest), N - q) ELSE p.standing]
    IN [q \in st.k .. N |-> row[q].amount]

(* validatePayment: what a link or a payment in store may be for.          *)
Payable(st, amount) == st.balance > 0 /\ st.minPayment <= amount /\ amount <= st.balance
=============================================================================
