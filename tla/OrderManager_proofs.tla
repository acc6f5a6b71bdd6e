------------------------ MODULE OrderManager_proofs ------------------------
(***************************************************************************)
(* Proofs about OrderManager, for any orders, trades, tokens, sizes and    *)
(* prices.                                                                 *)
(*                                                                         *)
(* The inductive invariant is stated for one order and its tasks           *)
(* (OrderInv) and for one position (PositionInv).  Every handler of an     *)
(* order is a function of its record, so for each of them a lemma says     *)
(* that it preserves OrderInv; the step lemma only distributes them over   *)
(* the disjuncts of Next.                                                  *)
(*                                                                         *)
(* The second part is about what the books add up to: shares               *)
(* (EffectiveIsCommitted) and money (CashLedger).  The third is about what *)
(* a step publishes: StrategyIsTold.                                       *)
(***************************************************************************)
EXTENDS OrderManager, Collections_proofs

OrderInv(r, t) ==
    /\ r \in OrderRecord /\ t \in TaskRecord
    /\ r.matched + r.pending + r.invalid <= r.shares
    /\ r.status = "UNTRACKED" => t = NoTask
    /\ r.status = "SUBMITTING" => /\ r.pending = r.shares /\ r.matched = 0
                                  /\ t.submit = 1 /\ ~r.is_cancelling
    /\ IsCanceled(r) \/ r.status = "SUB_FAILED" => r.pending = 0
    /\ r.status = "PART_MATCHED_CANCELED" => r.matched > 0
    /\ r.status = "PART_MATCHED" => r.matched > 0 /\ ~IsFull(r.matched, r.pending, r.shares)
    /\ r.status = "FULL_MATCHED" => r.matched > 0 /\ IsFull(r.matched, r.pending, r.shares)
    /\ t.submit \in {0, 1}
    /\ t.cancel = IF r.is_cancelling THEN 1 ELSE 0
    /\ r.should_cancel => t.submit = 1 /\ ~r.is_cancelling

PositionInv(p) ==
    /\ p \in Position
    /\ \/ p.shares = 0 /\ p.cost = 0
       \/ p.shares > Dust /\ p.cost >= 0

IInv ==
    /\ orders \in [Orders -> OrderRecord]
    /\ tasks \in [Orders -> TaskRecord]
    /\ trades \in [Trades -> TradeRecord]
    /\ positions \in [Tokens -> Position]
    /\ settled \in BOOLEAN
    /\ \A o \in Orders : OrderInv(orders[o], tasks[o])
    /\ \A k \in Tokens : PositionInv(positions[k])

-----------------------------------------------------------------------------
(* The invariant says what the runs check.                                 *)

LEMMA IInvImplies ==
    ASSUME IInv
    PROVE  CoreTypeOK /\ SharesBounded /\ CancelBookkeeping /\ PositionIsClean
<1>1. CoreTypeOK
  BY DEF IInv, CoreTypeOK
<1>2. SharesBounded
  BY DEF IInv, SharesBounded, OrderInv
<1>3. CancelBookkeeping
  BY DEF IInv, CancelBookkeeping, OrderInv
<1>4. PositionIsClean
  BY DEF IInv, PositionIsClean, PositionInv
<1>. QED
  BY <1>1, <1>2, <1>3, <1>4

-----------------------------------------------------------------------------
(* The handlers of one order.                                              *)

LEMMA NewOrderInv ==
    ASSUME NEW k \in Tokens, NEW d \in Side, NEW m \in Role, NEW n \in OrderSizes
    PROVE  OrderInv(NewOrder(k, d, m, n), [NoTask EXCEPT !.submit = 1])
<1>. DEFINE q == NewOrder(k, d, m, n)
            u == [NoTask EXCEPT !.submit = 1]
<1>1. q \in OrderRecord
  BY QuantityAssumption DEF NewOrder, OrderRecord, OrderStatus, ActiveStatus
<1>2. /\ q.status = "SUBMITTING" /\ q.pending = n /\ q.matched = 0 /\ q.invalid = 0
      /\ q.shares = n /\ q.should_cancel = FALSE /\ q.is_cancelling = FALSE /\ n \in Nat
  BY QuantityAssumption DEF NewOrder
<1>3. u \in TaskRecord /\ u.submit = 1 /\ u.cancel = 0
  BY DEF NoTask, TaskRecord
<1>. HIDE DEF q, u
<1>4. OrderInv(q, u)
  BY <1>1, <1>2, <1>3 DEF OrderInv, IsCanceled, CanceledStatus
<1>. QED
  BY <1>4 DEF q, u

\* What cancel() does to a record, and to the number of cancel calls.
LEMMA CancelRequestedInv ==
    ASSUME NEW r, NEW t, OrderInv(r, t), IsActive(r)
    PROVE  OrderInv(CancelRequested(r),
                    [t EXCEPT !.cancel = IF CancelStarts(r) THEN @ + 1 ELSE @])
<1>. DEFINE q == CancelRequested(r)
            u == [t EXCEPT !.cancel = IF CancelStarts(r) THEN @ + 1 ELSE @]
<1>1. r \in OrderRecord /\ t \in TaskRecord
  BY DEF OrderInv
<1>2. /\ q.status = r.status /\ q.pending = r.pending /\ q.matched = r.matched
      /\ q.invalid = r.invalid /\ q.shares = r.shares
  BY <1>1 DEF CancelRequested, OrderRecord
<1>3. u.submit = t.submit /\ u.sync = t.sync
  BY <1>1 DEF TaskRecord
<1>4. CASE r.status = "SUBMITTING"
  <2>1. ~CancelStarts(r)
    BY <1>4 DEF CancelStarts
  <2>2. q = [r EXCEPT !.should_cancel = TRUE] /\ u = t
    BY <1>1, <1>4, <2>1 DEF CancelRequested, OrderRecord, TaskRecord
  <2>3. q \in OrderRecord /\ q.should_cancel = TRUE /\ q.is_cancelling = r.is_cancelling
    BY <1>1, <2>2 DEF OrderRecord
  <2>. HIDE DEF q, u
  <2>4. OrderInv(q, u)
    BY <1>2, <1>4, <2>2, <2>3 DEF OrderInv, IsCanceled, CanceledStatus
  <2>. QED
    BY <2>4 DEF q, u
<1>5. CASE r.status # "SUBMITTING" /\ ~CancelStarts(r)
  <2>1. q = r /\ u = t
    BY <1>1, <1>5 DEF CancelRequested, OrderRecord, TaskRecord
  <2>. QED
    BY <2>1
<1>6. CASE CancelStarts(r)
  <2>1. /\ ~r.is_cancelling /\ ~r.should_cancel /\ r.status \in ActiveStatus
        /\ r.status # "SUBMITTING"
    BY <1>6 DEF CancelStarts, IsActive
  <2>2. q = [r EXCEPT !.is_cancelling = TRUE]
    BY <1>1, <1>6, <2>1 DEF CancelRequested, OrderRecord
  <2>3. q \in OrderRecord /\ q.should_cancel = FALSE /\ q.is_cancelling = TRUE
    BY <1>1, <2>1, <2>2 DEF OrderRecord
  <2>4. u \in TaskRecord /\ u.cancel = 1
    BY <1>1, <1>6, <2>1 DEF OrderInv, TaskRecord
  <2>. HIDE DEF q, u
  <2>5. OrderInv(q, u)
    BY <1>2, <1>3, <2>1, <2>3, <2>4
       DEF OrderInv, IsCanceled, CanceledStatus, ActiveStatus
  <2>. QED
    BY <2>5 DEF q, u
<1>. QED
  BY <1>4, <1>5, <1>6

\* A successful submit call leaves an order that is ZERO_MATCHED and whose
\* call is done; a deferred cancel is then requested like any other.
LEMMA SubmittedInv ==
    ASSUME NEW r, NEW t, OrderInv(r, t), t.submit > 0, NEW n \in Nat
    PROVE  LET q == Submitted(r)
               s == [q EXCEPT !.should_cancel = FALSE]
           IN  OrderInv(IF q.should_cancel THEN CancelRequested(s) ELSE q,
                        [t EXCEPT !.submit = @ - 1, !.sync = @ + n,
                                  !.cancel = IF q.should_cancel /\ CancelStarts(s)
                                             THEN @ + 1 ELSE @])
<1>. DEFINE q == Submitted(r)
            s == [q EXCEPT !.should_cancel = FALSE]
            u == [t EXCEPT !.submit = @ - 1, !.sync = @ + n]
            v == [t EXCEPT !.submit = @ - 1, !.sync = @ + n,
                           !.cancel = IF q.should_cancel /\ CancelStarts(s) THEN @ + 1 ELSE @]
<1>1. r \in OrderRecord /\ t \in TaskRecord
  BY DEF OrderInv
<1>2. /\ s \in OrderRecord /\ s.status = "ZERO_MATCHED" /\ s.should_cancel = FALSE
      /\ s.pending = r.pending /\ s.matched = r.matched /\ s.invalid = r.invalid
      /\ s.shares = r.shares /\ s.is_cancelling = r.is_cancelling
  BY <1>1 DEF Submitted, OrderRecord, OrderStatus, ActiveStatus
<1>3. q.should_cancel = r.should_cancel
  BY <1>1 DEF Submitted, OrderRecord
<1>4. u \in TaskRecord /\ u.submit = 0 /\ u.cancel = t.cancel
  <2>1. t.submit = 1
    BY DEF OrderInv
  <2>2. t.submit - 1 \in Nat /\ t.sync + n \in Nat
    BY <1>1, <2>1 DEF TaskRecord
  <2>3. u \in TaskRecord /\ u.submit = t.submit - 1 /\ u.cancel = t.cancel
    <3>. DEFINE a == t.submit - 1
                b == t.sync + n
    <3>1. a \in Nat /\ b \in Nat
      BY <2>2
    <3>. HIDE DEF a, b
    <3>2. LET w == [t EXCEPT !.submit = a, !.sync = b]
          IN  w \in TaskRecord /\ w.submit = a /\ w.cancel = t.cancel
      BY <1>1, <3>1 DEF TaskRecord
    <3>. QED
      BY <3>2 DEF a, b
  <2>. HIDE DEF u
  <2>. QED
    BY <2>1, <2>3
<1>5. OrderInv(s, u) /\ IsActive(s)
  <2>. HIDE DEF s, u
  <2>. QED
    BY <1>1, <1>2, <1>4
       DEF OrderInv, OrderRecord, IsCanceled, CanceledStatus, IsActive, ActiveStatus
<1>6. CASE r.should_cancel
  <2>1. v = [u EXCEPT !.cancel = IF CancelStarts(s) THEN @ + 1 ELSE @]
    BY <1>1, <1>3, <1>6 DEF TaskRecord
  <2>2. OrderInv(CancelRequested(s), v)
    <3>. HIDE DEF s, u, v
    <3>. QED
      BY <1>5, <2>1, CancelRequestedInv
  <2>. QED
    BY <1>3, <1>6, <2>2
<1>7. CASE ~r.should_cancel
  <2>1. v = u
    BY <1>1, <1>3, <1>7 DEF TaskRecord
  <2>2. q = s
    BY <1>1, <1>3, <1>7 DEF Submitted, OrderRecord
  <2>. QED
    BY <1>3, <1>5, <1>7, <2>1, <2>2
<1>. QED
  BY <1>6, <1>7

LEMMA SubmitRefusedInv ==
    ASSUME NEW r, NEW t, OrderInv(r, t), t.submit > 0
    PROVE  OrderInv(SubmitRefused(r), [t EXCEPT !.submit = @ - 1])
<1>. DEFINE q == SubmitRefused(r)
            u == [t EXCEPT !.submit = @ - 1]
<1>1. r \in OrderRecord /\ t \in TaskRecord
  BY DEF OrderInv
<1>2. q \in OrderRecord
  BY <1>1 DEF OrderRecord, SubmitRefused, OrderStatus, CanceledStatus
<1>3. /\ q.pending = 0 /\ q.invalid = r.pending
      /\ q.matched = r.matched /\ q.shares = r.shares
      /\ q.should_cancel = FALSE /\ q.is_cancelling = r.is_cancelling
  BY <1>1 DEF OrderRecord, SubmitRefused
<1>4. q.status \in {"ZERO_MATCHED_CANCELED", "SUB_FAILED"}
  BY <1>1 DEF OrderRecord, SubmitRefused
<1>5. u \in TaskRecord /\ u.submit = 0 /\ u.cancel = t.cancel
  BY DEF OrderInv, TaskRecord
<1>. HIDE DEF q, u
<1>6. OrderInv(q, u)
  BY <1>1, <1>2, <1>3, <1>4, <1>5 DEF OrderInv, OrderRecord, IsCanceled, CanceledStatus
<1>. QED
  BY <1>6 DEF q, u

LEMMA CancelDoneInv ==
    ASSUME NEW r, NEW t, OrderInv(r, t), t.cancel > 0
    PROVE  OrderInv(CancelDone(r), [t EXCEPT !.cancel = @ - 1])
<1>. DEFINE q == CancelDone(r)
            u == [t EXCEPT !.cancel = @ - 1]
<1>1. r \in OrderRecord /\ t \in TaskRecord
  BY DEF OrderInv
<1>2. q \in OrderRecord
  BY <1>1 DEF OrderRecord, CancelDone, OrderStatus, CanceledStatus
<1>3. /\ q.pending = 0 /\ q.invalid = r.pending
      /\ q.matched = r.matched /\ q.shares = r.shares
      /\ q.should_cancel = r.should_cancel /\ q.is_cancelling = FALSE
      /\ q.status = IF r.matched = 0 THEN "ZERO_MATCHED_CANCELED" ELSE "PART_MATCHED_CANCELED"
  BY <1>1 DEF OrderRecord, CancelDone
<1>4. /\ u \in TaskRecord /\ u.submit = t.submit /\ u.cancel = 0
      /\ ~r.should_cancel
  BY DEF OrderInv, TaskRecord
<1>. HIDE DEF q, u
<1>5. OrderInv(q, u)
  BY <1>1, <1>2, <1>3, <1>4 DEF OrderInv, OrderRecord, IsCanceled, CanceledStatus
<1>. QED
  BY <1>5 DEF q, u

LEMMA CancelFailedInv ==
    ASSUME NEW r, NEW t, OrderInv(r, t), t.cancel > 0, NEW over \in BOOLEAN
    PROVE  OrderInv([r EXCEPT !.is_cancelling = FALSE],
                    [t EXCEPT !.cancel = @ - 1, !.sync = IF over THEN @ + 1 ELSE @])
<1>. DEFINE q == [r EXCEPT !.is_cancelling = FALSE]
            n == IF over THEN t.sync + 1 ELSE t.sync
            u == [t EXCEPT !.cancel = @ - 1, !.sync = IF over THEN @ + 1 ELSE @]
<1>1. r \in OrderRecord /\ t \in TaskRecord
  BY DEF OrderInv
<1>2. q \in OrderRecord
  BY <1>1 DEF OrderRecord
<1>3. /\ q.status = r.status /\ q.pending = r.pending /\ q.invalid = r.invalid
      /\ q.matched = r.matched /\ q.shares = r.shares
      /\ q.should_cancel = r.should_cancel /\ q.is_cancelling = FALSE
  BY <1>1 DEF OrderRecord
<1>4. /\ u \in TaskRecord /\ u.submit = t.submit /\ u.cancel = 0
      /\ r.is_cancelling /\ r.status # "UNTRACKED"
  <2>1. t.cancel = 1 /\ r.is_cancelling
    BY DEF OrderInv
  <2>2. r.status # "UNTRACKED"
    BY <2>1 DEF OrderInv, NoTask
  <2>3. t.cancel - 1 \in Nat /\ n \in Nat
    BY <1>1, <2>1 DEF TaskRecord
  <2>4. u \in TaskRecord /\ u.submit = t.submit /\ u.cancel = t.cancel - 1
    <3>. DEFINE a == t.cancel - 1
                b == n
    <3>1. a \in Nat /\ b \in Nat
      BY <2>3
    <3>. HIDE DEF a, b
    <3>2. LET w == [t EXCEPT !.cancel = a, !.sync = b]
          IN  w \in TaskRecord /\ w.submit = t.submit /\ w.cancel = a
      BY <1>1, <3>1 DEF TaskRecord
    <3>. QED
      BY <3>2 DEF a, b
  <2>. HIDE DEF u
  <2>. QED
    BY <2>1, <2>2, <2>4
<1>. HIDE DEF q, u
<1>5. OrderInv(q, u)
  BY <1>1, <1>2, <1>3, <1>4 DEF OrderInv, IsCanceled
<1>. QED
  BY <1>5 DEF q, u

LEMMA SyncEndsInv ==
    ASSUME NEW r, NEW t, OrderInv(r, t), t.sync > 0
    PROVE  OrderInv(r, [t EXCEPT !.sync = @ - 1])
<1>. DEFINE u == [t EXCEPT !.sync = @ - 1]
<1>1. u \in TaskRecord /\ u.submit = t.submit /\ u.cancel = t.cancel /\ r.status # "UNTRACKED"
  BY DEF OrderInv, TaskRecord, NoTask
<1>. HIDE DEF u
<1>2. OrderInv(r, u)
  BY <1>1 DEF OrderInv
<1>. QED
  BY <1>2 DEF u

LEMMA ClosedInv ==
    ASSUME NEW r, NEW t, OrderInv(r, t), r.status # "UNTRACKED",
           NEW e, e.matched \in Nat, e.matched <= r.shares
    PROVE  OrderInv(Closed(r, e), t)
<1>. DEFINE q == Closed(r, e)
            m == Larger(r.matched, e.matched)
<1>1. r \in OrderRecord /\ t \in TaskRecord
  BY DEF OrderInv
<1>2. m \in Nat /\ m <= r.shares
  BY <1>1 DEF OrderInv, OrderRecord, Larger
<1>3. /\ q.pending = 0 /\ q.matched = m /\ q.shares = r.shares /\ q.invalid = r.shares - m
      /\ q.should_cancel = r.should_cancel /\ q.is_cancelling = r.is_cancelling
      /\ q.status = IF m = 0 THEN "ZERO_MATCHED_CANCELED" ELSE "PART_MATCHED_CANCELED"
  <2>. HIDE DEF m
  <2>1. r.shares - m = IF r.shares > m THEN r.shares - m ELSE 0
    BY <1>1, <1>2 DEF OrderRecord
  <2>. QED
    BY <1>1, <1>2, <2>1 DEF OrderRecord, Closed, m
<1>4. q \in OrderRecord
  <2>1. (IF r.shares > m THEN r.shares - m ELSE 0) \in Nat
    BY <1>1, <1>2 DEF OrderRecord
  <2>. HIDE DEF m
  <2>. QED
    BY <1>1, <1>2, <2>1 DEF OrderRecord, Closed, OrderStatus, CanceledStatus, m
<1>. HIDE DEF q, m
<1>5. OrderInv(q, t)
  BY <1>1, <1>2, <1>3, <1>4 DEF OrderInv, OrderRecord, IsCanceled, CanceledStatus
<1>. QED
  BY <1>5 DEF q

LEMMA OpenInv ==
    ASSUME NEW r, NEW t, OrderInv(r, t), r.status # "UNTRACKED",
           NEW e, e.matched \in Nat, e.matched <= r.shares
    PROVE  OrderInv(Open(r, e), t)
<1>. DEFINE q == Open(r, e)
            m == Larger(r.matched, e.matched)
            p == Smaller(r.pending, r.shares - e.matched)
<1>1. r \in OrderRecord /\ t \in TaskRecord
  BY DEF OrderInv
<1>2. m \in Nat /\ p \in Nat /\ m + p <= r.shares
  BY <1>1 DEF OrderInv, OrderRecord, Larger, Smaller
<1>3. /\ q.pending = p /\ q.matched = m /\ q.shares = r.shares /\ q.invalid = 0
      /\ q.should_cancel = r.should_cancel /\ q.is_cancelling = r.is_cancelling
      /\ q.status = IF m = 0 THEN "ZERO_MATCHED"
                    ELSE IF IsFull(m, p, r.shares) THEN "FULL_MATCHED" ELSE "PART_MATCHED"
  BY <1>1 DEF OrderRecord, Open
<1>4. q \in OrderRecord
  BY <1>1, <1>2 DEF OrderRecord, Open, OrderStatus, ActiveStatus
<1>. HIDE DEF q, m, p
<1>5. OrderInv(q, t)
  BY <1>1, <1>2, <1>3, <1>4 DEF OrderInv, OrderRecord, IsCanceled, CanceledStatus
<1>. QED
  BY <1>5 DEF q

LEMMA AfterEventInv ==
    ASSUME NEW r, NEW t, OrderInv(r, t), r.status # "UNTRACKED",
           NEW e \in OrderEvents, e.matched <= r.shares
    PROVE  OrderInv(AfterEvent(r, e), t)
<1>1. e.matched \in Nat
  BY QuantityAssumption DEF OrderEvents
<1>. QED
  BY <1>1, ClosedInv, OpenInv DEF AfterEvent

-----------------------------------------------------------------------------
(* Positions.                                                              *)

LEMMA ProductNat == \A a, b \in Nat : a * b \in Nat
OBVIOUS

\* The cost of part of a position is part of its cost: rounding down never
\* takes out more than is there.
LEMMA CostOfBounded ==
    ASSUME NEW p, PositionInv(p), NEW s \in Nat
    PROVE  /\ CostOf(p, s) \in Int
           /\ s <= p.shares => CostOf(p, s) <= p.cost
<1>1. p.shares \in Nat /\ p.cost \in Nat
  BY DEF PositionInv, Position
<1>2. CASE p.shares <= Dust
  BY <1>1, <1>2 DEF CostOf
<1>3. CASE p.shares > Dust
  <2>. DEFINE h == p.shares
              c == p.cost
              q == (s * c) \div h
  <2>1. h \in Nat /\ h > 0 /\ c \in Nat
    BY <1>1, <1>3, QuantityAssumption
  <2>2. CostOf(p, s) = q
    BY <1>1, <1>3, QuantityAssumption DEF CostOf
  <2>. HIDE DEF h, c
  <2>3. s * c \in Nat
    BY <2>1
  <2>4. q \in Int /\ h * q <= s * c
    BY <2>1, <2>3
  <2>5. ASSUME s <= h PROVE q <= c
    <3>1. s * c <= h * c
      BY <2>1, <2>5
    <3>2. SUFFICES ASSUME q >= c + 1 PROVE FALSE
      BY <2>1, <2>4
    <3>. HIDE DEF q
    <3>3. h * q >= h * (c + 1)
      BY <2>1, <2>4, <3>2
    <3>4. h * (c + 1) = h * c + h
      BY <2>1
    <3>5. h * c \in Nat /\ h * q \in Int
      BY <2>1, <2>4
    <3>. QED
      BY <2>1, <2>3, <2>4, <3>1, <3>3, <3>4, <3>5
  <2>. QED
    BY <2>2, <2>4, <2>5 DEF h, c
<1>. QED
  BY <1>1, <1>2, <1>3, QuantityAssumption

\* Clearing dust turns any quantities into those of a clean position, as long
\* as shares that are left have a cost that is not negative.
LEMMA ClearDustInv ==
    ASSUME NEW q \in [shares : Int, cost : Int, pnl : Int], q.shares >= 0 => q.cost >= 0
    PROVE  PositionInv(ClearDust(q))
<1>1. q.shares \in Int /\ q.cost \in Int /\ q.pnl \in Int
  OBVIOUS
<1>2. CASE q.shares <= Dust
  <2>. DEFINE zero == 0
  <2>1. [q EXCEPT !.shares = zero, !.cost = zero] \in Position
    <3>1. zero \in Nat /\ zero \in Int
      OBVIOUS
    <3>. HIDE DEF zero
    <3>. QED
      BY <3>1 DEF Position
  <2>2. [q EXCEPT !.shares = 0, !.cost = 0].shares = 0
    OBVIOUS
  <2>3. [q EXCEPT !.shares = 0, !.cost = 0].cost = 0
    OBVIOUS
  <2>. QED
    BY <1>2, <2>1, <2>2, <2>3 DEF ClearDust, PositionInv
<1>3. CASE ~(q.shares <= Dust)
  <2>1. q.shares > Dust /\ q.shares \in Nat /\ q.cost >= 0
    BY <1>1, <1>3, QuantityAssumption
  <2>2. q \in Position
    BY <2>1 DEF Position
  <2>. QED
    BY <1>3, <2>1, <2>2 DEF ClearDust, PositionInv
<1>. QED
  BY <1>2, <1>3

\* A mined trade leaves a position empty or, above dust, at a cost that is
\* not negative, even when it sells more than the position holds.
LEMMA AppliedInv ==
    ASSUME NEW p, PositionInv(p), NEW side \in Side, NEW a \in Int,
           side = "BUY" => a \in Nat, NEW s \in Nat
    PROVE  PositionInv(ClearDust(ApplyConfirmedTrade(p, side, a, s)))
<1>. DEFINE c == CostOf(p, s)
            Q == [shares : Int, cost : Int, pnl : Int]
<1>0. p \in Q
  BY DEF PositionInv, Position
<1>1. /\ p.shares \in Nat /\ p.cost \in Nat /\ p.pnl \in Int
      /\ c \in Int /\ (s <= p.shares => c <= p.cost)
  BY CostOfBounded DEF PositionInv, Position
<1>. HIDE DEF c
<1>2. CASE side = "BUY"
  <2>. DEFINE x == p.shares + s
              y == p.cost + a
              q == [p EXCEPT !.shares = x, !.cost = y]
  <2>1. x \in Int /\ y \in Int /\ y >= 0
    BY <1>1, <1>2
  <2>. HIDE DEF x, y
  <2>2. q \in Q /\ q.cost = y
    BY <1>0, <2>1
  <2>3. ApplyConfirmedTrade(p, side, a, s) = q
    BY <1>2 DEF ApplyConfirmedTrade, x, y
  <2>. HIDE DEF q, Q
  <2>. QED
    BY <2>1, <2>2, <2>3, ClearDustInv DEF Q
<1>3. CASE side = "SELL"
  <2>. DEFINE x == p.shares - s
              y == p.cost - c
              z == p.pnl + a - c
              q == [p EXCEPT !.shares = x, !.cost = y, !.pnl = z]
  <2>1. x \in Int /\ y \in Int /\ z \in Int /\ (x >= 0 => y >= 0)
    BY <1>1
  <2>. HIDE DEF x, y, z
  <2>2. q \in Q /\ q.shares = x /\ q.cost = y
    BY <1>0, <2>1
  <2>3. ApplyConfirmedTrade(p, side, a, s) = q
    BY <1>3 DEF ApplyConfirmedTrade, x, y, z, c
  <2>. HIDE DEF q, Q
  <2>. QED
    BY <2>1, <2>2, <2>3, ClearDustInv DEF Q
<1>. QED
  BY <1>2, <1>3 DEF Side

\* Settlement pays out part of a position and leaves the rest clean.
LEMMA SettledInv ==
    ASSUME NEW p, PositionInv(p), NEW s \in 0..p.shares, NEW price \in Nat
    PROVE  PositionInv(ClearDust(SettledPosition(p, s, price)))
<1>. DEFINE c == CostOf(p, s)
            x == p.shares - s
            y == p.cost - c
            z == p.pnl + s * price - c
            q == [p EXCEPT !.shares = x, !.cost = y, !.pnl = z]
            Q == [shares : Int, cost : Int, pnl : Int]
<1>0. p \in Q
  BY DEF PositionInv, Position
<1>1. p.shares \in Nat /\ p.cost \in Nat /\ p.pnl \in Int
  BY DEF PositionInv, Position
<1>2. s \in Nat /\ s <= p.shares
  BY <1>1
<1>3. c \in Int /\ c <= p.cost
  BY <1>2, CostOfBounded
<1>4. s * price \in Nat
  BY <1>2, ProductNat
<1>. HIDE DEF c
<1>5. x \in Int /\ y \in Int /\ y >= 0 /\ z \in Int
  BY <1>1, <1>2, <1>3, <1>4
<1>. HIDE DEF x, y, z
<1>6. q \in Q /\ q.cost = y
  BY <1>0, <1>5
<1>7. SettledPosition(p, s, price) = q
  BY DEF SettledPosition, x, y, z, c
<1>. HIDE DEF q, Q
<1>. QED
  BY <1>5, <1>6, <1>7, ClearDustInv DEF Q

\* Settlement closes at most what is held, and nothing or more than dust.
LEMMA SettlingBounded ==
    ASSUME NEW k, PositionInv(positions[k])
    PROVE  SettlingShares(k) \in 0..positions[k].shares
<1>. DEFINE held == positions[k].shares
            committed == CurrentPosition(k).close_settling
<1>1. held \in Nat
  BY DEF PositionInv, Position
<1>2. SettlingShares(k) =
        LET free == IF committed \in 0..held THEN held - committed
                    ELSE IF committed < 0 THEN held ELSE 0
        IN  IF free <= Dust THEN 0 ELSE free
  BY DEF SettlingShares
<1>. HIDE DEF held, committed
<1>3. SettlingShares(k) \in 0..held
  BY <1>1, <1>2, QuantityAssumption
<1>. QED
  BY <1>3 DEF held

-----------------------------------------------------------------------------
(* The steps.                                                              *)

LEMMA InitIInv ==
    ASSUME Init
    PROVE  IInv
<1>1. NoOrder \in OrderRecord /\ NoTask \in TaskRecord /\ OrderInv(NoOrder, NoTask)
  <2>1. NoOrder \in OrderRecord
    BY DEF NoOrder, OrderRecord, OrderStatus, Side, Role
  <2>2. NoTask \in TaskRecord
    BY DEF NoTask, TaskRecord
  <2>. QED
    BY <2>1, <2>2 DEF OrderInv, NoOrder, NoTask, IsCanceled, CanceledStatus
<1>2. NoTrade \in TradeRecord
  BY DEF NoTrade, TradeRecord, Role
<1>3. NoPosition \in Position /\ PositionInv(NoPosition)
  BY DEF NoPosition, Position, PositionInv
<1>. QED
  BY <1>1, <1>2, <1>3 DEF Init, IInv

\* A step that replaces one order and its tasks by a pair that satisfies the
\* invariant keeps the invariant of all of them.
LEMMA OneOrderChanges ==
    ASSUME IInv, NEW o \in Orders, NEW q, NEW u, OrderInv(q, u),
           orders' = [orders EXCEPT ![o] = q], tasks' = [tasks EXCEPT ![o] = u],
           UNCHANGED <<trades, positions, settled>>
    PROVE  IInv'
<1>1. q \in OrderRecord /\ u \in TaskRecord
  BY DEF OrderInv
<1>2. orders' \in [Orders -> OrderRecord] /\ tasks' \in [Orders -> TaskRecord]
  BY <1>1 DEF IInv
<1>3. ASSUME NEW i \in Orders PROVE OrderInv(orders'[i], tasks'[i])
  BY DEF IInv
<1>. QED
  BY <1>2, <1>3 DEF IInv

LEMMA OrderStepIInv ==
    ASSUME IInv, NEW o \in Orders, OrderStep(o)
    PROVE  IInv'
<1>. DEFINE r == orders[o]
            t == tasks[o]
<1>1. OrderInv(r, t) /\ r \in OrderRecord /\ t \in TaskRecord
  BY DEF IInv
<1>2. ASSUME NEW k \in Tokens, NEW d \in Side, NEW m \in Role, NEW n \in OrderSizes,
             CreateOrder(o, k, d, m, n)
      PROVE  IInv'
  <2>. DEFINE u == [NoTask EXCEPT !.submit = 1]
  <2>1. t = NoTask
    BY <1>1, <1>2 DEF OrderInv, CreateOrder, Tracked
  <2>2. tasks' = [tasks EXCEPT ![o] = u]
    BY <1>2, <2>1 DEF CreateOrder
  <2>3. OrderInv(NewOrder(k, d, m, n), u)
    BY NewOrderInv
  <2>. HIDE DEF u
  <2>. QED
    BY <1>2, <2>2, <2>3, OneOrderChanges DEF CreateOrder
<1>3. ASSUME SubmitSuccess(o) PROVE IInv'
  <2>. DEFINE p == Submitted(r)
              s == [p EXCEPT !.should_cancel = FALSE]
              n == SyncAfterSubmit(p)
              q == IF p.should_cancel THEN CancelRequested(s) ELSE p
              u == [t EXCEPT !.submit = @ - 1, !.sync = @ + n,
                             !.cancel = IF p.should_cancel /\ CancelStarts(s)
                                        THEN @ + 1 ELSE @]
  <2>1. /\ t.submit > 0 /\ UNCHANGED <<trades, positions, settled>>
        /\ orders' = [orders EXCEPT ![o] = q] /\ tasks' = [tasks EXCEPT ![o] = u]
    <3>1. t.submit > 0 /\ UNCHANGED <<trades, positions, settled>>
      BY <1>3 DEF SubmitSuccess
    <3>2. orders' = [orders EXCEPT ![o] = q]
      BY <1>3, Zenon DEF SubmitSuccess
    <3>3. tasks' = [tasks EXCEPT ![o] = u]
      BY <1>3, Zenon DEF SubmitSuccess, SubmitCallEnds
    <3>. QED
      BY <3>1, <3>2, <3>3
  <2>2. n \in Nat
    BY DEF SyncAfterSubmit
  <2>3. OrderInv(q, u)
    <3>. HIDE DEF n, r, t
    <3>. QED
      BY <1>1, <2>1, <2>2, SubmittedInv
  <2>. HIDE DEF q, u
  <2>. QED
    BY <2>1, <2>3, OneOrderChanges
<1>4. ASSUME NEW raised \in BOOLEAN, SubmitFailed(o, raised) PROVE IInv'
  <2>. DEFINE u == [t EXCEPT !.submit = @ - 1]
  <2>1. /\ t.submit > 0 /\ UNCHANGED <<trades, positions, settled>>
        /\ orders' = [orders EXCEPT ![o] = SubmitRefused(r)]
        /\ tasks' = [tasks EXCEPT ![o] = u]
    BY <1>4 DEF SubmitFailed
  <2>2. OrderInv(SubmitRefused(r), u)
    BY <1>1, <2>1, SubmitRefusedInv
  <2>. HIDE DEF u, r, t
  <2>. QED
    BY <2>1, <2>2, OneOrderChanges
<1>5. ASSUME Cancel(o) PROVE IInv'
  <2>. DEFINE u == [t EXCEPT !.cancel = IF CancelStarts(r) THEN @ + 1 ELSE @]
  <2>1. /\ IsActive(r) /\ UNCHANGED <<trades, positions, settled>>
        /\ orders' = [orders EXCEPT ![o] = CancelRequested(r)]
        /\ tasks' = [tasks EXCEPT ![o] = u]
    BY <1>5 DEF Cancel
  <2>2. OrderInv(CancelRequested(r), u)
    BY <1>1, <2>1, CancelRequestedInv
  <2>. HIDE DEF u, r, t
  <2>. QED
    BY <2>1, <2>2, OneOrderChanges
<1>6. ASSUME CancelSuccess(o) PROVE IInv'
  <2>. DEFINE u == [t EXCEPT !.cancel = @ - 1]
  <2>1. /\ t.cancel > 0 /\ UNCHANGED <<trades, positions, settled>>
        /\ orders' = [orders EXCEPT ![o] = CancelDone(r)]
        /\ tasks' = [tasks EXCEPT ![o] = u]
    BY <1>6 DEF CancelSuccess
  <2>2. OrderInv(CancelDone(r), u)
    BY <1>1, <2>1, CancelDoneInv
  <2>. HIDE DEF u, r, t
  <2>. QED
    BY <2>1, <2>2, OneOrderChanges
<1>7. ASSUME NEW over \in BOOLEAN, NEW raised \in BOOLEAN, CancelFailed(o, over, raised)
      PROVE  IInv'
  <2>. DEFINE q == [r EXCEPT !.is_cancelling = FALSE]
              u == [t EXCEPT !.cancel = @ - 1, !.sync = IF over THEN @ + 1 ELSE @]
  <2>1. /\ t.cancel > 0 /\ UNCHANGED <<trades, positions, settled>>
        /\ orders' = [orders EXCEPT ![o] = q]
        /\ tasks' = [tasks EXCEPT ![o] = u]
    <3>1. t.cancel > 0 /\ UNCHANGED <<trades, positions, settled>>
      BY <1>7 DEF CancelFailed
    <3>2. orders' = [orders EXCEPT ![o] = q]
      BY <1>7, Zenon DEF CancelFailed
    <3>3. tasks' = [tasks EXCEPT ![o] = u]
      BY <1>7, Zenon DEF CancelFailed, CancelCallEnds
    <3>. QED
      BY <3>1, <3>2, <3>3
  <2>2. OrderInv(q, u)
    BY <1>1, <2>1, CancelFailedInv
  <2>. HIDE DEF q, u, r, t
  <2>. QED
    BY <2>1, <2>2, OneOrderChanges
<1>8. ASSUME SyncFails(o) PROVE IInv'
  <2>. DEFINE u == [t EXCEPT !.sync = @ - 1]
  <2>1. /\ t.sync > 0 /\ UNCHANGED <<orders, trades, positions, settled>>
        /\ tasks' = [tasks EXCEPT ![o] = u]
    BY <1>8 DEF SyncFails
  <2>2. OrderInv(r, u)
    BY <1>1, <2>1, SyncEndsInv
  <2>3. orders' = [orders EXCEPT ![o] = r]
    BY <2>1 DEF IInv
  <2>. HIDE DEF u, r, t
  <2>. QED
    BY <2>1, <2>2, <2>3, OneOrderChanges
<1>. QED
  BY <1>2, <1>3, <1>4, <1>5, <1>6, <1>7, <1>8 DEF OrderStep

LEMMA OrderEventIInv ==
    ASSUME IInv, NEW e \in OrderEvents, HandleOrderEvent(e)
    PROVE  IInv'
<1>. DEFINE o == e.order
            r == orders[o]
            t == tasks[o]
<1>1. /\ o \in Orders /\ OrderInv(r, t) /\ r.status # "UNTRACKED" /\ e.matched <= r.shares
      /\ orders' = [orders EXCEPT ![o] = AfterEvent(r, e)]
      /\ UNCHANGED <<trades, positions, tasks, settled>>
  BY DEF IInv, OrderEvents, HandleOrderEvent, Reportable, Accepted, Tracked
<1>2. OrderInv(AfterEvent(r, e), t)
  BY <1>1, AfterEventInv
<1>3. tasks' = [tasks EXCEPT ![o] = t]
  BY <1>1 DEF IInv
<1>. HIDE DEF o, r, t
<1>. QED
  BY <1>1, <1>2, <1>3, OneOrderChanges

LEMMA SyncReturnsIInv ==
    ASSUME IInv, NEW e \in OrderEvents, SyncReturns(e)
    PROVE  IInv'
<1>. DEFINE o == e.order
            r == orders[o]
            t == tasks[o]
            u == [t EXCEPT !.sync = @ - 1]
<1>1. /\ o \in Orders /\ OrderInv(r, t) /\ t.sync > 0 /\ e.matched <= r.shares
      /\ UNCHANGED <<trades, positions, settled>>
  BY DEF IInv, OrderEvents, SyncReturns, Reportable
<1>2. orders' = [orders EXCEPT ![o] = AfterEvent(r, e)]
  BY DEF SyncReturns
<1>3. tasks' = [tasks EXCEPT ![o] = u]
  BY DEF SyncReturns
<1>4. OrderInv(r, u)
  BY <1>1, SyncEndsInv
<1>5. r.status # "UNTRACKED"
  BY <1>1 DEF OrderInv, NoTask
<1>6. OrderInv(AfterEvent(r, e), u)
  <2>. HIDE DEF r, u
  <2>. QED
    BY <1>1, <1>4, <1>5, AfterEventInv
<1>. HIDE DEF o, r, t, u
<1>. QED
  BY <1>1, <1>2, <1>3, <1>6, OneOrderChanges

LEMMA TradeEventIInv ==
    ASSUME IInv, NEW e \in TradeEvents, HandleTradeEvent(e)
    PROVE  IInv'
<1>. DEFINE side == orders[e.order].side
            p == positions[e.token]
            a == CashAmount(e, side)
            q == ClearDust(ApplyConfirmedTrade(p, side, a, e.shares))
<1>1. /\ e.order \in Orders /\ e.token \in Tokens /\ e.trade \in Trades
      /\ e.shares \in Nat /\ e.price \in Nat /\ e.role \in Role
  BY QuantityAssumption DEF TradeEvents
<1>2. side \in Side
  BY <1>1 DEF IInv, OrderRecord
<1>3. a \in Int /\ (side = "BUY" => a \in Nat)
  <2>1. e.shares * e.price \in Nat /\ FeeAmount(e) \in Nat
    BY <1>1, ProductNat, QuantityAssumption DEF FeeAmount
  <2>. QED
    BY <2>1 DEF CashAmount
<1>4. PositionInv(q)
  <2>. HIDE DEF p, a, side
  <2>1. PositionInv(p)
    BY <1>1 DEF IInv, p
  <2>. QED
    BY <1>1, <1>2, <1>3, <2>1, AppliedInv
<1>5. UNCHANGED <<orders, tasks, settled>>
  BY DEF HandleTradeEvent
<1>6. trades' \in [Trades -> TradeRecord]
  <2>1. [status |-> TradeStatus(e), order |-> e.order, shares |-> e.shares,
         price |-> e.price, role |-> e.role] \in TradeRecord
    BY <1>1 DEF TradeStatus, TradeRecord
  <2>. QED
    BY <1>1, <2>1 DEF HandleTradeEvent, IInv
<1>7. positions' = [positions EXCEPT ![e.token] = q] \/ positions' = positions
  BY Zenon DEF HandleTradeEvent
<1>8. ASSUME NEW k \in Tokens PROVE PositionInv(positions'[k])
  <2>. HIDE DEF q
  <2>. QED
    BY <1>1, <1>4, <1>7 DEF IInv
<1>9. positions' \in [Tokens -> Position]
  <2>. HIDE DEF q
  <2>. QED
    BY <1>1, <1>4, <1>7 DEF IInv, PositionInv
<1>. QED
  BY <1>5, <1>6, <1>8, <1>9 DEF IInv

LEMMA SettleMarketIInv ==
    ASSUME IInv, NEW winner \in Tokens, SettleMarket(winner)
    PROVE  IInv'
<1>. DEFINE s(k) == SettlingShares(k)
            after(k) == SettledPosition(positions[k], s(k), PayoutPrice(k, winner))
            q(k) == IF s(k) = 0 THEN positions[k] ELSE ClearDust(after(k))
<1>1. positions' = [k \in Tokens |-> q(k)]
  BY Zenon DEF SettleMarket
<1>2. UNCHANGED <<orders, trades, tasks>> /\ settled' = TRUE
  BY DEF SettleMarket
<1>3. ASSUME NEW k \in Tokens PROVE PositionInv(q(k))
  <2>1. PositionInv(positions[k])
    BY DEF IInv
  <2>2. s(k) \in 0..positions[k].shares
    BY <2>1, SettlingBounded
  <2>3. PayoutPrice(k, winner) \in Nat
    BY QuantityAssumption DEF PayoutPrice
  <2>4. PositionInv(ClearDust(after(k)))
    <3>. HIDE DEF s
    <3>. QED
      BY <2>1, <2>2, <2>3, SettledInv
  <2>. HIDE DEF s, after
  <2>. QED
    BY <2>1, <2>4
<1>. HIDE DEF q
<1>4. \A k \in Tokens : positions'[k] = q(k)
  BY <1>1
<1>5. positions' \in [Tokens -> Position]
  BY <1>1, <1>3 DEF PositionInv
<1>. QED
  BY <1>2, <1>3, <1>4, <1>5 DEF IInv

LEMMA StepIInv ==
    ASSUME IInv, [Next]_vars
    PROVE  IInv'
<1>1. CASE Next
  BY <1>1, OrderStepIInv, OrderEventIInv, SyncReturnsIInv, TradeEventIInv, SettleMarketIInv
     DEF Next
<1>2. CASE UNCHANGED vars
  BY <1>2 DEF vars, IInv
<1>. QED
  BY <1>1, <1>2

-----------------------------------------------------------------------------
(* What one step may do to one order.                                      *)

\* The record that a successful submit call leaves.
AfterSubmit(r) ==
    LET q == Submitted(r)
    IN  IF q.should_cancel THEN CancelRequested([q EXCEPT !.should_cancel = FALSE]) ELSE q

\* The ways in which a step may replace the record r of an order with tasks t.
OrderChange(r, t, q) ==
    \/ q = r
    \/ /\ r.status = "UNTRACKED"
       /\ \E k \in Tokens, d \in Side, m \in Role, n \in OrderSizes : q = NewOrder(k, d, m, n)
    \/ t.submit > 0 /\ (q = AfterSubmit(r) \/ q = SubmitRefused(r))
    \/ IsActive(r) /\ q = CancelRequested(r)
    \/ t.cancel > 0 /\ (q = CancelDone(r) \/ q = [r EXCEPT !.is_cancelling = FALSE])
    \/ \E e \in OrderEvents :
          r.status # "UNTRACKED" /\ e.matched <= r.shares /\ q = AfterEvent(r, e)

LEMMA StepChangesOrder ==
    ASSUME IInv, [Next]_vars, NEW o \in Orders
    PROVE  OrderChange(orders[o], tasks[o], orders'[o])
<1>1. ASSUME NEW i \in Orders, NEW k \in Tokens, NEW d \in Side, NEW m \in Role,
             NEW n \in OrderSizes, CreateOrder(i, k, d, m, n)
      PROVE  OrderChange(orders[o], tasks[o], orders'[o])
  BY <1>1 DEF CreateOrder, Tracked, OrderChange, IInv
<1>2. ASSUME NEW i \in Orders, SubmitSuccess(i)
      PROVE  OrderChange(orders[o], tasks[o], orders'[o])
  <2>1. tasks[i].submit > 0
    BY <1>2 DEF SubmitSuccess
  <2>2. orders' = [orders EXCEPT ![i] = AfterSubmit(orders[i])]
    BY <1>2, Zenon DEF SubmitSuccess, AfterSubmit
  <2>. QED
    BY <2>1, <2>2 DEF OrderChange, IInv
<1>3. ASSUME NEW i \in Orders, NEW raised \in BOOLEAN, SubmitFailed(i, raised)
      PROVE  OrderChange(orders[o], tasks[o], orders'[o])
  BY <1>3 DEF SubmitFailed, OrderChange, IInv
<1>4. ASSUME NEW i \in Orders, Cancel(i)
      PROVE  OrderChange(orders[o], tasks[o], orders'[o])
  BY <1>4 DEF Cancel, OrderChange, IInv
<1>5. ASSUME NEW i \in Orders, CancelSuccess(i)
      PROVE  OrderChange(orders[o], tasks[o], orders'[o])
  BY <1>5 DEF CancelSuccess, OrderChange, IInv
<1>6. ASSUME NEW i \in Orders, NEW over \in BOOLEAN, NEW raised \in BOOLEAN,
             CancelFailed(i, over, raised)
      PROVE  OrderChange(orders[o], tasks[o], orders'[o])
  <2>1. tasks[i].cancel > 0
    BY <1>6 DEF CancelFailed
  <2>2. orders' = [orders EXCEPT ![i] = [orders[i] EXCEPT !.is_cancelling = FALSE]]
    BY <1>6, Zenon DEF CancelFailed
  <2>. QED
    BY <2>1, <2>2 DEF OrderChange, IInv
<1>7. ASSUME NEW e \in OrderEvents, HandleOrderEvent(e) \/ SyncReturns(e)
      PROVE  OrderChange(orders[o], tasks[o], orders'[o])
  <2>1. orders' = [orders EXCEPT ![e.order] = AfterEvent(orders[e.order], e)]
    BY <1>7 DEF HandleOrderEvent, SyncReturns
  <2>2. e.order \in Orders /\ e.matched <= orders[e.order].shares
    BY <1>7 DEF OrderEvents, HandleOrderEvent, SyncReturns, Reportable
  <2>3. orders[e.order].status # "UNTRACKED"
    BY <1>7, <2>2 DEF HandleOrderEvent, Accepted, Tracked, SyncReturns, IInv, OrderInv, NoTask
  <2>. QED
    BY <2>1, <2>2, <2>3 DEF OrderChange, IInv
<1>8. ASSUME orders' = orders
      PROVE  OrderChange(orders[o], tasks[o], orders'[o])
  BY <1>8 DEF OrderChange
<1>9. ASSUME NEW i \in Orders, OrderStep(i)
      PROVE  OrderChange(orders[o], tasks[o], orders'[o])
  BY <1>1, <1>2, <1>3, <1>4, <1>5, <1>6, <1>8, <1>9 DEF OrderStep, SyncFails
<1>10. CASE Next
  BY <1>7, <1>8, <1>9, <1>10 DEF Next, HandleTradeEvent, SettleMarket
<1>. QED
  BY <1>8, <1>10 DEF vars

\* Any report on a full order leaves it full, or closes it: what is matched
\* only grows and what is pending only shrinks.
LEMMA OverStaysOver ==
    ASSUME NEW r, NEW t, NEW q, OrderInv(r, t), OrderChange(r, t, q), t.submit = 0,
           IsCanceled(r) \/ r.status = "FULL_MATCHED"
    PROVE  ~IsActive(q)
<1>1. r \in OrderRecord /\ ~IsActive(r) /\ r.status # "UNTRACKED"
  BY DEF OrderInv, IsActive, IsCanceled, ActiveStatus, CanceledStatus
<1>2. CASE q = CancelDone(r)
  BY <1>1, <1>2 DEF CancelDone, OrderRecord, IsActive, ActiveStatus
<1>3. CASE q = [r EXCEPT !.is_cancelling = FALSE]
  BY <1>1, <1>3 DEF OrderRecord, IsActive
<1>4. ASSUME NEW e \in OrderEvents, e.matched <= r.shares, q = AfterEvent(r, e)
      PROVE  ~IsActive(q)
  <2>1. CASE q = Closed(r, e)
    BY <1>1, <2>1 DEF Closed, OrderRecord, IsActive, ActiveStatus
  <2>2. CASE q = Open(r, e) /\ r.status = "FULL_MATCHED"
    <3>. DEFINE m == Larger(r.matched, e.matched)
                p == Smaller(r.pending, r.shares - e.matched)
    <3>1. /\ r.matched \in Nat /\ r.pending \in Nat /\ r.shares \in Nat /\ e.matched \in Nat
          /\ r.matched > 0 /\ IsFull(r.matched, r.pending, r.shares)
      BY <2>2, QuantityAssumption DEF OrderInv, OrderRecord, OrderEvents
    <3>2. m \in Nat /\ p \in Int /\ m >= r.matched /\ p <= r.pending
      BY <3>1 DEF Larger, Smaller
    <3>3. m # 0 /\ IsFull(m, p, r.shares)
      <4>. HIDE DEF m, p
      <4>. QED
        BY <3>1, <3>2, QuantityAssumption DEF IsFull
    <3>4. q.status = "FULL_MATCHED"
      BY <1>1, <2>2, <3>3 DEF Open, OrderRecord
    <3>. QED
      BY <3>4 DEF IsActive, ActiveStatus
  <2>. QED
    BY <1>4, <2>1, <2>2 DEF AfterEvent
<1>. QED
  BY <1>1, <1>2, <1>3, <1>4 DEF OrderChange, IsActive

\* The flag of a deferred cancel is only lowered by the return of the submit
\* call, which starts the cancel call or declares the order dead.
LEMMA DeferredIsHonoured ==
    ASSUME NEW r, NEW t, NEW q, OrderInv(r, t), OrderChange(r, t, q),
           r.should_cancel, ~q.should_cancel
    PROVE  q.is_cancelling \/ IsCanceled(q)
<1>1. r \in OrderRecord /\ r.should_cancel = TRUE /\ r.is_cancelling = FALSE
      /\ r.status # "UNTRACKED"
  BY DEF OrderInv, OrderRecord, NoTask
<1>2. CASE q = AfterSubmit(r)
  <2>. DEFINE s == [Submitted(r) EXCEPT !.should_cancel = FALSE]
  <2>1. /\ Submitted(r).should_cancel = TRUE /\ s \in OrderRecord
        /\ s.status = "ZERO_MATCHED" /\ s.is_cancelling = FALSE /\ s.should_cancel = FALSE
    BY <1>1 DEF Submitted, OrderRecord, OrderStatus, ActiveStatus
  <2>2. q = CancelRequested(s)
    BY <1>2, <2>1 DEF AfterSubmit
  <2>. HIDE DEF s
  <2>3. CancelStarts(s)
    BY <2>1 DEF CancelStarts, IsActive, ActiveStatus
  <2>. QED
    BY <2>1, <2>2, <2>3 DEF CancelRequested, OrderRecord
<1>3. CASE q = SubmitRefused(r)
  BY <1>1, <1>3 DEF SubmitRefused, OrderRecord, IsCanceled, CanceledStatus
<1>4. CASE q = CancelRequested(r)
  BY <1>1, <1>4 DEF CancelRequested, OrderRecord
<1>5. CASE q = CancelDone(r) \/ q = [r EXCEPT !.is_cancelling = FALSE]
  BY <1>1, <1>5 DEF CancelDone, OrderRecord
<1>6. ASSUME NEW e \in OrderEvents, q = AfterEvent(r, e)
      PROVE  FALSE
  BY <1>1, <1>6 DEF AfterEvent, Closed, Open, OrderRecord
<1>. QED
  BY <1>1, <1>2, <1>3, <1>4, <1>5, <1>6 DEF OrderChange

-----------------------------------------------------------------------------
(* The theorems.                                                           *)

\* The inductive invariant holds in every reachable state.
THEOREM Invariance == Spec => []IInv
<1>1. Init => IInv
  BY InitIInv
<1>2. IInv /\ [Next]_vars => IInv'
  BY StepIInv
<1>. QED
  BY <1>1, <1>2, PTL DEF Spec

\* Every record of the manager keeps its type: no handler leaves a negative
\* quantity or holds a negative position (manager.py:28-140, 210-599).
THEOREM CoreTypeCorrect == Spec => []CoreTypeOK
<1>1. IInv => CoreTypeOK
  BY IInvImplies
<1>. QED
  BY <1>1, Invariance, PTL

\* Matched, pending and invalid shares never exceed what was asked for
\* (manager.py:304-466).
THEOREM SharesCorrect == Spec => []SharesBounded
<1>1. IInv => SharesBounded
  BY IInvImplies
<1>. QED
  BY <1>1, Invariance, PTL

\* No order ever has two cancel calls in flight, and a deferred cancel always
\* has a submit call that will take it up (manager.py:279-402).
THEOREM CancelCorrect == Spec => []CancelBookkeeping
<1>1. IInv => CancelBookkeeping
  BY IInvImplies
<1>. QED
  BY <1>1, Invariance, PTL

\* A position is empty or more than dust at a cost that is not negative,
\* after any trades and any settlement (manager.py:189-205, 580-599).
THEOREM PositionCorrect == Spec => []PositionIsClean
<1>1. IInv => PositionIsClean
  BY IInvImplies
<1>. QED
  BY <1>1, Invariance, PTL

\* An order that is over, and whose submit call has returned, is never offered
\* to the engine as an active one again (manager.py:279-466).
THEOREM OverIsOver == Spec => NoResurrection
<1>. DEFINE A == \A o \in Orders :
                   /\ tasks[o].submit = 0
                   /\ IsCanceled(orders[o]) \/ orders[o].status = "FULL_MATCHED"
                   => ~IsActive(orders'[o])
<1>1. IInv /\ [Next]_vars => A
  BY StepChangesOrder, OverStaysOver DEF IInv
<1>. QED
  BY <1>1, Invariance, PTL DEF Spec, NoResurrection

\* A cancel deferred while the order was being submitted is either started or
\* made void by the order's death, never forgotten (manager.py:295-341).
THEOREM DeferredCancelCorrect == Spec => DeferredCancelHonoured
<1>. DEFINE A == \A o \in Orders :
                   orders[o].should_cancel /\ ~orders'[o].should_cancel =>
                       orders'[o].is_cancelling \/ IsCanceled(orders'[o])
<1>1. IInv /\ [Next]_vars => A
  BY StepChangesOrder, DeferredIsHonoured DEF IInv
<1>. QED
  BY <1>1, Invariance, PTL DEF Spec, DeferredCancelHonoured

\* Repeated MINED and CONFIRMED reports of a trade move a position once
\* (manager.py:477-578).
THEOREM TradesApplyOnce == Spec => TradeAppliedOnce
<1>. DEFINE A == \A k \in Tokens :
                   positions'[k] # positions[k] =>
                     \/ settled' # settled
                     \/ \E t \in Trades : /\ trades[t].status # "SUCCESS"
                                          /\ trades'[t].status = "SUCCESS"
                                          /\ orders[trades'[t].order].token = k
<1>1. ASSUME IInv, NEW e \in TradeEvents, HandleTradeEvent(e)
      PROVE  A
  <2>1. e.trade \in Trades /\ e.token = orders[e.order].token
    BY <1>1 DEF TradeEvents, HandleTradeEvent, Accepted
  <2>2. CASE BecomesSuccess(e)
    <3>1. trades[e.trade].status # "SUCCESS" /\ TradeStatus(e) = "SUCCESS"
      BY <2>2 DEF BecomesSuccess
    <3>2. /\ trades'[e.trade].status = "SUCCESS"
          /\ trades'[e.trade].order = e.order
      BY <1>1, <2>1, <3>1 DEF HandleTradeEvent, IInv
    <3>3. \A k \in Tokens : k # e.token => positions'[k] = positions[k]
      BY <1>1, <2>2 DEF HandleTradeEvent, IInv
    <3>. QED
      BY <2>1, <3>1, <3>2, <3>3
  <2>3. CASE ~BecomesSuccess(e)
    BY <1>1, <2>3 DEF HandleTradeEvent
  <2>. QED
    BY <2>2, <2>3
<1>2. ASSUME NEW winner \in Tokens, SettleMarket(winner)
      PROVE  settled' # settled
  BY <1>2 DEF SettleMarket
<1>3. ASSUME NEW e \in OrderEvents, HandleOrderEvent(e) \/ SyncReturns(e)
      PROVE  positions' = positions
  BY <1>3 DEF HandleOrderEvent, SyncReturns
<1>4. ASSUME NEW o \in Orders, OrderStep(o)
      PROVE  positions' = positions
  BY <1>4 DEF OrderStep, CreateOrder, SubmitSuccess, SubmitFailed, Cancel, CancelSuccess,
              CancelFailed, SyncFails
<1>5. IInv /\ [Next]_vars => A
  <2>1. CASE UNCHANGED vars
    BY <2>1 DEF vars
  <2>. HIDE DEF A
  <2>2. (settled' # settled \/ positions' = positions) => A
    BY DEF A
  <2>. QED
    BY <1>1, <1>2, <1>3, <1>4, <2>1, <2>2 DEF Next, vars, A
<1>. QED
  BY <1>5, Invariance, PTL DEF Spec, TradeAppliedOnce

-----------------------------------------------------------------------------
(* What the books of the order manager add up to.                          *)

Books == [shares : Int, cash : Int]

\* Settled shares of every order.
MinedShares == [o \in Orders |-> OnChain(o, "SUCCESS")]

\* Its pending shares, and those that are settling.
PendingShares == [o \in Orders |-> orders[o].pending]
OpenShares == [o \in Orders |-> Settling(o)]

TrackedOrders == {o \in Orders : Tracked(o)}
TrackedTrades == {t \in Trades : trades[t].status # "UNTRACKED"}

\* Who may be summed over: finitely many ids are tracked, a token is the
\* token of tracked orders only, and no trade is tracked before its order.
TrackingInv ==
    /\ IsFiniteSet(TrackedOrders) /\ IsFiniteSet(TrackedTrades)
    /\ \A o \in Orders : orders[o].token \in Tokens <=> Tracked(o)
    /\ \A t \in TrackedTrades : trades[t].order \in TrackedOrders

\* What was bought and not sold is held, or was taken out by a settlement.
SharesLedger ==
    \A k \in Tokens :
        positions[k].shares + closed[k].shares =
            SumOf(MinedShares, OrdersOf(k, "BUY")) - SumOf(MinedShares, OrdersOf(k, "SELL"))

LedgerInv ==
    /\ IInv /\ TrackingInv
    /\ closed \in [Tokens -> Books]
    /\ SharesLedger /\ CashLedger

-----------------------------------------------------------------------------
(* The sums are sums of integers over finite sets.                         *)

OnChainTrades(o, status) == {t \in Trades : trades[t].order = o /\ trades[t].status = status}

LEMMA OnChainInt ==
    ASSUME IInv, TrackingInv, NEW o \in Orders, NEW status, status # "UNTRACKED"
    PROVE  IsFiniteSet(OnChainTrades(o, status)) /\ OnChain(o, status) \in Int
<1>. DEFINE f == [t \in Trades |-> trades[t].shares]
            S == OnChainTrades(o, status)
<1>1. S \subseteq TrackedTrades
  BY DEF OnChainTrades, TrackedTrades
<1>2. \A t \in S : f[t] \in Int
  BY DEF OnChainTrades, IInv, TradeRecord
<1>3. OnChain(o, status) = SumOf(f, S)
  BY DEF OnChain, OnChainTrades
<1>4. IsFiniteSet(S)
  BY <1>1, FS_Subset DEF TrackingInv
<1>. HIDE DEF f, S
<1>5. SumOf(f, S) \in Int
  BY <1>2, <1>4, SumInt
<1>. QED
  BY <1>3, <1>4, <1>5 DEF S

LEMMA OrdersOfFinite ==
    ASSUME TrackingInv, NEW k \in Tokens, NEW side
    PROVE  IsFiniteSet(OrdersOf(k, side)) /\ OrdersOf(k, side) \subseteq TrackedOrders
<1>1. OrdersOf(k, side) \subseteq TrackedOrders
  BY DEF OrdersOf, TrackedOrders, TrackingInv
<1>. QED
  BY <1>1, FS_Subset DEF TrackingInv

LEMMA MinedFinite ==
    ASSUME TrackingInv, NEW k, NEW side
    PROVE  IsFiniteSet(Mined(k, side))
<1>1. Mined(k, side) \subseteq TrackedTrades
  BY DEF Mined, TrackedTrades
<1>. QED
  BY <1>1, FS_Subset DEF TrackingInv

LEMMA MoneyInt ==
    ASSUME IInv, TrackingInv, NEW k, NEW side
    PROVE  /\ \A t \in Trades : Gross[t] \in Int /\ TakerFee[t] \in Int
           /\ SumOf(Gross, Mined(k, side)) \in Int /\ SumOf(TakerFee, Mined(k, side)) \in Int
<1>1. ASSUME NEW t \in Trades
      PROVE  Gross[t] \in Int /\ TakerFee[t] \in Int
  <2>1. trades[t].shares \in Nat /\ trades[t].price \in Nat
    BY DEF IInv, TradeRecord
  <2>2. trades[t].shares * trades[t].price \in Nat /\ trades[t].shares * FeePrice \in Nat
    BY <2>1, ProductNat, QuantityAssumption
  <2>. QED
    BY <2>2 DEF Gross, TakerFee
<1>2. IsFiniteSet(Mined(k, side))
  BY MinedFinite
<1>3. Mined(k, side) \subseteq Trades
  BY DEF Mined
<1>. QED
  BY <1>1, <1>2, <1>3, SumInt

\* Of every order's matched shares, what has not settled and has not failed
\* is settling: the sums over the orders of a token agree.
LEMMA CommittedSum ==
    ASSUME IInv, TrackingInv, NEW k \in Tokens, NEW side \in Side
    PROVE  /\ SumOf(PendingShares, OrdersOf(k, side)) \in Int
           /\ SumOf(OpenShares, OrdersOf(k, side)) \in Int
           /\ SumOf(MinedShares, OrdersOf(k, side)) \in Int
           /\ SumOf(Committed, OrdersOf(k, side)) =
                  SumOf(PendingShares, OrdersOf(k, side)) + SumOf(OpenShares, OrdersOf(k, side))
                    + SumOf(MinedShares, OrdersOf(k, side))
<1>. DEFINE S == OrdersOf(k, side)
            f == PendingShares
            g == OpenShares
            fg == [o \in Orders |-> orders[o].pending + Settling(o)]
<1>1. IsFiniteSet(S) /\ S \subseteq Orders
  BY OrdersOfFinite DEF OrdersOf
<1>2. ASSUME NEW o \in S
      PROVE  /\ f[o] \in Int /\ g[o] \in Int /\ MinedShares[o] \in Int
             /\ fg[o] = f[o] + g[o] /\ Committed[o] = fg[o] + MinedShares[o]
  <2>1. o \in Orders
    BY <1>1
  <2>2. OnChain(o, "SUCCESS") \in Int /\ OnChain(o, "FAILURE") \in Int
    BY <2>1, OnChainInt
  <2>3. orders[o].pending \in Int /\ orders[o].matched \in Int
    BY <2>1 DEF IInv, OrderRecord
  <2>. QED
    BY <2>1, <2>2, <2>3 DEF Settling, MinedShares, Committed, PendingShares, OpenShares
<1>. HIDE DEF S, f, g, fg
<1>4. \A o \in S : fg[o] \in Int
  BY <1>2
<1>5. SumOf(fg, S) = SumOf(f, S) + SumOf(g, S)
  BY <1>1, <1>2, SumAdd
<1>6. SumOf(Committed, S) = SumOf(fg, S) + SumOf(MinedShares, S)
  BY <1>1, <1>2, <1>4, SumAdd
<1>7. SumOf(f, S) \in Int /\ SumOf(g, S) \in Int /\ SumOf(MinedShares, S) \in Int
  BY <1>1, <1>2, SumInt
<1>. QED
  BY <1>5, <1>6, <1>7 DEF S, f, g

LEMMA LedgerImplies ==
    ASSUME LedgerInv
    PROVE  EffectiveIsCommitted
<1>. SUFFICES ASSUME NEW k \in Tokens
              PROVE  Effective(CurrentPosition(k)) + closed[k].shares =
                       SumOf(Committed, OrdersOf(k, "BUY")) - SumOf(Committed, OrdersOf(k, "SELL"))
  BY DEF EffectiveIsCommitted
<1>. DEFINE p == CurrentPosition(k)
            bought == SumOf(MinedShares, OrdersOf(k, "BUY"))
            sold == SumOf(MinedShares, OrdersOf(k, "SELL"))
            held == positions[k].shares
            gone == closed[k].shares
            opening == p.opening + p.open_settling
            closing == p.closing + p.close_settling
<1>1. /\ p.opening \in Int /\ p.open_settling \in Int /\ bought \in Int
      /\ SumOf(Committed, OrdersOf(k, "BUY")) = opening + bought
  BY CommittedSum DEF LedgerInv, Side, CurrentPosition, PendingShares, OpenShares
<1>2. /\ p.closing \in Int /\ p.close_settling \in Int /\ sold \in Int
      /\ SumOf(Committed, OrdersOf(k, "SELL")) = closing + sold
  BY CommittedSum DEF LedgerInv, Side, CurrentPosition, PendingShares, OpenShares
<1>3. held + gone = bought - sold
  BY DEF LedgerInv, SharesLedger
<1>4. held \in Int /\ gone \in Int
  BY DEF LedgerInv, IInv, Position, Books
<1>5. p.holding.shares = held
  BY DEF CurrentPosition
<1>. HIDE DEF p, held
<1>6. Effective(p) = opening + held - closing
  <2>1. Effective(p) =
          p.opening + p.open_settling + p.holding.shares - p.closing - p.close_settling
    BY DEF Effective
  <2>. QED
    BY <1>1, <1>2, <1>4, <1>5, <2>1
<1>7. opening \in Int /\ closing \in Int
  BY <1>1, <1>2
<1>. HIDE DEF bought, sold, gone, opening, closing
<1>8. opening + held - closing + gone = opening + bought - (closing + sold)
  BY <1>1, <1>2, <1>3, <1>4, <1>7
<1>9. SumOf(Committed, OrdersOf(k, "BUY")) \in Int /\ SumOf(Committed, OrdersOf(k, "SELL")) \in Int
  BY <1>1, <1>2, <1>7
<1>10. Effective(p) + gone = SumOf(Committed, OrdersOf(k, "BUY")) - SumOf(Committed, OrdersOf(k, "SELL"))
  BY <1>1, <1>2, <1>4, <1>6, <1>7, <1>8, <1>9
<1>. QED
  BY <1>10 DEF p, gone

-----------------------------------------------------------------------------
(* The books of one position.                                              *)

Account == [shares : Int, cost : Int, pnl : Int]

\* What dust takes out of a position is booked as closed.
LEMMA ClearedBooks ==
    ASSUME NEW q \in Account, NEW c \in Books
    PROVE  LET z == ClearDust(q)
               d == Residue(c, q)
           IN  /\ z \in Account /\ d \in Books
               /\ z.shares + d.shares = q.shares + c.shares
               /\ z.pnl - z.cost - d.cash = q.pnl - q.cost - c.cash
<1>. DEFINE x == c.shares + q.shares
            y == c.cash + q.cost
            e == [c EXCEPT !.shares = x, !.cash = y]
            zero == 0
            z == [q EXCEPT !.shares = zero, !.cost = zero]
<1>1. /\ q.shares \in Int /\ q.cost \in Int /\ q.pnl \in Int
      /\ c.shares \in Int /\ c.cash \in Int
  BY DEF Account, Books
<1>2. CASE q.shares <= Dust
  <2>1. Residue(c, q) = e /\ ClearDust(q) = z
    BY <1>2 DEF Residue, ClearDust
  <2>2. z \in Account /\ z.shares = zero /\ z.cost = zero /\ z.pnl = q.pnl
    <3>1. zero \in Int
      OBVIOUS
    <3>. HIDE DEF zero
    <3>. QED
      BY <3>1 DEF Account
  <2>3. x \in Int /\ y \in Int
    BY <1>1
  <2>4. e \in Books /\ e.shares = x /\ e.cash = y
    <3>. HIDE DEF x, y
    <3>. QED
      BY <2>3 DEF Books
  <2>. HIDE DEF e, z
  <2>. QED
    BY <1>1, <2>1, <2>2, <2>4
<1>3. CASE ~(q.shares <= Dust)
  BY <1>1, <1>3 DEF ClearDust, Residue
<1>. QED
  BY <1>2, <1>3

LEMMA AppliedBooks ==
    ASSUME NEW p, PositionInv(p), NEW side \in Side, NEW a \in Int, NEW s \in Nat
    PROVE  LET q == ApplyConfirmedTrade(p, side, a, s)
           IN  /\ q \in Account
               /\ q.shares = IF side = "BUY" THEN p.shares + s ELSE p.shares - s
               /\ q.pnl - q.cost = IF side = "BUY" THEN p.pnl - p.cost - a ELSE p.pnl - p.cost + a
<1>. DEFINE c == CostOf(p, s)
            q == ApplyConfirmedTrade(p, side, a, s)
            x == IF side = "BUY" THEN p.shares + s ELSE p.shares - s
            y == IF side = "BUY" THEN p.cost + a ELSE p.cost - c
            z == IF side = "BUY" THEN p.pnl ELSE p.pnl + a - c
<1>1. p \in Account /\ c \in Int
  BY CostOfBounded DEF PositionInv, Position, Account
<1>2. p.shares \in Int /\ p.cost \in Int /\ p.pnl \in Int
  BY <1>1 DEF Account
<1>. HIDE DEF c
<1>3. q = [p EXCEPT !.shares = x, !.cost = y, !.pnl = z]
  BY <1>1 DEF ApplyConfirmedTrade, Account, c
<1>4. x \in Int /\ y \in Int /\ z \in Int
  BY <1>1, <1>2
<1>5. q \in Account /\ q.shares = x /\ q.cost = y /\ q.pnl = z
  <2>. HIDE DEF q, x, y, z
  <2>. QED
    BY <1>1, <1>3, <1>4 DEF Account
<1>6. z - y = IF side = "BUY" THEN p.pnl - p.cost - a ELSE p.pnl - p.cost + a
  BY <1>1, <1>2
<1>. HIDE DEF q, z, y
<1>. QED
  BY <1>5, <1>6 DEF q

LEMMA SettledBooks ==
    ASSUME NEW p, PositionInv(p), NEW s \in Nat, NEW price \in Nat
    PROVE  LET q == SettledPosition(p, s, price)
           IN  /\ q \in Account
               /\ q.shares = p.shares - s
               /\ q.pnl - q.cost = p.pnl - p.cost + s * price
<1>. DEFINE c == CostOf(p, s)
            v == s * price
            q == SettledPosition(p, s, price)
            x == p.shares - s
            y == p.cost - c
            z == p.pnl + v - c
<1>1. p \in Account /\ c \in Int
  BY CostOfBounded DEF PositionInv, Position, Account
<1>2. p.shares \in Int /\ p.cost \in Int /\ p.pnl \in Int /\ v \in Int
  BY <1>1, ProductNat DEF Account
<1>3. q = [p EXCEPT !.shares = x, !.cost = y, !.pnl = z]
  BY DEF SettledPosition
<1>. HIDE DEF c, v
<1>4. x \in Int /\ y \in Int /\ z \in Int /\ z - y = p.pnl - p.cost + v
  BY <1>1, <1>2
<1>5. q \in Account /\ q.shares = x /\ q.cost = y /\ q.pnl = z
  <2>. HIDE DEF q, x, y, z
  <2>. QED
    BY <1>1, <1>3, <1>4 DEF Account
<1>. HIDE DEF q, z, y
<1>. QED
  BY <1>4, <1>5 DEF q, v

-----------------------------------------------------------------------------
(* The steps of orders: they leave trades and positions alone.             *)

LEMMA TrackedStays ==
    ASSUME NEW r, NEW t, NEW q, OrderInv(r, t), OrderChange(r, t, q), r.status # "UNTRACKED"
    PROVE  q.status # "UNTRACKED" /\ q.token = r.token /\ q.side = r.side
<1>1. r \in OrderRecord
  BY DEF OrderInv
<1>2. CASE q = AfterSubmit(r) \/ q = SubmitRefused(r)
  BY <1>1, <1>2 DEF AfterSubmit, Submitted, CancelRequested, SubmitRefused, OrderRecord
<1>3. CASE q = CancelRequested(r)
  BY <1>1, <1>3 DEF CancelRequested, OrderRecord
<1>4. CASE q = CancelDone(r) \/ q = [r EXCEPT !.is_cancelling = FALSE]
  BY <1>1, <1>4 DEF CancelDone, OrderRecord
<1>5. ASSUME NEW e \in OrderEvents, q = AfterEvent(r, e)
      PROVE  q.status # "UNTRACKED" /\ q.token = r.token /\ q.side = r.side
  <2>1. CASE q = Closed(r, e)
    BY <1>1, <2>1 DEF Closed, OrderRecord
  <2>2. CASE q = Open(r, e)
    BY <1>1, <2>2 DEF Open, OrderRecord
  <2>. QED
    BY <1>5, <2>1, <2>2 DEF AfterEvent
<1>. QED
  BY <1>2, <1>3, <1>4, <1>5 DEF OrderChange

LEMMA UntrackedChanges ==
    ASSUME NEW r, NEW t, NEW q, OrderInv(r, t), OrderChange(r, t, q), r.status = "UNTRACKED"
    PROVE  \/ q = r
           \/ q.status # "UNTRACKED" /\ q.token \in Tokens
<1>1. t.submit = 0 /\ t.cancel = 0
  BY DEF OrderInv, NoTask
<1>2. ~IsActive(r)
  BY DEF IsActive, ActiveStatus
<1>3. ASSUME NEW k \in Tokens, NEW d \in Side, NEW m \in Role, NEW n \in OrderSizes,
             q = NewOrder(k, d, m, n)
      PROVE  q.status # "UNTRACKED" /\ q.token \in Tokens
  BY <1>3 DEF NewOrder
<1>. QED
  BY <1>1, <1>2, <1>3 DEF OrderChange

\* A step changes the record of one order at most, and nothing else that the
\* books are about; or it is a trade event or the settlement.
OneOrderStep ==
    /\ UNCHANGED <<trades, positions, closed>>
    /\ \/ orders' = orders
       \/ \E i \in Orders : \A o \in Orders \ {i} : orders'[o] = orders[o]

LEMMA StepKinds ==
    ASSUME IInv, [Next]_vars
    PROVE  \/ OneOrderStep
           \/ \E e \in TradeEvents : HandleTradeEvent(e)
           \/ \E winner \in Tokens : SettleMarket(winner)
<1>1. ASSUME NEW i \in Orders, OrderStep(i)
      PROVE  OneOrderStep
  <2>1. UNCHANGED <<trades, positions, closed>>
    BY <1>1 DEF OrderStep, CreateOrder, SubmitSuccess, SubmitFailed, Cancel, CancelSuccess,
                CancelFailed, SyncFails
  <2>2. \A o \in Orders \ {i} : orders'[o] = orders[o]
    BY <1>1 DEF OrderStep, CreateOrder, SubmitSuccess, SubmitFailed, Cancel, CancelSuccess,
                CancelFailed, SyncFails, IInv
  <2>. QED
    BY <2>1, <2>2 DEF OneOrderStep
<1>2. ASSUME NEW e \in OrderEvents, HandleOrderEvent(e) \/ SyncReturns(e)
      PROVE  OneOrderStep
  <2>1. UNCHANGED <<trades, positions, closed>>
    BY <1>2 DEF HandleOrderEvent, SyncReturns
  <2>2. e.order \in Orders /\ \A o \in Orders \ {e.order} : orders'[o] = orders[o]
    BY <1>2 DEF HandleOrderEvent, SyncReturns, OrderEvents, IInv
  <2>. QED
    BY <2>1, <2>2 DEF OneOrderStep
<1>. QED
  BY <1>1, <1>2 DEF Next, vars, OneOrderStep

LEMMA OrderStepTracking ==
    ASSUME IInv, TrackingInv, [Next]_vars, OneOrderStep
    PROVE  /\ TrackingInv'
           /\ \A k \in Tokens, side \in Side :
                /\ Mined(k, side)' = Mined(k, side)
                /\ \/ OrdersOf(k, side)' = OrdersOf(k, side)
                   \/ \E i \in Orders : /\ ~Tracked(i)
                                        /\ OrdersOf(k, side)' = OrdersOf(k, side) \cup {i}
<1>1. ASSUME NEW o \in Orders
      PROVE  /\ Tracked(o) => /\ Tracked(o)' /\ orders'[o].token = orders[o].token
                              /\ orders'[o].side = orders[o].side
             /\ ~Tracked(o) => \/ orders'[o] = orders[o]
                               \/ Tracked(o)' /\ orders'[o].token \in Tokens
  <2>1. OrderChange(orders[o], tasks[o], orders'[o]) /\ OrderInv(orders[o], tasks[o])
    BY StepChangesOrder DEF IInv
  <2>. QED
    BY <2>1, TrackedStays, UntrackedChanges DEF Tracked
<1>2. trades' = trades
  BY DEF OneOrderStep
<1>3. PICK i : \A o \in Orders \ {i} : orders'[o] = orders[o]
  BY DEF OneOrderStep
<1>4. TrackedOrders \subseteq TrackedOrders' /\ TrackedOrders' \subseteq TrackedOrders \cup {i}
  BY <1>1, <1>3 DEF TrackedOrders, Tracked
<1>5. TrackingInv'
  <2>1. IsFiniteSet(TrackedOrders')
    BY <1>4, FS_AddElement, FS_Subset DEF TrackingInv
  <2>2. TrackedTrades' = TrackedTrades
    BY <1>2 DEF TrackedTrades
  <2>3. IsFiniteSet(TrackedTrades')
    BY <2>2 DEF TrackingInv
  <2>4. \A o \in Orders : orders'[o].token \in Tokens <=> Tracked(o)'
    BY <1>1 DEF TrackingInv, Tracked
  <2>5. \A t \in TrackedTrades' : trades'[t].order \in TrackedOrders'
    BY <1>2, <1>4, <2>2 DEF TrackingInv
  <2>. QED
    BY <2>1, <2>3, <2>4, <2>5 DEF TrackingInv
<1>6. ASSUME NEW k \in Tokens, NEW side \in Side
      PROVE  Mined(k, side)' = Mined(k, side)
  <2>1. \A t \in Trades : trades[t].status = "SUCCESS" =>
           trades[t].order \in Orders /\ Tracked(trades[t].order)
    BY DEF TrackingInv, TrackedTrades, TrackedOrders
  <2>. QED
    BY <1>1, <1>2, <2>1 DEF Mined
<1>7. ASSUME NEW k \in Tokens, NEW side \in Side, OrdersOf(k, side)' # OrdersOf(k, side)
      PROVE  \E j \in Orders : ~Tracked(j) /\ OrdersOf(k, side)' = OrdersOf(k, side) \cup {j}
  <2>1. OrdersOf(k, side) \subseteq OrdersOf(k, side)'
    BY <1>1 DEF OrdersOf, TrackingInv
  <2>2. OrdersOf(k, side)' \subseteq OrdersOf(k, side) \cup {i}
    BY <1>3 DEF OrdersOf
  <2>3. i \in OrdersOf(k, side)' /\ i \notin OrdersOf(k, side)
    BY <1>7, <2>1, <2>2
  <2>4. i \in Orders /\ ~Tracked(i)
    BY <1>1, <2>3 DEF OrdersOf
  <2>. QED
    BY <2>1, <2>2, <2>3, <2>4
<1>. QED
  BY <1>5, <1>6, <1>7

LEMMA OrderStepLedger ==
    ASSUME LedgerInv, IInv', [Next]_vars, OneOrderStep
    PROVE  LedgerInv'
<1>1. /\ IInv /\ TrackingInv /\ trades' = trades /\ positions' = positions /\ closed' = closed
  BY DEF LedgerInv, OneOrderStep
<1>2. TrackingInv'
  BY <1>1, OrderStepTracking
<1>3. MinedShares' = MinedShares
  BY <1>1 DEF MinedShares, OnChain
<1>4. ASSUME NEW k \in Tokens, NEW side \in Side
      PROVE  SumOf(MinedShares', OrdersOf(k, side)') = SumOf(MinedShares, OrdersOf(k, side))
  <2>1. CASE OrdersOf(k, side)' = OrdersOf(k, side)
    BY <1>3, <2>1
  <2>2. ASSUME NEW i \in Orders, ~Tracked(i), OrdersOf(k, side)' = OrdersOf(k, side) \cup {i}
        PROVE  SumOf(MinedShares', OrdersOf(k, side)') = SumOf(MinedShares, OrdersOf(k, side))
    <3>. DEFINE S == OrdersOf(k, side)
    <3>1. OnChainTrades(i, "SUCCESS") = {}
      BY <1>1, <2>2 DEF OnChainTrades, TrackingInv, TrackedTrades, TrackedOrders
    <3>2. MinedShares[i] = 0
      BY <3>1, SumEmpty DEF MinedShares, OnChain, OnChainTrades
    <3>3. IsFiniteSet(S) /\ i \notin S /\ S \subseteq Orders
      BY <1>1, <2>2, OrdersOfFinite DEF TrackedOrders, OrdersOf
    <3>4. \A o \in S : MinedShares[o] \in Int
      BY <1>1, <3>3, OnChainInt DEF MinedShares
    <3>. HIDE DEF S
    <3>5. SumOf(MinedShares, S \cup {i}) = SumOf(MinedShares, S) + 0 /\ SumOf(MinedShares, S) \in Int
      BY <3>2, <3>3, <3>4, SumInsert, SumInt
    <3>6. SumOf(MinedShares, S \cup {i}) = SumOf(MinedShares, S)
      BY <3>5
    <3>. QED
      BY <1>3, <2>2, <3>6 DEF S
  <2>. QED
    BY <1>1, <2>1, <2>2, OrderStepTracking
<1>5. SharesLedger'
  BY <1>1, <1>4 DEF SharesLedger, LedgerInv, Side
<1>6. CashLedger'
  <2>1. Gross' = Gross /\ TakerFee' = TakerFee
    BY <1>1 DEF Gross, TakerFee
  <2>2. \A k \in Tokens : Mined(k, "BUY")' = Mined(k, "BUY") /\ Mined(k, "SELL")' = Mined(k, "SELL")
    BY <1>1, OrderStepTracking DEF Side
  <2>. QED
    BY <1>1, <2>1, <2>2 DEF CashLedger, LedgerInv
<1>7. closed' \in [Tokens -> Books]
  BY <1>1 DEF LedgerInv
<1>. QED
  BY <1>2, <1>5, <1>6, <1>7 DEF LedgerInv

-----------------------------------------------------------------------------
(* The settlement: it moves shares and money between a position and what   *)
(* was closed.                                                             *)

LEMMA SettleMarketLedger ==
    ASSUME LedgerInv, IInv', NEW winner \in Tokens, SettleMarket(winner)
    PROVE  LedgerInv'
<1>. DEFINE s(k) == SettlingShares(k)
            price(k) == PayoutPrice(k, winner)
            after(k) == SettledPosition(positions[k], s(k), price(k))
            paid(k) == [shares |-> closed[k].shares + s(k),
                        cash |-> closed[k].cash + s(k) * price(k)]
            p(k) == IF s(k) = 0 THEN positions[k] ELSE ClearDust(after(k))
            c(k) == IF s(k) = 0 THEN closed[k] ELSE Residue(paid(k), after(k))
<1>1. /\ positions' = [k \in Tokens |-> p(k)] /\ closed' = [k \in Tokens |-> c(k)]
      /\ orders' = orders /\ trades' = trades
  BY Zenon DEF SettleMarket
<1>2. ASSUME NEW k \in Tokens
      PROVE  /\ c(k) \in Books
             /\ p(k).shares + c(k).shares = positions[k].shares + closed[k].shares
             /\ p(k).pnl - p(k).cost - c(k).cash =
                  positions[k].pnl - positions[k].cost - closed[k].cash
  <2>. DEFINE v == s(k) * price(k)
  <2>1. PositionInv(positions[k]) /\ closed[k] \in Books
    BY DEF LedgerInv, IInv
  <2>2. s(k) \in Nat /\ price(k) \in Nat
    <3>1. s(k) \in 0..positions[k].shares /\ positions[k].shares \in Nat
      BY <2>1, SettlingBounded DEF PositionInv, Position
    <3>. QED
      BY <3>1, QuantityAssumption DEF PayoutPrice
  <2>3. v \in Nat
    BY <2>2, ProductNat
  <2>. HIDE DEF s, price
  <2>4. /\ after(k) \in Account
        /\ after(k).shares = positions[k].shares - s(k)
        /\ after(k).pnl - after(k).cost = positions[k].pnl - positions[k].cost + v
    BY <2>1, <2>2, SettledBooks
  <2>. HIDE DEF after, v
  <2>5. /\ closed[k].shares \in Int /\ closed[k].cash \in Int
        /\ positions[k].shares \in Int /\ positions[k].pnl \in Int /\ positions[k].cost \in Int
    BY <2>1 DEF PositionInv, Position, Books
  <2>6. /\ paid(k) \in Books /\ paid(k).shares = closed[k].shares + s(k)
        /\ paid(k).cash = closed[k].cash + v
    BY <2>2, <2>3, <2>5 DEF Books, v
  <2>. HIDE DEF paid
  <2>7. LET z == ClearDust(after(k))
            d == Residue(paid(k), after(k))
        IN  /\ d \in Books /\ z \in Account
            /\ z.shares + d.shares = after(k).shares + paid(k).shares
            /\ z.pnl - z.cost - d.cash = after(k).pnl - after(k).cost - paid(k).cash
    BY <2>4, <2>6, ClearedBooks
  <2>8. CASE s(k) = 0
    BY <2>1, <2>8
  <2>9. CASE s(k) # 0
    <3>1. p(k) = ClearDust(after(k)) /\ c(k) = Residue(paid(k), after(k))
      BY <2>9
    <3>2. p(k) \in Account /\ c(k) \in Books /\ after(k) \in Account
      BY <2>4, <2>7, <3>1
    <3>3. /\ p(k).shares \in Int /\ p(k).pnl \in Int /\ p(k).cost \in Int
          /\ c(k).shares \in Int /\ c(k).cash \in Int
          /\ after(k).pnl \in Int /\ after(k).cost \in Int
      BY <3>2 DEF Account, Books
    <3>4. /\ p(k).shares + c(k).shares = after(k).shares + paid(k).shares
          /\ p(k).pnl - p(k).cost - c(k).cash = after(k).pnl - after(k).cost - paid(k).cash
      BY <2>7, <3>1
    <3>. HIDE DEF p, c
    <3>. QED
      BY <2>2, <2>3, <2>4, <2>5, <2>6, <3>2, <3>3, <3>4
  <2>. QED
    BY <2>8, <2>9
<1>. HIDE DEF p, c
<1>3. \A k \in Tokens : positions'[k] = p(k) /\ closed'[k] = c(k)
  BY <1>1
<1>4. TrackingInv'
  BY <1>1 DEF LedgerInv, TrackingInv, TrackedOrders, TrackedTrades, Tracked
<1>5. closed' \in [Tokens -> Books]
  BY <1>1, <1>2
<1>6. /\ MinedShares' = MinedShares /\ Gross' = Gross /\ TakerFee' = TakerFee
      /\ \A k \in Tokens, side \in Side :
           OrdersOf(k, side)' = OrdersOf(k, side) /\ Mined(k, side)' = Mined(k, side)
  BY <1>1 DEF MinedShares, OnChain, Gross, TakerFee, OrdersOf, Mined
<1>7. SharesLedger'
  BY <1>2, <1>3, <1>6 DEF SharesLedger, LedgerInv, Side
<1>8. CashLedger'
  <2>. SUFFICES ASSUME NEW k \in Tokens
                PROVE  positions'[k].pnl - positions'[k].cost =
                         closed'[k].cash + SumOf(Gross, Mined(k, "SELL")) - SumOf(TakerFee, Mined(k, "SELL"))
                           - SumOf(Gross, Mined(k, "BUY")) - SumOf(TakerFee, Mined(k, "BUY"))
    BY <1>6 DEF CashLedger, Side
  <2>. DEFINE m(side) == SumOf(Gross, Mined(k, side))
              f(side) == SumOf(TakerFee, Mined(k, side))
  <2>1. /\ m("BUY") \in Int /\ m("SELL") \in Int /\ f("BUY") \in Int /\ f("SELL") \in Int
    BY MoneyInt DEF LedgerInv
  <2>2. positions[k].pnl - positions[k].cost =
          closed[k].cash + m("SELL") - f("SELL") - m("BUY") - f("BUY")
    BY DEF CashLedger, LedgerInv
  <2>3. /\ positions[k].pnl \in Int /\ positions[k].cost \in Int /\ closed[k].cash \in Int
        /\ positions'[k].pnl \in Int /\ positions'[k].cost \in Int /\ closed'[k].cash \in Int
    BY <1>5 DEF LedgerInv, IInv, Position, Books
  <2>4. positions'[k].pnl - positions'[k].cost - closed'[k].cash =
          positions[k].pnl - positions[k].cost - closed[k].cash
    BY <1>2, <1>3
  <2>. HIDE DEF m, f
  <2>5. positions'[k].pnl - positions'[k].cost =
          closed'[k].cash + m("SELL") - f("SELL") - m("BUY") - f("BUY")
    BY <2>1, <2>2, <2>3, <2>4
  <2>. QED
    BY <2>5 DEF m, f
<1>. QED
  BY <1>4, <1>5, <1>7, <1>8 DEF LedgerInv

-----------------------------------------------------------------------------
(* A trade event: what it settles moves into the position, once.           *)

\* A report that settles nothing new leaves the settled trades as they are.
LEMMA SettledTradesKept ==
    ASSUME IInv, NEW e \in TradeEvents, HandleTradeEvent(e), ~BecomesSuccess(e)
    PROVE  /\ positions' = positions /\ closed' = closed
           /\ \A t \in Trades :
                /\ trades[t].status = "SUCCESS" <=> trades'[t].status = "SUCCESS"
                /\ trades[t].status = "SUCCESS" => trades'[t] = trades[t]
<1>. DEFINE n == [status |-> TradeStatus(e), order |-> e.order, shares |-> e.shares,
                  price |-> e.price, role |-> e.role]
            i == e.trade
<1>1. /\ i \in Trades /\ trades' = [trades EXCEPT ![i] = n]
      /\ positions' = positions /\ closed' = closed
  BY DEF HandleTradeEvent, TradeEvents
<1>2. trades \in [Trades -> TradeRecord]
  BY DEF IInv
<1>3. trades'[i] = n /\ \A t \in Trades \ {i} : trades'[t] = trades[t]
  BY <1>1, <1>2
<1>4. CASE trades[i].status = "SUCCESS"
  <2>1. /\ e.order = trades[i].order /\ e.shares = trades[i].shares
        /\ e.price = trades[i].price /\ e.role = trades[i].role
        /\ TradeStatus(e) = "SUCCESS"
    BY <1>4 DEF HandleTradeEvent, Repeats, TradeStatus
  <2>2. n = trades[i]
    BY <1>1, <1>2, <1>4, <2>1 DEF TradeRecord
  <2>. QED
    BY <1>1, <1>3, <2>2
<1>5. CASE trades[i].status # "SUCCESS"
  <2>1. n.status # "SUCCESS"
    BY <1>5 DEF BecomesSuccess
  <2>. QED
    BY <1>1, <1>3, <1>5, <2>1
<1>. QED
  BY <1>4, <1>5

LEMMA TradeEventTracking ==
    ASSUME IInv, TrackingInv, NEW e \in TradeEvents, HandleTradeEvent(e)
    PROVE  TrackingInv'
<1>1. /\ orders' = orders /\ e.trade \in Trades /\ e.order \in TrackedOrders
      /\ \A t \in Trades \ {e.trade} : trades'[t] = trades[t]
      /\ trades'[e.trade].order = e.order
  BY DEF HandleTradeEvent, TradeEvents, Accepted, TrackedOrders, IInv
<1>2. TrackedOrders' = TrackedOrders
  BY <1>1 DEF TrackedOrders, Tracked
<1>3. TrackedTrades' \subseteq TrackedTrades \cup {e.trade}
  BY <1>1 DEF TrackedTrades
<1>4. IsFiniteSet(TrackedTrades')
  BY <1>3, FS_AddElement, FS_Subset DEF TrackingInv
<1>5. \A t \in TrackedTrades' : trades'[t].order \in TrackedOrders'
  BY <1>1, <1>2, <1>3 DEF TrackingInv, TrackedTrades
<1>6. \A o \in Orders : orders'[o].token \in Tokens <=> Tracked(o)'
  BY <1>1 DEF TrackingInv, Tracked
<1>. QED
  BY <1>2, <1>4, <1>5, <1>6 DEF TrackingInv

LEMMA UnsettledEventLedger ==
    ASSUME LedgerInv, IInv', NEW e \in TradeEvents, HandleTradeEvent(e), ~BecomesSuccess(e)
    PROVE  LedgerInv'
<1>1. IInv /\ TrackingInv
  BY DEF LedgerInv
<1>2. TrackingInv' /\ orders' = orders
  BY <1>1, TradeEventTracking DEF HandleTradeEvent
<1>3. /\ positions' = positions /\ closed' = closed
      /\ \A t \in Trades :
           /\ trades[t].status = "SUCCESS" <=> trades'[t].status = "SUCCESS"
           /\ trades[t].status = "SUCCESS" => trades'[t] = trades[t]
  BY <1>1, SettledTradesKept
<1>4. ASSUME NEW o \in Orders
      PROVE  OnChain(o, "SUCCESS")' = OnChain(o, "SUCCESS")
  <2>. DEFINE S == OnChainTrades(o, "SUCCESS")
              f == [t \in Trades |-> trades[t].shares]
              g == [t \in Trades |-> trades'[t].shares]
  <2>1. IsFiniteSet(S) /\ \A t \in S : f[t] = g[t]
    BY <1>1, <1>3, OnChainInt DEF OnChainTrades
  <2>2. S' = S
    BY <1>3 DEF OnChainTrades
  <2>3. OnChain(o, "SUCCESS") = SumOf(f, S) /\ OnChain(o, "SUCCESS")' = SumOf(g, S)
    BY <2>2 DEF OnChain, OnChainTrades
  <2>. HIDE DEF S, f, g
  <2>. QED
    BY <2>1, <2>3, SumSame
<1>5. MinedShares' = MinedShares
  BY <1>4 DEF MinedShares
<1>6. ASSUME NEW k, NEW side
      PROVE  /\ SumOf(Gross', Mined(k, side)') = SumOf(Gross, Mined(k, side))
             /\ SumOf(TakerFee', Mined(k, side)') = SumOf(TakerFee, Mined(k, side))
  <2>1. Mined(k, side)' = Mined(k, side) /\ Mined(k, side) \subseteq Trades
    BY <1>2, <1>3 DEF Mined
  <2>2. \A t \in Mined(k, side) : Gross[t] = Gross'[t] /\ TakerFee[t] = TakerFee'[t]
    BY <1>3 DEF Mined, Gross, TakerFee
  <2>. QED
    BY <1>1, <2>1, <2>2, MinedFinite, SumSame
<1>7. SharesLedger'
  BY <1>2, <1>3, <1>5 DEF SharesLedger, LedgerInv, OrdersOf
<1>8. CashLedger'
  BY <1>3, <1>6 DEF CashLedger, LedgerInv
<1>9. closed' \in [Tokens -> Books]
  BY <1>3 DEF LedgerInv
<1>. QED
  BY <1>2, <1>7, <1>8, <1>9 DEF LedgerInv

\* A trade that settles adds its shares to those its order has settled, and
\* itself to the mined trades of the order's token and side.
LEMMA SettledTradeAdds ==
    ASSUME IInv, TrackingInv, IInv', NEW e \in TradeEvents, HandleTradeEvent(e), BecomesSuccess(e)
    PROVE  /\ \A o \in Orders : MinedShares'[o] =
                IF o = e.order THEN MinedShares[o] + e.shares ELSE MinedShares[o]
           /\ \A k \in Tokens, side \in Side :
                IF e.order \in OrdersOf(k, side)
                THEN /\ SumOf(Gross', Mined(k, side)') =
                          SumOf(Gross, Mined(k, side)) + e.shares * e.price
                     /\ SumOf(TakerFee', Mined(k, side)') =
                          SumOf(TakerFee, Mined(k, side)) + FeeAmount(e)
                ELSE /\ SumOf(Gross', Mined(k, side)') = SumOf(Gross, Mined(k, side))
                     /\ SumOf(TakerFee', Mined(k, side)') = SumOf(TakerFee, Mined(k, side))
<1>. DEFINE i == e.trade
<1>1. /\ i \in Trades /\ orders' = orders
      /\ \A t \in Trades \ {i} : trades'[t] = trades[t]
      /\ trades[i].status # "SUCCESS"
  BY DEF HandleTradeEvent, TradeEvents, IInv, BecomesSuccess
<1>2. /\ trades'[i].status = "SUCCESS" /\ trades'[i].order = e.order
      /\ trades'[i].shares = e.shares /\ trades'[i].price = e.price /\ trades'[i].role = e.role
  <2>1. trades'[i] = [status |-> TradeStatus(e), order |-> e.order, shares |-> e.shares,
                      price |-> e.price, role |-> e.role]
    BY <1>1 DEF HandleTradeEvent, IInv
  <2>. QED
    BY <2>1 DEF BecomesSuccess
<1>3. e.order \in Orders /\ e.shares \in Nat /\ e.price \in Nat
  BY QuantityAssumption DEF TradeEvents
<1>4. TrackingInv'
  BY TradeEventTracking
<1>. HIDE DEF i
<1>5. ASSUME NEW o \in Orders
      PROVE  MinedShares'[o] = IF o = e.order THEN MinedShares[o] + e.shares ELSE MinedShares[o]
  <2>. DEFINE S == OnChainTrades(o, "SUCCESS")
              f == [t \in Trades |-> trades[t].shares]
              g == [t \in Trades |-> trades'[t].shares]
  <2>1. IsFiniteSet(S)
    BY OnChainInt
  <2>2. S \subseteq Trades /\ i \notin S
    BY <1>1 DEF OnChainTrades
  <2>3. \A t \in S : f[t] \in Int /\ g[t] = f[t]
    BY <1>1, <2>2 DEF IInv, TradeRecord
  <2>4. g[i] = e.shares
    BY <1>1, <1>2
  <2>5. S' = IF o = e.order THEN S \cup {i} ELSE S
    BY <1>1, <1>2 DEF OnChainTrades
  <2>6. MinedShares[o] = SumOf(f, S) /\ MinedShares'[o] = SumOf(g, S')
    BY DEF MinedShares, OnChain, OnChainTrades
  <2>. HIDE DEF S, f, g
  <2>7. SumOf(g, S \cup {i}) = SumOf(f, S) + e.shares
    <3>1. g[i] \in Int
      BY <1>3, <2>4
    <3>2. SumOf(g, S \cup {i}) = SumOf(f, S) + g[i]
      <4>. DEFINE T == S \cup {i}
      <4>1. T = S \cup {i}
        OBVIOUS
      <4>. HIDE DEF T
      <4>2. SumOf(g, T) = SumOf(f, S) + g[i]
        BY <2>1, <2>2, <2>3, <3>1, <4>1, SumGrows
      <4>. QED
        BY <4>1, <4>2
    <3>. QED
      BY <2>4, <3>2, Zenon
  <2>8. SumOf(g, S) = SumOf(f, S)
    BY <2>1, <2>3, SumSame
  <2>. QED
    BY <2>5, <2>6, <2>7, <2>8
<1>6. ASSUME NEW k \in Tokens, NEW side \in Side
      PROVE  Mined(k, side)' =
               IF e.order \in OrdersOf(k, side) THEN Mined(k, side) \cup {i} ELSE Mined(k, side)
  BY <1>1, <1>2, <1>3 DEF Mined, OrdersOf
<1>7. ASSUME NEW k \in Tokens, NEW side \in Side
      PROVE  /\ IsFiniteSet(Mined(k, side)) /\ Mined(k, side) \subseteq Trades /\ i \notin Mined(k, side)
             /\ \A t \in Mined(k, side) : /\ Gross[t] \in Int /\ Gross'[t] = Gross[t]
                                          /\ TakerFee[t] \in Int /\ TakerFee'[t] = TakerFee[t]
  <2>1. IsFiniteSet(Mined(k, side))
    BY MinedFinite
  <2>2. Mined(k, side) \subseteq Trades /\ i \notin Mined(k, side)
    BY <1>1 DEF Mined
  <2>3. \A t \in Trades \ {i} : Gross'[t] = Gross[t] /\ TakerFee'[t] = TakerFee[t]
    BY <1>1 DEF Gross, TakerFee
  <2>. QED
    BY <2>1, <2>2, <2>3, MoneyInt
<1>8. Gross'[i] = e.shares * e.price /\ TakerFee'[i] = FeeAmount(e)
  BY <1>1, <1>2 DEF Gross, TakerFee, FeeAmount
<1>9. e.shares * e.price \in Int /\ FeeAmount(e) \in Int
  BY <1>3, ProductNat, QuantityAssumption DEF FeeAmount
<1>10. ASSUME NEW k \in Tokens, NEW side \in Side
       PROVE  IF e.order \in OrdersOf(k, side)
              THEN /\ SumOf(Gross', Mined(k, side)') =
                        SumOf(Gross, Mined(k, side)) + e.shares * e.price
                   /\ SumOf(TakerFee', Mined(k, side)') =
                        SumOf(TakerFee, Mined(k, side)) + FeeAmount(e)
              ELSE /\ SumOf(Gross', Mined(k, side)') = SumOf(Gross, Mined(k, side))
                   /\ SumOf(TakerFee', Mined(k, side)') = SumOf(TakerFee, Mined(k, side))
  <2>. DEFINE M == Mined(k, side)
              v == e.shares * e.price
  <2>1. /\ IsFiniteSet(M) /\ i \notin M
        /\ \A t \in M : /\ Gross[t] \in Int /\ Gross'[t] = Gross[t]
                        /\ TakerFee[t] \in Int /\ TakerFee'[t] = TakerFee[t]
    BY <1>7
  <2>2. Mined(k, side)' = IF e.order \in OrdersOf(k, side) THEN M \cup {i} ELSE M
    BY <1>6
  <2>3. Gross'[i] = v /\ v \in Int /\ TakerFee'[i] = FeeAmount(e) /\ FeeAmount(e) \in Int
    BY <1>8, <1>9
  <2>. HIDE DEF M, v
  <2>4. /\ SumOf(Gross', M \cup {i}) = SumOf(Gross, M) + v
        /\ SumOf(TakerFee', M \cup {i}) = SumOf(TakerFee, M) + FeeAmount(e)
    <3>. DEFINE T == M \cup {i}
    <3>1. ASSUME NEW f, NEW g, NEW w \in Int, \A t \in M : f[t] \in Int, \A t \in M : g[t] = f[t],
                 g[i] = w
          PROVE  SumOf(g, T) = SumOf(f, M) + w
      <4>1. IsFiniteSet(M) /\ i \notin M /\ T = M \cup {i} /\ g[i] \in Int
        BY <2>1, <3>1
      <4>. HIDE DEF T
      <4>2. SumOf(g, M) = SumOf(f, M)
        BY <3>1, <4>1, SumSame
      <4>3. \A t \in M : g[t] \in Int
        BY <3>1
      <4>4. SumOf(g, T) = SumOf(g, M) + g[i]
        BY <4>1, <4>3, SumInsert
      <4>. QED
        BY <3>1, <4>2, <4>4, Zenon
    <3>2. (\A t \in M : Gross[t] \in Int) /\ (\A t \in M : Gross'[t] = Gross[t])
      BY <2>1
    <3>3. (\A t \in M : TakerFee[t] \in Int) /\ (\A t \in M : TakerFee'[t] = TakerFee[t])
      BY <2>1
    <3>. HIDE DEF T
    <3>4. SumOf(Gross', T) = SumOf(Gross, M) + v
      BY <2>3, <3>1, <3>2, Zenon
    <3>5. SumOf(TakerFee', T) = SumOf(TakerFee, M) + FeeAmount(e)
      BY <2>3, <3>1, <3>3, Zenon
    <3>. QED
      BY <3>4, <3>5 DEF T
  <2>5. SumOf(Gross', M) = SumOf(Gross, M) /\ SumOf(TakerFee', M) = SumOf(TakerFee, M)
    BY <2>1, SumSame
  <2>. QED
    BY <2>2, <2>4, <2>5 DEF M, v
<1>. QED
  BY <1>5, <1>10

LEMMA SettledEventLedger ==
    ASSUME LedgerInv, IInv', NEW e \in TradeEvents, HandleTradeEvent(e), BecomesSuccess(e)
    PROVE  LedgerInv'
<1>. DEFINE o == e.order
            side == orders[o].side
            a == CashAmount(e, side)
            n == e.shares
            p == positions[e.token]
            q == ApplyConfirmedTrade(p, side, a, n)
            z == ClearDust(q)
            c == closed[e.token]
            d == Residue(c, q)
<1>1. IInv /\ TrackingInv
  BY DEF LedgerInv
<1>2. /\ orders' = orders /\ o \in Orders /\ e.token \in Tokens /\ n \in Nat
      /\ orders[o].token = e.token /\ side \in Side
  BY <1>1, QuantityAssumption DEF HandleTradeEvent, TradeEvents, Accepted, IInv, OrderRecord
<1>3. /\ positions' = [positions EXCEPT ![e.token] = z]
      /\ closed' = [closed EXCEPT ![e.token] = d]
  BY Zenon DEF HandleTradeEvent
<1>4. /\ positions'[e.token] = z /\ closed'[e.token] = d
      /\ \A k \in Tokens \ {e.token} : positions'[k] = positions[k] /\ closed'[k] = closed[k]
  <2>. HIDE DEF z, d
  <2>. QED
    BY <1>2, <1>3 DEF LedgerInv, IInv
<1>5. a \in Int
  <2>1. e.shares * e.price \in Nat /\ FeeAmount(e) \in Nat
    BY <1>2, ProductNat, QuantityAssumption DEF FeeAmount, TradeEvents
  <2>. QED
    BY <2>1 DEF CashAmount
<1>6. PositionInv(p) /\ c \in Books
  BY <1>2 DEF LedgerInv, IInv
<1>. HIDE DEF side, a, n, p, c
<1>7. /\ q \in Account
      /\ q.shares = IF side = "BUY" THEN p.shares + n ELSE p.shares - n
      /\ q.pnl - q.cost = IF side = "BUY" THEN p.pnl - p.cost - a ELSE p.pnl - p.cost + a
  BY <1>2, <1>5, <1>6, AppliedBooks DEF n
<1>. HIDE DEF q
<1>8. /\ z \in Account /\ d \in Books
      /\ z.shares + d.shares = q.shares + c.shares
      /\ z.pnl - z.cost - d.cash = q.pnl - q.cost - c.cash
  BY <1>6, <1>7, ClearedBooks
<1>. HIDE DEF z, d
<1>9. /\ p.shares \in Int /\ p.pnl \in Int /\ p.cost \in Int /\ c.shares \in Int /\ c.cash \in Int
      /\ q.shares \in Int /\ q.pnl \in Int /\ q.cost \in Int
      /\ z.shares \in Int /\ z.pnl \in Int /\ z.cost \in Int /\ d.shares \in Int /\ d.cash \in Int
  BY <1>6, <1>7, <1>8 DEF PositionInv, Position, Account, Books
<1>10. TrackingInv'
  BY <1>1, TradeEventTracking
<1>11. closed' \in [Tokens -> Books]
  BY <1>3, <1>8 DEF LedgerInv
<1>12. \A k \in Tokens, s \in Side : o \in OrdersOf(k, s) <=> k = e.token /\ s = side
  BY <1>2 DEF OrdersOf, side
<1>13. \A k \in Tokens, s \in Side : OrdersOf(k, s)' = OrdersOf(k, s)
  BY <1>2 DEF OrdersOf
<1>14. ASSUME NEW k \in Tokens, NEW s \in Side
       PROVE  /\ SumOf(MinedShares, OrdersOf(k, s)) \in Int
              /\ SumOf(MinedShares', OrdersOf(k, s)') =
                   IF k = e.token /\ s = side THEN SumOf(MinedShares, OrdersOf(k, s)) + n
                   ELSE SumOf(MinedShares, OrdersOf(k, s))
  <2>. DEFINE S == OrdersOf(k, s)
  <2>1. IsFiniteSet(S) /\ S \subseteq Orders /\ OrdersOf(k, s)' = S
    BY <1>1, <1>13, OrdersOfFinite DEF OrdersOf
  <2>2. \A i \in Orders : MinedShares'[i] = IF i = o THEN MinedShares[i] + n ELSE MinedShares[i]
    BY <1>1, SettledTradeAdds DEF n
  <2>3. \A i \in S : MinedShares[i] \in Int /\ MinedShares'[i] \in Int
    <3>1. \A i \in S : MinedShares[i] \in Int
      BY <1>1, <2>1, OnChainInt DEF MinedShares
    <3>. QED
      BY <1>2, <2>1, <2>2, <3>1
  <2>4. o \in S <=> k = e.token /\ s = side
    BY <1>12
  <2>5. SumOf(MinedShares, S) \in Int
    BY <2>1, <2>3, SumInt
  <2>. HIDE DEF S, o
  <2>6. CASE o \in S
    <3>1. SumOf(MinedShares', S) = SumOf(MinedShares, S) - MinedShares[o] + MinedShares'[o]
      BY <2>1, <2>2, <2>3, <2>6, SumChange
    <3>2. MinedShares'[o] = MinedShares[o] + n /\ MinedShares[o] \in Int
      BY <2>1, <2>2, <2>3, <2>6
    <3>3. SumOf(MinedShares', S) = SumOf(MinedShares, S) + n
      BY <1>2, <2>5, <3>1, <3>2
    <3>. QED
      BY <2>1, <2>4, <2>5, <2>6, <3>3 DEF S
  <2>7. CASE o \notin S
    <3>1. SumOf(MinedShares', S) = SumOf(MinedShares, S)
      BY <2>1, <2>2, <2>7, SumSame
    <3>. QED
      BY <2>1, <2>4, <2>5, <2>7, <3>1 DEF S
  <2>. QED
    BY <2>6, <2>7
<1>15. ASSUME NEW k \in Tokens
       PROVE  positions'[k].shares + closed'[k].shares =
                SumOf(MinedShares', OrdersOf(k, "BUY")') - SumOf(MinedShares', OrdersOf(k, "SELL")')
  <2>. DEFINE b == SumOf(MinedShares, OrdersOf(k, "BUY"))
              s == SumOf(MinedShares, OrdersOf(k, "SELL"))
              bb == SumOf(MinedShares', OrdersOf(k, "BUY")')
              ss == SumOf(MinedShares', OrdersOf(k, "SELL")')
  <2>1. positions[k].shares + closed[k].shares = b - s /\ b \in Int /\ s \in Int
    BY <1>14 DEF LedgerInv, SharesLedger, Side
  <2>2. /\ bb = IF k = e.token /\ "BUY" = side THEN b + n ELSE b
        /\ ss = IF k = e.token /\ "SELL" = side THEN s + n ELSE s
    BY <1>14 DEF Side
  <2>. HIDE DEF b, s, bb, ss
  <2>3. CASE k = e.token
    <3>1. p.shares + c.shares = b - s
      BY <2>1, <2>3 DEF p, c
    <3>2. z.shares + d.shares = bb - ss
      <4>1. CASE side = "BUY"
        <5>1. bb = b + n /\ ss = s
          BY <2>2, <2>3, <4>1
        <5>. QED
          BY <1>2, <1>7, <1>8, <1>9, <2>1, <3>1, <4>1, <5>1
      <4>2. CASE side = "SELL"
        <5>1. bb = b /\ ss = s + n
          BY <2>2, <2>3, <4>2
        <5>. QED
          BY <1>2, <1>7, <1>8, <1>9, <2>1, <3>1, <4>2, <5>1
      <4>. QED
        BY <1>2, <4>1, <4>2 DEF Side
    <3>. QED
      BY <1>4, <2>3, <3>2 DEF bb, ss
  <2>4. CASE k # e.token
    BY <1>4, <2>1, <2>2, <2>4 DEF bb, ss
  <2>. QED
    BY <2>3, <2>4
<1>16. ASSUME NEW k \in Tokens
       PROVE  positions'[k].pnl - positions'[k].cost =
                closed'[k].cash
                  + SumOf(Gross', Mined(k, "SELL")') - SumOf(TakerFee', Mined(k, "SELL")')
                  - SumOf(Gross', Mined(k, "BUY")') - SumOf(TakerFee', Mined(k, "BUY")')
  <2>. DEFINE gs == SumOf(Gross, Mined(k, "SELL"))
              fs == SumOf(TakerFee, Mined(k, "SELL"))
              gb == SumOf(Gross, Mined(k, "BUY"))
              fb == SumOf(TakerFee, Mined(k, "BUY"))
              ngs == SumOf(Gross', Mined(k, "SELL")')
              nfs == SumOf(TakerFee', Mined(k, "SELL")')
              ngb == SumOf(Gross', Mined(k, "BUY")')
              nfb == SumOf(TakerFee', Mined(k, "BUY")')
              v == e.shares * e.price
              fee == FeeAmount(e)
  <2>1. gs \in Int /\ fs \in Int /\ gb \in Int /\ fb \in Int
    BY <1>1, MoneyInt
  <2>2. v \in Int /\ fee \in Int /\ a = IF side = "BUY" THEN v + fee ELSE v - fee
    <3>1. v \in Nat /\ fee \in Nat
      BY <1>2, ProductNat, QuantityAssumption DEF FeeAmount, TradeEvents
    <3>. QED
      BY <3>1 DEF CashAmount, a
  <2>3. positions[k].pnl - positions[k].cost = closed[k].cash + gs - fs - gb - fb
    BY DEF LedgerInv, CashLedger
  <2>4. /\ IF k = e.token /\ side = "SELL" THEN ngs = gs + v /\ nfs = fs + fee
                                          ELSE ngs = gs /\ nfs = fs
        /\ IF k = e.token /\ side = "BUY" THEN ngb = gb + v /\ nfb = fb + fee
                                         ELSE ngb = gb /\ nfb = fb
    BY <1>1, <1>12, SettledTradeAdds DEF Side
  <2>. HIDE DEF gs, fs, gb, fb, ngs, nfs, ngb, nfb, v, fee
  <2>5. CASE k = e.token
    <3>1. p.pnl - p.cost = c.cash + gs - fs - gb - fb
      BY <2>3, <2>5 DEF p, c
    <3>2. z.pnl - z.cost = d.cash + ngs - nfs - ngb - nfb
      BY <1>2, <1>5, <1>7, <1>8, <1>9, <2>1, <2>2, <2>4, <2>5, <3>1 DEF Side
    <3>. QED
      BY <1>4, <2>5, <3>2 DEF ngs, nfs, ngb, nfb
  <2>6. CASE k # e.token
    BY <1>4, <2>3, <2>4, <2>6 DEF ngs, nfs, ngb, nfb
  <2>. QED
    BY <2>5, <2>6
<1>17. SharesLedger' /\ CashLedger'
  BY <1>15, <1>16 DEF SharesLedger, CashLedger
<1>. QED
  BY <1>10, <1>11, <1>17 DEF LedgerInv

-----------------------------------------------------------------------------
(* The theorems.                                                           *)

LEMMA InitLedger ==
    ASSUME Init
    PROVE  LedgerInv
<1>1. IInv
  BY InitIInv
<1>2. TrackedOrders = {} /\ TrackedTrades = {}
  BY DEF Init, TrackedOrders, TrackedTrades, Tracked, NoOrder, NoTrade
<1>3. TrackingInv
  BY <1>2, FS_EmptySet, IdAssumption DEF TrackingInv, TrackedOrders, Init, Tracked, NoOrder
<1>4. closed \in [Tokens -> Books]
  BY DEF Init, Books
<1>5. \A k \in Tokens, side \in Side : OrdersOf(k, side) = {} /\ Mined(k, side) = {}
  BY <1>2, IdAssumption DEF OrdersOf, Mined, TrackedTrades, Init, NoOrder
<1>6. SumOf(MinedShares, {}) = 0 /\ SumOf(Gross, {}) = 0 /\ SumOf(TakerFee, {}) = 0
  BY SumEmpty
<1>7. ASSUME NEW k \in Tokens
      PROVE  /\ positions[k].shares = 0 /\ positions[k].cost = 0 /\ positions[k].pnl = 0
             /\ closed[k].shares = 0 /\ closed[k].cash = 0
             /\ OrdersOf(k, "BUY") = {} /\ OrdersOf(k, "SELL") = {}
             /\ Mined(k, "BUY") = {} /\ Mined(k, "SELL") = {}
  BY <1>5 DEF Init, NoPosition, Side
<1>8. SharesLedger
  BY <1>6, <1>7 DEF SharesLedger
<1>9. CashLedger
  BY <1>6, <1>7 DEF CashLedger
<1>. QED
  BY <1>1, <1>3, <1>4, <1>8, <1>9 DEF LedgerInv

LEMMA StepLedger ==
    ASSUME LedgerInv, [Next]_vars
    PROVE  LedgerInv'
<1>1. IInv /\ IInv'
  BY StepIInv DEF LedgerInv
<1>. QED
  BY <1>1, StepKinds, OrderStepLedger, SettleMarketLedger, UnsettledEventLedger,
     SettledEventLedger

\* The books are in order in every reachable state.
THEOREM BooksKept == Spec => []LedgerInv
<1>1. Init => LedgerInv
  BY InitLedger
<1>2. LedgerInv /\ [Next]_vars => LedgerInv'
  BY StepLedger
<1>. QED
  BY <1>1, <1>2, PTL DEF Spec

\* effective_shares counts every share that was ordered, and not canceled or
\* failed, exactly once, from the order to the settlement, however the order
\* and trade reports of the two streams interleave (events.py:22-32).
THEOREM EffectiveCorrect == Spec => []EffectiveIsCommitted
<1>1. LedgerInv => EffectiveIsCommitted
  BY LedgerImplies
<1>. QED
  BY <1>1, BooksKept, PTL

\* Realized profit less remaining cost is the cash of every mined trade, net of
\* taker fees, counted once, plus what settlement paid (manager.py:504-599).
THEOREM CashCorrect == Spec => []CashLedger
<1>1. LedgerInv => CashLedger
  BY DEF LedgerInv
<1>. QED
  BY <1>1, BooksKept, PTL

-----------------------------------------------------------------------------
(* The rest of the type invariant: what is published is a position of      *)
(* integers, because its sums are.                                         *)

PositionEvent == [opening : Int, open_settling : Int, closing : Int,
                  close_settling : Int, holding : Position]

LEMMA CurrentPositionType ==
    ASSUME LedgerInv, NEW k \in Tokens
    PROVE  CurrentPosition(k) \in PositionEvent
<1>1. IInv /\ TrackingInv /\ positions[k] \in Position
  BY DEF LedgerInv, IInv
<1>2. /\ SumOf(PendingShares, OrdersOf(k, "BUY")) \in Int
      /\ SumOf(OpenShares, OrdersOf(k, "BUY")) \in Int
      /\ SumOf(PendingShares, OrdersOf(k, "SELL")) \in Int
      /\ SumOf(OpenShares, OrdersOf(k, "SELL")) \in Int
  BY <1>1, CommittedSum DEF Side
<1>. QED
  BY <1>1, <1>2 DEF CurrentPosition, PositionEvent, PendingShares, OpenShares

LEMMA StepPublishes ==
    ASSUME [Next]_vars
    PROVE  published' = published \/ \E ks : Publish(ks)
<1>1. ASSUME NEW o \in Orders, OrderStep(o)
      PROVE  published' = published \/ \E ks : Publish(ks)
  BY <1>1, Zenon DEF OrderStep, CreateOrder, SubmitSuccess, SubmitFailed, Cancel, CancelSuccess,
              CancelFailed, SyncFails
<1>2. ASSUME NEW e \in OrderEvents, HandleOrderEvent(e) \/ SyncReturns(e)
      PROVE  \E ks : Publish(ks)
  BY <1>2, Zenon DEF HandleOrderEvent, SyncReturns
<1>3. ASSUME NEW e \in TradeEvents, HandleTradeEvent(e)
      PROVE  \E ks : Publish(ks)
  BY <1>3, Zenon DEF HandleTradeEvent
<1>4. ASSUME NEW winner \in Tokens, SettleMarket(winner)
      PROVE  \E ks : Publish(ks)
  BY <1>4, Zenon DEF SettleMarket
<1>. QED
  BY <1>1, <1>2, <1>3, <1>4 DEF Next, vars

TypeInv == LedgerInv /\ published \in [Tokens -> PositionEvent]

LEMMA InitTypes == Init => TypeInv
<1>1. Init => published \in [Tokens -> PositionEvent]
  BY DEF Init, PositionEvent, NoPosition, Position
<1>. QED
  BY <1>1, InitLedger DEF TypeInv

LEMMA StepTypes == TypeInv /\ [Next]_vars => TypeInv'
<1>1. LedgerInv' => (\A k \in Tokens : CurrentPosition(k) \in PositionEvent)'
  <2>1. LedgerInv => \A k \in Tokens : CurrentPosition(k) \in PositionEvent
    BY CurrentPositionType
  <2>. QED
    BY <2>1, PTL
<1>. SUFFICES ASSUME TypeInv, [Next]_vars
              PROVE  TypeInv'
  OBVIOUS
<1>2. LedgerInv'
  BY StepLedger DEF TypeInv
<1>3. \A k \in Tokens : CurrentPosition(k)' \in PositionEvent
  BY <1>1, <1>2
<1>4. ASSUME NEW ks, Publish(ks)
      PROVE  published' \in [Tokens -> PositionEvent]
  BY <1>3, <1>4 DEF Publish, TypeInv
<1>. QED
  BY <1>2, <1>4, StepPublishes DEF TypeInv

LEMMA TypeInvImplies == TypeInv => TypeOK
  BY IInvImplies DEF TypeInv, LedgerInv, TypeOK, PositionEvent, Books

\* Every variable keeps its type, the positions that are published included
\* (manager.py:601-634).
THEOREM TypeCorrect == Spec => []TypeOK
  BY InitTypes, StepTypes, TypeInvImplies, PTL DEF Spec
-----------------------------------------------------------------------------
(* What the strategy is told of: a step that moves a position publishes it *)
(* and moves its signature, but for the exceptions of StrategyIsTold.  The *)
(* arithmetic it rests on is that while an order has shares pending they   *)
(* are exactly what is not matched: a report that matches more of such an  *)
(* order then has less of it pending.                                      *)

Whole(r) == r.pending # 0 => r.pending + r.matched = r.shares

WholeInv == \A o \in Orders : Whole(orders[o])

\* What a report does to the quantities of an order.
LEMMA ReportMoves ==
    ASSUME NEW r, NEW t, OrderInv(r, t), Whole(r), NEW e \in OrderEvents, e.matched <= r.shares
    PROVE  LET q == AfterEvent(r, e)
           IN  /\ Whole(q)
               /\ q.matched # r.matched => q.matched > r.matched
               /\ q.pending = r.pending /\ q.matched # r.matched => r.pending = 0
<1>1. r \in OrderRecord /\ e.matched \in Nat
  BY QuantityAssumption DEF OrderInv, OrderEvents
<1>2. /\ r.pending \in Nat /\ r.matched \in Nat /\ r.shares \in Nat
      /\ r.matched + r.pending <= r.shares
  BY <1>1 DEF OrderInv, OrderRecord
<1>3. ASSUME NEW q, q = Closed(r, e)
      PROVE  /\ Whole(q)
             /\ q.matched # r.matched => q.matched > r.matched
             /\ q.pending = r.pending /\ q.matched # r.matched => r.pending = 0
  <2>1. q.pending = 0 /\ q.matched = Larger(r.matched, e.matched)
    BY <1>1, <1>3 DEF Closed, OrderRecord
  <2>. QED
    BY <1>1, <1>2, <2>1 DEF Whole, Larger
<1>4. ASSUME NEW q, q = Open(r, e)
      PROVE  /\ Whole(q)
             /\ q.matched # r.matched => q.matched > r.matched
             /\ q.pending = r.pending /\ q.matched # r.matched => r.pending = 0
  <2>1. /\ q.pending = Smaller(r.pending, r.shares - e.matched)
        /\ q.matched = Larger(r.matched, e.matched) /\ q.shares = r.shares
    BY <1>1, <1>4 DEF Open, OrderRecord
  <2>. QED
    BY <1>1, <1>2, <2>1 DEF Whole, Larger, Smaller
<1>. QED
  BY <1>3, <1>4 DEF AfterEvent

LEMMA WholeStays ==
    ASSUME NEW r, NEW t, NEW q, OrderInv(r, t), Whole(r), OrderChange(r, t, q)
    PROVE  Whole(q)
<1>1. r \in OrderRecord
  BY DEF OrderInv
<1>2. CASE q = AfterSubmit(r) \/ q = CancelRequested(r) \/ q = [r EXCEPT !.is_cancelling = FALSE]
  <2>1. q.pending = r.pending /\ q.matched = r.matched /\ q.shares = r.shares
    BY <1>1, <1>2 DEF AfterSubmit, Submitted, CancelRequested, OrderRecord
  <2>. QED
    BY <2>1 DEF Whole
<1>3. CASE q = SubmitRefused(r) \/ q = CancelDone(r)
  <2>1. q.pending = 0
    BY <1>1, <1>3 DEF SubmitRefused, CancelDone, OrderRecord
  <2>. QED
    BY <2>1 DEF Whole
<1>4. ASSUME NEW k \in Tokens, NEW d \in Side, NEW m \in Role, NEW n \in OrderSizes,
             q = NewOrder(k, d, m, n)
      PROVE  Whole(q)
  BY <1>4, QuantityAssumption DEF NewOrder, Whole
<1>. QED
  BY <1>2, <1>3, <1>4, ReportMoves DEF OrderChange

\* A position is made of the sums over the token's orders, and of what is held.
LEMMA PositionSame ==
    ASSUME LedgerInv, LedgerInv', NEW k \in Tokens, positions'[k] = positions[k],
           \A o \in Orders : k \in {orders[o].token, orders'[o].token} =>
               /\ orders'[o].token = orders[o].token /\ orders'[o].side = orders[o].side
               /\ orders'[o].pending = orders[o].pending
               /\ OpenShares'[o] = OpenShares[o]
    PROVE  CurrentPosition(k)' = CurrentPosition(k)
<1>1. ASSUME NEW side
      PROVE  /\ SumOf(PendingShares', OrdersOf(k, side)') = SumOf(PendingShares, OrdersOf(k, side))
             /\ SumOf(OpenShares', OrdersOf(k, side)') = SumOf(OpenShares, OrdersOf(k, side))
  <2>1. OrdersOf(k, side)' = OrdersOf(k, side) /\ OrdersOf(k, side) \subseteq Orders
    BY DEF OrdersOf
  <2>2. IsFiniteSet(OrdersOf(k, side))
    BY OrdersOfFinite DEF LedgerInv
  <2>3. \A o \in OrdersOf(k, side) :
           PendingShares'[o] = PendingShares[o] /\ OpenShares'[o] = OpenShares[o]
    BY DEF OrdersOf, PendingShares
  <2>. QED
    BY <2>1, <2>2, <2>3, SumSame
<1>. QED
  BY <1>1 DEF CurrentPosition, PendingShares, OpenShares

\* The pending shares of one order of the token are in the signature.
LEMMA PendingIsSigned ==
    ASSUME LedgerInv, LedgerInv', NEW k \in Tokens, NEW side \in Side,
           SumOf(PendingShares', OrdersOf(k, side)') # SumOf(PendingShares, OrdersOf(k, side))
    PROVE  Signature(CurrentPosition(k)') # Signature(CurrentPosition(k))
<1>1. /\ CurrentPosition(k).opening = SumOf(PendingShares, OrdersOf(k, "BUY"))
      /\ CurrentPosition(k).closing = SumOf(PendingShares, OrdersOf(k, "SELL"))
      /\ CurrentPosition(k)'.opening = SumOf(PendingShares', OrdersOf(k, "BUY")')
      /\ CurrentPosition(k)'.closing = SumOf(PendingShares', OrdersOf(k, "SELL")')
  BY DEF CurrentPosition, PendingShares
<1>. QED
  BY <1>1 DEF Signature, Side

LEMMA HoldingIsSigned ==
    ASSUME NEW k \in Tokens, positions'[k] # positions[k]
    PROVE  Signature(CurrentPosition(k)') # Signature(CurrentPosition(k))
<1>1. CurrentPosition(k).holding = positions[k] /\ CurrentPosition(k)'.holding = positions'[k]
  BY DEF CurrentPosition
<1>. QED
  BY <1>1 DEF Signature

\* The step replaces the record of the order i, which was tracked.
RecordChanges(i) ==
    /\ UNCHANGED <<trades, positions, closed>>
    /\ orders' = [orders EXCEPT ![i] = orders'[i]]

LEMMA RecordMovesPosition ==
    ASSUME LedgerInv, LedgerInv', [Next]_vars, NEW i \in Orders, Tracked(i), RecordChanges(i),
           NEW k \in Tokens, CurrentPosition(k)' # CurrentPosition(k)
    PROVE  /\ orders[i].token = k
           /\ \/ Signature(CurrentPosition(k)') # Signature(CurrentPosition(k))
              \/ orders'[i].pending = orders[i].pending /\ orders'[i].matched # orders[i].matched
<1>1. /\ trades' = trades /\ positions' = positions
      /\ \A o \in Orders : o # i => orders'[o] = orders[o]
  BY DEF RecordChanges, LedgerInv, IInv
<1>2. orders'[i].token = orders[i].token /\ orders'[i].side = orders[i].side
  <2>1. OrderChange(orders[i], tasks[i], orders'[i]) /\ OrderInv(orders[i], tasks[i])
    BY StepChangesOrder DEF LedgerInv, IInv
  <2>. QED
    BY <2>1, TrackedStays DEF Tracked
<1>3. ASSUME NEW o \in Orders, orders'[o].matched = orders[o].matched
      PROVE  OpenShares'[o] = OpenShares[o]
  BY <1>1, <1>3 DEF OpenShares, Settling, OnChain
<1>4. ~ /\ orders'[i].pending = orders[i].pending /\ orders'[i].matched = orders[i].matched
  BY <1>1, <1>2, <1>3, PositionSame
<1>5. orders[i].token = k
  BY <1>1, <1>2, <1>3, PositionSame
<1>6. ASSUME orders'[i].pending # orders[i].pending
      PROVE  Signature(CurrentPosition(k)') # Signature(CurrentPosition(k))
  <2>1. PICK side \in Side : side = orders[i].side
    BY DEF LedgerInv, IInv, OrderRecord
  <2>2. PICK S : S = OrdersOf(k, side)
    OBVIOUS
  <2>3. OrdersOf(k, side)' = S /\ i \in S /\ S \subseteq Orders /\ IsFiniteSet(S)
    BY <1>1, <1>2, <1>5, <2>1, <2>2, OrdersOfFinite, ZenonT(30) DEF OrdersOf, LedgerInv
  <2>4. \A o \in S : PendingShares[o] \in Int /\ PendingShares'[o] \in Int
    BY <2>3 DEF PendingShares, LedgerInv, IInv, OrderRecord
  <2>5. \A o \in S : o # i => PendingShares[o] = PendingShares'[o]
    BY <1>1, <2>3 DEF PendingShares
  <2>6. SumOf(PendingShares', S) = SumOf(PendingShares, S) - PendingShares[i] + PendingShares'[i]
    BY <2>3, <2>4, <2>5, SumChange
  <2>7. SumOf(PendingShares, S) \in Int
    BY <2>3, <2>4, SumInt
  <2>8. PendingShares[i] # PendingShares'[i]
    BY <1>6 DEF PendingShares
  <2>9. SumOf(PendingShares', S) # SumOf(PendingShares, S)
    BY <2>3, <2>4, <2>6, <2>7, <2>8
  <2>. QED
    BY <2>2, <2>3, <2>9, PendingIsSigned
<1>. QED
  BY <1>4, <1>5, <1>6

-----------------------------------------------------------------------------
(* The steps one by one.                                                   *)

\* What StrategyIsTold says of one token.
Told(k) ==
    LET was == CurrentPosition(k)
        is == CurrentPosition(k)'
    IN  is # was =>
          \/ published'[k] = is /\ Signature(is) # Signature(was)
          \/ \E t \in Trades : trades'[t].status # trades[t].status
                             /\ "FAILURE" \in {trades'[t].status, trades[t].status}
          \/ \E o \in Orders : orders[o].token = k /\ orders[o].pending = 0
                             /\ orders'[o].matched > orders[o].matched
          \/ positions'[k] = positions[k] /\ closed'[k] # closed[k]
          \/ \E o \in Orders : orders[o].token = k /\ SubmitFailed(o, TRUE)

LEMMA PublishedIs ==
    ASSUME NEW ks, Publish(ks), NEW k \in Tokens, k \in ks
    PROVE  published'[k] = CurrentPosition(k)'
  BY DEF Publish

LEMMA CreateTold ==
    ASSUME LedgerInv, LedgerInv', NEW i \in Orders, NEW token \in Tokens, NEW side \in Side,
           NEW role \in Role, NEW n \in OrderSizes, CreateOrder(i, token, side, role, n),
           NEW k \in Tokens
    PROVE  Told(k)
<1>1. /\ ~Tracked(i) /\ trades' = trades /\ positions' = positions /\ Publish({token})
      /\ orders'[i] = NewOrder(token, side, role, n)
      /\ \A o \in Orders : o # i => orders'[o] = orders[o]
  BY DEF CreateOrder, LedgerInv, IInv
<1>2. /\ orders'[i].token = token /\ orders'[i].side = side /\ orders'[i].pending = n
      /\ orders[i].token \notin Tokens
  BY <1>1 DEF NewOrder, LedgerInv, TrackingInv
<1>3. CASE k # token
  <2>1. \A o \in Orders : o # i => OpenShares'[o] = OpenShares[o]
    BY <1>1 DEF OpenShares, Settling, OnChain
  <2>2. CurrentPosition(k)' = CurrentPosition(k)
    BY <1>1, <1>2, <1>3, <2>1, PositionSame
  <2>. QED
    BY <2>2 DEF Told
<1>4. CASE k = token
  <2>1. PICK S : S = OrdersOf(k, side)
    OBVIOUS
  <2>2. PICK T : T = OrdersOf(k, side)'
    OBVIOUS
  <2>3. /\ IsFiniteSet(S) /\ S \subseteq Orders /\ i \notin S
        /\ T = S \cup {i}
    BY <1>1, <1>2, <1>4, <2>1, <2>2, OrdersOfFinite DEF OrdersOf, LedgerInv
  <2>4. \A o \in S : PendingShares[o] \in Int /\ PendingShares'[o] = PendingShares[o]
    BY <1>1, <2>3 DEF PendingShares, LedgerInv, IInv, OrderRecord
  <2>5. PendingShares'[i] = n /\ n \in Int /\ n # 0
    BY <1>2, QuantityAssumption DEF PendingShares
  <2>6. SumOf(PendingShares', T) = SumOf(PendingShares, S) + n
    BY <2>3, <2>4, <2>5, SumGrows
  <2>7. SumOf(PendingShares, S) \in Int
    BY <2>3, <2>4, SumInt
  <2>8. SumOf(PendingShares', T) # SumOf(PendingShares, S)
    BY <2>5, <2>6, <2>7
  <2>9. Signature(CurrentPosition(k)') # Signature(CurrentPosition(k))
    BY <2>1, <2>2, <2>8, PendingIsSigned
  <2>10. published'[k] = CurrentPosition(k)'
    BY <1>1, <1>4, PublishedIs
  <2>. QED
    BY <2>9, <2>10 DEF Told
<1>. QED
  BY <1>3, <1>4

\* An order's step that publishes the order's token, when it leaves what is
\* matched alone unless nothing was pending.
LEMMA RecordTold ==
    ASSUME LedgerInv, LedgerInv', [Next]_vars, NEW i \in Orders, Tracked(i), RecordChanges(i),
           NEW k \in Tokens,
           orders[i].token = k => published'[k] = CurrentPosition(k)',
           orders'[i].pending = orders[i].pending /\ orders'[i].matched # orders[i].matched
               => orders[i].pending = 0 /\ orders'[i].matched > orders[i].matched
    PROVE  Told(k)
  BY RecordMovesPosition DEF Told

LEMMA OrderStepTold ==
    ASSUME LedgerInv, LedgerInv', [Next]_vars, NEW i \in Orders, OrderStep(i), NEW k \in Tokens
    PROVE  Told(k)
<1>1. /\ orders \in [Orders -> OrderRecord] /\ orders[i] \in OrderRecord
      /\ OrderInv(orders[i], tasks[i])
  BY DEF LedgerInv, IInv
<1>2. tasks[i].submit > 0 \/ tasks[i].cancel > 0 \/ IsActive(orders[i]) => Tracked(i)
  BY <1>1 DEF OrderInv, NoTask, Tracked, IsActive, ActiveStatus
<1>3. CASE SubmitSuccess(i)
  <2>1. orders' = [orders EXCEPT ![i] = AfterSubmit(orders[i])]
    BY <1>3, Zenon DEF SubmitSuccess, AfterSubmit
  <2>2. Tracked(i) /\ RecordChanges(i)
    BY <1>1, <1>2, <1>3, <2>1 DEF SubmitSuccess, RecordChanges
  <2>3. orders'[i].matched = orders[i].matched
    BY <1>1, <2>1 DEF AfterSubmit, Submitted, CancelRequested, OrderRecord
  <2>4. Submitted(orders[i]).token = orders[i].token
    BY <1>1 DEF Submitted, OrderRecord
  <2>5. Publish({orders[i].token})
    BY <1>3, <2>4 DEF SubmitSuccess
  <2>. QED
    BY <2>2, <2>3, <2>5, PublishedIs, RecordTold
<1>4. ASSUME NEW raised \in BOOLEAN, SubmitFailed(i, raised)
      PROVE  Told(k)
  <2>1. Tracked(i) /\ RecordChanges(i)
    BY <1>1, <1>2, <1>4 DEF SubmitFailed, RecordChanges
  <2>2. orders'[i].matched = orders[i].matched
    BY <1>1, <1>4 DEF SubmitFailed, SubmitRefused, OrderRecord
  <2>3. CASE raised = FALSE
    <3>1. Publish({orders[i].token})
      BY <1>4, <2>3 DEF SubmitFailed
    <3>. QED
      BY <2>1, <2>2, <3>1, PublishedIs, RecordTold
  <2>4. CASE raised = TRUE
    <3>1. CurrentPosition(k)' # CurrentPosition(k) => orders[i].token = k
      BY <2>1, RecordMovesPosition
    <3>2. SubmitFailed(i, TRUE)
      BY <1>4, <2>4
    <3>. QED
      BY <3>1, <3>2, Zenon DEF Told
  <2>. QED
    BY <2>3, <2>4
<1>5. CASE Cancel(i)
  <2>1. Tracked(i) /\ RecordChanges(i)
    BY <1>1, <1>2, <1>5 DEF Cancel, RecordChanges
  <2>2. orders'[i] = CancelRequested(orders[i])
    BY <1>1, <1>5 DEF Cancel
  <2>3. /\ orders'[i].matched = orders[i].matched /\ orders'[i].pending = orders[i].pending
        /\ orders'[i].token = orders[i].token /\ orders'[i].side = orders[i].side
    BY <1>1, <2>2 DEF CancelRequested, OrderRecord
  <2>4. /\ trades' = trades /\ positions' = positions
        /\ \A o \in Orders : o # i => orders'[o] = orders[o]
    BY <2>1 DEF RecordChanges, LedgerInv, IInv
  <2>5. \A o \in Orders : OpenShares'[o] = OpenShares[o]
    BY <2>3, <2>4 DEF OpenShares, Settling, OnChain
  <2>6. CurrentPosition(k)' = CurrentPosition(k)
    BY <2>3, <2>4, <2>5, PositionSame
  <2>. QED
    BY <2>6 DEF Told
<1>6. CASE CancelSuccess(i)
  <2>1. Tracked(i) /\ RecordChanges(i)
    BY <1>1, <1>2, <1>6 DEF CancelSuccess, RecordChanges
  <2>2. orders'[i].matched = orders[i].matched
    BY <1>1, <1>6 DEF CancelSuccess, CancelDone, OrderRecord
  <2>3. Publish({orders[i].token})
    BY <1>6 DEF CancelSuccess
  <2>. QED
    BY <2>1, <2>2, <2>3, PublishedIs, RecordTold
<1>7. ASSUME NEW over \in BOOLEAN, NEW raised \in BOOLEAN, CancelFailed(i, over, raised)
      PROVE  Told(k)
  <2>1. orders' = [orders EXCEPT ![i] = [orders[i] EXCEPT !.is_cancelling = FALSE]]
    BY <1>7, Zenon DEF CancelFailed
  <2>2. /\ orders'[i].matched = orders[i].matched /\ orders'[i].pending = orders[i].pending
        /\ orders'[i].token = orders[i].token /\ orders'[i].side = orders[i].side
    BY <1>1, <2>1 DEF OrderRecord
  <2>3. /\ trades' = trades /\ positions' = positions
        /\ \A o \in Orders : o # i => orders'[o] = orders[o]
    BY <1>1, <1>7, <2>1 DEF CancelFailed
  <2>4. \A o \in Orders : OpenShares'[o] = OpenShares[o]
    BY <2>2, <2>3 DEF OpenShares, Settling, OnChain
  <2>5. CurrentPosition(k)' = CurrentPosition(k)
    BY <2>2, <2>3, <2>4, PositionSame
  <2>. QED
    BY <2>5 DEF Told
<1>8. CASE SyncFails(i)
  <2>1. orders' = orders /\ trades' = trades /\ positions' = positions
    BY <1>8 DEF SyncFails
  <2>2. \A o \in Orders : OpenShares'[o] = OpenShares[o]
    BY <2>1 DEF OpenShares, Settling, OnChain
  <2>3. CurrentPosition(k)' = CurrentPosition(k)
    BY <2>1, <2>2, PositionSame
  <2>. QED
    BY <2>3 DEF Told
<1>. QED
  BY <1>3, <1>4, <1>5, <1>6, <1>7, <1>8, CreateTold, Zenon DEF OrderStep

LEMMA OrderEventTold ==
    ASSUME LedgerInv, WholeInv, LedgerInv', [Next]_vars, NEW e \in OrderEvents,
           HandleOrderEvent(e) \/ SyncReturns(e), NEW k \in Tokens
    PROVE  Told(k)
<1>1. PICK i \in Orders : i = e.order
  BY DEF OrderEvents
<1>2. /\ orders \in [Orders -> OrderRecord] /\ OrderInv(orders[i], tasks[i])
      /\ e.matched <= orders[i].shares /\ Whole(orders[i])
      /\ e.token = orders[i].token /\ e.token \in Tokens
  BY <1>1 DEF LedgerInv, IInv, WholeInv, HandleOrderEvent, SyncReturns, Reportable, Accepted,
              OrderEvents
<1>3. orders' = [orders EXCEPT ![i] = AfterEvent(orders[i], e)]
  BY <1>1 DEF HandleOrderEvent, SyncReturns
<1>4. orders'[i] = AfterEvent(orders[i], e) /\ Tracked(i)
  BY <1>2, <1>3 DEF LedgerInv, TrackingInv
<1>5. RecordChanges(i)
  BY <1>3, <1>4 DEF RecordChanges, HandleOrderEvent, SyncReturns
<1>6. Publish({e.token})
  BY DEF HandleOrderEvent, SyncReturns
<1>7. orders'[i].pending = orders[i].pending /\ orders'[i].matched # orders[i].matched
         => orders[i].pending = 0 /\ orders'[i].matched > orders[i].matched
  BY <1>2, <1>4, ReportMoves
<1>. QED
  BY <1>2, <1>4, <1>5, <1>6, <1>7, PublishedIs, RecordTold

\* The orders of other tokens have other trades.
LEMMA TradeOfOtherToken ==
    ASSUME LedgerInv, LedgerInv', NEW e \in TradeEvents, HandleTradeEvent(e), NEW o \in Orders,
           orders[o].token # e.token
    PROVE  OpenShares'[o] = OpenShares[o]
<1>1. /\ orders' = orders /\ e.trade \in Trades /\ e.token = orders[e.order].token
      /\ trades'[e.trade].order = e.order
      /\ \A t \in Trades : t # e.trade => trades'[t] = trades[t]
      /\ trades[e.trade].status # "UNTRACKED" => e.order = trades[e.trade].order
  BY DEF HandleTradeEvent, TradeEvents, Accepted, Repeats, LedgerInv, IInv
<1>2. ASSUME NEW status \in {"SUCCESS", "FAILURE"}
      PROVE  OnChain(o, status)' = OnChain(o, status)
  <2>1. PICK S : S = OnChainTrades(o, status)
    OBVIOUS
  <2>2. PICK f : f = [t \in Trades |-> trades[t].shares]
    OBVIOUS
  <2>3. PICK g : g = [t \in Trades |-> trades'[t].shares]
    OBVIOUS
  <2>4. e.trade \notin S /\ OnChainTrades(o, status)' = S /\ S \subseteq Trades
    BY <1>1, <2>1 DEF OnChainTrades
  <2>5. IsFiniteSet(S) /\ \A t \in S : f[t] = g[t]
    BY <1>1, <2>1, <2>2, <2>3, <2>4, OnChainInt DEF LedgerInv
  <2>6. OnChain(o, status) = SumOf(f, S) /\ OnChain(o, status)' = SumOf(g, S)
    BY <2>1, <2>2, <2>3, <2>4 DEF OnChain, OnChainTrades
  <2>. QED
    BY <2>5, <2>6, SumSame
<1>. QED
  BY <1>1, <1>2 DEF OpenShares, Settling

\* A report that moves a trade neither to nor from failure, nor settles it,
\* leaves what is settling alone.
LEMMA ReportLeavesSettling ==
    ASSUME LedgerInv, LedgerInv', NEW e \in TradeEvents, HandleTradeEvent(e), ~BecomesSuccess(e),
           \A t \in Trades : trades'[t].status # trades[t].status =>
               "FAILURE" \notin {trades'[t].status, trades[t].status},
           NEW o \in Orders
    PROVE  OpenShares'[o] = OpenShares[o]
<1>1. /\ orders' = orders /\ e.trade \in Trades
      /\ trades'[e.trade].order = e.order /\ trades'[e.trade].shares = e.shares
      /\ \A t \in Trades : t # e.trade => trades'[t] = trades[t]
      /\ trades[e.trade].status # "UNTRACKED" =>
            e.order = trades[e.trade].order /\ e.shares = trades[e.trade].shares
  BY DEF HandleTradeEvent, TradeEvents, Repeats, LedgerInv, IInv
<1>2. \A t \in Trades :
        /\ trades[t].status = "SUCCESS" <=> trades'[t].status = "SUCCESS"
        /\ trades[t].status = "SUCCESS" => trades'[t] = trades[t]
  BY SettledTradesKept DEF LedgerInv
<1>3. \A t \in Trades :
        /\ trades[t].status = "FAILURE" <=> trades'[t].status = "FAILURE"
        /\ trades[t].status = "FAILURE" =>
              trades'[t].order = trades[t].order /\ trades'[t].shares = trades[t].shares
  BY <1>1
<1>4. ASSUME NEW status \in {"SUCCESS", "FAILURE"}
      PROVE  OnChain(o, status)' = OnChain(o, status)
  <2>1. PICK S : S = OnChainTrades(o, status)
    OBVIOUS
  <2>2. PICK f : f = [t \in Trades |-> trades[t].shares]
    OBVIOUS
  <2>3. PICK g : g = [t \in Trades |-> trades'[t].shares]
    OBVIOUS
  <2>4. \A t \in Trades :
          /\ trades[t].status = status <=> trades'[t].status = status
          /\ trades[t].status = status =>
                trades'[t].order = trades[t].order /\ trades'[t].shares = trades[t].shares
    BY <1>2, <1>3
  <2>5. OnChainTrades(o, status)' = S /\ S \subseteq Trades
    BY <2>1, <2>4 DEF OnChainTrades
  <2>6. IsFiniteSet(S)
    BY <2>1, OnChainInt DEF LedgerInv
  <2>7. \A t \in S : f[t] = g[t]
    BY <2>1, <2>2, <2>3, <2>4 DEF OnChainTrades
  <2>8. OnChain(o, status) = SumOf(f, S) /\ OnChain(o, status)' = SumOf(g, S)
    BY <2>1, <2>2, <2>3, <2>5 DEF OnChain, OnChainTrades
  <2>. QED
    BY <2>6, <2>7, <2>8, SumSame
<1>. QED
  BY <1>1, <1>4 DEF OpenShares, Settling

\* A trade that settles and leaves the holding as it was has left dust.
LEMMA SettledIntoDust ==
    ASSUME LedgerInv, NEW e \in TradeEvents, HandleTradeEvent(e), BecomesSuccess(e),
           positions'[e.token] = positions[e.token]
    PROVE  closed'[e.token] # closed[e.token]
<1>1. PICK k \in Tokens : k = e.token
  BY DEF TradeEvents
<1>2. PICK side \in Side : side = orders[e.order].side
  BY DEF LedgerInv, IInv, TradeEvents, OrderRecord
<1>3. e.shares \in Nat /\ e.shares # 0 /\ e.price \in Nat
  BY QuantityAssumption DEF TradeEvents
<1>4. PICK a \in Int : a = CashAmount(e, side)
  <2>1. e.shares * e.price \in Nat /\ e.shares * FeePrice \in Nat
    BY <1>3, ProductNat, QuantityAssumption
  <2>. QED
    BY <2>1 DEF CashAmount, FeeAmount
<1>5. PICK p : p = positions[k]
  OBVIOUS
<1>6. PICK c \in Books : c = closed[k]
  BY DEF LedgerInv
<1>7. PositionInv(p)
  BY <1>5 DEF LedgerInv, IInv
<1>8. PICK q : q = ApplyConfirmedTrade(p, side, a, e.shares)
  OBVIOUS
<1>9. q \in Account /\ q.shares = IF side = "BUY" THEN p.shares + e.shares ELSE p.shares - e.shares
  BY <1>3, <1>7, <1>8, AppliedBooks
<1>10. ClearDust(q).shares + Residue(c, q).shares = q.shares + c.shares
  BY <1>9, ClearedBooks
<1>11. positions' = [positions EXCEPT ![k] = ClearDust(q)]
  BY <1>1, <1>2, <1>4, <1>5, <1>8 DEF HandleTradeEvent
<1>12. closed' = [closed EXCEPT ![k] = Residue(closed[k], q)]
  BY <1>1, <1>2, <1>4, <1>5, <1>8 DEF HandleTradeEvent
<1>13. positions'[k] = ClearDust(q) /\ closed'[k] = Residue(c, q)
  BY <1>6, <1>11, <1>12 DEF LedgerInv, IInv
<1>14. p.shares \in Int /\ c.shares \in Int
  BY <1>7 DEF PositionInv, Position, Books
<1>15. ClearDust(q) = p
  BY <1>1, <1>5, <1>13
<1>16. p.shares + Residue(c, q).shares = q.shares + c.shares
  BY <1>10, <1>15
<1>17. ASSUME Residue(c, q) = c
       PROVE  FALSE
  BY <1>3, <1>9, <1>14, <1>16, <1>17
<1>. QED
  BY <1>1, <1>6, <1>13, <1>17

LEMMA TradeEventTold ==
    ASSUME LedgerInv, LedgerInv', NEW e \in TradeEvents, HandleTradeEvent(e), NEW k \in Tokens
    PROVE  Told(k)
<1>1. /\ orders' = orders /\ Publish({e.token}) /\ e.token \in Tokens
      /\ \A j \in Tokens : j # e.token => positions'[j] = positions[j]
  BY DEF HandleTradeEvent, TradeEvents, LedgerInv, IInv
<1>2. CASE k # e.token
  <2>1. CurrentPosition(k)' = CurrentPosition(k)
    BY <1>1, <1>2, TradeOfOtherToken, PositionSame
  <2>. QED
    BY <2>1 DEF Told
<1>3. CASE k = e.token /\ BecomesSuccess(e)
  <2>1. CASE positions'[k] = positions[k]
    BY <1>3, <2>1, SettledIntoDust DEF Told
  <2>2. CASE positions'[k] # positions[k]
    BY <1>1, <1>3, <2>2, HoldingIsSigned, PublishedIs DEF Told
  <2>. QED
    BY <2>1, <2>2
<1>4. CASE k = e.token /\ ~BecomesSuccess(e)
  <2>1. CASE \A t \in Trades : trades'[t].status # trades[t].status =>
               "FAILURE" \notin {trades'[t].status, trades[t].status}
    <3>1. positions' = positions
      BY <1>4 DEF HandleTradeEvent
    <3>2. \A o \in Orders : OpenShares'[o] = OpenShares[o]
      BY <1>4, <2>1, ReportLeavesSettling
    <3>3. CurrentPosition(k)' = CurrentPosition(k)
      BY <1>1, <3>1, <3>2, PositionSame
    <3>. QED
      BY <3>3 DEF Told
  <2>2. CASE \E t \in Trades : trades'[t].status # trades[t].status
                             /\ "FAILURE" \in {trades'[t].status, trades[t].status}
    BY <2>2, Zenon DEF Told
  <2>. QED
    BY <2>1, <2>2
<1>. QED
  BY <1>2, <1>3, <1>4

LEMMA SettleTold ==
    ASSUME LedgerInv, LedgerInv', NEW winner \in Tokens, SettleMarket(winner), NEW k \in Tokens
    PROVE  Told(k)
<1>1. orders' = orders /\ trades' = trades /\ Publish(Tokens)
  BY DEF SettleMarket
<1>2. CASE positions'[k] = positions[k]
  <2>1. \A o \in Orders : OpenShares'[o] = OpenShares[o]
    BY <1>1 DEF OpenShares, Settling, OnChain
  <2>2. CurrentPosition(k)' = CurrentPosition(k)
    BY <1>1, <1>2, <2>1, PositionSame
  <2>. QED
    BY <2>2 DEF Told
<1>3. CASE positions'[k] # positions[k]
  BY <1>1, <1>3, HoldingIsSigned, PublishedIs DEF Told
<1>. QED
  BY <1>2, <1>3

LEMMA StepTold ==
    ASSUME LedgerInv, WholeInv, [Next]_vars
    PROVE  WholeInv' /\ \A k \in Tokens : Told(k)
<1>1. LedgerInv'
  BY StepLedger
<1>2. ASSUME NEW o \in Orders
      PROVE  Whole(orders'[o])
  <2>1. OrderChange(orders[o], tasks[o], orders'[o]) /\ OrderInv(orders[o], tasks[o])
    BY StepChangesOrder DEF LedgerInv, IInv
  <2>. QED
    BY <2>1, WholeStays DEF WholeInv
<1>3. ASSUME NEW k \in Tokens
      PROVE  Told(k)
  <2>1. CASE UNCHANGED vars
    BY <2>1 DEF vars, Told, CurrentPosition, OrdersOf, Settling, OnChain
  <2>2. CASE Next
    BY <1>1, <2>2, OrderStepTold, OrderEventTold, TradeEventTold, SettleTold, Zenon DEF Next
  <2>. QED
    BY <2>1, <2>2
<1>. QED
  BY <1>2, <1>3 DEF WholeInv

\* Pending and matched shares are all of the order as long as any are pending,
\* which no handler and no late report upsets (manager.py:279-466).
THEOREM WholeHolds == Spec => []WholeInv
<1>1. Init => WholeInv
  BY DEF Init, WholeInv, Whole, NoOrder
<1>2. LedgerInv /\ WholeInv /\ [Next]_vars => WholeInv'
  BY StepTold
<1>. QED
  BY <1>1, <1>2, BooksKept, PTL DEF Spec

\* With the invariant of the manager this says what the runs check.
LEMMA WholeImplies ==
    ASSUME IInv, WholeInv
    PROVE  PendingIsWhole
<1>. SUFFICES ASSUME NEW o \in Orders
              PROVE  LET r == orders[o] IN
                     /\ r.pending > 0 => /\ r.pending = r.shares - r.matched /\ r.invalid = 0
                                         /\ ~IsCanceled(r) /\ r.status # "SUB_FAILED"
                     /\ r.status = "SUBMITTING" => /\ r.pending = r.shares /\ r.matched = 0
                                                   /\ tasks[o].submit = 1
                     /\ r.status = "PART_MATCHED" =>
                          /\ 0 < r.matched /\ 100 * r.matched < 98 * r.shares
                          /\ r.shares - r.matched > Dust
                     /\ r.status = "PART_MATCHED_CANCELED" => r.matched > 0
  BY DEF PendingIsWhole
<1>. DEFINE r == orders[o]
<1>1. OrderInv(r, tasks[o]) /\ Whole(r)
  BY DEF IInv, WholeInv
<1>. HIDE DEF r
<1>2. /\ r.pending \in Nat /\ r.matched \in Nat /\ r.invalid \in Nat /\ r.shares \in Nat
      /\ r.matched + r.pending + r.invalid <= r.shares
  BY <1>1 DEF OrderInv, OrderRecord
<1>3. r.pending > 0 => /\ r.pending = r.shares - r.matched /\ r.invalid = 0
                       /\ ~IsCanceled(r) /\ r.status # "SUB_FAILED"
  BY <1>1, <1>2 DEF OrderInv, Whole
<1>4. r.status = "PART_MATCHED" => /\ 0 < r.matched /\ 100 * r.matched < 98 * r.shares
                                   /\ r.shares - r.matched > Dust
  <2>. SUFFICES ASSUME r.status = "PART_MATCHED"
                PROVE  /\ 0 < r.matched /\ 100 * r.matched < 98 * r.shares
                       /\ r.shares - r.matched > Dust
    OBVIOUS
  <2>1. r.matched > 0 /\ ~(100 * r.matched >= 98 * r.shares) /\ ~(r.pending <= Dust)
    BY <1>1 DEF OrderInv, IsFull
  <2>2. Dust \in Nat
    BY QuantityAssumption
  <2>. QED
    BY <1>2, <1>3, <2>1, <2>2
<1>5. /\ r.status = "SUBMITTING" => r.pending = r.shares /\ r.matched = 0 /\ tasks[o].submit = 1
      /\ r.status = "PART_MATCHED_CANCELED" => r.matched > 0
  BY <1>1 DEF OrderInv
<1>. QED
  BY <1>3, <1>4, <1>5 DEF r

\* As long as an order has shares pending they are exactly what it has not
\* matched, none of it is written off and it is not called over; an order
\* still submitting, partly matched, or canceled as such has what enums.py:38,
\* 41 and 44 say, whatever the order in which calls return and events arrive
\* (manager.py:279-466).
THEOREM PendingCorrect == Spec => []PendingIsWhole
<1>1. LedgerInv => IInv
  BY DEF LedgerInv
<1>2. IInv /\ WholeInv => PendingIsWhole
  BY WholeImplies
<1>. QED
  BY <1>1, <1>2, BooksKept, WholeHolds, PTL

\* Every change of a position is published with a signature the runtime state
\* can tell from the last, but for what its signature leaves out and for a
\* submit call that raises, whatever the venue reports and in whatever order
\* its calls return (manager.py:601-634, runtime_state.py:114-122).
THEOREM StrategyToldCorrect == Spec => StrategyIsTold
<1>1. LedgerInv /\ WholeInv /\ [Next]_vars => \A k \in Tokens : Told(k)
  BY StepTold
<1>. QED
  BY <1>1, BooksKept, WholeHolds, PTL DEF Spec, StrategyIsTold, Told
=============================================================================
