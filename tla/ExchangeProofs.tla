--------------------------- MODULE ExchangeProofs ---------------------------
(***************************************************************************)
(* Proofs about module Exchange, for every value of its constants.          *)
(***************************************************************************)
EXTENDS ExchangeProperties, SequenceTheorems, WellFoundedInduction, TLAPS

-----------------------------------------------------------------------------
(***************************************************************************)
(* The fill rules.                                                         *)
(***************************************************************************)
\* The values of a bar set are numbers.
LEMMA BarTypes ==
  ASSUME NEW v \in ValueMaps, NEW s \in DOMAIN v
  PROVE  /\ s \in Symbols
         /\ v[s].open \in Nat /\ v[s].high \in Nat
         /\ v[s].low \in Nat /\ v[s].close \in Nat /\ v[s].volume \in Nat
BY ValuesAssumption

\* The trigger prices are 0, the bar's open or the level asked for.
LEMMA TriggerTypes ==
  ASSUME NEW bar, bar.open \in Nat, bar.high \in Nat, bar.low \in Nat,
         NEW level \in Nat
  PROVE  RiseTo(level, bar) \in Nat /\ FallTo(level, bar) \in Nat
BY DEF RiseTo, FallTo

\* An order that can still execute and a volume known: a fill is of at least
\* one share, of what remains of the order, and of the volume that is left; an
\* all-or-none order is filled with all that remains of it.
LEMMA FillBounds ==
  ASSUME NEW order \in Orders, Remaining(order) \in Nat,
         NEW bar, bar.open \in Nat, bar.high \in Nat, bar.low \in Nat, bar.close \in Nat,
         NEW left \in Nat
  PROVE  LET fill == Process(order, bar, left)
         IN  /\ fill.outcome \in Fills
             /\ fill.price \in Nat /\ fill.quantity \in Nat
             /\ fill.outcome = "fill" =>
                   /\ fill.quantity \in 1..Remaining(order)
                   /\ 4 * fill.quantity <= left
                   /\ order.spec.aon => fill.quantity = Remaining(order)
<1> DEFINE size == FillSize(order, left)
           spec == order.spec
           Good(fill) == /\ fill.outcome \in Fills
                         /\ fill.price \in Nat /\ fill.quantity \in Nat
                         /\ fill.outcome = "fill" =>
                               /\ fill.quantity \in 1..Remaining(order)
                               /\ 4 * fill.quantity <= left
                               /\ order.spec.aon => fill.quantity = Remaining(order)
           Fits == ~AllOrNoneFails(order, left)
<1>1. spec.stop \in Nat /\ spec.limit \in Nat
  BY SpecsAssumption DEF Orders
<1>2. /\ size \in Nat /\ size <= 4 * Remaining(order) /\ size <= left
      /\ Fits /\ order.spec.aon => size = 4 * Remaining(order)
  <2> HIDE DEF spec
  <2> QED BY DEF FillSize, AllOrNoneFails
<1>3. LimitPriceTrigger(spec, bar) \in Nat /\ TriggerOf(order, bar) \in Nat
  BY <1>1, TriggerTypes DEF LimitPriceTrigger, TriggerOf, StopPriceTrigger
<1>4. ASSUME NEW price \in Nat, Fits
      PROVE  Good(FillInfo(price, size))
  <2> HIDE DEF size
  <2>1. CASE price = 0 \/ size \div 4 = 0
    BY <2>1 DEF FillInfo, FailedAssert, Fills
  <2>2. CASE price # 0 /\ size \div 4 # 0
    <3> Remaining(order) \in Nat
      OBVIOUS
    <3> HIDE DEF Remaining
    <3>1. /\ size \div 4 \in 1..Remaining(order)
          /\ 4 * (size \div 4) <= left
          /\ order.spec.aon => size \div 4 = Remaining(order)
      BY <1>2, <1>4, <2>2
    <3>2. FillInfo(price, size) = [outcome |-> "fill", price |-> price, quantity |-> size \div 4]
      BY <2>2 DEF FillInfo
    <3> QED BY <3>1, <3>2 DEF Fills
  <2> QED BY <2>1, <2>2
<1>5. Good(NoFill) /\ Good(FailedAssert("all_or_none"))
  BY DEF NoFill, FailedAssert, Fills
<1>6. Fits => Good(MarketFill(order, bar, left))
  <2> HIDE DEF Good, Fits
  <2> QED BY <1>4, <1>5 DEF MarketFill
<1>7. Fits => Good(LimitFill(order, bar, left))
  <2> HIDE DEF Good, Fits
  <2> QED BY <1>3, <1>4, <1>5 DEF LimitFill
<1>8. Fits => Good(StopFill(order, bar, left, TriggerOf(order, bar)))
  <2> HIDE DEF Good, Fits
  <2> QED BY <1>3, <1>4, <1>5 DEF StopFill
<1>9. Fits => Good(StopLimitFill(order, bar, left, TriggerOf(order, bar)))
  <2> HIDE DEF Good, Fits
  <2> QED BY <1>1, <1>3, <1>4, <1>5 DEF StopLimitFill
<1> HIDE DEF Good
<1>10. Good(Process(order, bar, left))
  BY <1>5, <1>6, <1>7, <1>8, <1>9 DEF Process
<1> QED BY <1>10 DEF Good

-----------------------------------------------------------------------------
(***************************************************************************)
(* Orders.                                                                 *)
(***************************************************************************)
\* Order::switch_state keeps an order an order and touches its state only.
LEMMA SwitchStateTypes ==
  ASSUME NEW order \in Orders, NEW new \in States
  PROVE  /\ SwitchState(order, new) \in Orders
         /\ SwitchState(order, new) = [order EXCEPT !.state = SwitchState(order, new).state]
         /\ new \in ValidStates(order.state) => SwitchState(order, new).state = new
BY DEF SwitchState, Orders

\* The two sums of add_info.
LEMMA AddedTypes ==
  ASSUME NEW order \in Orders, NEW n \in Nat, NEW amount \in Nat
  PROVE  LET added == [order EXCEPT !.filled = @ + n, !.paid = @ + amount]
         IN  /\ added \in Orders /\ added.spec = order.spec /\ added.state = order.state
             /\ added.filled = order.filled + n /\ added.paid = order.paid + amount
<1>1. order.filled + n \in Nat /\ order.paid + amount \in Nat
  BY DEF Orders
<1>2. ASSUME NEW f \in Nat, NEW p \in Nat
      PROVE  LET added == [order EXCEPT !.filled = f, !.paid = p]
             IN  /\ added \in Orders /\ added.spec = order.spec
                 /\ added.state = order.state /\ added.filled = f /\ added.paid = p
  BY DEF Orders
<1> QED BY <1>1, <1>2

\* Order::add_info for a fill of part, or all, of what remains.
LEMMA AddInfoEffect ==
  ASSUME NEW order \in Orders, order.state \in {"Accepted", "PartiallyFilled"},
         NEW price \in Nat, NEW n \in Nat \ {0},
         order.filled + n <= order.spec.quantity
  PROVE  LET o == AddInfo(order, price, n)
         IN  /\ o \in Orders
             /\ o.spec = order.spec
             /\ o.filled = order.filled + n
             /\ o.paid = order.paid + price * n
             /\ o.state = IF o.filled = o.spec.quantity THEN "Filled" ELSE "PartiallyFilled"
<1> DEFINE added == [order EXCEPT !.filled = @ + n, !.paid = @ + price * n]
           new == IF Remaining(added) = 0 THEN "Filled" ELSE "PartiallyFilled"
<1>1. order.spec.quantity \in Nat
  BY SpecsAssumption DEF Orders
<1>2. price * n \in Nat
  OBVIOUS
<1>3. /\ added \in Orders /\ added.spec = order.spec /\ added.state = order.state
      /\ added.filled = order.filled + n /\ added.paid = order.paid + price * n
  <2> HIDE DEF new
  <2> DEFINE amount == price * n
  <2>1. amount \in Nat
    BY <1>2
  <2> HIDE DEF amount
  <2>2. LET a == [order EXCEPT !.filled = @ + n, !.paid = @ + amount]
        IN  /\ a \in Orders /\ a.spec = order.spec /\ a.state = order.state
            /\ a.filled = order.filled + n /\ a.paid = order.paid + amount
    BY <2>1, AddedTypes
  <2> QED BY <2>2 DEF amount
<1>4. new \in ValidStates(added.state) /\ new \in States
  BY <1>3 DEF ValidStates, States
<1>5. AddInfo(order, price, n) = [added EXCEPT !.state = new]
  BY <1>4 DEF AddInfo, SwitchState
<1>6. new = IF added.filled = added.spec.quantity THEN "Filled" ELSE "PartiallyFilled"
  <2> HIDE DEF added
  <2> QED BY <1>1, <1>3 DEF Remaining, Orders
<1> HIDE DEF added, new
<1> QED BY <1>3, <1>4, <1>5, <1>6 DEF Orders

-----------------------------------------------------------------------------
(***************************************************************************)
(* The walk's iterator.                                                    *)
(***************************************************************************)
\* ++iter leads to a registered order or to the end, or the program dies.
LEMMA AdvanceEffect ==
  ASSUME NEW id, Advance(id)
  PROVE  \/ cursor' \in book' \cup {NoCursor} /\ fault' = fault
         \/ cursor' = cursor /\ fault' = "wild_iterator"
BY DEF Advance, After

-----------------------------------------------------------------------------
(***************************************************************************)
(* The arithmetic of shares.                                               *)
(***************************************************************************)
\* A set of natural numbers that is not empty has a smallest one.
LEMMA LeastOfSet ==
  ASSUME NEW S, S \subseteq Nat, S # {}
  PROVE  Min(S) \in S /\ \A n \in S : Min(S) <= n
<1> DEFINE R == OpToRel(<, Nat)
<1>1. \A m, n \in Nat : << m, n >> \in R <=> m < n
  BY DEF OpToRel
<1>2. \E m \in S : \A n \in S : << n, m >> \notin R
  BY NatLessThanWellFounded, WFMin, Zenon
<1> HIDE DEF R
<1>3. PICK m \in S : \A n \in S : << n, m >> \notin R
  BY <1>2
<1>4. \A n \in S : ~(n < m)
  BY <1>1, <1>3
<1>5. \A n \in S : m <= n
  BY <1>4
<1> QED BY <1>5 DEF Min

\* Of a size_t the neighbouring doubles are some natural number apart, and up
\* to Exact one.
LEMMA SpacingFacts ==
  ASSUME NEW n \in Nat, n <= Word
  PROVE  Spacing(n) \in Nat \ {0} /\ (n <= Exact => Spacing(n) = 1)
<1> DEFINE S == {s \in Spacings : n <= Exact * s}
<1>1. Word \in Nat /\ Exact \in Nat /\ Spacings \subseteq Nat \ {0} /\ 1 \in Spacings
  BY PrecisionAssumption
<1>2. S # {}
  <2>1. PICK s \in Spacings : Word <= Exact * s
    BY PrecisionAssumption
  <2> DEFINE reach == Exact * s
  <2>2. reach \in Int
    BY <1>1
  <2> HIDE DEF reach
  <2>3. n <= reach
    BY <1>1, <2>1, <2>2 DEF reach
  <2> QED BY <2>3 DEF reach
<1>3. S \subseteq Nat /\ S \subseteq Nat \ {0}
  BY <1>1
<1>4. n <= Exact => 1 \in S
  <2>1. Exact * 1 = Exact
    BY <1>1
  <2> QED BY <1>1, <2>1
<1>5. Spacing(n) = Min(S)
  BY Zenon DEF Spacing
<1> HIDE DEF S
<1>6. Min(S) \in S /\ \A m \in S : Min(S) <= m
  BY <1>2, <1>3, LeastOfSet
<1> DEFINE least == Min(S)
<1>7. least \in Nat \ {0} /\ (n <= Exact => least <= 1)
  BY <1>3, <1>4, <1>6
<1> HIDE DEF least
<1>8. least \in Nat \ {0} /\ (n <= Exact => least = 1)
  BY <1>7
<1> QED BY <1>5, <1>8 DEF least

\* The nearest double is a natural number, up to Exact the same one.
LEMMA DoubleFacts ==
  ASSUME NEW n \in Nat, n <= Word
  PROVE  Double(n) \in Nat /\ (n <= Exact => Double(n) = n)
<1> DEFINE s == Spacing(n)
           over == n % s
<1>1. s \in Nat \ {0} /\ (n <= Exact => s = 1)
  BY SpacingFacts
<1>2. \A k \in Nat \ {0} : n % k \in Nat /\ n % k <= n
  OBVIOUS
<1>3. n % 1 = 0
  OBVIOUS
<1>4. Double(n) \in {n - over, (n - over) + s}
  BY Zenon DEF Double
<1>5. n <= Exact => Double(n) = n - over
  <2> SUFFICES ASSUME n <= Exact PROVE Double(n) = n - over
    OBVIOUS
  <2>1. 2 * over < s
    BY <1>1, <1>3
  <2> QED BY <2>1, Zenon DEF Double
<1>6. over \in Nat /\ over <= n /\ (n <= Exact => over = 0)
  BY <1>1, <1>2, <1>3
<1> HIDE DEF s, over
<1> QED BY <1>1, <1>4, <1>5, <1>6

\* Whatever the target does, the conversion of an integral double is a size_t.
LEMMA ToSizeFacts ==
  ASSUME NEW x \in Int, NEW cast
  PROVE  ToSize(x, cast) \in Nat /\ ToSize(x, cast) <= Word /\ (x \in 0..Word - 1 => ToSize(x, cast) = x)
<1>1. Word \in Nat \ {0}
  BY PrecisionAssumption
<1>2. x % Word \in 0..Word - 1
  BY <1>1
<1> QED BY <1>1, <1>2 DEF ToSize

\* round_ answers a natural number.
LEMMA RoundWordNat ==
  ASSUME NEW n \in Int, NEW cast
  PROVE  RoundWord(n, cast) \in Nat
<1> DEFINE a == n % Word
           b == a * Scale
           m == b % Word
           d == Double(m)
           t == ToSize(d, cast)
<1>1. Word \in Nat \ {0} /\ Scale \in Nat \ {0}
  BY PrecisionAssumption
<1>2. a \in Nat
  BY <1>1
<1>3. b \in Nat
  <2> HIDE DEF a
  <2> QED BY <1>1, <1>2
<1>4. m \in Nat /\ m <= Word
  <2> HIDE DEF b
  <2> QED BY <1>1, <1>3
<1>5. d \in Nat
  <2> HIDE DEF m
  <2> QED BY <1>4, DoubleFacts
<1>6. t \in Nat
  <2> HIDE DEF d
  <2> QED BY <1>5, ToSizeFacts
<1>7. RoundWord(n, cast) = t \div Scale
  BY Zenon DEF RoundWord
<1> HIDE DEF t
<1> QED BY <1>1, <1>6, <1>7

\* Every outcome SharesAfter allows leaves shares natural numbers.
LEMMA SharesTypes ==
  ASSUME shares \in [Symbols -> Nat], NEW spec \in OrderSpecs, NEW n \in Nat
  PROVE  SharesAfter(spec, n) \subseteq [Symbols -> Nat]
<1> SUFFICES ASSUME NEW after \in SharesAfter(spec, n) PROVE after \in [Symbols -> Nat]
  OBVIOUS
<1> DEFINE Delta(cast) == IF Buys(spec) THEN n ELSE ToSize(-Double(n % Word), cast)
<1>1. PICK cast \in Casts :
        after = [shares EXCEPT ![spec.symbol] = RoundWord(@ + Delta(cast), cast)]
  BY Zenon DEF SharesAfter
<1>2. spec.symbol \in Symbols /\ shares[spec.symbol] \in Nat
  BY SpecsAssumption
<1>3. Delta(cast) \in Int
  <2> DEFINE m == n % Word
             d == Double(m)
  <2>1. m \in Nat /\ m <= Word
    BY PrecisionAssumption
  <2>2. d \in Nat
    <3> HIDE DEF m
    <3> QED BY <2>1, DoubleFacts
  <2>3. ToSize(-d, cast) \in Nat
    <3> HIDE DEF d
    <3>1. -d \in Int
      BY <2>2
    <3> QED BY <3>1, ToSizeFacts
  <2> QED BY <2>3
<1> DEFINE sum == shares[spec.symbol] + Delta(cast)
<1>4. sum \in Int
  <2> HIDE DEF Delta
  <2> QED BY <1>2, <1>3
<1> HIDE DEF Delta
<1>5. RoundWord(sum, cast) \in Nat
  <2> HIDE DEF sum
  <2> QED BY <1>4, RoundWordNat
<1>6. after = [shares EXCEPT ![spec.symbol] = RoundWord(sum, cast)]
  BY <1>1
<1> HIDE DEF sum
<1> QED BY <1>2, <1>5, <1>6

-----------------------------------------------------------------------------
(***************************************************************************)
(* The inductive invariant.                                                *)
(***************************************************************************)
\* An order replaced by another one keeps the list a list of orders.
LEMMA ReplaceOrder ==
  ASSUME orders \in Seq(Orders), NEW id \in Ids, NEW o \in Orders,
         orders' = [orders EXCEPT ![id] = o]
  PROVE  /\ orders' \in Seq(Orders) /\ Len(orders') = Len(orders)
         /\ Ids' = Ids
         /\ \A i \in Ids : orders'[i] = IF i = id THEN o ELSE orders[i]
         /\ \A i \in Ids : orders[i] \in Orders
BY ExceptSeq, ElementOfSeq DEF Ids

\* A sequence and one element more.
LEMMA AppendFacts ==
  ASSUME NEW S, NEW seq \in Seq(S), NEW e \in S
  PROVE  /\ Append(seq, e) \in Seq(S)
         /\ Len(seq) \in Nat /\ Len(Append(seq, e)) = Len(seq) + 1
         /\ Append(seq, e)[Len(seq) + 1] = e
         /\ \A k \in 1..Len(seq) : Append(seq, e)[k] = seq[k]
         /\ Append(seq, e) # << >>
         /\ seq # << >> => Len(seq) > 0
<1>1. Len(seq) \in Nat /\ (seq # << >> => Len(seq) > 0)
  BY LenProperties, EmptySeq
<1>2. /\ Append(seq, e) \in Seq(S) /\ Len(Append(seq, e)) = Len(seq) + 1
      /\ Append(seq, e)[Len(seq) + 1] = e
      /\ \A k \in 1..Len(seq) : Append(seq, e)[k] = seq[k]
  BY AppendProperties
<1>3. Append(seq, e) # << >>
  BY <1>1, <1>2, EmptySeq
<1> QED BY <1>1, <1>2, <1>3

\* A sequence without its last element.
LEMMA PopFacts ==
  ASSUME NEW S, NEW seq \in Seq(S), Len(seq) \in Nat \ {0}
  PROVE  LET popped == SubSeq(seq, 1, Len(seq) - 1)
         IN  /\ popped \in Seq(S) /\ Len(popped) = Len(seq) - 1
             /\ \A k \in 1..Len(seq) - 1 : popped[k] = seq[k]
<1> DEFINE n == Len(seq) - 1
<1>1. n \in Nat /\ \A k \in 1..n : seq[k] \in S
  BY ElementOfSeq
<1> HIDE DEF n
<1>2. /\ SubSeq(seq, 1, n) \in Seq(S)
      /\ Len(SubSeq(seq, 1, n)) = IF 1 <= n THEN n - 1 + 1 ELSE 0
      /\ \A k \in 1..n - 1 + 1 : SubSeq(seq, 1, n)[k] = seq[1 + k - 1]
  BY <1>1, SubSeqProperties
<1>3. Len(SubSeq(seq, 1, n)) = n /\ \A k \in 1..n : SubSeq(seq, 1, n)[k] = seq[k]
  BY <1>1, <1>2
<1> QED BY <1>2, <1>3 DEF n

\* The constructor's state satisfies the invariant.
LEMMA InitInv == Init => Inv
<1> SUFFICES ASSUME Init PROVE Inv
  OBVIOUS
<1>1. Ids = {}
  BY DEF Init, Ids
<1>2. TypeOK
  BY <1>1, BoundsAssumption, EmptySeq DEF Init, TypeOK, Faults
<1>3. BookHoldsLiveOrders /\ StateMatchesFill /\ WalkStands
  BY <1>1 DEF Init, BookHoldsLiveOrders, StateMatchesFill, WalkStands, WalkFrame
<1> QED BY <1>2, <1>3 DEF Inv

\* submit_order keeps it, wherever the client calls it.
LEMMA SubmitInv ==
  ASSUME Inv, NEW spec \in OrderSpecs, NEW kept \in KeepsOrder, SubmitOrder(spec, kept)
  PROVE  Inv'
<1> DEFINE id == Len(orders) + 1
           new == SwitchState(NewOrder(spec, kept), "Submitted")
           frame == Frame("Submitted", id, "client")
<1> USE DEF Inv
<1>1. NewOrder(spec, kept) \in Orders
  BY BoundsAssumption DEF NewOrder, Orders, TypeOK, States
<1>2. /\ new \in Orders /\ new.spec = spec /\ new.state = "Submitted" /\ new.filled = 0
  BY <1>1 DEF NewOrder, SwitchState, ValidStates, Orders, States
<1>3. /\ orders' \in Seq(Orders) /\ Len(orders') = id /\ Len(orders) \in Nat
      /\ orders'[id] = new
      /\ \A i \in Ids : orders'[i] = orders[i]
  <2>1. orders' = Append(orders, new) /\ orders \in Seq(Orders)
    BY DEF SubmitOrder, TypeOK
  <2> HIDE DEF new
  <2> QED BY <1>2, <2>1, AppendFacts DEF Ids
<1>4. Ids' = Ids \cup {id} /\ id \notin Ids
  BY <1>3 DEF Ids
<1>5. frame \in Frames
  BY <1>3 DEF Frame, Frames, Events
<1>6. /\ stack' = Append(stack, frame) /\ stack' \in Seq(Frames) /\ stack' # << >>
      /\ Len(stack') = Len(stack) + 1 /\ Len(stack) \in Nat
      /\ stack'[Len(stack) + 1] = frame /\ frame.by = "client"
      /\ \A k \in 1..Len(stack) : stack'[k] = stack[k]
      /\ stack # << >> => Len(stack) > 0
  <2>1. stack' = Append(stack, frame)
    BY DEF SubmitOrder, AnnounceToCaller
  <2>2. frame.by = "client"
    BY DEF Frame
  <2>3. stack \in Seq(Frames)
    BY DEF TypeOK
  <2> HIDE DEF frame
  <2> QED BY <1>5, <2>1, <2>2, <2>3, AppendFacts
<1> HIDE DEF id, new, frame
<1>7. /\ book' = book \cup {id} /\ fault = "none"
      /\ UNCHANGED << cash, shares, allowNegative, volumeLeft, values, barNo, today,
                      cursor, fault >>
      /\ stack # << >> \/ cursor = NoCursor
  BY DEF SubmitOrder, ClientRuns, id
<1>8. TypeOK'
  BY <1>3, <1>4, <1>6, <1>7 DEF TypeOK
<1>9. WalkFrame' = WalkFrame /\ (WalkFrame => stack'[1] = stack[1])
  BY <1>6 DEF WalkFrame
<1>10. BookHoldsLiveOrders'
  <2>1. \A i \in Ids : Leaving(i)' = Leaving(i)
    BY <1>6 DEF Leaving
  <2>2. IsActive(new)
    BY <1>2 DEF IsActive
  <2>3. book \subseteq Ids
    BY DEF TypeOK
  <2> QED BY <1>3, <1>4, <1>7, <2>1, <2>2, <2>3 DEF BookHoldsLiveOrders, IsActive
<1>11. StateMatchesFill'
  <2>1. new.spec.quantity \in Nat \ {0}
    BY <1>2, SpecsAssumption
  <2> QED BY <1>2, <1>3, <1>4, <2>1 DEF StateMatchesFill, Remaining
<1>12. WalkStands'
  BY <1>3, <1>4, <1>6, <1>7, <1>9 DEF WalkStands, WalkFrame
<1> QED BY <1>8, <1>10, <1>11, <1>12

\* cancel_order keeps it: the order leaves the book in the step that ends it.
LEMMA CancelInv ==
  ASSUME Inv, NEW id \in book, CancelOrder(id)
  PROVE  Inv'
<1> USE DEF Inv
<1>1. /\ fault = "none" /\ id \in Ids /\ IsActive(orders[id]) /\ book' = book \ {id}
      /\ stack # << >> \/ cursor = NoCursor
      /\ UNCHANGED << cash, shares, allowNegative, volumeLeft, values, barNo, today, cursor >>
  BY DEF CancelOrder, Cancellable, ClientRuns, TypeOK
<1>2. ~Leaving(id)
  BY <1>1 DEF Leaving, WalkStands, WalkFrame, IsActive
<1>3. CASE /\ orders' = [orders EXCEPT ![id] = SwitchState(@, "Canceled")]
           /\ stack' = AnnounceToCaller("Canceled", id)
           /\ fault' = fault
  <2> DEFINE o == SwitchState(orders[id], "Canceled")
             frame == Frame("Canceled", id, "client")
  <2>1. /\ orders' = [orders EXCEPT ![id] = o] /\ stack' = Append(stack, frame)
        /\ fault' = fault
    BY <1>3 DEF AnnounceToCaller
  <2>2. orders[id] \in Orders /\ orders \in Seq(Orders)
    BY <1>1, ElementOfSeq DEF TypeOK, Ids
  <2>3. /\ o \in Orders /\ o.state = "Canceled"
        /\ o.spec = orders[id].spec /\ o.filled = orders[id].filled
    BY <1>1, <2>2 DEF SwitchState, ValidStates, IsActive, Orders, States
  <2>4. frame \in Frames /\ frame.by = "client"
    BY <1>1, LenProperties DEF Frame, Frames, Events, Ids, TypeOK
  <2> HIDE DEF o, frame
  <2>5. /\ stack' \in Seq(Frames) /\ stack' # << >>
        /\ Len(stack') = Len(stack) + 1 /\ Len(stack) \in Nat
        /\ stack'[Len(stack) + 1] = frame
        /\ \A k \in 1..Len(stack) : stack'[k] = stack[k]
        /\ stack # << >> => Len(stack) > 0
    BY <2>1, <2>4, AppendFacts DEF TypeOK
  <2>6. /\ orders' \in Seq(Orders) /\ Ids' = Ids
        /\ \A i \in Ids : orders'[i] = IF i = id THEN o ELSE orders[i]
    BY <1>1, <2>1, <2>2, <2>3, ReplaceOrder
  <2>7. WalkFrame' = WalkFrame /\ (WalkFrame => stack'[1] = stack[1])
    BY <2>4, <2>5 DEF WalkFrame
  <2>8. TypeOK'
    BY <1>1, <2>1, <2>5, <2>6 DEF TypeOK
  <2>9. BookHoldsLiveOrders'
    <3>1. \A i \in Ids : Leaving(i)' = Leaving(i)
      BY <2>4, <2>5 DEF Leaving
    <3> QED BY <1>1, <1>2, <2>1, <2>3, <2>6, <3>1 DEF BookHoldsLiveOrders, IsActive
  <2>10. StateMatchesFill'
    <3>1. orders[id].state # "Filled"
      BY <1>1 DEF IsActive
    <3> QED BY <1>1, <2>3, <2>6, <3>1 DEF StateMatchesFill, Remaining
  <2>11. WalkStands'
    <3>1. \A k \in 1..Len(stack') : stack'[k].by = "on_bars" => k = 1
      BY <2>4, <2>5 DEF WalkStands
    <3>2. WalkFrame => /\ stack[1].event \notin {"Filled", "Canceled"} \/ cursor # id
      BY <1>1 DEF WalkStands, IsActive
    <3>3. WalkFrame =>
            /\ orders'[cursor].spec = orders[cursor].spec
            /\ orders'[cursor].state \in {orders[cursor].state, "Canceled"}
            /\ cursor # id => orders'[cursor] = orders[cursor]
      BY <2>3, <2>6 DEF WalkStands
    <3> QED BY <1>1, <2>1, <2>5, <2>6, <2>7, <3>1, <3>2, <3>3 DEF WalkStands, WalkFrame
  <2> QED BY <2>8, <2>9, <2>10, <2>11
<1>4. CASE Die("freed") /\ UNCHANGED << orders, stack >>
  <2>1. fault' = "freed" /\ UNCHANGED << orders, stack >>
    BY <1>4 DEF Die
  <2>2. TypeOK'
    BY <1>1, <2>1 DEF TypeOK, Ids, Faults
  <2>3. BookHoldsLiveOrders' /\ StateMatchesFill'
    BY <1>1, <2>1 DEF BookHoldsLiveOrders, StateMatchesFill, Ids
  <2>4. WalkFrame /\ stack[1].event \in {"Filled", "Canceled"} => cursor # id
    BY <1>1 DEF WalkStands, IsActive
  <2>5. WalkStands'
    BY <1>1, <2>1, <2>4 DEF WalkStands, WalkFrame, Ids
  <2> QED BY <2>2, <2>3, <2>5
<1> QED BY <1>3, <1>4 DEF CancelOrder

\* The start of a walk keeps it.
LEMMA OnBarsInv ==
  ASSUME Inv, NEW bars \in ValueMaps, NEW day \in Nat, OnBars(bars, day)
  PROVE  Inv'
<1> USE DEF Inv
<1>1. /\ fault = "none" /\ cursor = NoCursor /\ stack = << >> /\ values' = bars
      /\ volumeLeft' = VolumesAfter(bars) /\ today' = day /\ barNo' = barNo + 1
      /\ UNCHANGED << orders, book, cash, shares, allowNegative, stack, fault >>
      /\ cursor' \in book \cup {NoCursor}
  BY DEF OnBars, After
<1>2. DOMAIN bars \subseteq Symbols /\ \A s \in DOMAIN bars : bars[s].volume \in Nat
  BY ValuesAssumption
<1>3. /\ volumeLeft' \in [Symbols -> Nat \cup {Unknown}]
      /\ \A s \in DOMAIN bars : volumeLeft'[s] # Unknown
  <2>1. \A n \in Nat : n # Unknown /\ 4 * n # Unknown /\ 4 * n \in Nat
    BY DEF Unknown
  <2> QED BY <1>1, <1>2, <2>1 DEF VolumesAfter, TypeOK
<1>4. TypeOK'
  BY <1>1, <1>3 DEF TypeOK, Ids
<1>5. BookHoldsLiveOrders' /\ StateMatchesFill'
  BY <1>1 DEF BookHoldsLiveOrders, StateMatchesFill, Ids, Leaving
<1>6. WalkStands'
  BY <1>1, <1>3 DEF WalkStands, WalkFrame
<1> QED BY <1>4, <1>5, <1>6

-----------------------------------------------------------------------------
(***************************************************************************)
(* The walk.  Most of its steps end the loop body of on_bars (Settles) or    *)
(* announce something about the order under the cursor (Announces).         *)
(***************************************************************************)
\* The order under the cursor, about to be processed.
Processing ==
    /\ fault = "none" /\ cursor \in Ids /\ cursor \in book
    /\ orders[cursor].state \in {"Accepted", "PartiallyFilled"}
    /\ orders[cursor].spec.symbol \in DOMAIN values
    /\ stack = << >> \/ WalkFrame

\* An announcement of the walk, as a stack.
LEMMA OneFrame ==
  ASSUME NEW event \in Events, NEW id \in Ids, stack' = AnnounceFromWalk(event, id),
         orders \in Seq(Orders)
  PROVE  /\ stack' \in Seq(Frames) /\ Len(stack') = 1 /\ stack' # << >>
         /\ stack'[1].event = event /\ stack'[1].id = id /\ stack'[1].by = "on_bars"
<1>1. Frame(event, id, "on_bars") \in Frames
  BY LenProperties DEF Frame, Frames, Ids
<1>2. stack' = << Frame(event, id, "on_bars") >>
  BY DEF AnnounceFromWalk
<1> HIDE DEF Frame
<1>3. stack' \in Seq(Frames) /\ Len(stack') = 1 /\ stack' # << >>
      /\ stack'[1] = Frame(event, id, "on_bars")
  BY <1>1, <1>2
<1> QED BY <1>3 DEF Frame

\* Ending and announcing a day order keeps it (pre_process_order).
LEMMA ExpireInv ==
  ASSUME Inv, Processing, Expire(cursor), UNCHANGED << allowNegative, values, barNo, today >>
  PROVE  Inv'
<1> USE DEF Inv, Processing
<1> DEFINE o == SwitchState(orders[cursor], "Canceled")
<1>1. /\ orders' = [orders EXCEPT ![cursor] = o]
      /\ stack' = AnnounceFromWalk("Canceled", cursor)
      /\ UNCHANGED << book, cash, shares, volumeLeft, cursor, fault >>
  BY DEF Expire
<1>2. orders[cursor] \in Orders /\ orders \in Seq(Orders)
  BY ElementOfSeq DEF TypeOK, Ids
<1>3. /\ o \in Orders /\ o.state = "Canceled"
      /\ o.spec = orders[cursor].spec /\ o.filled = orders[cursor].filled
  BY <1>2 DEF SwitchState, ValidStates, Orders, States
<1> HIDE DEF o
<1>4. /\ orders' \in Seq(Orders) /\ Ids' = Ids
      /\ \A i \in Ids : orders'[i] = IF i = cursor THEN o ELSE orders[i]
  BY <1>1, <1>2, <1>3, ReplaceOrder
<1>5. /\ stack' \in Seq(Frames) /\ Len(stack') = 1 /\ stack' # << >>
      /\ stack'[1].event = "Canceled" /\ stack'[1].id = cursor /\ stack'[1].by = "on_bars"
  BY <1>1, <1>2, OneFrame DEF Events
<1>6. TypeOK'
  BY <1>1, <1>4, <1>5 DEF TypeOK
<1>7. BookHoldsLiveOrders'
  <2>1. \A i \in Ids : ~Leaving(i)
    BY DEF Leaving, WalkStands, WalkFrame
  <2>2. Leaving(cursor)' /\ \A i \in Ids : i # cursor => ~Leaving(i)'
    BY <1>1, <1>5 DEF Leaving
  <2> QED BY <1>1, <1>3, <1>4, <2>1, <2>2 DEF BookHoldsLiveOrders, IsActive
<1>8. StateMatchesFill'
  BY <1>3, <1>4 DEF StateMatchesFill, Remaining
<1>9. WalkStands'
  BY <1>1, <1>3, <1>4, <1>5 DEF WalkStands, WalkFrame
<1> QED BY <1>6, <1>7, <1>8, <1>9

\* A fill attempt keeps it, whether it executes, passes or fails an assertion.
LEMMA AttemptInv ==
  ASSUME Inv, Processing, Attempt(cursor), UNCHANGED << allowNegative, values, barNo, today >>
  PROVE  Inv'
<1> USE DEF Inv, Processing
<1> DEFINE order == orders[cursor]
           symbol == order.spec.symbol
           bar == values[symbol]
           left == volumeLeft[symbol]
           fill == Process(order, bar, left)
           touched == [order EXCEPT !.stopHit = StopHit(order, bar)]
           executes == fill.outcome = "fill" /\ Affordable(order.spec, fill)
           passes == fill.outcome = "no_fill" \/
                     (fill.outcome = "fill" /\ ~Affordable(order.spec, fill))
<1>1. order \in Orders /\ orders \in Seq(Orders) /\ order.spec \in OrderSpecs
  <2>1. order \in Orders /\ orders \in Seq(Orders)
    BY ElementOfSeq DEF TypeOK, Ids
  <2> QED BY <2>1 DEF Orders
<1>2. values \in ValueMaps
  <2>1. DOMAIN [s \in {} |-> 0] = {}
    OBVIOUS
  <2>2. DOMAIN values # {}
    OBVIOUS
  <2> QED BY <2>1, <2>2 DEF TypeOK
<1>3. /\ bar.open \in Nat /\ bar.high \in Nat /\ bar.low \in Nat /\ bar.close \in Nat
      /\ symbol \in Symbols /\ left \in Nat
  BY <1>2, BarTypes DEF TypeOK, WalkStands
<1>4. /\ order.spec.quantity \in Nat \ {0} /\ Remaining(order) \in Nat
      /\ order.filled \in Nat
  BY <1>1, SpecsAssumption DEF StateMatchesFill, Remaining, Orders
<1>5. /\ fill.outcome \in Fills /\ fill.price \in Nat /\ fill.quantity \in Nat
      /\ fill.outcome = "fill" =>
            /\ fill.quantity \in 1..Remaining(order)
            /\ 4 * fill.quantity <= left
            /\ order.spec.aon => fill.quantity = Remaining(order)
  <2> HIDE DEF order, symbol, bar, left
  <2> QED BY <1>1, <1>3, <1>4, FillBounds, Zenon
<1>6. /\ touched \in Orders /\ touched.spec = order.spec /\ touched.state = order.state
      /\ touched.filled = order.filled
  <2>1. StopHit(order, bar) \in BOOLEAN
    BY <1>1 DEF StopHit, Orders
  <2> QED BY <1>1, <2>1 DEF Orders
<1>7. \A i \in Ids : ~Leaving(i)
  BY DEF Leaving, WalkStands, WalkFrame
<1> HIDE DEF fill, touched
<1>8. CASE executes /\ CommitOrderExecution(cursor, touched, fill)
  <2> DEFINE o == AddInfo(touched, fill.price, fill.quantity)
  <2>1. /\ orders' = [orders EXCEPT ![cursor] = o]
        /\ stack' = AnnounceFromWalk(o.state, cursor)
        /\ cash' = CashAfter(order.spec, fill)
        /\ shares' \in SharesAfter(order.spec, fill.quantity)
        /\ volumeLeft' = OnOrderFilled(symbol, fill.quantity)
        /\ UNCHANGED << book, cursor, fault >>
    BY <1>6, <1>8 DEF CommitOrderExecution
  <2>2. /\ fill.quantity \in Nat \ {0}
        /\ touched.filled + fill.quantity <= touched.spec.quantity
    BY <1>4, <1>5, <1>6, <1>8 DEF Remaining
  <2>3. /\ o \in Orders /\ o.spec = order.spec
        /\ o.filled = order.filled + fill.quantity
        /\ o.state = IF o.filled = o.spec.quantity THEN "Filled" ELSE "PartiallyFilled"
    BY <1>5, <1>6, <2>2, AddInfoEffect
  <2> HIDE DEF o
  <2>4. /\ orders' \in Seq(Orders) /\ Ids' = Ids
        /\ \A i \in Ids : orders'[i] = IF i = cursor THEN o ELSE orders[i]
    BY <1>1, <2>1, <2>3, ReplaceOrder
  <2>5. /\ stack' \in Seq(Frames) /\ Len(stack') = 1 /\ stack' # << >>
        /\ stack'[1].event = o.state /\ stack'[1].id = cursor /\ stack'[1].by = "on_bars"
    BY <1>1, <2>1, <2>3, OneFrame DEF Events
  <2>6. TypeOK'
    <3>1. cash' \in Int
      <4>1. fill.price * fill.quantity \in Int
        BY <1>5
      <4> DEFINE cost == fill.price * fill.quantity
      <4> HIDE DEF cost
      <4>2. cost \in Int
        BY <4>1 DEF cost
      <4>3. cash - cost \in Int /\ cash + cost \in Int
        BY <4>2 DEF TypeOK
      <4> QED BY <2>1, <4>3 DEF CashAfter, cost
    <3>2. shares' \in [Symbols -> Nat]
      BY <1>1, <1>5, <2>1, SharesTypes DEF TypeOK
    <3>3. volumeLeft' \in [Symbols -> Nat \cup {Unknown}]
      BY <1>3, <1>5, <2>1 DEF OnOrderFilled, TypeOK
    <3> QED BY <2>1, <2>4, <2>5, <3>1, <3>2, <3>3 DEF TypeOK
  <2>7. BookHoldsLiveOrders'
    <3>1. IsActive(orders[cursor]) /\ (IsActive(o) \/ Leaving(cursor)')
      BY <2>1, <2>3, <2>5 DEF IsActive, Leaving
    <3>2. \A i \in Ids : i # cursor => ~Leaving(i)'
      BY <2>1, <2>5 DEF Leaving
    <3> QED BY <1>7, <2>1, <2>4, <3>1, <3>2 DEF BookHoldsLiveOrders, IsActive
  <2>8. StateMatchesFill'
    <3>1. o.filled \in 0..o.spec.quantity /\ o.filled > 0
      BY <1>4, <1>6, <2>2, <2>3
    <3>2. o.spec.aon => o.filled = o.spec.quantity
      BY <1>4, <1>5, <1>8, <2>3 DEF Remaining
    <3> QED BY <1>4, <2>3, <2>4, <3>1, <3>2 DEF StateMatchesFill, Remaining
  <2>9. WalkStands'
    <3>1. \A s \in DOMAIN values : volumeLeft'[s] # Unknown
      <4>1. \A n \in Nat : n # Unknown
        BY DEF Unknown
      <4>2. volumeLeft'[symbol] \in Nat
        BY <1>3, <1>5, <1>8, <2>1 DEF OnOrderFilled, TypeOK
      <4>3. \A s \in Symbols : s # symbol => volumeLeft'[s] = volumeLeft[s]
        BY <2>1 DEF OnOrderFilled, TypeOK
      <4> QED BY <1>2, <4>1, <4>2, <4>3, BarTypes DEF WalkStands
    <3> QED BY <2>1, <2>3, <2>4, <2>5, <3>1 DEF WalkStands, WalkFrame
  <2> QED BY <2>6, <2>7, <2>8, <2>9
<1>9. CASE /\ orders' = [orders EXCEPT ![cursor] = touched]
           /\ UNCHANGED << book, cash, shares, volumeLeft >>
           /\ stack' = << >>
           /\ Advance(cursor)
  <2>1. \/ cursor' \in book \cup {NoCursor} /\ fault' = fault
        \/ cursor' = cursor /\ fault' = "wild_iterator"
    BY <1>9, AdvanceEffect
  <2>2. /\ orders' \in Seq(Orders) /\ Ids' = Ids
        /\ \A i \in Ids : orders'[i] = IF i = cursor THEN touched ELSE orders[i]
    BY <1>1, <1>6, <1>9, ReplaceOrder
  <2>3. TypeOK'
    BY <1>9, <2>1, <2>2, EmptySeq DEF TypeOK, Faults
  <2>4. BookHoldsLiveOrders'
    BY <1>6, <1>7, <1>9, <2>2 DEF BookHoldsLiveOrders, IsActive, Leaving
  <2>5. StateMatchesFill'
    BY <1>6, <2>2 DEF StateMatchesFill, Remaining
  <2>6. WalkStands'
    BY <1>9, <2>1, EmptySeq DEF WalkStands, WalkFrame
  <2> QED BY <2>3, <2>4, <2>5, <2>6
<1>10. CASE /\ Die(fill.outcome) /\ fill.outcome \in Fills \ {"fill", "no_fill"}
            /\ UNCHANGED << orders, book, cash, shares, volumeLeft, stack, cursor >>
  <2>1. fault' \in Faults /\ fault' # "none" /\ fault' # "freed"
    BY <1>10 DEF Die, Faults, Fills
  <2> QED BY <1>10, <2>1
          DEF TypeOK, Ids, BookHoldsLiveOrders, Leaving, StateMatchesFill, WalkStands, WalkFrame
<1> QED
  <2>1. \/ executes /\ CommitOrderExecution(cursor, touched, fill)
        \/ /\ passes
           /\ orders' = [orders EXCEPT ![cursor] = touched]
           /\ UNCHANGED << book, cash, shares, volumeLeft >>
           /\ stack' = << >>
           /\ Advance(cursor)
        \/ /\ ~executes /\ ~passes
           /\ Die(fill.outcome)
           /\ UNCHANGED << orders, book, cash, shares, volumeLeft, stack, cursor >>
    BY DEF Attempt, fill, touched
  <2> QED BY <1>5, <1>8, <1>9, <1>10, <2>1

\* process_order keeps the invariant.
LEMMA ProcessInv ==
  ASSUME Inv, Processing, ProcessOrder(cursor),
         UNCHANGED << allowNegative, values, barNo, today >>
  PROVE  Inv'
BY ExpireInv, AttemptInv DEF ProcessOrder

\* Visiting the order under the cursor keeps it (on_bars_imp).
LEMMA VisitInv ==
  ASSUME Inv, VisitOrder
  PROVE  Inv'
<1> USE DEF Inv
<1>1. /\ fault = "none" /\ cursor # NoCursor /\ stack = << >>
      /\ UNCHANGED << allowNegative, values, barNo, today >>
  BY DEF VisitOrder
<1>2. cursor \in book /\ cursor \in Ids /\ ~WalkFrame /\ \A i \in Ids : ~Leaving(i)
  BY <1>1 DEF WalkStands, TypeOK, WalkFrame, Leaving
<1>3. CASE /\ Die("no_symbol")
           /\ UNCHANGED << orders, book, cash, shares, volumeLeft, stack, cursor >>
  BY <1>1, <1>3
     DEF Die, Faults, TypeOK, Ids, BookHoldsLiveOrders, Leaving, StateMatchesFill,
         WalkStands, WalkFrame
<1>4. CASE /\ orders[cursor].spec.symbol \in DOMAIN values
           /\ orders[cursor].state = "Submitted"
           /\ orders' = [orders EXCEPT ![cursor] =
                  SwitchState([@ EXCEPT !.accepted = today], "Accepted")]
           /\ stack' = AnnounceFromWalk("Accepted", cursor)
           /\ UNCHANGED << book, cash, shares, volumeLeft, cursor, fault >>
  <2> DEFINE dated == [orders[cursor] EXCEPT !.accepted = today]
             o == SwitchState(dated, "Accepted")
  <2>1. orders[cursor] \in Orders /\ orders \in Seq(Orders) /\ today \in Nat
    BY <1>2, ElementOfSeq DEF TypeOK, Ids
  <2>2. /\ dated \in Orders /\ dated.state = "Submitted"
        /\ dated.spec = orders[cursor].spec /\ dated.filled = orders[cursor].filled
    BY <1>4, <2>1 DEF Orders
  <2>3. /\ o \in Orders /\ o.state = "Accepted"
        /\ o.spec = orders[cursor].spec /\ o.filled = orders[cursor].filled
    <3> HIDE DEF dated
    <3> QED BY <2>2 DEF SwitchState, ValidStates, Orders, States
  <2>4. orders' = [orders EXCEPT ![cursor] = o]
    BY <1>4
  <2> HIDE DEF dated, o
  <2>5. /\ orders' \in Seq(Orders) /\ Ids' = Ids
        /\ \A i \in Ids : orders'[i] = IF i = cursor THEN o ELSE orders[i]
    BY <1>2, <2>1, <2>3, <2>4, ReplaceOrder
  <2>6. /\ stack' \in Seq(Frames) /\ Len(stack') = 1 /\ stack' # << >>
        /\ stack'[1].event = "Accepted" /\ stack'[1].id = cursor /\ stack'[1].by = "on_bars"
    BY <1>2, <1>4, <2>1, OneFrame DEF Events
  <2>7. TypeOK'
    BY <1>1, <1>4, <2>5, <2>6 DEF TypeOK
  <2>8. BookHoldsLiveOrders'
    BY <1>2, <1>4, <2>3, <2>5, <2>6 DEF BookHoldsLiveOrders, IsActive, Leaving
  <2>9. StateMatchesFill'
    <3>1. orders[cursor].filled = 0 /\ Remaining(orders[cursor]) # 0
          /\ o.filled \in 0..o.spec.quantity
      BY <1>2, <1>4, <2>3 DEF StateMatchesFill
    <3> QED BY <2>3, <2>5, <3>1 DEF StateMatchesFill, Remaining
  <2>10. WalkStands'
    BY <1>1, <1>2, <1>4, <2>3, <2>5, <2>6 DEF WalkStands, WalkFrame
  <2> QED BY <2>7, <2>8, <2>9, <2>10
<1>5. CASE /\ orders[cursor].spec.symbol \in DOMAIN values
           /\ orders[cursor].state \in {"Accepted", "PartiallyFilled"}
           /\ ProcessOrder(cursor)
  BY <1>1, <1>2, <1>5, ProcessInv DEF Processing
<1> QED BY <1>3, <1>4, <1>5 DEF VisitOrder

\* The end of the loop body of on_bars: the announcement is over, the order
\* under the cursor may have been unregistered.
LEMMA SettleInv ==
  ASSUME Inv, WalkFrame, fault = "none", stack' = << >>, Advance(cursor),
         orders' = orders,
         \/ book' = book /\ stack[1].event \notin {"Filled", "Canceled"}
         \/ book' = book \ {cursor} /\ stack[1].event \in {"Filled", "Canceled"},
         UNCHANGED << cash, shares, allowNegative, volumeLeft, values, barNo, today >>
  PROVE  Inv'
<1> USE DEF Inv
<1>1. \/ cursor' \in book' \cup {NoCursor} /\ fault' = fault
      \/ cursor' = cursor /\ fault' = "wild_iterator"
  BY AdvanceEffect
<1>2. cursor \in Ids /\ stack[1].id = cursor /\ Ids' = Ids
  BY DEF WalkStands, Ids
<1>3. TypeOK'
  BY <1>1, <1>2, EmptySeq DEF TypeOK, Faults
<1>4. BookHoldsLiveOrders'
  <2>1. \A i \in Ids : ~Leaving(i)'
    BY DEF Leaving
  <2>2. \A i \in Ids : Leaving(i) => i = cursor
    BY <1>2 DEF Leaving
  <2>3. stack[1].event \in {"Filled", "Canceled"} => ~IsActive(orders[cursor])
    BY DEF WalkStands, IsActive
  <2>4. stack[1].event \notin {"Filled", "Canceled"} => \A i \in Ids : ~Leaving(i)
    BY DEF Leaving
  <2> QED BY <1>2, <2>1, <2>2, <2>3, <2>4 DEF BookHoldsLiveOrders, IsActive
<1>5. StateMatchesFill'
  BY <1>2 DEF StateMatchesFill
<1>6. WalkStands'
  BY <1>1, EmptySeq DEF WalkStands, WalkFrame
<1> QED BY <1>3, <1>4, <1>5, <1>6

\* The end of submit_order or cancel_order keeps it.
LEMMA ReturnToClientInv ==
  ASSUME Inv, ReturnToClient
  PROVE  Inv'
<1> USE DEF Inv
<1>1. /\ fault = "none" /\ stack # << >> /\ stack[Len(stack)].by = "client"
      /\ stack' = SubSeq(stack, 1, Len(stack) - 1)
      /\ UNCHANGED << orders, book, cash, shares, allowNegative, volumeLeft, values,
                      barNo, today, cursor, fault >>
  BY DEF ReturnToClient
<1>2. Len(stack) \in Nat \ {0} /\ \A k \in 1..Len(stack) : stack[k] \in Frames
  BY <1>1, EmptySeq, ElementOfSeq DEF TypeOK
<1>3. /\ stack' \in Seq(Frames) /\ Len(stack') = Len(stack) - 1
      /\ \A k \in 1..Len(stack) - 1 : stack'[k] = stack[k]
  BY <1>1, <1>2, PopFacts DEF TypeOK
<1>4. stack' # << >> <=> Len(stack) > 1
  BY <1>2, <1>3, EmptySeq
<1>5. WalkFrame' = WalkFrame /\ (WalkFrame => stack'[1] = stack[1])
  BY <1>1, <1>2, <1>3, <1>4 DEF WalkFrame, WalkStands
<1>6. \A i \in Ids : Leaving(i)' = Leaving(i)
  BY <1>5 DEF Leaving, WalkFrame
<1>7. TypeOK'
  BY <1>1, <1>3 DEF TypeOK, Ids
<1>8. BookHoldsLiveOrders' /\ StateMatchesFill'
  BY <1>1, <1>6 DEF BookHoldsLiveOrders, StateMatchesFill, Ids
<1>9. WalkStands'
  <2>1. \A k \in 1..Len(stack') : stack'[k].by = "on_bars" => k = 1
    BY <1>2, <1>3 DEF WalkStands
  <2>2. cursor # NoCursor => WalkFrame
    BY <1>1 DEF WalkStands, WalkFrame
  <2> QED BY <1>1, <1>5, <2>1, <2>2 DEF WalkStands, WalkFrame, Ids
<1> QED BY <1>7, <1>8, <1>9

\* The walk going on after one of its announcements keeps it.
LEMMA ReturnInv ==
  ASSUME Inv, \/ ReturnAccepted \/ ReturnPartiallyFilled \/ ReturnFilled \/ ReturnCanceled
  PROVE  Inv'
<1> USE DEF Inv
<1>1. fault = "none" /\ WalkFrame /\ UNCHANGED << allowNegative, values, barNo, today >>
  <2>1. \A event : WalkResumes(event) => fault = "none" /\ WalkFrame
    <3>1. Len(<< >>) = 0
      OBVIOUS
    <3> QED BY <3>1 DEF WalkResumes, WalkFrame
  <2> QED BY <2>1 DEF ReturnAccepted, ReturnPartiallyFilled, ReturnFilled, ReturnCanceled
<1>2. CASE ReturnAccepted
  <2>1. stack[1].event = "Accepted"
    BY <1>2 DEF ReturnAccepted, WalkResumes
  <2>2. CASE IsActive(orders[cursor]) /\ ProcessOrder(cursor)
    <3>1. Processing
      BY <1>1, <2>1, <2>2
         DEF Processing, WalkStands, IsActive, BookHoldsLiveOrders
    <3> QED BY <1>1, <2>2, <3>1, ProcessInv
  <2>3. CASE /\ stack' = << >>
             /\ UNCHANGED << orders, book, cash, shares, volumeLeft >>
             /\ Advance(cursor)
    BY <1>1, <2>1, <2>3, SettleInv
  <2> QED BY <1>2, <2>2, <2>3 DEF ReturnAccepted
<1>3. CASE ReturnPartiallyFilled
  BY <1>1, <1>3, SettleInv DEF ReturnPartiallyFilled, WalkResumes
<1>4. CASE ReturnFilled
  <2>1. /\ stack[1].event = "Filled" /\ stack' = << >> /\ book' = book \ {cursor}
        /\ UNCHANGED << orders, cash, shares, allowNegative, volumeLeft, values, barNo, today >>
    BY <1>4 DEF ReturnFilled, WalkResumes
  <2>2. CASE Advance(cursor)
    BY <1>1, <2>1, <2>2, SettleInv
  <2>3. CASE Die("freed") /\ UNCHANGED cursor
    <3>1. TypeOK'
      BY <2>1, <2>3, EmptySeq DEF TypeOK, Ids, Die, Faults
    <3>2. BookHoldsLiveOrders' /\ StateMatchesFill'
      BY <2>1, <2>3 DEF BookHoldsLiveOrders, StateMatchesFill, Ids, Die
    <3>3. WalkStands'
      BY <2>1, <2>3, EmptySeq DEF WalkStands, WalkFrame, Die
    <3> QED BY <3>1, <3>2, <3>3
  <2> QED BY <1>4, <2>2, <2>3 DEF ReturnFilled
<1>5. CASE ReturnCanceled
  BY <1>1, <1>5, SettleInv DEF ReturnCanceled, WalkResumes
<1> QED BY <1>2, <1>3, <1>4, <1>5

\* A step that changes nothing keeps it.
LEMMA StutterInv ==
  ASSUME Inv, UNCHANGED vars
  PROVE  Inv'
BY DEF vars, Inv, TypeOK, Ids, BookHoldsLiveOrders, Leaving, StateMatchesFill,
       WalkStands, WalkFrame

\* What the exchange does whatever bars it is given, of whatever day.
Moves ==
    \/ Client
    \/ \E bars \in ValueMaps, day \in Nat : OnBars(bars, day)
    \/ Walk
    \/ UNCHANGED vars

LEMMA NextMoves == Inv /\ [Next]_vars => Moves
<1> SUFFICES ASSUME Inv, [Next]_vars PROVE Moves
  OBVIOUS
<1>1. ASSUME NEW bars \in ValueMaps, NEW gap \in Gaps, OnBars(bars, today + gap) PROVE Moves
  <2>1. today + gap \in Nat
    BY BoundsAssumption DEF Inv, TypeOK
  <2> QED BY <1>1, <2>1 DEF Moves
<1> QED BY <1>1 DEF Next, Terminated, Moves

LEMMA MovesInv == Inv /\ Moves => Inv'
<1> SUFFICES ASSUME Inv, Moves PROVE Inv'
  OBVIOUS
<1>1. CASE Client
  BY <1>1, SubmitInv, CancelInv DEF Client
<1>2. CASE \E bars \in ValueMaps, day \in Nat : OnBars(bars, day)
  BY <1>2, OnBarsInv
<1>3. CASE Walk
  BY <1>3, VisitInv, ReturnToClientInv, ReturnInv DEF Walk
<1>4. CASE UNCHANGED vars
  BY <1>4, StutterInv
<1> QED BY <1>1, <1>2, <1>3, <1>4 DEF Moves

\* Every step of the exchange keeps the invariant.
LEMMA NextInv == Inv /\ [Next]_vars => Inv'
BY NextMoves, MovesInv

-----------------------------------------------------------------------------
\* The exchange's state is well typed, in every reachable state.
THEOREM TypeCorrect == Spec => []TypeOK
<1>1. Inv => TypeOK
  BY DEF Inv
<1> QED BY <1>1, InitInv, NextInv, PTL DEF Spec

\* The book holds exactly the orders that can still trade: for any number of
\* orders, symbols and bars, any client behaviour inside the announcements, and
\* wherever a dangling iterator of on_bars leads to.
THEOREM BookCorrect == Spec => []BookHoldsLiveOrders
<1>1. Inv => BookHoldsLiveOrders
  BY DEF Inv
<1> QED BY <1>1, InitInv, NextInv, PTL DEF Spec

\* Nothing is executed beyond an order's quantity, and the state of an order
\* says how much of it was executed.
THEOREM FillCorrect == Spec => []StateMatchesFill
<1>1. Inv => StateMatchesFill
  BY DEF Inv
<1> QED BY <1>1, InitInv, NextInv, PTL DEF Spec

-----------------------------------------------------------------------------
(***************************************************************************)
(* The cash.  It needs no invariant but itself: one step of Next pays.      *)
(***************************************************************************)
\* Only commit_order_execution touches the cash, after looking at the result.
LEMMA AttemptAffordable ==
  ASSUME NoOverdraft, NEW id, Attempt(id), UNCHANGED allowNegative
  PROVE  NoOverdraft'
BY DEF Attempt, CommitOrderExecution, Affordable, NoOverdraft

\* process_order, wherever on_bars calls it from.
LEMMA ProcessAffordable ==
  ASSUME NoOverdraft, NEW id, ProcessOrder(id), UNCHANGED allowNegative
  PROVE  NoOverdraft'
BY AttemptAffordable DEF ProcessOrder, Expire, NoOverdraft

\* No step of the exchange overdraws the account.
LEMMA NextAffordable == NoOverdraft /\ [Next]_vars => NoOverdraft'
<1> SUFFICES ASSUME NoOverdraft, [Next]_vars PROVE NoOverdraft'
  OBVIOUS
<1>1. CASE Client
  BY <1>1 DEF Client, SubmitOrder, CancelOrder, NoOverdraft
<1>2. CASE \E bars \in ValueMaps, gap \in Gaps : OnBars(bars, today + gap)
  BY <1>2 DEF OnBars, NoOverdraft
<1>3. CASE VisitOrder
  BY <1>3, ProcessAffordable DEF VisitOrder, NoOverdraft
<1>4. CASE ReturnAccepted
  BY <1>4, ProcessAffordable DEF ReturnAccepted, NoOverdraft
<1>5. CASE ReturnToClient \/ ReturnPartiallyFilled \/ ReturnFilled \/ ReturnCanceled
  BY <1>5 DEF ReturnToClient, ReturnPartiallyFilled, ReturnFilled, ReturnCanceled, NoOverdraft
<1>6. CASE Terminated \/ UNCHANGED vars
  BY <1>6 DEF Terminated, vars, NoOverdraft
<1> QED BY <1>1, <1>2, <1>3, <1>4, <1>5, <1>6 DEF Next, Walk

\* Unless allow_negative_cash happens to be true, no sequence of orders, fills
\* and bars leaves the account with less than nothing.
THEOREM NeverOverdrawn == Spec => []NoOverdraft
<1>1. Init => NoOverdraft
  BY BoundsAssumption DEF Init, NoOverdraft
<1> QED BY <1>1, NextAffordable, PTL DEF Spec
=============================================================================
