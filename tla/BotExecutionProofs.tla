------------------------- MODULE BotExecutionProofs -------------------------
(***************************************************************************)
(* What BotExecution promises, for every script of signals, every set of   *)
(* kills, every limit and any number of requests lost, late or repeated.   *)
(***************************************************************************)
EXTENDS BotExecution, FiniteSetTheorems, SequenceTheorems, WellFoundedInduction, TLAPS

Signals == [side : Sides, qty : Nat, type : {"MARKET", "LIMIT"}, reduceOnly : BOOLEAN]
OrderRow == [request : Requests, status : OrderStatuses]
Account == [mode : Modes, books : [Keys -> Book], orders : Seq(OrderRow)]
Shrunk(before, after) ==
  \A k \in Keys : /\ after[k].qty <= before[k].qty
                  /\ after[k].qty > 0 => after[k].side = before[k].side
HeldIn(books) == books["net"].qty + books["BUY"].qty + books["SELL"].qty

-----------------------------------------------------------------------------
(* The books.                                                              *)

LEMMA KeysAre ==
  /\ "net" \in Keys /\ "BUY" \in Keys /\ "SELL" \in Keys /\ Sides = {"BUY", "SELL"}
  /\ \A k \in Keys : k = "net" \/ k = "BUY" \/ k = "SELL"
  BY DEF Keys, Sides

LEMMA FlatIsABook == Flat \in Book /\ Flat.qty = 0
  BY KeysAre DEF Flat, Book

LEMMA OneBookChanged ==
  ASSUME NEW books \in [Keys -> Book], NEW key \in Keys, NEW after \in [Keys -> Book],
         \A k \in Keys : k # key => after[k] = books[k]
  PROVE  /\ HeldIn(after) = HeldIn(books) - books[key].qty + after[key].qty
         /\ HeldIn(books) \in Nat /\ HeldIn(after) \in Nat /\ books[key].qty <= HeldIn(books)
<1>1. \A k \in Keys : books[k].qty \in Nat /\ after[k].qty \in Nat
  BY DEF Book
<1>2. key = "net" \/ key = "BUY" \/ key = "SELL"
  BY KeysAre
<1> QED
  BY <1>1, <1>2, KeysAre DEF HeldIn

LEMMA TargetIsAKey ==
  ASSUME NEW mode \in Modes, NEW q \in Requests
  PROVE  /\ TargetKey(mode, q) \in Keys /\ PositionKey(mode, q.side) \in Keys
         /\ q.side \in Sides /\ q.qty \in Nat /\ q.reduceOnly \in BOOLEAN
<1>1. q.side \in Sides /\ Opposite(q.side) \in Sides /\ q.qty \in Nat /\ q.reduceOnly \in BOOLEAN
  BY DEF Requests, Sides, Opposite
<1> QED
  BY <1>1 DEF TargetKey, PositionKey, Keys

\* A fill never adds more than its quantity to what is held, and one that only
\* reduces, of a position that is there, shrinks it and leaves the others alone.
LEMMA Filling ==
  ASSUME NEW books \in [Keys -> Book], NEW mode \in Modes, NEW q \in Requests,
         NEW key \in Keys, NEW after, after = Apply(books, mode, key, q)
  PROVE  /\ after \in [Keys -> Book] /\ HeldIn(books) \in Nat /\ HeldIn(after) \in Nat
         /\ HeldIn(after) <= HeldIn(books) + q.qty
         /\ q.reduceOnly /\ books[key].qty > 0 =>
              /\ Shrunk(books, after)
              /\ \A k \in Keys : k # key => after[k] = books[k]
              /\ q.qty >= books[key].qty => after[key].qty = 0
<1>1. PICK h \in Book : h = books[key]
  OBVIOUS
<1>2. h.qty \in Nat /\ h.side \in Sides
  BY DEF Book
<1>3. q.side \in Sides /\ q.qty \in Nat /\ q.reduceOnly \in BOOLEAN /\ PositionKey(mode, q.side) \in Keys
  BY TargetIsAKey
<1>4. PICK c : c = IF h.qty < q.qty THEN h.qty ELSE q.qty
  OBVIOUS
<1>5. c \in Nat /\ c <= h.qty /\ c <= q.qty /\ q.qty - c \in Nat /\ (h.qty > c => c = q.qty)
  BY <1>2, <1>3, <1>4
<1>6. \A k \in Keys : books[k].qty \in Nat
  BY DEF Book
<1> DEFINE adding == h.qty = 0 \/ (h.side = q.side /\ ~Closing(q))
<1>7. /\ adding => after = [books EXCEPT ![key] = [side |-> q.side, qty |-> h.qty + q.qty]]
      /\ ~adding /\ h.qty > c => after = [books EXCEPT ![key].qty = h.qty - c]
      /\ ~adding /\ ~(h.qty > c) /\ q.qty - c > 0 /\ ~q.reduceOnly =>
           after = [[books EXCEPT ![key] = Flat] EXCEPT
                      ![PositionKey(mode, q.side)] = [side |-> q.side, qty |-> q.qty - c]]
      /\ ~adding /\ ~(h.qty > c) /\ ~(q.qty - c > 0 /\ ~q.reduceOnly) =>
           after = [books EXCEPT ![key] = Flat]
  BY <1>1, <1>4 DEF Apply
<1>8. adding => ~(q.reduceOnly /\ h.qty > 0)
  BY <1>2 DEF Closing
<1> HIDE DEF adding
<1>9. CASE adding
  <2>1. [side |-> q.side, qty |-> h.qty + q.qty] \in Book
    BY <1>2, <1>3 DEF Book
  <2>2. PICK v \in Book : v = [side |-> q.side, qty |-> h.qty + q.qty]
    BY <2>1
  <2>3. after = [books EXCEPT ![key] = v]
    BY <1>7, <1>9, <2>2
  <2>4. v.qty = h.qty + q.qty
    BY <2>2
  <2>5. after \in [Keys -> Book] /\ after[key] = v /\ \A k \in Keys : k # key => after[k] = books[k]
    BY <2>3
  <2>6. HeldIn(after) = HeldIn(books) - h.qty + v.qty /\ HeldIn(books) \in Nat /\ HeldIn(after) \in Nat
    BY <1>1, <2>5, OneBookChanged
  <2> QED
    BY <1>1, <1>2, <1>3, <1>8, <1>9, <2>4, <2>5, <2>6
<1>10. CASE ~adding /\ h.qty > c
  <2>1. [h EXCEPT !.qty = h.qty - c] \in Book
    BY <1>2, <1>5 DEF Book
  <2>2. PICK v \in Book : v = [h EXCEPT !.qty = h.qty - c]
    BY <2>1
  <2>3. after = [books EXCEPT ![key] = v]
    BY <1>1, <1>7, <1>10, <2>2
  <2>4. v.qty = h.qty - c /\ v.side = h.side
    BY <2>2 DEF Book
  <2>20. after \in [Keys -> Book] /\ after[key] = v /\ \A k \in Keys : k # key => after[k] = books[k]
    BY <2>3
  <2>5. /\ HeldIn(after) = HeldIn(books) - h.qty + v.qty
        /\ HeldIn(books) \in Nat /\ HeldIn(after) \in Nat
    BY <1>1, <2>20, OneBookChanged
  <2>6. v.qty <= h.qty /\ HeldIn(after) <= HeldIn(books) + q.qty /\ (q.qty >= h.qty => v.qty = 0)
    BY <1>2, <1>3, <1>5, <1>10, <2>4, <2>5
  <2>7. Shrunk(books, after)
    BY <1>1, <1>6, <2>4, <2>20, <2>6 DEF Shrunk
  <2>8. q.qty >= books[key].qty => after[key].qty = 0
    BY <1>1, <2>20, <2>6
  <2>9. HeldIn(after) <= HeldIn(books) + q.qty
    BY <2>6
  <2>10. \A k \in Keys : k # key => after[k] = books[k]
    BY <2>20
  <2>11. after \in [Keys -> Book]
    BY <2>20
  <2> QED
    BY <2>5, <2>7, <2>8, <2>9, <2>10, <2>11
<1>11. CASE ~adding /\ ~(h.qty > c) /\ q.qty - c > 0 /\ ~q.reduceOnly
  <2>1. [side |-> q.side, qty |-> q.qty - c] \in Book
    BY <1>3, <1>5 DEF Book
  <2>2. PICK v \in Book : v = [side |-> q.side, qty |-> q.qty - c]
    BY <2>1
  <2>3. PICK k \in Keys : k = PositionKey(mode, q.side)
    BY <1>3
  <2>4. PICK e : e = [books EXCEPT ![key] = Flat]
    OBVIOUS
  <2>5. after = [e EXCEPT ![k] = v]
    BY <1>7, <1>11, <2>2, <2>3, <2>4
  <2>6. Flat \in Book /\ Flat.qty = 0
    BY FlatIsABook
  <2>20. e \in [Keys -> Book] /\ e[key] = Flat /\ \A l \in Keys : l # key => e[l] = books[l]
    BY <2>4, <2>6
  <2>7. HeldIn(e) = HeldIn(books) - h.qty + Flat.qty /\ HeldIn(e) \in Nat /\ HeldIn(books) \in Nat
    BY <1>1, <2>20, OneBookChanged
  <2>21. after \in [Keys -> Book] /\ after[k] = v /\ \A l \in Keys : l # k => after[l] = e[l]
    BY <2>5, <2>20
  <2>8. HeldIn(after) = HeldIn(e) - e[k].qty + v.qty /\ HeldIn(after) \in Nat
    BY <2>20, <2>21, OneBookChanged
  <2>9. e[k].qty \in Nat /\ v.qty = q.qty - c
    BY <2>2, <2>20 DEF Book
  <2> QED
    BY <1>2, <1>3, <1>5, <1>11, <2>6, <2>7, <2>21, <2>8, <2>9
<1>12. CASE ~adding /\ ~(h.qty > c) /\ ~(q.qty - c > 0 /\ ~q.reduceOnly)
  <2>1. after = [books EXCEPT ![key] = Flat]
    BY <1>7, <1>12
  <2>2. Flat \in Book /\ Flat.qty = 0
    BY FlatIsABook
  <2>20. after \in [Keys -> Book] /\ after[key] = Flat /\ \A k \in Keys : k # key => after[k] = books[k]
    BY <2>1, <2>2
  <2>3. /\ HeldIn(after) = HeldIn(books) - h.qty + Flat.qty
        /\ HeldIn(books) \in Nat /\ HeldIn(after) \in Nat
    BY <1>1, <2>20, OneBookChanged
  <2>4. HeldIn(after) <= HeldIn(books) + q.qty
    BY <1>2, <1>3, <2>2, <2>3
  <2>5. Shrunk(books, after)
    BY <1>6, <2>2, <2>20 DEF Shrunk
  <2>6. after[key].qty = 0
    BY <2>2, <2>20
  <2>7. \A k \in Keys : k # key => after[k] = books[k]
    BY <2>20
  <2>8. after \in [Keys -> Book]
    BY <2>20
  <2> QED
    BY <2>3, <2>4, <2>5, <2>6, <2>7, <2>8
<1> QED
  BY <1>9, <1>10, <1>11, <1>12

-----------------------------------------------------------------------------
(* The account.                                                            *)

LEMMA Accepting ==
  ASSUME NEW a \in Account, NEW q \in Requests, NEW status \in OrderStatuses,
         NEW new, new = Accept(a, q, status)
  PROVE  /\ new \in Account /\ new.mode = a.mode
         /\ new.orders = Append(a.orders, [request |-> q, status |-> status])
         /\ new.books = IF status = "FILLED"
                          THEN Apply(a.books, a.mode, TargetKey(a.mode, q), q) ELSE a.books
<1>1. a.mode \in Modes /\ a.books \in [Keys -> Book] /\ a.orders \in Seq(OrderRow)
  BY DEF Account
<1>2. PICK b : b = IF status = "FILLED" THEN Apply(a.books, a.mode, TargetKey(a.mode, q), q) ELSE a.books
  OBVIOUS
<1>3. b \in [Keys -> Book]
  <2>1. TargetKey(a.mode, q) \in Keys
    BY <1>1, TargetIsAKey
  <2> QED
    BY <1>1, <1>2, <2>1, Filling
<1>4. [request |-> q, status |-> status] \in OrderRow
  BY DEF OrderRow
<1>5. PICK os : os = Append(a.orders, [request |-> q, status |-> status])
  OBVIOUS
<1>6. os \in Seq(OrderRow)
  BY <1>1, <1>4, <1>5
<1>7. new = [[a EXCEPT !.books = b] EXCEPT !.orders = os]
  BY <1>2, <1>5 DEF Accept, Record, Account
<1> QED
  BY <1>1, <1>2, <1>3, <1>5, <1>6, <1>7 DEF Account

\* An order is taken once.  It fills, rests or is refused, and one that may only
\* reduce does nothing else at once.
LEMMA Placing ==
  ASSUME NEW a \in Account, NEW q \in Requests, NEW crosses \in BOOLEAN, NEW enough \in BOOLEAN,
         NEW new, new = PlaceOrder(a, q, crosses, enough), ~Known(a, q.client)
  PROVE  \E status \in {"NEW", "FILLED", "REJECTED"} :
           /\ new = Accept(a, q, status)
           /\ status = "NEW" => q.type = "LIMIT"
           /\ Closing(q) /\ status = "FILLED" => a.books[TargetKey(a.mode, q)].qty # 0
           /\ Closing(q) /\ q.type = "MARKET" /\ status # "FILLED" => a.books[TargetKey(a.mode, q)].qty = 0
<1>1. PICK status : status = StatusOf(a, q, crosses, enough)
  OBVIOUS
<1>2. status \in {"NEW", "FILLED", "REJECTED"}
  BY <1>1 DEF StatusOf
<1>3. new = Accept(a, q, status)
  BY <1>1 DEF PlaceOrder
<1>4. status = "NEW" => q.type = "LIMIT"
  BY <1>1 DEF StatusOf
<1>5. Closing(q) /\ status = "FILLED" => a.books[TargetKey(a.mode, q)].qty # 0
  BY <1>1 DEF StatusOf
<1>6. Closing(q) /\ q.type = "MARKET" /\ status # "FILLED" => a.books[TargetKey(a.mode, q)].qty = 0
  BY <1>1 DEF StatusOf
<1> QED
  BY <1>2, <1>3, <1>4, <1>5, <1>6

\* Cancelling touches nothing but the status of orders.
LEMMA Cancelling ==
  ASSUME NEW a \in Account, NEW S, NEW new, new = Cancel(a, S)
  PROVE  /\ new \in Account /\ new.mode = a.mode /\ new.books = a.books
         /\ DOMAIN new.orders = DOMAIN a.orders
         /\ \A i \in DOMAIN a.orders : new.orders[i].request = a.orders[i].request
         /\ OpenOrders(new) = OpenOrders(a) \ S
         /\ \A i \in DOMAIN a.orders : a.orders[i].status # "NEW" => new.orders[i].status = a.orders[i].status
<1>1. a.mode \in Modes /\ a.books \in [Keys -> Book] /\ a.orders \in Seq(OrderRow)
  BY DEF Account
<1>2. PICK os : os = [i \in DOMAIN a.orders |-> IF i \in S \cap OpenOrders(a)
                          THEN [a.orders[i] EXCEPT !.status = "CANCELLED"] ELSE a.orders[i]]
  OBVIOUS
<1>3. new = [a EXCEPT !.orders = os]
  BY <1>2 DEF Cancel, Account
<1>4. \A i \in DOMAIN a.orders : a.orders[i] \in OrderRow
  BY <1>1
<1>5. \A i \in DOMAIN a.orders :
        /\ os[i] \in OrderRow /\ os[i].request = a.orders[i].request
        /\ os[i].status = IF i \in S \cap OpenOrders(a) THEN "CANCELLED" ELSE a.orders[i].status
  <2> TAKE i \in DOMAIN a.orders
  <2>1. PICK r \in OrderRow : r = a.orders[i]
    BY <1>4
  <2>2. os[i] = IF i \in S \cap OpenOrders(a) THEN [r EXCEPT !.status = "CANCELLED"] ELSE r
    BY <1>2, <2>1
  <2>3. "CANCELLED" \in OrderStatuses
    BY DEF OrderStatuses
  <2> QED
    BY <2>1, <2>2, <2>3 DEF OrderRow
<1>6. os \in Seq(OrderRow) /\ DOMAIN os = DOMAIN a.orders
  <2>1. DOMAIN a.orders = 1..Len(a.orders) /\ Len(a.orders) \in Nat
    BY <1>1
  <2>2. os \in [1..Len(a.orders) -> OrderRow]
    BY <1>2, <1>5, <2>1
  <2> QED
    BY <2>1, <2>2, SeqDef
<1>7. new \in Account /\ new.mode = a.mode /\ new.books = a.books /\ new.orders = os
  BY <1>1, <1>3, <1>6 DEF Account
<1>8. OpenOrders(new) = OpenOrders(a) \ S
  BY <1>5, <1>6, <1>7 DEF OpenOrders
<1>9. \A i \in DOMAIN a.orders : a.orders[i].status # "NEW" => new.orders[i].status = a.orders[i].status
  BY <1>5, <1>7 DEF OpenOrders
<1> QED
  BY <1>5, <1>6, <1>7, <1>8, <1>9

\* A resting order that is crossed fills.
LEMMA FillingResting ==
  ASSUME NEW a \in Account, NEW i \in DOMAIN a.orders, NEW new, new = FillResting(a, i)
  PROVE  /\ new \in Account /\ new.mode = a.mode
         /\ LET q == a.orders[i].request IN
            /\ q \in Requests /\ new.books = Apply(a.books, a.mode, TargetKey(a.mode, q), q)
         /\ DOMAIN new.orders = DOMAIN a.orders
         /\ \A j \in DOMAIN a.orders : new.orders[j].request = a.orders[j].request
         /\ OpenOrders(new) = OpenOrders(a) \ {i}
         /\ \A j \in DOMAIN a.orders : j # i => new.orders[j] = a.orders[j]
<1>1. a.mode \in Modes /\ a.books \in [Keys -> Book] /\ a.orders \in Seq(OrderRow)
  BY DEF Account
<1>2. a.orders[i] \in OrderRow
  BY <1>1
<1>3. PICK q \in Requests : q = a.orders[i].request
  BY <1>2 DEF OrderRow
<1>4. PICK b : b = Apply(a.books, a.mode, TargetKey(a.mode, q), q)
  OBVIOUS
<1>5. b \in [Keys -> Book]
  <2>1. TargetKey(a.mode, q) \in Keys
    BY <1>1, TargetIsAKey
  <2> QED
    BY <1>1, <1>4, <2>1, Filling
<1>6. PICK r : r = [a.orders[i] EXCEPT !.status = "FILLED"]
  OBVIOUS
<1>7. r \in OrderRow /\ r.request = q /\ r.status = "FILLED"
  BY <1>2, <1>3, <1>6 DEF OrderRow, OrderStatuses
<1>8. PICK os : os = [a.orders EXCEPT ![i] = r]
  OBVIOUS
<1>9. os \in Seq(OrderRow) /\ DOMAIN os = DOMAIN a.orders /\ os[i] = r
      /\ \A j \in DOMAIN a.orders : j # i => os[j] = a.orders[j]
  BY <1>1, <1>7, <1>8
<1>10. new = [[a EXCEPT !.books = b] EXCEPT !.orders = os]
  BY <1>3, <1>4, <1>6, <1>8 DEF FillResting, Account
<1>11. new \in Account /\ new.mode = a.mode /\ new.books = b /\ new.orders = os
  BY <1>1, <1>5, <1>9, <1>10 DEF Account
<1>12. \A j \in DOMAIN a.orders : new.orders[j].request = a.orders[j].request
  BY <1>3, <1>7, <1>9, <1>11
<1>13. OpenOrders(new) = OpenOrders(a) \ {i}
  BY <1>7, <1>9, <1>11 DEF OpenOrders
<1>14. \A j \in DOMAIN a.orders : j # i => new.orders[j] = a.orders[j]
  BY <1>9, <1>11
<1> QED
  BY <1>3, <1>4, <1>9, <1>11, <1>12, <1>13, <1>14

-----------------------------------------------------------------------------
(* The guard's memory of orders.                                           *)

LEMMA LeastIndex ==
  ASSUME NEW S \in SUBSET Nat, S # {}
  PROVE  \E x \in S : \A y \in S : x <= y
<1> DEFINE R == OpToRel(<, Nat)
<1>0. IsWellFoundedOn(R, Nat)
  BY NatLessThanWellFounded
<1> HIDE DEF R
<1>1. PICK x \in S : \A y \in S : ~ (<<y, x>> \in R)
  BY <1>0, WFMin
<1>2. ASSUME NEW y \in S PROVE x <= y
  <2>1. ~ (y < x)
    BY <1>1 DEF OpToRel, R
  <2> QED
    BY <2>1
<1> QED
  BY <1>2

\* Trimming drops a front of the times, none of it within the minute.
Drops(times, at, cut, kept) ==
  /\ Len(kept) = Len(times) - cut
  /\ \A i \in 1..Len(kept) : kept[i] = times[i + cut]
  /\ \A i \in 1..cut : ~(at - times[i] < Minute)

LEMMA TrimIs ==
  ASSUME NEW T \in SUBSET Nat, NEW times \in Seq(T), NEW at \in Nat, NEW kept, kept = Risk!Trim(times, at)
  PROVE  kept \in Seq(T) /\ \E cut \in 0..Len(times) : Drops(times, at, cut, kept)
<1>1. PICK fresh : fresh = {i \in 1..Len(times) : at - times[i] < Minute}
  OBVIOUS
<1>2. Len(times) \in Nat /\ fresh \subseteq Nat /\ Minute \in Nat
  BY <1>1, LimitsAssumption
<1>3. CASE fresh = {}
  <2>1. kept = <<>>
    BY <1>1, <1>3 DEF Risk!Trim
  <2>2. Drops(times, at, Len(times), kept)
    BY <1>1, <1>2, <1>3, <2>1 DEF Drops
  <2> QED
    BY <1>2, <2>1, <2>2
<1>4. CASE fresh # {}
  <2>1. \E i \in fresh : \A k \in fresh : i <= k
    BY <1>2, <1>4, LeastIndex
  <2>2. PICK first : first = CHOOSE i \in fresh : \A k \in fresh : i <= k
    OBVIOUS
  <2>3. first \in fresh /\ \A k \in fresh : first <= k
    BY <2>1, <2>2
  <2>4. kept = SubSeq(times, first, Len(times))
    BY <1>1, <1>4, <2>2 DEF Risk!Trim
  <2>5. first \in 1..Len(times)
    BY <1>1, <2>3
  <2>6. PICK cut \in 0..Len(times) : cut = first - 1
    BY <1>2, <2>5
  <2>7. kept \in Seq(T) /\ Len(kept) = Len(times) - cut
    BY <1>2, <2>4, <2>5, <2>6
  <2>8. \A i \in 1..Len(kept) : kept[i] = times[i + cut]
    BY <1>2, <2>4, <2>5, <2>6
  <2>9. \A i \in 1..cut : ~(at - times[i] < Minute)
    <3>1. \A i \in 1..cut : i \in 1..Len(times) /\ ~(first <= i)
      BY <1>2, <2>5, <2>6
    <3> QED
      BY <1>1, <2>3, <3>1
  <2> QED
    BY <2>7, <2>8, <2>9 DEF Drops
<1> QED
  BY <1>3, <1>4

-----------------------------------------------------------------------------
(* The invariants.                                                         *)

\* A request's trade side follows from its being reduce-only, as the mode of the
\* account never changes.
SidesFollow(q) == q.tradeSide = TradeSide(q.reduceOnly)

\* Every request has a number of its own, and one that was answered is gone.
Numbered ==
  /\ \A m \in wire : /\ 0 < m.n /\ m.n <= sends
                     /\ SidesFollow(m.request)
                     /\ \A o \in wire : o.n = m.n => o = m
                     /\ \A a \in answers : a.n # m.n
  /\ \A a \in answers : 0 < a.n /\ a.n <= sends
  /\ \A i \in DOMAIN account.orders : SidesFollow(account.orders[i].request)

\* A signal in hand is one of the script's, and a kill that closes has what to.
Stages ==
  /\ bot.stage # "idle" => bot.at <= Len(Script)
  /\ \A k \in Kills : kill[k].stage = "close" => kill[k].todo # <<>>

Base == TypeOK /\ Numbered /\ Stages

\* While the bot waits for the answer to an opening order there is room for it
\* in the minute, and the guard remembers at least what is counted here.
CountAbove(times, t) == Cardinality({i \in DOMAIN times : times[i] > t})

RateInv ==
  /\ \A t \in Int : clock - Minute <= t => CountAbove(opened, t) <= CountAbove(recent, t)
  /\ bot.stage = "sent" /\ ~Script[bot.at].reduceOnly =>
       CountAbove(opened, clock - Minute) <= Rate - 1
  /\ CountAbove(opened, clock - Minute) <= Rate

\* Unless an order was checked blindly or a close went astray, the opening orders
\* under way are one signal's, the venue will take one of them, and there is room
\* for it.
OpeningWire == {m \in wire : Opening(m.request)}
OpeningRests == {i \in OpenOrders(account) : Opening(account.orders[i].request)}

Room ==
  /\ Held(account) <= PositionLimit
  /\ \A m \in OpeningWire :
       /\ Known(account, m.request.client) \/ Held(account) + m.request.qty <= PositionLimit
       /\ \A o \in OpeningWire : o.request.client = m.request.client
       /\ OpeningRests # {} => Known(account, m.request.client)
  /\ \A i \in OpeningRests :
       /\ Held(account) + account.orders[i].request.qty <= PositionLimit
       /\ \A j \in OpeningRests : i = j

RoomInv == blind \/ stray \/ Room

\* Unless a close went astray, a position is where the close of it will look.
PlacedIn(mode, books) ==
  \A key \in Keys : books[key].qty > 0 => key = PositionKey(mode, books[key].side)
PlaceInv == stray \/ PlacedIn(account.mode, account.books)

\* A kill with a second of its own that has seen no failure: its requests are the
\* one it waits for, which closes what it closes in full, and no client id of its
\* requests to come is known.
Alone(k) == \A o \in Kills : o # k => KillSecond[o] # KillSecond[k]
Awaited(k, m) == kill[k].stage = "wait" /\ m.n = kill[k].n

OwnIds(k) ==
  /\ \A i \in DOMAIN account.orders : \A j \in Nat :
       account.orders[i].request.client = FlattenId(k, j) => j < kill[k].index
  /\ \A m \in wire : m.from = k =>
       /\ Awaited(k, m) /\ kill[k].index > 0
       /\ m.request.client = FlattenId(k, kill[k].index - 1)
       /\ m.request.reduceOnly /\ m.request.type = "MARKET"
       /\ ~Known(account, m.request.client)
  /\ \A m \in wire : \A j \in Nat : m.request.client = FlattenId(k, j) => m.from = k

OwnNumber(k) == kill[k].n <= sends /\ \A m \in wire : Awaited(k, m) => m.from = k
OwnsIds(k) == Alone(k) /\ kill[k].stage # "committed" /\ ~kill[k].failed => OwnIds(k)

OwnInv == \A k \in Kills : OwnNumber(k) /\ OwnsIds(k)

\* No order rests, and every position is still to close or is being closed.
Undisturbed(k) ==
  kill[k].stage \in {"read", "close", "wait"} /\ kill[k].alone /\ ~kill[k].failed /\ Alone(k)

KeyOf(position) == PositionKey(account.mode, position.side)
ToClose(k, key) == \E i \in DOMAIN kill[k].todo : account.books[key] = kill[k].todo[i]
OnTheWire(k, key) == \E m \in wire : Awaited(k, m) /\ TargetKey(account.mode, m.request) = key
Lost(k) ==
  /\ kill[k].stage = "wait" /\ [n |-> kill[k].n, reply |-> "order"] \notin answers
  /\ \A m \in wire : ~Awaited(k, m)

Accounted(k) ==
  \A key \in Keys : account.books[key].qty > 0 => ToClose(k, key) \/ OnTheWire(k, key) \/ Lost(k)
InFull(k) ==
  /\ \A i \in DOMAIN kill[k].todo :
       account.books[KeyOf(kill[k].todo[i])].qty <= kill[k].todo[i].qty
  /\ \A m \in wire : m.from = k =>
       account.books[TargetKey(account.mode, m.request)].qty <= m.request.qty

OnItsWay(k) ==
  /\ OpenOrders(account) = {}
  /\ kill[k].stage \in {"close", "wait"} => Accounted(k) /\ InFull(k)

WayInv == stray \/ \A k \in Kills : Undisturbed(k) => OnItsWay(k)

-----------------------------------------------------------------------------
(* Types, numbers and stages.                                              *)

LEMMA AccountType == TypeOK => account \in Account
  BY DEF TypeOK, Account, OrderRow

LEMMA TimesAreNumbers == 0..MaxClock \in SUBSET Nat /\ MaxClock \in Nat /\ MaxSends \in Nat /\ Minute \in Nat
                         /\ Rate \in Nat /\ PositionLimit \in Nat
  BY BoundsAssumption, LimitsAssumption

LEMMA SidesStayFollowed ==
  ASSUME account'.mode = account.mode
  PROVE  \A q : SidesFollow(q)' <=> SidesFollow(q)
  BY DEF SidesFollow, TradeSide

LEMMA OpeningIs ==
  ASSUME TypeOK, NEW q \in Requests, SidesFollow(q)
  PROVE  /\ Closing(q) <=> q.reduceOnly
         /\ Opening(q) <=> ~q.reduceOnly
         /\ q.reduceOnly => q.tradeSide = IF account.mode = "ONE_WAY" THEN "none" ELSE "CLOSE"
         /\ ~q.reduceOnly => q.tradeSide # "CLOSE"
<1>1. q.reduceOnly \in BOOLEAN
  BY DEF Requests
<1> QED
  BY <1>1 DEF Opening, Closing, SidesFollow, TradeSide

LEMMA SignalRequests ==
  ASSUME TypeOK, NEW s \in DOMAIN Script
  PROVE  /\ SignalRequest(s, bot.attempt) \in Requests /\ SidesFollow(SignalRequest(s, bot.attempt))
         /\ SignalRequest(s, bot.attempt).reduceOnly = Script[s].reduceOnly
         /\ SignalRequest(s, bot.attempt).client = SignalId(s, bot.attempt)
         /\ s \in Nat /\ s \in 1..Len(Script) /\ Len(Script) \in Nat
<1>1. Script[s] \in Signals /\ s \in Nat /\ s \in 1..Len(Script) /\ Len(Script) \in Nat
  <2>1. Script \in Seq(Signals)
    BY ScriptAssumption DEF Signals
  <2> QED
    BY <2>1
<1>2. PICK g \in Signals : g = Script[s]
  BY <1>1
<1>3. TradeSide(g.reduceOnly) \in {"none", "OPEN", "CLOSE"}
  BY DEF TradeSide
<1>4. SignalId(s, bot.attempt) \in Clients
  BY <1>1 DEF TypeOK, SignalId, Clients
<1>5. /\ SignalRequest(s, bot.attempt) = [client |-> SignalId(s, bot.attempt), side |-> g.side, qty |-> g.qty, type |-> g.type,
                             reduceOnly |-> g.reduceOnly, tradeSide |-> TradeSide(g.reduceOnly)]
      /\ g.side \in Sides /\ g.qty \in Nat /\ g.type \in {"MARKET", "LIMIT"} /\ g.reduceOnly \in BOOLEAN
  BY <1>2 DEF SignalRequest, Signals
<1>6. SignalRequest(s, bot.attempt) \in Requests
  BY <1>3, <1>4, <1>5 DEF Requests
<1>7. /\ SidesFollow(SignalRequest(s, bot.attempt)) /\ SignalRequest(s, bot.attempt).reduceOnly = Script[s].reduceOnly
      /\ SignalRequest(s, bot.attempt).client = SignalId(s, bot.attempt)
  BY <1>2, <1>5 DEF SidesFollow
<1> QED
  BY <1>1, <1>6, <1>7

LEMMA FlattenRequests ==
  ASSUME TypeOK, NEW k \in Kills, NEW index \in Nat, NEW position \in Book,
         NEW q, q = FlattenRequest(k, index, position)
  PROVE  /\ q \in Requests /\ SidesFollow(q) /\ q.reduceOnly /\ q.type = "MARKET"
         /\ q.client = FlattenId(k, index) /\ q.qty = position.qty /\ q.side = Opposite(position.side)
<1>1. FlattenId(k, index) \in Clients
  BY KillsAssumption DEF FlattenId, Clients
<1>2. position.qty \in Nat /\ Opposite(position.side) \in Sides
  BY DEF Book, Opposite, Sides
<1>3. TradeSide(TRUE) \in {"none", "OPEN", "CLOSE"}
  BY DEF TradeSide
<1>4. q = [client |-> FlattenId(k, index), side |-> Opposite(position.side), qty |-> position.qty,
           type |-> "MARKET", reduceOnly |-> TRUE, tradeSide |-> TradeSide(TRUE)]
  BY DEF FlattenRequest
<1>5. PICK c \in Clients, side \in Sides, size \in Nat, trade \in {"none", "OPEN", "CLOSE"} :
        /\ c = FlattenId(k, index) /\ side = Opposite(position.side)
        /\ size = position.qty /\ trade = TradeSide(TRUE)
  BY <1>1, <1>2, <1>3
<1>6. q = [client |-> c, side |-> side, qty |-> size, type |-> "MARKET", reduceOnly |-> TRUE, tradeSide |-> trade]
  BY <1>4, <1>5
<1>7. q \in Requests
  BY <1>6 DEF Requests
<1> QED
  BY <1>4, <1>7 DEF SidesFollow

\* What a delivery does to the account, if the client id is new.
Taken(m, status) ==
  /\ ~Known(account, m.request.client)
  /\ account'.orders = Append(account.orders, [request |-> m.request, status |-> status])
  /\ account'.books = IF status = "FILLED"
       THEN Apply(account.books, account.mode, TargetKey(account.mode, m.request), m.request)
       ELSE account.books
  /\ status = "NEW" => m.request.type = "LIMIT"
  /\ LET nothing == account.books[TargetKey(account.mode, m.request)].qty = 0 IN
     /\ Closing(m.request) /\ status = "FILLED" => ~nothing
     /\ Closing(m.request) /\ m.request.type = "MARKET" /\ status # "FILLED" => nothing

LEMMA Delivery ==
  ASSUME TypeOK, NEW m \in wire, Deliver(m)
  PROVE  /\ m.request \in Requests /\ m.n \in Nat /\ m.from \in Callers
         /\ account' \in Account /\ account'.mode = account.mode
         /\ \/ Known(account, m.request.client) /\ account' = account
            \/ \E status \in {"NEW", "FILLED", "REJECTED"} : Taken(m, status)
<1>1. m.request \in Requests /\ m.n \in Nat /\ m.from \in Callers
  BY DEF TypeOK, Numbers
<1>2. PICK q \in Requests : q = m.request
  BY <1>1
<1>3. PICK crosses \in BOOLEAN, enough \in BOOLEAN : account' = PlaceOrder(account, q, crosses, enough)
  BY <1>2 DEF Deliver
<1>4. PICK a \in Account : a = account
  BY AccountType
<1>5. PICK new : new = PlaceOrder(a, q, crosses, enough)
  OBVIOUS
<1>6. account' = new
  BY <1>3, <1>4, <1>5
<1>7. CASE Known(a, q.client)
  <2>1. new = a
    BY <1>5, <1>7 DEF PlaceOrder
  <2> QED
    BY <1>1, <1>2, <1>4, <1>6, <1>7, <2>1
<1>8. CASE ~Known(a, q.client)
  <2>1. PICK status \in {"NEW", "FILLED", "REJECTED"} :
           /\ new = Accept(a, q, status)
           /\ status = "NEW" => q.type = "LIMIT"
           /\ Closing(q) /\ status = "FILLED" => a.books[TargetKey(a.mode, q)].qty # 0
           /\ Closing(q) /\ q.type = "MARKET" /\ status # "FILLED" => a.books[TargetKey(a.mode, q)].qty = 0
    BY <1>5, <1>8, Placing
  <2>2. status \in OrderStatuses
    BY <2>1 DEF OrderStatuses
  <2>3. /\ new \in Account /\ new.mode = a.mode
        /\ new.orders = Append(a.orders, [request |-> q, status |-> status])
        /\ new.books = IF status = "FILLED"
                         THEN Apply(a.books, a.mode, TargetKey(a.mode, q), q) ELSE a.books
    BY <2>1, <2>2, Accepting
  <2>4. Taken(m, status)
    BY <1>2, <1>4, <1>6, <1>8, <2>1, <2>3 DEF Taken
  <2> QED
    BY <1>1, <1>4, <1>6, <2>3, <2>4
<1> QED
  BY <1>7, <1>8

\* What each step of a kill does to its row.
KillRow == [stage : KillStages, todo : Seq(Book), index : Nat, n : Numbers,
            failed : BOOLEAN, alone : BOOLEAN]
Rows == [Kills -> KillRow]
OthersStay(k) == \A o \in Kills : o # k => kill'[o] = kill[o]

LEMMA KillRows == TypeOK => kill \in Rows
  BY DEF TypeOK, Rows, KillRow

LEMMA RowReplaced ==
  ASSUME TypeOK, NEW k \in Kills, NEW e \in KillRow, kill' = [kill EXCEPT ![k] = e]
  PROVE  kill' \in Rows /\ kill'[k] = e /\ OthersStay(k)
  BY KillRows DEF Rows, OthersStay

LEMMA CancelRow ==
  ASSUME TypeOK, NEW k \in Kills, KillCancel(k)
  PROVE  /\ kill' \in Rows /\ OthersStay(k)
         /\ kill'[k].stage = "read" /\ kill'[k].todo = kill[k].todo /\ kill'[k].index = kill[k].index
         /\ kill'[k].n = kill[k].n /\ kill'[k].alone = kill[k].alone
         /\ \E S : /\ account' = Cancel(account, S)
                   /\ ~kill'[k].failed => S = OpenOrders(account) /\ ~kill[k].failed
<1>1. PICK r \in KillRow : r = kill[k]
  BY KillRows DEF Rows
<1>2. CASE account' = CancelAll(account) /\ kill' = [kill EXCEPT ![k].stage = "read"]
  <2>1. PICK e : e = [r EXCEPT !.stage = "read"]
    OBVIOUS
  <2>2. e \in KillRow
    BY <2>1 DEF KillRow, KillStages
  <2>3. /\ e.stage = "read" /\ e.todo = r.todo /\ e.index = r.index /\ e.n = r.n
        /\ e.alone = r.alone /\ e.failed = r.failed
    BY <2>1 DEF KillRow
  <2>4. kill' = [kill EXCEPT ![k] = e]
    BY <1>1, <1>2, <2>1
  <2>5. kill' \in Rows /\ kill'[k] = e /\ OthersStay(k)
    BY <2>2, <2>4, RowReplaced
  <2>6. account' = Cancel(account, OpenOrders(account))
    BY <1>2 DEF CancelAll
  <2> QED
    BY <1>1, <2>3, <2>5, <2>6
<1>3. CASE /\ \E S \in SUBSET OpenOrders(account) : account' = Cancel(account, S)
           /\ kill' = [kill EXCEPT ![k].stage = "read", ![k].failed = TRUE]
  <2>1. PICK e : e = [r EXCEPT !.stage = "read", !.failed = TRUE]
    OBVIOUS
  <2>2. e \in KillRow
    BY <2>1 DEF KillRow, KillStages
  <2>3. /\ e.stage = "read" /\ e.todo = r.todo /\ e.index = r.index /\ e.n = r.n
        /\ e.alone = r.alone /\ e.failed = TRUE
    BY <2>1 DEF KillRow
  <2>4. kill' = [kill EXCEPT ![k] = e]
    BY <1>1, <1>3, <2>1, KillRows DEF Rows
  <2>5. kill' \in Rows /\ kill'[k] = e /\ OthersStay(k)
    BY <2>2, <2>4, RowReplaced
  <2> QED
    BY <1>1, <1>3, <2>3, <2>5
<1> QED
  BY <1>2, <1>3 DEF KillCancel

\* The positions to close are every book that holds something.
LEMMA PositionsAre ==
  ASSUME NEW a \in Account, NEW held, held = Positions(a)
  PROVE  /\ held \in Seq(Keys)
         /\ \A key \in Keys : a.books[key].qty > 0 => \E i \in DOMAIN held : held[i] = key
         /\ \A i \in DOMAIN held : a.books[held[i]].qty > 0
<1> DEFINE there(k) == IF a.books[k].qty > 0 THEN <<k>> ELSE <<>>
<1>1. there("net") \in Seq(Keys) /\ there("BUY") \in Seq(Keys) /\ there("SELL") \in Seq(Keys)
  BY KeysAre
<1>2. PICK x \in Seq(Keys), y \in Seq(Keys), z \in Seq(Keys) :
        x = there("net") /\ y = there("BUY") /\ z = there("SELL")
  BY <1>1
<1>3. held = (x \o y) \o z
  BY <1>2 DEF Positions
<1>4. \A key \in Keys : a.books[key].qty > 0 =>
        \/ x = <<key>> \/ y = <<key>> \/ z = <<key>>
  BY <1>2, KeysAre
<1>7. /\ \A i \in DOMAIN x : a.books[x[i]].qty > 0
      /\ \A i \in DOMAIN y : a.books[y[i]].qty > 0
      /\ \A i \in DOMAIN z : a.books[z[i]].qty > 0
  BY <1>2
<1> HIDE DEF there
<1>5. held \in Seq(Keys) /\ Len(held) = Len(x) + Len(y) + Len(z)
      /\ Len(x) \in Nat /\ Len(y) \in Nat /\ Len(z) \in Nat
  BY <1>3
<1>6. ASSUME NEW key \in Keys, a.books[key].qty > 0 PROVE \E i \in DOMAIN held : held[i] = key
  <2>1. CASE x = <<key>>
    <3>1. held[1] = key /\ 1 \in DOMAIN held
      BY <1>3, <1>5, <2>1
    <3> QED
      BY <3>1
  <2>2. CASE y = <<key>>
    <3>1. held[Len(x) + 1] = key /\ Len(x) + 1 \in DOMAIN held
      BY <1>3, <1>5, <2>2
    <3> QED
      BY <3>1
  <2>3. CASE z = <<key>>
    <3>1. held[Len(x) + Len(y) + 1] = key /\ Len(x) + Len(y) + 1 \in DOMAIN held
      BY <1>3, <1>5, <2>3
    <3> QED
      BY <3>1
  <2> QED
    BY <1>4, <1>6, <2>1, <2>2, <2>3
<1>8. ASSUME NEW i \in DOMAIN held PROVE a.books[held[i]].qty > 0
  <2>1. i \in Nat /\ 1 <= i /\ i <= Len(x) + Len(y) + Len(z)
    BY <1>5
  <2>2. CASE i <= Len(x)
    <3>1. i \in DOMAIN x /\ held[i] = x[i]
      BY <1>3, <1>5, <2>1, <2>2
    <3> QED
      BY <1>7, <3>1
  <2>3. CASE Len(x) < i /\ i <= Len(x) + Len(y)
    <3>1. i - Len(x) \in DOMAIN y /\ held[i] = y[i - Len(x)]
      BY <1>3, <1>5, <2>1, <2>3
    <3> QED
      BY <1>7, <3>1
  <2>4. CASE Len(x) + Len(y) < i
    <3>1. i - (Len(x) + Len(y)) \in DOMAIN z /\ held[i] = z[i - (Len(x) + Len(y))]
      BY <1>3, <1>5, <2>1, <2>4
    <3> QED
      BY <1>7, <3>1
  <2> QED
    BY <1>5, <2>1, <2>2, <2>3, <2>4
<1> QED
  BY <1>5, <1>6, <1>8

LEMMA ReadRow ==
  ASSUME TypeOK, NEW k \in Kills, KillRead(k)
  PROVE  /\ kill' \in Rows /\ OthersStay(k)
         /\ kill'[k].stage \in {"close", "finished"} /\ kill'[k].index = kill[k].index
         /\ kill'[k].n = kill[k].n /\ kill'[k].alone = kill[k].alone
         /\ kill'[k].stage = "close" => kill'[k].todo # <<>>
         /\ ~kill'[k].failed =>
              /\ ~kill[k].failed
              /\ kill'[k].stage = "finished" => kill'[k].todo = <<>>
              /\ \A key \in Keys : account.books[key].qty > 0 =>
                   \E i \in DOMAIN kill'[k].todo : account.books[key] = kill'[k].todo[i]
              /\ \A i \in DOMAIN kill'[k].todo :
                   \E key \in Keys : account.books[key].qty > 0 /\ account.books[key] = kill'[k].todo[i]
<1>1. PICK r \in KillRow : r = kill[k]
  BY KillRows DEF Rows
<1>2. PICK held : held = Positions(account)
  OBVIOUS
<1>3. PICK todo : todo = [i \in DOMAIN held |-> account.books[held[i]]]
  OBVIOUS
<1>4. /\ held \in Seq(Keys)
      /\ \A key \in Keys : account.books[key].qty > 0 => \E i \in DOMAIN held : held[i] = key
      /\ \A i \in DOMAIN held : account.books[held[i]].qty > 0
  BY <1>2, AccountType, PositionsAre
<1>5. todo \in Seq(Book) /\ DOMAIN todo = DOMAIN held
  <2>1. DOMAIN held = 1..Len(held) /\ Len(held) \in Nat /\ \A i \in DOMAIN held : held[i] \in Keys
    BY <1>4
  <2>2. account.books \in [Keys -> Book]
    BY AccountType DEF Account
  <2>3. todo \in [1..Len(held) -> Book]
    BY <1>3, <2>1, <2>2
  <2> QED
    BY <1>3, <2>1, <2>3, SeqDef
<1>6. \A key \in Keys : account.books[key].qty > 0 => \E i \in DOMAIN todo : account.books[key] = todo[i]
  BY <1>3, <1>4, <1>5
<1>9. \A i \in DOMAIN todo : \E key \in Keys : account.books[key].qty > 0 /\ account.books[key] = todo[i]
  <2>1. \A i \in DOMAIN held : held[i] \in Keys
    BY <1>4
  <2> QED
    BY <1>3, <1>4, <1>5, <2>1
<1>7. CASE kill' = [kill EXCEPT ![k].stage = Remaining(todo), ![k].todo = todo]
  <2>1. PICK stage \in {"close", "finished"} : stage = Remaining(todo)
    BY DEF Remaining
  <2>2. PICK e : e = [r EXCEPT !.stage = stage, !.todo = todo]
    OBVIOUS
  <2>3. e \in KillRow
    BY <1>5, <2>1, <2>2 DEF KillRow, KillStages
  <2>4. /\ e.stage = stage /\ e.todo = todo /\ e.index = r.index /\ e.n = r.n
        /\ e.alone = r.alone /\ e.failed = r.failed
    BY <2>2 DEF KillRow
  <2>5. kill' = [kill EXCEPT ![k] = e]
    BY <1>1, <1>7, <2>1, <2>2, KillRows DEF Rows
  <2>6. kill' \in Rows /\ kill'[k] = e /\ OthersStay(k)
    BY <2>3, <2>5, RowReplaced
  <2>7. (stage = "close" => todo # <<>>) /\ (stage = "finished" => todo = <<>>)
    BY <2>1 DEF Remaining
  <2> QED
    BY <1>1, <1>6, <1>9, <2>1, <2>4, <2>6, <2>7
<1>8. CASE kill' = [kill EXCEPT ![k].stage = "finished", ![k].failed = TRUE]
  <2>2. PICK e : e = [r EXCEPT !.stage = "finished", !.failed = TRUE]
    OBVIOUS
  <2>3. e \in KillRow
    BY <2>2 DEF KillRow, KillStages
  <2>4. /\ e.stage = "finished" /\ e.index = r.index /\ e.n = r.n
        /\ e.alone = r.alone /\ e.failed = TRUE
    BY <2>2 DEF KillRow
  <2>5. kill' = [kill EXCEPT ![k] = e]
    BY <1>1, <1>8, <2>2, KillRows DEF Rows
  <2>6. kill' \in Rows /\ kill'[k] = e /\ OthersStay(k)
    BY <2>3, <2>5, RowReplaced
  <2> QED
    BY <1>1, <2>4, <2>6
<1> QED
  BY <1>2, <1>3, <1>7, <1>8 DEF KillRead

LEMMA CloseRow ==
  ASSUME TypeOK, Stages, NEW k \in Kills, KillClose(k)
  PROVE  /\ kill' \in Rows /\ OthersStay(k)
         /\ kill'[k].stage = "wait" /\ kill'[k].todo = Tail(kill[k].todo)
         /\ kill'[k].index = kill[k].index + 1 /\ kill'[k].n = sends + 1
         /\ kill'[k].alone = kill[k].alone /\ kill'[k].failed = kill[k].failed
         /\ sends + 1 \in Numbers /\ kill[k].todo # <<>> /\ kill[k].stage = "close"
         /\ Head(kill[k].todo) \in Book /\ kill[k].index \in Nat
<1>1. PICK r \in KillRow : r = kill[k]
  BY KillRows DEF Rows
<1>2. sends \in Nat /\ sends < MaxSends /\ sends + 1 \in Numbers
  <2>1. sends \in 0..MaxSends
    BY DEF TypeOK, Numbers
  <2>2. sends < MaxSends
    BY DEF KillClose, Send
  <2> QED
    BY <2>1, <2>2, TimesAreNumbers DEF Numbers
<1>3. r.stage = "close" /\ r.todo # <<>> /\ r.todo \in Seq(Book) /\ r.index \in Nat
  BY <1>1 DEF KillClose, Stages, KillRow
<1>4. Tail(r.todo) \in Seq(Book) /\ Head(r.todo) \in Book
  BY <1>3
<1>11. PICK next \in Nat : next = r.index + 1
  BY <1>3
<1>12. PICK number \in Numbers : number = sends + 1
  BY <1>2
<1>5. PICK rest \in Seq(Book) : rest = Tail(r.todo)
  BY <1>4
<1>6. PICK e : e = [r EXCEPT !.stage = "wait", !.n = number, !.todo = rest, !.index = next]
  OBVIOUS
<1>10. e \in KillRow
  BY <1>6 DEF KillRow, KillStages
<1>7. /\ e.stage = "wait" /\ e.todo = Tail(r.todo) /\ e.index = r.index + 1 /\ e.n = sends + 1
      /\ e.alone = r.alone /\ e.failed = r.failed
  BY <1>5, <1>6, <1>11, <1>12 DEF KillRow
<1>8. kill' = [kill EXCEPT ![k] = e]
  BY <1>1, <1>5, <1>6, <1>11, <1>12, KillRows DEF KillClose, Rows, KillRow
<1>9. kill' \in Rows /\ kill'[k] = e /\ OthersStay(k)
  BY <1>8, <1>10, RowReplaced
<1> QED
  BY <1>1, <1>2, <1>3, <1>4, <1>7, <1>9

LEMMA AnsweredRow ==
  ASSUME TypeOK, NEW k \in Kills, KillAnswered(k)
  PROVE  /\ kill' \in Rows /\ OthersStay(k)
         /\ kill[k].stage = "wait" /\ kill'[k].stage \in {"close", "finished"}
         /\ kill'[k].todo = kill[k].todo /\ kill'[k].index = kill[k].index /\ kill'[k].n = 0
         /\ kill'[k].stage = "close" => kill'[k].todo # <<>>
         /\ kill'[k].stage = "finished" => kill'[k].todo = <<>>
         /\ kill'[k].alone = kill[k].alone
         /\ ~kill'[k].failed => ~kill[k].failed /\ [n |-> kill[k].n, reply |-> "order"] \in answers
<1>1. PICK r \in KillRow : r = kill[k]
  BY KillRows DEF Rows
<1>2. PICK closed \in BOOLEAN :
        /\ closed => [n |-> r.n, reply |-> "order"] \in answers
        /\ kill' = [kill EXCEPT ![k].stage = Remaining(kill[k].todo), ![k].n = 0,
                                ![k].failed = @ \/ ~closed]
  BY <1>1 DEF KillAnswered
<1>3. PICK stage \in {"close", "finished"} : stage = Remaining(r.todo)
  BY DEF Remaining
<1>4. PICK failed \in BOOLEAN : failed = (r.failed \/ ~closed)
  OBVIOUS
<1>5. PICK e : e = [r EXCEPT !.stage = stage, !.n = 0, !.failed = failed]
  OBVIOUS
<1>6. 0 \in Numbers
  BY TimesAreNumbers DEF Numbers
<1>7. e \in KillRow
  BY <1>3, <1>4, <1>5, <1>6 DEF KillRow, KillStages
<1>8. /\ e.stage = stage /\ e.todo = r.todo /\ e.index = r.index /\ e.n = 0
      /\ e.alone = r.alone /\ e.failed = failed
  BY <1>5 DEF KillRow
<1>9. kill' = [kill EXCEPT ![k] = e]
  BY <1>1, <1>2, <1>3, <1>4, <1>5, KillRows DEF Rows, KillRow
<1>10. kill' \in Rows /\ kill'[k] = e /\ OthersStay(k)
  BY <1>7, <1>9, RowReplaced
<1>11. (stage = "close" => r.todo # <<>>) /\ (stage = "finished" => r.todo = <<>>)
  BY <1>3 DEF Remaining
<1>12. kill[k].stage = "wait"
  BY DEF KillAnswered
<1> QED
  BY <1>1, <1>2, <1>4, <1>8, <1>10, <1>11, <1>12

LEMMA CommitRow ==
  ASSUME TypeOK, NEW k \in Kills, KillCommit(k)
  PROVE  /\ kill' \in Rows /\ OthersStay(k)
         /\ kill'[k].stage = "committed" /\ kill'[k].n = 0 /\ kill[k].stage = "finished"
<1>1. PICK e : e = [KillIdle EXCEPT !.stage = "committed"]
  OBVIOUS
<1>2. e = [stage |-> "committed", todo |-> <<>>, index |-> 0, n |-> 0, failed |-> FALSE, alone |-> TRUE]
  BY <1>1 DEF KillIdle
<1>3. e \in KillRow
  BY <1>2, TimesAreNumbers DEF KillRow, KillStages, Numbers
<1>4. kill' = [kill EXCEPT ![k] = e]
  BY <1>1 DEF KillCommit
<1>5. kill' \in Rows /\ kill'[k] = e /\ OthersStay(k)
  BY <1>3, <1>4, RowReplaced
<1> QED
  BY <1>2, <1>5 DEF KillCommit

LEMMA DeliverRows ==
  ASSUME TypeOK, NEW m \in wire, Deliver(m)
  PROVE  /\ kill' \in Rows
         /\ \A k \in Kills :
              /\ kill'[k].stage = kill[k].stage /\ kill'[k].todo = kill[k].todo
              /\ kill'[k].index = kill[k].index /\ kill'[k].n = kill[k].n
              /\ kill'[k].failed = kill[k].failed
              /\ kill'[k].alone => kill[k].alone
              /\ kill'[k].alone /\ kill[k].stage \in {"read", "close", "wait"} =>
                   m.from = k \/ account' = account
<1> DEFINE hit(k) == m.from # k /\ account' # account /\ kill[k].stage \in {"read", "close", "wait"}
<1>1. kill' = [k \in Kills |-> IF hit(k) THEN [kill[k] EXCEPT !.alone = FALSE] ELSE kill[k]]
  BY DEF Deliver
<1>2. ASSUME NEW k \in Kills
      PROVE  /\ kill'[k] \in KillRow
             /\ kill'[k].stage = kill[k].stage /\ kill'[k].todo = kill[k].todo
             /\ kill'[k].index = kill[k].index /\ kill'[k].n = kill[k].n
             /\ kill'[k].failed = kill[k].failed
             /\ kill'[k].alone => kill[k].alone /\ ~hit(k)
  <2>1. PICK r \in KillRow : r = kill[k]
    BY KillRows DEF Rows
  <2>2. CASE ~hit(k)
    BY <1>1, <2>1, <2>2
  <2>3. CASE hit(k)
    <3>1. PICK e : e = [r EXCEPT !.alone = FALSE]
      OBVIOUS
    <3>2. e \in KillRow /\ e.stage = r.stage /\ e.todo = r.todo /\ e.index = r.index /\ e.n = r.n
          /\ e.failed = r.failed /\ e.alone = FALSE
      BY <3>1 DEF KillRow
    <3>3. kill'[k] = e
      BY <1>1, <2>1, <2>3, <3>1
    <3> QED
      BY <2>1, <3>2, <3>3
  <2> QED
    BY <2>2, <2>3
<1>3. kill' \in Rows
  BY <1>1, <1>2 DEF Rows
<1> QED
  BY <1>2, <1>3

Wires == [n : Numbers, from : Callers, request : Requests]
Answers == [n : Numbers, reply : Replies]
BotRow == [stage : BotStages, at : 1..Len(Script) + 1, attempt : Nat, n : Numbers, armed : BOOLEAN]
Times == 0..MaxClock

LEMMA TypesNow ==
  TypeOK => /\ account \in Account /\ wire \subseteq Wires /\ answers \subseteq Answers /\ sends \in Numbers
            /\ bot \in BotRow /\ recent \in Seq(Times) /\ opened \in Seq(Times) /\ kill \in Rows
            /\ clock \in Times /\ blind \in BOOLEAN /\ stray \in BOOLEAN
  BY DEF TypeOK, Account, OrderRow, Wires, Answers, BotRow, Times, Rows, KillRow

LEMMA TypesNext ==
  /\ account' \in Account /\ wire' \subseteq Wires /\ answers' \subseteq Answers /\ sends' \in Numbers
  /\ bot' \in BotRow /\ recent' \in Seq(Times) /\ opened' \in Seq(Times) /\ kill' \in Rows
  /\ clock' \in Times /\ blind' \in BOOLEAN /\ stray' \in BOOLEAN
  => TypeOK'
  BY DEF TypeOK, Account, OrderRow, Wires, Answers, BotRow, Times, Rows, KillRow

LEMMA Sending ==
  ASSUME TypeOK, Numbered, NEW from \in Callers, NEW q \in Requests, SidesFollow(q), Send(from, q),
         answers' = answers, account' = account
  PROVE  /\ sends' \in Numbers /\ wire' \subseteq Wires /\ Numbered'
         /\ sends' = sends + 1
         /\ \A m \in wire : m.n <= sends
<1>1. sends \in Nat /\ sends + 1 \in Numbers /\ sends' = sends + 1
  <2>1. sends \in 0..MaxSends
    BY TypesNow DEF Numbers
  <2>2. sends < MaxSends /\ sends' = sends + 1
    BY DEF Send
  <2> QED
    BY <2>1, <2>2, TimesAreNumbers DEF Numbers
<1>2. PICK new \in Wires : new = [n |-> sends + 1, from |-> from, request |-> q]
  BY <1>1 DEF Wires
<1>3. new.n = sends + 1 /\ new.request = q /\ new.from = from
  BY <1>2
<1>4. wire' = wire \cup {new}
  BY <1>2 DEF Send
<1>5. \A m \in wire : m \in Wires /\ m.n \in Nat /\ m.n <= sends
  <2>1. \A m \in wire : m \in Wires
    BY TypesNow
  <2>2. \A m \in wire : m.n <= sends
    BY DEF Numbered
  <2> QED
    BY <2>1, <2>2 DEF Wires, Numbers
<1>6. \A x : SidesFollow(x)' <=> SidesFollow(x)
  BY SidesStayFollowed
<1>7. \A a \in answers : a.n \in Nat /\ 0 < a.n /\ a.n <= sends
  <2>1. \A a \in answers : a \in Answers
    BY TypesNow
  <2>2. \A a \in answers : 0 < a.n /\ a.n <= sends
    BY DEF Numbered
  <2> QED
    BY <2>1, <2>2 DEF Answers, Numbers
<1>8. ASSUME NEW m \in wire'
      PROVE  /\ 0 < m.n /\ m.n <= sends'
             /\ SidesFollow(m.request)'
             /\ \A o \in wire' : o.n = m.n => o = m
             /\ \A a \in answers : a.n # m.n
  <2>1. CASE m = new
    BY <1>1, <1>3, <1>4, <1>5, <1>6, <1>7, <2>1
  <2>2. CASE m \in wire
    <3>1. /\ 0 < m.n /\ m.n <= sends /\ SidesFollow(m.request)
          /\ \A o \in wire : o.n = m.n => o = m
          /\ \A a \in answers : a.n # m.n
      BY <2>2 DEF Numbered
    <3>2. new.n # m.n /\ m.n <= sends'
      BY <1>1, <1>3, <1>5, <2>2
    <3> QED
      BY <1>4, <1>6, <3>1, <3>2
  <2> QED
    BY <1>4, <2>1, <2>2
<1>9. \A a \in answers : 0 < a.n /\ a.n <= sends'
  BY <1>1, <1>7
<1>10. \A i \in DOMAIN account.orders : SidesFollow(account.orders[i].request)'
  BY <1>6 DEF Numbered
<1>11. Numbered'
  BY <1>8, <1>9, <1>10 DEF Numbered
<1> QED
  BY <1>1, <1>4, <1>5, <1>11

\* Requests and answers that go away leave the rest as it was.
LEMMA FewerOnTheWay ==
  ASSUME Numbered, wire' \subseteq wire, answers' \subseteq answers, sends' = sends,
         account'.mode = account.mode, DOMAIN account'.orders = DOMAIN account.orders,
         \A i \in DOMAIN account.orders : account'.orders[i].request = account.orders[i].request
  PROVE  Numbered'
<1>1. \A x : SidesFollow(x)' <=> SidesFollow(x)
  BY SidesStayFollowed
<1> QED
  BY <1>1 DEF Numbered

LEMMA BaseInit == Init => Base
<1> SUFFICES ASSUME Init PROVE Base
  OBVIOUS
<1>1. PICK mode \in Modes : account = NewAccount(mode)
  BY DEF Init
<1>2. account \in Account /\ account.orders = <<>>
  BY <1>1, FlatIsABook DEF NewAccount, Account
<1>3. 0 \in Numbers /\ 0 \in Times /\ Len(Script) \in Nat
  BY TimesAreNumbers, ScriptAssumption DEF Numbers, Times
<1>4. bot \in BotRow
  BY <1>3 DEF Init, BotRow, BotStages
<1>5. KillIdle \in KillRow
  BY <1>3 DEF KillIdle, KillRow, KillStages
<1>6. kill \in Rows
  BY <1>5 DEF Init, Rows
<1>7. TypeOK
  <2>1. /\ wire = {} /\ answers = {} /\ sends = 0 /\ recent = <<>> /\ opened = <<>> /\ clock \in Times
        /\ blind = FALSE /\ stray = FALSE
    BY DEF Init, Times
  <2>2. wire \subseteq Wires /\ answers \subseteq Answers
    BY <2>1
  <2>3. sends \in Numbers /\ clock \in Times /\ blind \in BOOLEAN /\ stray \in BOOLEAN
    BY <1>3, <2>1
  <2>4. recent \in Seq(Times) /\ opened \in Seq(Times)
    BY <2>1
  <2> QED
    BY <1>2, <1>4, <1>6, <2>2, <2>3, <2>4 DEF TypeOK, Account, OrderRow, Wires, Answers, BotRow, Times, Rows, KillRow
<1>8. Numbered
  BY <1>2 DEF Init, Numbered
<1>9. Stages
  BY DEF Init, Stages, KillIdle
<1> QED
  BY <1>7, <1>8, <1>9 DEF Base

\* An order that is taken is appended to the others.
LEMMA OrdersGrow ==
  ASSUME TypeOK, NEW row, account'.orders = Append(account.orders, row)
  PROVE  /\ Len(account.orders) \in Nat /\ DOMAIN account.orders = 1..Len(account.orders)
         /\ DOMAIN account'.orders = 1..Len(account.orders) + 1
         /\ account'.orders[Len(account.orders) + 1] = row
         /\ \A i \in DOMAIN account.orders : account'.orders[i] = account.orders[i]
<1>1. PICK os \in Seq(OrderRow) : os = account.orders
  BY TypesNow DEF Account
<1>2. account'.orders = Append(os, row)
  BY <1>1
<1>3. /\ Len(os) \in Nat /\ DOMAIN os = 1..Len(os) /\ DOMAIN Append(os, row) = 1..Len(os) + 1
      /\ Append(os, row)[Len(os) + 1] = row
      /\ \A i \in DOMAIN os : Append(os, row)[i] = os[i]
  BY <1>1
<1> QED
  BY <1>1, <1>2, <1>3

LEMMA Replying ==
  ASSUME TypeOK, Numbered, NEW m \in wire, NEW reply \in Replies, wire' = wire \ {m}, sends' = sends,
         answers' = IF Waiting(m) THEN answers \cup {[n |-> m.n, reply |-> reply]} ELSE answers,
         account'.mode = account.mode,
         \A i \in DOMAIN account'.orders : SidesFollow(account'.orders[i].request)
  PROVE  Numbered' /\ wire' \subseteq Wires /\ answers' \subseteq Answers
<1>1. \A x : SidesFollow(x)' <=> SidesFollow(x)
  BY SidesStayFollowed
<1>2. m.n \in Numbers /\ 0 < m.n /\ m.n <= sends
  BY TypesNow DEF Numbered, Wires
<1>3. PICK new \in Answers : new = [n |-> m.n, reply |-> reply]
  BY <1>2 DEF Answers
<1>4. new.n = m.n
  BY <1>3
<1>5. answers' \subseteq answers \cup {new}
  BY <1>3
<1>6. \A a \in answers' : 0 < a.n /\ a.n <= sends
  BY <1>2, <1>4, <1>5 DEF Numbered
<1>7. \A o \in wire' : \A a \in answers' : a.n # o.n
  BY <1>4, <1>5 DEF Numbered
<1>8. Numbered'
  BY <1>1, <1>6, <1>7 DEF Numbered
<1> QED
  BY <1>5, <1>8, TypesNow

LEMMA BaseOfVenue ==
  ASSUME Base, \/ \E m \in wire : Deliver(m) \/ Refuse(m)
               \/ \E i \in OpenOrders(account) : RestingFills(i)
               \/ Tick
  PROVE  Base'
<1> USE DEF Base
<1>1. ASSUME NEW m \in wire, Deliver(m) PROVE Base'
  <2>1. /\ m.request \in Requests /\ account' \in Account /\ account'.mode = account.mode
        /\ \/ Known(account, m.request.client) /\ account' = account
           \/ \E status \in {"NEW", "FILLED", "REJECTED"} : Taken(m, status)
    BY <1>1, Delivery
  <2>2. \A i \in DOMAIN account'.orders : SidesFollow(account'.orders[i].request)
    <3>1. CASE account' = account
      BY <3>1 DEF Numbered
    <3>2. CASE \E status \in {"NEW", "FILLED", "REJECTED"} : Taken(m, status)
      <4>1. PICK status \in {"NEW", "FILLED", "REJECTED"} :
              account'.orders = Append(account.orders, [request |-> m.request, status |-> status])
        BY <3>2 DEF Taken
      <4>2. PICK row : row = [request |-> m.request, status |-> status]
        OBVIOUS
      <4>3. row.request = m.request /\ SidesFollow(m.request)
        BY <4>2 DEF Numbered
      <4>4. /\ Len(account.orders) \in Nat /\ DOMAIN account.orders = 1..Len(account.orders)
            /\ DOMAIN account'.orders = 1..Len(account.orders) + 1
            /\ account'.orders[Len(account.orders) + 1] = row
            /\ \A i \in DOMAIN account.orders : account'.orders[i] = account.orders[i]
        BY <4>1, <4>2, OrdersGrow
      <4> QED
        BY <4>3, <4>4 DEF Numbered
    <3> QED
      BY <2>1, <3>1, <3>2
  <2>3. /\ wire' = wire \ {m} /\ sends' = sends
        /\ answers' = IF Waiting(m) THEN answers \cup {[n |-> m.n, reply |-> "order"]} ELSE answers
        /\ UNCHANGED <<bot, recent, opened, clock, blind, stray>>
    BY <1>1 DEF Deliver, history
  <2>4. Numbered' /\ wire' \subseteq Wires /\ answers' \subseteq Answers
    <3>1. "order" \in Replies
      BY DEF Replies
    <3> QED
      BY <2>1, <2>2, <2>3, <3>1, Replying
  <2>5. kill' \in Rows /\ \A k \in Kills : kill'[k].stage = kill[k].stage /\ kill'[k].todo = kill[k].todo
    BY <1>1, DeliverRows
  <2>6. TypeOK'
    BY <2>1, <2>3, <2>4, <2>5, TypesNow, TypesNext
  <2>7. Stages'
    BY <2>3, <2>5 DEF Stages
  <2> QED
    BY <2>4, <2>6, <2>7
<1>2. ASSUME NEW m \in wire, Refuse(m) PROVE Base'
  <2>1. /\ wire' = wire \ {m} /\ sends' = sends
        /\ answers' = IF Waiting(m) THEN answers \cup {[n |-> m.n, reply |-> "retryable"]} ELSE answers
        /\ UNCHANGED <<account, kill, bot, recent, opened, clock, blind, stray>>
    BY <1>2 DEF Refuse, history
  <2>2. Numbered' /\ wire' \subseteq Wires /\ answers' \subseteq Answers
    <3>1. "retryable" \in Replies
      BY DEF Replies
    <3>2. \A i \in DOMAIN account'.orders : SidesFollow(account'.orders[i].request)
      BY <2>1 DEF Numbered
    <3> QED
      BY <2>1, <3>1, <3>2, Replying
  <2>3. TypeOK'
    BY <2>1, <2>2, TypesNow, TypesNext
  <2>4. Stages'
    BY <2>1 DEF Stages
  <2> QED
    BY <2>2, <2>3, <2>4
<1>3. ASSUME NEW i \in OpenOrders(account), RestingFills(i) PROVE Base'
  <2>1. i \in DOMAIN account.orders
    BY DEF OpenOrders
  <2>2. /\ account' = FillResting(account, i) /\ stray' = (stray \/ OpensUnasked(i))
        /\ UNCHANGED <<wire, answers, sends, bot, recent, kill, clock, opened, blind>>
    BY <1>3 DEF RestingFills
  <2>3. PICK a \in Account : a = account
    BY TypesNow
  <2>4. PICK new : new = FillResting(a, i)
    OBVIOUS
  <2>5. /\ new \in Account /\ new.mode = a.mode /\ DOMAIN new.orders = DOMAIN a.orders
        /\ \A j \in DOMAIN a.orders : new.orders[j].request = a.orders[j].request
    BY <2>1, <2>3, <2>4, FillingResting
  <2>6. Numbered'
    BY <2>2, <2>3, <2>4, <2>5, FewerOnTheWay
  <2>7. stray' \in BOOLEAN
    BY <2>2, TypesNow
  <2>8. TypeOK'
    BY <2>2, <2>3, <2>4, <2>5, <2>7, TypesNow, TypesNext
  <2>9. Stages'
    BY <2>2 DEF Stages
  <2> QED
    BY <2>6, <2>8, <2>9
<1>4. ASSUME Tick PROVE Base'
  <2>1. clock' \in Times /\ UNCHANGED <<account, wire, answers, sends, bot, recent, kill, opened, blind, stray>>
    <3>1. clock \in 0..MaxClock /\ clock < MaxClock /\ clock' = clock + 1
      BY <1>4, TypesNow DEF Tick, Times
    <3>2. clock' \in 0..MaxClock
      BY <3>1, TimesAreNumbers
    <3> QED
      BY <1>4, <3>2 DEF Tick, history, Times
  <2>2. TypeOK'
    BY <2>1, TypesNow, TypesNext
  <2>3. Stages'
    BY <2>1 DEF Stages
  <2>4. Numbered'
    BY <2>1, FewerOnTheWay
  <2> QED
    BY <2>2, <2>3, <2>4
<1> QED
  BY <1>1, <1>2, <1>3, <1>4

LEMMA Recording ==
  ASSUME TypeOK
  PROVE  /\ Append(recent, clock) \in Seq(Times)
         /\ Risk!RecordOrder(recent, clock) \in Seq(Times)
         /\ \E cut \in 0..Len(Append(recent, clock)) :
              Drops(Append(recent, clock), clock, cut, Risk!RecordOrder(recent, clock))
<1>1. recent \in Seq(Times) /\ clock \in Times
  BY TypesNow
<1>8. Append(recent, clock) \in Seq(Times)
  BY <1>1
<1>2. PICK times \in Seq(Times) : times = Append(recent, clock)
  BY <1>8
<1>3. PICK at \in Nat : at = clock
  BY <1>1, TimesAreNumbers DEF Times
<1>4. PICK kept : kept = Risk!Trim(times, at)
  OBVIOUS
<1>5. Times \in SUBSET Nat
  BY TimesAreNumbers DEF Times
<1>6. kept \in Seq(Times) /\ \E cut \in 0..Len(times) : Drops(times, at, cut, kept)
  BY <1>4, <1>5, TrimIs
<1>7. Risk!RecordOrder(recent, clock) = kept
  BY <1>2, <1>3, <1>4 DEF Risk!RecordOrder
<1> QED
  BY <1>2, <1>3, <1>6, <1>7

\* What each step of the bot does to its row: a signal is entered again only
\* after its last attempt was rejected.
SoundRow ==
  /\ bot' \in BotRow /\ (bot'.stage # "idle" => bot'.at <= Len(Script))
  /\ \/ bot'.attempt = 0
     \/ bot'.at = bot.at /\ bot'.attempt = bot.attempt
     \/ bot'.at = bot.at /\ bot'.attempt = bot.attempt + 1 /\ Rejected(SignalId(bot.at, bot.attempt))

LEMMA DoneIs ==
  ASSUME TypeOK, bot.at <= Len(Script)
  PROVE  /\ Done \in BotRow
         /\ Done.stage = "idle" /\ Done.attempt = 0 /\ Done.armed = bot.armed
<1>1. PICK b \in BotRow : b = bot
  BY TypesNow
<1>2. b.at + 1 \in 1..Len(Script) + 1 /\ 0 \in Numbers
  BY <1>1, TimesAreNumbers, ScriptAssumption DEF BotRow, Numbers
<1>3. PICK next \in 1..Len(Script) + 1 : next = b.at + 1
  BY <1>2
<1>4. Done = [b EXCEPT !.stage = "idle", !.at = next, !.attempt = 0, !.n = 0]
  BY <1>1, <1>3 DEF Done, BotRow
<1> QED
  BY <1>1, <1>2, <1>4 DEF BotRow, BotStages

LEMMA DoneIsIdle ==
  ASSUME TypeOK
  PROVE  Done.stage = "idle" /\ \A armed : [Done EXCEPT !.armed = armed].stage = "idle"
<1>1. PICK b \in BotRow : b = bot
  BY TypesNow
<1>2. b.at + 1 \in Nat /\ 0 \in Numbers
  BY <1>1, TimesAreNumbers, ScriptAssumption DEF BotRow, Numbers
<1>3. PICK next \in Nat : next = b.at + 1
  BY <1>2
<1>4. Done = [b EXCEPT !.stage = "idle", !.at = next, !.attempt = 0, !.n = 0]
  BY <1>1, <1>3 DEF Done, BotRow
<1>5. Done \in [stage : BotStages, at : Nat, attempt : Nat, n : Numbers, armed : BOOLEAN] /\ Done.stage = "idle"
  BY <1>1, <1>2, <1>4 DEF BotRow, BotStages
<1>6. PICK d \in [stage : BotStages, at : Nat, attempt : Nat, n : Numbers, armed : BOOLEAN] : d = Done
  BY <1>5
<1>7. \A armed : [d EXCEPT !.armed = armed].stage = d.stage
  OBVIOUS
<1> QED
  BY <1>5, <1>6, <1>7

LEMMA BotRows ==
  ASSUME TypeOK, Stages
  PROVE  /\ \A s \in DOMAIN Script : Place(s) => SoundRow
         /\ BotAnswered \/ BotFailed \/ BotUncertain \/ Resolve \/ Reconcile \/ Crash => SoundRow
         /\ (\E k \in Kills : KillCommit(k)) => SoundRow
<1>1. PICK b \in BotRow : b = bot
  BY TypesNow
<1>2. b.stage \in BotStages /\ b.at \in 1..Len(Script) + 1 /\ b.n \in Numbers /\ b.armed \in BOOLEAN
      /\ Len(Script) \in Nat /\ (b.stage # "idle" => b.at <= Len(Script)) /\ 0 \in Numbers
      /\ b.attempt \in Nat
  BY <1>1, TimesAreNumbers, ScriptAssumption DEF BotRow, Stages, Numbers
<1>3. ASSUME bot' = Done, bot.at <= Len(Script) PROVE SoundRow
  BY <1>3, DoneIs DEF SoundRow
<1>4. ASSUME bot' = [bot EXCEPT !.stage = "idle", !.n = 0] PROVE SoundRow
  <2>1. bot' = [b EXCEPT !.stage = "idle", !.n = 0]
    BY <1>1, <1>4
  <2>2. bot' \in BotRow /\ bot'.stage = "idle" /\ bot'.at = b.at /\ bot'.attempt = b.attempt
    BY <1>2, <2>1 DEF BotRow, BotStages
  <2> QED
    BY <1>1, <2>2 DEF SoundRow
<1>5. ASSUME NEW s \in DOMAIN Script, Place(s) PROVE SoundRow
  <2>1. s \in 1..Len(Script) /\ b.at = s /\ b.stage = "idle"
    BY <1>1, <1>2, <1>5, ScriptAssumption DEF Place
  <2>2. CASE bot' = [bot EXCEPT !.stage = "sent", !.n = sends + 1] /\ Send("bot", SignalRequest(s, bot.attempt))
    <3>1. sends + 1 \in Numbers
      <4>1. sends \in 0..MaxSends /\ sends < MaxSends
        BY <2>2, TypesNow DEF Numbers, Send
      <4> QED
        BY <4>1, TimesAreNumbers DEF Numbers
    <3>2. PICK number \in Numbers : number = sends + 1
      BY <3>1
    <3>3. bot' = [b EXCEPT !.stage = "sent", !.n = number]
      BY <1>1, <2>2, <3>2
    <3>4. bot' \in BotRow /\ bot'.at = b.at /\ bot'.attempt = b.attempt
      BY <3>3 DEF BotRow, BotStages
    <3> QED
      BY <1>1, <1>2, <2>1, <3>4 DEF SoundRow
  <2>3. CASE \E armed \in BOOLEAN : bot' = [Done EXCEPT !.armed = armed]
    <3>1. PICK armed \in BOOLEAN : bot' = [Done EXCEPT !.armed = armed]
      BY <2>3
    <3>2. PICK d \in BotRow : d = Done
      BY <1>1, <1>2, <2>1, DoneIs
    <3>3. d.stage = "idle" /\ d.attempt = 0
      BY <1>1, <1>2, <2>1, <3>2, DoneIs
    <3>4. bot' \in BotRow /\ bot'.stage = "idle" /\ bot'.attempt = 0
      BY <3>1, <3>2, <3>3 DEF BotRow
    <3> QED
      BY <3>4 DEF SoundRow
  <2> QED
    BY <1>5, <2>2, <2>3 DEF Place
<1>6. ASSUME BotAnswered \/ BotFailed \/ BotUncertain \/ Resolve \/ Reconcile \/ Crash
      PROVE  SoundRow
  <2>1. CASE BotAnswered
    <3>1. bot.stage = "sent" /\ bot.at <= Len(Script)
      BY <1>1, <1>2, <2>1 DEF BotAnswered
    <3>2. CASE bot' = Done
      BY <1>3, <3>1, <3>2
    <3>3. CASE /\ Rejected(SignalId(bot.at, bot.attempt))
               /\ bot' = [bot EXCEPT !.stage = "idle", !.attempt = @ + 1, !.n = 0]
      <4>1. PICK again \in Nat : again = b.attempt + 1
        BY <1>2
      <4>2. bot' = [b EXCEPT !.stage = "idle", !.attempt = again, !.n = 0]
        BY <1>1, <3>3, <4>1 DEF BotRow
      <4>3. bot' \in BotRow /\ bot'.stage = "idle" /\ bot'.at = b.at /\ bot'.attempt = b.attempt + 1
        BY <1>2, <4>1, <4>2 DEF BotRow, BotStages
      <4> QED
        BY <1>1, <3>3, <4>3 DEF SoundRow
    <3> QED
      BY <2>1, <3>2, <3>3 DEF BotAnswered
  <2>2. CASE BotFailed
    <3>1. bot.at <= Len(Script)
      BY <1>1, <1>2, <2>2 DEF BotFailed
    <3> QED
      BY <1>3, <1>4, <2>2, <3>1 DEF BotFailed
  <2>3. CASE BotUncertain
    <3>1. bot' = [b EXCEPT !.stage = "unsure", !.n = 0] /\ b.stage = "sent"
      BY <1>1, <2>3 DEF BotUncertain
    <3>2. bot' \in BotRow /\ bot'.at = b.at /\ bot'.attempt = b.attempt
      BY <1>2, <3>1 DEF BotRow, BotStages
    <3> QED
      BY <1>1, <1>2, <3>1, <3>2 DEF SoundRow
  <2>4. CASE Resolve
    <3>1. b.stage = "unsure" /\ bot.at <= Len(Script)
      BY <1>1, <1>2, <2>4 DEF Resolve
    <3>2. CASE bot' = Done
      BY <1>3, <3>1, <3>2
    <3>3. CASE bot' = [bot EXCEPT !.stage = "reconcile"]
      <4>1. bot' \in BotRow /\ bot'.at = b.at /\ bot'.attempt = b.attempt
        BY <1>1, <3>3 DEF BotRow, BotStages
      <4> QED
        BY <1>1, <1>2, <3>1, <4>1 DEF SoundRow
    <3> QED
      BY <2>4, <3>2, <3>3 DEF Resolve
  <2>5. CASE Reconcile
    <3>1. PICK claimed, actual :
            bot' = [(IF bot.stage = "reconcile" THEN Done ELSE bot) EXCEPT !.armed = @ /\ ~Material(claimed, actual)]
      BY <2>5 DEF Reconcile
    <3>2. bot.stage = "reconcile" => bot.at <= Len(Script) /\ Done \in BotRow /\ Done.stage = "idle" /\ Done.attempt = 0
      BY <1>1, <1>2, DoneIs
    <3>3. PICK d \in BotRow : d = IF bot.stage = "reconcile" THEN Done ELSE bot
      BY <1>1, <3>2
    <3>4. d.stage = "idle" /\ (d.attempt = 0 \/ (d.at = b.at /\ d.attempt = b.attempt))
      BY <1>1, <2>5, <3>2, <3>3 DEF Reconcile
    <3>5. PICK armed \in BOOLEAN : armed = (d.armed /\ ~Material(claimed, actual))
      OBVIOUS
    <3>6. bot' = [d EXCEPT !.armed = armed]
      BY <3>1, <3>3, <3>5 DEF BotRow
    <3>7. bot' \in BotRow /\ bot'.stage = d.stage /\ bot'.at = d.at /\ bot'.attempt = d.attempt
      BY <3>6 DEF BotRow
    <3> QED
      BY <1>1, <3>4, <3>7 DEF SoundRow
  <2>6. CASE Crash
    <3>1. bot' = [b EXCEPT !.stage = "idle", !.attempt = 0, !.n = 0]
      BY <1>1, <2>6 DEF Crash
    <3>2. bot' \in BotRow /\ bot'.stage = "idle" /\ bot'.attempt = 0
      BY <1>2, <3>1 DEF BotRow, BotStages
    <3> QED
      BY <3>2 DEF SoundRow
  <2> QED
    BY <1>6, <2>1, <2>2, <2>3, <2>4, <2>5, <2>6
<1>7. ASSUME NEW k \in Kills, KillCommit(k) PROVE SoundRow
  <2>1. bot' = [b EXCEPT !.armed = FALSE]
    BY <1>1, <1>7 DEF KillCommit
  <2>2. bot' \in BotRow /\ bot'.stage = b.stage /\ bot'.at = b.at /\ bot'.attempt = b.attempt
    BY <2>1 DEF BotRow
  <2> QED
    BY <1>1, <1>2, <2>2 DEF SoundRow
<1> QED
  BY <1>5, <1>6, <1>7

LEMMA BaseOfBot ==
  ASSUME Base, \/ \E s \in DOMAIN Script : Place(s)
               \/ BotAnswered \/ BotFailed \/ BotUncertain \/ Resolve \/ Reconcile \/ Crash
  PROVE  Base'
<1> USE DEF Base
<1>1. ASSUME NEW s \in DOMAIN Script, Place(s) PROVE Base'
  <2>1. bot' \in BotRow /\ (bot'.stage # "idle" => bot'.at <= Len(Script))
    BY <1>1, BotRows DEF SoundRow
  <2>2. UNCHANGED <<account, answers, recent, kill, clock, opened, stray>>
    BY <1>1 DEF Place
  <2>3. blind' \in BOOLEAN
    BY <1>1, TypesNow DEF Place
  <2>4. Stages'
    BY <2>1, <2>2 DEF Stages
  <2>5. CASE Send("bot", SignalRequest(s, bot.attempt))
    <3>1. PICK q \in Requests : q = SignalRequest(s, bot.attempt) /\ SidesFollow(q)
      BY SignalRequests
    <3>2. "bot" \in Callers
      BY DEF Callers
    <3>3. sends' \in Numbers /\ wire' \subseteq Wires /\ Numbered'
      BY <2>2, <2>5, <3>1, <3>2, Sending
    <3> QED
      BY <2>1, <2>2, <2>3, <2>4, <3>3, TypesNow, TypesNext
  <2>6. CASE UNCHANGED <<wire, sends, blind>>
    <3>1. TypeOK'
      BY <2>1, <2>2, <2>6, TypesNow, TypesNext
    <3>2. Numbered'
      BY <2>2, <2>6, FewerOnTheWay
    <3> QED
      BY <2>4, <3>1, <3>2
  <2> QED
    BY <1>1, <2>5, <2>6 DEF Place
<1>2. ASSUME BotAnswered \/ BotFailed \/ BotUncertain \/ Resolve \/ Reconcile \/ Crash PROVE Base'
  <2>1. bot' \in BotRow /\ (bot'.stage # "idle" => bot'.at <= Len(Script))
    BY <1>2, BotRows DEF SoundRow
  <2>2. UNCHANGED <<account, wire, sends, kill, clock, blind, stray>>
    BY <1>2 DEF BotAnswered, BotFailed, BotUncertain, Resolve, Reconcile, Crash, history
  <2>3. answers' \subseteq answers
    BY <1>2 DEF BotAnswered, BotFailed, BotUncertain, Resolve, Reconcile, Crash, StopsWaiting
  <2>4. recent' \in Seq(Times) /\ opened' \in Seq(Times)
    <3>1. recent \in Seq(Times) /\ opened \in Seq(Times) /\ clock \in Times
      BY TypesNow
    <3>2. CASE BotAnswered
      <4>1. recent' = Risk!RecordOrder(recent, clock) /\ (opened' = opened \/ opened' = Append(opened, clock))
        BY <3>2 DEF BotAnswered
      <4>2. Append(opened, clock) \in Seq(Times)
        BY <3>1
      <4> QED
        BY <3>1, <4>1, <4>2, Recording
    <3>3. CASE Crash
      <4>1. recent' = <<>> /\ opened' = <<>>
        BY <3>3 DEF Crash
      <4> QED
        BY <4>1
    <3>4. CASE BotFailed \/ BotUncertain \/ Resolve \/ Reconcile
      BY <3>1, <3>4 DEF BotFailed, BotUncertain, Resolve, Reconcile, history
    <3> QED
      BY <1>2, <3>2, <3>3, <3>4
  <2>5. TypeOK'
    BY <2>1, <2>2, <2>3, <2>4, TypesNow, TypesNext
  <2>6. Stages'
    BY <2>1, <2>2 DEF Stages
  <2>7. Numbered'
    BY <2>2, <2>3, FewerOnTheWay
  <2> QED
    BY <2>5, <2>6, <2>7
<1> QED
  BY <1>1, <1>2

KillSteps(k) == KillCancel(k) \/ KillRead(k) \/ KillClose(k) \/ KillAnswered(k) \/ KillCommit(k)

\* A close takes the first of the positions still to close.
LEMMA ClosingFirst ==
  ASSUME Base, NEW k \in Kills, KillClose(k)
  PROVE  \E q \in Requests :
           /\ Send(k, q) /\ SidesFollow(q) /\ q = FlattenRequest(k, kill[k].index, Head(kill[k].todo))
           /\ q.reduceOnly /\ q.type = "MARKET" /\ q.client = FlattenId(k, kill[k].index)
           /\ q.qty = Head(kill[k].todo).qty /\ q.side = Opposite(Head(kill[k].todo).side)
<1>1. TypeOK /\ Stages
  BY DEF Base
<1>2. Head(kill[k].todo) \in Book /\ kill[k].index \in Nat
  BY <1>1, CloseRow
<1>3. PICK index \in Nat, position \in Book : index = kill[k].index /\ position = Head(kill[k].todo)
  BY <1>2
<1>4. PICK q : q = FlattenRequest(k, index, position)
  OBVIOUS
<1>5. /\ q \in Requests /\ SidesFollow(q) /\ q.reduceOnly /\ q.type = "MARKET"
      /\ q.client = FlattenId(k, index) /\ q.qty = position.qty /\ q.side = Opposite(position.side)
  BY <1>1, <1>4, FlattenRequests
<1>6. Send(k, q)
  BY <1>3, <1>4 DEF KillClose
<1> QED
  BY <1>3, <1>4, <1>5, <1>6

LEMMA BaseOfKill ==
  ASSUME Base, NEW k \in Kills, KillSteps(k)
  PROVE  Base'
<1> USE DEF Base
<1>1. ASSUME kill' \in Rows, OthersStay(k), kill'[k].stage = "close" => kill'[k].todo # <<>>,
             bot'.stage # "idle" => bot'.at <= Len(Script)
      PROVE  Stages'
  BY <1>1 DEF Stages, OthersStay
<1>2. CASE KillCancel(k)
  <2>1. kill' \in Rows /\ OthersStay(k) /\ kill'[k].stage = "read" /\ \E S : account' = Cancel(account, S)
    BY <1>2, CancelRow
  <2>2. UNCHANGED <<wire, answers, sends, bot, recent, clock, opened, blind, stray>>
    BY <1>2 DEF KillCancel, history
  <2>3. PICK S : account' = Cancel(account, S)
    BY <2>1
  <2>4. PICK a \in Account : a = account
    BY TypesNow
  <2>5. PICK new : new = Cancel(a, S)
    OBVIOUS
  <2>6. /\ new \in Account /\ new.mode = a.mode /\ DOMAIN new.orders = DOMAIN a.orders
        /\ \A j \in DOMAIN a.orders : new.orders[j].request = a.orders[j].request
    BY <2>5, Cancelling
  <2>7. Numbered'
    BY <2>2, <2>3, <2>4, <2>5, <2>6, FewerOnTheWay
  <2>8. TypeOK'
    BY <2>1, <2>2, <2>3, <2>4, <2>5, <2>6, TypesNow, TypesNext
  <2>9. Stages'
    BY <1>1, <2>1, <2>2 DEF Stages
  <2> QED
    BY <2>7, <2>8, <2>9
<1>3. CASE KillRead(k)
  <2>1. kill' \in Rows /\ OthersStay(k) /\ (kill'[k].stage = "close" => kill'[k].todo # <<>>)
    BY <1>3, ReadRow
  <2>2. UNCHANGED <<account, wire, answers, sends, bot, recent, clock, opened, blind, stray>>
    BY <1>3 DEF KillRead, history
  <2>3. Numbered'
    BY <2>2, FewerOnTheWay
  <2>4. TypeOK'
    BY <2>1, <2>2, TypesNow, TypesNext
  <2>5. Stages'
    BY <1>1, <2>1, <2>2 DEF Stages
  <2> QED
    BY <2>3, <2>4, <2>5
<1>4. CASE KillClose(k)
  <2>1. kill' \in Rows /\ OthersStay(k) /\ kill'[k].stage = "wait"
    BY <1>4, CloseRow
  <2>2. UNCHANGED <<account, answers, bot, recent, clock, opened, blind, stray>>
    BY <1>4 DEF KillClose, history
  <2>3. PICK q \in Requests : Send(k, q) /\ SidesFollow(q)
    BY <1>4, ClosingFirst
  <2>4. k \in Callers
    BY DEF Callers
  <2>5. sends' \in Numbers /\ wire' \subseteq Wires /\ Numbered'
    BY <2>2, <2>3, <2>4, Sending
  <2>6. TypeOK'
    BY <2>1, <2>2, <2>5, TypesNow, TypesNext
  <2>7. Stages'
    BY <1>1, <2>1, <2>2 DEF Stages
  <2> QED
    BY <2>5, <2>6, <2>7
<1>5. CASE KillAnswered(k)
  <2>1. kill' \in Rows /\ OthersStay(k) /\ (kill'[k].stage = "close" => kill'[k].todo # <<>>)
    BY <1>5, AnsweredRow
  <2>2. UNCHANGED <<account, wire, sends, bot, recent, clock, opened, blind, stray>> /\ answers' \subseteq answers
    BY <1>5 DEF KillAnswered, history
  <2>3. Numbered'
    BY <2>2, FewerOnTheWay
  <2>4. TypeOK'
    BY <2>1, <2>2, TypesNow, TypesNext
  <2>5. Stages'
    BY <1>1, <2>1, <2>2 DEF Stages
  <2> QED
    BY <2>3, <2>4, <2>5
<1>6. CASE KillCommit(k)
  <2>1. kill' \in Rows /\ OthersStay(k) /\ kill'[k].stage = "committed"
    BY <1>6, CommitRow
  <2>2. bot' \in BotRow /\ (bot'.stage # "idle" => bot'.at <= Len(Script))
    BY <1>6, BotRows DEF SoundRow
  <2>3. UNCHANGED <<account, wire, answers, sends, recent, clock, opened, blind, stray>>
    BY <1>6 DEF KillCommit, history
  <2>4. Numbered'
    BY <2>3, FewerOnTheWay
  <2>5. TypeOK'
    BY <2>1, <2>2, <2>3, TypesNow, TypesNext
  <2>6. Stages'
    BY <1>1, <2>1, <2>2
  <2> QED
    BY <2>4, <2>5, <2>6
<1> QED
  BY <1>2, <1>3, <1>4, <1>5, <1>6 DEF KillSteps

LEMMA BaseStep == Base /\ [Next]_vars => Base'
<1> SUFFICES ASSUME Base, [Next]_vars PROVE Base'
  OBVIOUS
<1>1. CASE UNCHANGED vars
  <2>1. UNCHANGED <<account, wire, answers, sends, bot, recent, kill, clock, opened, blind, stray>>
    BY <1>1 DEF vars
  <2> QED
    BY <2>1 DEF Base, TypeOK, Numbered, Stages, SidesFollow, TradeSide
<1> QED
  BY <1>1, BaseOfVenue, BaseOfBot, BaseOfKill DEF Next, KillSteps

-----------------------------------------------------------------------------
(* One order per signal, and closes that only shrink.                      *)

RequestsStay ==
  /\ account'.mode = account.mode /\ DOMAIN account'.orders = DOMAIN account.orders
  /\ \A i \in DOMAIN account.orders : account'.orders[i].request = account.orders[i].request

\* What a resting order's fill does to the account, as Delivery says for a new one.
LEMMA RestingFill ==
  ASSUME TypeOK, NEW i \in OpenOrders(account), RestingFills(i)
  PROVE  /\ RequestsStay /\ i \in DOMAIN account.orders
         /\ account'.books = Apply(account.books, account.mode,
              TargetKey(account.mode, account.orders[i].request), account.orders[i].request)
         /\ account.orders[i].request \in Requests
         /\ OpenOrders(account') = OpenOrders(account) \ {i}
         /\ TargetKey(account.mode, account.orders[i].request) \in Keys
         /\ account.mode \in Modes /\ account.books \in [Keys -> Book]
<1>1. PICK a \in Account : a = account
  BY TypesNow
<1>2. PICK new : new = FillResting(a, i)
  OBVIOUS
<1>3. account' = new /\ i \in DOMAIN a.orders
  BY <1>1, <1>2 DEF RestingFills, OpenOrders
<1>4. PICK q : q = a.orders[i].request
  OBVIOUS
<1>5. /\ new.mode = a.mode /\ DOMAIN new.orders = DOMAIN a.orders
      /\ q \in Requests /\ new.books = Apply(a.books, a.mode, TargetKey(a.mode, q), q)
      /\ \A j \in DOMAIN a.orders : new.orders[j].request = a.orders[j].request
      /\ OpenOrders(new) = OpenOrders(a) \ {i}
  BY <1>2, <1>3, <1>4, FillingResting
<1>6. a.mode \in Modes /\ a.books \in [Keys -> Book]
  BY DEF Account
<1>7. TargetKey(a.mode, q) \in Keys
  BY <1>5, <1>6, TargetIsAKey
<1> QED
  BY <1>1, <1>3, <1>4, <1>5, <1>6, <1>7 DEF RequestsStay

LEMMA Cancellation ==
  ASSUME TypeOK, NEW S, account' = Cancel(account, S)
  PROVE  /\ RequestsStay /\ account'.books = account.books
         /\ OpenOrders(account') = OpenOrders(account) \ S
<1>1. PICK a \in Account : a = account
  BY TypesNow
<1>2. PICK new : new = Cancel(a, S)
  OBVIOUS
<1>3. /\ new.mode = a.mode /\ new.books = a.books /\ DOMAIN new.orders = DOMAIN a.orders
      /\ \A j \in DOMAIN a.orders : new.orders[j].request = a.orders[j].request
      /\ OpenOrders(new) = OpenOrders(a) \ S
  BY <1>2, Cancelling
<1> QED
  BY <1>1, <1>2, <1>3 DEF RequestsStay

\* The account's orders are the same but for a delivery, and for the status of some.
LEMMA OrdersChange ==
  ASSUME Base, [Next]_vars
  PROVE  RequestsStay \/ \E m \in wire, status \in {"NEW", "FILLED", "REJECTED"} : Deliver(m) /\ Taken(m, status)
<1> USE DEF Base
<1>1. ASSUME NEW m \in wire, Deliver(m)
      PROVE  RequestsStay \/ \E status \in {"NEW", "FILLED", "REJECTED"} : Taken(m, status)
  <2>1. account' = account \/ \E status \in {"NEW", "FILLED", "REJECTED"} : Taken(m, status)
    BY <1>1, Delivery
  <2> QED
    BY <2>1 DEF RequestsStay
<1>2. ASSUME NEW i \in OpenOrders(account), RestingFills(i) PROVE RequestsStay
  BY <1>2, RestingFill
<1>3. ASSUME NEW k \in Kills, KillCancel(k) PROVE RequestsStay
  <2>1. PICK S : account' = Cancel(account, S)
    BY <1>3, CancelRow
  <2> QED
    BY <2>1, Cancellation
<1>4. CASE account' = account
  BY <1>4 DEF RequestsStay
<1>5. CASE Next
  <2>1. CASE \/ \E m \in wire : Refuse(m)
             \/ \E s \in DOMAIN Script : Place(s)
             \/ BotAnswered \/ BotFailed \/ BotUncertain \/ Resolve \/ Reconcile \/ Crash \/ Tick
             \/ \E k \in Kills : KillRead(k) \/ KillClose(k) \/ KillAnswered(k) \/ KillCommit(k)
    <3>1. account' = account
      BY <2>1 DEF Refuse, Place, BotAnswered, BotFailed, BotUncertain, Resolve, Reconcile, Crash, Tick,
                  KillRead, KillClose, KillAnswered, KillCommit
    <3> QED
      BY <1>4, <3>1
  <2>2. CASE \E m \in wire : Deliver(m)
    BY <1>1, <2>2
  <2>3. CASE \E i \in OpenOrders(account) : RestingFills(i)
    BY <1>2, <2>3
  <2>4. CASE \E k \in Kills : KillCancel(k)
    BY <1>3, <2>4
  <2> QED
    BY <1>5, <2>1, <2>2, <2>3, <2>4 DEF Next
<1> QED
  BY <1>4, <1>5 DEF vars

(* One order for an id ...                                                 *)
OneOrderPerId ==
  \A i, j \in DOMAIN account.orders :
    account.orders[i].request.client = account.orders[j].request.client => i = j

LEMMA OneOrderPerIdStep == Base /\ OneOrderPerId /\ [Next]_vars => OneOrderPerId'
<1> SUFFICES ASSUME Base, OneOrderPerId, [Next]_vars PROVE OneOrderPerId'
  OBVIOUS
<1>1. CASE RequestsStay
  BY <1>1 DEF RequestsStay, OneOrderPerId
<1>2. CASE \E m \in wire, status \in {"NEW", "FILLED", "REJECTED"} : Taken(m, status)
  <2>1. PICK m \in wire, status \in {"NEW", "FILLED", "REJECTED"} : Taken(m, status)
    BY <1>2
  <2>2. PICK row : row = [request |-> m.request, status |-> status]
    OBVIOUS
  <2>3. PICK last : last = Len(account.orders) + 1
    OBVIOUS
  <2>4. /\ DOMAIN account.orders = 1..Len(account.orders) /\ Len(account.orders) \in Nat
        /\ DOMAIN account'.orders = 1..last
        /\ account'.orders[last] = row
        /\ \A i \in DOMAIN account.orders : account'.orders[i] = account.orders[i]
    BY <2>1, <2>2, <2>3, OrdersGrow DEF Taken, Base
  <2>5. row.request = m.request /\ \A i \in DOMAIN account.orders : account.orders[i].request.client # m.request.client
    BY <2>1, <2>2 DEF Taken, Known
  <2>6. \A i \in DOMAIN account'.orders : i = last \/ i \in DOMAIN account.orders
    BY <2>3, <2>4
  <2> QED
    BY <2>4, <2>5, <2>6 DEF OneOrderPerId
<1> QED
  BY <1>1, <1>2, OrdersChange

(* ... and a signal is asked for under a further id only when all before   *)
(* were rejected, which they stay.                                         *)
Tried(s, attempt) == \A a \in Nat : a < attempt => Rejected(SignalId(s, a))
Named(client) ==
  client[1] = "signal" => \E s, a \in Nat : client = SignalId(s, a) /\ Tried(s, a)

AttemptInv ==
  /\ Tried(bot.at, bot.attempt)
  /\ \A m \in wire : Named(m.request.client)
  /\ \A i \in DOMAIN account.orders : Named(account.orders[i].request.client)

LEMMA RejectedStays ==
  ASSUME Base, [Next]_vars, NEW client, Rejected(client)
  PROVE  Rejected(client)'
<1> USE DEF Base
<1>1. PICK a \in Account : a = account
  BY TypesNow
<1>2. PICK i \in DOMAIN a.orders : a.orders[i].request.client = client /\ a.orders[i].status = "REJECTED"
  BY <1>1 DEF Rejected
<1> SUFFICES ASSUME ~Rejected(client)' PROVE FALSE
  OBVIOUS
<1>3. ~(i \in DOMAIN account'.orders /\ account'.orders[i].request.client = client /\ account'.orders[i].status = "REJECTED")
  BY DEF Rejected
<1>4. account' # account
  BY <1>1, <1>2, <1>3
<1>5. ASSUME NEW m \in wire, Deliver(m) PROVE FALSE
  <2>1. PICK status \in {"NEW", "FILLED", "REJECTED"} : Taken(m, status)
    BY <1>4, <1>5, Delivery
  <2>2. PICK row : row = [request |-> m.request, status |-> status]
    OBVIOUS
  <2>3. account'.orders = Append(account.orders, row)
    BY <2>1, <2>2 DEF Taken
  <2>4. DOMAIN account.orders = 1..Len(account.orders) /\ DOMAIN account'.orders = 1..Len(account.orders) + 1
        /\ Len(account.orders) \in Nat /\ account'.orders[i] = account.orders[i]
    BY <1>1, <1>2, <2>3, OrdersGrow
  <2> QED
    BY <1>1, <1>2, <1>3, <2>4
<1>6. ASSUME NEW j \in OpenOrders(account), RestingFills(j) PROVE FALSE
  <2>1. PICK new : new = FillResting(a, j)
    OBVIOUS
  <2>2. account' = new /\ j \in DOMAIN a.orders /\ a.orders[j].status = "NEW"
    BY <1>1, <1>6, <2>1 DEF RestingFills, OpenOrders
  <2>3. DOMAIN new.orders = DOMAIN a.orders /\ new.orders[i] = a.orders[i]
    <3>1. i # j
      BY <1>2, <2>2
    <3> QED
      BY <1>2, <2>1, <2>2, <3>1, FillingResting
  <2> QED
    BY <1>2, <1>3, <2>2, <2>3
<1>7. ASSUME NEW k \in Kills, KillCancel(k) PROVE FALSE
  <2>1. PICK S : account' = Cancel(account, S)
    BY <1>7, CancelRow
  <2>2. PICK new : new = Cancel(a, S)
    OBVIOUS
  <2>3. DOMAIN new.orders = DOMAIN a.orders /\ new.orders[i].request = a.orders[i].request
        /\ new.orders[i].status = a.orders[i].status
    BY <1>2, <2>2, Cancelling
  <2> QED
    BY <1>1, <1>2, <1>3, <2>1, <2>2, <2>3
<1>8. ASSUME \/ \E m \in wire : Refuse(m)
             \/ \E s \in DOMAIN Script : Place(s)
             \/ BotAnswered \/ BotFailed \/ BotUncertain \/ Resolve \/ Reconcile \/ Crash \/ Tick
             \/ \E k \in Kills : KillRead(k) \/ KillClose(k) \/ KillAnswered(k) \/ KillCommit(k)
      PROVE  FALSE
  <2>1. account' = account
    BY <1>8 DEF Refuse, Place, BotAnswered, BotFailed, BotUncertain, Resolve, Reconcile, Crash, Tick,
                KillRead, KillClose, KillAnswered, KillCommit
  <2> QED
    BY <1>4, <2>1
<1>9. Next
  BY <1>4 DEF vars
<1> QED
  BY <1>5, <1>6, <1>7, <1>8, <1>9 DEF Next

LEMMA TriedStays ==
  ASSUME Base, [Next]_vars
  PROVE  /\ \A s, a : Tried(s, a) => Tried(s, a)'
         /\ \A client : Named(client) => Named(client)'
<1>1. \A s, a : Tried(s, a) => Tried(s, a)'
  <2> SUFFICES ASSUME NEW s, NEW a, Tried(s, a), NEW b \in Nat, b < a PROVE Rejected(SignalId(s, b))'
    BY DEF Tried, SignalId
  <2>1. PICK client : client = SignalId(s, b)
    OBVIOUS
  <2>2. Rejected(client)
    BY <2>1 DEF Tried
  <2>3. Rejected(client)'
    BY <2>2, RejectedStays
  <2> QED
    BY <2>1, <2>3
<1> QED
  BY <1>1 DEF Named, SignalId

LEMMA WireGrows ==
  ASSUME Base, [Next]_vars, NEW m \in wire'
  PROVE  \/ m \in wire
         \/ m.request.client[1] = "flatten"
         \/ \E s \in DOMAIN Script : Place(s) /\ m.request.client = SignalId(s, bot.attempt)
<1> USE DEF Base
<1>1. ASSUME NEW s \in DOMAIN Script, Place(s), m \notin wire
      PROVE  m.request.client = SignalId(s, bot.attempt)
  <2>1. wire' = wire \/ Send("bot", SignalRequest(s, bot.attempt))
    BY <1>1 DEF Place
  <2>2. m = [n |-> sends + 1, from |-> "bot", request |-> SignalRequest(s, bot.attempt)]
    BY <1>1, <2>1 DEF Send
  <2>3. m.request = SignalRequest(s, bot.attempt)
    BY <2>2
  <2> QED
    BY <2>3, SignalRequests
<1>2. ASSUME NEW k \in Kills, KillClose(k), m \notin wire
      PROVE  m.request.client[1] = "flatten"
  <2>1. PICK q \in Requests : Send(k, q) /\ q = FlattenRequest(k, kill[k].index, Head(kill[k].todo))
    BY <1>2, ClosingFirst
  <2>2. m = [n |-> sends + 1, from |-> k, request |-> q]
    BY <1>2, <2>1 DEF Send
  <2>3. m.request = q /\ q.client = FlattenId(k, kill[k].index)
    BY <2>1, <2>2 DEF FlattenRequest
  <2> QED
    BY <2>3 DEF FlattenId
<1>3. ASSUME \/ \E o \in wire : Deliver(o) \/ Refuse(o)
             \/ \E i \in OpenOrders(account) : RestingFills(i)
             \/ BotAnswered \/ BotFailed \/ BotUncertain \/ Resolve \/ Reconcile \/ Crash \/ Tick
             \/ \E k \in Kills : KillCancel(k) \/ KillRead(k) \/ KillAnswered(k) \/ KillCommit(k)
             \/ UNCHANGED vars
      PROVE  m \in wire
  <2>1. CASE \E o \in wire : Deliver(o) \/ Refuse(o)
    BY <2>1 DEF Deliver, Refuse
  <2>2. CASE \E i \in OpenOrders(account) : RestingFills(i)
    BY <2>2 DEF RestingFills
  <2>3. CASE BotAnswered \/ BotFailed \/ BotUncertain \/ Resolve \/ Reconcile \/ Crash \/ Tick
    BY <2>3 DEF BotAnswered, BotFailed, BotUncertain, Resolve, Reconcile, Crash, Tick
  <2>4. CASE \E k \in Kills : KillCancel(k) \/ KillRead(k) \/ KillAnswered(k) \/ KillCommit(k)
    BY <2>4 DEF KillCancel, KillRead, KillAnswered, KillCommit
  <2>5. CASE UNCHANGED vars
    BY <2>5 DEF vars
  <2> QED
    BY <1>3, <2>1, <2>2, <2>3, <2>4, <2>5
<1> QED
  BY <1>1, <1>2, <1>3 DEF Next

LEMMA BotGoesOn ==
  ASSUME Base, [Next]_vars
  PROVE  SoundRow
<1> USE DEF Base
<1>1. CASE bot' = bot
  BY <1>1, TypesNow DEF SoundRow, Stages
<1>2. CASE \/ \E m \in wire : Deliver(m) \/ Refuse(m)
           \/ \E i \in OpenOrders(account) : RestingFills(i)
           \/ Tick \/ UNCHANGED vars
           \/ \E k \in Kills : KillCancel(k) \/ KillRead(k) \/ KillClose(k) \/ KillAnswered(k)
  <2>1. CASE \E m \in wire : Deliver(m) \/ Refuse(m)
    BY <1>1, <2>1 DEF Deliver, Refuse
  <2>2. CASE \E i \in OpenOrders(account) : RestingFills(i)
    BY <1>1, <2>2 DEF RestingFills
  <2>3. CASE Tick \/ UNCHANGED vars
    BY <1>1, <2>3 DEF Tick, vars
  <2>4. CASE \E k \in Kills : KillCancel(k) \/ KillRead(k) \/ KillClose(k) \/ KillAnswered(k)
    BY <1>1, <2>4 DEF KillCancel, KillRead, KillClose, KillAnswered
  <2> QED
    BY <1>2, <2>1, <2>2, <2>3, <2>4
<1> QED
  BY <1>2, BotRows DEF Next

LEMMA AttemptStep == Base /\ AttemptInv /\ [Next]_vars => AttemptInv'
<1> SUFFICES ASSUME Base, AttemptInv, [Next]_vars PROVE AttemptInv'
  OBVIOUS
<1>1. Tried(bot.at, bot.attempt)'
  <2>1. SoundRow /\ bot.attempt \in Nat /\ bot'.attempt \in Nat
    BY BotGoesOn, TypesNow DEF SoundRow, BotRow, Base
  <2> SUFFICES ASSUME NEW a \in Nat, a < bot'.attempt, NEW client, client = SignalId(bot'.at, a)
               PROVE  Rejected(client)'
    BY DEF Tried, SignalId
  <2>2. bot'.at = bot.at /\ (a < bot.attempt \/ (a = bot.attempt /\ Rejected(SignalId(bot.at, bot.attempt))))
    BY <2>1 DEF SoundRow
  <2>3. client = SignalId(bot.at, a)
    BY <2>2
  <2>4. Rejected(client)
    BY <2>2, <2>3 DEF AttemptInv, Tried
  <2> QED
    BY <2>4, RejectedStays
<1>2. ASSUME NEW m \in wire' PROVE Named(m.request.client)'
  <2>1. CASE m \in wire
    BY <2>1, TriedStays DEF AttemptInv
  <2>2. CASE m.request.client[1] = "flatten"
    BY <2>2 DEF Named
  <2>3. CASE \E s \in DOMAIN Script : Place(s) /\ m.request.client = SignalId(s, bot.attempt)
    <3>1. PICK s \in DOMAIN Script : Place(s) /\ m.request.client = SignalId(s, bot.attempt)
      BY <2>3
    <3>2. s = bot.at /\ s \in Nat /\ bot.attempt \in Nat
      BY <3>1, SignalRequests, TypesNow DEF Place, Base, BotRow
    <3>3. Named(m.request.client)
      BY <3>1, <3>2 DEF AttemptInv, Named
    <3> QED
      BY <3>3, TriedStays
  <2> QED
    BY <2>1, <2>2, <2>3, WireGrows
<1>3. ASSUME NEW i \in DOMAIN account'.orders, NEW client, client = account'.orders[i].request.client
      PROVE  Named(client)'
  <2>1. CASE RequestsStay
    <3>1. i \in DOMAIN account.orders /\ account'.orders[i].request = account.orders[i].request
      BY <2>1 DEF RequestsStay
    <3>2. Named(client)
      BY <1>3, <3>1 DEF AttemptInv
    <3> QED
      BY <3>2, TriedStays
  <2>2. CASE \E m \in wire, status \in {"NEW", "FILLED", "REJECTED"} : Taken(m, status)
    <3>1. PICK m \in wire, status \in {"NEW", "FILLED", "REJECTED"} : Taken(m, status)
      BY <2>2
    <3>2. PICK row : row = [request |-> m.request, status |-> status]
      OBVIOUS
    <3>3. PICK last : last = Len(account.orders) + 1
      OBVIOUS
    <3>4. /\ DOMAIN account.orders = 1..Len(account.orders) /\ Len(account.orders) \in Nat
          /\ DOMAIN account'.orders = 1..last
          /\ account'.orders[last] = row
          /\ \A j \in DOMAIN account.orders : account'.orders[j] = account.orders[j]
      BY <3>1, <3>2, <3>3, OrdersGrow DEF Taken, Base
    <3>5. row.request = m.request
      BY <3>2
    <3>6. i = last \/ i \in DOMAIN account.orders
      BY <3>3, <3>4
    <3>7. Named(client)
      BY <1>3, <3>4, <3>5, <3>6 DEF AttemptInv
    <3> QED
      BY <3>7, TriedStays
  <2> QED
    BY <2>1, <2>2, OrdersChange
<1> QED
  BY <1>1, <1>2, <1>3 DEF AttemptInv

LEMMA AttemptInit == Init => AttemptInv /\ OneOrderPerId
  BY DEF Init, NewAccount, AttemptInv, Tried, OneOrderPerId

LEMMA OneOrderFollows == Base /\ OneOrderPerId /\ AttemptInv => OneOrderPerSignal
<1> SUFFICES ASSUME Base, OneOrderPerId, AttemptInv, NEW s \in DOMAIN Script,
                    NEW i \in ForSignal(s), NEW j \in ForSignal(s)
             PROVE  i = j
  BY DEF OneOrderPerSignal
<1>1. ASSUME NEW k \in ForSignal(s)
      PROVE  /\ k \in DOMAIN account.orders /\ account.orders[k].status # "REJECTED"
             /\ \E a \in Nat : account.orders[k].request.client = SignalId(s, a) /\ Tried(s, a)
  <2>1. k \in DOMAIN account.orders /\ account.orders[k].status # "REJECTED"
        /\ account.orders[k].request.client[1] = "signal" /\ account.orders[k].request.client[2] = s
    BY DEF ForSignal
  <2>2. PICK t, a \in Nat : account.orders[k].request.client = SignalId(t, a) /\ Tried(t, a)
    BY <2>1 DEF AttemptInv, Named
  <2>3. t = s
    BY <2>1, <2>2 DEF SignalId
  <2> QED
    BY <2>1, <2>2, <2>3
<1>2. PICK a \in Nat : account.orders[i].request.client = SignalId(s, a) /\ Tried(s, a)
  BY <1>1
<1>3. PICK b \in Nat : account.orders[j].request.client = SignalId(s, b) /\ Tried(s, b)
  BY <1>1
<1>4. ASSUME NEW k \in ForSignal(s), NEW c \in Nat, account.orders[k].request.client = SignalId(s, c)
      PROVE  ~Rejected(SignalId(s, c))
  <2> SUFFICES ASSUME Rejected(SignalId(s, c)) PROVE FALSE
    OBVIOUS
  <2>1. PICK l \in DOMAIN account.orders :
          account.orders[l].request.client = SignalId(s, c) /\ account.orders[l].status = "REJECTED"
    BY DEF Rejected
  <2>2. l = k
    BY <1>1, <1>4, <2>1 DEF OneOrderPerId
  <2> QED
    BY <1>1, <2>1, <2>2
<1>5. ~(a < b)
  BY <1>2, <1>3, <1>4 DEF Tried
<1>6. ~(b < a)
  BY <1>2, <1>3, <1>4 DEF Tried
<1>7. a = b
  BY <1>5, <1>6
<1> QED
  BY <1>1, <1>2, <1>3, <1>7 DEF OneOrderPerId

\* However often a signal is replayed, after a crash or a timeout, or entered again
\* after a rejection, and however late its requests arrive, the venue has taken at
\* most one order for it that it did not reject.
THEOREM ReplaysTakenOnce == Spec => []OneOrderPerSignal
<1>1. Init => Base /\ OneOrderPerId /\ AttemptInv
  BY BaseInit, AttemptInit
<1>2. Base /\ OneOrderPerId /\ AttemptInv /\ [Next]_vars => (Base /\ OneOrderPerId /\ AttemptInv)'
  BY BaseStep, OneOrderPerIdStep, AttemptStep
<1>3. Base /\ OneOrderPerId /\ AttemptInv => OneOrderPerSignal
  BY OneOrderFollows
<1> QED
  BY <1>1, <1>2, <1>3, PTL DEF Spec

ShrinkStep ==
  \A m \in wire :
    (m \notin wire' /\ m.request.reduceOnly) =>
      \A key \in Keys :
        /\ account'.books[key].qty <= account.books[key].qty
        /\ account'.books[key].qty > 0 => account'.books[key].side = account.books[key].side

LEMMA ShrunkAgain ==
  ASSUME NEW books \in [Keys -> Book]
  PROVE  Shrunk(books, books)
<1>1. \A k \in Keys : books[k].qty \in Nat
  BY DEF Book
<1> QED
  BY <1>1 DEF Shrunk

\* A request that may only reduce shrinks what is held when it is taken, or does nothing.
LEMMA TakenShrinks ==
  ASSUME Base, NEW m \in wire, m.request.reduceOnly, Deliver(m)
  PROVE  Shrunk(account.books, account'.books)
<1> USE DEF Base
<1>1. /\ m.request \in Requests
      /\ \/ account' = account
         \/ \E status \in {"NEW", "FILLED", "REJECTED"} : Taken(m, status)
  BY Delivery
<1>2. PICK q \in Requests : q = m.request
  BY <1>1
<1>3. account.books \in [Keys -> Book] /\ account.mode \in Modes
  BY TypesNow DEF Account
<1>4. CASE account'.books = account.books
  BY <1>3, <1>4, ShrunkAgain
<1>5. CASE /\ account'.books = Apply(account.books, account.mode, TargetKey(account.mode, q), q)
           /\ account.books[TargetKey(account.mode, q)].qty # 0
  <2>1. PICK books \in [Keys -> Book], mode \in Modes : books = account.books /\ mode = account.mode
    BY <1>3
  <2>2. PICK key \in Keys : key = TargetKey(mode, q)
    BY TargetIsAKey
  <2>3. PICK after : after = Apply(books, mode, key, q)
    OBVIOUS
  <2>4. books[key].qty > 0
    <3>1. books[key].qty \in Nat /\ books[key].qty # 0
      BY <1>5, <2>1, <2>2 DEF Book
    <3> QED
      BY <3>1
  <2>5. Shrunk(books, after)
    BY <1>2, <2>3, <2>4, Filling
  <2> QED
    BY <1>5, <2>1, <2>2, <2>3, <2>5
<1>6. Closing(q)
  BY <1>2 DEF Closing
<1> QED
  BY <1>1, <1>2, <1>4, <1>5, <1>6 DEF Taken

LEMMA ShrinkSteps == Base /\ [Next]_vars => ShrinkStep
<1> SUFFICES ASSUME Base, [Next]_vars, NEW m \in wire, m \notin wire', m.request.reduceOnly
             PROVE  Shrunk(account.books, account'.books)
  BY DEF ShrinkStep, Shrunk
<1>1. Deliver(m) \/ Refuse(m)
  <2>1. CASE wire \subseteq wire'
    BY <2>1
  <2>2. CASE Next
    <3>1. CASE \E o \in wire : Deliver(o) \/ Refuse(o)
      BY <3>1 DEF Deliver, Refuse
    <3>2. CASE ~\E o \in wire : Deliver(o) \/ Refuse(o)
      BY <2>2, <3>2 DEF Next, RestingFills, Place, Send, BotAnswered, BotFailed, BotUncertain, Resolve, Reconcile,
           Crash, Tick, KillCancel, KillRead, KillClose, KillAnswered, KillCommit
    <3> QED
      BY <3>1, <3>2
  <2> QED
    BY <2>1, <2>2 DEF vars
<1>2. CASE Deliver(m)
  BY <1>2, TakenShrinks
<1>3. CASE Refuse(m)
  <2>1. account' = account /\ account.books \in [Keys -> Book]
    BY <1>3, TypesNow DEF Refuse, Account, Base
  <2> QED
    BY <2>1, ShrunkAgain
<1> QED
  BY <1>1, <1>2, <1>3

\* A reduce-only order that does not rest, a close of the kill switch above all,
\* never grows a position nor turns it round, however late it arrives.
THEOREM ClosesNeverOvershoot == Spec => ClosesOnlyShrink
<1>1. Base /\ [Next]_vars => [ShrinkStep]_vars
  BY ShrinkSteps
<1> QED
  BY <1>1, BaseInit, BaseStep, PTL DEF Spec, ClosesOnlyShrink, ShrinkStep

-----------------------------------------------------------------------------
(* The rate.                                                               *)

Above(times, t) == {i \in DOMAIN times : times[i] > t}

LEMMA CountType ==
  ASSUME NEW times \in Seq(Times), NEW t \in Int
  PROVE  /\ IsFiniteSet(Above(times, t)) /\ CountAbove(times, t) \in Nat
         /\ CountAbove(times, t) = Cardinality(Above(times, t)) /\ CountAbove(times, t) <= Len(times)
<1>1. Above(times, t) \subseteq 1..Len(times) /\ Len(times) \in Nat
  BY DEF Above
<1>2. IsFiniteSet(1..Len(times)) /\ Cardinality(1..Len(times)) = Len(times)
  <2>1. PICK n \in Nat : n = Len(times)
    BY <1>1
  <2>2. IsFiniteSet(1..n) /\ Cardinality(1..n) = IF 1 > n THEN 0 ELSE n - 1 + 1
    BY FS_Interval
  <2>3. Cardinality(1..n) = n
    BY <2>2
  <2> QED
    BY <2>1, <2>2, <2>3
<1>3. IsFiniteSet(Above(times, t)) /\ Cardinality(Above(times, t)) <= Cardinality(1..Len(times))
  BY <1>1, <1>2, FS_Subset
<1>4. Cardinality(Above(times, t)) \in Nat
  BY <1>3, FS_CardinalityType
<1>5. CountAbove(times, t) = Cardinality(Above(times, t))
  BY DEF CountAbove, Above
<1> QED
  BY <1>2, <1>3, <1>4, <1>5

LEMMA CountLater ==
  ASSUME NEW times \in Seq(Times), NEW t \in Int, NEW u \in Int, t <= u
  PROVE  CountAbove(times, u) <= CountAbove(times, t)
<1>1. \A i \in DOMAIN times : times[i] \in Int
  BY TimesAreNumbers DEF Times
<1>2. Above(times, u) \subseteq Above(times, t)
  BY <1>1 DEF Above
<1>3. IsFiniteSet(Above(times, t)) /\ CountAbove(times, t) = Cardinality(Above(times, t))
      /\ CountAbove(times, u) = Cardinality(Above(times, u))
  BY CountType
<1> QED
  BY <1>2, <1>3, FS_Subset

LEMMA CountAppend ==
  ASSUME NEW times \in Seq(Times), NEW t \in Int, NEW x \in Times, NEW longer, longer = Append(times, x)
  PROVE  /\ longer \in Seq(Times)
         /\ CountAbove(longer, t) = IF x > t THEN CountAbove(times, t) + 1 ELSE CountAbove(times, t)
<1>1. /\ longer \in Seq(Times) /\ Len(times) \in Nat /\ DOMAIN times = 1..Len(times)
      /\ DOMAIN longer = 1..Len(times) + 1 /\ longer[Len(times) + 1] = x
      /\ \A i \in DOMAIN times : longer[i] = times[i]
  OBVIOUS
<1>2. /\ IsFiniteSet(Above(times, t)) /\ CountAbove(times, t) = Cardinality(Above(times, t))
      /\ CountAbove(longer, t) = Cardinality(Above(longer, t))
  BY <1>1, CountType
<1>3. CASE x > t
  <2>1. Above(longer, t) = Above(times, t) \cup {Len(times) + 1}
    BY <1>1, <1>3 DEF Above
  <2>2. Len(times) + 1 \notin Above(times, t)
    BY <1>1 DEF Above
  <2>3. Cardinality(Above(times, t) \cup {Len(times) + 1}) = Cardinality(Above(times, t)) + 1
    BY <1>2, <2>2, FS_AddElement
  <2> QED
    BY <1>1, <1>2, <1>3, <2>1, <2>3
<1>4. CASE ~(x > t)
  <2>1. Above(longer, t) = Above(times, t)
    BY <1>1, <1>4 DEF Above
  <2> QED
    BY <1>1, <1>2, <1>4, <2>1
<1> QED
  BY <1>3, <1>4

\* What is dropped is too old to count.
LEMMA CountDrops ==
  ASSUME NEW times \in Seq(Times), NEW at \in Times, NEW cut \in 0..Len(times), NEW kept \in Seq(Times),
         Drops(times, at, cut, kept), NEW t \in Int, at - Minute <= t
  PROVE  CountAbove(times, t) <= CountAbove(kept, t)
<1>1. /\ \A i \in DOMAIN times : times[i] \in Int
      /\ at \in Int /\ Minute \in Int /\ Len(times) \in Nat /\ Len(kept) \in Nat /\ cut \in Nat
      /\ DOMAIN times = 1..Len(times) /\ DOMAIN kept = 1..Len(kept)
  BY TimesAreNumbers DEF Times
<1> DEFINE f == [i \in Above(times, t) |-> i - cut]
<1>2. ASSUME NEW i \in Above(times, t)
      PROVE  i - cut \in Above(kept, t)
  <2>1. i \in 1..Len(times) /\ times[i] > t /\ i \in Nat
    BY <1>1 DEF Above
  <2>2. at - times[i] < Minute
    BY <1>1, <2>1
  <2>3. ~(i \in 1..cut)
    BY <2>2 DEF Drops
  <2>4. i - cut \in 1..Len(kept)
    BY <1>1, <2>1, <2>3 DEF Drops
  <2>5. kept[i - cut] = times[(i - cut) + cut]
    BY <2>4 DEF Drops
  <2>6. (i - cut) + cut = i
    BY <1>1, <2>1
  <2> QED
    BY <1>1, <2>1, <2>4, <2>5, <2>6 DEF Above
<1>3. \A i \in Above(times, t) : i \in Int
  BY <1>1 DEF Above
<1>4. f \in Injection(Above(times, t), Above(kept, t))
  BY <1>1, <1>2, <1>3 DEF Injection, IsInjective
<1>5. /\ IsFiniteSet(Above(kept, t)) /\ CountAbove(times, t) = Cardinality(Above(times, t))
      /\ CountAbove(kept, t) = Cardinality(Above(kept, t))
  BY CountType
<1> HIDE DEF f
<1> QED
  BY <1>4, <1>5, FS_Injection

\* What the guard counts as the orders of the last minute is at least what was opened in it.
LEMMA TrimKeeps ==
  ASSUME NEW times \in Seq(Times), NEW at \in Times
  PROVE  /\ Risk!Trim(times, at) \in Seq(Times)
         /\ \A t \in Int : at - Minute <= t => CountAbove(times, t) <= CountAbove(Risk!Trim(times, at), t)
         /\ CountAbove(times, at - Minute) <= Len(Risk!Trim(times, at))
<1>1. Times \in SUBSET Nat /\ at \in Nat /\ at - Minute \in Int
  BY TimesAreNumbers DEF Times
<1>2. PICK kept : kept = Risk!Trim(times, at)
  OBVIOUS
<1>3. kept \in Seq(Times) /\ \E cut \in 0..Len(times) : Drops(times, at, cut, kept)
  BY <1>1, <1>2, TrimIs
<1>4. \A t \in Int : at - Minute <= t => CountAbove(times, t) <= CountAbove(kept, t)
  BY <1>3, CountDrops
<1>5. CountAbove(times, at - Minute) <= Len(kept)
  <2>1. PICK t \in Int : t = at - Minute
    BY <1>1
  <2>2. CountAbove(times, t) \in Nat /\ CountAbove(kept, t) \in Nat /\ CountAbove(kept, t) <= Len(kept)
    BY <1>3, CountType
  <2>3. Len(kept) \in Nat /\ t <= t
    BY <1>3
  <2>4. CountAbove(times, t) <= CountAbove(kept, t)
    BY <1>4, <2>1, <2>3
  <2> QED
    BY <2>1, <2>2, <2>3, <2>4
<1> QED
  BY <1>2, <1>3, <1>4, <1>5

LEMMA Window ==
  ASSUME TypeOK
  PROVE  /\ clock - Minute \in Int /\ clock \in Int /\ clock > clock - Minute /\ Rate \in Nat
         /\ CountAbove(opened, clock - Minute) \in Nat
         /\ \A t \in Int : CountAbove(opened, t) \in Nat /\ CountAbove(recent, t) \in Nat
<1>1. clock \in Times /\ opened \in Seq(Times) /\ recent \in Seq(Times)
  BY TypesNow
<1>2. clock - Minute \in Int /\ clock \in Int /\ clock > clock - Minute /\ Rate \in Nat
  BY <1>1, LimitsAssumption, TimesAreNumbers DEF Times
<1> QED
  BY <1>1, <1>2, CountType

\* An order that opens something passes the check only with room in the minute.
LEMMA OpeningChecked ==
  ASSUME NEW limits, NEW order, order.reduceOnly = FALSE, NEW damage, NEW leverage, NEW times, NEW held, NEW at,
         Risk!CheckOrder(limits, order, damage, leverage, times, held, at) = "ok"
  PROVE  ~Risk!TooFast(limits, times, at) /\ ~Risk!TooLarge(limits, held, order.notional)
<1>1. damage = "ok"
  BY DEF Risk!CheckOrder
<1> QED
  BY <1>1 DEF Risk!CheckOrder

LEMMA RateInit == Init => RateInv
<1> SUFFICES ASSUME Init PROVE RateInv
  OBVIOUS
<1>1. recent = <<>> /\ opened = <<>> /\ clock \in Times /\ bot.stage = "idle"
  BY DEF Init, Times
<1>2. \A t : CountAbove(opened, t) = 0 /\ CountAbove(recent, t) = 0
  <2>1. \A t : {i \in DOMAIN opened : opened[i] > t} = {} /\ {i \in DOMAIN recent : recent[i] > t} = {}
    BY <1>1
  <2> QED
    BY <2>1, FS_EmptySet DEF CountAbove
<1> QED
  BY <1>1, <1>2, LimitsAssumption DEF RateInv

LEMMA RateStep == Base /\ RateInv /\ [Next]_vars => RateInv'
<1> SUFFICES ASSUME Base, RateInv, [Next]_vars PROVE RateInv'
  OBVIOUS
<1> USE DEF Base
<1>0. /\ clock - Minute \in Int /\ clock \in Int /\ clock > clock - Minute /\ Rate \in Nat
      /\ \A t \in Int : CountAbove(opened, t) \in Nat /\ CountAbove(recent, t) \in Nat
      /\ recent \in Seq(Times) /\ opened \in Seq(Times) /\ clock \in Times
  BY Window, TypesNow
<1>1. CASE UNCHANGED <<clock, opened, recent>> /\ (bot'.stage = "sent" => bot'.at = bot.at /\ bot.stage = "sent")
  BY <1>1 DEF RateInv
<1>2. ASSUME NEW s \in DOMAIN Script, Place(s) PROVE RateInv'
  <2>1. UNCHANGED <<clock, opened, recent>> /\ bot.at = s /\ bot.stage = "idle"
    BY <1>2 DEF Place
  <2>2. PICK damage \in {"ok", "daily_loss"} :
          LET request == SignalRequest(s, bot.attempt)
              order == [reduceOnly |-> request.reduceOnly, notional |-> request.qty]
              verdict == Risk!CheckOrder(Limits, order, damage, 1, recent, Held(account), clock)
          IN IF verdict = "ok" THEN bot' = [bot EXCEPT !.stage = "sent", !.n = sends + 1]
             ELSE bot' = [Done EXCEPT !.armed = verdict \notin Risk!Halting]
    BY <1>2 DEF Place
  <2>3. PICK order : order = [reduceOnly |-> SignalRequest(s, bot.attempt).reduceOnly, notional |-> SignalRequest(s, bot.attempt).qty]
    OBVIOUS
  <2>4. order.reduceOnly = Script[s].reduceOnly
    BY <2>3, SignalRequests
  <2>5. PICK b \in BotRow : b = bot
    BY TypesNow
  <2>6. CASE Risk!CheckOrder(Limits, order, damage, 1, recent, Held(account), clock) = "ok"
    <3>1. bot' = [bot EXCEPT !.stage = "sent", !.n = sends + 1]
      BY <2>2, <2>3, <2>6
    <3>2. bot'.at = s
      BY <2>1, <2>5, <3>1 DEF BotRow
    <3>3. ASSUME ~Script[s].reduceOnly PROVE CountAbove(opened, clock - Minute) <= Rate - 1
      <4>1. order.reduceOnly = FALSE
        <5>1. Script[s].reduceOnly \in BOOLEAN
          BY SignalRequests DEF Requests
        <5> QED
          BY <2>4, <3>3, <5>1
      <4>2. ~Risk!TooFast(Limits, recent, clock)
        BY <2>6, <4>1, OpeningChecked
      <4>3. PICK kept : kept = Risk!Trim(recent, clock)
        OBVIOUS
      <4>4. kept \in Seq(Times) /\ CountAbove(recent, clock - Minute) <= Len(kept)
        BY <1>0, <4>3, TrimKeeps
      <4>5. ~(Len(kept) >= Rate)
        BY <4>2, <4>3 DEF Risk!TooFast, Limits
      <4>6. CountAbove(opened, clock - Minute) <= CountAbove(recent, clock - Minute)
        BY <1>0 DEF RateInv
      <4>7. Len(kept) \in Nat
        BY <4>4
      <4>8. CountAbove(opened, clock - Minute) \in Nat /\ CountAbove(recent, clock - Minute) \in Nat
        BY <1>0
      <4> QED
        BY <1>0, <4>4, <4>5, <4>6, <4>7, <4>8
    <3> QED
      BY <2>1, <3>2, <3>3 DEF RateInv
  <2>7. CASE ~(Risk!CheckOrder(Limits, order, damage, 1, recent, Held(account), clock) = "ok")
    <3>1. PICK armed : bot' = [Done EXCEPT !.armed = armed]
      BY <2>2, <2>3, <2>7
    <3>2. bot'.stage = "idle"
      BY <3>1, DoneIsIdle
    <3> QED
      BY <2>1, <3>2 DEF RateInv
  <2> QED
    BY <2>6, <2>7
<1>3. ASSUME BotAnswered PROVE RateInv'
  <2>1. /\ bot.stage = "sent" /\ clock' = clock /\ recent' = Risk!RecordOrder(recent, clock)
        /\ opened' = IF Script[bot.at].reduceOnly THEN opened ELSE Append(opened, clock)
    BY <1>3 DEF BotAnswered
  <2>2. PICK b \in BotRow : b = bot
    BY TypesNow
  <2>3. bot'.stage = "idle"
    <3>1. CASE bot' = Done
      BY <3>1, DoneIsIdle
    <3>2. CASE bot' = [bot EXCEPT !.stage = "idle", !.attempt = @ + 1, !.n = 0]
      BY <2>2, <3>2 DEF BotRow
    <3> QED
      BY <1>3, <3>1, <3>2 DEF BotAnswered
  <2>4. PICK longer : longer = Append(recent, clock)
    OBVIOUS
  <2>5. longer \in Seq(Times) /\ \A t \in Int :
          CountAbove(longer, t) = IF clock > t THEN CountAbove(recent, t) + 1 ELSE CountAbove(recent, t)
    BY <1>0, <2>4, CountAppend
  <2>6. recent' = Risk!Trim(longer, clock)
    BY <2>1, <2>4 DEF Risk!RecordOrder
  <2>7. recent' \in Seq(Times) /\ \A t \in Int : clock - Minute <= t => CountAbove(longer, t) <= CountAbove(recent', t)
    BY <1>0, <2>5, <2>6, TrimKeeps
  <2>8. opened' \in Seq(Times) /\ \A t \in Int :
          CountAbove(opened', t) = IF clock > t /\ ~Script[bot.at].reduceOnly
                                     THEN CountAbove(opened, t) + 1 ELSE CountAbove(opened, t)
    <3>1. CASE Script[bot.at].reduceOnly
      BY <1>0, <2>1, <3>1
    <3>2. CASE ~Script[bot.at].reduceOnly
      BY <1>0, <2>1, <3>2, CountAppend
    <3> QED
      BY <3>1, <3>2
  <2>9. ASSUME NEW t \in Int, clock - Minute <= t PROVE CountAbove(opened', t) <= CountAbove(recent', t)
    <3>1. CountAbove(opened, t) <= CountAbove(recent, t)
      BY <2>9 DEF RateInv
    <3>2. CountAbove(recent', t) \in Nat /\ CountAbove(longer, t) \in Nat /\ CountAbove(opened, t) \in Nat
          /\ CountAbove(recent, t) \in Nat
      BY <1>0, <2>5, <2>7, CountType
    <3> QED
      BY <2>5, <2>7, <2>8, <2>9, <3>1, <3>2
  <2>10. CountAbove(opened', clock - Minute) <= Rate
    <3>1. CountAbove(opened, clock - Minute) \in Nat /\ CountAbove(opened, clock - Minute) <= Rate
          /\ (~Script[bot.at].reduceOnly => CountAbove(opened, clock - Minute) <= Rate - 1)
      BY <1>0, <2>1 DEF RateInv
    <3>2. PICK t \in Int, c \in Nat : t = clock - Minute /\ c = CountAbove(opened, t)
      BY <1>0
    <3>3. CountAbove(opened', t) = IF clock > t /\ ~Script[bot.at].reduceOnly THEN c + 1 ELSE c
      BY <2>8, <3>2
    <3>4. c <= Rate /\ (~Script[bot.at].reduceOnly => c <= Rate - 1)
      BY <3>1, <3>2
    <3>5. CountAbove(opened', t) <= Rate
      BY <1>0, <3>3, <3>4
    <3> QED
      BY <3>2, <3>5
  <2>11. CountAbove(opened, clock - Minute)' = CountAbove(opened', clock - Minute)
         /\ \A t : CountAbove(opened, t)' = CountAbove(opened', t) /\ CountAbove(recent, t)' = CountAbove(recent', t)
    BY <2>1 DEF CountAbove
  <2> QED
    BY <2>1, <2>3, <2>9, <2>10, <2>11 DEF RateInv
<1>4. ASSUME Crash PROVE RateInv'
  <2>1. recent' = <<>> /\ opened' = <<>> /\ clock' = clock
    BY <1>4 DEF Crash
  <2>2. PICK b \in BotRow : b = bot
    BY TypesNow
  <2>3. bot'.stage = "idle"
    BY <1>4, <2>2 DEF Crash, BotRow
  <2>4. \A t : CountAbove(opened, t)' = 0 /\ CountAbove(recent, t)' = 0
    <3>1. \A t : {i \in DOMAIN opened' : opened'[i] > t} = {} /\ {i \in DOMAIN recent' : recent'[i] > t} = {}
      BY <2>1
    <3> QED
      BY <3>1, FS_EmptySet DEF CountAbove
  <2>5. CountAbove(opened, clock - Minute)' = 0
    BY <2>4
  <2> QED
    <3>1. (\A t \in Int : clock - Minute <= t => CountAbove(opened, t) <= CountAbove(recent, t))'
      BY <2>4
    <3>2. (CountAbove(opened, clock - Minute) <= Rate)'
      BY <1>0, <2>5
    <3>3. bot'.stage # "sent"
      BY <2>3
    <3> QED
      BY <3>1, <3>2, <3>3 DEF RateInv
<1>5. ASSUME Tick PROVE RateInv'
  <2>1. clock' = clock + 1 /\ UNCHANGED <<opened, recent, bot>>
    BY <1>5 DEF Tick, history
  <2>2. clock' - Minute \in Int /\ clock - Minute <= clock' - Minute
        /\ \A t \in Int : clock' - Minute <= t => clock - Minute <= t
    BY <1>0, <2>1, LimitsAssumption
  <2>3. CountAbove(opened, clock' - Minute) <= CountAbove(opened, clock - Minute)
    BY <1>0, <2>2, CountLater
  <2>4. CountAbove(opened, clock' - Minute) \in Nat /\ CountAbove(opened, clock - Minute) \in Nat
    BY <1>0, <2>2
  <2>5. \A t \in Int : clock' - Minute <= t => CountAbove(opened, t) <= CountAbove(recent, t)
    BY <2>2 DEF RateInv
  <2>6. /\ CountAbove(opened, clock' - Minute) <= Rate
        /\ bot.stage = "sent" /\ ~Script[bot.at].reduceOnly => CountAbove(opened, clock' - Minute) <= Rate - 1
    <3>1. /\ CountAbove(opened, clock - Minute) <= Rate
          /\ bot.stage = "sent" /\ ~Script[bot.at].reduceOnly => CountAbove(opened, clock - Minute) <= Rate - 1
      BY DEF RateInv
    <3>2. PICK c \in Nat, d \in Nat : c = CountAbove(opened, clock' - Minute) /\ d = CountAbove(opened, clock - Minute)
      BY <2>4
    <3>3. c <= d /\ d <= Rate /\ (bot.stage = "sent" /\ ~Script[bot.at].reduceOnly => d <= Rate - 1)
      BY <2>3, <3>1, <3>2
    <3>4. Rate \in Nat
      BY <1>0
    <3>5. c <= Rate
      BY <3>3, <3>4
    <3>6. bot.stage = "sent" /\ ~Script[bot.at].reduceOnly => c <= Rate - 1
      <4> SUFFICES ASSUME bot.stage = "sent", ~Script[bot.at].reduceOnly PROVE c <= Rate - 1
        OBVIOUS
      <4>1. c <= d /\ d <= Rate - 1
        BY <3>3
      <4> QED
        BY <3>4, <4>1
    <3> QED
      BY <3>2, <3>5, <3>6
  <2>7. CountAbove(opened, clock - Minute)' = CountAbove(opened, clock' - Minute)
         /\ \A t : CountAbove(opened, t)' = CountAbove(opened, t) /\ CountAbove(recent, t)' = CountAbove(recent, t)
    BY <2>1 DEF CountAbove
  <2> QED
    BY <2>1, <2>5, <2>6, <2>7 DEF RateInv
<1>6. ASSUME BotFailed \/ BotUncertain \/ Resolve \/ Reconcile PROVE RateInv'
  <2>1. PICK b \in BotRow : b = bot
    BY TypesNow
  <2>2. bot'.stage # "sent"
    <3>1. CASE BotFailed
      BY <2>1, <3>1, DoneIsIdle DEF BotFailed, BotRow
    <3>2. CASE BotUncertain
      BY <2>1, <3>2 DEF BotUncertain, BotRow
    <3>3. CASE Resolve
      <4>1. CASE bot' = Done
        BY <4>1, DoneIsIdle
      <4>2. CASE bot' = [bot EXCEPT !.stage = "reconcile"]
        BY <2>1, <4>2 DEF BotRow
      <4> QED
        BY <3>3, <4>1, <4>2 DEF Resolve
    <3>4. CASE Reconcile
      <4>1. PICK armed : bot' = [(IF bot.stage = "reconcile" THEN Done ELSE bot) EXCEPT !.armed = armed]
        <5>1. PICK claimed, actual : bot' = [(IF bot.stage = "reconcile" THEN Done ELSE bot)
                                               EXCEPT !.armed = @ /\ ~Material(claimed, actual)]
          BY <3>4 DEF Reconcile
        <5> QED
          BY <5>1
      <4>2. CASE bot.stage = "reconcile"
        BY <4>1, <4>2, DoneIsIdle
      <4>3. CASE bot.stage = "idle"
        BY <2>1, <4>1, <4>3 DEF BotRow
      <4> QED
        BY <3>4, <4>2, <4>3 DEF Reconcile
    <3> QED
      BY <1>6, <3>1, <3>2, <3>3, <3>4
  <2>3. UNCHANGED <<clock, opened, recent>>
    BY <1>6 DEF BotFailed, BotUncertain, Resolve, Reconcile, history
  <2> QED
    BY <1>1, <2>2, <2>3
<1>7. ASSUME \E k \in Kills : KillCommit(k) PROVE RateInv'
  <2>1. PICK b \in BotRow : b = bot
    BY TypesNow
  <2>2. bot' = [b EXCEPT !.armed = FALSE] /\ UNCHANGED <<clock, opened, recent>>
    BY <1>7, <2>1 DEF KillCommit, history
  <2>3. bot'.stage = bot.stage /\ bot'.at = bot.at
    BY <2>1, <2>2 DEF BotRow
  <2> QED
    BY <1>1, <2>2, <2>3
<1>8. CASE \/ \E m \in wire : Deliver(m) \/ Refuse(m)
           \/ \E i \in OpenOrders(account) : RestingFills(i)
           \/ \E k \in Kills : KillCancel(k) \/ KillRead(k) \/ KillClose(k) \/ KillAnswered(k)
  <2>1. UNCHANGED <<clock, opened, recent, bot>>
    <3>1. CASE \E m \in wire : Deliver(m) \/ Refuse(m)
      BY <3>1 DEF Deliver, Refuse, history
    <3>2. CASE \E i \in OpenOrders(account) : RestingFills(i)
      BY <3>2 DEF RestingFills
    <3>3. CASE \E k \in Kills : KillCancel(k) \/ KillRead(k) \/ KillClose(k) \/ KillAnswered(k)
      BY <3>3 DEF KillCancel, KillRead, KillClose, KillAnswered, history
    <3> QED
      BY <1>8, <3>1, <3>2, <3>3
  <2> QED
    BY <1>1, <2>1
<1>9. CASE UNCHANGED vars
  BY <1>1, <1>9 DEF vars
<1> QED
  BY <1>2, <1>3, <1>4, <1>5, <1>6, <1>7, <1>8, <1>9 DEF Next

LEMMA RateFollows == TypeOK /\ RateInv => RateHolds
<1> SUFFICES ASSUME TypeOK, RateInv PROVE RateHolds
  OBVIOUS
<1>1. opened \in Seq(Times) /\ clock \in Int /\ Minute \in Int
  BY TypesNow, Window, TimesAreNumbers
<1>2. \A i \in DOMAIN opened : opened[i] \in Int
  BY <1>1, TimesAreNumbers DEF Times
<1>3. {i \in DOMAIN opened : clock - opened[i] < Minute} = {i \in DOMAIN opened : opened[i] > clock - Minute}
  BY <1>1, <1>2
<1> QED
  BY <1>3 DEF RateHolds, RateInv, CountAbove

\* No more opening orders are answered in a minute than the limit allows, for every
\* limit and every length of a minute, counting from the last crash.
THEOREM PaceKept == Spec => []RateHolds
<1>1. Init => Base /\ RateInv
  BY BaseInit, RateInit
<1>2. Base /\ RateInv /\ [Next]_vars => (Base /\ RateInv)'
  BY BaseStep, RateStep
<1>3. Base /\ RateInv => RateHolds
  BY RateFollows DEF Base
<1> QED
  BY <1>1, <1>2, <1>3, PTL DEF Spec

-----------------------------------------------------------------------------
(* The limit on a position.                                                *)

LEMMA HeldIs ==
  ASSUME TypeOK
  PROVE  /\ Held(account) = HeldIn(account.books) /\ Held(account) \in Nat
         /\ Held(account)' = HeldIn(account'.books)
         /\ account.books \in [Keys -> Book] /\ account.mode \in Modes
<1>1. account.books \in [Keys -> Book] /\ account.mode \in Modes
  BY TypesNow DEF Account
<1>2. \A k \in Keys : account.books[k].qty \in Nat
  BY <1>1 DEF Book
<1>3. Held(account) = HeldIn(account.books) /\ Held(account)' = HeldIn(account'.books)
  BY DEF Held, HeldIn
<1>4. HeldIn(account.books) \in Nat
  BY <1>2, KeysAre DEF HeldIn
<1> QED
  BY <1>1, <1>3, <1>4

LEMMA ShrunkHolds ==
  ASSUME NEW books \in [Keys -> Book], NEW after \in [Keys -> Book], Shrunk(books, after)
  PROVE  HeldIn(after) <= HeldIn(books) /\ HeldIn(after) \in Nat /\ HeldIn(books) \in Nat
<1>1. \A k \in Keys : books[k].qty \in Nat /\ after[k].qty \in Nat /\ after[k].qty <= books[k].qty
  BY DEF Book, Shrunk
<1> QED
  BY <1>1, KeysAre DEF HeldIn

\* What is known of client ids and open orders after an order is taken.
LEMMA TakenOrders ==
  ASSUME TypeOK, NEW m \in wire, NEW status \in {"NEW", "FILLED", "REJECTED"}, Taken(m, status)
  PROVE  /\ \A c : Known(account, c)' <=> Known(account, c) \/ c = m.request.client
         /\ ~Known(account, m.request.client)
         /\ OpenOrders(account)' = OpenOrders(account) \cup
              (IF status = "NEW" THEN {Len(account.orders) + 1} ELSE {})
         /\ account'.orders[Len(account.orders) + 1].request = m.request
         /\ Len(account.orders) + 1 \notin OpenOrders(account)
         /\ \A i \in OpenOrders(account) : account'.orders[i] = account.orders[i]
<1>1. PICK row : row = [request |-> m.request, status |-> status]
  OBVIOUS
<1>2. PICK last : last = Len(account.orders) + 1
  OBVIOUS
<1>3. /\ DOMAIN account.orders = 1..Len(account.orders) /\ Len(account.orders) \in Nat
      /\ DOMAIN account'.orders = 1..last
      /\ account'.orders[last] = row
      /\ \A i \in DOMAIN account.orders : account'.orders[i] = account.orders[i]
  BY <1>1, <1>2, OrdersGrow DEF Taken
<1>4. row.request = m.request /\ row.status = status
  BY <1>1
<1>5. \A i : i \in DOMAIN account'.orders <=> i = last \/ i \in DOMAIN account.orders
  BY <1>2, <1>3
<1>6. last \notin DOMAIN account.orders
  BY <1>2, <1>3
<1>7. \A c : Known(account, c)' <=> Known(account, c) \/ c = m.request.client
  BY <1>3, <1>4, <1>5 DEF Known
<1>8. OpenOrders(account)' = OpenOrders(account) \cup (IF status = "NEW" THEN {last} ELSE {})
  <2>1. OpenOrders(account)' = {i \in DOMAIN account'.orders : account'.orders[i].status = "NEW"}
    BY DEF OpenOrders
  <2>2. OpenOrders(account) = {i \in DOMAIN account.orders : account.orders[i].status = "NEW"}
    BY DEF OpenOrders
  <2> QED
    BY <1>3, <1>4, <1>5, <1>6, <2>1, <2>2
<1>9. ~Known(account, m.request.client)
  BY DEF Taken
<1> QED
  BY <1>2, <1>3, <1>4, <1>6, <1>7, <1>8, <1>9 DEF OpenOrders

LEMMA StillKnown ==
  ASSUME RequestsStay
  PROVE  \A c : Known(account, c)' <=> Known(account, c)
  BY DEF RequestsStay, Known

\* Room is kept when no opening order comes on its way and no more is held.
LEMMA RoomKept ==
  ASSUME TypeOK, Room, Held(account)' \in Nat, Held(account)' <= Held(account),
         \A m \in wire' : Opening(m.request) => m \in wire,
         \A i \in OpenOrders(account)' : Opening(account'.orders[i].request) =>
           i \in OpenOrders(account) /\ account'.orders[i].request = account.orders[i].request,
         \A c : Known(account, c) => Known(account, c)'
  PROVE  Room'
<1>1. Held(account) \in Nat /\ PositionLimit \in Nat
  BY HeldIs, LimitsAssumption
<1>2. OpeningWire' \subseteq OpeningWire
  BY DEF OpeningWire
<1>3. OpeningRests' \subseteq OpeningRests /\ \A i \in OpeningRests' : account'.orders[i].request = account.orders[i].request
  BY DEF OpeningRests
<1>4. Held(account)' <= PositionLimit
  BY <1>1 DEF Room
<1>5. ASSUME NEW m \in OpeningWire'
      PROVE  /\ Known(account, m.request.client)' \/ Held(account)' + m.request.qty <= PositionLimit
             /\ \A o \in OpeningWire' : o.request.client = m.request.client
             /\ OpeningRests' # {} => Known(account, m.request.client)'
  <2>1. m \in OpeningWire /\ m \in wire
    BY <1>2 DEF OpeningWire
  <2>2. m.request.qty \in Nat
    BY <2>1, TypesNow DEF Wires, Requests
  <2>3. Known(account, m.request.client) \/ Held(account) + m.request.qty <= PositionLimit
    BY <2>1 DEF Room
  <2>4. Known(account, m.request.client)' \/ Held(account)' + m.request.qty <= PositionLimit
    BY <1>1, <2>2, <2>3
  <2>5. \A o \in OpeningWire' : o.request.client = m.request.client
    BY <1>2, <2>1 DEF Room
  <2>6. OpeningRests' # {} => Known(account, m.request.client)'
    BY <1>3, <2>1 DEF Room
  <2> QED
    BY <2>4, <2>5, <2>6
<1>6. ASSUME NEW i \in OpeningRests'
      PROVE  /\ Held(account)' + account'.orders[i].request.qty <= PositionLimit
             /\ \A j \in OpeningRests' : i = j
  <2>1. i \in OpeningRests /\ account'.orders[i].request = account.orders[i].request
    BY <1>3
  <2>2. account.orders[i].request.qty \in Nat
    <3>1. account.orders \in Seq(OrderRow) /\ i \in DOMAIN account.orders
      BY <2>1, TypesNow DEF Account, OpeningRests, OpenOrders
    <3>2. account.orders[i] \in OrderRow
      BY <3>1
    <3> QED
      BY <3>2 DEF OrderRow, Requests
  <2>3. Held(account) + account.orders[i].request.qty <= PositionLimit
    BY <2>1 DEF Room
  <2>4. Held(account)' + account'.orders[i].request.qty <= PositionLimit
    BY <1>1, <2>1, <2>2, <2>3
  <2> QED
    BY <1>3, <2>1, <2>4 DEF Room
<1> QED
  BY <1>4, <1>5, <1>6 DEF Room

\* An opening order that arrives while there is room for it.
LEMMA RoomOnDelivery ==
  ASSUME Base, Room, NEW m \in wire, Deliver(m)
  PROVE  Room'
<1> USE DEF Base
<1>1. /\ m.request \in Requests /\ wire' = wire \ {m} /\ account' \in Account
      /\ \/ account' = account
         \/ \E status \in {"NEW", "FILLED", "REJECTED"} : Taken(m, status)
  BY Delivery DEF Deliver
<1>2. PICK q \in Requests : q = m.request
  BY <1>1
<1>3. /\ Held(account) = HeldIn(account.books) /\ Held(account) \in Nat
      /\ Held(account)' = HeldIn(account'.books)
      /\ account.books \in [Keys -> Book] /\ account.mode \in Modes
  BY HeldIs
<1>4. CASE account' = account
  <2>1. Held(account)' = Held(account) /\ \A c : Known(account, c) => Known(account, c)'
    BY <1>4 DEF Held, Known
  <2>2. \A i \in OpenOrders(account)' : i \in OpenOrders(account) /\ account'.orders[i].request = account.orders[i].request
    BY <1>4 DEF OpenOrders
  <2>3. Held(account)' \in Nat /\ Held(account)' <= Held(account)
    BY <1>3, <2>1
  <2> QED
    BY <1>1, <2>1, <2>2, <2>3, RoomKept
<1>5. CASE \E status \in {"NEW", "FILLED", "REJECTED"} : Taken(m, status)
  <2>1. PICK status \in {"NEW", "FILLED", "REJECTED"} : Taken(m, status)
    BY <1>5
  <2>2. PICK last : last = Len(account.orders) + 1
    OBVIOUS
  <2>3. /\ \A c : Known(account, c)' <=> Known(account, c) \/ c = q.client
        /\ ~Known(account, q.client)
        /\ OpenOrders(account)' = OpenOrders(account) \cup (IF status = "NEW" THEN {last} ELSE {})
        /\ account'.orders[last].request = q /\ last \notin OpenOrders(account)
        /\ \A i \in OpenOrders(account) : account'.orders[i] = account.orders[i]
    BY <1>2, <2>1, <2>2, TakenOrders
  <2>4. SidesFollow(q)
    BY <1>2 DEF Numbered
  <2>5. CASE q.reduceOnly
    <3>1. Shrunk(account.books, account'.books)
      BY <1>2, <2>5, TakenShrinks
    <3>2. account'.books \in [Keys -> Book]
      BY <1>1 DEF Account
    <3>3. Held(account)' \in Nat /\ Held(account)' <= Held(account)
      BY <1>3, <3>1, <3>2, ShrunkHolds
    <3>4. ~Opening(q)
      BY <2>4, <2>5, OpeningIs
    <3>5. \A i \in OpenOrders(account)' : Opening(account'.orders[i].request) =>
             i \in OpenOrders(account) /\ account'.orders[i].request = account.orders[i].request
      BY <2>3, <3>4
    <3> QED
      BY <1>1, <2>3, <3>3, <3>5, RoomKept
  <2>6. CASE ~q.reduceOnly
    <3>1. Opening(q)
      BY <2>4, <2>6, OpeningIs
    <3>2. m \in OpeningWire
      BY <1>2, <3>1 DEF OpeningWire
    <3>3. Held(account) + q.qty <= PositionLimit /\ OpeningRests = {}
      BY <1>2, <2>3, <3>2 DEF Room
    <3>4. PositionLimit \in Nat /\ q.qty \in Nat
      BY LimitsAssumption DEF Requests
    <3>5. account.books = account'.books \/
            account'.books = Apply(account.books, account.mode, TargetKey(account.mode, q), q)
      BY <1>2, <2>1 DEF Taken
    <3>6. status = "NEW" => account'.books = account.books
      BY <2>1 DEF Taken
    <3>7. Held(account)' \in Nat /\ Held(account)' <= Held(account) + q.qty
      <4>1. CASE account'.books = account.books
        BY <1>3, <3>4, <4>1
      <4>2. CASE account'.books = Apply(account.books, account.mode, TargetKey(account.mode, q), q)
        <5>1. PICK books \in [Keys -> Book], mode \in Modes : books = account.books /\ mode = account.mode
          BY <1>3
        <5>2. PICK key \in Keys : key = TargetKey(mode, q)
          BY TargetIsAKey
        <5>3. PICK after : after = Apply(books, mode, key, q)
          OBVIOUS
        <5>4. HeldIn(after) \in Nat /\ HeldIn(after) <= HeldIn(books) + q.qty
          BY <5>3, Filling
        <5> QED
          BY <1>3, <4>2, <5>1, <5>2, <5>3, <5>4
      <4> QED
        BY <3>5, <4>1, <4>2
    <3>8. Held(account)' <= PositionLimit
      BY <1>3, <3>3, <3>4, <3>7
    <3>9. ASSUME NEW o \in OpeningWire'
          PROVE  /\ Known(account, o.request.client)'
                 /\ \A p \in OpeningWire' : p.request.client = o.request.client
      <4>1. OpeningWire' \subseteq OpeningWire
        BY <1>1 DEF OpeningWire
      <4>2. o.request.client = q.client /\ \A p \in OpeningWire' : p.request.client = q.client
        BY <1>2, <3>2, <4>1 DEF Room
      <4> QED
        BY <2>3, <4>2
    <3>10. OpeningRests' = IF status = "NEW" THEN {last} ELSE {}
      <4>1. \A i \in OpenOrders(account) : ~Opening(account.orders[i].request)
        BY <3>3 DEF OpeningRests
      <4>2. \A i \in OpenOrders(account)' : Opening(account'.orders[i].request) <=> i = last
        BY <2>3, <3>1, <4>1
      <4>3. OpeningRests' = {i \in OpenOrders(account)' : Opening(account'.orders[i].request)}
        BY DEF OpeningRests
      <4> QED
        BY <2>3, <4>2, <4>3
    <3>11. ASSUME NEW i \in OpeningRests'
           PROVE  /\ Held(account)' + account'.orders[i].request.qty <= PositionLimit
                  /\ \A j \in OpeningRests' : i = j
      <4>1. status = "NEW" /\ i = last
        BY <3>10
      <4>2. Held(account)' = Held(account)
        BY <1>3, <3>6, <4>1
      <4> QED
        BY <2>3, <3>3, <3>10, <4>1, <4>2
    <3> QED
      BY <3>8, <3>9, <3>11 DEF Room
  <2>7. q.reduceOnly \in BOOLEAN
    BY DEF Requests
  <2> QED
    BY <2>5, <2>6, <2>7
<1> QED
  BY <1>1, <1>4, <1>5

\* A resting order that fills was checked with room for it, if it opens something,
\* and otherwise shrinks what is there, if anything is.
LEMMA RoomOnFill ==
  ASSUME Base, Room, NEW i \in OpenOrders(account), RestingFills(i), ~stray'
  PROVE  Room'
<1> USE DEF Base
<1>1. /\ RequestsStay /\ i \in DOMAIN account.orders
      /\ account'.books = Apply(account.books, account.mode,
           TargetKey(account.mode, account.orders[i].request), account.orders[i].request)
      /\ account.orders[i].request \in Requests
      /\ OpenOrders(account') = OpenOrders(account) \ {i}
      /\ TargetKey(account.mode, account.orders[i].request) \in Keys
      /\ account.mode \in Modes /\ account.books \in [Keys -> Book]
  BY RestingFill
<1>2. PICK q \in Requests, books \in [Keys -> Book], mode \in Modes :
        q = account.orders[i].request /\ books = account.books /\ mode = account.mode
  BY <1>1
<1>3. PICK key \in Keys : key = TargetKey(mode, q)
  BY <1>1, <1>2
<1>4. PICK after : after = Apply(books, mode, key, q)
  OBVIOUS
<1>5. account'.books = after
  BY <1>1, <1>2, <1>3, <1>4
<1>6. /\ after \in [Keys -> Book] /\ HeldIn(books) \in Nat /\ HeldIn(after) \in Nat
      /\ HeldIn(after) <= HeldIn(books) + q.qty
      /\ q.reduceOnly /\ books[key].qty > 0 => Shrunk(books, after)
  BY <1>4, Filling
<1>7. Held(account) = HeldIn(books) /\ Held(account)' = HeldIn(after)
  BY <1>2, <1>5, HeldIs
<1>8. SidesFollow(q) /\ (Closing(q) <=> q.reduceOnly) /\ (Opening(q) <=> ~q.reduceOnly)
  <2>1. SidesFollow(q)
    BY <1>1, <1>2 DEF Numbered
  <2> QED
    BY <2>1, OpeningIs
<1>9. wire' = wire /\ stray' = (stray \/ OpensUnasked(i))
  BY DEF RestingFills
<1>10. \A c : Known(account, c)' <=> Known(account, c)
  BY <1>1, StillKnown
<1>11. OpenOrders(account)' = OpenOrders(account) \ {i}
  BY <1>1
<1>12. \A j \in OpenOrders(account)' : j \in OpenOrders(account) /\ account'.orders[j].request = account.orders[j].request
  BY <1>1, <1>11 DEF RequestsStay, OpenOrders
<1>13. CASE Closing(q)
  <2>1. books[key].qty > 0
    <3>1. books[key].qty # 0
      BY <1>2, <1>3, <1>9, <1>13 DEF OpensUnasked
    <3>2. books[key].qty \in Nat
      BY DEF Book
    <3> QED
      BY <3>1, <3>2
  <2>2. Shrunk(books, after)
    BY <1>6, <1>8, <1>13, <2>1
  <2>3. Held(account)' \in Nat /\ Held(account)' <= Held(account)
    BY <1>6, <1>7, <2>2, ShrunkHolds
  <2> QED
    BY <1>9, <1>10, <1>12, <2>3, RoomKept
<1>14. CASE ~Closing(q)
  <2>1. i \in OpeningRests
    BY <1>2, <1>14 DEF OpeningRests, Opening
  <2>2. Held(account) + q.qty <= PositionLimit /\ \A j \in OpeningRests : i = j
    BY <1>2, <2>1 DEF Room
  <2>3. Held(account)' <= PositionLimit
    <3>1. HeldIn(books) + q.qty <= PositionLimit
      BY <1>7, <2>2
    <3>2. PositionLimit \in Nat /\ q.qty \in Nat
      BY LimitsAssumption DEF Requests
    <3>3. HeldIn(after) <= PositionLimit
      BY <1>6, <3>1, <3>2
    <3> QED
      BY <1>7, <3>3
  <2>4. OpeningRests' = {}
    <3>1. \A j \in OpenOrders(account)' : ~Opening(account'.orders[j].request)
      BY <1>11, <1>12, <2>2 DEF OpeningRests
    <3> QED
      BY <3>1 DEF OpeningRests
  <2>5. OpeningWire' = OpeningWire
    BY <1>9 DEF OpeningWire
  <2>6. \A m \in OpeningWire : Known(account, m.request.client)' /\ \A o \in OpeningWire : o.request.client = m.request.client
    BY <1>10, <2>1 DEF Room
  <2> QED
    BY <2>3, <2>4, <2>5, <2>6 DEF Room
<1> QED
  BY <1>13, <1>14

\* An opening order that is sent with nothing else under way has been checked against
\* all there is.
LEMMA RoomOnSend ==
  ASSUME Base, Room, NEW s \in DOMAIN Script, Place(s), ~blind'
  PROVE  Room'
<1> USE DEF Base
<1>1. UNCHANGED account
  BY DEF Place
<1>2. Held(account)' = Held(account) /\ Held(account) \in Nat /\ Held(account)' <= Held(account)
  <2>1. Held(account)' = Held(account)
    BY <1>1 DEF Held
  <2> QED
    BY <2>1, HeldIs
<1>3. OpenOrders(account)' = OpenOrders(account) /\ \A c : Known(account, c)' <=> Known(account, c)
  BY <1>1 DEF OpenOrders, Known
<1>4. PICK q \in Requests : q = SignalRequest(s, bot.attempt) /\ SidesFollow(q) /\ q.reduceOnly = Script[s].reduceOnly
  BY SignalRequests
<1>5. PICK order : order = [reduceOnly |-> q.reduceOnly, notional |-> q.qty]
  OBVIOUS
<1>6. PICK damage \in {"ok", "daily_loss"} :
        IF Risk!CheckOrder(Limits, order, damage, 1, recent, Held(account), clock) = "ok"
          THEN Send("bot", q) /\ blind' = (blind \/ (Opening(q) /\ Outstanding(q)))
          ELSE wire' = wire
  BY <1>4, <1>5 DEF Place
<1>7. (Opening(q) <=> ~q.reduceOnly) /\ q.reduceOnly \in BOOLEAN
  BY <1>4, OpeningIs DEF Requests
<1>8. CASE ~(Risk!CheckOrder(Limits, order, damage, 1, recent, Held(account), clock) = "ok")
  <2>1. wire' = wire
    BY <1>6, <1>8
  <2> QED
    BY <1>1, <1>2, <1>3, <2>1, RoomKept
<1>9. CASE Risk!CheckOrder(Limits, order, damage, 1, recent, Held(account), clock) = "ok"
  <2>1. Send("bot", q) /\ (Opening(q) => ~Outstanding(q))
    BY <1>6, <1>9
  <2>2. PICK m : m = [n |-> sends + 1, from |-> "bot", request |-> q]
    OBVIOUS
  <2>3. m.request = q /\ wire' = wire \cup {m}
    BY <2>1, <2>2 DEF Send
  <2>4. CASE ~Opening(q)
    BY <1>1, <1>2, <1>3, <2>3, <2>4, RoomKept
  <2>5. CASE Opening(q)
    <3>1. order.reduceOnly = FALSE /\ order.notional = q.qty
      BY <1>5, <1>7, <2>5
    <3>2. ~Risk!TooLarge(Limits, Held(account), order.notional)
      BY <1>9, <3>1, OpeningChecked
    <3>3. Held(account) + q.qty <= PositionLimit
      <4>1. ~(Held(account) + q.qty > PositionLimit)
        BY <3>1, <3>2 DEF Risk!TooLarge, Limits
      <4>2. q.qty \in Nat /\ PositionLimit \in Nat
        BY LimitsAssumption DEF Requests
      <4> QED
        BY <1>2, <4>1, <4>2
    <3>4. \A o \in wire : Opening(o.request) => o.request.client = q.client
      BY <2>1, <2>5 DEF Outstanding
    <3>5. OpeningRests = {}
      BY <2>1, <2>5 DEF Outstanding, OpeningRests
    <3>6. OpeningRests' = {}
      BY <1>1, <3>5 DEF OpeningRests, OpenOrders
    <3>7. \A o \in OpeningWire' : o.request.client = q.client /\ (o = m \/ o \in OpeningWire)
      BY <2>3, <3>4 DEF OpeningWire
    <3>8. \A o \in OpeningWire' : Known(account, o.request.client)' \/ Held(account)' + o.request.qty <= PositionLimit
      BY <1>2, <1>3, <2>3, <3>3, <3>7 DEF Room
    <3>9. \A o, p \in OpeningWire' : o.request.client = p.request.client
      BY <3>7
    <3>10. Held(account)' <= PositionLimit
      BY <1>2 DEF Room
    <3> QED
      BY <3>6, <3>8, <3>9, <3>10 DEF Room
  <2> QED
    BY <2>4, <2>5
<1> QED
  BY <1>8, <1>9

LEMMA HistoryGrows ==
  ASSUME Base, [Next]_vars
  PROVE  (blind => blind') /\ (stray => stray')
<1>1. CASE UNCHANGED <<blind, stray>>
  BY <1>1
<1>0. blind \in BOOLEAN /\ stray \in BOOLEAN
  BY TypesNow DEF Base
<1>2. ASSUME NEW s \in DOMAIN Script, Place(s) PROVE (blind => blind') /\ (stray => stray')
  <2>1. stray' = stray
    BY <1>2 DEF Place
  <2>2. blind' = blind \/ \E b \in BOOLEAN : blind' = (blind \/ b)
    BY <1>2 DEF Place
  <2> QED
    BY <1>0, <2>1, <2>2
<1>3. ASSUME NEW i \in OpenOrders(account), RestingFills(i) PROVE (blind => blind') /\ (stray => stray')
  <2>1. stray' = (stray \/ OpensUnasked(i)) /\ blind' = blind
    BY <1>3 DEF RestingFills
  <2> QED
    BY <1>0, <2>1
<1>4. CASE \E m \in wire : Deliver(m) \/ Refuse(m)
  BY <1>4 DEF Deliver, Refuse, history
<1>5. CASE BotAnswered \/ BotFailed \/ BotUncertain \/ Resolve \/ Reconcile \/ Crash \/ Tick
  <2>1. UNCHANGED <<blind, stray>>
    BY <1>5 DEF BotAnswered, BotFailed, BotUncertain, Resolve, Reconcile, Crash, Tick, history
  <2> QED
    BY <2>1
<1>6. CASE \E k \in Kills : KillSteps(k)
  BY <1>6 DEF KillSteps, KillCancel, KillRead, KillClose, KillAnswered, KillCommit, history
<1> QED
  BY <1>1, <1>2, <1>3, <1>4, <1>5, <1>6 DEF Next, vars, KillSteps

LEMMA RoomStep == Base /\ RoomInv /\ [Next]_vars => RoomInv'
<1> SUFFICES ASSUME Base, RoomInv, [Next]_vars, ~blind', ~stray' PROVE Room'
  BY DEF RoomInv
<1>1. Room /\ TypeOK
  BY HistoryGrows DEF RoomInv, Base
<1>2. Held(account) \in Nat
  BY <1>1, HeldIs
<1>3. ASSUME account' = account, \A m \in wire' : Opening(m.request) => m \in wire PROVE Room'
  <2>1. Held(account)' = Held(account) /\ OpenOrders(account)' = OpenOrders(account)
        /\ \A c : Known(account, c)' <=> Known(account, c)
    BY <1>3 DEF Held, OpenOrders, Known
  <2>2. Held(account)' \in Nat /\ Held(account)' <= Held(account)
    BY <1>2, <2>1
  <2> QED
    BY <1>1, <1>3, <2>1, <2>2, RoomKept
<1>4. ASSUME NEW k \in Kills, KillSteps(k) PROVE Room'
  <2>1. CASE KillCancel(k)
    <3>1. PICK S : account' = Cancel(account, S)
      BY <1>1, <2>1, CancelRow
    <3>2. RequestsStay /\ account'.books = account.books /\ OpenOrders(account') = OpenOrders(account) \ S
      BY <1>1, <3>1, Cancellation
    <3>3. Held(account)' = Held(account)
      BY <3>2 DEF Held
    <3>4. Held(account)' \in Nat /\ Held(account)' <= Held(account)
      BY <1>2, <3>3
    <3>5. \A c : Known(account, c)' <=> Known(account, c)
      BY <3>2, StillKnown
    <3>6. wire' = wire
      BY <2>1 DEF KillCancel
    <3>7. OpenOrders(account)' = OpenOrders(account) \ S
      BY <3>2
    <3>8. \A i \in OpenOrders(account)' : i \in OpenOrders(account) /\ account'.orders[i].request = account.orders[i].request
      BY <3>2, <3>7 DEF RequestsStay, OpenOrders
    <3> QED
      BY <1>1, <3>4, <3>5, <3>6, <3>8, RoomKept
  <2>2. CASE KillClose(k)
    <3>1. PICK q \in Requests : Send(k, q) /\ SidesFollow(q) /\ q.reduceOnly
      BY <2>2, ClosingFirst
    <3>2. ~Opening(q)
      BY <1>1, <3>1, OpeningIs
    <3>3. PICK m : m = [n |-> sends + 1, from |-> k, request |-> q]
      OBVIOUS
    <3>4. m.request = q /\ wire' = wire \cup {m}
      BY <3>1, <3>3 DEF Send
    <3>5. account' = account
      BY <2>2 DEF KillClose
    <3> QED
      BY <1>3, <3>2, <3>4, <3>5
  <2>3. CASE KillRead(k) \/ KillAnswered(k) \/ KillCommit(k)
    BY <1>3, <2>3 DEF KillRead, KillAnswered, KillCommit
  <2> QED
    BY <1>4, <2>1, <2>2, <2>3 DEF KillSteps
<1>5. CASE \E m \in wire : Refuse(m)
  BY <1>3, <1>5 DEF Refuse
<1>6. CASE BotAnswered \/ BotFailed \/ BotUncertain \/ Resolve \/ Reconcile \/ Crash \/ Tick
  BY <1>3, <1>6 DEF BotAnswered, BotFailed, BotUncertain, Resolve, Reconcile, Crash, Tick
<1>7. CASE UNCHANGED vars
  BY <1>3, <1>7 DEF vars
<1> QED
  BY <1>1, <1>4, <1>5, <1>6, <1>7, RoomOnDelivery, RoomOnFill, RoomOnSend DEF Next, KillSteps

LEMMA RoomInit == Init => RoomInv
<1> SUFFICES ASSUME Init PROVE Room
  BY DEF RoomInv
<1>1. PICK mode \in Modes : account = NewAccount(mode)
  BY DEF Init
<1>2. account.orders = <<>> /\ account.books = [k \in Keys |-> Flat]
  BY <1>1 DEF NewAccount
<1>3. Held(account) = 0
  BY <1>2, KeysAre, FlatIsABook DEF Held
<1>4. wire = {} /\ OpenOrders(account) = {}
  BY <1>2 DEF Init, OpenOrders
<1> QED
  BY <1>3, <1>4, LimitsAssumption DEF Room, OpeningWire, OpeningRests

\* What is held stays within the limit, for every limit and every script, unless an
\* order was checked while another was under way or a resting close opened a position.
THEOREM PositionLimited == Spec => []WithinLimit
<1>1. Init => Base /\ RoomInv
  BY BaseInit, RoomInit
<1>2. Base /\ RoomInv /\ [Next]_vars => (Base /\ RoomInv)'
  BY BaseStep, RoomStep
<1>3. RoomInv => WithinLimit
  BY DEF RoomInv, Room, WithinLimit
<1> QED
  BY <1>1, <1>2, <1>3, PTL DEF Spec

-----------------------------------------------------------------------------
(* A kill that reports no failure.                                         *)

LEMMA WhereItLands ==
  ASSUME TypeOK, NEW q \in Requests, SidesFollow(q)
  PROVE  /\ account.mode = "ONE_WAY" => TargetKey(account.mode, q) = "net"
         /\ account.mode = "HEDGE" /\ ~q.reduceOnly => TargetKey(account.mode, q) = q.side
         /\ account.mode = "HEDGE" /\ q.reduceOnly => TargetKey(account.mode, q) = Opposite(q.side)
         /\ account.mode \in {"ONE_WAY", "HEDGE"} /\ q.reduceOnly \in BOOLEAN
<1>1. account.mode \in {"ONE_WAY", "HEDGE"}
  BY TypesNow DEF Account, Modes
<1>2. /\ q.reduceOnly => q.tradeSide = IF account.mode = "ONE_WAY" THEN "none" ELSE "CLOSE"
      /\ ~q.reduceOnly => q.tradeSide # "CLOSE" /\ q.reduceOnly \in BOOLEAN
  BY OpeningIs DEF Requests
<1> QED
  BY <1>1, <1>2 DEF TargetKey, PositionKey, Requests

\* A fill that opens nothing by a close leaves every position under its own key.
LEMMA FillInPlace ==
  ASSUME TypeOK, NEW q \in Requests, SidesFollow(q), PlacedIn(account.mode, account.books),
         NEW after, after = Apply(account.books, account.mode, TargetKey(account.mode, q), q),
         q.reduceOnly => account.books[TargetKey(account.mode, q)].qty > 0
  PROVE  PlacedIn(account.mode, after)
<1>1. account.books \in [Keys -> Book] /\ account.mode \in Modes
  BY TypesNow DEF Account
<1>2. PICK books \in [Keys -> Book], mode \in Modes : books = account.books /\ mode = account.mode
  BY <1>1
<1>3. PICK key \in Keys : key = TargetKey(mode, q)
  BY TargetIsAKey
<1>4. PICK h \in Book : h = books[key]
  OBVIOUS
<1>5. h.qty \in Nat /\ h.side \in Sides /\ q.side \in Sides /\ q.qty \in Nat /\ q.reduceOnly \in BOOLEAN
  BY TargetIsAKey DEF Book
<1>6. /\ mode = "ONE_WAY" => key = "net"
      /\ mode = "HEDGE" /\ ~q.reduceOnly => key = q.side
      /\ mode = "HEDGE" /\ q.reduceOnly => key = Opposite(q.side)
      /\ mode \in {"ONE_WAY", "HEDGE"} /\ (Closing(q) <=> q.reduceOnly)
  BY <1>2, <1>3, WhereItLands, OpeningIs
<1>7. PICK c : c = IF h.qty < q.qty THEN h.qty ELSE q.qty
  OBVIOUS
<1>8. \A k \in Keys : books[k].qty > 0 => k = PositionKey(mode, books[k].side)
  BY <1>2 DEF PlacedIn
<1>9. after = Apply(books, mode, key, q)
  BY <1>2, <1>3
<1> DEFINE adding == h.qty = 0 \/ (h.side = q.side /\ ~Closing(q))
<1>10. /\ adding => after = [books EXCEPT ![key] = [side |-> q.side, qty |-> h.qty + q.qty]]
       /\ ~adding /\ h.qty > c => after = [books EXCEPT ![key].qty = h.qty - c]
       /\ ~adding /\ ~(h.qty > c) /\ q.qty - c > 0 /\ ~q.reduceOnly =>
            after = [[books EXCEPT ![key] = Flat] EXCEPT
                       ![PositionKey(mode, q.side)] = [side |-> q.side, qty |-> q.qty - c]]
       /\ ~adding /\ ~(h.qty > c) /\ ~(q.qty - c > 0 /\ ~q.reduceOnly) =>
            after = [books EXCEPT ![key] = Flat]
  BY <1>4, <1>7, <1>9 DEF Apply
<1>11. q.reduceOnly => h.qty > 0
  BY <1>2, <1>3, <1>4
<1>12. ~q.reduceOnly => key = PositionKey(mode, q.side)
  BY <1>6 DEF PositionKey
<1>13. CASE adding
  <2>1. ~q.reduceOnly
    BY <1>5, <1>6, <1>11, <1>13
  <2>2. after = [books EXCEPT ![key] = [side |-> q.side, qty |-> h.qty + q.qty]]
    BY <1>10, <1>13
  <2>3. after[key].side = q.side /\ \A k \in Keys : k # key => after[k] = books[k]
    BY <2>2
  <2> QED
    BY <1>2, <1>8, <1>12, <2>1, <2>3 DEF PlacedIn
<1>14. CASE ~adding /\ h.qty > c
  <2>1. after = [books EXCEPT ![key].qty = h.qty - c] /\ h.qty > 0
    <3>1. h.qty # 0
      BY <1>14
    <3> QED
      BY <1>5, <1>10, <1>14, <3>1
  <2>2. after[key].side = h.side /\ \A k \in Keys : k # key => after[k] = books[k]
    BY <1>4, <2>1 DEF Book
  <2> QED
    BY <1>2, <1>4, <1>8, <2>1, <2>2 DEF PlacedIn
<1>15. CASE ~adding /\ ~(h.qty > c) /\ q.qty - c > 0 /\ ~q.reduceOnly
  <2>1. after = [[books EXCEPT ![key] = Flat] EXCEPT ![key] = [side |-> q.side, qty |-> q.qty - c]]
    BY <1>10, <1>12, <1>15
  <2>2. after[key].side = q.side /\ \A k \in Keys : k # key => after[k] = books[k]
    BY <2>1
  <2> QED
    BY <1>2, <1>8, <1>12, <1>15, <2>2 DEF PlacedIn
<1>16. CASE ~adding /\ ~(h.qty > c) /\ ~(q.qty - c > 0 /\ ~q.reduceOnly)
  <2>1. after = [books EXCEPT ![key] = Flat]
    BY <1>10, <1>16
  <2>2. after[key].qty = 0 /\ \A k \in Keys : k # key => after[k] = books[k]
    BY <2>1, FlatIsABook
  <2> QED
    BY <1>2, <1>8, <2>2 DEF PlacedIn
<1> HIDE DEF adding
<1> QED
  BY <1>13, <1>14, <1>15, <1>16

LEMMA BooksChange ==
  ASSUME Base, [Next]_vars
  PROVE  \/ account'.books = account.books /\ account'.mode = account.mode
         \/ \E m \in wire : Deliver(m)
         \/ \E i \in OpenOrders(account) : RestingFills(i)
<1>1. CASE account' = account
  BY <1>1
<1>2. ASSUME NEW k \in Kills, KillCancel(k) PROVE account'.books = account.books /\ account'.mode = account.mode
  <2>1. PICK S : account' = Cancel(account, S)
    BY <1>2, CancelRow DEF Base
  <2> QED
    BY <2>1, Cancellation DEF Base, RequestsStay
<1>3. CASE Next
  <2>1. CASE \/ \E m \in wire : Refuse(m)
             \/ \E s \in DOMAIN Script : Place(s)
             \/ BotAnswered \/ BotFailed \/ BotUncertain \/ Resolve \/ Reconcile \/ Crash \/ Tick
             \/ \E k \in Kills : KillRead(k) \/ KillClose(k) \/ KillAnswered(k) \/ KillCommit(k)
    <3>1. account' = account
      BY <2>1 DEF Refuse, Place, BotAnswered, BotFailed, BotUncertain, Resolve, Reconcile, Crash, Tick,
                  KillRead, KillClose, KillAnswered, KillCommit
    <3> QED
      BY <1>1, <3>1
  <2> QED
    BY <1>2, <1>3, <2>1 DEF Next
<1> QED
  BY <1>1, <1>3 DEF vars

LEMMA PlaceStep == Base /\ PlaceInv /\ [Next]_vars => PlaceInv'
<1> SUFFICES ASSUME Base, PlaceInv, [Next]_vars, ~stray' PROVE PlacedIn(account'.mode, account'.books)
  BY DEF PlaceInv, PlacedIn
<1> USE DEF Base
<1>1. PlacedIn(account.mode, account.books) /\ ~stray
  BY HistoryGrows DEF PlaceInv
<1>2. CASE account'.books = account.books /\ account'.mode = account.mode
  BY <1>1, <1>2
<1>3. ASSUME NEW m \in wire, Deliver(m) PROVE PlacedIn(account'.mode, account'.books)
  <2>1. /\ m.request \in Requests /\ account'.mode = account.mode
        /\ \/ account' = account
           \/ \E status \in {"NEW", "FILLED", "REJECTED"} : Taken(m, status)
    BY <1>3, Delivery
  <2>2. PICK q \in Requests : q = m.request /\ SidesFollow(q)
    BY <2>1 DEF Numbered
  <2>3. CASE account'.books = account.books
    BY <1>1, <2>1, <2>3
  <2>4. CASE /\ account'.books = Apply(account.books, account.mode, TargetKey(account.mode, q), q)
             /\ Closing(q) => account.books[TargetKey(account.mode, q)].qty # 0
    <3>1. q.reduceOnly => account.books[TargetKey(account.mode, q)].qty > 0
      <4>1. TargetKey(account.mode, q) \in Keys /\ account.books \in [Keys -> Book]
        BY TypesNow, TargetIsAKey DEF Account
      <4>2. account.books[TargetKey(account.mode, q)].qty \in Nat
        BY <4>1 DEF Book
      <4> QED
        BY <2>4, <4>2 DEF Closing
    <3>2. PICK after : after = Apply(account.books, account.mode, TargetKey(account.mode, q), q)
      OBVIOUS
    <3>3. PlacedIn(account.mode, after)
      BY <1>1, <2>2, <3>1, <3>2, FillInPlace
    <3> QED
      BY <2>1, <2>4, <3>2, <3>3
  <2> QED
    BY <2>1, <2>2, <2>3, <2>4 DEF Taken
<1>4. ASSUME NEW i \in OpenOrders(account), RestingFills(i) PROVE PlacedIn(account'.mode, account'.books)
  <2>1. /\ RequestsStay /\ i \in DOMAIN account.orders
        /\ account'.books = Apply(account.books, account.mode,
             TargetKey(account.mode, account.orders[i].request), account.orders[i].request)
        /\ account.orders[i].request \in Requests
        /\ TargetKey(account.mode, account.orders[i].request) \in Keys
        /\ account.books \in [Keys -> Book]
    BY <1>4, RestingFill
  <2>2. PICK q \in Requests : q = account.orders[i].request /\ SidesFollow(q)
    BY <2>1 DEF Numbered
  <2>3. ~OpensUnasked(i)
    BY <1>4 DEF RestingFills
  <2>4. q.reduceOnly => account.books[TargetKey(account.mode, q)].qty > 0
    <3>1. account.books[TargetKey(account.mode, q)].qty \in Nat
      BY <2>1, <2>2 DEF Book
    <3>2. Closing(q) => account.books[TargetKey(account.mode, q)].qty # 0
      BY <2>2, <2>3 DEF OpensUnasked
    <3> QED
      BY <3>1, <3>2 DEF Closing
  <2>5. PICK after : after = Apply(account.books, account.mode, TargetKey(account.mode, q), q)
    OBVIOUS
  <2>6. PlacedIn(account.mode, after)
    BY <1>1, <2>2, <2>4, <2>5, FillInPlace
  <2> QED
    BY <2>1, <2>2, <2>5, <2>6 DEF RequestsStay
<1> QED
  BY <1>2, <1>3, <1>4, BooksChange
LEMMA PlaceInit == Init => PlaceInv
<1> SUFFICES ASSUME Init PROVE PlacedIn(account.mode, account.books)
  BY DEF PlaceInv
<1>1. account.books = [k \in Keys |-> Flat]
  BY DEF Init, NewAccount
<1> QED
  BY <1>1, FlatIsABook DEF PlacedIn

\* The client ids of two kills, or of a kill and a signal, differ.
LEMMA OwnNames ==
  ASSUME NEW k \in Kills, Alone(k), NEW j \in Nat
  PROVE  /\ \A s, attempt : SignalId(s, attempt) # FlattenId(k, j)
         /\ \A o \in Kills, i \in Nat : FlattenId(o, i) = FlattenId(k, j) => o = k /\ i = j
  BY KillsAssumption DEF SignalId, FlattenId, Alone

\* What belongs to a kill is not changed when its row is not, and nothing is sent.
LEMMA OwnKept ==
  ASSUME RequestsStay, NEW k \in Kills, OwnIds(k), wire' \subseteq wire,
         kill'[k].stage = kill[k].stage, kill'[k].n = kill[k].n, kill'[k].index = kill[k].index
  PROVE  OwnIds(k)'
<1>1. \A c : Known(account, c)' <=> Known(account, c)
  BY StillKnown
<1>2. \A j : FlattenId(k, j)' = FlattenId(k, j)
  BY DEF FlattenId
<1> QED
  BY <1>1, <1>2 DEF OwnIds, RequestsStay, Awaited

\* Nor when somebody else sends something.
LEMMA OwnKeptOnSend ==
  ASSUME account' = account, NEW k \in Kills, OwnIds(k), kill'[k] = kill[k],
         NEW from, NEW q, Send(from, q), from # k, \A j \in Nat : q.client # FlattenId(k, j)
  PROVE  OwnIds(k)'
<1>1. PICK new : new = [n |-> sends + 1, from |-> from, request |-> q]
  OBVIOUS
<1>2. new.from = from /\ new.request = q /\ wire' = wire \cup {new}
  BY <1>1 DEF Send
<1>3. \A j : FlattenId(k, j)' = FlattenId(k, j)
  BY DEF FlattenId
<1>4. \A c : Known(account, c)' <=> Known(account, c)
  BY DEF Known
<1>5. \A i \in DOMAIN account'.orders : \A j \in Nat :
        account'.orders[i].request.client = FlattenId(k, j)' => j < kill'[k].index
  BY <1>3 DEF OwnIds
<1>6. ASSUME NEW m \in wire', m.from = k
      PROVE  /\ Awaited(k, m)' /\ kill'[k].index > 0
             /\ m.request.client = FlattenId(k, kill'[k].index - 1)
             /\ m.request.reduceOnly /\ m.request.type = "MARKET"
             /\ ~Known(account, m.request.client)'
  <2>1. m \in wire
    BY <1>2, <1>6
  <2> QED
    BY <1>4, <1>6, <2>1 DEF OwnIds, Awaited
<1>7. \A m \in wire' : \A j \in Nat : m.request.client = FlattenId(k, j) => m.from = k
  BY <1>2 DEF OwnIds
<1> QED
  BY <1>3, <1>5, <1>6, <1>7 DEF OwnIds

\* An order of its own that is taken is the last of its ids.
LEMMA OwnKeptOnDelivery ==
  ASSUME Base, NEW k \in Kills, OwnIds(k), NEW m \in wire, Deliver(m)
  PROVE  OwnIds(k)'
<1>0. TypeOK /\ Numbered
  BY DEF Base
<1>1. /\ kill'[k].stage = kill[k].stage /\ kill'[k].n = kill[k].n /\ kill'[k].index = kill[k].index
      /\ wire' = wire \ {m}
  BY <1>0, DeliverRows DEF Deliver
<1>2. account' = account \/ \E status \in {"NEW", "FILLED", "REJECTED"} : Taken(m, status)
  BY <1>0, Delivery
<1>3. CASE account' = account
  <2>1. RequestsStay
    BY <1>3 DEF RequestsStay
  <2> QED
    BY <1>1, <2>1, OwnKept
<1>4. ASSUME NEW status \in {"NEW", "FILLED", "REJECTED"}, Taken(m, status) PROVE OwnIds(k)'
  <2>1. PICK row : row = [request |-> m.request, status |-> status]
    OBVIOUS
  <2>2. PICK last : last = Len(account.orders) + 1
    OBVIOUS
  <2>3. /\ Len(account.orders) \in Nat /\ DOMAIN account.orders = 1..Len(account.orders)
        /\ DOMAIN account'.orders = 1..last /\ account'.orders[last] = row
        /\ \A i \in DOMAIN account.orders : account'.orders[i] = account.orders[i]
    BY <1>0, <1>4, <2>1, <2>2, OrdersGrow DEF Taken
  <2>4. \A i \in DOMAIN account'.orders : i = last \/ i \in DOMAIN account.orders
    BY <2>2, <2>3
  <2>5. row.request = m.request
    BY <2>1
  <2>6. \A c : Known(account, c)' <=> Known(account, c) \/ c = m.request.client
    BY <1>0, <1>4, TakenOrders
  <2>7. \A j : FlattenId(k, j)' = FlattenId(k, j)
    BY DEF FlattenId
  <2>8. kill[k].index \in Nat
    BY <1>0, TypesNow DEF Rows, KillRow
  <2>9. \A i, j \in Nat : FlattenId(k, i) = FlattenId(k, j) => i = j
    BY DEF FlattenId
  <2>10. ASSUME NEW j \in Nat, m.request.client = FlattenId(k, j) PROVE j < kill[k].index /\ m.from = k
    <3>1. m.from = k
      BY <2>10 DEF OwnIds
    <3>2. kill[k].index > 0 /\ m.request.client = FlattenId(k, kill[k].index - 1)
      BY <3>1 DEF OwnIds
    <3>3. kill[k].index - 1 \in Nat
      BY <2>8, <3>2
    <3>4. j = kill[k].index - 1
      BY <2>9, <2>10, <3>2, <3>3
    <3> QED
      BY <2>8, <3>1, <3>4
  <2>11. ASSUME NEW i \in DOMAIN account'.orders, NEW j \in Nat,
                account'.orders[i].request.client = FlattenId(k, j)
         PROVE  j < kill'[k].index
    <3>1. CASE i = last
      BY <1>1, <2>3, <2>5, <2>10, <2>11, <3>1
    <3>2. CASE i \in DOMAIN account.orders
      BY <1>1, <2>3, <2>11, <3>2 DEF OwnIds
    <3> QED
      BY <2>4, <3>1, <3>2
  <2>12. ASSUME NEW o \in wire', o.from = k
         PROVE  /\ Awaited(k, o)' /\ kill'[k].index > 0
                /\ o.request.client = FlattenId(k, kill'[k].index - 1)
                /\ o.request.reduceOnly /\ o.request.type = "MARKET"
                /\ ~Known(account, o.request.client)'
    <3>1. o \in wire /\ o # m
      BY <1>1
    <3>2. /\ Awaited(k, o) /\ kill[k].index > 0 /\ o.request.client = FlattenId(k, kill[k].index - 1)
          /\ o.request.reduceOnly /\ o.request.type = "MARKET" /\ ~Known(account, o.request.client)
      BY <2>12, <3>1 DEF OwnIds
    <3>3. o.request.client # m.request.client
      <4>1. SUFFICES ASSUME o.request.client = m.request.client PROVE FALSE
        OBVIOUS
      <4>2. kill[k].index - 1 \in Nat
        BY <2>8, <3>2
      <4>3. m.from = k
        BY <2>10, <3>2, <4>1, <4>2
      <4>4. Awaited(k, m)
        BY <4>3 DEF OwnIds
      <4>5. m.n = o.n
        BY <3>2, <4>4 DEF Awaited
      <4> QED
        BY <1>0, <3>1, <4>5 DEF Numbered
    <3>4. Awaited(k, o)'
      BY <1>1, <3>2 DEF Awaited
    <3> QED
      BY <1>1, <2>6, <3>2, <3>3, <3>4
  <2>13. \A o \in wire' : \A j \in Nat : o.request.client = FlattenId(k, j) => o.from = k
    BY <1>1 DEF OwnIds
  <2> QED
    BY <2>7, <2>11, <2>12, <2>13 DEF OwnIds
<1> QED
  BY <1>2, <1>3, <1>4

\* A close has an id that is new, and is the only one on its way.
LEMMA OwnOnClose ==
  ASSUME Base, NEW k \in Kills, OwnIds(k), KillClose(k)
  PROVE  OwnIds(k)'
<1>0. TypeOK /\ Stages
  BY DEF Base
<1>1. /\ kill'[k].stage = "wait" /\ kill'[k].index = kill[k].index + 1 /\ kill'[k].n = sends + 1
      /\ kill[k].stage = "close" /\ kill[k].index \in Nat
  BY <1>0, CloseRow
<1>2. PICK q \in Requests :
        /\ Send(k, q) /\ q.reduceOnly /\ q.type = "MARKET" /\ q.client = FlattenId(k, kill[k].index)
  BY ClosingFirst
<1>3. PICK new : new = [n |-> sends + 1, from |-> k, request |-> q]
  OBVIOUS
<1>4. new.n = sends + 1 /\ new.from = k /\ new.request = q /\ wire' = wire \cup {new}
  BY <1>2, <1>3 DEF Send
<1>5. account' = account
  BY DEF KillClose
<1>6. \A m \in wire : m.from # k /\ \A j \in Nat : m.request.client # FlattenId(k, j)
  BY <1>1 DEF OwnIds, Awaited
<1>7. \A j : FlattenId(k, j)' = FlattenId(k, j)
  BY DEF FlattenId
<1>8. \A i \in DOMAIN account.orders : \A j \in Nat :
        account.orders[i].request.client = FlattenId(k, j) => j < kill[k].index
  BY DEF OwnIds
<1>9. ~Known(account, q.client)'
  BY <1>1, <1>2, <1>5, <1>8 DEF Known
<1>10. \A i \in DOMAIN account'.orders : \A j \in Nat :
         account'.orders[i].request.client = FlattenId(k, j) => j < kill'[k].index
  BY <1>1, <1>5, <1>8
<1>11. ASSUME NEW m \in wire', m.from = k
       PROVE  /\ Awaited(k, m)' /\ kill'[k].index > 0
              /\ m.request.client = FlattenId(k, kill'[k].index - 1)
              /\ m.request.reduceOnly /\ m.request.type = "MARKET"
              /\ ~Known(account, m.request.client)'
  <2>1. m = new
    BY <1>4, <1>6, <1>11
  <2>2. kill'[k].index - 1 = kill[k].index /\ kill'[k].index > 0
    BY <1>1
  <2>3. Awaited(k, m)'
    BY <1>1, <1>4, <2>1 DEF Awaited
  <2> QED
    BY <1>2, <1>4, <1>9, <2>1, <2>2, <2>3
<1>12. \A m \in wire' : \A j \in Nat : m.request.client = FlattenId(k, j) => m.from = k
  BY <1>4, <1>6
<1> QED
  BY <1>7, <1>10, <1>11, <1>12 DEF OwnIds
\* What a kill sees of the steps of others: nothing is changed but answers read
\* and orders cancelled, or somebody else sends something.
Quiet(k) ==
  /\ kill'[k] = kill[k] /\ wire' = wire /\ sends' = sends /\ answers' \subseteq answers
  /\ RequestsStay /\ account'.books = account.books
  /\ OpenOrders(account') \subseteq OpenOrders(account)

SentByAnother(k) ==
  /\ kill'[k] = kill[k] /\ account' = account /\ answers' = answers
  /\ \E from, q : /\ from # k /\ Send(from, q)
                  /\ Alone(k) => \A j \in Nat : q.client # FlattenId(k, j)

LEMMA SeenByKill ==
  ASSUME Base, [Next]_vars, NEW k \in Kills
  PROVE  \/ Quiet(k) \/ SentByAnother(k) \/ KillSteps(k)
         \/ \E m \in wire : Deliver(m) \/ Refuse(m)
         \/ \E i \in OpenOrders(account) : RestingFills(i)
<1>0. TypeOK /\ Stages
  BY DEF Base
<1>1. ASSUME kill'[k] = kill[k], wire' = wire, sends' = sends, answers' \subseteq answers, account' = account
      PROVE  Quiet(k)
  BY <1>1 DEF Quiet, RequestsStay
<1>2. CASE UNCHANGED vars
  BY <1>1, <1>2 DEF vars
<1>3. ASSUME NEW s \in DOMAIN Script, Place(s) PROVE Quiet(k) \/ SentByAnother(k)
  <2>1. account' = account /\ answers' = answers /\ kill' = kill
    BY <1>3 DEF Place
  <2>2. Send("bot", SignalRequest(s, bot.attempt)) \/ (wire' = wire /\ sends' = sends)
    BY <1>3 DEF Place
  <2>3. CASE Send("bot", SignalRequest(s, bot.attempt))
    <3>1. "bot" # k
      BY KillsAssumption
    <3>2. SignalRequest(s, bot.attempt).client = SignalId(s, bot.attempt)
      BY DEF SignalRequest
    <3>3. Alone(k) => \A j \in Nat : SignalRequest(s, bot.attempt).client # FlattenId(k, j)
      BY <3>2, OwnNames
    <3> QED
      BY <2>1, <2>3, <3>1, <3>3 DEF SentByAnother
  <2> QED
    BY <1>1, <2>1, <2>2, <2>3
<1>4. CASE BotAnswered \/ BotFailed \/ BotUncertain \/ Resolve \/ Reconcile \/ Crash \/ Tick
  <2>1. CASE BotAnswered \/ BotFailed
    <3>1. UNCHANGED <<kill, wire, sends, account>>
      BY <2>1 DEF BotAnswered, BotFailed
    <3>2. \E a \in answers : answers' = answers \ {a}
      BY <2>1 DEF BotAnswered, BotFailed
    <3> QED
      BY <1>1, <3>1, <3>2
  <2>2. CASE BotUncertain \/ Crash
    <3>1. UNCHANGED <<kill, wire, sends, account>> /\ StopsWaiting
      BY <2>2 DEF BotUncertain, Crash
    <3>2. answers' \subseteq answers
      BY <3>1 DEF StopsWaiting
    <3> QED
      BY <1>1, <3>1, <3>2
  <2>3. CASE Resolve \/ Reconcile \/ Tick
    <3>1. Resolve => UNCHANGED <<kill, wire, sends, account, answers>>
      BY DEF Resolve
    <3>2. Reconcile => UNCHANGED <<kill, wire, sends, account, answers>>
      BY DEF Reconcile
    <3>3. Tick => UNCHANGED <<kill, wire, sends, account, answers>>
      BY DEF Tick
    <3> QED
      BY <1>1, <2>3, <3>1, <3>2, <3>3
  <2> QED
    BY <1>4, <2>1, <2>2, <2>3
<1>5. ASSUME NEW o \in Kills, o # k, KillSteps(o) PROVE Quiet(k) \/ SentByAnother(k)
  <2>1. CASE KillCancel(o)
    <3>1. /\ OthersStay(o) /\ \E S : account' = Cancel(account, S)
      BY <1>0, <2>1, CancelRow
    <3>2. PICK S : account' = Cancel(account, S)
      BY <3>1
    <3>3. RequestsStay /\ account'.books = account.books /\ OpenOrders(account') = OpenOrders(account) \ S
      BY <1>0, <3>2, Cancellation
    <3>4. wire' = wire /\ sends' = sends /\ answers' = answers
      BY <2>1 DEF KillCancel
    <3> QED
      BY <1>5, <3>1, <3>3, <3>4 DEF Quiet, OthersStay
  <2>2. CASE KillRead(o)
    <3>1. OthersStay(o)
      BY <1>0, <2>2, ReadRow
    <3> QED
      BY <1>1, <1>5, <2>2, <3>1 DEF KillRead, OthersStay
  <2>3. CASE KillClose(o)
    <3>1. OthersStay(o) /\ kill[o].index \in Nat
      BY <1>0, <2>3, CloseRow
    <3>2. PICK q : Send(o, q) /\ q.client = FlattenId(o, kill[o].index)
      BY <2>3, ClosingFirst
    <3>3. Alone(k) => \A j \in Nat : q.client # FlattenId(k, j)
      BY <1>5, <3>1, <3>2, OwnNames
    <3>4. account' = account /\ answers' = answers
      BY <2>3 DEF KillClose
    <3> QED
      BY <1>5, <3>1, <3>2, <3>3, <3>4 DEF SentByAnother, OthersStay
  <2>4. CASE KillAnswered(o)
    <3>1. OthersStay(o)
      BY <1>0, <2>4, AnsweredRow
    <3>2. answers' \subseteq answers
      BY <2>4 DEF KillAnswered
    <3> QED
      BY <1>1, <1>5, <2>4, <3>1, <3>2 DEF KillAnswered, OthersStay
  <2>5. CASE KillCommit(o)
    <3>1. OthersStay(o)
      BY <1>0, <2>5, CommitRow
    <3> QED
      BY <1>1, <1>5, <2>5, <3>1 DEF KillCommit, OthersStay
  <2> QED
    BY <1>5, <2>1, <2>2, <2>3, <2>4, <2>5 DEF KillSteps
<1> QED
  BY <1>2, <1>3, <1>4, <1>5 DEF Next, KillSteps

\* A new request has a number nobody waits for but its sender.
LEMMA NewNumber ==
  ASSUME Base, NEW from, NEW q, Send(from, q)
  PROVE  /\ sends \in Nat /\ sends' = sends + 1
         /\ \A m \in wire : m.n \in Nat /\ m.n <= sends
         /\ \A k \in Kills : kill[k].n \in Nat
         /\ \E new : /\ new.n = sends + 1 /\ new.from = from /\ new.request = q
                     /\ wire' = wire \cup {new}
<1>1. sends \in Nat /\ wire \subseteq Wires /\ kill \in Rows
  BY TypesNow DEF Base, Numbers
<1>2. \A m \in wire : m.n \in Nat /\ m.n <= sends
  BY <1>1 DEF Base, Numbered, Wires, Numbers
<1>3. \A k \in Kills : kill[k].n \in Nat
  BY <1>1 DEF Rows, KillRow, Numbers
<1>4. PICK new : new = [n |-> sends + 1, from |-> from, request |-> q]
  OBVIOUS
<1>5. new.n = sends + 1 /\ new.from = from /\ new.request = q /\ wire' = wire \cup {new}
  BY <1>4 DEF Send
<1> QED
  BY <1>1, <1>2, <1>3, <1>5 DEF Send

LEMMA NumberStep ==
  ASSUME Base, [Next]_vars, NEW k \in Kills, OwnNumber(k)
  PROVE  OwnNumber(k)'
<1>0. TypeOK /\ Stages /\ Numbered
  BY DEF Base
<1>1. ASSUME wire' \subseteq wire, sends' = sends, kill'[k].stage = kill[k].stage, kill'[k].n = kill[k].n
      PROVE  OwnNumber(k)'
  BY <1>1 DEF OwnNumber, Awaited
<1>2. ASSUME wire' = wire, sends' = sends, kill'[k].stage # "wait", kill'[k].n = kill[k].n \/ kill'[k].n = 0
      PROVE  OwnNumber(k)'
  <2>1. sends \in Nat
    BY <1>0, TypesNow DEF Numbers
  <2> QED
    BY <1>2, <2>1 DEF OwnNumber, Awaited
<1>3. CASE Quiet(k)
  BY <1>1, <1>3 DEF Quiet
<1>4. CASE SentByAnother(k)
  <2>1. PICK from, q : Send(from, q)
    BY <1>4 DEF SentByAnother
  <2>2. PICK new : new.n = sends + 1 /\ wire' = wire \cup {new}
    BY <2>1, NewNumber
  <2>3. sends \in Nat /\ sends' = sends + 1 /\ kill[k].n \in Nat
    BY <2>1, NewNumber
  <2>4. kill'[k] = kill[k] /\ kill[k].n <= sends
    BY <1>4 DEF SentByAnother, OwnNumber
  <2>5. new.n # kill'[k].n /\ kill'[k].n <= sends'
    BY <2>2, <2>3, <2>4
  <2> QED
    BY <2>2, <2>4, <2>5 DEF OwnNumber, Awaited
<1>5. ASSUME NEW m \in wire, Deliver(m) PROVE OwnNumber(k)'
  <2>1. wire' \subseteq wire /\ sends' = sends
    BY <1>5 DEF Deliver
  <2>2. kill'[k].stage = kill[k].stage /\ kill'[k].n = kill[k].n
    BY <1>0, <1>5, DeliverRows
  <2> QED
    BY <1>1, <2>1, <2>2
<1>6. ASSUME NEW m \in wire, Refuse(m) PROVE OwnNumber(k)'
  BY <1>1, <1>6 DEF Refuse
<1>7. ASSUME NEW i \in OpenOrders(account), RestingFills(i) PROVE OwnNumber(k)'
  BY <1>1, <1>7 DEF RestingFills
<1>8. CASE KillCancel(k)
  <2>1. kill'[k].stage = "read" /\ kill'[k].n = kill[k].n
    BY <1>0, <1>8, CancelRow
  <2> QED
    BY <1>2, <1>8, <2>1 DEF KillCancel
<1>9. CASE KillRead(k)
  <2>1. kill'[k].stage \in {"close", "finished"} /\ kill'[k].n = kill[k].n
    BY <1>0, <1>9, ReadRow
  <2> QED
    BY <1>2, <1>9, <2>1 DEF KillRead
<1>10. CASE KillClose(k)
  <2>1. kill'[k].n = sends + 1
    BY <1>0, <1>10, CloseRow
  <2>2. PICK q : Send(k, q)
    BY <1>10, ClosingFirst
  <2>3. PICK new : new.from = k /\ wire' = wire \cup {new}
    BY <2>2, NewNumber
  <2>4. sends \in Nat /\ sends' = sends + 1 /\ \A m \in wire : m.n \in Nat /\ m.n <= sends
    BY <2>2, NewNumber
  <2>5. kill'[k].n <= sends' /\ \A m \in wire : m.n # kill'[k].n
    BY <2>1, <2>4
  <2> QED
    BY <2>3, <2>5 DEF OwnNumber, Awaited
<1>11. CASE KillAnswered(k)
  <2>1. kill'[k].stage \in {"close", "finished"} /\ kill'[k].n = 0
    BY <1>0, <1>11, AnsweredRow
  <2> QED
    BY <1>2, <1>11, <2>1 DEF KillAnswered
<1>12. CASE KillCommit(k)
  <2>1. kill'[k].stage = "committed" /\ kill'[k].n = 0
    BY <1>0, <1>12, CommitRow
  <2> QED
    BY <1>2, <1>12, <2>1 DEF KillCommit
<1> QED
  BY <1>3, <1>4, <1>5, <1>6, <1>7, <1>8, <1>9, <1>10, <1>11, <1>12, SeenByKill DEF KillSteps

LEMMA OwnIdsStep ==
  ASSUME Base, [Next]_vars, NEW k \in Kills, OwnsIds(k)
  PROVE  OwnsIds(k)'
<1> SUFFICES ASSUME Alone(k), kill'[k].stage # "committed", ~kill'[k].failed PROVE OwnIds(k)'
  BY DEF OwnsIds, Alone
<1>0. TypeOK /\ Stages /\ Numbered
  BY DEF Base
<1>1. ASSUME kill[k].stage # "committed", ~kill[k].failed PROVE OwnIds(k)
  BY <1>1 DEF OwnsIds
<1>2. CASE Quiet(k)
  <2>1. OwnIds(k)
    BY <1>1, <1>2 DEF Quiet
  <2> QED
    BY <1>2, <2>1, OwnKept DEF Quiet
<1>3. CASE SentByAnother(k)
  <2>1. OwnIds(k)
    BY <1>1, <1>3 DEF SentByAnother
  <2>2. PICK from, q : from # k /\ Send(from, q) /\ \A j \in Nat : q.client # FlattenId(k, j)
    BY <1>3 DEF SentByAnother
  <2> QED
    BY <1>3, <2>1, <2>2, OwnKeptOnSend DEF SentByAnother
<1>4. ASSUME NEW m \in wire, Deliver(m) PROVE OwnIds(k)'
  <2>1. kill'[k].stage = kill[k].stage /\ kill'[k].failed = kill[k].failed
    BY <1>0, <1>4, DeliverRows
  <2> QED
    BY <1>1, <1>4, <2>1, OwnKeptOnDelivery
<1>5. ASSUME NEW m \in wire, Refuse(m) PROVE OwnIds(k)'
  <2>1. kill' = kill /\ account' = account /\ wire' \subseteq wire
    BY <1>5 DEF Refuse
  <2>2. OwnIds(k) /\ RequestsStay
    BY <1>1, <2>1 DEF RequestsStay
  <2> QED
    BY <2>1, <2>2, OwnKept
<1>6. ASSUME NEW i \in OpenOrders(account), RestingFills(i) PROVE OwnIds(k)'
  <2>1. kill' = kill /\ wire' = wire
    BY <1>6 DEF RestingFills
  <2>2. OwnIds(k) /\ RequestsStay
    BY <1>0, <1>1, <1>6, <2>1, RestingFill
  <2> QED
    BY <2>1, <2>2, OwnKept
<1>7. ASSUME RequestsStay, OwnIds(k), wire' = wire, kill'[k].index = kill[k].index, \A m \in wire : m.from # k
      PROVE  OwnIds(k)'
  <2>1. \A j : FlattenId(k, j)' = FlattenId(k, j)
    BY DEF FlattenId
  <2> QED
    BY <1>7, <2>1 DEF OwnIds, RequestsStay
<1>8. CASE KillCancel(k)
  <2>1. kill[k].stage = "idle" /\ wire' = wire
    BY <1>8 DEF KillCancel
  <2>2. /\ kill'[k].index = kill[k].index /\ ~kill[k].failed
        /\ \E S : account' = Cancel(account, S)
    BY <1>0, <1>8, CancelRow
  <2>3. OwnIds(k) /\ RequestsStay
    BY <1>0, <1>1, <2>1, <2>2, Cancellation
  <2>4. \A m \in wire : m.from # k
    BY <2>1, <2>3 DEF OwnIds, Awaited
  <2> QED
    BY <1>7, <2>1, <2>2, <2>3, <2>4
<1>9. CASE KillRead(k)
  <2>1. kill[k].stage = "read" /\ wire' = wire /\ account' = account
    BY <1>9 DEF KillRead
  <2>2. kill'[k].index = kill[k].index /\ ~kill[k].failed
    BY <1>0, <1>9, ReadRow
  <2>3. OwnIds(k) /\ RequestsStay
    BY <1>1, <2>1, <2>2 DEF RequestsStay
  <2>4. \A m \in wire : m.from # k
    BY <2>1, <2>3 DEF OwnIds, Awaited
  <2> QED
    BY <1>7, <2>1, <2>2, <2>3, <2>4
<1>10. CASE KillClose(k)
  <2>1. kill[k].stage = "close" /\ ~kill[k].failed
    BY <1>0, <1>10, CloseRow
  <2> QED
    BY <1>1, <1>10, <2>1, OwnOnClose
<1>11. CASE KillAnswered(k)
  <2>1. wire' = wire /\ account' = account
    BY <1>11 DEF KillAnswered
  <2>2. /\ kill[k].stage = "wait" /\ kill'[k].index = kill[k].index /\ ~kill[k].failed
        /\ [n |-> kill[k].n, reply |-> "order"] \in answers
    BY <1>0, <1>11, AnsweredRow
  <2>3. OwnIds(k) /\ RequestsStay
    BY <1>1, <2>1, <2>2 DEF RequestsStay
  <2>4. \A m \in wire : ~Awaited(k, m)
    <3>1. PICK a \in answers : a = [n |-> kill[k].n, reply |-> "order"]
      BY <2>2
    <3>2. a.n = kill[k].n
      BY <3>1
    <3> QED
      BY <1>0, <3>2 DEF Numbered, Awaited
  <2>5. \A m \in wire : m.from # k
    BY <2>3, <2>4 DEF OwnIds
  <2> QED
    BY <1>7, <2>1, <2>2, <2>3, <2>5
<1>12. CASE KillCommit(k)
  BY <1>0, <1>12, CommitRow
<1> QED
  BY <1>2, <1>3, <1>4, <1>5, <1>6, <1>8, <1>9, <1>10, <1>11, <1>12, SeenByKill DEF KillSteps

LEMMA OwnStep == Base /\ OwnInv /\ [Next]_vars => OwnInv'
<1> SUFFICES ASSUME Base, OwnInv, [Next]_vars, NEW k \in Kills PROVE OwnNumber(k)' /\ OwnsIds(k)'
  BY DEF OwnInv
<1>1. OwnNumber(k) /\ OwnsIds(k)
  BY DEF OwnInv
<1> QED
  BY <1>1, NumberStep, OwnIdsStep

LEMMA OwnInit == Init => OwnInv
<1> SUFFICES ASSUME Init, NEW k \in Kills PROVE OwnNumber(k) /\ OwnsIds(k)
  BY DEF OwnInv
<1>1. wire = {} /\ sends = 0 /\ kill[k].n = 0 /\ account.orders = <<>>
  BY DEF Init, KillIdle, NewAccount
<1> QED
  BY <1>1 DEF OwnNumber, OwnsIds, OwnIds
\* Sizes stay large enough while the positions are the same or gone.
LEMMA InFullStays ==
  ASSUME Base, NEW k \in Kills, InFull(k), kill'[k].todo = kill[k].todo, account'.mode = account.mode,
         \A key \in Keys : account'.books[key].qty \in {0, account.books[key].qty},
         \A m \in wire' : m.from = k => m \in wire
  PROVE  InFull(k)'
<1>1. /\ kill[k].todo \in Seq(Book) /\ account.mode \in Modes /\ account.books \in [Keys -> Book]
      /\ \A m \in wire : m.request \in Requests
  BY TypesNow DEF Base, Rows, KillRow, Account, Wires
<1>2. ASSUME NEW i \in DOMAIN kill'[k].todo
      PROVE  account'.books[PositionKey(account'.mode, kill'[k].todo[i].side)].qty <= kill'[k].todo[i].qty
  <2>1. i \in DOMAIN kill[k].todo
    BY <1>2
  <2>2. PICK position \in Book : position = kill[k].todo[i]
    BY <1>1, <2>1
  <2>3. PICK key \in Keys : key = PositionKey(account.mode, position.side)
    BY <1>1 DEF PositionKey, Keys, Book
  <2>4. account.books[key].qty <= position.qty
    BY <2>1, <2>2, <2>3 DEF InFull, KeyOf
  <2>5. position.qty \in Nat
    BY DEF Book
  <2>6. account'.books[key].qty <= position.qty
    BY <2>4, <2>5
  <2> QED
    BY <2>2, <2>3, <2>6
<1>3. ASSUME NEW m \in wire', m.from = k
      PROVE  account'.books[TargetKey(account'.mode, m.request)].qty <= m.request.qty
  <2>1. m \in wire /\ m.request \in Requests
    BY <1>1, <1>3
  <2>2. PICK key \in Keys : key = TargetKey(account.mode, m.request)
    BY <1>1, <2>1, TargetIsAKey
  <2>3. m.request.qty \in Nat /\ account.books[key].qty <= m.request.qty
    BY <1>1, <1>3, <2>1, <2>2, TargetIsAKey DEF InFull
  <2> QED
    BY <2>2, <2>3
<1> QED
  BY <1>2, <1>3 DEF InFull, KeyOf

\* What is on its way to be closed stays so while the kill's row, the books and
\* the requests it waits for are the same.
LEMMA WayKept ==
  ASSUME Base, NEW k \in Kills, OnItsWay(k), account'.mode = account.mode,
         kill'[k].stage = kill[k].stage, kill'[k].n = kill[k].n, kill'[k].todo = kill[k].todo,
         account'.books = account.books, OpenOrders(account') \subseteq OpenOrders(account),
         Lost(k) => [n |-> kill[k].n, reply |-> "order"] \notin answers',
         \A m \in wire : Awaited(k, m) => m \in wire' \/ Lost(k)',
         \A m \in wire' : m.from = k \/ Awaited(k, m) => m \in wire
  PROVE  OnItsWay(k)'
<1>1. \A m : Awaited(k, m)' <=> Awaited(k, m)
  BY DEF Awaited
<1>2. \A key : ToClose(k, key)' <=> ToClose(k, key)
  BY DEF ToClose
<1>3. \A key : OnTheWire(k, key) => OnTheWire(k, key)' \/ Lost(k)'
  BY <1>1 DEF OnTheWire
<1>4. Lost(k) => Lost(k)'
  BY <1>1 DEF Lost
<1>5. OpenOrders(account)' = {}
  BY DEF OnItsWay
<1>6. Accounted(k) => Accounted(k)'
  BY <1>2, <1>3, <1>4 DEF Accounted
<1>7. InFull(k) => InFull(k)'
  BY InFullStays
<1> QED
  BY <1>5, <1>6, <1>7 DEF OnItsWay

\* A close that is taken closes all of what it was to close.
LEMMA WayOnClosing ==
  ASSUME Base, NEW k \in Kills, OwnIds(k), OnItsWay(k), NEW m \in wire, Deliver(m), m.from = k
  PROVE  OnItsWay(k)'
<1>0. TypeOK /\ Numbered
  BY DEF Base
<1>1. /\ kill'[k].stage = kill[k].stage /\ kill'[k].n = kill[k].n /\ kill'[k].todo = kill[k].todo
      /\ wire' = wire \ {m}
  BY <1>0, DeliverRows DEF Deliver
<1>2. Awaited(k, m) /\ m.request.reduceOnly /\ m.request.type = "MARKET" /\ ~Known(account, m.request.client)
  BY DEF OwnIds
<1>3. PICK status \in {"NEW", "FILLED", "REJECTED"} : Taken(m, status)
  BY <1>0, <1>2, Delivery
<1>4. m.request \in Requests /\ account'.mode = account.mode
  BY <1>0, Delivery
<1>5. account.books \in [Keys -> Book] /\ account.mode \in Modes
  BY <1>0, TypesNow DEF Account
<1>6. PICK target \in Keys : target = TargetKey(account.mode, m.request)
  BY <1>4, <1>5, TargetIsAKey
<1>7. account.books[target].qty <= m.request.qty /\ kill[k].stage = "wait" /\ Accounted(k) /\ InFull(k)
  BY <1>2, <1>6 DEF OnItsWay, Awaited, InFull
<1>8. status # "NEW"
  BY <1>2, <1>3 DEF Taken
<1>9. /\ account'.books[target].qty = 0
      /\ \A key \in Keys : key # target => account'.books[key] = account.books[key]
  <2>1. account.books[target].qty \in Nat
    BY <1>5 DEF Book
  <2>2. Closing(m.request)
    BY <1>2 DEF Closing
  <2>3. CASE status = "FILLED"
    <3>1. account'.books = Apply(account.books, account.mode, target, m.request)
      BY <1>3, <1>6, <2>3 DEF Taken
    <3>2. account.books[target].qty # 0
      BY <1>3, <1>6, <2>2, <2>3 DEF Taken
    <3>3. PICK after : after = Apply(account.books, account.mode, target, m.request)
      OBVIOUS
    <3>4. account.books[target].qty > 0 /\ m.request.qty >= account.books[target].qty /\ m.request.qty \in Nat
      BY <1>4, <1>5, <1>7, <2>1, <3>2, TargetIsAKey
    <3>5. /\ \A key \in Keys : key # target => after[key] = account.books[key]
          /\ after[target].qty = 0
      BY <1>2, <1>4, <1>5, <3>3, <3>4, Filling
    <3> QED
      BY <3>1, <3>3, <3>5
  <2>4. CASE status # "FILLED"
    <3>1. account'.books = account.books
      BY <1>3, <2>4 DEF Taken
    <3>2. account.books[target].qty = 0
      BY <1>2, <1>3, <1>6, <2>2, <2>4 DEF Taken
    <3> QED
      BY <3>1, <3>2
  <2> QED
    BY <2>3, <2>4
<1>10. OpenOrders(account)' = {}
  <2>1. OpenOrders(account)' = OpenOrders(account)
    BY <1>0, <1>3, <1>8, TakenOrders
  <2> QED
    BY <2>1 DEF OnItsWay
<1>11. \A o \in wire : Awaited(k, o) => o = m
  BY <1>0, <1>2 DEF Awaited, Numbered
<1>12. \A o \in wire' : o.from = k => o \in wire
  BY <1>1
<1>13. ASSUME NEW key \in Keys, account'.books[key].qty > 0 PROVE ToClose(k, key)'
  <2>1. key # target
    BY <1>9, <1>13
  <2>2. account'.books[key] = account.books[key]
    BY <1>9, <2>1
  <2>3. ~Lost(k)
    BY <1>2 DEF Lost
  <2>4. ~OnTheWire(k, key)
    BY <1>6, <1>11, <2>1 DEF OnTheWire
  <2>5. ToClose(k, key)
    BY <1>7, <1>13, <2>2, <2>3, <2>4 DEF Accounted
  <2> QED
    BY <1>1, <2>2, <2>5 DEF ToClose
<1>14. \A key \in Keys : account'.books[key].qty \in {0, account.books[key].qty}
  BY <1>9
<1>15. InFull(k)'
  BY <1>1, <1>4, <1>7, <1>12, <1>14, InFullStays
<1>16. Accounted(k)'
  BY <1>13 DEF Accounted
<1> QED
  BY <1>10, <1>15, <1>16 DEF OnItsWay

\* A delivery that is not the kill's own and leaves the account alone.
LEMMA WayOnKnown ==
  ASSUME Base, NEW k \in Kills, OwnNumber(k), OnItsWay(k), NEW m \in wire, Deliver(m), m.from # k, account' = account
  PROVE  OnItsWay(k)'
<1>0. TypeOK /\ Numbered
  BY DEF Base
<1>1. /\ kill'[k].stage = kill[k].stage /\ kill'[k].n = kill[k].n /\ kill'[k].todo = kill[k].todo
      /\ wire' = wire \ {m}
  BY <1>0, DeliverRows DEF Deliver
<1>2. ~Awaited(k, m)
  BY DEF OwnNumber
<1>3. ASSUME Lost(k) PROVE [n |-> kill[k].n, reply |-> "order"] \notin answers'
  <2>1. kill[k].stage = "wait" /\ [n |-> kill[k].n, reply |-> "order"] \notin answers
    BY <1>3 DEF Lost
  <2>2. m.n # kill[k].n
    BY <1>2, <2>1 DEF Awaited
  <2>3. PICK new, mine : new = [n |-> m.n, reply |-> "order"] /\ mine = [n |-> kill[k].n, reply |-> "order"]
    OBVIOUS
  <2>4. new.n = m.n /\ mine.n = kill[k].n /\ answers' \subseteq answers \cup {new}
    BY <2>3 DEF Deliver
  <2> QED
    BY <2>1, <2>2, <2>3, <2>4
<1>4. \A o \in wire : Awaited(k, o) => o \in wire'
  BY <1>1, <1>2
<1>5. \A o \in wire' : o \in wire
  BY <1>1
<1> QED
  BY <1>1, <1>3, <1>4, <1>5, WayKept

\* A request that is refused or gets lost will not be answered as closed.
LEMMA WayOnRefusal ==
  ASSUME Base, NEW k \in Kills, OnItsWay(k), NEW m \in wire, Refuse(m)
  PROVE  OnItsWay(k)'
<1>0. TypeOK /\ Numbered
  BY DEF Base
<1>1. kill' = kill /\ wire' = wire \ {m} /\ account' = account
  BY DEF Refuse
<1>2. PICK new, mine : new = [n |-> m.n, reply |-> "retryable"] /\ mine = [n |-> kill[k].n, reply |-> "order"]
  OBVIOUS
<1>3. answers' \subseteq answers \cup {new} /\ new.reply = "retryable" /\ mine.reply = "order" /\ mine.n = kill[k].n
  BY <1>2 DEF Refuse
<1>4. mine \notin answers => mine \notin answers'
  BY <1>3
<1>5. \A o : Awaited(k, o)' <=> Awaited(k, o)
  BY <1>1 DEF Awaited
<1>6. ASSUME Awaited(k, m) PROVE Lost(k)'
  <2>1. kill[k].stage = "wait" /\ m.n = kill[k].n
    BY <1>6 DEF Awaited
  <2>2. mine \notin answers
    BY <1>0, <1>3, <2>1 DEF Numbered
  <2>3. \A o \in wire' : ~Awaited(k, o)
    BY <1>0, <1>1, <2>1 DEF Numbered, Awaited
  <2> QED
    BY <1>1, <1>2, <1>4, <1>5, <2>1, <2>2, <2>3 DEF Lost
<1>7. Lost(k) => mine \notin answers'
  BY <1>2, <1>4 DEF Lost
<1>8. \A o \in wire : Awaited(k, o) => o \in wire' \/ Lost(k)'
  BY <1>1, <1>6
<1>9. \A o \in wire' : o \in wire
  BY <1>1
<1> QED
  BY <1>1, <1>2, <1>7, <1>8, <1>9, WayKept
\* What was read is to be closed, each position under its own key.
LEMMA WayOnRead ==
  ASSUME Base, NEW k \in Kills, OwnIds(k), OnItsWay(k), KillRead(k), ~kill'[k].failed,
         PlacedIn(account.mode, account.books)
  PROVE  /\ OnItsWay(k)' /\ account' = account
         /\ kill'[k].stage = "finished" => \A key \in Keys : account.books[key].qty = 0
<1>0. TypeOK
  BY DEF Base
<1>1. account' = account /\ wire' = wire /\ kill[k].stage = "read"
  BY DEF KillRead
<1>2. /\ kill'[k].stage = "finished" => kill'[k].todo = <<>>
      /\ \A key \in Keys : account.books[key].qty > 0 =>
           \E i \in DOMAIN kill'[k].todo : account.books[key] = kill'[k].todo[i]
      /\ \A i \in DOMAIN kill'[k].todo :
           \E key \in Keys : account.books[key].qty > 0 /\ account.books[key] = kill'[k].todo[i]
  BY <1>0, ReadRow
<1>3. account.books \in [Keys -> Book]
  BY <1>0, TypesNow DEF Account
<1>4. \A m \in wire' : m.from # k
  BY <1>1 DEF OwnIds, Awaited
<1>5. OpenOrders(account)' = {}
  BY <1>1 DEF OnItsWay, OpenOrders
<1>6. Accounted(k)'
  BY <1>1, <1>2 DEF Accounted, ToClose
<1>7. ASSUME NEW i \in DOMAIN kill'[k].todo
      PROVE  account'.books[PositionKey(account'.mode, kill'[k].todo[i].side)].qty <= kill'[k].todo[i].qty
  <2>1. PICK key \in Keys : account.books[key].qty > 0 /\ account.books[key] = kill'[k].todo[i]
    BY <1>2
  <2>2. key = PositionKey(account.mode, account.books[key].side)
    BY <2>1 DEF PlacedIn
  <2>3. account.books[key].qty \in Nat
    BY <1>3 DEF Book
  <2> QED
    BY <1>1, <2>1, <2>2, <2>3
<1>8. InFull(k)'
  BY <1>4, <1>7 DEF InFull, KeyOf
<1>9. ASSUME kill'[k].stage = "finished", NEW key \in Keys PROVE account.books[key].qty = 0
  <2>1. DOMAIN kill'[k].todo = {}
    BY <1>2, <1>9
  <2>2. ~(account.books[key].qty > 0)
    BY <1>2, <2>1
  <2>3. account.books[key].qty \in Nat
    BY <1>3 DEF Book
  <2> QED
    BY <2>2, <2>3
<1> QED
  BY <1>1, <1>5, <1>6, <1>8, <1>9 DEF OnItsWay

\* The first of the positions to close goes on the wire.
LEMMA WayOnClose ==
  ASSUME Base, NEW k \in Kills, OwnIds(k), OnItsWay(k), KillClose(k),
         PlacedIn(account.mode, account.books)
  PROVE  OnItsWay(k)'
<1>0. TypeOK /\ Stages
  BY DEF Base
<1>1. /\ kill'[k].stage = "wait" /\ kill'[k].todo = Tail(kill[k].todo) /\ kill'[k].n = sends + 1
      /\ kill[k].stage = "close" /\ kill[k].todo # <<>>
  BY <1>0, CloseRow
<1>2. PICK todo \in Seq(Book) : todo = kill[k].todo
  BY <1>0, TypesNow DEF Rows, KillRow
<1>3. /\ todo # <<>> /\ Head(todo) = todo[1] /\ 1 \in DOMAIN todo /\ Head(todo) \in Book
      /\ DOMAIN Tail(todo) = 1..Len(todo) - 1 /\ Len(todo) \in Nat /\ DOMAIN todo = 1..Len(todo)
      /\ \A i \in DOMAIN Tail(todo) : i + 1 \in DOMAIN todo /\ Tail(todo)[i] = todo[i + 1]
  BY <1>1, <1>2
<1>4. PICK head \in Book : head = todo[1]
  BY <1>3
<1>5. PICK q \in Requests :
        /\ Send(k, q) /\ SidesFollow(q) /\ q.reduceOnly /\ q.qty = head.qty /\ q.side = Opposite(head.side)
  BY <1>2, <1>3, <1>4, ClosingFirst
<1>6. PICK new : new.n = sends + 1 /\ new.from = k /\ new.request = q /\ wire' = wire \cup {new}
  BY <1>5, NewNumber
<1>7. account' = account
  BY DEF KillClose
<1>8. account.books \in [Keys -> Book] /\ account.mode \in {"ONE_WAY", "HEDGE"}
  BY <1>0, TypesNow DEF Account, Modes
<1>9. TargetKey(account.mode, q) = PositionKey(account.mode, head.side)
  <2>1. Opposite(Opposite(head.side)) = head.side
    BY DEF Book, Sides, Opposite
  <2> QED
    BY <1>0, <1>5, <1>8, <2>1, WhereItLands DEF PositionKey
<1>10. \A m \in wire : m.from # k
  BY <1>1 DEF OwnIds, Awaited
<1>11. Accounted(k) /\ InFull(k) /\ OpenOrders(account)' = {}
  BY <1>1, <1>7 DEF OnItsWay, OpenOrders
<1>12. Awaited(k, new)'
  BY <1>1, <1>6 DEF Awaited
<1>13. ASSUME NEW key \in Keys, account'.books[key].qty > 0 PROVE ToClose(k, key)' \/ OnTheWire(k, key)'
  <2>1. ToClose(k, key)
    BY <1>1, <1>7, <1>11, <1>13 DEF Accounted, OnTheWire, Awaited, Lost
  <2>2. PICK i \in DOMAIN todo : account.books[key] = todo[i]
    BY <1>2, <2>1 DEF ToClose
  <2>3. CASE i = 1
    <3>1. key = PositionKey(account.mode, head.side)
      BY <1>4, <1>7, <1>13, <2>2, <2>3 DEF PlacedIn
    <3> QED
      BY <1>6, <1>7, <1>9, <1>12, <3>1 DEF OnTheWire
  <2>4. CASE i # 1
    <3>1. PICK j \in Nat : i = j + 1 /\ j \in DOMAIN Tail(todo)
      <4>1. i \in 1..Len(todo) /\ i - 1 \in 1..Len(todo) - 1
        BY <1>3, <2>4
      <4>2. i - 1 \in Nat /\ i = (i - 1) + 1
        BY <4>1
      <4> QED
        BY <1>3, <4>1, <4>2
    <3>2. Tail(todo)[j] = account.books[key]
      BY <1>3, <2>2, <3>1
    <3> QED
      BY <1>1, <1>2, <1>7, <3>1, <3>2 DEF ToClose
  <2> QED
    BY <2>3, <2>4
<1>14. ASSUME NEW i \in DOMAIN kill'[k].todo
       PROVE  account'.books[PositionKey(account'.mode, kill'[k].todo[i].side)].qty <= kill'[k].todo[i].qty
  <2>1. i + 1 \in DOMAIN todo /\ kill'[k].todo[i] = todo[i + 1]
    BY <1>1, <1>2, <1>3, <1>14
  <2>2. account.books[KeyOf(todo[i + 1])].qty <= todo[i + 1].qty
    BY <1>2, <1>11, <2>1 DEF InFull
  <2> QED
    BY <1>7, <2>1, <2>2 DEF KeyOf
<1>15. ASSUME NEW m \in wire', m.from = k
       PROVE  account'.books[TargetKey(account'.mode, m.request)].qty <= m.request.qty
  <2>1. m = new
    BY <1>6, <1>10, <1>15
  <2>2. account.books[KeyOf(head)].qty <= head.qty
    BY <1>2, <1>3, <1>4, <1>11 DEF InFull
  <2> QED
    BY <1>5, <1>6, <1>7, <1>9, <2>1, <2>2 DEF KeyOf
<1>16. InFull(k)'
  BY <1>14, <1>15 DEF InFull, KeyOf
<1>17. Accounted(k)'
  BY <1>13 DEF Accounted
<1> QED
  BY <1>11, <1>16, <1>17 DEF OnItsWay

\* An order that came back is on its way no more, and what it closed is closed.
LEMMA WayOnAnswer ==
  ASSUME Base, NEW k \in Kills, OnItsWay(k), KillAnswered(k), ~kill'[k].failed
  PROVE  /\ OnItsWay(k)' /\ account' = account
         /\ kill'[k].stage = "finished" => \A key \in Keys : account.books[key].qty = 0
<1>0. TypeOK /\ Numbered
  BY DEF Base
<1>1. account' = account /\ wire' = wire
  BY DEF KillAnswered
<1>2. /\ kill[k].stage = "wait" /\ kill'[k].todo = kill[k].todo
      /\ kill'[k].stage = "finished" => kill'[k].todo = <<>>
      /\ [n |-> kill[k].n, reply |-> "order"] \in answers
  BY <1>0, AnsweredRow
<1>3. account.books \in [Keys -> Book]
  BY <1>0, TypesNow DEF Account
<1>4. ~Lost(k) /\ \A key : ~OnTheWire(k, key)
  <2>1. PICK a \in answers : a = [n |-> kill[k].n, reply |-> "order"]
    BY <1>2
  <2>2. a.n = kill[k].n
    BY <2>1
  <2> QED
    BY <1>0, <1>2, <2>2 DEF Numbered, Awaited, Lost, OnTheWire
<1>5. Accounted(k) /\ InFull(k) /\ OpenOrders(account)' = {}
  BY <1>1, <1>2 DEF OnItsWay, OpenOrders
<1>6. \A key \in Keys : account.books[key].qty > 0 => ToClose(k, key)
  BY <1>4, <1>5 DEF Accounted
<1>7. Accounted(k)'
  BY <1>1, <1>2, <1>6 DEF Accounted, ToClose
<1>8. InFull(k)'
  BY <1>1, <1>2, <1>5, InFullStays
<1>9. ASSUME kill'[k].stage = "finished", NEW key \in Keys PROVE account.books[key].qty = 0
  <2>1. DOMAIN kill[k].todo = {}
    BY <1>2, <1>9
  <2>2. ~(account.books[key].qty > 0)
    BY <1>6, <2>1 DEF ToClose
  <2>3. account.books[key].qty \in Nat
    BY <1>3 DEF Book
  <2> QED
    BY <2>2, <2>3
<1> QED
  BY <1>1, <1>5, <1>7, <1>8, <1>9 DEF OnItsWay

LEMMA WayStep ==
  ASSUME Base, PlaceInv, OwnInv, WayInv, [Next]_vars
  PROVE  WayInv'
<1> SUFFICES ASSUME ~stray', NEW k \in Kills, Undisturbed(k)' PROVE OnItsWay(k)'
  BY DEF WayInv
<1>0. TypeOK /\ Stages /\ Numbered
  BY DEF Base
<1>1. ~stray /\ PlacedIn(account.mode, account.books) /\ OwnNumber(k) /\ OwnsIds(k)
      /\ (Undisturbed(k) => OnItsWay(k))
  BY HistoryGrows DEF PlaceInv, OwnInv, WayInv
<1>2. kill'[k].stage \in {"read", "close", "wait"} /\ kill'[k].alone /\ ~kill'[k].failed /\ Alone(k)
  BY DEF Undisturbed, Alone
<1>3. ASSUME kill[k].stage \in {"read", "close", "wait"}, kill[k].alone, ~kill[k].failed
      PROVE  OnItsWay(k) /\ OwnIds(k)
  BY <1>1, <1>2, <1>3 DEF Undisturbed, OwnsIds
<1>4. CASE Quiet(k)
  <2>1. OnItsWay(k) /\ kill'[k] = kill[k] /\ wire' = wire
    BY <1>2, <1>3, <1>4 DEF Quiet
  <2>2. /\ account'.mode = account.mode /\ account'.books = account.books
        /\ OpenOrders(account') \subseteq OpenOrders(account)
    BY <1>4 DEF Quiet, RequestsStay
  <2>3. Lost(k) => [n |-> kill[k].n, reply |-> "order"] \notin answers'
    BY <1>4 DEF Lost, Quiet
  <2> QED
    BY <2>1, <2>2, <2>3, WayKept
<1>5. CASE SentByAnother(k)
  <2>1. OnItsWay(k) /\ kill'[k] = kill[k] /\ account' = account /\ answers' = answers
    BY <1>2, <1>3, <1>5 DEF SentByAnother
  <2>2. PICK from, q : from # k /\ Send(from, q)
    BY <1>5 DEF SentByAnother
  <2>3. PICK new : new.n = sends + 1 /\ new.from = from /\ wire' = wire \cup {new}
    BY <2>2, NewNumber
  <2>4. sends \in Nat /\ kill[k].n \in Nat /\ kill[k].n <= sends
    BY <1>1, <2>2, NewNumber DEF OwnNumber
  <2>5. new.n # kill[k].n
    BY <2>3, <2>4
  <2>6. \A m \in wire' : m.from = k \/ Awaited(k, m) => m \in wire
    BY <2>2, <2>3, <2>5 DEF Awaited
  <2>7. Lost(k) => [n |-> kill[k].n, reply |-> "order"] \notin answers'
    BY <2>1 DEF Lost
  <2>8. \A m \in wire : m \in wire'
    BY <2>3
  <2> QED
    BY <2>1, <2>6, <2>7, <2>8, WayKept
<1>6. ASSUME NEW m \in wire, Deliver(m) PROVE OnItsWay(k)'
  <2>1. /\ kill[k].stage \in {"read", "close", "wait"} /\ kill[k].alone /\ ~kill[k].failed
        /\ m.from = k \/ account' = account
    BY <1>0, <1>2, <1>6, DeliverRows
  <2>2. OnItsWay(k) /\ OwnIds(k)
    BY <1>3, <2>1
  <2>3. CASE m.from = k
    BY <1>6, <2>2, <2>3, WayOnClosing
  <2>4. CASE m.from # k
    BY <1>1, <1>6, <2>1, <2>2, <2>4, WayOnKnown
  <2> QED
    BY <2>3, <2>4
<1>7. ASSUME NEW m \in wire, Refuse(m) PROVE OnItsWay(k)'
  <2>1. kill' = kill
    BY <1>7 DEF Refuse
  <2> QED
    BY <1>2, <1>3, <1>7, <2>1, WayOnRefusal
<1>8. ASSUME NEW i \in OpenOrders(account), RestingFills(i) PROVE OnItsWay(k)'
  <2>1. kill' = kill
    BY <1>8 DEF RestingFills
  <2>2. OpenOrders(account) = {}
    BY <1>2, <1>3, <2>1 DEF OnItsWay
  <2> QED
    BY <2>2
<1>9. CASE KillCancel(k)
  <2>1. /\ kill'[k].stage = "read"
        /\ \E S : account' = Cancel(account, S) /\ S = OpenOrders(account)
    BY <1>0, <1>2, <1>9, CancelRow
  <2>2. OpenOrders(account') = OpenOrders(account) \ OpenOrders(account)
    BY <1>0, <2>1, Cancellation
  <2> QED
    BY <2>1, <2>2 DEF OnItsWay
<1>10. CASE KillRead(k)
  <2>1. kill[k].stage = "read" /\ kill[k].alone /\ ~kill[k].failed
    BY <1>0, <1>2, <1>10, ReadRow DEF KillRead
  <2> QED
    BY <1>1, <1>2, <1>3, <1>10, <2>1, WayOnRead
<1>11. CASE KillClose(k)
  <2>1. kill[k].stage = "close" /\ kill[k].alone /\ ~kill[k].failed
    BY <1>0, <1>2, <1>11, CloseRow
  <2> QED
    BY <1>1, <1>3, <1>11, <2>1, WayOnClose
<1>12. CASE KillAnswered(k)
  <2>1. kill[k].stage = "wait" /\ kill[k].alone /\ ~kill[k].failed
    BY <1>0, <1>2, <1>12, AnsweredRow
  <2> QED
    BY <1>2, <1>3, <1>12, <2>1, WayOnAnswer
<1>13. CASE KillCommit(k)
  BY <1>0, <1>2, <1>13, CommitRow
<1> QED
  BY <1>4, <1>5, <1>6, <1>7, <1>8, <1>9, <1>10, <1>11, <1>12, <1>13, SeenByKill DEF KillSteps

LEMMA WayInit == Init => WayInv
<1> SUFFICES ASSUME Init, NEW k \in Kills PROVE ~Undisturbed(k)
  BY DEF WayInv
<1>1. kill[k].stage = "idle"
  BY DEF Init, KillIdle
<1> QED
  BY <1>1 DEF Undisturbed

LEMMA CleanStep ==
  ASSUME Base, PlaceInv, OwnInv, WayInv, [Next]_vars, NEW k \in Kills, ReportsClean(k), ~stray,
         \A o \in Kills \ {k} : KillSecond[o] # KillSecond[k]
  PROVE  Held(account') = 0 /\ OpenOrders(account') = {}
<1>0. TypeOK /\ Stages
  BY DEF Base
<1>1. /\ kill[k].stage # "finished" /\ kill'[k].stage = "finished" /\ ~kill'[k].failed /\ kill'[k].alone
      /\ Alone(k)
  BY DEF ReportsClean, Alone
<1>2. ASSUME kill[k].stage \in {"read", "wait"}, kill[k].alone, ~kill[k].failed
      PROVE  OnItsWay(k) /\ OwnIds(k) /\ PlacedIn(account.mode, account.books)
  BY <1>1, <1>2 DEF Undisturbed, OwnsIds, OwnInv, WayInv, PlaceInv
<1>3. ASSUME account' = account, OnItsWay(k), \A key \in Keys : account.books[key].qty = 0
      PROVE  Held(account') = 0 /\ OpenOrders(account') = {}
  BY <1>3, KeysAre DEF Held, OnItsWay
<1>4. CASE KillRead(k)
  <2>1. kill[k].stage = "read" /\ kill[k].alone /\ ~kill[k].failed
    BY <1>0, <1>1, <1>4, ReadRow DEF KillRead
  <2>2. account' = account /\ \A key \in Keys : account.books[key].qty = 0
    BY <1>1, <1>2, <1>4, <2>1, WayOnRead
  <2> QED
    BY <1>2, <1>3, <2>1, <2>2
<1>5. CASE KillAnswered(k)
  <2>1. kill[k].stage = "wait" /\ kill[k].alone /\ ~kill[k].failed
    BY <1>0, <1>1, <1>5, AnsweredRow
  <2>2. account' = account /\ \A key \in Keys : account.books[key].qty = 0
    BY <1>1, <1>2, <1>5, <2>1, WayOnAnswer
  <2> QED
    BY <1>2, <1>3, <2>1, <2>2
<1>6. ~Quiet(k) /\ ~SentByAnother(k) /\ \A m \in wire : ~Deliver(m) /\ ~Refuse(m)
  <2>1. \A m \in wire : Deliver(m) => kill'[k].stage = kill[k].stage
    BY <1>0, DeliverRows
  <2>2. \A m \in wire : Refuse(m) => kill' = kill
    BY DEF Refuse
  <2> QED
    BY <1>1, <2>1, <2>2 DEF Quiet, SentByAnother
<1>7. \A i \in OpenOrders(account) : ~RestingFills(i)
  BY <1>1 DEF RestingFills
<1>8. ~KillCancel(k) /\ ~KillClose(k) /\ ~KillCommit(k)
  BY <1>0, <1>1, CancelRow, CloseRow, CommitRow
<1> QED
  BY <1>4, <1>5, <1>6, <1>7, <1>8, SeenByKill DEF KillSteps

\* A kill switch that reports no failure leaves the account flat and with nothing
\* resting, in either mode and however late its closes arrive or how often they are
\* lost, unless another order reached the venue after it cancelled, a resting close
\* opened a position, or another kill named its closes in the same second.
THEOREM CleanKillsLeaveNothing == Spec => CleanKillIsFlat
<1>1. Init => Base /\ PlaceInv /\ OwnInv /\ WayInv
  BY BaseInit, PlaceInit, OwnInit, WayInit
<1>2. Base /\ PlaceInv /\ OwnInv /\ WayInv /\ [Next]_vars => (Base /\ PlaceInv /\ OwnInv /\ WayInv)'
  BY BaseStep, PlaceStep, OwnStep, WayStep
<1>3. ASSUME Base, PlaceInv, OwnInv, WayInv, [Next]_vars
      PROVE  [\A k \in Kills :
                ReportsClean(k) /\ ~stray /\ (\A o \in Kills \ {k} : KillSecond[o] # KillSecond[k])
                  => Held(account') = 0 /\ OpenOrders(account') = {}]_vars
  BY <1>3, CleanStep
<1> QED
  BY <1>1, <1>2, <1>3, PTL DEF Spec, CleanKillIsFlat
=============================================================================
