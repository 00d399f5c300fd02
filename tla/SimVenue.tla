------------------------------ MODULE SimVenue ------------------------------
(***************************************************************************)
(* The simulated exchange, for one account and one symbol: what each call  *)
(* of the trading adapter does to the account.  Operators only; who calls  *)
(* them, and when, is BotExecution's.                                      *)
(*                                                                         *)
(* Prices, margin and profit are abstracted: whether a limit order crosses *)
(* the market, and whether the margin is enough, are arguments.  An        *)
(* account is [mode, books, orders].  A book is a position under its key,  *)
(* with quantity 0 when there is none; the orders are in the order of      *)
(* their arrival.                                                          *)
(***************************************************************************)
LOCAL INSTANCE Integers
LOCAL INSTANCE Sequences

Sides == {"BUY", "SELL"}
Modes == {"ONE_WAY", "HEDGE"}

Opposite(side) == IF side = "BUY" THEN "SELL" ELSE "BUY"

(* One book for the symbol in one-way mode, one per side in hedge mode.    *)
Keys == {"net"} \cup Sides
PositionKey(mode, side) == IF mode = "ONE_WAY" THEN "net" ELSE side

Flat == [side |-> "BUY", qty |-> 0]

NewAccount(mode) == [mode |-> mode, books |-> [k \in Keys |-> Flat], orders |-> <<>>]

OrderStatuses == {"NEW", "FILLED", "CANCELLED", "REJECTED"}

(* request: [client, side, qty, type, reduceOnly, tradeSide], of type      *)
(* MARKET or LIMIT, its trade side "none" in one-way mode.                 *)
Closing(request) == request.reduceOnly \/ request.tradeSide = "CLOSE"

(* A close in hedge mode acts on the book of the other side.               *)
TargetKey(mode, request) ==
  PositionKey(mode, IF mode = "HEDGE" /\ request.tradeSide = "CLOSE"
                      THEN Opposite(request.side) ELSE request.side)

-----------------------------------------------------------------------------
(* Fills.                                                                  *)

(* Mutant: an order larger than the position flips it, reduce-only or not. *)
ApplyFlipping(books, mode, key, request) ==
  LET held == books[key] IN
  IF held.qty = 0 \/ (held.side = request.side /\ ~Closing(request))
    THEN [books EXCEPT ![key] = [side |-> request.side, qty |-> held.qty + request.qty]]
  ELSE IF held.qty > request.qty THEN [books EXCEPT ![key].qty = held.qty - request.qty]
  ELSE [books EXCEPT ![key] = [side |-> request.side, qty |-> request.qty - held.qty]]

(* A fill opens a position, adds to it, reduces it, closes it, or closes   *)
(* it and opens the rest on the other side, unless it is reduce-only.      *)
Apply(books, mode, key, request) ==
  LET held == books[key]
      closed == IF held.qty < request.qty THEN held.qty ELSE request.qty
      rest == request.qty - closed
      emptied == [books EXCEPT ![key] = Flat]
      opens == held.qty = 0
      adds == held.side = request.side /\ ~Closing(request)
  IN
  IF opens \/ adds
    THEN [books EXCEPT ![key] = [side |-> request.side, qty |-> held.qty + request.qty]]
  ELSE IF held.qty > closed
    THEN [books EXCEPT ![key].qty = held.qty - closed]
  ELSE IF rest > 0 /\ ~request.reduceOnly
    THEN [emptied EXCEPT ![PositionKey(mode, request.side)] =
            [side |-> request.side, qty |-> rest]]
  ELSE emptied

-----------------------------------------------------------------------------
(* Orders.                                                                 *)

Record(account, request, status) ==
  [account EXCEPT !.orders = Append(@, [request |-> request, status |-> status])]

Known(account, client) ==
  \E i \in DOMAIN account.orders : account.orders[i].request.client = client

(* What becomes of a new order: it rests, is refused or fills at once.     *)
StatusOf(account, request, crosses, marginEnough) ==
  LET nothing == account.books[TargetKey(account.mode, request)].qty = 0 IN
  IF request.type = "LIMIT" /\ ~crosses                THEN "NEW"
  ELSE IF Closing(request) /\ nothing                  THEN "REJECTED"
  ELSE IF ~Closing(request) /\ ~marginEnough           THEN "REJECTED"
  ELSE "FILLED"

(* The account after a new order is recorded, filled or not.               *)
Accept(account, request, status) ==
  LET key == TargetKey(account.mode, request) IN
  Record([account EXCEPT !.books =
            IF status = "FILLED" THEN Apply(@, account.mode, key, request) ELSE @],
         request, status)

(* A client id that is known already returns its order and changes nothing. *)
PlaceOrder(account, request, crosses, marginEnough) ==
  IF Known(account, request.client) THEN account
  ELSE Accept(account, request, StatusOf(account, request, crosses, marginEnough))

OpenOrders(account) == {i \in DOMAIN account.orders : account.orders[i].status = "NEW"}

(* The open orders of S are cancelled.                                     *)
Cancel(account, S) ==
  [account EXCEPT !.orders =
    [i \in DOMAIN @ |-> IF i \in S \cap OpenOrders(account)
                          THEN [@[i] EXCEPT !.status = "CANCELLED"] ELSE @[i]]]

CancelAll(account) == Cancel(account, OpenOrders(account))

(* The market moves across resting order i: it fills in full, with no      *)
(* check of the margin, nor that there is a position to reduce.            *)
FillResting(account, i) ==
  LET request == account.orders[i].request
      key == TargetKey(account.mode, request) IN
  [account EXCEPT !.books = Apply(@, account.mode, key, request),
                  !.orders[i].status = "FILLED"]

(* The positions call: the books that hold something, as a list.           *)
Positions(account) ==
  LET there(k) == IF account.books[k].qty > 0 THEN <<k>> ELSE <<>>
  IN  there("net") \o there("BUY") \o there("SELL")

(* The quantity held over all books, and signed, as reconcile reads it     *)
(* from the books of one symbol.                                           *)
Held(account) == account.books["net"].qty + account.books["BUY"].qty + account.books["SELL"].qty
Signed(book) == IF book.side = "BUY" THEN book.qty ELSE -book.qty
=============================================================================
