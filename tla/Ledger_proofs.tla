---------------------------- MODULE Ledger_proofs ----------------------------
(***************************************************************************)
(* Proofs about the account ledger, for any brackets, prices, sizes, fees, *)
(* funding and transfers, and any number of operations.                    *)
(*                                                                         *)
(* That the books balance is not inductive: a trade must be the trade of a *)
(* position (Matched), or a fill would close a quantity it never opened,   *)
(* and the totals are related to the positions at their entries (Valued),  *)
(* since the mark moves without them.  Each action changes one side, for   *)
(* which OneSide says what must agree, settles funding on every side, or   *)
(* leaves the money alone (SameMoney).                                     *)
(***************************************************************************)
EXTENDS Ledger, TLAPS

Position == [qty : Int, entry : Int, extra : Int, funding : Int]
Account  == [wallet : Int, pos : [Side -> Position], signed : [Side -> Int],
             realized : Int, fees : Int, funding : Int, cost : Int,
             wasNegative : BOOLEAN, violated : {"none", "I5", "I7", "convergence"}]
Trade    == [side : Int, realized : Int, fees : Int, funding : Int,
             opened : Int, closed : Int]
Trades   == [open : [Side -> Trade], closedNet : Int]
Payments == [cash : Int, forgiven : Int, drift : Int]

(* The books of an account x with the trades b and the payments y.  What   *)
(* the open positions are worth at their entries stands for what they are  *)
(* worth at the mark, since the profit they show is measured from there.   *)
Worth(p) == p.qty * p.entry

Explained(x, b) == x.wallet - Opening = b.closedNet + Total([s \in Side |-> Net(b.open[s])])

Matched(x, b) == \A s \in Side :
    /\ b.open[s].side = SignOf(x.pos[s].qty)
    /\ b.open[s].opened - b.open[s].closed = AbsOf(x.pos[s].qty)
    /\ x.pos[s].qty = 0 => b.open[s] = NoTrade

Attributed(x) == x.wallet - Opening = x.realized + x.funding - x.fees

Valued(x, y) ==
    x.realized - x.cost = y.cash + y.forgiven + y.drift + Total([s \in Side |-> Worth(x.pos[s])])

Signed(x) == \A s \in Side : x.signed[s] = x.pos[s].qty

Sound(x, b, y) ==
    /\ x \in Account /\ b \in Trades /\ y \in Payments
    /\ Explained(x, b) /\ Matched(x, b) /\ Attributed(x) /\ Valued(x, y) /\ Signed(x)

-----------------------------------------------------------------------------
(* Arithmetic.                                                             *)

(* quantize_money yields whole quanta. *)
LEMMA QuantizedIsWhole ==
    ASSUME NEW num \in Int, NEW den \in Nat \ {0}
    PROVE  Quantized(num, den) \in Int
<1>1. num \div den \in Int /\ num % den \in Int
  OBVIOUS
<1> QED  BY <1>1 DEF Quantized

(* The sides add up to a whole number.                                     *)
LEMMA TotalIsWhole ==
    ASSUME NEW f \in [Side -> Int]
    PROVE  Total(f) \in Int
BY DEF Total, Side

(* When one side changes, the total changes by as much.                    *)
LEMMA TotalOfOne ==
    ASSUME NEW f \in [Side -> Int], NEW g \in [Side -> Int], NEW s \in Side,
           \A t \in Side \ {s} : g[t] = f[t]
    PROVE  Total(g) = Total(f) - f[s] + g[s]
<1>1. CASE s = "BOTH"
  BY <1>1 DEF Total, Side
<1>2. CASE s = "LONG"
  BY <1>2 DEF Total, Side
<1>3. CASE s = "SHORT"
  BY <1>3 DEF Total, Side
<1> QED  BY <1>1, <1>2, <1>3 DEF Side

(* A number is its sign times its size.                                    *)
LEMMA Signs ==
    ASSUME NEW n \in Int
    PROVE  /\ AbsOf(n) \in Nat /\ SignOf(n) \in Int
           /\ SignOf(n) * AbsOf(n) = n
           /\ n # 0 => AbsOf(n) \in Nat \ {0}
BY DEF AbsOf, SignOf

-----------------------------------------------------------------------------
(* A change of one side's position, trade and payments.                    *)

OneSideChanges(x, b, y, s, u, c, z) ==
    /\ \A t \in Side \ {s} : /\ u.pos[t] = x.pos[t] /\ u.signed[t] = x.signed[t]
                             /\ c.open[t] = b.open[t]
    /\ u.wallet - x.wallet = c.closedNet - b.closedNet + Net(c.open[s]) - Net(b.open[s])
    /\ u.wallet - x.wallet = (u.realized - x.realized) + (u.funding - x.funding)
                                - (u.fees - x.fees)
    /\ (u.realized - x.realized) - (u.cost - x.cost)
           = (z.cash - y.cash) + (z.forgiven - y.forgiven) + (z.drift - y.drift)
               + Worth(u.pos[s]) - Worth(x.pos[s])
    /\ c.open[s].side = SignOf(u.pos[s].qty)
    /\ c.open[s].opened - c.open[s].closed = AbsOf(u.pos[s].qty)
    /\ u.pos[s].qty = 0 => c.open[s] = NoTrade
    /\ u.signed[s] = u.pos[s].qty

(* What must agree when one side is traded, for the books to stay sound.   *)
LEMMA OneSide ==
    ASSUME NEW x, NEW b, NEW y, Sound(x, b, y), NEW s \in Side,
           NEW u \in Account, NEW c \in Trades, NEW z \in Payments,
           OneSideChanges(x, b, y, s, u, c, z)
    PROVE  Sound(u, c, z)
<1> DEFINE nets(d)   == [t \in Side |-> Net(d.open[t])]
           worths(d) == [t \in Side |-> Worth(d.pos[t])]
<1>1. x \in Account /\ b \in Trades /\ y \in Payments
  BY DEF Sound
<1>2. nets(b) \in [Side -> Int] /\ nets(c) \in [Side -> Int]
  BY <1>1 DEF Net, Trades, Trade
<1>3. worths(x) \in [Side -> Int] /\ worths(u) \in [Side -> Int]
  BY <1>1 DEF Worth, Account, Position
<1>4. Total(nets(c)) = Total(nets(b)) - Net(b.open[s]) + Net(c.open[s])
  <2>1. \A t \in Side \ {s} : nets(c)[t] = nets(b)[t]
    BY DEF OneSideChanges
  <2>2. nets(b)[s] = Net(b.open[s]) /\ nets(c)[s] = Net(c.open[s])
    OBVIOUS
  <2> HIDE DEF nets
  <2> QED  BY <1>2, <2>1, <2>2, TotalOfOne
<1>5. Total(worths(u)) = Total(worths(x)) - Worth(x.pos[s]) + Worth(u.pos[s])
  <2>1. \A t \in Side \ {s} : worths(u)[t] = worths(x)[t]
    BY DEF OneSideChanges
  <2>2. worths(x)[s] = Worth(x.pos[s]) /\ worths(u)[s] = Worth(u.pos[s])
    OBVIOUS
  <2> HIDE DEF worths
  <2> QED  BY <1>3, <2>1, <2>2, TotalOfOne
<1>6. /\ Net(b.open[s]) \in Int /\ Net(c.open[s]) \in Int
      /\ Worth(x.pos[s]) \in Int /\ Worth(u.pos[s]) \in Int
      /\ Total(nets(b)) \in Int /\ Total(worths(x)) \in Int
      /\ Total(nets(c)) \in Int /\ Total(worths(u)) \in Int
  <2>1. /\ Net(b.open[s]) = nets(b)[s] /\ Net(c.open[s]) = nets(c)[s]
        /\ Worth(x.pos[s]) = worths(x)[s] /\ Worth(u.pos[s]) = worths(u)[s]
    OBVIOUS
  <2> HIDE DEF nets, worths
  <2> QED  BY <1>2, <1>3, <2>1, TotalIsWhole
<1>7. Explained(u, c)
  <2>1. x.wallet - Opening = b.closedNet + Total(nets(b))
    BY DEF Sound, Explained
  <2> HIDE DEF nets, worths
  <2>2. u.wallet - Opening = c.closedNet + Total(nets(c))
    <3>1. /\ x.wallet \in Int /\ u.wallet \in Int /\ Opening \in Int
          /\ b.closedNet \in Int /\ c.closedNet \in Int
      BY <1>1, LedgerAssumption DEF Account, Trades
    <3>2. u.wallet - x.wallet = c.closedNet - b.closedNet + Net(c.open[s]) - Net(b.open[s])
      BY DEF OneSideChanges
    <3> QED  BY <1>4, <1>6, <2>1, <3>1, <3>2
  <2> QED  BY <2>2 DEF Explained, nets
<1>8. Matched(u, c)
  BY DEF Sound, Matched, OneSideChanges
<1>9. Attributed(u)
  <2>1. u.wallet - x.wallet = (u.realized - x.realized) + (u.funding - x.funding)
                                - (u.fees - x.fees)
    BY DEF OneSideChanges
  <2> QED  BY <1>1, <2>1, LedgerAssumption DEF Sound, Attributed, Account
<1>10. Valued(u, z)
  <2>1. x.realized - x.cost = y.cash + y.forgiven + y.drift + Total(worths(x))
    BY DEF Sound, Valued
  <2> HIDE DEF nets, worths
  <2>2. u.realized - u.cost = z.cash + z.forgiven + z.drift + Total(worths(u))
    <3>1. /\ x.realized \in Int /\ u.realized \in Int /\ x.cost \in Int /\ u.cost \in Int
          /\ y.cash \in Int /\ y.forgiven \in Int /\ y.drift \in Int
          /\ z.cash \in Int /\ z.forgiven \in Int /\ z.drift \in Int
      BY <1>1 DEF Account, Payments
    <3>2. (u.realized - x.realized) - (u.cost - x.cost)
             = (z.cash - y.cash) + (z.forgiven - y.forgiven) + (z.drift - y.drift)
                 + Worth(u.pos[s]) - Worth(x.pos[s])
      BY DEF OneSideChanges
    <3> QED  BY <1>5, <1>6, <2>1, <3>1, <3>2
  <2> QED  BY <2>2 DEF Valued, worths
<1>11. Signed(u)
  BY DEF Sound, Signed, OneSideChanges
<1> QED  BY <1>7, <1>8, <1>9, <1>10, <1>11 DEF Sound

-----------------------------------------------------------------------------
(* What a fill does to the position, and what it pays.                     *)

(* A fill moves the position by its quantity.                              *)
LEMMA Moved ==
    ASSUME NEW p \in Position, NEW q \in Int, q # 0, NEW price \in Int
    PROVE  After(p, q, price) \in Position /\ After(p, q, price).qty = p.qty + q
<1>1. p.qty \in Int /\ p.entry \in Int /\ p.extra \in Int /\ p.funding \in Int
  BY DEF Position
<1>2. CASE ~ IsOpen(p) \/ Flips(p, q)
  BY <1>1, <1>2 DEF After, Position
<1>3. CASE IsOpen(p) /\ ~ Flips(p, q) /\ Grows(p, q)
  <2>1. AbsOf(p.qty) \in Nat \ {0} /\ AbsOf(q) \in Nat \ {0}
    BY <1>1, <1>3, Signs DEF IsOpen
  <2>2. /\ AbsOf(p.qty) * p.entry + AbsOf(q) * price \in Int
        /\ AbsOf(p.qty) + AbsOf(q) \in Nat \ {0}
    BY <1>1, <2>1
  <2> DEFINE averaged == Quantized(AbsOf(p.qty) * p.entry + AbsOf(q) * price,
                                   AbsOf(p.qty) + AbsOf(q))
  <2>3. averaged \in Int
    BY <2>2, QuantizedIsWhole
  <2>4. After(p, q, price) = [qty |-> p.qty + q, entry |-> averaged,
                              extra |-> p.extra, funding |-> p.funding]
    BY <1>3 DEF After, Position
  <2> HIDE DEF averaged
  <2> QED  BY <1>1, <2>3, <2>4 DEF Position
<1>4. CASE IsOpen(p) /\ ~ Flips(p, q) /\ ~ Grows(p, q) /\ p.qty + q = 0
  BY <1>4 DEF After, Flat, Position
<1>5. CASE IsOpen(p) /\ ~ Flips(p, q) /\ ~ Grows(p, q) /\ p.qty + q # 0
  <2>1. AbsOf(p.qty) \in Nat \ {0} /\ AbsOf(p.qty + q) \in Nat
    BY <1>1, <1>5, Signs DEF IsOpen
  <2>2. Scaled(p.extra, p, q) \in Int /\ Scaled(p.funding, p, q) \in Int
    BY <1>1, <2>1, QuantizedIsWhole DEF Scaled
  <2>3. After(p, q, price) = [qty |-> p.qty + q, entry |-> p.entry,
                              extra |-> Scaled(p.extra, p, q),
                              funding |-> Scaled(p.funding, p, q)]
    BY <1>5 DEF After, Position
  <2> QED  BY <1>1, <2>2, <2>3 DEF Position
<1> QED  BY <1>2, <1>3, <1>4, <1>5

Drift(p, q, price) ==
    IF IsOpen(p) /\ Grows(p, q)
    THEN (p.qty * p.entry + q * price) - After(p, q, price).qty * After(p, q, price).entry
    ELSE 0

(* What a fill realizes is what it paid and what the position is worth     *)
(* less, up to the rounding of an averaged entry; opening and growing      *)
(* realize nothing.                                                        *)
LEMMA PaidFor ==
    ASSUME NEW p \in Position, NEW q \in Int, q # 0, NEW price \in Int
    PROVE  /\ Realized(p, q, price) \in Int /\ Drift(p, q, price) \in Int
           /\ Realized(p, q, price) = Drift(p, q, price) - q * price
                                        + Worth(After(p, q, price)) - Worth(p)
           /\ ~ IsOpen(p) \/ Grows(p, q) => Realized(p, q, price) = 0
<1> DEFINE a == After(p, q, price)
<1>1. p.qty \in Int /\ p.entry \in Int
  BY DEF Position
<1>2. a.qty \in Int /\ a.entry \in Int /\ a.qty = p.qty + q
  BY Moved DEF Position
<1>3. CASE ~ IsOpen(p)
  <2>1. a.entry = price /\ Realized(p, q, price) = 0 /\ Drift(p, q, price) = 0 /\ p.qty = 0
    BY <1>3 DEF After, Realized, Drift, IsOpen
  <2>2. a.qty = q
    BY <1>2, <2>1
  <2>3. Worth(a) = q * price /\ Worth(p) = 0
    BY <1>1, <2>1, <2>2 DEF Worth
  <2> QED  BY <2>1, <2>3
<1>4. CASE IsOpen(p) /\ Grows(p, q)
  <2>1. Realized(p, q, price) = 0
    BY <1>4 DEF Realized
  <2>2. Drift(p, q, price) = p.qty * p.entry + q * price - a.qty * a.entry
    BY <1>1, <1>2, <1>4 DEF Drift
  <2> HIDE DEF a
  <2>3. p.qty * p.entry \in Int /\ q * price \in Int /\ a.qty * a.entry \in Int
    BY <1>1, <1>2
  <2>4. Drift(p, q, price) - q * price + Worth(a) - Worth(p) = 0
    BY <2>2, <2>3 DEF Worth
  <2> QED  BY <1>4, <2>1, <2>2, <2>3, <2>4 DEF a
<1>5. CASE Flips(p, q)
  <2>1. IsOpen(p) /\ ~ Grows(p, q) /\ AbsOf(q) > AbsOf(p.qty)
    BY <1>5 DEF Flips
  <2>2. MinOf(AbsOf(q), AbsOf(p.qty)) = AbsOf(p.qty)
    BY <1>1, <2>1, Signs DEF MinOf
  <2>3. Realized(p, q, price) = SignOf(p.qty) * AbsOf(p.qty) * (price - p.entry)
    BY <2>1, <2>2 DEF Realized
  <2>4. Realized(p, q, price) = p.qty * (price - p.entry)
    BY <1>1, <2>3, Signs
  <2>5. a.entry = price /\ Drift(p, q, price) = 0
    BY <1>5, <2>1 DEF After, Drift
  <2>6. Worth(a) = (p.qty + q) * price /\ Worth(p) = p.qty * p.entry
    BY <1>2, <2>5 DEF Worth
  <2>7. p.qty * (price - p.entry) = (p.qty + q) * price - q * price - p.qty * p.entry
    BY <1>1
  <2> QED  BY <1>1, <2>1, <2>4, <2>5, <2>6, <2>7
<1>6. CASE IsOpen(p) /\ ~ Grows(p, q) /\ ~ Flips(p, q)
  <2>1. MinOf(AbsOf(q), AbsOf(p.qty)) = AbsOf(q)
    BY <1>1, <1>6, Signs DEF MinOf, Flips
  <2>2. Realized(p, q, price) = SignOf(p.qty) * AbsOf(q) * (price - p.entry)
    BY <1>6, <2>1 DEF Realized
  <2>3. SignOf(p.qty) * AbsOf(q) = -q
    BY <1>1, <1>6 DEF IsOpen, Grows, SignOf, AbsOf
  <2>4. Realized(p, q, price) = (-q) * (price - p.entry)
    BY <2>2, <2>3
  <2>5. Worth(a) = (p.qty + q) * p.entry
    <3>1. CASE p.qty + q = 0
      BY <1>1, <1>6, <3>1 DEF After, Flat, Worth
    <3>2. CASE p.qty + q # 0
      BY <1>6, <3>2 DEF After, Worth, Position
    <3> QED  BY <3>1, <3>2
  <2>6. Drift(p, q, price) = 0
    BY <1>6 DEF Drift
  <2>7. (-q) * (price - p.entry) = (p.qty + q) * p.entry - q * price - p.qty * p.entry
    BY <1>1
  <2> QED  BY <1>1, <1>6, <2>4, <2>5, <2>6, <2>7 DEF Worth
<1> QED  BY <1>3, <1>4, <1>5, <1>6 DEF Flips

-----------------------------------------------------------------------------
(* What a fill does to the trades: it books the change of the wallet once, *)
(* and the side's trade is for the quantity that the side then holds.      *)

Books(b, c, s, change, after) ==
    /\ c \in Trades
    /\ \A t \in Side \ {s} : c.open[t] = b.open[t]
    /\ c.closedNet - b.closedNet + Net(c.open[s]) - Net(b.open[s]) = change
    /\ c.open[s].side = SignOf(after)
    /\ c.open[s].opened - c.open[s].closed = AbsOf(after)
    /\ after = 0 => c.open[s] = NoTrade

(* A leg adds its quantity and costs its fee.                              *)
LEMMA Opens ==
    ASSUME NEW t \in Trade, NEW n \in Int, NEW fee \in Int
    PROVE  /\ Leg(t, n, fee) \in Trade /\ Leg(t, n, fee).side = t.side
           /\ Leg(t, n, fee).opened - Leg(t, n, fee).closed = t.opened - t.closed + n
           /\ Net(Leg(t, n, fee)) = Net(t) - fee
<1> SUFFICES ASSUME NEW l, l = [t EXCEPT !.opened = @ + n, !.fees = @ + fee]
             PROVE  /\ l \in Trade /\ l.side = t.side
                    /\ l.opened - l.closed = t.opened - t.closed + n
                    /\ Net(l) = Net(t) - fee
  BY DEF Leg
<1>1. l = [side |-> t.side, realized |-> t.realized, fees |-> t.fees + fee,
           funding |-> t.funding, opened |-> t.opened + n, closed |-> t.closed]
  BY DEF Trade
<1> QED  BY <1>1 DEF Trade, Net

Begun(l, sign, n, fee) ==
    l \in Trade /\ l.side = sign /\ l.opened - l.closed = n /\ Net(l) = -fee

(* A new trade is for the quantity of its first leg.                       *)
LEMMA Begins ==
    ASSUME NEW sign \in Int, NEW n \in Int, NEW fee \in Int
    PROVE  Begun(Leg(Started(sign), n, fee), sign, n, fee)
<1>1. Started(sign) = [side |-> sign, realized |-> 0, fees |-> 0, funding |-> 0,
                       opened |-> 0, closed |-> 0]
  BY DEF Started, NoTrade
<1>2. Started(sign) \in Trade /\ Started(sign).side = sign /\ Net(Started(sign)) = 0
      /\ Started(sign).opened - Started(sign).closed = 0
  BY <1>1 DEF Trade, Net
<1> DEFINE t == Started(sign)
<1> HIDE DEF t
<1>3. t \in Trade /\ t.side = sign /\ Net(t) = 0 /\ t.opened - t.closed = 0
  BY <1>2 DEF t
<1>4. /\ Leg(t, n, fee) \in Trade /\ Leg(t, n, fee).side = sign
      /\ Leg(t, n, fee).opened - Leg(t, n, fee).closed = n
      /\ Net(Leg(t, n, fee)) = -fee
  BY <1>3, Opens
<1> QED  BY <1>4 DEF t, Begun

Reduced(t, n, gain, fee) == [t EXCEPT !.closed = @ + n, !.realized = @ + gain, !.fees = @ + fee]

(* A reduction closes its quantity, and nets what it realized less its     *)
(* fee.                                                                    *)
LEMMA Reduces ==
    ASSUME NEW t \in Trade, NEW n \in Int, NEW gain \in Int, NEW fee \in Int
    PROVE  /\ Reduced(t, n, gain, fee) \in Trade /\ Reduced(t, n, gain, fee).side = t.side
           /\ Reduced(t, n, gain, fee).opened - Reduced(t, n, gain, fee).closed
                  = t.opened - t.closed - n
           /\ Net(Reduced(t, n, gain, fee)) = Net(t) + gain - fee
<1> SUFFICES ASSUME NEW u,
                    u = [t EXCEPT !.closed = @ + n, !.realized = @ + gain, !.fees = @ + fee]
             PROVE  /\ u \in Trade /\ u.side = t.side
                    /\ u.opened - u.closed = t.opened - t.closed - n
                    /\ Net(u) = Net(t) + gain - fee
  BY DEF Reduced
<1>1. u = [side |-> t.side, realized |-> t.realized + gain, fees |-> t.fees + fee,
           funding |-> t.funding, opened |-> t.opened, closed |-> t.closed + n]
  BY DEF Trade
<1> QED  BY <1>1 DEF Trade, Net

(* A trade that is replaced, and one that is closed and another begun.     *)
LEMMA Replaced ==
    ASSUME NEW b \in Trades, NEW s \in Side, NEW t \in Trade, NEW after \in Int, after # 0,
           t.side = SignOf(after), t.opened - t.closed = AbsOf(after)
    PROVE  Books(b, [b EXCEPT !.open[s] = t], s, Net(t) - Net(b.open[s]), after)
<1>1. b.open \in [Side -> Trade] /\ b.closedNet \in Int
  BY DEF Trades
<1> DEFINE c == [b EXCEPT !.open[s] = t]
<1>2. c = [open |-> [b.open EXCEPT ![s] = t], closedNet |-> b.closedNet]
  BY DEF Trades
<1> HIDE DEF c
<1>3. c.open = [b.open EXCEPT ![s] = t] /\ c.closedNet = b.closedNet
  BY <1>2
<1>4. c \in Trades /\ c.open[s] = t /\ \A r \in Side \ {s} : c.open[r] = b.open[r]
  BY <1>1, <1>2, <1>3 DEF Trades
<1>5. Net(t) \in Int /\ Net(b.open[s]) \in Int
  BY <1>1 DEF Net, Trade
<1>6. c.closedNet - b.closedNet + Net(c.open[s]) - Net(b.open[s]) = Net(t) - Net(b.open[s])
  BY <1>1, <1>3, <1>4, <1>5
<1> QED  BY <1>4, <1>6 DEF Books, c

(* Finishing a trade and putting another in its place books both.          *)
LEMMA Closes ==
    ASSUME NEW b \in Trades, NEW s \in Side, NEW t \in Trade, NEW n \in Trade, NEW after \in Int,
           n.side = SignOf(after), n.opened - n.closed = AbsOf(after),
           after = 0 => n = NoTrade
    PROVE  Books(b, [Finished(b, s, t) EXCEPT !.open[s] = n], s,
                 Net(t) + Net(n) - Net(b.open[s]), after)
<1>1. b.open \in [Side -> Trade] /\ b.closedNet \in Int
  BY DEF Trades
<1> DEFINE c == [Finished(b, s, t) EXCEPT !.open[s] = n]
<1> DEFINE f == Finished(b, s, t)
<1>2. c = [open |-> [b.open EXCEPT ![s] = n], closedNet |-> b.closedNet + Net(t)]
  <2>1. f = [open |-> [b.open EXCEPT ![s] = NoTrade], closedNet |-> b.closedNet + Net(t)]
    <3> SUFFICES ASSUME NEW net, net = Net(t),
                        NEW e, e = [b EXCEPT !.open[s] = NoTrade, !.closedNet = @ + net]
                 PROVE  e = [open |-> [b.open EXCEPT ![s] = NoTrade],
                             closedNet |-> b.closedNet + net]
      BY DEF Finished
    <3> QED  BY DEF Trades
  <2> HIDE DEF f
  <2>2. f.open = [b.open EXCEPT ![s] = NoTrade] /\ f.closedNet = b.closedNet + Net(t)
    BY <2>1
  <2>3. c = [open |-> [f.open EXCEPT ![s] = n], closedNet |-> f.closedNet]
    BY <2>1 DEF f
  <2>4. [f.open EXCEPT ![s] = n] = [b.open EXCEPT ![s] = n]
    BY <1>1, <2>2
  <2> QED  BY <2>2, <2>3, <2>4
<1> HIDE DEF c
<1>3. c.open = [b.open EXCEPT ![s] = n] /\ c.closedNet = b.closedNet + Net(t)
  BY <1>2
<1>4. Net(t) \in Int /\ Net(n) \in Int /\ Net(b.open[s]) \in Int
  BY <1>1 DEF Net, Trade
<1>5. c \in Trades /\ c.open[s] = n /\ \A r \in Side \ {s} : c.open[r] = b.open[r]
  BY <1>1, <1>2, <1>3, <1>4 DEF Trades
<1>6. c.closedNet - b.closedNet + Net(c.open[s]) - Net(b.open[s]) = Net(t) + Net(n) - Net(b.open[s])
  BY <1>1, <1>3, <1>4, <1>5
<1> QED  BY <1>5, <1>6 DEF Books, c

(* Finishing a trade books it and leaves none.                             *)
LEMMA FinishedCloses ==
    ASSUME NEW b \in Trades, NEW s \in Side, NEW t \in Trade
    PROVE  Books(b, Finished(b, s, t), s, Net(t) - Net(b.open[s]), 0)
<1>1. NoTrade \in Trade /\ Net(NoTrade) = 0
  BY DEF NoTrade, Trade, Net
<1>2. NoTrade.side = SignOf(0) /\ NoTrade.opened - NoTrade.closed = AbsOf(0)
  BY DEF NoTrade, SignOf, AbsOf
<1>3. [Finished(b, s, t) EXCEPT !.open[s] = NoTrade] = Finished(b, s, t)
  BY DEF Finished, Trades
<1>4. Books(b, Finished(b, s, t), s, Net(t) + Net(NoTrade) - Net(b.open[s]), 0)
  BY <1>1, <1>2, <1>3, Closes
<1>5. Net(t) \in Int /\ Net(b.open[s]) \in Int
  BY DEF Net, Trade, Trades
<1>6. Net(t) + Net(NoTrade) - Net(b.open[s]) = Net(t) - Net(b.open[s])
  BY <1>1, <1>5
<1> QED  BY <1>4, <1>6

(* A fill is booked once, whether it opens, grows, reduces, closes or      *)
(* flips.                                                                  *)
LEMMA FillIsBooked ==
    ASSUME NEW b \in Trades, NEW s \in Side, NEW q \in Int, q # 0, NEW fee \in Int,
           NEW realized \in Int, NEW before \in Int,
           b.open[s].side = SignOf(before),
           b.open[s].opened - b.open[s].closed = AbsOf(before),
           before = 0 => b.open[s] = NoTrade,
           before = 0 \/ SignOf(q) = SignOf(before) => realized = 0
    PROVE  Books(b, Booked(b, s, q, fee, realized, before, before + q), s,
                 realized - fee, before + q)
<1> DEFINE t       == b.open[s]
           after   == before + q
           closing == MinOf(AbsOf(q), AbsOf(before))
           rest    == AbsOf(q) - closing
           share   == IF rest = 0 THEN fee ELSE Quantized(fee * closing, AbsOf(q))
           reduced == Reduced(t, closing, realized, share)
           c       == Booked(b, s, q, fee, realized, before, after)
<1>1. t \in Trade
  BY DEF Trades
<1>2. /\ t.side \in Int /\ t.realized \in Int /\ t.fees \in Int /\ t.funding \in Int
      /\ t.opened \in Int /\ t.closed \in Int
  BY <1>1 DEF Trade
<1>3. AbsOf(q) \in Nat \ {0} /\ AbsOf(before) \in Nat
  BY Signs
<1>4. closing \in Nat /\ closing <= AbsOf(q) /\ closing <= AbsOf(before) /\ rest \in Nat
  BY <1>3 DEF MinOf
<1>5. share \in Int
  <2>1. CASE rest = 0
    BY <2>1
  <2>2. CASE rest # 0
    <3>1. fee * closing \in Int
      BY <1>4
    <3>2. share = Quantized(fee * closing, AbsOf(q))
      BY <2>2
    <3> HIDE DEF closing, share
    <3> QED  BY <1>3, <3>1, <3>2, QuantizedIsWhole
  <2> QED  BY <2>1, <2>2
<1>7. c = IF before = 0 THEN [b EXCEPT !.open[s] = Leg(Started(SignOf(q)), AbsOf(q), fee)]
          ELSE IF SignOf(q) = SignOf(before) THEN [b EXCEPT !.open[s] = Leg(t, AbsOf(q), fee)]
          ELSE IF after = 0 THEN Finished(b, s, reduced)
          ELSE IF rest = 0 THEN [b EXCEPT !.open[s] = reduced]
          ELSE [Finished(b, s, reduced) EXCEPT
                   !.open[s] = Leg(Started(SignOf(after)), rest, fee - share)]
  BY DEF Booked, Reduced
<1> HIDE DEF closing, rest, share, reduced, c
<1>8. /\ reduced \in Trade /\ Net(reduced) = Net(t) + realized - share
      /\ reduced.side = t.side
      /\ reduced.opened - reduced.closed = AbsOf(before) - closing
  <2>1. closing \in Int /\ t.opened - t.closed = AbsOf(before)
    BY <1>4
  <2> HIDE DEF t
  <2> QED  BY <1>1, <1>5, <2>1, Reduces DEF reduced
<1>9. Net(t) \in Int
  BY <1>2 DEF Net
<1>11. CASE before = 0
  <2> DEFINE l == Leg(Started(SignOf(q)), AbsOf(q), fee)
  <2>1. l \in Trade /\ l.side = SignOf(q) /\ l.opened - l.closed = AbsOf(q) /\ Net(l) = -fee
    <3>1. SignOf(q) \in Int /\ AbsOf(q) \in Int
      BY <1>3, Signs
    <3>2. Begun(l, SignOf(q), AbsOf(q), fee)
      BY <3>1, Begins
    <3> HIDE DEF l
    <3> QED  BY <3>2 DEF Begun
  <2>2. after = q /\ Net(t) = 0 /\ realized = 0
    BY <1>11 DEF NoTrade, Net
  <2>3. c = [b EXCEPT !.open[s] = l]
    BY <1>7, <1>11
  <2>4. Net(l) - Net(t) = realized - fee
    BY <2>1, <2>2
  <2> HIDE DEF l
  <2> QED  BY <2>1, <2>2, <2>3, <2>4, Replaced DEF c
<1>12. CASE before # 0 /\ SignOf(q) = SignOf(before)
  <2> DEFINE l == Leg(t, AbsOf(q), fee)
  <2>2. c = [b EXCEPT !.open[s] = l]
    BY <1>7, <1>12
  <2>3. /\ l \in Trade /\ l.side = SignOf(before) /\ Net(l) = Net(t) - fee
        /\ l.opened - l.closed = AbsOf(before) + AbsOf(q)
    BY <1>1, <1>3, Opens
  <2> HIDE DEF l
  <2>4. /\ after # 0 /\ SignOf(after) = SignOf(before)
        /\ AbsOf(after) = AbsOf(before) + AbsOf(q)
    BY <1>12 DEF SignOf, AbsOf
  <2>5. Net(l) - Net(t) = realized - fee
    BY <1>9, <1>12, <2>3
  <2> QED  BY <2>2, <2>3, <2>4, <2>5, Replaced DEF c
<1>13. CASE before # 0 /\ SignOf(q) # SignOf(before) /\ after = 0
  <2>1. AbsOf(q) = AbsOf(before)
    BY <1>13 DEF AbsOf
  <2>2. rest = 0
    BY <1>3, <2>1 DEF rest, closing, MinOf
  <2>3. share = fee
    BY <2>2 DEF share
  <2>4. c = Finished(b, s, reduced)
    BY <1>7, <1>13
  <2>5. Net(reduced) - Net(t) = realized - fee
    BY <1>8, <1>9, <2>3
  <2> QED  BY <1>8, <1>13, <2>4, <2>5, FinishedCloses DEF c
<1>14. CASE before # 0 /\ SignOf(q) # SignOf(before) /\ after # 0 /\ rest = 0
  <2>1. share = fee
    BY <1>14 DEF share
  <2>2. c = [b EXCEPT !.open[s] = reduced]
    BY <1>7, <1>14
  <2>3. closing = AbsOf(q) /\ AbsOf(q) <= AbsOf(before)
    BY <1>3, <1>4, <1>14 DEF rest
  <2>4. SignOf(after) = SignOf(before) /\ AbsOf(after) = AbsOf(before) - AbsOf(q)
    BY <1>14, <2>3 DEF SignOf, AbsOf
  <2>5. Net(reduced) - Net(t) = realized - fee
    BY <1>8, <1>9, <2>1
  <2> QED  BY <1>8, <1>14, <2>2, <2>3, <2>4, <2>5, Replaced DEF c
<1>15. CASE before # 0 /\ SignOf(q) # SignOf(before) /\ after # 0 /\ rest # 0
  <2> DEFINE l == Leg(Started(SignOf(after)), rest, fee - share)
  <2>1. c = [Finished(b, s, reduced) EXCEPT !.open[s] = l]
    BY <1>7, <1>15
  <2>2. SignOf(after) \in Int
    BY Signs
  <2>3. /\ l \in Trade /\ l.side = SignOf(after) /\ l.opened - l.closed = rest
        /\ Net(l) = -(fee - share)
    <3>1. rest \in Int /\ fee - share \in Int
      BY <1>4, <1>5
    <3> HIDE DEF after
    <3>2. Begun(l, SignOf(after), rest, fee - share)
      BY <2>2, <3>1, Begins
    <3> HIDE DEF l
    <3> QED  BY <3>2 DEF Begun
  <2>4. closing = AbsOf(before)
    BY <1>3, <1>4, <1>15 DEF rest, closing, MinOf
  <2>5. AbsOf(after) = rest
    <3>1. rest = AbsOf(q) - AbsOf(before) /\ AbsOf(before) <= AbsOf(q)
      BY <1>4, <2>4 DEF rest
    <3> QED  BY <1>15, <3>1 DEF SignOf, AbsOf
  <2> HIDE DEF l
  <2>6. Net(reduced) + Net(l) - Net(t) = realized - fee
    BY <1>5, <1>8, <1>9, <2>3
  <2> QED  BY <1>8, <1>15, <2>1, <2>3, <2>5, <2>6, Closes DEF c
<1> QED  BY <1>11, <1>12, <1>13, <1>14, <1>15 DEF c
-----------------------------------------------------------------------------
(* What the books do not depend on: the extra margin and the funding of a  *)
(* position, and the ledger's checks of itself.                            *)

SameMoney(u, x) ==
    /\ u.wallet = x.wallet /\ u.signed = x.signed /\ u.realized = x.realized
    /\ u.fees = x.fees /\ u.funding = x.funding /\ u.cost = x.cost
    /\ \A s \in Side : u.pos[s].qty = x.pos[s].qty /\ u.pos[s].entry = x.pos[s].entry

(* Accounts with the same money and positions have the same books.         *)
LEMMA SameMoneySameBooks ==
    ASSUME NEW x, NEW b, NEW y, Sound(x, b, y), NEW u \in Account, SameMoney(u, x)
    PROVE  Sound(u, b, y)
<1>1. [s \in Side |-> Worth(u.pos[s])] = [s \in Side |-> Worth(x.pos[s])]
  BY DEF SameMoney, Worth
<1>2. Explained(u, b) /\ Attributed(u)
  BY DEF Sound, Explained, Attributed, SameMoney
<1>3. Valued(u, y)
  BY <1>1 DEF Sound, Valued, SameMoney
<1>4. Matched(u, b) /\ Signed(u)
  BY DEF Sound, Matched, Signed, SameMoney
<1> QED  BY <1>2, <1>3, <1>4 DEF Sound

(* The comparison with zero is a truth value.                              *)
LEMMA NegativeOrNot ==
    ASSUME NEW n \in Int
    PROVE  (n < 0) \in BOOLEAN
<1>1. CASE n < 0
  BY <1>1
<1>2. CASE ~ (n < 0)
  <2>1. (n < 0) = FALSE
    BY <1>2
  <2> QED  BY <2>1
<1> QED  BY <1>1, <1>2

(* The check of the wallet changes no money.                               *)
LEMMA CheckedIsSame ==
    ASSUME NEW a \in Account, NEW liquidating \in BOOLEAN
    PROVE  Checked(a, liquidating) \in Account /\ SameMoney(Checked(a, liquidating), a)
<1>1. /\ a.wallet \in Int /\ a.pos \in [Side -> Position] /\ a.signed \in [Side -> Int]
      /\ a.realized \in Int /\ a.fees \in Int /\ a.funding \in Int /\ a.cost \in Int
      /\ a.violated \in {"none", "I5", "I7", "convergence"}
  BY DEF Account
<1> SUFFICES ASSUME NEW v \in {"none", "I5", "I7", "convergence"}, NEW n \in BOOLEAN,
                    NEW u, u = [a EXCEPT !.violated = v, !.wasNegative = n]
             PROVE  u \in Account /\ SameMoney(u, a)
  <2> DEFINE v == IF a.violated = "none" /\ Violates(a, liquidating) THEN "I5" ELSE a.violated
             n == a.wallet < 0
  <2>1. v \in {"none", "I5", "I7", "convergence"}
    BY <1>1
  <2>2. n \in BOOLEAN
    BY <1>1, NegativeOrNot
  <2>3. Checked(a, liquidating) = [a EXCEPT !.violated = v, !.wasNegative = n]
    BY DEF Checked
  <2> HIDE DEF v, n
  <2> QED  BY <2>1, <2>2, <2>3
<1>2. u = [wallet |-> a.wallet, pos |-> a.pos, signed |-> a.signed, realized |-> a.realized,
           fees |-> a.fees, funding |-> a.funding, cost |-> a.cost,
           wasNegative |-> n, violated |-> v]
  BY DEF Account
<1> QED  BY <1>1, <1>2 DEF Account, SameMoney

(* The check of the wallet leaves the books sound.                         *)
LEMMA CheckedIsSound ==
    ASSUME NEW x, NEW b, NEW y, Sound(x, b, y), NEW liquidating \in BOOLEAN
    PROVE  Sound(Checked(x, liquidating), b, y)
BY CheckedIsSame, SameMoneySameBooks DEF Sound

-----------------------------------------------------------------------------
(* A fill keeps the books.                                                 *)

(* The account, the trades and the payments after a fill are sound         *)
(* together.                                                               *)
LEMMA FillIsSound ==
    ASSUME NEW x, NEW b, NEW y, Sound(x, b, y), NEW s \in Side, NEW q \in Int, q # 0,
           NEW price \in Int, NEW fee \in Int,
           NEW p, p = x.pos[s], NEW a, a = After(p, q, price),
           NEW gain, gain = Realized(p, q, price),
           NEW u, u = [wallet |-> x.wallet + gain - fee, pos |-> [x.pos EXCEPT ![s] = a],
                       signed |-> [x.signed EXCEPT ![s] = @ + q],
                       realized |-> x.realized + gain, fees |-> x.fees + fee,
                       funding |-> x.funding, cost |-> x.cost,
                       wasNegative |-> x.wasNegative, violated |-> x.violated],
           NEW drift, drift = Drift(p, q, price), NEW cash, cash = q * price,
           NEW z, z = [cash |-> y.cash - cash, forgiven |-> y.forgiven,
                       drift |-> y.drift + drift]
    PROVE  Sound(u, Booked(b, s, q, fee, gain, p.qty, a.qty), z)
<1>1. x \in Account /\ b \in Trades /\ y \in Payments /\ p \in Position
  BY DEF Sound, Account
<1>2. /\ x.wallet \in Int /\ x.pos \in [Side -> Position] /\ x.signed \in [Side -> Int]
      /\ x.realized \in Int /\ x.fees \in Int /\ x.funding \in Int /\ x.cost \in Int
      /\ x.wasNegative \in BOOLEAN /\ x.violated \in {"none", "I5", "I7", "convergence"}
      /\ y.cash \in Int /\ y.forgiven \in Int /\ y.drift \in Int /\ p.qty \in Int
  BY <1>1 DEF Account, Payments, Position
<1>3. a \in Position /\ a.qty = p.qty + q
  BY <1>1, Moved
<1> DEFINE c == Booked(b, s, q, fee, gain, p.qty, a.qty)
<1>4. /\ gain \in Int /\ drift \in Int /\ cash \in Int
      /\ gain = drift - cash + Worth(a) - Worth(p)
      /\ ~ IsOpen(p) \/ Grows(p, q) => gain = 0
  <2>1. /\ Realized(p, q, price) \in Int /\ Drift(p, q, price) \in Int
        /\ Realized(p, q, price) = Drift(p, q, price) - q * price
                                     + Worth(After(p, q, price)) - Worth(p)
        /\ ~ IsOpen(p) \/ Grows(p, q) => Realized(p, q, price) = 0
    BY <1>1, PaidFor
  <2>2. q * price \in Int
    OBVIOUS
  <2> QED  BY <2>1, <2>2
<1>5. Books(b, c, s, gain - fee, a.qty)
  <2>1. /\ b.open[s].side = SignOf(p.qty) /\ b.open[s].opened - b.open[s].closed = AbsOf(p.qty)
        /\ p.qty = 0 => b.open[s] = NoTrade
    BY DEF Sound, Matched
  <2>2. p.qty = 0 \/ SignOf(q) = SignOf(p.qty) => gain = 0
    BY <1>4 DEF IsOpen, Grows
  <2>3. Books(b, Booked(b, s, q, fee, gain, p.qty, p.qty + q), s, gain - fee, p.qty + q)
    BY <1>1, <1>2, <1>4, <2>1, <2>2, FillIsBooked
  <2> QED  BY <1>3, <2>3
<1> HIDE DEF c
<1>8. u \in Account /\ z \in Payments /\ c \in Trades
  <2>3. /\ [x.pos EXCEPT ![s] = a] \in [Side -> Position]
        /\ [x.signed EXCEPT ![s] = @ + q] \in [Side -> Int]
    BY <1>2, <1>3
  <2>4. /\ x.wallet + gain - fee \in Int /\ x.realized + gain \in Int /\ x.fees + fee \in Int
    BY <1>2, <1>4
  <2>1. u \in Account
    BY <1>2, <2>3, <2>4 DEF Account
  <2>2. z \in Payments
    BY <1>2, <1>4 DEF Payments
  <2> QED  BY <1>5, <2>1, <2>2 DEF Books
<1>9. u.pos[s] = a /\ u.signed[s] = x.signed[s] + q
  BY <1>2
<1>10. \A t \in Side \ {s} : /\ u.pos[t] = x.pos[t] /\ u.signed[t] = x.signed[t]
                             /\ c.open[t] = b.open[t]
  BY <1>2, <1>5 DEF Books
<1>11. u.wallet - x.wallet = c.closedNet - b.closedNet + Net(c.open[s]) - Net(b.open[s])
  <2>1. u.wallet - x.wallet = gain - fee
    BY <1>2, <1>4
  <2> QED  BY <1>5, <2>1 DEF Books
<1>12. u.wallet - x.wallet = (u.realized - x.realized) + (u.funding - x.funding)
                               - (u.fees - x.fees)
  BY <1>2, <1>4
<1>13. (u.realized - x.realized) - (u.cost - x.cost)
           = (z.cash - y.cash) + (z.forgiven - y.forgiven) + (z.drift - y.drift)
               + Worth(u.pos[s]) - Worth(x.pos[s])
  <2>1. Worth(a) \in Int /\ Worth(p) \in Int
    BY <1>1, <1>3 DEF Worth, Position
  <2>2. u.realized - x.realized = gain /\ u.cost - x.cost = 0
    BY <1>2, <1>4
  <2>3. /\ z.cash - y.cash = -cash /\ z.forgiven - y.forgiven = 0 /\ z.drift - y.drift = drift
    BY <1>2, <1>4
  <2> QED  BY <1>4, <1>9, <2>1, <2>2, <2>3
<1>14. u.signed[s] = u.pos[s].qty
  BY <1>3, <1>9 DEF Sound, Signed
<1>15. /\ c.open[s].side = SignOf(u.pos[s].qty)
       /\ c.open[s].opened - c.open[s].closed = AbsOf(u.pos[s].qty)
       /\ u.pos[s].qty = 0 => c.open[s] = NoTrade
  BY <1>5, <1>9 DEF Books
<1>16. Sound(u, c, z)
  <2>1. OneSideChanges(x, b, y, s, u, c, z)
    BY <1>10, <1>11, <1>12, <1>13, <1>14, <1>15 DEF OneSideChanges
  <2> QED  BY <1>8, <2>1, OneSide
<1> QED  BY <1>16 DEF c
AfterFill(x, s, q, a, gain, fee) ==
    [x EXCEPT !.wallet = @ + gain - fee, !.realized = @ + gain,
              !.fees = @ + fee, !.signed[s] = @ + q, !.pos[s] = a]

(* The account after a fill, field by field.                               *)
LEMMA AfterFillIs ==
    ASSUME NEW x \in Account, NEW s \in Side, NEW q \in Int, NEW a \in Position,
           NEW gain \in Int, NEW fee \in Int
    PROVE  AfterFill(x, s, q, a, gain, fee)
           = [wallet |-> x.wallet + gain - fee, pos |-> [x.pos EXCEPT ![s] = a],
              signed |-> [x.signed EXCEPT ![s] = @ + q], realized |-> x.realized + gain,
              fees |-> x.fees + fee, funding |-> x.funding, cost |-> x.cost,
              wasNegative |-> x.wasNegative, violated |-> x.violated]
<1> SUFFICES ASSUME NEW u, u = [x EXCEPT !.wallet = @ + gain - fee, !.realized = @ + gain,
                                         !.fees = @ + fee, !.signed[s] = @ + q, !.pos[s] = a]
             PROVE  u = [wallet |-> x.wallet + gain - fee, pos |-> [x.pos EXCEPT ![s] = a],
                         signed |-> [x.signed EXCEPT ![s] = @ + q],
                         realized |-> x.realized + gain, fees |-> x.fees + fee,
                         funding |-> x.funding, cost |-> x.cost,
                         wasNegative |-> x.wasNegative, violated |-> x.violated]
  BY DEF AfterFill
<1> QED  BY DEF Account

-----------------------------------------------------------------------------
(* A liquidation keeps the books: what the position is closed for and what *)
(* a clearance bears of it are paid, the rest of its margin is a cost.     *)

State == [acct : Account, book : Trades, paid : Payments]
SoundState(st) == st \in State /\ Sound(st.acct, st.book, st.paid)

(* A position ties up a whole number of quanta.                            *)
LEMMA IsolatedIsWhole ==
    ASSUME NEW p \in Position, lev \in Nat \ {0}
    PROVE  Isolated(p) \in Int
<1>1. p.qty \in Int /\ p.entry \in Int /\ p.extra \in Int /\ p.funding \in Int
  BY DEF Position
<1>2. AbsOf(p.qty) * p.entry \in Int
  BY <1>1, Signs
<1>3. Quantized(AbsOf(p.qty) * p.entry, lev) \in Int
  BY <1>2, QuantizedIsWhole
<1> QED  BY <1>1, <1>3 DEF Isolated, InitialMargin

Settled(t, n, loss) == [t EXCEPT !.closed = @ + n, !.realized = @ + loss]

(* A trade that ends in a liquidation nets its loss.                       *)
LEMMA Settles ==
    ASSUME NEW t \in Trade, NEW n \in Int, NEW loss \in Int
    PROVE  Settled(t, n, loss) \in Trade /\ Net(Settled(t, n, loss)) = Net(t) + loss
<1> SUFFICES ASSUME NEW u, u = [t EXCEPT !.closed = @ + n, !.realized = @ + loss]
             PROVE  u \in Trade /\ Net(u) = Net(t) + loss
  BY DEF Settled
<1>1. u = [side |-> t.side, realized |-> t.realized + loss, fees |-> t.fees,
           funding |-> t.funding, opened |-> t.opened, closed |-> t.closed + n]
  BY DEF Trade
<1> QED  BY <1>1 DEF Trade, Net

(* A liquidation books its loss and leaves no trade.                       *)
LEMMA LossIsBooked ==
    ASSUME NEW b \in Trades, NEW s \in Side, NEW qty \in Int, NEW loss \in Int
    PROVE  Books(b, BookedLiquidation(b, s, qty, loss), s, loss, 0)
<1> DEFINE u == Settled(b.open[s], AbsOf(qty), loss)
<1>1. AbsOf(qty) \in Int
  BY Signs
<1>2. b.open[s] \in Trade
  BY DEF Trades
<1>3. u \in Trade /\ Net(u) = Net(b.open[s]) + loss
  BY <1>1, <1>2, Settles
<1>4. BookedLiquidation(b, s, qty, loss) = Finished(b, s, u)
  BY DEF BookedLiquidation, Settled
<1> HIDE DEF u
<1>5. Books(b, Finished(b, s, u), s, Net(u) - Net(b.open[s]), 0)
  BY <1>3, FinishedCloses
<1>6. Net(b.open[s]) \in Int
  BY <1>2 DEF Trade, Net
<1>7. Net(u) - Net(b.open[s]) = loss
  BY <1>3, <1>6
<1> QED  BY <1>4, <1>5, <1>7

AfterClose(x, s, qty, loss, cost) ==
    [x EXCEPT !.wallet = @ + loss, !.realized = @ + loss, !.cost = cost,
              !.signed[s] = @ - qty, !.pos[s] = Flat]

(* The account after a liquidation, field by field.                        *)
LEMMA AfterCloseIs ==
    ASSUME NEW x \in Account, NEW s \in Side, NEW qty \in Int, NEW loss \in Int, NEW cost \in Int
    PROVE  AfterClose(x, s, qty, loss, cost)
           = [wallet |-> x.wallet + loss, pos |-> [x.pos EXCEPT ![s] = Flat],
              signed |-> [x.signed EXCEPT ![s] = @ - qty], realized |-> x.realized + loss,
              fees |-> x.fees, funding |-> x.funding, cost |-> cost,
              wasNegative |-> x.wasNegative, violated |-> x.violated]
<1> SUFFICES ASSUME NEW u, u = [x EXCEPT !.wallet = @ + loss, !.realized = @ + loss,
                                         !.cost = cost, !.signed[s] = @ - qty, !.pos[s] = Flat]
             PROVE  u = [wallet |-> x.wallet + loss, pos |-> [x.pos EXCEPT ![s] = Flat],
                         signed |-> [x.signed EXCEPT ![s] = @ - qty],
                         realized |-> x.realized + loss, fees |-> x.fees,
                         funding |-> x.funding, cost |-> cost,
                         wasNegative |-> x.wasNegative, violated |-> x.violated]
  BY DEF AfterClose
<1> QED  BY DEF Account

(* The account, the trades and the payments after a liquidation are        *)
(* sound.                                                                  *)
LEMMA CloseIsSound ==
    ASSUME NEW x, NEW b, NEW y, Sound(x, b, y), NEW s \in Side, NEW at \in Int,
           NEW p, p = x.pos[s], NEW margin \in Int, NEW recovered \in Int, NEW taken \in Int,
           NEW remaining \in Int, remaining = margin + p.qty * (at - p.entry),
           NEW loss, loss = recovered - margin, NEW cash, cash = p.qty * at,
           NEW u, u = [wallet |-> x.wallet + loss, pos |-> [x.pos EXCEPT ![s] = Flat],
                       signed |-> [x.signed EXCEPT ![s] = @ - p.qty],
                       realized |-> x.realized + loss, fees |-> x.fees,
                       funding |-> x.funding, cost |-> x.cost + recovered - taken,
                       wasNegative |-> x.wasNegative, violated |-> x.violated],
           NEW z, z = [cash |-> y.cash + cash, forgiven |-> y.forgiven + taken - remaining,
                       drift |-> y.drift]
    PROVE  Sound(u, BookedLiquidation(b, s, p.qty, loss), z)
<1>1. x \in Account /\ b \in Trades /\ y \in Payments /\ p \in Position
  BY DEF Sound, Account
<1>2. /\ x.wallet \in Int /\ x.pos \in [Side -> Position] /\ x.signed \in [Side -> Int]
      /\ x.realized \in Int /\ x.fees \in Int /\ x.funding \in Int /\ x.cost \in Int
      /\ x.wasNegative \in BOOLEAN /\ x.violated \in {"none", "I5", "I7", "convergence"}
      /\ y.cash \in Int /\ y.forgiven \in Int /\ y.drift \in Int
      /\ p.qty \in Int /\ p.entry \in Int
  BY <1>1 DEF Account, Payments, Position
<1>3. Flat \in Position /\ Flat.qty = 0 /\ Worth(Flat) = 0
  BY DEF Flat, Position, Worth
<1>4. loss \in Int /\ cash \in Int
  BY <1>2
<1> DEFINE c == BookedLiquidation(b, s, p.qty, loss)
<1>5. Books(b, c, s, loss, 0)
  BY <1>1, <1>2, <1>4, LossIsBooked
<1> HIDE DEF c
<1>6. u \in Account /\ z \in Payments /\ c \in Trades
  <2>1. /\ [x.pos EXCEPT ![s] = Flat] \in [Side -> Position]
        /\ [x.signed EXCEPT ![s] = @ - p.qty] \in [Side -> Int]
    BY <1>2, <1>3
  <2>2. /\ x.wallet + loss \in Int /\ x.realized + loss \in Int
        /\ x.cost + recovered - taken \in Int
    BY <1>2, <1>4
  <2>3. u \in Account
    BY <1>2, <2>1, <2>2 DEF Account
  <2>4. z \in Payments
    BY <1>2, <1>4 DEF Payments
  <2> QED  BY <1>5, <2>3, <2>4 DEF Books
<1>7. u.pos[s] = Flat /\ u.signed[s] = x.signed[s] - p.qty
  BY <1>2
<1>8. \A t \in Side \ {s} : /\ u.pos[t] = x.pos[t] /\ u.signed[t] = x.signed[t]
                            /\ c.open[t] = b.open[t]
  BY <1>2, <1>5 DEF Books
<1>9. u.wallet - x.wallet = c.closedNet - b.closedNet + Net(c.open[s]) - Net(b.open[s])
  <2>1. u.wallet - x.wallet = loss
    BY <1>2, <1>4
  <2> QED  BY <1>5, <2>1 DEF Books
<1>10. u.wallet - x.wallet = (u.realized - x.realized) + (u.funding - x.funding)
                               - (u.fees - x.fees)
  BY <1>2, <1>4
<1>11. (u.realized - x.realized) - (u.cost - x.cost)
           = (z.cash - y.cash) + (z.forgiven - y.forgiven) + (z.drift - y.drift)
               + Worth(u.pos[s]) - Worth(x.pos[s])
  <2>1. Worth(p) \in Int /\ p.qty * (at - p.entry) = cash - Worth(p)
    BY <1>2 DEF Worth
  <2>2. u.realized - x.realized = loss /\ u.cost - x.cost = recovered - taken
    BY <1>2, <1>4
  <2>3. /\ z.cash - y.cash = cash /\ z.forgiven - y.forgiven = taken - remaining
        /\ z.drift - y.drift = 0
    BY <1>2, <1>4
  <2>4. remaining = margin + cash - Worth(p)
    BY <1>4, <2>1
  <2>5. Worth(u.pos[s]) = 0 /\ Worth(x.pos[s]) = Worth(p)
    BY <1>3, <1>7
  <2> QED  BY <1>4, <2>1, <2>2, <2>3, <2>4, <2>5
<1>12. u.signed[s] = u.pos[s].qty
  BY <1>2, <1>3, <1>7 DEF Sound, Signed
<1>13. /\ c.open[s].side = SignOf(u.pos[s].qty)
       /\ c.open[s].opened - c.open[s].closed = AbsOf(u.pos[s].qty)
       /\ u.pos[s].qty = 0 => c.open[s] = NoTrade
  BY <1>3, <1>5, <1>7 DEF Books
<1>14. OneSideChanges(x, b, y, s, u, c, z)
  BY <1>8, <1>9, <1>10, <1>11, <1>12, <1>13 DEF OneSideChanges
<1> QED  BY <1>6, <1>14, OneSide DEF c
Cleared(y, cash, taken, remaining) ==
    [y EXCEPT !.cash = @ + cash, !.forgiven = @ + taken - remaining]

(* The payments after a liquidation, field by field.                       *)
LEMMA ClearedIs ==
    ASSUME NEW y \in Payments, NEW cash \in Int, NEW taken \in Int, NEW remaining \in Int
    PROVE  Cleared(y, cash, taken, remaining)
           = [cash |-> y.cash + cash, forgiven |-> y.forgiven + taken - remaining,
              drift |-> y.drift]
<1> SUFFICES ASSUME NEW z, z = [y EXCEPT !.cash = @ + cash, !.forgiven = @ + taken - remaining]
             PROVE  z = [cash |-> y.cash + cash, forgiven |-> y.forgiven + taken - remaining,
                         drift |-> y.drift]
  BY DEF Cleared
<1> QED  BY DEF Payments

(* A liquidation keeps the books, whatever the margin that is left.        *)
LEMMA LiquidatedIsSound ==
    ASSUME NEW st, SoundState(st), NEW s \in Side, NEW at \in Int, lev \in Nat \ {0}
    PROVE  SoundState(Liquidated(st, s, at))
<1> DEFINE x         == st.acct
           p         == x.pos[s]
           margin    == Isolated(p)
           remaining == margin + p.qty * (at - p.entry)
           taken     == MaxOf(remaining, 0)
           recovered == Quantized(taken * RecoveryNum, RecoveryDen)
           loss      == recovered - margin
           u         == AfterClose(x, s, p.qty, loss, x.cost + recovered - taken)
           z         == Cleared(st.paid, p.qty * at, taken, remaining)
           c         == BookedLiquidation(st.book, s, p.qty, loss)
<1>1. Sound(x, st.book, st.paid) /\ x \in Account /\ st.book \in Trades /\ st.paid \in Payments
  BY DEF SoundState, Sound
<1>2. p \in Position /\ x.cost \in Int
  BY <1>1 DEF Account
<1>3. p.qty \in Int /\ p.entry \in Int
  BY <1>2 DEF Position
<1>4. margin \in Int
  BY <1>2, IsolatedIsWhole
<1>5. Liquidated(st, s, at) = [acct |-> Checked(u, TRUE), book |-> c, paid |-> z]
  BY DEF Liquidated, AfterClose, Cleared
<1> HIDE DEF x, p, margin, u, z, c
<1>6. remaining \in Int
  BY <1>3, <1>4
<1> HIDE DEF remaining
<1>7. taken \in Int
  BY <1>6 DEF MaxOf
<1> HIDE DEF taken
<1>8. recovered \in Int
  <2>1. taken * RecoveryNum \in Int /\ RecoveryDen \in Nat \ {0}
    BY <1>7, LedgerAssumption
  <2> QED  BY <2>1, QuantizedIsWhole
<1> HIDE DEF recovered
<1>9. loss \in Int /\ x.cost + recovered - taken \in Int /\ p.qty * at \in Int
  BY <1>2, <1>3, <1>4, <1>7, <1>8
<1>10. u = [wallet |-> x.wallet + loss, pos |-> [x.pos EXCEPT ![s] = Flat],
            signed |-> [x.signed EXCEPT ![s] = @ - p.qty], realized |-> x.realized + loss,
            fees |-> x.fees, funding |-> x.funding, cost |-> x.cost + recovered - taken,
            wasNegative |-> x.wasNegative, violated |-> x.violated]
  <2> HIDE DEF loss
  <2> QED  BY <1>1, <1>3, <1>9, AfterCloseIs DEF u
<1>11. z = [cash |-> st.paid.cash + p.qty * at,
            forgiven |-> st.paid.forgiven + taken - remaining, drift |-> st.paid.drift]
  BY <1>1, <1>6, <1>7, <1>9, ClearedIs DEF z
<1>12. Sound(u, c, z)
  <2>1. p = x.pos[s] /\ remaining = margin + p.qty * (at - p.entry)
    BY DEF p, remaining
  <2>2. loss = recovered - margin
    OBVIOUS
  <2> HIDE DEF loss
  <2> QED  BY <1>1, <1>4, <1>6, <1>7, <1>8, <1>10, <1>11, <2>1, <2>2, CloseIsSound DEF c
<1> DEFINE r == Liquidated(st, s, at)
<1>13. Sound(Checked(u, TRUE), c, z)
  BY <1>12, CheckedIsSound
<1>14. r.acct = Checked(u, TRUE) /\ r.book = c /\ r.paid = z
  BY <1>5
<1>15. r = [acct |-> r.acct, book |-> r.book, paid |-> r.paid]
  BY <1>5
<1> HIDE DEF r
<1>16. Sound(r.acct, r.book, r.paid)
  BY <1>13, <1>14
<1>17. r.acct \in Account /\ r.book \in Trades /\ r.paid \in Payments
  BY <1>16 DEF Sound
<1>18. SoundState(r)
  BY <1>15, <1>16, <1>17 DEF SoundState, State
<1> QED  BY <1>18 DEF r

(* A check that only records a violation.                                  *)
LEMMA ViolatedIsSound ==
    ASSUME NEW st, SoundState(st), NEW v \in {"I7", "convergence"}
    PROVE  SoundState([st EXCEPT !.acct.violated = v])
<1>1. st \in State /\ Sound(st.acct, st.book, st.paid)
  BY DEF SoundState
<1> SUFFICES ASSUME NEW x, x = st.acct, x \in Account,
                    NEW u, u = [x EXCEPT !.violated = v],
                    NEW r, r = [st EXCEPT !.acct = u]
             PROVE  SoundState(r)
  BY <1>1 DEF State
<1>2. u = [wallet |-> x.wallet, pos |-> x.pos, signed |-> x.signed, realized |-> x.realized,
           fees |-> x.fees, funding |-> x.funding, cost |-> x.cost,
           wasNegative |-> x.wasNegative, violated |-> v]
  BY DEF Account
<1>3. u \in Account /\ SameMoney(u, x)
  BY <1>2 DEF Account, SameMoney
<1>4. Sound(u, st.book, st.paid)
  BY <1>1, <1>3, SameMoneySameBooks
<1>5. r = [acct |-> u, book |-> st.book, paid |-> st.paid]
  BY <1>1 DEF State
<1> QED  BY <1>4, <1>5 DEF SoundState, State, Sound

(* The check of one side keeps the books, whatever it decides.             *)
LEMMA CheckedSideIsSound ==
    ASSUME NEW st, SoundState(st), NEW s \in Side, NEW at \in Int, lev \in Nat \ {0}
    PROVE  SoundState(CheckedSide(st, s, at))
<1>1. SoundState(Liquidated(st, s, at))
  BY LiquidatedIsSound
<1>2. /\ SoundState([st EXCEPT !.acct.violated = "convergence"])
      /\ SoundState([st EXCEPT !.acct.violated = "I7"])
  BY ViolatedIsSound
<1> QED  BY <1>1, <1>2 DEF CheckedSide

(* So does the check of every side at a price.                             *)
LEMMA CheckedAtIsSound ==
    ASSUME NEW st, SoundState(st), NEW at \in Int, lev \in Nat \ {0}
    PROVE  SoundState(CheckedAt(st, at))
<1>1. SoundState(CheckedSide(st, "BOTH", at))
  BY CheckedSideIsSound DEF Side
<1>2. SoundState(CheckedSide(CheckedSide(st, "LONG", at), "SHORT", at))
  <2>1. SoundState(CheckedSide(st, "LONG", at))
    BY CheckedSideIsSound DEF Side
  <2> QED  BY <2>1, CheckedSideIsSound DEF Side
<1> QED  BY <1>1, <1>2 DEF CheckedAt
-----------------------------------------------------------------------------
(* Funding keeps the books: the wallet, the positions and the trades are   *)
(* paid the same.                                                          *)

(* The total of sums is the sum of the totals.                             *)
LEMMA TotalOfSum ==
    ASSUME NEW f \in [Side -> Int], NEW g \in [Side -> Int], NEW h \in [Side -> Int],
           \A s \in Side : h[s] = f[s] + g[s]
    PROVE  Total(h) = Total(f) + Total(g)
BY DEF Total, Side

(* Funding leaves the quantity and the entry of a position.                *)
LEMMA PositionSettles ==
    ASSUME NEW p \in Position, NEW n \in Int
    PROVE  /\ Credited(p, n) \in Position
           /\ Credited(p, n).qty = p.qty /\ Credited(p, n).entry = p.entry
<1> SUFFICES ASSUME NEW u, u = [p EXCEPT !.funding = @ + n]
             PROVE  u \in Position /\ u.qty = p.qty /\ u.entry = p.entry
  BY DEF Credited
<1>1. u = [qty |-> p.qty, entry |-> p.entry, extra |-> p.extra, funding |-> p.funding + n]
  BY DEF Position
<1> QED  BY <1>1 DEF Position

(* Funding leaves the quantities of a trade and adds to its net.           *)
LEMMA TradeSettles ==
    ASSUME NEW t \in Trade, NEW n \in Int
    PROVE  /\ Credited(t, n) \in Trade /\ Credited(t, n).side = t.side
           /\ Credited(t, n).opened - Credited(t, n).closed = t.opened - t.closed
           /\ Net(Credited(t, n)) = Net(t) + n
           /\ n = 0 => Credited(t, n) = t
<1> SUFFICES ASSUME NEW u, u = [t EXCEPT !.funding = @ + n]
             PROVE  /\ u \in Trade /\ u.side = t.side
                    /\ u.opened - u.closed = t.opened - t.closed
                    /\ Net(u) = Net(t) + n
                    /\ n = 0 => u = t
  BY DEF Credited
<1>1. u = [side |-> t.side, realized |-> t.realized, fees |-> t.fees,
           funding |-> t.funding + n, opened |-> t.opened, closed |-> t.closed]
  BY DEF Trade
<1>2. t = [side |-> t.side, realized |-> t.realized, fees |-> t.fees,
           funding |-> t.funding, opened |-> t.opened, closed |-> t.closed]
  BY DEF Trade
<1>3. n = 0 => u = t
  <2>1. n = 0 => t.funding + n = t.funding
    BY DEF Trade
  <2> QED  BY <1>1, <1>2, <2>1
<1> QED  BY <1>1, <1>3 DEF Trade, Net

WalletCredited(x, sum, pos) == [x EXCEPT !.wallet = @ + sum, !.funding = @ + sum, !.pos = pos]

(* The account after a settlement, field by field.                         *)
LEMMA WalletCreditedIs ==
    ASSUME NEW x \in Account, NEW sum \in Int, NEW pos \in [Side -> Position]
    PROVE  WalletCredited(x, sum, pos)
           = [wallet |-> x.wallet + sum, pos |-> pos, signed |-> x.signed,
              realized |-> x.realized, fees |-> x.fees, funding |-> x.funding + sum,
              cost |-> x.cost, wasNegative |-> x.wasNegative, violated |-> x.violated]
<1> SUFFICES ASSUME NEW u,
                    u = [x EXCEPT !.wallet = @ + sum, !.funding = @ + sum, !.pos = pos]
             PROVE  u = [wallet |-> x.wallet + sum, pos |-> pos, signed |-> x.signed,
                         realized |-> x.realized, fees |-> x.fees, funding |-> x.funding + sum,
                         cost |-> x.cost, wasNegative |-> x.wasNegative,
                         violated |-> x.violated]
  BY DEF WalletCredited
<1> QED  BY DEF Account

AfterFunding(x, flow) ==
    [x EXCEPT !.wallet = @ + Total(flow), !.funding = @ + Total(flow),
              !.pos = [s \in Side |-> Credited(x.pos[s], flow[s])]]
TradesAfterFunding(b, flow) == [b EXCEPT !.open = [s \in Side |-> Credited(b.open[s], flow[s])]]

(* The books after a settlement that pays nothing where nothing is held.   *)
LEMMA FundingIsSound ==
    ASSUME NEW x, NEW b, NEW y, Sound(x, b, y), NEW flow \in [Side -> Int],
           \A s \in Side : x.pos[s].qty = 0 => flow[s] = 0
    PROVE  Sound(AfterFunding(x, flow), TradesAfterFunding(b, flow), y)
<1>1. x \in Account /\ b \in Trades /\ y \in Payments
  BY DEF Sound
<1>2. /\ x.wallet \in Int /\ x.pos \in [Side -> Position] /\ x.signed \in [Side -> Int]
      /\ x.realized \in Int /\ x.fees \in Int /\ x.funding \in Int /\ x.cost \in Int
      /\ x.wasNegative \in BOOLEAN /\ x.violated \in {"none", "I5", "I7", "convergence"}
      /\ b.open \in [Side -> Trade] /\ b.closedNet \in Int
  BY <1>1 DEF Account, Trades
<1>3. PICK sum : sum = Total(flow)
  OBVIOUS
<1>4. sum \in Int
  BY <1>3, TotalIsWhole
<1>5. PICK pos : pos = [s \in Side |-> Credited(x.pos[s], flow[s])]
  OBVIOUS
<1>6. PICK open : open = [s \in Side |-> Credited(b.open[s], flow[s])]
  OBVIOUS
<1>7. pos \in [Side -> Position]
      /\ \A s \in Side : pos[s].qty = x.pos[s].qty /\ pos[s].entry = x.pos[s].entry
  <2>1. \A s \in Side : /\ pos[s] \in Position
                        /\ pos[s].qty = x.pos[s].qty /\ pos[s].entry = x.pos[s].entry
    <3> TAKE s \in Side
    <3>1. x.pos[s] \in Position /\ flow[s] \in Int /\ pos[s] = Credited(x.pos[s], flow[s])
      BY <1>2, <1>5
    <3> QED  BY <3>1, PositionSettles
  <2>2. pos = [s \in Side |-> pos[s]]
    BY <1>5
  <2> QED  BY <2>1, <2>2
<1>8. /\ open \in [Side -> Trade]
      /\ \A s \in Side : /\ open[s].side = b.open[s].side
                         /\ open[s].opened - open[s].closed = b.open[s].opened - b.open[s].closed
                         /\ Net(open[s]) = Net(b.open[s]) + flow[s]
                         /\ flow[s] = 0 => open[s] = b.open[s]
  <2>1. \A s \in Side : /\ open[s] \in Trade /\ open[s].side = b.open[s].side
                        /\ open[s].opened - open[s].closed = b.open[s].opened - b.open[s].closed
                        /\ Net(open[s]) = Net(b.open[s]) + flow[s]
                        /\ flow[s] = 0 => open[s] = b.open[s]
    <3> TAKE s \in Side
    <3>1. b.open[s] \in Trade /\ flow[s] \in Int /\ open[s] = Credited(b.open[s], flow[s])
      BY <1>2, <1>6
    <3> QED  BY <3>1, TradeSettles
  <2>2. open = [s \in Side |-> open[s]]
    BY <1>6
  <2> QED  BY <2>1, <2>2
<1>9. PICK u : u = [wallet |-> x.wallet + sum, pos |-> pos, signed |-> x.signed,
                    realized |-> x.realized, fees |-> x.fees, funding |-> x.funding + sum,
                    cost |-> x.cost, wasNegative |-> x.wasNegative, violated |-> x.violated]
  OBVIOUS
<1>10. PICK c : c = [open |-> open, closedNet |-> b.closedNet]
  OBVIOUS
<1>11. AfterFunding(x, flow) = u
  <2>1. AfterFunding(x, flow) = WalletCredited(x, sum, pos)
    BY <1>3, <1>5 DEF AfterFunding, WalletCredited
  <2>2. WalletCredited(x, sum, pos)
        = [wallet |-> x.wallet + sum, pos |-> pos, signed |-> x.signed,
           realized |-> x.realized, fees |-> x.fees, funding |-> x.funding + sum,
           cost |-> x.cost, wasNegative |-> x.wasNegative, violated |-> x.violated]
    BY <1>1, <1>4, <1>7, WalletCreditedIs
  <2> QED  BY <1>9, <2>1, <2>2
<1>12. TradesAfterFunding(b, flow) = c
  <2> SUFFICES ASSUME NEW v, v = [b EXCEPT !.open = open]
               PROVE  v = c
    BY <1>6 DEF TradesAfterFunding
  <2> QED  BY <1>1, <1>10 DEF Trades
<1>19. u.pos = pos /\ c.open = open /\ u.wallet = x.wallet + sum /\ c.closedNet = b.closedNet
  BY <1>9, <1>10
<1>13. u \in Account /\ c \in Trades
  BY <1>2, <1>4, <1>7, <1>8, <1>9, <1>10 DEF Account, Trades
<1>14. Explained(u, c)
  <2> DEFINE nets(d) == [s \in Side |-> Net(d.open[s])]
  <2>1. nets(b) \in [Side -> Int] /\ nets(c) \in [Side -> Int]
    BY <1>1, <1>13 DEF Trades, Trade, Net
  <2>2. \A s \in Side : nets(c)[s] = nets(b)[s] + flow[s]
    BY <1>8, <1>19
  <2>3. x.wallet - Opening = b.closedNet + Total(nets(b))
    BY DEF Sound, Explained
  <2> HIDE DEF nets
  <2>4. Total(nets(c)) = Total(nets(b)) + sum /\ Total(nets(b)) \in Int
    BY <1>3, <2>1, <2>2, TotalOfSum, TotalIsWhole
  <2>5. Opening \in Int
    BY LedgerAssumption
  <2>7. u.wallet - Opening = c.closedNet + Total(nets(c))
    BY <1>2, <1>4, <1>19, <2>3, <2>4, <2>5
  <2> QED  BY <2>7 DEF Explained, nets
<1>15. Matched(u, c)
  <2> SUFFICES ASSUME NEW s \in Side
               PROVE  /\ open[s].side = SignOf(pos[s].qty)
                      /\ open[s].opened - open[s].closed = AbsOf(pos[s].qty)
                      /\ pos[s].qty = 0 => open[s] = NoTrade
    BY <1>19 DEF Matched
  <2>1. /\ b.open[s].side = SignOf(x.pos[s].qty)
        /\ b.open[s].opened - b.open[s].closed = AbsOf(x.pos[s].qty)
        /\ x.pos[s].qty = 0 => b.open[s] = NoTrade
    BY DEF Sound, Matched
  <2> QED  BY <1>7, <1>8, <2>1
<1>16. Attributed(u)
  <2>1. Opening \in Int
    BY LedgerAssumption
  <2> QED  BY <1>2, <1>4, <1>9, <2>1 DEF Sound, Attributed
<1>17. Valued(u, y)
  <2>1. [s \in Side |-> Worth(u.pos[s])] = [s \in Side |-> Worth(x.pos[s])]
    BY <1>7, <1>9 DEF Worth
  <2> QED  BY <1>9, <2>1 DEF Sound, Valued
<1>18. Signed(u)
  BY <1>7, <1>9 DEF Sound, Signed
<1> QED  BY <1>1, <1>11, <1>12, <1>13, <1>14, <1>15, <1>16, <1>17, <1>18 DEF Sound

-----------------------------------------------------------------------------
(* What balances at the entries balances at the mark.                      *)

(* Books that are sound balance, at whatever mark.                         *)
LEMMA SoundBooksBalance ==
    ASSUME Sound(acct, book, paid), mark \in Int
    PROVE  BooksBalance
<1>1. acct \in Account /\ paid \in Payments
  BY DEF Sound
<1>2. /\ acct.wallet \in Int /\ acct.pos \in [Side -> Position] /\ acct.realized \in Int
      /\ acct.fees \in Int /\ acct.funding \in Int /\ acct.cost \in Int
      /\ paid.cash \in Int /\ paid.forgiven \in Int /\ paid.drift \in Int
      /\ Opening \in Int
  BY <1>1, LedgerAssumption DEF Account, Payments
<1>3. TradesExplainTheWallet
  BY DEF Sound, Explained, Matched, TradesExplainTheWallet
<1> DEFINE gain  == [s \in Side |-> acct.pos[s].qty
                                       * (ValuationMark(acct.pos[s]) - acct.pos[s].entry)]
           worth == [s \in Side |-> acct.pos[s].qty * ValuationMark(acct.pos[s])]
           cost  == [s \in Side |-> Worth(acct.pos[s])]
<1>4. gain \in [Side -> Int] /\ worth \in [Side -> Int] /\ cost \in [Side -> Int]
      /\ \A s \in Side : worth[s] = cost[s] + gain[s]
  <2> SUFFICES ASSUME NEW s \in Side
               PROVE  gain[s] \in Int /\ worth[s] \in Int /\ cost[s] \in Int
                      /\ worth[s] = cost[s] + gain[s]
    OBVIOUS
  <2>1. PICK q, e, m : q = acct.pos[s].qty /\ e = acct.pos[s].entry
                         /\ m = ValuationMark(acct.pos[s])
    OBVIOUS
  <2>2. q \in Int /\ e \in Int /\ m \in Int
    BY <1>2, <2>1 DEF Position, ValuationMark
  <2>3. gain[s] = q * (m - e) /\ worth[s] = q * m /\ cost[s] = q * e
    BY <2>1 DEF Worth
  <2>4. q * m \in Int /\ q * e \in Int /\ q * (m - e) = q * m - q * e
    BY <2>2
  <2> HIDE DEF gain, worth, cost
  <2> QED  BY <2>3, <2>4
<1>5. Unrealized(acct) = Total(gain)
  BY DEF Unrealized
<1>6. acct.realized - acct.cost = paid.cash + paid.forgiven + paid.drift + Total(cost)
  BY DEF Sound, Valued
<1> DEFINE parts == Attribution(acct)
<1>7. /\ parts.price = acct.realized + Unrealized(acct) - acct.cost
      /\ parts.funding = acct.funding /\ parts.fees = acct.fees /\ parts.cost = acct.cost
      /\ parts.net = (acct.wallet + Unrealized(acct)) - Opening
  <2>1. parts = [price |-> acct.realized + Unrealized(acct) - acct.cost,
                 funding |-> acct.funding, fees |-> acct.fees, cost |-> acct.cost,
                 net |-> (acct.wallet + Unrealized(acct)) - Opening]
    BY DEF Attribution, Equity
  <2> HIDE DEF parts
  <2> QED  BY <2>1
<1> HIDE DEF gain, worth, cost, parts
<1>8. /\ Total(worth) = Total(cost) + Total(gain)
      /\ Total(worth) \in Int /\ Total(cost) \in Int /\ Total(gain) \in Int
  BY <1>4, TotalOfSum, TotalIsWhole
<1>9. parts.price = paid.cash + Total(worth) + paid.forgiven + paid.drift
  BY <1>2, <1>5, <1>6, <1>7, <1>8
<1>10. parts.net = parts.price + parts.funding - parts.fees + parts.cost
  <2>1. acct.wallet - Opening = acct.realized + acct.funding - acct.fees
    BY DEF Sound, Attributed
  <2> QED  BY <1>2, <1>5, <1>7, <1>8, <2>1
<1>11. \A s \in Side : acct.signed[s] = acct.pos[s].qty
  BY DEF Sound, Signed
<1>12. ProfitIsWhatWasPaid
  BY <1>9, <1>10, <1>11 DEF ProfitIsWhatWasPaid, parts, worth
<1> QED  BY <1>3, <1>12 DEF BooksBalance
-----------------------------------------------------------------------------
(* The inductive invariant: the books are sound, and the rest of the state *)
(* has the values the actions read.                                        *)

Bars == Prices \X Prices \X Prices

LedgerInv ==
    /\ Sound(acct, book, paid)
    /\ hedge \in BOOLEAN /\ lev \in Nat \ {0}
    /\ mark \in Prices \cup {NoMark} /\ pending \in Bars \cup {NoBar}

(* What is assumed of the constants.                                       *)
LEMMA Constants ==
    /\ Prices \subseteq Nat \ {0} /\ Sizes \subseteq Nat \ {0} /\ Amounts \subseteq Nat \ {0}
    /\ Leverages \subseteq Nat \ {0} /\ FeeRates \subseteq Nat /\ FundingRates \subseteq Int
    /\ DefaultLeverage \in Leverages /\ Opening \in Int /\ RateDen \in Nat \ {0}
BY LedgerAssumption

(* The mark is a whole number, before the first one too.                   *)
LEMMA MarkIsWhole ==
    ASSUME LedgerInv
    PROVE  mark \in Int
BY Constants DEF LedgerInv, NoMark

(* A new account is sound.                                                 *)
LEMMA InitHolds ==
    ASSUME Init
    PROVE  LedgerInv
<1>1. /\ acct = [wallet |-> Opening, pos |-> [s \in Side |-> Flat],
                  signed |-> [s \in Side |-> 0], realized |-> 0, fees |-> 0, funding |-> 0,
                  cost |-> 0, wasNegative |-> FALSE, violated |-> "none"]
      /\ book = [open |-> [s \in Side |-> NoTrade], closedNet |-> 0]
      /\ paid = [cash |-> 0, forgiven |-> 0, drift |-> 0]
  BY DEF Init
<1>2. acct \in Account /\ book \in Trades /\ paid \in Payments
  <2>1. Flat \in Position /\ NoTrade \in Trade
    BY DEF Flat, Position, NoTrade, Trade
  <2>2. acct \in Account
    BY <1>1, <2>1, Constants DEF Account
  <2>3. book \in Trades /\ paid \in Payments
    BY <1>1, <2>1 DEF Trades, Payments
  <2> QED  BY <2>2, <2>3
<1>3. \A s \in Side : /\ acct.pos[s] = Flat /\ acct.signed[s] = 0
                      /\ book.open[s] = NoTrade
  BY <1>1
<1>4. Explained(acct, book)
  <2> DEFINE nets == [s \in Side |-> Net(book.open[s])]
  <2>1. \A s \in Side : nets[s] = 0
    BY <1>3 DEF Net, NoTrade
  <2> HIDE DEF nets
  <2>2. Total(nets) = 0
    BY <2>1 DEF Total, Side
  <2>3. acct.wallet - Opening = book.closedNet + Total(nets)
    BY <1>1, <2>2, Constants
  <2> QED  BY <2>3 DEF Explained, nets
<1>5. Valued(acct, paid)
  <2> DEFINE worths == [s \in Side |-> Worth(acct.pos[s])]
  <2>1. \A s \in Side : worths[s] = 0
    BY <1>3 DEF Worth, Flat
  <2> HIDE DEF worths
  <2>2. Total(worths) = 0
    BY <2>1 DEF Total, Side
  <2>3. acct.realized - acct.cost = paid.cash + paid.forgiven + paid.drift + Total(worths)
    BY <1>1, <2>2
  <2> QED  BY <2>3 DEF Valued, worths
<1>6. Matched(acct, book) /\ Signed(acct)
  BY <1>3 DEF Matched, Signed, Flat, NoTrade, SignOf, AbsOf
<1>7. Attributed(acct)
  BY <1>1, Constants DEF Attributed
<1>8. Sound(acct, book, paid)
  BY <1>2, <1>4, <1>5, <1>6, <1>7 DEF Sound
<1> QED  BY <1>8, Constants DEF Init, LedgerInv

-----------------------------------------------------------------------------
(* The actions.                                                            *)

(* The values a fill is made of are whole.                                 *)
LEMMA FillValues ==
    ASSUME LedgerInv, NEW s \in Side, NEW q \in Int, q # 0, NEW price \in Prices,
           NEW rate \in FeeRates
    PROVE  /\ acct.pos[s] \in Position
           /\ After(acct.pos[s], q, price) \in Position
           /\ Realized(acct.pos[s], q, price) \in Int
           /\ Quantized(AbsOf(q) * price * rate, RateDen) \in Int
<1>1. acct.pos[s] \in Position
  BY DEF LedgerInv, Sound, Account
<1>2. price \in Int /\ rate \in Int /\ RateDen \in Nat \ {0}
  BY Constants
<1>3. AbsOf(q) * price * rate \in Int
  BY <1>2, Signs
<1>4. Quantized(AbsOf(q) * price * rate, RateDen) \in Int
  BY <1>2, <1>3, QuantizedIsWhole
<1> QED  BY <1>1, <1>2, <1>4, Moved, PaidFor

PaidFill(y, cash, drift) == [y EXCEPT !.cash = @ - cash, !.drift = drift]

(* The payments after a fill, field by field.                              *)
LEMMA PaidFillIs ==
    ASSUME NEW y \in Payments, NEW cash \in Int, NEW drift \in Int
    PROVE  PaidFill(y, cash, drift)
           = [cash |-> y.cash - cash, forgiven |-> y.forgiven, drift |-> drift]
<1> SUFFICES ASSUME NEW z, z = [y EXCEPT !.cash = @ - cash, !.drift = drift]
             PROVE  z = [cash |-> y.cash - cash, forgiven |-> y.forgiven, drift |-> drift]
  BY DEF PaidFill
<1> QED  BY DEF Payments

(* What a fill pays, and what the average of its entry loses.              *)
LEMMA FillPays ==
    ASSUME NEW s \in Side, NEW q \in Int, q # 0, NEW price \in Prices, NEW rate \in FeeRates,
           LedgerInv, Fill(s, q, price, rate)
    PROVE  paid' = [cash |-> paid.cash - q * price, forgiven |-> paid.forgiven,
                    drift |-> paid.drift + Drift(acct.pos[s], q, price)]
<1> DEFINE p     == acct.pos[s]
           a     == After(p, q, price)
           drift == IF IsOpen(p) /\ Grows(p, q)
                    THEN paid.drift + (p.qty * p.entry + q * price) - a.qty * a.entry
                    ELSE paid.drift
<1>1. paid \in Payments /\ p \in Position /\ a \in Position /\ price \in Int
  BY FillValues, Constants DEF LedgerInv, Sound
<1>2. /\ p.qty \in Int /\ p.entry \in Int /\ a.qty \in Int /\ a.entry \in Int
      /\ paid.drift \in Int
  BY <1>1 DEF Position, Payments
<1>3. paid' = PaidFill(paid, q * price, drift)
  BY DEF Fill, PaidFill
<1>4. Drift(p, q, price) = IF IsOpen(p) /\ Grows(p, q)
                           THEN (p.qty * p.entry + q * price) - a.qty * a.entry ELSE 0
  BY DEF Drift
<1> HIDE DEF p, a
<1>5. q * price \in Int /\ p.qty * p.entry \in Int /\ a.qty * a.entry \in Int
  BY <1>1, <1>2
<1>6. drift \in Int /\ drift = paid.drift + Drift(p, q, price)
  <2>1. PICK m, n, k : m = p.qty * p.entry /\ n = q * price /\ k = a.qty * a.entry
    OBVIOUS
  <2>2. m \in Int /\ n \in Int /\ k \in Int
    BY <1>5, <2>1
  <2>3. drift = (IF IsOpen(p) /\ Grows(p, q) THEN paid.drift + (m + n) - k ELSE paid.drift)
    BY <2>1
  <2>4. Drift(p, q, price) = (IF IsOpen(p) /\ Grows(p, q) THEN (m + n) - k ELSE 0)
    BY <1>4, <2>1
  <2> HIDE DEF drift
  <2> QED  BY <1>2, <2>2, <2>3, <2>4
<1> HIDE DEF drift
<1>7. paid' = [cash |-> paid.cash - q * price, forgiven |-> paid.forgiven, drift |-> drift]
  BY <1>1, <1>3, <1>5, <1>6, PaidFillIs
<1> QED  BY <1>6, <1>7 DEF p

(* A fill keeps the invariant.                                             *)
LEMMA FillKeeps ==
    ASSUME NEW s \in Side, NEW q \in Int, q # 0, NEW price \in Prices, NEW rate \in FeeRates,
           LedgerInv, Fill(s, q, price, rate)
    PROVE  LedgerInv'
<1> DEFINE p    == acct.pos[s]
           a    == After(p, q, price)
           gain == Realized(p, q, price)
           fee  == Quantized(AbsOf(q) * price * rate, RateDen)
           u    == AfterFill(acct, s, q, a, gain, fee)
           c    == Booked(book, s, q, fee, gain, p.qty, a.qty)
<1>1. Sound(acct, book, paid) /\ acct \in Account /\ price \in Int
  BY Constants DEF LedgerInv, Sound
<1>2. p \in Position /\ a \in Position /\ gain \in Int /\ fee \in Int
  BY FillValues
<1>3. acct' = Checked(u, FALSE) /\ book' = c
  BY DEF Fill, AfterFill
<1>4. UNCHANGED <<hedge, lev, mark, pending>>
  BY DEF Fill
<1>5. paid' = [cash |-> paid.cash - q * price, forgiven |-> paid.forgiven,
               drift |-> paid.drift + Drift(p, q, price)]
  BY FillPays
<1>6. p = acct.pos[s] /\ a = After(p, q, price) /\ gain = Realized(p, q, price)
  OBVIOUS
<1> HIDE DEF p, a, gain, fee
<1>7. u = [wallet |-> acct.wallet + gain - fee, pos |-> [acct.pos EXCEPT ![s] = a],
           signed |-> [acct.signed EXCEPT ![s] = @ + q], realized |-> acct.realized + gain,
           fees |-> acct.fees + fee, funding |-> acct.funding, cost |-> acct.cost,
           wasNegative |-> acct.wasNegative, violated |-> acct.violated]
  BY <1>1, <1>2, AfterFillIs
<1> HIDE DEF u
<1>8. Sound(u, c, paid')
  BY <1>1, <1>2, <1>5, <1>6, <1>7, FillIsSound
<1>9. Sound(acct', book', paid')
  BY <1>3, <1>8, CheckedIsSound
<1> QED  BY <1>4, <1>9 DEF LedgerInv
(* The check of a bar keeps the invariant: the low, the high, the close.   *)
LEMMA CheckKeeps ==
    ASSUME LedgerInv, LiquidationCheck
    PROVE  LedgerInv'
<1> DEFINE st == [acct |-> acct, book |-> book, paid |-> paid]
<1>1. SoundState(st) /\ lev \in Nat \ {0}
  BY DEF LedgerInv, SoundState, State, Sound
<1>2. pending[1] \in Int /\ pending[2] \in Int /\ pending[3] \in Int
  <2>1. pending \in Bars
    BY DEF LedgerInv, LiquidationCheck
  <2>2. pending[1] \in Prices /\ pending[2] \in Prices /\ pending[3] \in Prices
    BY <2>1 DEF Bars
  <2>3. \A price \in Prices : price \in Int
    BY Constants
  <2> QED  BY <2>2, <2>3
<1> HIDE DEF st
<1> DEFINE low   == CheckedAt(st, pending[1])
           high  == CheckedAt(low, pending[2])
           ended == CheckedAt(high, pending[3])
<1>3. acct' = ended.acct /\ book' = ended.book /\ paid' = ended.paid
  BY DEF LiquidationCheck, st
<1>4. SoundState(low)
  BY <1>1, <1>2, CheckedAtIsSound
<1> HIDE DEF low
<1>5. SoundState(high)
  BY <1>1, <1>2, <1>4, CheckedAtIsSound
<1> HIDE DEF high
<1>6. SoundState(ended)
  BY <1>1, <1>2, <1>5, CheckedAtIsSound
<1> HIDE DEF ended
<1>7. Sound(acct', book', paid')
  BY <1>3, <1>6 DEF SoundState
<1>8. pending' = NoBar /\ UNCHANGED <<hedge, lev, mark>>
  BY DEF LiquidationCheck
<1> QED  BY <1>7, <1>8 DEF LedgerInv

(* A settlement keeps the invariant, and changes no quantity.              *)
LEMMA FundingKeeps ==
    ASSUME LedgerInv, NEW rate \in FundingRates, Funding(rate)
    PROVE  LedgerInv' /\ acct'.signed = acct.signed
<1> DEFINE flow == [s \in Side |-> (-acct.pos[s].qty * mark * rate) \div RateDen]
<1>1. Sound(acct, book, paid) /\ acct \in Account /\ book \in Trades
  BY DEF LedgerInv, Sound
<1>2. \A s \in Side : flow[s] \in Int /\ (acct.pos[s].qty = 0 => flow[s] = 0)
  <2> TAKE s \in Side
  <2>1. PICK q : q = acct.pos[s].qty
    OBVIOUS
  <2>2. q \in Int /\ mark \in Int /\ rate \in Int /\ RateDen \in Nat \ {0}
    BY <1>1, <2>1, Constants, MarkIsWhole DEF Account, Position
  <2>3. flow[s] = (-q * mark * rate) \div RateDen
    BY <2>1
  <2>4. -q * mark * rate \in Int
    BY <2>2
  <2>5. q = 0 => -q * mark * rate = 0
    BY <2>2
  <2>6. 0 \div RateDen = 0
    BY <2>2
  <2> HIDE DEF flow
  <2> QED  BY <2>1, <2>2, <2>3, <2>4, <2>5, <2>6
<1>3. flow \in [Side -> Int]
  BY <1>2
<1> DEFINE u == AfterFunding(acct, flow)
<1>4. acct' = Checked(u, FALSE)
  BY DEF Funding, AfterFunding
<1>5. book' = TradesAfterFunding(book, flow)
  BY DEF Funding, TradesAfterFunding
<1> HIDE DEF flow
<1>6. Sound(u, book', paid)
  BY <1>1, <1>2, <1>3, <1>5, FundingIsSound
<1>7. u.signed = acct.signed
  BY <1>1 DEF AfterFunding, Account
<1> HIDE DEF u
<1>8. Sound(acct', book', paid)
  BY <1>4, <1>6, CheckedIsSound
<1>9. acct'.signed = acct.signed
  <2>1. u \in Account
    BY <1>6 DEF Sound
  <2> QED  BY <1>4, <1>7, <2>1, CheckedIsSame DEF SameMoney
<1>10. /\ UNCHANGED <<hedge, lev, mark, paid>> /\ mark # NoMark
       /\ pending' = IF pending = NoBar THEN <<mark, mark, mark>> ELSE pending
  BY DEF Funding
<1>11. pending' \in Bars \cup {NoBar}
  BY <1>10 DEF LedgerInv, Bars
<1>12. LedgerInv'
  BY <1>8, <1>10, <1>11 DEF LedgerInv
<1> QED  BY <1>9, <1>12

(* Only the extra margin of a position is transferred.                     *)
LEMMA TransferKeeps ==
    ASSUME LedgerInv, NEW s \in Side, NEW extra \in Int,
           acct' = [acct EXCEPT !.pos[s].extra = extra],
           UNCHANGED <<hedge, lev, mark, pending, book, paid>>
    PROVE  LedgerInv' /\ acct'.signed = acct.signed
<1>1. Sound(acct, book, paid) /\ acct \in Account
  BY DEF LedgerInv, Sound
<1>2. PICK p : p = acct.pos[s]
  OBVIOUS
<1>3. PICK r : r = [p EXCEPT !.extra = extra]
  OBVIOUS
<1>4. p \in Position
  BY <1>1, <1>2 DEF Account
<1>5. r = [qty |-> p.qty, entry |-> p.entry, extra |-> extra, funding |-> p.funding]
  BY <1>3, <1>4 DEF Position
<1>6. r \in Position /\ r.qty = p.qty /\ r.entry = p.entry
  BY <1>4, <1>5 DEF Position
<1>7. acct' = [wallet |-> acct.wallet, pos |-> [acct.pos EXCEPT ![s] = r],
               signed |-> acct.signed, realized |-> acct.realized, fees |-> acct.fees,
               funding |-> acct.funding, cost |-> acct.cost,
               wasNegative |-> acct.wasNegative, violated |-> acct.violated]
  <2>1. acct' = [acct EXCEPT !.pos[s] = r]
    BY <1>2, <1>3
  <2> QED  BY <1>1, <2>1 DEF Account
<1>8. acct' \in Account
  <2>1. [acct.pos EXCEPT ![s] = r] \in [Side -> Position]
    BY <1>1, <1>6 DEF Account
  <2> QED  BY <1>1, <1>7, <2>1 DEF Account
<1>9. SameMoney(acct', acct)
  <2>1. acct'.pos = [acct.pos EXCEPT ![s] = r] /\ acct.pos \in [Side -> Position]
    BY <1>1, <1>7 DEF Account
  <2>2. \A t \in Side : acct'.pos[t].qty = acct.pos[t].qty /\ acct'.pos[t].entry = acct.pos[t].entry
    BY <1>2, <1>6, <2>1
  <2>3. /\ acct'.wallet = acct.wallet /\ acct'.signed = acct.signed
        /\ acct'.realized = acct.realized /\ acct'.fees = acct.fees
        /\ acct'.funding = acct.funding /\ acct'.cost = acct.cost
    BY <1>7
  <2> QED  BY <2>2, <2>3 DEF SameMoney
<1>10. Sound(acct', book, paid)
  BY <1>1, <1>8, <1>9, SameMoneySameBooks
<1>11. LedgerInv'
  BY <1>10 DEF LedgerInv
<1> QED  BY <1>9, <1>11 DEF SameMoney

(* Adding margin keeps the invariant, and changes no quantity.             *)
LEMMA AddKeeps ==
    ASSUME LedgerInv, NEW s \in Side, NEW amount \in Amounts, AddMargin(s, amount)
    PROVE  LedgerInv' /\ acct'.signed = acct.signed
<1>1. acct.pos[s].extra + amount \in Int
  BY Constants DEF LedgerInv, Sound, Account, Position
<1>2. /\ acct' = [acct EXCEPT !.pos[s].extra = acct.pos[s].extra + amount]
      /\ UNCHANGED <<hedge, lev, mark, pending, book, paid>>
  BY DEF AddMargin
<1> QED  BY <1>1, <1>2, TransferKeeps

(* Removing margin keeps the invariant, and changes no quantity.           *)
LEMMA RemoveKeeps ==
    ASSUME LedgerInv, NEW s \in Side, NEW amount \in Amounts, RemoveMargin(s, amount)
    PROVE  LedgerInv' /\ acct'.signed = acct.signed
<1>1. acct.pos[s].extra - amount \in Int
  BY Constants DEF LedgerInv, Sound, Account, Position
<1>2. /\ acct' = [acct EXCEPT !.pos[s].extra = acct.pos[s].extra - amount]
      /\ UNCHANGED <<hedge, lev, mark, pending, book, paid>>
  BY DEF RemoveMargin
<1> QED  BY <1>1, <1>2, TransferKeeps

(* The sides in use are sides.                                             *)
LEMMA SidesAreSides == Sides \subseteq Side
BY DEF Sides, Side

(* The cases of a step: a fill or a check, or what leaves every quantity.  *)
LEMMA StepKeeps ==
    ASSUME LedgerInv, [Next]_vars
    PROVE  /\ LedgerInv'
           /\ \/ acct'.signed = acct.signed
              \/ pending' # pending
              \/ \E s \in Side, q \in Int, price \in Prices, rate \in FeeRates :
                    q # 0 /\ Fill(s, q, price, rate)
<1>1. CASE LiquidationCheck
  <2>1. pending' # pending
    BY <1>1 DEF LiquidationCheck
  <2> QED  BY <1>1, <2>1, CheckKeeps
<1>2. CASE \E rate \in FundingRates : Funding(rate)
  BY <1>2, FundingKeeps
<1>3. CASE \E s \in Sides, n \in Sizes, dir \in {-1, 1}, price \in Prices, rate \in FeeRates :
             Fill(s, dir * n, price, rate)
  <2>1. PICK s \in Sides, n \in Sizes, dir \in {-1, 1}, price \in Prices, rate \in FeeRates :
           Fill(s, dir * n, price, rate)
    BY <1>3
  <2>2. PICK q : q = dir * n
    OBVIOUS
  <2>3. q \in Int /\ q # 0 /\ s \in Side /\ Fill(s, q, price, rate)
    BY <2>1, <2>2, Constants, SidesAreSides
  <2> QED  BY <2>3, FillKeeps
<1>4. CASE \E low, high, close \in Prices :
             low <= close /\ close <= high /\ MarkBar(low, high, close)
  BY <1>4 DEF MarkBar, LedgerInv, Bars
<1>5. CASE \E s \in Sides, amount \in Amounts : AddMargin(s, amount)
  BY <1>5, AddKeeps, SidesAreSides
<1>6. CASE \E s \in Sides, amount \in Amounts : RemoveMargin(s, amount)
  BY <1>6, RemoveKeeps, SidesAreSides
<1>7. CASE \E leverage \in Leverages : SetLeverage(leverage)
  BY <1>7, Constants DEF SetLeverage, LedgerInv
<1>8. CASE UNCHANGED vars
  BY <1>8 DEF vars, LedgerInv
<1> QED  BY <1>1, <1>2, <1>3, <1>4, <1>5, <1>6, <1>7, <1>8 DEF Next

(* The invariant holds in every state.                                     *)
LEMMA LedgerInvHolds == Spec => []LedgerInv
<1>1. Init => LedgerInv
  BY InitHolds
<1>2. LedgerInv /\ [Next]_vars => LedgerInv'
  BY StepKeeps
<1> QED  BY <1>1, <1>2, PTL DEF Spec

(* The books balance after any history of fills, flips, funding, margin    *)
(* transfers and liquidations: the round trips add up to what the wallet   *)
(* gained, and the profit it attributes is what its fills and closes paid. *)
THEOREM BooksBalanceHolds == Spec => []BooksBalance
<1>1. LedgerInv => BooksBalance
  BY MarkIsWhole, SoundBooksBalance DEF LedgerInv
<1> QED  BY <1>1, LedgerInvHolds, PTL
-----------------------------------------------------------------------------
(* What is available after a fill.                                         *)

(* What a position reserves is a whole number of quanta.                   *)
LEMMA ReservedIsWhole ==
    ASSUME NEW p \in Position, lev \in Nat \ {0}
    PROVE  Reserved(p) \in Int
<1>1. Isolated(p) \in Int
  BY IsolatedIsWhole
<1> QED  BY <1>1 DEF Reserved, MaxOf

(* A fill takes from the available balance exactly what it required.       *)
LEMMA FillLeavesAvailable ==
    ASSUME NEW x \in Account, lev \in Nat \ {0}, NEW s \in Side, NEW a \in Position,
           NEW gain \in Int, NEW fee \in Int,
           NEW u \in Account, u.wallet = x.wallet + gain - fee, u.pos = [x.pos EXCEPT ![s] = a]
    PROVE  /\ Available(u) = Available(x) - ((Reserved(a) - Reserved(x.pos[s])) + fee - gain)
           /\ Available(x) \in Int
           /\ (Reserved(a) - Reserved(x.pos[s])) + fee - gain \in Int
<1> DEFINE held(d) == [t \in Side |-> Reserved(d.pos[t])]
<1>1. x.pos \in [Side -> Position] /\ u.pos \in [Side -> Position] /\ x.wallet \in Int
  BY DEF Account
<1>2. held(x) \in [Side -> Int] /\ held(u) \in [Side -> Int]
  BY <1>1, ReservedIsWhole
<1>3. /\ \A t \in Side \ {s} : held(u)[t] = held(x)[t]
      /\ held(u)[s] = Reserved(a) /\ held(x)[s] = Reserved(x.pos[s])
  BY <1>1
<1>4. Allocated(x) = Total(held(x)) /\ Allocated(u) = Total(held(u))
  BY DEF Allocated
<1> HIDE DEF held
<1>5. /\ Total(held(u)) = Total(held(x)) - held(x)[s] + held(u)[s]
      /\ Total(held(x)) \in Int
  BY <1>2, <1>3, TotalOfOne, TotalIsWhole
<1>6. Reserved(a) \in Int /\ Reserved(x.pos[s]) \in Int
  BY <1>1, ReservedIsWhole
<1> QED  BY <1>1, <1>3, <1>4, <1>5, <1>6 DEF Available

(* A fill that was funded leaves an available balance or does not lower    *)
(* it.                                                                     *)
LEMMA FillIsFunded ==
    ASSUME NEW s \in Side, NEW q \in Int, q # 0, NEW price \in Prices, NEW rate \in FeeRates,
           LedgerInv, Fill(s, q, price, rate)
    PROVE  Available(acct') >= MinOf(Available(acct), 0)
<1> DEFINE p    == acct.pos[s]
           a    == After(p, q, price)
           gain == Realized(p, q, price)
           fee  == Quantized(AbsOf(q) * price * rate, RateDen)
           u    == AfterFill(acct, s, q, a, gain, fee)
           required == (Reserved(a) - Reserved(p)) + fee - gain
<1>1. acct \in Account /\ lev \in Nat \ {0} /\ acct' \in Account
  <2>1. LedgerInv'
    BY FillKeeps
  <2> QED  BY <2>1 DEF LedgerInv, Sound
<1>2. p \in Position /\ a \in Position /\ gain \in Int /\ fee \in Int
  BY FillValues
<1>3. acct' = Checked(u, FALSE) /\ Funded(p, a, fee, gain)
  BY DEF Fill, AfterFill
<1> HIDE DEF a, gain, fee
<1>4. u = [wallet |-> acct.wallet + gain - fee, pos |-> [acct.pos EXCEPT ![s] = a],
           signed |-> [acct.signed EXCEPT ![s] = @ + q], realized |-> acct.realized + gain,
           fees |-> acct.fees + fee, funding |-> acct.funding, cost |-> acct.cost,
           wasNegative |-> acct.wasNegative, violated |-> acct.violated]
  BY <1>1, <1>2, AfterFillIs
<1> HIDE DEF u
<1>5. acct'.wallet = acct.wallet + gain - fee /\ acct'.pos = [acct.pos EXCEPT ![s] = a]
  <2>1. PICK v, n : Checked(u, FALSE) = [u EXCEPT !.violated = v, !.wasNegative = n]
    BY DEF Checked
  <2> QED  BY <1>3, <1>4, <2>1
<1>6. Available(acct') = Available(acct) - required /\ Available(acct) \in Int /\ required \in Int
  <2>1. PICK w : w = acct'
    OBVIOUS
  <2>2. w \in Account /\ w.wallet = acct.wallet + gain - fee /\ w.pos = [acct.pos EXCEPT ![s] = a]
    BY <1>1, <1>5, <2>1
  <2>3. /\ Available(w) = Available(acct) - ((Reserved(a) - Reserved(acct.pos[s])) + fee - gain)
        /\ Available(acct) \in Int
        /\ (Reserved(a) - Reserved(acct.pos[s])) + fee - gain \in Int
    BY <1>1, <1>2, <2>2, FillLeavesAvailable
  <2> QED  BY <2>1, <2>3
<1>7. required > 0 => required <= Available(acct)
  BY <1>3 DEF Funded
<1> HIDE DEF required
<1> QED  BY <1>6, <1>7 DEF MinOf

(* A fill that is accepted leaves an available balance or does not lower   *)
(* it, after any history of the account.                                   *)
THEOREM FillsAreFundedHolds == Spec => FillsAreFunded
<1> DEFINE Funds == \A s \in Sides : acct'.signed[s] # acct.signed[s] /\ pending' = pending =>
                      Available(acct') >= MinOf(Available(acct), 0)
<1>1. LedgerInv /\ [Next]_vars => Funds
  <2> SUFFICES ASSUME LedgerInv, [Next]_vars, NEW s \in Sides,
                      acct'.signed[s] # acct.signed[s], pending' = pending
               PROVE  Available(acct') >= MinOf(Available(acct), 0)
    OBVIOUS
  <2>1. PICK r \in Side, q \in Int, price \in Prices, rate \in FeeRates :
           q # 0 /\ Fill(r, q, price, rate)
    BY StepKeeps
  <2> QED  BY <2>1, FillIsFunded
<1>2. LedgerInv /\ [Next]_vars => [Funds]_vars
  BY <1>1
<1> QED  BY <1>2, LedgerInvHolds, PTL DEF Spec, FillsAreFunded
=============================================================================
