--------------------------- MODULE Engine_proofs ---------------------------
(* What becomes of an order under way: for any orders, sizes and limits.     *)
EXTENDS Engine, FiniteSetTheorems, TLAPS

(* One step for what every execution, removal or rejection does: the order's  *)
(* row, and the position with its clock and its exits.                        *)
LEMMA SettleTyped ==
    ASSUME TypeOK, NEW o \in Id, NEW left \in Nat, NEW lots \in 0 .. left,
           NEW s \in {"pending", "working"} \cup Ends, Settle(o, left, lots, s)
    PROVE  /\ order' \in [Id -> Row] /\ position' \in Int
           /\ overdue' \in BOOLEAN /\ latch' \in BOOLEAN /\ flatten' \subseteq Exit
<1>1. order[o] \in Row
  BY DEF TypeOK
<1>2. Gone(s) \in Row
  BY DEF Gone, NoOrder, Row, Ends
<1>3. [order[o] EXCEPT !.status = s, !.left = left - lots, !.done = @ + lots] \in Row
  <2>1. order[o].done + lots \in Nat /\ left - lots \in Nat
    BY <1>1 DEF Row
  <2>2. s \in {"none", "pending", "working"} \cup Ends
    OBVIOUS
  <2> DEFINE r == order[o]
  <2>3. [r EXCEPT !.status = s, !.left = left - lots, !.done = r.done + lots] \in Row
    <3> HIDE DEF r
    <3>1. r \in Row
      BY <1>1 DEF r
    <3> QED
      BY <3>1, <2>1, <2>2 DEF Row, r
  <2> QED
    BY <2>3
<1>4. order' \in [Id -> Row]
  BY <1>2, <1>3 DEF TypeOK, Settle
<1>5. position' \in Int
  BY <1>1 DEF TypeOK, Settle, Row
<1> QED
  BY <1>4, <1>5 DEF TypeOK, Settle, Kept

LEMMA SettleOne ==
    ASSUME TypeOK, NEW o \in Id, NEW left, NEW lots, NEW s, Settle(o, left, lots, s)
    PROVE  /\ \A p \in Id \ {o} : order'[p] = order[p]
           /\ order'[o].status = s
<1>1. order[o] \in Row
  BY DEF TypeOK
<1>2. Gone(s).status = s
  BY DEF Gone, NoOrder
<1>3. [order[o] EXCEPT !.status = s, !.left = left - lots, !.done = @ + lots].status = s
  BY <1>1 DEF Row
<1> QED
  BY <1>2, <1>3 DEF TypeOK, Settle

LEMMA TallyTyped ==
    ASSUME TypeOK, NEW o, NEW s, NEW accepted, Tally(o, s, accepted)
    PROVE  /\ streak' \in Nat /\ breach' \in {"none", "pending", "performed"}
           /\ breach' = "none" => streak' < MaxStreak
           /\ breach' = "performed" => breach = "performed"
  BY EngineAssumption DEF TypeOK, Tally

-----------------------------------------------------------------------------
(* The ways an order is executed or refused, each one Settle and one Tally.  *)

Within(o, lots) == order[o].reduce /\ lots # 0 => lots <= Abs(position) /\ ~ Nothing2Reduce(o)

Settles(o) ==
    \E left \in Nat : \E lots \in 0 .. left : \E s \in {"working"} \cup Ends :
         \E accepted \in BOOLEAN : /\ Settle(o, left, lots, s) /\ Tally(o, s, accepted)
                                 /\ Within(o, lots)

LEMMA ClampedBound ==
    ASSUME TypeOK, NEW o \in Id, NEW lots \in Nat
    PROVE  /\ Clamped(o, lots) \in 0 .. lots
           /\ order[o].reduce => Clamped(o, lots) <= Abs(position)
  BY DEF TypeOK, Clamped, Abs

(* A refusal executes nothing.                                               *)
LEMMA NothingSettles ==
    ASSUME TypeOK, NEW o \in Id, NEW left \in Nat, NEW s \in {"working"} \cup Ends,
           NEW accepted \in BOOLEAN, Settle(o, left, 0, s), Tally(o, s, accepted)
    PROVE  Settles(o)
<1>1. 0 \in 0 .. left /\ Within(o, 0)
  BY DEF Within
<1> QED
  BY <1>1 DEF Settles

(* An execution takes no more than the clamp leaves.                         *)
LEMMA TakenSettles ==
    ASSUME TypeOK, NEW o \in Id, NEW left \in Nat, NEW most \in 0 .. left,
           ~ Nothing2Reduce(o), NEW lots \in 0 .. Clamped(o, most),
           NEW s \in {"working"} \cup Ends,
           NEW accepted \in BOOLEAN, Settle(o, left, lots, s), Tally(o, s, accepted)
    PROVE  Settles(o)
<1>1. /\ Clamped(o, most) \in 0 .. most
      /\ order[o].reduce => Clamped(o, most) <= Abs(position)
  BY ClampedBound
<1>2. Abs(position) \in Int
  BY DEF TypeOK, Abs
<1>3. lots \in 0 .. left /\ Within(o, lots)
  BY <1>1, <1>2 DEF Within
<1> QED
  BY <1>3 DEF Settles

LEMMA ExecuteSettles ==
    ASSUME TypeOK, NEW o \in Id, NEW accepted \in BOOLEAN, Execute(o, accepted)
    PROVE  Settles(o)
<1>1. order[o].left \in Nat
  BY DEF TypeOK, Row
<1>2. CASE /\ Settle(o, order[o].left, 0, "cancelled")
           /\ Tally(o, "cancelled", accepted)
  BY <1>1, <1>2, NothingSettles DEF Ends
<1>3. CASE /\ Settle(o, order[o].left, 0, "rejected")
           /\ Tally(o, "rejected", FALSE)
  BY <1>1, <1>3, NothingSettles DEF Ends
<1>4. ASSUME NEW s \in {"filled", "expired"}, ~ Nothing2Reduce(o),
             Settle(o, order[o].left, Clamped(o, order[o].left), s), Tally(o, s, accepted)
      PROVE  Settles(o)
  <2>1. /\ order[o].left \in 0 .. order[o].left
        /\ Clamped(o, order[o].left) \in 0 .. Clamped(o, order[o].left)
    BY <1>1, ClampedBound
  <2> QED
    BY <1>1, <1>4, <2>1, TakenSettles DEF Ends
<1> QED
  BY <1>2, <1>3, <1>4 DEF Execute

LEMMA PlaceLimitSettles ==
    ASSUME TypeOK, NEW o \in Id, NEW left \in Nat, PlaceLimit(o, left)
    PROVE  Settles(o)
<1>1. CASE Settle(o, left, 0, "cancelled") /\ Tally(o, "cancelled", TRUE)
  BY <1>1, NothingSettles DEF Ends
<1>2. CASE Settle(o, left, 0, "rejected") /\ Tally(o, "rejected", FALSE)
  BY <1>2, NothingSettles DEF Ends
<1>3. ASSUME ~ Nothing2Reduce(o), NEW lots \in 0 .. Clamped(o, left),
             NEW s \in {"filled", "working", "expired"},
             Settle(o, left, lots, s), Tally(o, s, TRUE)
      PROVE  Settles(o)
  <2>1. left \in 0 .. left
    OBVIOUS
  <2> QED
    BY <1>3, <2>1, TakenSettles DEF Ends
<1> QED
  BY <1>1, <1>2, <1>3 DEF PlaceLimit

-----------------------------------------------------------------------------
(* Everything an arrival, a print or a mark does to the orders.             *)

(* A submission on the wire is known by its order.                          *)
Whole == \A i \in wire : i.action = "submit" => i = Instruct(i.order, "submit")

(* What an order that settles keeps of the invariant.                       *)
LEMMA SettlesTyped ==
    ASSUME TypeOK, NEW o \in Id, Settles(o), wire' \subseteq Instruction
    PROVE  /\ TypeOK'
           /\ \A p \in Id \ {o} : order'[p] = order[p]
           /\ order'[o].status \in {"working"} \cup Ends
           /\ breach' = "performed" => breach = "performed"
<1>1. PICK left \in Nat, lots \in Nat, s \in {"working"} \cup Ends, accepted \in BOOLEAN :
          lots <= left /\ Settle(o, left, lots, s) /\ Tally(o, s, accepted)
  BY DEF Settles
<1>2. /\ order' \in [Id -> Row] /\ position' \in Int
      /\ overdue' \in BOOLEAN /\ latch' \in BOOLEAN /\ flatten' \subseteq Exit
  BY <1>1, SettleTyped
<1>3. /\ streak' \in Nat /\ breach' \in {"none", "pending", "performed"}
      /\ breach' = "none" => streak' < MaxStreak
      /\ breach' = "performed" => breach = "performed"
  BY <1>1, TallyTyped
<1>4. TypeOK'
  BY <1>2, <1>3 DEF TypeOK
<1>5. /\ \A p \in Id \ {o} : order'[p] = order[p]
      /\ order'[o].status = s
  BY <1>1, SettleOne
<1> QED
  BY <1>1, <1>3, <1>4, <1>5

(* A cancellation or an expiry is tallied too: the streak stays as it is.   *)
LEMMA EndSettles ==
    ASSUME TypeOK, NEW o \in Id, NEW s \in {"cancelled", "expired"},
           Settle(o, order[o].left, 0, s), UNCHANGED <<streak, breach>>
    PROVE  Settles(o)
<1>1. order[o].left \in Nat
  BY DEF TypeOK, Row
<1>2. Tally(o, s, FALSE)
  BY EngineAssumption DEF TypeOK, Tally
<1> QED
  BY <1>1, <1>2, NothingSettles DEF Ends

(* What the orders keep from one step to the next.                          *)
IInv == TypeOK /\ Whole /\ RestsOnce /\ HaltedIsQuiet

Final == \A o \in Id : order[o].status \in Ends => order'[o] = order[o]

(* A reduce-only order that executes shrinks the position.                   *)
Shrinks ==
    \A o \in Id : Open(o) /\ order[o].reduce /\ order'[o] # order[o] /\ position' # position
                     => Abs(position') < Abs(position) /\ position' * position >= 0

(* An order that is sent is checked, unless it only reduces.                 *)
Checked ==
    \A o \in Id : order[o].status = "none" /\ order'[o].status = "pending" =>
        /\ position' = position
        /\ \A p \in Id \ {o} : order'[p] = order[p]
        /\ order'[o].reduce \/ Projected(Id \ {o}, order'[o].side, order'[o].left) <= Limit

Lawful == Final /\ Shrinks /\ Checked

LEMMA Reduction ==
    ASSUME TypeOK, NEW o \in Id, NEW lots \in Nat, lots # 0,
           order[o].reduce, Within(o, lots), position' = position + order[o].side * lots
    PROVE  Abs(position') < Abs(position) /\ position' * position >= 0
<1>1. position \in Int /\ order[o].side \in {1, -1}
  BY DEF TypeOK, Row
<1>2. lots <= Abs(position) /\ ~ position * order[o].side >= 0
  BY DEF Within, Nothing2Reduce
<1>3. CASE order[o].side = 1
  <2>1. position < 0 /\ position' = position + lots /\ position' <= 0
    BY <1>1, <1>2, <1>3 DEF Abs
  <2>2. position' * position >= 0
    BY <1>1, <2>1
  <2> QED
    BY <1>1, <2>1, <2>2 DEF Abs
<1>4. CASE order[o].side = -1
  <2>1. position > 0 /\ position' = position - lots /\ position' >= 0
    BY <1>1, <1>2, <1>4 DEF Abs
  <2>2. position' * position >= 0
    BY <1>1, <2>1
  <2> QED
    BY <1>1, <2>1, <2>2 DEF Abs
<1> QED
  BY <1>1, <1>3, <1>4

LEMMA SettlesShrinks ==
    ASSUME TypeOK, NEW o \in Id, Settles(o), order[o].reduce, position' # position
    PROVE  Abs(position') < Abs(position) /\ position' * position >= 0
<1>1. PICK lots \in Nat : Within(o, lots) /\ position' = position + order[o].side * lots
  BY DEF Settles, Settle
<1>2. lots # 0
  BY <1>1 DEF TypeOK, Row
<1> QED
  BY <1>1, <1>2, Reduction

LEMMA OrderIsOpen ==
    ASSUME TypeOK, NEW o \in Id, Open(o)
    PROVE  order[o].status \notin Ends
  BY DEF TypeOK, Open, Ends

(* An open order of a run that has not halted settles: it was in the book,  *)
(* or what would have placed it leaves the wire, or it does not rest.       *)
LEMMA SettlesKeeps ==
    ASSUME IInv, NEW o \in Id, Open(o), breach # "performed", Settles(o),
           wire' \subseteq wire \cup {Instruct(o, "expire")},
           \/ order[o].status = "working"
           \/ Instruct(o, "submit") \notin wire'
           \/ order'[o].status # "working"
    PROVE  IInv' /\ Lawful
<1>1. wire' \subseteq Instruction
  BY DEF IInv, TypeOK, Instruct, Instruction
<1>2. /\ TypeOK'
      /\ \A p \in Id \ {o} : order'[p] = order[p]
      /\ order'[o].status \in {"working"} \cup Ends
      /\ breach' = "performed" => breach = "performed"
  BY <1>1, SettlesTyped DEF IInv
<1>3. Whole'
  BY DEF IInv, Whole, Instruct
<1>4. RestsOnce'
  <2> SUFFICES ASSUME NEW p \in Id, order'[p].status = "working"
               PROVE  Instruct(p, "submit") \notin wire'
    BY DEF RestsOnce, Instruct
  <2>0. Instruct(p, "submit") # Instruct(o, "expire")
    BY DEF Instruct
  <2>1. CASE p = o
    BY <2>0, <2>1 DEF IInv, RestsOnce
  <2>2. CASE p # o
    BY <2>0, <2>2, <1>2 DEF IInv, RestsOnce
  <2> QED
    BY <2>1, <2>2
<1>5. HaltedIsQuiet'
  BY <1>2 DEF HaltedIsQuiet
<1>6. Final
  BY <1>2, OrderIsOpen DEF IInv, Final
<1>7. Shrinks
  BY <1>2, SettlesShrinks DEF IInv, Shrinks
<1>8. Checked
  BY <1>2 DEF Checked, Open
<1> QED
  BY <1>2, <1>3, <1>4, <1>5, <1>6, <1>7, <1>8 DEF IInv, Lawful

(* An instruction that finds nothing to do.                                 *)
LEMMA DroppedKeeps ==
    ASSUME IInv, Dropped, wire' \subseteq wire
    PROVE  IInv' /\ Lawful
<1>1. TypeOK'
  BY DEF IInv, TypeOK, Dropped
<1>2. Whole' /\ RestsOnce' /\ HaltedIsQuiet'
  BY DEF IInv, Dropped, Whole, RestsOnce, HaltedIsQuiet, Instruct, Open
<1>3. Lawful
  BY DEF Dropped, Final, Shrinks, Checked, Lawful
<1> QED
  BY <1>1, <1>2, <1>3 DEF IInv

-----------------------------------------------------------------------------
(* What could execute is finite, so that the projections are numbers.        *)

LotsOf(o, n) == {o} \X (1 .. n)

LEMMA LotsFinite ==
    ASSUME NEW o, NEW n \in Nat
    PROVE  IsFiniteSet(LotsOf(o, n)) /\ Cardinality(LotsOf(o, n)) = n
<1>1. IsFiniteSet({o}) /\ Cardinality({o}) = 1
  BY FS_Singleton
<1>2. IsFiniteSet(1 .. n) /\ Cardinality(1 .. n) = n
  BY FS_Interval
<1>3. /\ IsFiniteSet({o} \X (1 .. n))
      /\ Cardinality({o} \X (1 .. n)) = Cardinality({o}) * Cardinality(1 .. n)
  BY <1>1, <1>2, FS_Product
<1>4. 1 * n = n
  OBVIOUS
<1> QED
  BY <1>1, <1>2, <1>3, <1>4 DEF LotsOf

LEMMA AllFinite ==
    ASSUME TypeOK, NEW os \in SUBSET Id
    PROVE  IsFiniteSet(UNION {LotsOf(o, order[o].left) : o \in os})
<1> DEFINE F == {LotsOf(o, order[o].left) : o \in os}
           f == [o \in os |-> LotsOf(o, order[o].left)]
<1>1. IsFiniteSet(Id)
  BY EngineAssumption, FS_Union DEF Id
<1>2. IsFiniteSet(os)
  BY <1>1, FS_Subset
<1>3. f \in Surjection(os, F)
  BY DEF Surjection
<1>4. IsFiniteSet(F)
  BY <1>2, <1>3, FS_Surjection
<1>5. \A T \in F : IsFiniteSet(T)
  BY LotsFinite DEF TypeOK, Row
<1> QED
  BY <1>4, <1>5, FS_UNION

LEMMA ProjectedType ==
    ASSUME TypeOK, NEW among \in SUBSET Id, NEW d \in {1, -1}, NEW n \in Nat
    PROVE  Projected(among, d, n) \in Int
<1>1. ASSUME NEW side PROVE Working(side, among) \in Nat
  <2> DEFINE os == {o \in among : Open(o) /\ order[o].side = side /\ ~ order[o].reduce}
  <2>1. IsFiniteSet(UNION {LotsOf(o, order[o].left) : o \in os})
    BY AllFinite
  <2> QED
    BY <2>1, FS_CardinalityType DEF Working, LotsOf
<1>2. Working(1, among) \in Nat /\ Working(-1, among) \in Nat
  BY <1>1
<1> QED
  BY <1>2 DEF Projected, Abs, TypeOK

-----------------------------------------------------------------------------
(* One lemma for each kind of step.                                          *)

LEMMA ArriveKeeps ==
    ASSUME IInv, NEW i \in wire, Arrive(i)
    PROVE  IInv' /\ Lawful
<1> DEFINE o == i.order
<1>1. /\ TypeOK /\ Whole /\ RestsOnce /\ breach # "performed"
      /\ i \in Instruction /\ o \in Id /\ i.total \in Nat
  BY DEF IInv, TypeOK, Arrive, Instruction
<1>2. order[o].left \in Nat /\ order[o].done \in Nat
  BY <1>1 DEF TypeOK, Row
<1>3. CASE ~ Open(o)
  BY <1>3, DroppedKeeps DEF Arrive
<1>4. ASSUME Open(o), i.action = "submit", ArriveSubmit(o, i)
      PROVE  IInv' /\ Lawful
  <2>1. i = Instruct(o, "submit") /\ i # Instruct(o, "expire")
    BY <1>1, <1>4 DEF Whole, Instruct
  <2>2. /\ wire' \subseteq wire \cup {Instruct(o, "expire")}
        /\ i \notin wire'
    BY <1>4, <2>1 DEF ArriveSubmit
  <2>3. ASSUME Settle(o, order[o].left, 0, "working"), Tally(o, "working", TRUE)
        PROVE  Settles(o)
    BY <1>1, <1>2, <2>3, NothingSettles
  <2>4. Settles(o)
    BY <1>1, <1>2, <1>4, <2>3, ExecuteSettles, PlaceLimitSettles DEF ArriveSubmit
  <2> QED
    BY <1>1, <1>4, <2>1, <2>2, <2>4, SettlesKeeps
<1>5. ASSUME Open(o), wire' = wire \ {i}, ArriveCancel(o), i.action = "cancel"
      PROVE  IInv' /\ Lawful
  <2>1. Settles(o)
    BY <1>1, <1>5, EndSettles DEF ArriveCancel
  <2>2. order'[o].status = "cancelled"
    BY <1>1, <1>5, SettleOne DEF ArriveCancel
  <2> QED
    BY <1>1, <1>5, <2>1, <2>2, SettlesKeeps
<1>6. ASSUME Open(o), wire' = wire \ {i}, ApplyModify(o, i.total)
      PROVE  IInv' /\ Lawful
  <2>1. CASE Dropped
    BY <1>6, <2>1, DroppedKeeps
  <2>2. ASSUME order[o].status # "pending", i.total > order[o].done,
               PlaceLimit(o, i.total - order[o].done)
        PROVE  IInv' /\ Lawful
    <3>1. i.total - order[o].done \in Nat
      BY <1>1, <1>2, <2>2
    <3>2. Settles(o)
      BY <1>1, <2>2, <3>1, PlaceLimitSettles
    <3>3. order[o].status = "working"
      BY <1>6, <2>2 DEF Open
    <3> QED
      BY <1>1, <1>6, <3>2, <3>3, SettlesKeeps
  <2> QED
    BY <1>1, <1>2, <1>6, <2>1, <2>2 DEF ApplyModify
<1>7. ASSUME Open(o), wire' = wire \ {i}, ArriveExpire(o)
      PROVE  IInv' /\ Lawful
  <2>1. CASE Dropped
    BY <1>7, <2>1, DroppedKeeps
  <2>2. ASSUME order[o].status = "working", Settle(o, order[o].left, 0, "expired"),
               UNCHANGED <<streak, breach>>
        PROVE  IInv' /\ Lawful
    <3>1. Settles(o)
      BY <1>1, <2>2, EndSettles
    <3> QED
      BY <1>1, <1>7, <2>2, <3>1, SettlesKeeps
  <2> QED
    BY <1>7, <2>1, <2>2 DEF ArriveExpire
<1> QED
  BY <1>3, <1>4, <1>5, <1>6, <1>7 DEF Arrive

LEMMA MakerFillKeeps ==
    ASSUME IInv, NEW o \in Id, NEW lots \in 1 .. MaxLots, MakerFill(o, lots)
    PROVE  IInv' /\ Lawful
<1>1. /\ TypeOK /\ Open(o) /\ order[o].status = "working" /\ breach # "performed"
      /\ order[o].left \in Nat /\ lots \in Nat /\ lots <= order[o].left /\ wire' = wire
  BY EngineAssumption DEF IInv, TypeOK, Row, MakerFill, Open
<1>2. Settles(o)
  <2>1. CASE Settle(o, order[o].left, 0, "cancelled") /\ Tally(o, "cancelled", FALSE)
    BY <1>1, <2>1, NothingSettles DEF Ends
  <2>2. CASE Settle(o, order[o].left, 0, "rejected") /\ Tally(o, "rejected", FALSE)
    BY <1>1, <2>2, NothingSettles DEF Ends
  <2>3. ASSUME NEW s \in {"filled", "working"}, ~ Nothing2Reduce(o),
               Settle(o, order[o].left, Clamped(o, lots), s), Tally(o, s, FALSE)
        PROVE  Settles(o)
    <3>1. /\ lots \in 0 .. order[o].left
          /\ Clamped(o, lots) \in 0 .. Clamped(o, lots)
      BY <1>1, ClampedBound
    <3> QED
      BY <1>1, <2>3, <3>1, TakenSettles DEF Ends
  <2> QED
    BY <2>1, <2>2, <2>3 DEF MakerFill
<1> QED
  BY <1>1, <1>2, SettlesKeeps

LEMMA ServiceParkedKeeps ==
    ASSUME IInv, NEW o \in Id, ServiceParked(o)
    PROVE  IInv' /\ Lawful
<1>1. /\ TypeOK /\ Open(o) /\ order[o].status = "working" /\ breach # "performed"
      /\ wire' = wire
  BY DEF IInv, ServiceParked, Open
<1>2. Settles(o)
  BY <1>1, ExecuteSettles DEF ServiceParked
<1> QED
  BY <1>1, <1>2, SettlesKeeps

(* An order that is sent (a submission, a triggered stop, an exit): pending, *)
(* with what will place it on the wire, in a run that has not halted.        *)
LEMMA SentKeeps ==
    ASSUME IInv, NEW o \in Id, NEW r \in Row, r.status = "pending",
           order[o].status \notin Ends, breach = breach', breach # "performed",
           \/ order[o].status # "none" \/ r.reduce
           \/ Projected(Id \ {o}, r.side, r.left) <= Limit,
           order' = [order EXCEPT ![o] = r], wire' = wire \cup {Instruct(o, "submit")},
           position' = position, streak' = streak,
           overdue' \in BOOLEAN, latch' \in BOOLEAN, flatten' \subseteq Exit
    PROVE  IInv' /\ Lawful
<1>1. Instruct(o, "submit") \in Instruction
  BY DEF Instruct, Instruction
<1>2. TypeOK'
  BY <1>1 DEF IInv, TypeOK
<1>3. \A p \in Id : order'[p] = IF p = o THEN r ELSE order[p]
  BY DEF IInv, TypeOK
<1>4. Whole'
  BY DEF IInv, Whole, Instruct
<1>5. RestsOnce'
  BY <1>3 DEF IInv, RestsOnce, Instruct
<1>6. HaltedIsQuiet' /\ Final
  BY <1>3 DEF HaltedIsQuiet, Final
<1>7. Shrinks /\ Checked
  BY <1>3 DEF Shrinks, Checked
<1> QED
  BY <1>2, <1>4, <1>5, <1>6, <1>7 DEF IInv, Lawful

LEMMA SubmitKeeps ==
    ASSUME IInv, NEW o \in Order, NEW k \in Kind, NEW d \in {1, -1},
           NEW n \in 1 .. MaxLots, NEW r \in Reduces, Submit(o, k, d, n, r)
    PROVE  IInv' /\ Lawful
<1> DEFINE sent == [status |-> "pending", kind |-> k, side |-> d, reduce |-> r,
                    left |-> n, done |-> 0, triggered |-> FALSE]
<1>1. o \in Id /\ TypeOK /\ order[o].status = "none"
  BY DEF IInv, Id, Submit
<1>2. CASE Refuses(o, d, n, r)
  <2>1. Gone("rejected") \in Row /\ Gone("rejected").status = "rejected"
    BY DEF Gone, NoOrder, Row, Ends
  <2>2. order' = [order EXCEPT ![o] = Gone("rejected")] /\ wire' = wire
    BY <1>2 DEF Submit
  <2>3. \A p \in Id : order'[p] = IF p = o THEN Gone("rejected") ELSE order[p]
    BY <1>1, <2>2 DEF TypeOK
  <2>4. TypeOK'
    BY <1>1, <2>1, <2>2 DEF TypeOK, Submit
  <2>5. Whole' /\ RestsOnce'
    BY <2>1, <2>2, <2>3 DEF IInv, Whole, RestsOnce, Instruct
  <2>6. HaltedIsQuiet'
    BY <2>1, <2>3 DEF IInv, HaltedIsQuiet, Submit, Open
  <2>7. Final
    BY <1>1, <2>3 DEF Final, Ends
  <2>8. Shrinks /\ Checked
    BY <2>1, <2>3 DEF Shrinks, Checked, Submit
  <2> QED
    BY <2>4, <2>5, <2>6, <2>7, <2>8 DEF IInv, Lawful
<1>3. CASE ~ Refuses(o, d, n, r)
  <2>1. sent \in Row /\ sent.status = "pending"
    BY EngineAssumption DEF Row
  <2>2. breach # "performed" /\ order[o].status \notin Ends
    BY <1>1, <1>3 DEF Refuses, Ends
  <2>3. /\ order' = [order EXCEPT ![o] = sent]
        /\ wire' = wire \cup {Instruct(o, "submit")}
        /\ UNCHANGED <<position, streak, breach, overdue, latch, flatten>>
    BY <1>3 DEF Submit
  <2>4. overdue' \in BOOLEAN /\ latch' \in BOOLEAN /\ flatten' \subseteq Exit
    BY <1>1, <2>3 DEF TypeOK
  <2>5. sent.reduce \/ Projected(Id \ {o}, sent.side, sent.left) <= Limit
    <3>1. r \/ Projected(Id \ {o}, d, n) <= Limit
      <4>1. CASE r
        BY <4>1
      <4>2. CASE ~ r
        <5>1. ~ Projected(Id \ {o}, d, n) > Limit
          BY <1>3, <4>2 DEF Refuses
        <5>2. Projected(Id \ {o}, d, n) \in Int /\ Limit \in Int
          BY <1>1, EngineAssumption, ProjectedType
        <5> QED
          BY <5>1, <5>2
      <4> QED
        BY <4>1, <4>2, EngineAssumption
    <3> QED
      BY <3>1
  <2> QED
    BY <1>1, <2>1, <2>2, <2>3, <2>4, <2>5, SentKeeps
<1> QED
  BY <1>2, <1>3

LEMMA FireTriggerKeeps ==
    ASSUME IInv, NEW o \in Id, FireTrigger(o)
    PROVE  IInv' /\ Lawful
<1>1. order[o] \in Row
  BY DEF IInv, TypeOK
<1>2. Fired(o) \in Row /\ Fired(o).status = "pending"
  BY <1>1 DEF Fired, Row
<1>3. order[o].status \notin Ends
  BY DEF FireTrigger, Ends
<1>4. overdue' \in BOOLEAN /\ latch' \in BOOLEAN /\ flatten' \subseteq Exit
  BY DEF IInv, TypeOK, FireTrigger
<1> QED
  BY <1>2, <1>3, <1>4, SentKeeps DEF FireTrigger

LEMMA AutoFlattenKeeps ==
    ASSUME IInv, NEW e \in Exit, AutoFlatten(e)
    PROVE  IInv' /\ Lawful
<1> DEFINE sent == [status |-> "pending", kind |-> "market",
                    side |-> IF position > 0 THEN -1 ELSE 1, reduce |-> TRUE,
                    left |-> Abs(position), done |-> 0, triggered |-> FALSE]
<1>1. e \in Id /\ position \in Int
  BY DEF Id, IInv, TypeOK
<1>2. sent \in Row /\ sent.status = "pending"
  BY <1>1 DEF Row, Abs
<1>3. /\ order[e].status \notin Ends /\ breach = breach' /\ breach # "performed"
      /\ order' = [order EXCEPT ![e] = sent]
      /\ wire' = wire \cup {Instruct(e, "submit")}
      /\ position' = position /\ streak' = streak
  BY DEF AutoFlatten, Ends
<1>4. overdue' \in BOOLEAN /\ latch' \in BOOLEAN /\ flatten' \subseteq Exit
  BY DEF IInv, TypeOK, AutoFlatten
<1> QED
  BY <1>1, <1>2, <1>3, <1>4, SentKeeps

(* A request to cancel or to amend changes the wire alone.                   *)
LEMMA AskedKeeps ==
    ASSUME IInv, NEW i \in Instruction, i.action # "submit", wire' = wire \cup {i},
           UNCHANGED <<order, position, streak, breach, overdue, latch, flatten>>
    PROVE  IInv' /\ Lawful
<1>1. TypeOK'
  BY DEF IInv, TypeOK
<1>2. Whole' /\ RestsOnce'
  BY DEF IInv, Whole, RestsOnce, Instruct
<1>3. HaltedIsQuiet' /\ Lawful
  BY DEF IInv, HaltedIsQuiet, Open, Final, Shrinks, Checked, Lawful
<1> QED
  BY <1>1, <1>2, <1>3 DEF IInv

LEMMA CancelKeeps ==
    ASSUME IInv, NEW o \in Id, Cancel(o)
    PROVE  IInv' /\ Lawful
<1>1. Instruct(o, "cancel") \in Instruction /\ Instruct(o, "cancel").action # "submit"
  BY DEF Instruct, Instruction
<1> QED
  BY <1>1, AskedKeeps DEF Cancel

LEMMA ModifyKeeps ==
    ASSUME IInv, NEW o \in Id, NEW n \in 1 .. MaxTotal, Modify(o, n)
    PROVE  IInv' /\ Lawful
<1> DEFINE i == [order |-> o, action |-> "modify", total |-> n]
<1>1. i \in Instruction /\ i.action # "submit"
  BY EngineAssumption DEF Instruction
<1> QED
  BY <1>1, AskedKeeps DEF Modify

(* A liquidation and a halt take every order out of the book at once.        *)
LEMMA RemovedKeeps ==
    ASSUME IInv, order' = Removed, UNCHANGED <<wire, streak>>, position' \in {position, 0},
           breach' \in {"none", "pending", "performed"},
           breach' = "none" => breach = "none",
           overdue' \in BOOLEAN, latch' \in BOOLEAN, flatten' \subseteq Exit
    PROVE  IInv' /\ Lawful
<1>1. Gone("cancelled") \in Row /\ Gone("cancelled").status = "cancelled"
  BY DEF Gone, NoOrder, Row, Ends
<1>2. /\ order' \in [Id -> Row]
      /\ \A p \in Id : order'[p] = IF Open(p) THEN Gone("cancelled") ELSE order[p]
  BY <1>1 DEF IInv, TypeOK, Removed
<1>3. TypeOK'
  BY <1>2 DEF IInv, TypeOK
<1>4. \A p \in Id : order'[p].status \notin {"pending", "working"}
  BY <1>1, <1>2 DEF Open
<1>5. Whole' /\ RestsOnce' /\ HaltedIsQuiet'
  BY <1>4 DEF IInv, Whole, RestsOnce, HaltedIsQuiet, Open, Instruct
<1>6. Final
  BY <1>2 DEF Final, Open, Ends
<1>7. Shrinks
  <2>1. position \in Int
    BY DEF IInv, TypeOK
  <2>2. position' # position => position' = 0 /\ position # 0
    OBVIOUS
  <2>3. position' # position => position' * position >= 0
    BY <2>1, <2>2
  <2>4. position' # position => Abs(position') < Abs(position)
    BY <2>1, <2>2 DEF Abs
  <2> QED
    BY <2>3, <2>4, Zenon DEF Shrinks
<1>8. Checked
  BY <1>4 DEF Checked
<1> QED
  BY <1>3, <1>5, <1>6, <1>7, <1>8 DEF IInv, Lawful

LEMMA LiquidateKeeps == ASSUME IInv, Liquidate PROVE IInv' /\ Lawful
<1>1. breach' \in {"none", "pending", "performed"} /\ breach = "none"
  BY DEF Liquidate
<1>2. overdue' \in BOOLEAN /\ latch' \in BOOLEAN
  BY DEF Liquidate
<1>3. flatten' \subseteq Exit /\ position' \in {position, 0}
  BY DEF Liquidate
<1>4. order' = Removed /\ UNCHANGED <<wire, streak>>
  BY DEF Liquidate
<1> QED
  BY <1>1, <1>2, <1>3, <1>4, RemovedKeeps

LEMMA EquityBreachKeeps == ASSUME IInv, EquityBreach PROVE IInv' /\ Lawful
<1>1. TypeOK'
  BY DEF IInv, TypeOK, EquityBreach
<1>2. Whole' /\ RestsOnce' /\ HaltedIsQuiet'
  BY DEF IInv, EquityBreach, Whole, RestsOnce, HaltedIsQuiet, Instruct
<1>3. Lawful
  BY DEF EquityBreach, Final, Shrinks, Checked, Lawful
<1> QED
  BY <1>1, <1>2, <1>3 DEF IInv

LEMMA PerformHaltKeeps == ASSUME IInv, PerformHalt PROVE IInv' /\ Lawful
<1>1. position' \in {position, 0} /\ overdue' \in BOOLEAN /\ latch' \in BOOLEAN /\ flatten' \subseteq Exit
  BY DEF IInv, TypeOK, PerformHalt, Kept
<1>2. breach' = "performed"
  BY DEF PerformHalt
<1> QED
  BY <1>1, <1>2, RemovedKeeps DEF PerformHalt

-----------------------------------------------------------------------------
THEOREM InitIInv == EngineInit => IInv
<1> SUFFICES ASSUME EngineInit PROVE IInv
  OBVIOUS
<1>1. NoOrder \in Row /\ NoOrder.status = "none"
  BY DEF NoOrder, Row, Ends
<1>2. TypeOK
  <2>1. order \in [Id -> Row]
    BY <1>1 DEF EngineInit
  <2>2. wire \subseteq Instruction /\ flatten \subseteq Exit
    BY DEF EngineInit
  <2>3. overdue \in BOOLEAN /\ latch \in BOOLEAN
    BY DEF EngineInit
  <2>4. /\ position \in Int /\ streak \in Nat /\ streak < MaxStreak
        /\ breach \in {"none", "pending", "performed"}
    BY EngineAssumption DEF EngineInit
  <2> QED
    BY <2>1, <2>2, <2>3, <2>4 DEF TypeOK
<1>3. Whole /\ RestsOnce /\ HaltedIsQuiet
  BY DEF EngineInit, Whole, RestsOnce, HaltedIsQuiet
<1> QED
  BY <1>2, <1>3 DEF IInv

THEOREM NextIInv == IInv /\ [EngineNext]_engine_vars => IInv' /\ Lawful
<1> SUFFICES ASSUME IInv, [EngineNext]_engine_vars PROVE IInv' /\ Lawful
  OBVIOUS
<1>1. ASSUME NEW o \in Order, NEW k \in Kind, NEW d \in {1, -1}, NEW n \in 1 .. MaxLots,
             NEW r \in Reduces, Submit(o, k, d, n, r)
      PROVE  IInv' /\ Lawful
  BY <1>1, SubmitKeeps
<1>2. ASSUME NEW o \in Order, Cancel(o) PROVE IInv' /\ Lawful
  BY <1>2, CancelKeeps DEF Id
<1>3. ASSUME NEW o \in Order, NEW n \in 1 .. MaxTotal, Modify(o, n) PROVE IInv' /\ Lawful
  BY <1>3, ModifyKeeps DEF Id
<1>4. ASSUME NEW o \in Id, NEW n \in 1 .. MaxLots, MakerFill(o, n) PROVE IInv' /\ Lawful
  BY <1>4, MakerFillKeeps
<1>5. ASSUME NEW o \in Id, ServiceParked(o) PROVE IInv' /\ Lawful
  BY <1>5, ServiceParkedKeeps
<1>6. ASSUME NEW o \in Id, FireTrigger(o) PROVE IInv' /\ Lawful
  BY <1>6, FireTriggerKeeps
<1>7. ASSUME NEW i \in wire, Arrive(i) PROVE IInv' /\ Lawful
  BY <1>7, ArriveKeeps
<1>8. ASSUME NEW e \in Exit, AutoFlatten(e) PROVE IInv' /\ Lawful
  BY <1>8, AutoFlattenKeeps
<1>9. CASE Liquidate
  BY <1>9, LiquidateKeeps
<1>10. CASE EquityBreach
  BY <1>10, EquityBreachKeeps
<1>11. CASE PerformHalt
  BY <1>11, PerformHaltKeeps
<1>12. CASE UNCHANGED engine_vars
  <2>1. Dropped /\ wire' \subseteq wire
    BY <1>12 DEF engine_vars, Dropped
  <2> QED
    BY <2>1, DroppedKeeps
<1> QED
  BY <1>1, <1>2, <1>3, <1>4, <1>5, <1>6, <1>7, <1>8, <1>9, <1>10, <1>11, <1>12 DEF EngineNext

(* Whatever the orders and the limits, every row, instruction and counter   *)
(* stays in its range; below MaxStreak, as long as no halt was asked for.   *)
THEOREM TypeCorrect == EngineSpec => []TypeOK
<1>1. IInv => TypeOK
  BY DEF IInv
<1> QED
  BY InitIInv, NextIInv, <1>1, PTL DEF EngineSpec

(* No order is placed twice, by an amendment that overtakes it or otherwise. *)
THEOREM OrdersRestOnce == EngineSpec => []RestsOnce
<1>1. IInv => RestsOnce
  BY DEF IInv
<1> QED
  BY InitIInv, NextIInv, <1>1, PTL DEF EngineSpec

(* A run that has halted has no order left, and none comes back.            *)
THEOREM HaltIsQuiet == EngineSpec => []HaltedIsQuiet
<1>1. IInv => HaltedIsQuiet
  BY DEF IInv
<1> QED
  BY InitIInv, NextIInv, <1>1, PTL DEF EngineSpec

(* Whatever is still on the wire for it, an order that has ended stays so.  *)
THEOREM EndedStaysEnded == EngineSpec => ClosedIsFinal
<1>1. IInv /\ [EngineNext]_engine_vars => [Final]_engine_vars
  BY NextIInv DEF Lawful
<1> QED
  BY InitIInv, NextIInv, <1>1, PTL DEF EngineSpec, ClosedIsFinal, Final

(* However the position has moved since it was sent, a reduce-only order    *)
(* shrinks it and never flips it.                                           *)
THEOREM ReduceOnlyHolds == EngineSpec => ReduceOnlyReduces
<1>1. IInv /\ [EngineNext]_engine_vars => [Shrinks]_engine_vars
  BY NextIInv DEF Lawful
<1> QED
  BY InitIInv, NextIInv, <1>1, PTL DEF EngineSpec, ReduceOnlyReduces, Shrinks

-----------------------------------------------------------------------------
(* What a submission that is accepted can come to, at the worst.            *)

LEMMA CouldExecuteFinite ==
    ASSUME TypeOK, NEW side
    PROVE  IsFiniteSet(CouldExecute(side)) /\ Cardinality(CouldExecute(side)) \in Nat
<1> DEFINE os == {o \in Id : Open(o) /\ order[o].side = side /\ ~ order[o].reduce}
<1>1. IsFiniteSet(UNION {LotsOf(o, order[o].left) : o \in os})
  BY AllFinite
<1> QED
  BY <1>1, FS_CardinalityType DEF CouldExecute, LotsOf

(* Of an order that is sent, nothing could execute before, and its lots may. *)
LEMMA SentCouldExecute ==
    ASSUME TypeOK, TypeOK', NEW o \in Id, order[o].status = "none",
           \A p \in Id \ {o} : order'[p] = order[p], NEW side
    PROVE  /\ CouldExecute(side)' \subseteq CouldExecute(side) \cup LotsOf(o, order'[o].left)
           /\ order'[o].side # side \/ order'[o].reduce
                  => CouldExecute(side)' \subseteq CouldExecute(side)
           /\ Working(side, Id \ {o}) = Cardinality(CouldExecute(side))
<1>1. ~ Open(o)
  BY DEF Open
<1>2. ASSUME NEW x \in CouldExecute(side)'
      PROVE  \/ x \in CouldExecute(side)
             \/ x \in LotsOf(o, order'[o].left) /\ order'[o].side = side /\ ~ order'[o].reduce
  <2>1. PICK p \in Id : /\ x \in LotsOf(p, order'[p].left)
                        /\ order'[p].status \in {"pending", "working"}
                        /\ order'[p].side = side /\ ~ order'[p].reduce
    BY <1>2 DEF CouldExecute, LotsOf, Open
  <2>2. CASE p = o
    BY <2>1, <2>2
  <2>3. CASE p # o
    BY <2>1, <2>3 DEF CouldExecute, LotsOf, Open
  <2> QED
    BY <2>2, <2>3
<1>3. Working(side, Id \ {o}) = Cardinality(CouldExecute(side))
  <2>1. {p \in Id \ {o} : Open(p) /\ order[p].side = side /\ ~ order[p].reduce}
          = {p \in Id : Open(p) /\ order[p].side = side /\ ~ order[p].reduce}
    BY <1>1
  <2> QED
    BY <2>1 DEF Working, CouldExecute
<1> QED
  BY <1>2, <1>3

LEMMA CheckedStaysWithin ==
    ASSUME TypeOK, TypeOK', Checked, ReachWithinLimit,
           NEW o \in Id, order[o].status = "none", order'[o].status = "pending"
    PROVE  ReachWithinLimit'
<1> DEFINE d == order'[o].side
           n == order'[o].left
           before(side) == Cardinality(CouldExecute(side))
           after(side)  == Cardinality(CouldExecute(side)')
<1>1. /\ position' = position /\ position \in Int /\ Limit \in Int
      /\ d \in {1, -1} /\ n \in Nat
      /\ \A p \in Id \ {o} : order'[p] = order[p]
      /\ order'[o].reduce \/ Projected(Id \ {o}, d, n) <= Limit
  <2>1. position \in Int /\ Limit \in Int /\ order'[o] \in Row
    BY EngineAssumption DEF TypeOK
  <2>2. /\ position' = position /\ \A p \in Id \ {o} : order'[p] = order[p]
        /\ order'[o].reduce \/ Projected(Id \ {o}, d, n) <= Limit
    BY Zenon DEF Checked
  <2> QED
    BY <2>1, <2>2 DEF Row
<1>2. ASSUME NEW side
      PROVE  /\ before(side) \in Nat /\ after(side) \in Nat
             /\ after(side) <= before(side) + n
             /\ d # side \/ order'[o].reduce => after(side) <= before(side)
             /\ Working(side, Id \ {o}) = before(side)
  <2>1. /\ IsFiniteSet(CouldExecute(side)) /\ before(side) \in Nat
        /\ IsFiniteSet(LotsOf(o, n)) /\ Cardinality(LotsOf(o, n)) = n
    BY <1>1, CouldExecuteFinite, LotsFinite
  <2>2. /\ CouldExecute(side)' \subseteq CouldExecute(side) \cup LotsOf(o, n)
        /\ d # side \/ order'[o].reduce => CouldExecute(side)' \subseteq CouldExecute(side)
        /\ Working(side, Id \ {o}) = before(side)
    BY <1>1, SentCouldExecute
  <2>3. /\ IsFiniteSet(CouldExecute(side) \cup LotsOf(o, n))
        /\ Cardinality(CouldExecute(side) \cup LotsOf(o, n))
              = before(side) + n - Cardinality(CouldExecute(side) \cap LotsOf(o, n))
    BY <2>1, FS_Union
  <2>4. Cardinality(CouldExecute(side) \cap LotsOf(o, n)) \in Nat
    BY <2>1, FS_Subset, FS_CardinalityType
  <2>5. /\ IsFiniteSet(CouldExecute(side)')
        /\ after(side) <= Cardinality(CouldExecute(side) \cup LotsOf(o, n))
    BY <2>2, <2>3, FS_Subset
  <2>6. after(side) \in Nat
    BY <2>5, FS_CardinalityType
  <2>7. after(side) <= before(side) + n
    BY <1>1, <2>1, <2>3, <2>4, <2>5, <2>6
  <2>8. d # side \/ order'[o].reduce => after(side) <= before(side)
    BY <2>1, <2>2, FS_Subset
  <2> QED
    BY <2>1, <2>2, <2>6, <2>7, <2>8
<1>3. position + before(1) <= Limit /\ position - before(-1) >= - Limit
  BY DEF ReachWithinLimit
<1>4. position + after(1) <= Limit /\ position - after(-1) >= - Limit
  <2> HIDE DEF before, after, d, n
  <2>0. /\ before(1) \in Nat /\ before(-1) \in Nat /\ after(1) \in Nat /\ after(-1) \in Nat
        /\ Working(1, Id \ {o}) = before(1) /\ Working(-1, Id \ {o}) = before(-1)
    BY <1>2
  <2>1. CASE order'[o].reduce
    <3>1. after(1) <= before(1) /\ after(-1) <= before(-1)
      BY <1>2, <2>1
    <3> QED
      BY <1>1, <1>3, <2>0, <3>1
  <2>2. CASE ~ order'[o].reduce /\ d = 1
    <3>1. after(1) <= before(1) + n /\ after(-1) <= before(-1)
      BY <1>2, <2>2
    <3>2. position + before(1) + n <= Limit /\ position - before(-1) >= - Limit
      BY <1>1, <1>3, <2>0, <2>2 DEF Projected, Abs
    <3> QED
      BY <1>1, <2>0, <3>1, <3>2
  <2>3. CASE ~ order'[o].reduce /\ d = -1
    <3>1. after(1) <= before(1) /\ after(-1) <= before(-1) + n
      BY <1>2, <2>3
    <3>2. position + before(1) <= Limit /\ position - before(-1) - n >= - Limit
      BY <1>1, <1>3, <2>0, <2>3 DEF Projected, Abs
    <3> QED
      BY <1>1, <2>0, <3>1, <3>2
  <2> QED
    BY <1>1, <2>1, <2>2, <2>3
<1> QED
  BY <1>1, <1>4 DEF ReachWithinLimit

(* For any orders, sizes and limits, no order that is sent puts what could  *)
(* execute over the limit.                                                  *)
THEOREM SubmissionsAreChecked == EngineSpec => ChecksCountTheWire
<1>1. IInv /\ IInv' /\ [EngineNext]_engine_vars => [~ OverrunBySubmission]_engine_vars
  BY NextIInv, CheckedStaysWithin DEF IInv, Lawful, OverrunBySubmission
<1> QED
  BY InitIInv, NextIInv, <1>1, PTL DEF EngineSpec, ChecksCountTheWire
=============================================================================
