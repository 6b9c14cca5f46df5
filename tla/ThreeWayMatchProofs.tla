------------------------ MODULE ThreeWayMatchProofs ------------------------
(***************************************************************************)
(* The 3-way match holds for any number of clients, lines, items and       *)
(* requests, and the locking transactions implement MatchLedger.           *)
(*                                                                         *)
(* The invariant ThreeWayMatchHolds is not inductive alone: when a client   *)
(* commits, nothing in it says that the other open transactions wrote      *)
(* other lines.  IInv adds that what a transaction wrote it holds locked,  *)
(* that locks are exclusive and cover live lines only, and that a          *)
(* transaction moves its column in the direction of its kind.              *)
(*                                                                         *)
(* That a request is applied in full needs a second induction, over its    *)
(* parts (AppliedSoFar), with the facts about sums of SumFacts.             *)
(***************************************************************************)
EXTENDS ThreeWayMatch, SumFacts, TLAPS

\* A row has one owner, and a locked row is not deleted.
LocksExclusive ==
    /\ \A c, d \in Client : c # d => tx[c].held \intersect tx[d].held = {}
    /\ \A c \in Client : tx[c].held \intersect deleted = {}

\* What a transaction wrote to line l it wrote under the lock, in the
\* direction of its kind, never by hand for the seam, never under the bill.
DeltaOK(c, l) ==
    LET d == tx[c].delta[l] IN
    /\ d # 0 => l \in tx[c].held
    /\ tx[c].kind \in {Returned, Credited} => d <= 0
    /\ tx[c].kind \in {Received, Billed, Matched} => d >= 0
    /\ tx[c].kind = Received /\ d # 0 => recvMethod[l] = "stock_moves"
    /\ tx[c].kind = Returned /\ d # 0 => billed[l] <= received[l] + d
    /\ ~Running(c) => d = 0

IInv ==
    /\ TypeOK
    /\ ThreeWayMatchHolds
    /\ LocksExclusive
    /\ \A c \in Client, l \in Line : DeltaOK(c, l)

-----------------------------------------------------------------------------
(* Arithmetic of one line.                                                 *)

\* A line that moves by no more than its capacity, in the direction of the
\* kind, satisfies the CHECK constraint if it did before (allocate,
\* deallocate and match_bill_lines take at most the remaining capacity).
LEMMA CapacityKeepsCheck ==
    ASSUME NEW k \in WatermarkKind, NEW l \in Line, NEW r \in Int, NEW b \in Int,
           NEW t \in Nat, LineCheck(l, r, b), t <= AtLeastZero(Capacity(k, l, r, b))
    PROVE  /\ k = Received => LineCheck(l, r + t, b)
           /\ k = Billed   => LineCheck(l, r, b + t)
           /\ k = Returned => LineCheck(l, r - t, b) /\ (t # 0 => b <= r - t)
           /\ k = Credited => LineCheck(l, r, b - t)
<1>1. quantity[l] \in Nat
  BY LineAssumption
<1>2. CASE k = Received
  BY <1>1, <1>2 DEF LineCheck, AtLeastZero, Capacity, BillingCap,
                    Received, Billed, Returned, Credited
<1>3. CASE k = Billed
  BY <1>1, <1>3 DEF LineCheck, AtLeastZero, Capacity, BillingCap,
                    Received, Billed, Returned, Credited
<1>4. CASE k = Returned
  BY <1>1, <1>4 DEF LineCheck, AtLeastZero, Capacity, BillingCap,
                    Received, Billed, Returned, Credited
<1>5. CASE k = Credited
  BY <1>1, <1>5 DEF LineCheck, AtLeastZero, Capacity, BillingCap,
                    Received, Billed, Returned, Credited
<1> QED
  BY <1>2, <1>3, <1>4, <1>5 DEF WatermarkKind

\* A spread takes a natural number from each row, at most its capacity, and
\* nothing from any other row.
LEMMA SpreadWithinCapacity ==
    ASSUME NEW cap \in [Line -> Int], NEW rows, NEW qty \in Int,
           NEW take \in Spread(cap, rows, qty), NEW l \in Line
    PROVE  /\ take \in [Line -> Nat]
           /\ take[l] \in Nat
           /\ l \in rows => take[l] <= AtLeastZero(cap[l])
           /\ l \notin rows => take[l] = 0
<1>1. AtLeastZero(qty) \in Nat
  BY DEF AtLeastZero
<1>2. take \in [Line -> 0 .. AtLeastZero(qty)]
  BY DEF Spread
<1>3. take \in [Line -> Nat] /\ take[l] \in Nat
  BY <1>1, <1>2
<1>4. PICK left : take[l] = IF l \notin rows \/ left <= 0 \/ cap[l] <= 0 THEN 0
                            ELSE IF left < cap[l] THEN left ELSE cap[l]
  BY DEF Spread
<1>5. CASE l \notin rows \/ left <= 0 \/ cap[l] <= 0
  BY <1>3, <1>4, <1>5 DEF AtLeastZero
<1>6. CASE ~(l \notin rows \/ left <= 0 \/ cap[l] <= 0)
  BY <1>3, <1>4, <1>6 DEF AtLeastZero
<1> QED
  BY <1>3, <1>5, <1>6

\* The loop over the rows takes the whole quantity, when the rows together have
\* room for it.  It takes no more: the last row that it takes from had that
\* much left to take.  It takes no less: either a row took all that was left,
\* or every row took all it had room for.
LEMMA SpreadTakesAll ==
    ASSUME NEW cap \in [Line -> Int], NEW rows \in SUBSET Line, NEW qty \in Int,
           NEW take \in Spread(cap, rows, qty),
           qty <= Total([l \in Line |-> IF l \in rows THEN cap[l] ELSE 0], Line)
    PROVE  Total(take, rows) = AtLeastZero(qty)
<1> DEFINE before(l) == {k \in rows : k < l}
           left(l) == qty - Total(take, before(l))
<1>1. /\ Line \subseteq Nat /\ IsFiniteSet(Line) /\ IsFiniteSet(rows)
      /\ \A l \in rows : before(l) \in SUBSET rows /\ l \notin before(l)
      /\ \A l \in rows : IsFiniteSet(before(l)) /\ before(l) \union {l} \in SUBSET rows
  <2>1. Line \subseteq Nat /\ IsFiniteSet(Line) /\ IsFiniteSet(rows)
    BY LineAssumption, FS_Subset
  <2>2. \A l \in rows : l \in Nat
    BY <2>1
  <2>3. \A l \in rows : before(l) \in SUBSET rows /\ l \notin before(l)
    BY <2>2
  <2> QED
    BY <2>1, <2>3, FS_Subset
<1>2. \A l \in Line : take[l] \in Nat
  BY SpreadWithinCapacity
<1>3. \A l \in rows : take[l] = IF left(l) <= 0 \/ cap[l] <= 0 THEN 0
                                ELSE IF left(l) < cap[l] THEN left(l) ELSE cap[l]
  BY DEF Spread
<1>4. \A l \in rows : Total(take, before(l)) \in Nat /\ left(l) \in Int
  <2> SUFFICES ASSUME NEW l \in rows PROVE Total(take, before(l)) \in Nat
    OBVIOUS
  <2>1. PICK B : B = before(l)
    OBVIOUS
  <2>2. IsFiniteSet(B) /\ \A k \in B : take[k] \in Nat
    BY <1>1, <1>2, <2>1
  <2> QED
    BY <2>1, <2>2, SumIsNat DEF Total
<1>5. \A l \in rows : /\ Total(take, before(l) \union {l}) = take[l] + Total(take, before(l))
                      /\ Total(take, before(l) \union {l}) <= Total(take, rows)
  <2> SUFFICES ASSUME NEW l \in rows
               PROVE  /\ Total(take, before(l) \union {l}) = take[l] + Total(take, before(l))
                      /\ Total(take, before(l) \union {l}) <= Total(take, rows)
    OBVIOUS
  <2>1. PICK B : B = before(l)
    OBVIOUS
  <2>2. /\ IsFiniteSet(B) /\ l \notin B /\ B \union {l} \in SUBSET rows
        /\ \A k \in rows : take[k] \in Nat
    BY <1>1, <1>2, <2>1
  <2>3. SumFunctionOnSet(take, B \union {l}) = take[l] + SumFunctionOnSet(take, B)
    BY <2>2, SumAdd
  <2>4. SumFunctionOnSet(take, B \union {l}) <= SumFunctionOnSet(take, rows)
    BY <1>1, <2>2, SumOfPart
  <2> QED
    BY <2>1, <2>3, <2>4 DEF Total
<1>6. Total(take, rows) \in Nat
  BY <1>1, <1>2, SumIsNat DEF Total
<1> HIDE DEF before
<1>7. Total(take, rows) <= AtLeastZero(qty)
  <2> DEFINE taken == {l \in rows : take[l] # 0}
  <2>1. CASE taken = {}
    <3>1. \A l \in rows \ {} : take[l] = 0
      BY <2>1
    <3>2. Total(take, rows) = Total(take, {})
      <4>1. {} \in SUBSET rows /\ \A l \in rows : take[l] \in Int
        BY <1>2
      <4> QED
        BY <1>1, <3>1, <4>1, SumOfSupport DEF Total
    <3>3. Total(take, rows) = 0
      BY <3>2, SumEmpty DEF Total
    <3> QED
      BY <3>3 DEF AtLeastZero
  <2>2. CASE taken # {}
    <3>1. taken \in SUBSET Nat /\ IsFiniteSet(taken)
      BY <1>1, FS_Subset
    <3>2. PICK m \in taken : \A k \in taken : k <= m
      <4> HIDE DEF taken
      <4> QED
        BY <2>2, <3>1, HasLargest
    <3>3. m \in rows /\ take[m] \in Nat \ {0}
      BY <1>2, <3>2
    <3>4. take[m] <= left(m)
      <4> HIDE DEF left
      <4>1. take[m] = IF left(m) <= 0 \/ cap[m] <= 0 THEN 0
                      ELSE IF left(m) < cap[m] THEN left(m) ELSE cap[m]
        BY <1>3, <3>3
      <4>2. cap[m] \in Int /\ left(m) \in Int
        BY <1>4, <3>3
      <4> QED
        BY <3>3, <4>1, <4>2
    <3>5. \A k \in rows \ (before(m) \union {m}) : take[k] = 0
      <4>1. \A k \in rows : k \in Nat /\ m \in Nat
        BY <1>1, <3>3
      <4>2. \A k \in rows : take[k] # 0 => k <= m
        BY <3>2
      <4> QED
        BY <4>1, <4>2 DEF before
    <3>6. Total(take, rows) = Total(take, before(m) \union {m})
      <4>1. PICK B : B = before(m) \union {m}
        OBVIOUS
      <4>2. /\ B \in SUBSET rows /\ \A l \in rows : take[l] \in Int
            /\ \A k \in rows \ B : take[k] = 0
        BY <1>1, <1>2, <3>3, <3>5, <4>1
      <4>3. SumFunctionOnSet(take, rows) = SumFunctionOnSet(take, B)
        BY <1>1, <4>2, SumOfSupport
      <4> QED
        BY <4>1, <4>3 DEF Total
    <3>7. Total(take, before(m)) \in Nat
          /\ Total(take, before(m) \union {m}) = take[m] + Total(take, before(m))
      BY <1>4, <1>5, <3>3
    <3> HIDE DEF taken
    <3>8. Total(take, rows) <= qty
      BY <3>3, <3>4, <3>6, <3>7
    <3> QED
      BY <1>6, <3>8 DEF AtLeastZero
  <2> QED
    BY <2>1, <2>2
<1>8. Total(take, rows) >= AtLeastZero(qty)
  <2>1. CASE \E l \in rows : cap[l] > 0 /\ take[l] # cap[l]
    <3>1. PICK l \in rows : cap[l] > 0 /\ take[l] # cap[l]
      BY <2>1
    <3>2. /\ cap[l] \in Int /\ left(l) \in Int /\ take[l] \in Nat
          /\ Total(take, before(l)) \in Nat
          /\ Total(take, before(l)) + take[l] <= Total(take, rows)
      <4>1. l \in Line /\ cap[l] \in Int /\ take[l] \in Nat
        BY <1>2
      <4>2. Total(take, before(l)) \in Nat /\ left(l) \in Int
        BY <1>4
      <4>3. take[l] + Total(take, before(l)) <= Total(take, rows)
        BY <1>5
      <4> QED
        BY <1>6, <4>1, <4>2, <4>3
    <3>3. left(l) <= take[l]
      <4> HIDE DEF left
      <4>1. take[l] = IF left(l) <= 0 \/ cap[l] <= 0 THEN 0
                      ELSE IF left(l) < cap[l] THEN left(l) ELSE cap[l]
        BY <1>3
      <4> QED
        BY <3>1, <3>2, <4>1
    <3> QED
      BY <1>6, <3>2, <3>3 DEF AtLeastZero
  <2>2. CASE \A l \in rows : cap[l] > 0 => take[l] = cap[l]
    <3> DEFINE room == [l \in Line |-> IF l \in rows THEN cap[l] ELSE 0]
    <3>1. /\ \A l \in Line : room[l] \in Int
          /\ \A l \in Line \ rows : room[l] = 0
          /\ \A l \in rows : room[l] \in Int /\ take[l] \in Int /\ room[l] <= take[l]
      BY <1>2, <2>2
    <3>2. qty <= Total(room, Line)
      OBVIOUS
    <3> HIDE DEF room
    <3>3. Total(room, Line) = Total(room, rows)
      BY <1>1, <3>1, SumOfSupport DEF Total
    <3>4. Total(room, rows) <= Total(take, rows) /\ Total(room, rows) \in Int
      BY <1>1, <3>1, SumAtMost, SumIsInt DEF Total
    <3> QED
      BY <1>6, <3>2, <3>3, <3>4 DEF AtLeastZero
  <2> QED
    BY <2>1, <2>2
<1>9. AtLeastZero(qty) \in Nat
  BY DEF AtLeastZero
<1> QED
  BY <1>6, <1>7, <1>8, <1>9

-----------------------------------------------------------------------------
(* Every step keeps the invariant.                                         *)

\* The order starts without watermarks, locks or transactions.
LEMMA InitEstablishesIInv == Init => IInv
<1> SUFFICES ASSUME Init PROVE IInv
  OBVIOUS
<1> USE DEF Init, LedgerInit, NoTx, NewTx
<1>1. TypeOK
  BY DEF TypeOK, Band, Tx
<1>2. \A c \in Client, l \in Line :
          SeenReceived(c, l) = 0 /\ SeenBilled(c, l) = 0
  BY DEF SeenReceived, SeenBilled
<1>3. \A l \in Line : LineCheck(l, 0, 0)
  BY LineAssumption DEF LineCheck, BillingCap
<1>4. ThreeWayMatchHolds
  BY <1>2, <1>3 DEF ThreeWayMatchHolds, LedgerMatches
<1>5. LocksExclusive
  BY DEF LocksExclusive
<1>6. \A c \in Client, l \in Line : DeltaOK(c, l)
  BY DEF DeltaOK, Running
<1> QED
  BY <1>1, <1>4, <1>5, <1>6 DEF IInv

\* Opening or dropping a transaction leaves an empty one: no write, no lock.
LEMMA EmptyTxKeepsIInv ==
    ASSUME IInv, NEW c \in Client,
           NEW t \in Tx, t.held = {}, t.delta = [l \in Line |-> 0],
           tx' = [tx EXCEPT ![c] = t],
           UNCHANGED <<received, billed, deleted, band>>
    PROVE  IInv'
<1> USE DEF IInv
<1>1. TypeOK'
  BY DEF TypeOK
<1>2. tx'[c] = t /\ \A d \in Client \ {c} : tx'[d] = tx[d]
  BY DEF TypeOK
<1>3. LocksExclusive'
  BY <1>2 DEF LocksExclusive
<1>4. \A l \in Line : received[l] \in Nat /\ billed[l] \in Nat
  BY DEF TypeOK
<1>5. ThreeWayMatchHolds'
  <2>1. LedgerMatches'
    BY DEF ThreeWayMatchHolds, LedgerMatches, LineCheck, BillingCap
  <2>2. ASSUME NEW l \in Line
        PROVE  LineCheck(l, SeenReceived(c, l), SeenBilled(c, l))'
    <3>1. SeenReceived(c, l)' = received[l] /\ SeenBilled(c, l)' = billed[l]
      BY <1>2, <1>4 DEF SeenReceived, SeenBilled
    <3> QED
      BY <3>1 DEF ThreeWayMatchHolds, LedgerMatches, LineCheck, BillingCap
  <2>3. ASSUME NEW d \in Client \ {c}, NEW l \in Line
        PROVE  LineCheck(l, SeenReceived(d, l), SeenBilled(d, l))'
    BY <1>2 DEF ThreeWayMatchHolds, SeenReceived, SeenBilled, LineCheck, BillingCap
  <2> QED
    BY <2>1, <2>2, <2>3 DEF ThreeWayMatchHolds
<1>6. \A d \in Client, l \in Line : DeltaOK(d, l)'
  <2>1. \A l \in Line : DeltaOK(c, l)'
    BY <1>2, <1>4 DEF DeltaOK, Returned
  <2>2. \A d \in Client \ {c}, l \in Line : DeltaOK(d, l)'
    BY <1>2 DEF DeltaOK, Running
  <2> QED
    BY <2>1, <2>2
<1> QED
  BY <1>1, <1>3, <1>5, <1>6

\* No transaction is an empty transaction.
LEMMA NoTxIsEmpty ==
    NoTx \in Tx /\ NoTx.held = {} /\ NoTx.delta = [l \in Line |-> 0]
BY DEF NoTx, NewTx, Tx

\* A request opens an empty transaction.
LEMMA BeginKeepsIInv ==
    ASSUME IInv, NEW c \in Client, NEW req \in Requests, Begin(c, req)
    PROVE  IInv'
<1> DEFINE t == NewTx(req.kind, req.parts)
<1>1. req.kind \in Kind /\ req.parts \in Seq(Part)
  BY RequestAssumption DEF Request
<1>2. t \in Tx /\ t.held = {} /\ t.delta = [l \in Line |-> 0]
  BY <1>1 DEF NewTx, Tx
<1>3. tx' = [tx EXCEPT ![c] = t] /\ UNCHANGED <<received, billed, deleted, band>>
  BY DEF Begin
<1> HIDE DEF t
<1> QED
  BY <1>2, <1>3, EmptyTxKeepsIInv

\* Rejection, deadlock and a lost connection roll the transaction back.
LEMMA RollbackKeepsIInv ==
    ASSUME IInv, NEW c \in Client, Reject(c) \/ DeadlockAbort(c) \/ ConnectionLost(c)
    PROVE  IInv'
<1>1. tx' = [tx EXCEPT ![c] = NoTx] /\ UNCHANGED <<received, billed, deleted, band>>
  BY DEF Reject, DeadlockAbort, ConnectionLost, EndTx
<1> QED
  BY <1>1, NoTxIsEmpty, EmptyTxKeepsIInv

\* The locking read takes a live row nobody else holds.
LEMMA LockRowKeepsIInv ==
    ASSUME IInv, NEW c \in Client, NEW l \in Line, LockRow(c, l)
    PROVE  IInv'
<1> USE DEF IInv
<1>1. l \in Live /\ RowFree(c, l)
  BY DEF LockRow, NextRow, WantedRows, RowsOf
<1>2. tx' = [tx EXCEPT ![c].held = @ \union {l}]
      /\ UNCHANGED <<received, billed, deleted, band>>
  BY DEF LockRow
<1>3. TypeOK'
  BY <1>2 DEF TypeOK, Tx
<1>4. /\ tx'[c].held = tx[c].held \union {l}
      /\ \A d \in Client \ {c} : tx'[d].held = tx[d].held
      /\ \A d \in Client : tx'[d].kind = tx[d].kind /\ tx'[d].delta = tx[d].delta
  BY <1>2 DEF TypeOK, Tx
<1>5. LocksExclusive'
  BY <1>1, <1>2, <1>4 DEF LocksExclusive, RowFree, Live
<1>6. ThreeWayMatchHolds'
  BY <1>2, <1>4 DEF ThreeWayMatchHolds, LedgerMatches, SeenReceived, SeenBilled,
                    LineCheck, BillingCap
<1>7. \A d \in Client, k \in Line : DeltaOK(d, k)'
  BY <1>2, <1>4 DEF DeltaOK, Running
<1> QED
  BY <1>3, <1>5, <1>6, <1>7

\* What a running transaction reads as the capacity of a row is a number.
LEMMA SeenCapacityIsNumber ==
    ASSUME TypeOK, NEW c \in Client, Running(c)
    PROVE  [l \in Line |-> SeenCapacity(c, l)] \in [Line -> Int]
<1> SUFFICES ASSUME NEW l \in Line PROVE SeenCapacity(c, l) \in Int
  OBVIOUS
<1>1. tx[c] \in Tx /\ tx[c].kind \in Kind /\ CapacityKind(tx[c].kind) \in WatermarkKind
  BY DEF TypeOK, Tx, Running, Kind, CapacityKind, WatermarkKind, Received,
         Billed, Returned, Credited, Matched
<1>2. received[l] \in Nat /\ billed[l] \in Nat /\ tx[c].delta[l] \in Int /\ quantity[l] \in Nat
  BY <1>1, LineAssumption DEF TypeOK, Tx
<1>3. PICK r, b : r = SeenReceived(c, l) /\ b = SeenBilled(c, l)
  OBVIOUS
<1>4. r \in Int /\ b \in Int
  BY <1>2, <1>3 DEF SeenReceived, SeenBilled
<1>5. \A k \in WatermarkKind : Capacity(k, l, r, b) \in Int
  BY <1>2, <1>4 DEF Capacity, WatermarkKind, AtLeastZero, BillingCap, Received, Billed,
                    Returned, Credited
<1> QED
  BY <1>1, <1>3, <1>5 DEF SeenCapacity

\* A part that fits moves rows the transaction holds, by at most what they
\* still have, so the uncommitted watermarks keep every bound.
LEMMA ApplyPartKeepsIInv ==
    ASSUME IInv, NEW c \in Client, ApplyPart(c)
    PROVE  IInv'
<1> USE DEF IInv
<1> DEFINE k == CapacityKind(tx[c].kind)
           sign == IF tx[c].kind \in {Returned, Credited} THEN -1 ELSE 1
           cap == [l \in Line |-> SeenCapacity(c, l)]
<1>1. PICK take \in Spread(cap, WantedRows(c), CurrentPart(c).amount) :
          tx' = [tx EXCEPT ![c].next = @ + 1,
                           ![c].delta = [l \in Line |-> @[l] + sign * take[l]]]
  BY DEF ApplyPart
<1>2. UNCHANGED <<received, billed, deleted, band>>
  BY DEF ApplyPart
<1>3. Running(c) /\ WantedRows(c) \subseteq tx[c].held
  BY DEF ApplyPart, PartLocked, MoreParts
<1>4. tx[c] \in Tx /\ tx[c].kind \in Kind /\ k \in WatermarkKind
  BY <1>3 DEF TypeOK, Tx, Running, Kind, CapacityKind, WatermarkKind, Received,
              Billed, Returned, Credited, Matched
<1>5. CurrentPart(c).amount \in Int
  <2>1. tx[c].parts \in Seq(Part) /\ tx[c].next \in 1 .. Len(tx[c].parts)
    BY <1>4 DEF ApplyPart, PartLocked, MoreParts, Tx
  <2>2. CurrentPart(c) \in Part
    BY <2>1 DEF CurrentPart
  <2> QED
    BY <2>2 DEF Part
<1>6. take \in [Line -> Nat]
  BY <1>5 DEF Spread, AtLeastZero
<1>7. ASSUME NEW l \in Line
      PROVE  \/ take[l] = 0
             \/ l \in WantedRows(c) /\ take[l] <= AtLeastZero(SeenCapacity(c, l))
  <2>1. take[l] \in Nat /\ (l \notin WantedRows(c) => take[l] = 0)
        /\ (l \in WantedRows(c) => take[l] <= AtLeastZero(cap[l]))
    <3>1. cap \in [Line -> Int]
      BY <1>3, SeenCapacityIsNumber
    <3> HIDE DEF cap
    <3> QED
      BY <1>1, <1>5, <3>1, SpreadWithinCapacity
  <2> QED
    BY <2>1
<1> HIDE DEF cap
<1> DEFINE moved == [l \in Line |-> tx[c].delta[l] + sign * take[l]]
<1>8. /\ tx' = [tx EXCEPT ![c] = [tx[c] EXCEPT !.next = tx[c].next + 1, !.delta = moved]]
      /\ moved \in [Line -> Int]
      /\ \A l \in Line : moved[l] = tx[c].delta[l] + sign * take[l]
  <2>1. sign \in Int
    OBVIOUS
  <2> HIDE DEF sign
  <2>2. tx[c].delta \in [Line -> Int] /\ tx[c].next \in Nat
    BY <1>4 DEF Tx
  <2>3. \A l \in Line : sign * take[l] \in Int
    BY <1>6, <2>1
  <2>4. moved \in [Line -> Int]
    BY <2>2, <2>3
  <2>5. tx' = [tx EXCEPT ![c] = [tx[c] EXCEPT !.next = tx[c].next + 1, !.delta = moved]]
    BY <1>1
  <2> QED
    BY <2>4, <2>5
<1> HIDE DEF moved
<1>9. TypeOK'
  <2>1. [tx[c] EXCEPT !.next = tx[c].next + 1, !.delta = moved] \in Tx
    <3>1. tx[c].next + 1 \in Nat \ {0}
      BY <1>4 DEF Tx
    <3> QED
      BY <1>4, <1>8, <3>1 DEF Tx
  <2>2. tx' \in [Client -> Tx]
    BY <1>8, <2>1 DEF TypeOK
  <2> QED
    BY <1>2, <2>2 DEF TypeOK
<1>10. /\ \A d \in Client \ {c} : tx'[d] = tx[d]
       /\ tx'[c].kind = tx[c].kind /\ tx'[c].held = tx[c].held
       /\ \A l \in Line : tx'[c].delta[l] = tx[c].delta[l] + sign * take[l]
  <2>1. /\ \A d \in Client \ {c} : tx'[d] = tx[d]
        /\ tx'[c] = [tx[c] EXCEPT !.next = tx[c].next + 1, !.delta = moved]
    BY <1>8 DEF TypeOK
  <2>2. tx'[c].kind = tx[c].kind /\ tx'[c].held = tx[c].held /\ tx'[c].delta = moved
    BY <1>4, <2>1 DEF Tx
  <2> QED
    BY <1>8, <2>1, <2>2
<1>11. LocksExclusive'
  BY <1>2, <1>10 DEF LocksExclusive
<1>12. ASSUME NEW l \in Line
       PROVE  LineCheck(l, SeenReceived(c, l), SeenBilled(c, l))' /\ DeltaOK(c, l)'
  <2> DEFINE r == SeenReceived(c, l)
             b == SeenBilled(c, l)
             t == take[l]
  <2>1. /\ received[l] \in Nat /\ billed[l] \in Nat /\ tx[c].delta[l] \in Int
        /\ t \in Nat /\ r \in Int /\ b \in Int
    BY <1>4, <1>6 DEF TypeOK, Tx, SeenReceived, SeenBilled
  <2>2. LineCheck(l, r, b) /\ DeltaOK(c, l)
    BY DEF ThreeWayMatchHolds
  <2>3. CASE t = 0
    <3>1. tx'[c].delta[l] = tx[c].delta[l]
      BY <1>10, <2>1, <2>3
    <3>2. DeltaOK(c, l)'
      BY <1>2, <1>10, <2>2, <3>1 DEF DeltaOK, Running
    <3>3. LineCheck(l, SeenReceived(c, l), SeenBilled(c, l))'
      BY <1>2, <1>10, <2>2, <3>1 DEF SeenReceived, SeenBilled, LineCheck, BillingCap
    <3> QED
      BY <3>2, <3>3
  <2>4. CASE t # 0
    <3>1. /\ l \in WantedRows(c) /\ l \in tx[c].held
          /\ t <= AtLeastZero(Capacity(k, l, r, b))
      BY <1>3, <1>7, <2>4 DEF SeenCapacity
    <3>2. /\ k = Received => LineCheck(l, r + t, b)
          /\ k = Billed   => LineCheck(l, r, b + t)
          /\ k = Returned => LineCheck(l, r - t, b) /\ b <= r - t
          /\ k = Credited => LineCheck(l, r, b - t)
      <4> HIDE DEF r, b, t, k
      <4> QED
        BY <1>4, <2>1, <2>2, <2>4, <3>1, CapacityKeepsCheck
    <3>3. CASE tx[c].kind = Received
      <4>1. recvMethod[l] = "stock_moves"
        BY <3>1, <3>3 DEF WantedRows, RowsOf, Received, Matched
      <4> QED
        BY <1>2, <1>10, <2>1, <2>2, <3>1, <3>2, <3>3, <4>1
        DEF DeltaOK, Running, SeenReceived, SeenBilled, OnReceivedColumn, CapacityKind,
            Received, Billed, Returned, Credited, Matched
    <3>4. CASE tx[c].kind \in {Billed, Matched}
      BY <1>2, <1>10, <2>1, <2>2, <3>1, <3>2, <3>4
        DEF DeltaOK, Running, SeenReceived, SeenBilled, OnReceivedColumn, CapacityKind,
            Received, Billed, Returned, Credited, Matched
    <3>5. CASE tx[c].kind = Returned
      BY <1>2, <1>10, <2>1, <2>2, <3>1, <3>2, <3>5
        DEF DeltaOK, Running, SeenReceived, SeenBilled, OnReceivedColumn, CapacityKind,
            Received, Billed, Returned, Credited, Matched
    <3>6. CASE tx[c].kind = Credited
      BY <1>2, <1>10, <2>1, <2>2, <3>1, <3>2, <3>6
        DEF DeltaOK, Running, SeenReceived, SeenBilled, OnReceivedColumn, CapacityKind,
            Received, Billed, Returned, Credited, Matched
    <3> QED
      BY <1>4, <3>3, <3>4, <3>5, <3>6 DEF Kind, WatermarkKind
  <2> QED
    BY <2>3, <2>4
<1>13. ThreeWayMatchHolds'
  <2>1. LedgerMatches'
    BY <1>2 DEF ThreeWayMatchHolds, LedgerMatches, LineCheck, BillingCap
  <2>2. \A d \in Client \ {c}, l \in Line :
            LineCheck(l, SeenReceived(d, l), SeenBilled(d, l))'
    BY <1>2, <1>10 DEF ThreeWayMatchHolds, SeenReceived, SeenBilled, LineCheck, BillingCap
  <2> QED
    BY <1>12, <2>1, <2>2 DEF ThreeWayMatchHolds
<1>14. \A d \in Client, l \in Line : DeltaOK(d, l)'
  <2>1. \A d \in Client \ {c}, l \in Line : DeltaOK(d, l)'
    BY <1>2, <1>10 DEF DeltaOK, Running
  <2> QED
    BY <1>12, <2>1
<1> QED
  BY <1>9, <1>11, <1>13, <1>14

\* The commit publishes what the transaction wrote; the other transactions
\* wrote other lines, so they see the same watermarks on theirs.
LEMMA CommitKeepsIInv ==
    ASSUME IInv, NEW c \in Client, Commit(c)
    PROVE  IInv'
<1> USE DEF IInv
<1>1. /\ received' = [l \in Line |-> SeenReceived(c, l)]
      /\ billed' = [l \in Line |-> SeenBilled(c, l)]
      /\ tx' = [tx EXCEPT ![c] = NoTx]
      /\ UNCHANGED <<deleted, band>>
  BY DEF Commit, EndTx
<1>2. /\ \A d \in Client \ {c} : tx'[d] = tx[d]
      /\ tx'[c] = NoTx /\ tx'[c].held = {} /\ tx'[c].kind = "none"
      /\ \A l \in Line : tx'[c].delta[l] = 0
  BY <1>1, NoTxIsEmpty DEF TypeOK, NoTx, NewTx
<1>3. ASSUME NEW l \in Line
      PROVE  /\ received[l] \in Nat /\ billed[l] \in Nat
             /\ SeenReceived(c, l) \in Nat /\ SeenBilled(c, l) \in Nat
             /\ \A d \in Client : tx[d].delta[l] \in Int
             /\ received'[l] = SeenReceived(c, l) /\ billed'[l] = SeenBilled(c, l)
             /\ LineCheck(l, received'[l], billed'[l])
  <2>1. received[l] \in Nat /\ billed[l] \in Nat /\ \A d \in Client : tx[d].delta[l] \in Int
    BY DEF TypeOK, Tx
  <2>2. SeenReceived(c, l) \in Int /\ SeenBilled(c, l) \in Int
    BY <2>1 DEF SeenReceived, SeenBilled
  <2>3. LineCheck(l, SeenReceived(c, l), SeenBilled(c, l))
    BY DEF ThreeWayMatchHolds
  <2>4. 0 <= SeenReceived(c, l) /\ 0 <= SeenBilled(c, l)
    BY <2>3 DEF LineCheck
  <2> QED
    BY <1>1, <2>1, <2>2, <2>3, <2>4
<1>4. TypeOK'
  BY <1>1, <1>3, NoTxIsEmpty DEF TypeOK
<1>5. LocksExclusive'
  BY <1>1, <1>2 DEF LocksExclusive
<1>6. ASSUME NEW d \in Client \ {c}, NEW l \in Line
      PROVE  LineCheck(l, SeenReceived(d, l), SeenBilled(d, l))' /\ DeltaOK(d, l)'
  <2>1. LineCheck(l, SeenReceived(d, l), SeenBilled(d, l)) /\ DeltaOK(d, l) /\ DeltaOK(c, l)
    BY DEF ThreeWayMatchHolds
  <2>2. CASE tx[c].delta[l] = 0
    <3>1. received'[l] = received[l] /\ billed'[l] = billed[l]
      BY <1>3, <2>2 DEF SeenReceived, SeenBilled
    <3> QED
      BY <1>2, <2>1, <3>1 DEF DeltaOK, Running, SeenReceived, SeenBilled, LineCheck, BillingCap
  <2>3. CASE tx[c].delta[l] # 0
    <3>1. l \in tx[c].held /\ l \notin tx[d].held
      BY <2>1, <2>3 DEF DeltaOK, LocksExclusive
    <3>2. tx'[d].delta[l] = 0
      BY <1>2, <2>1, <3>1 DEF DeltaOK
    <3>3. SeenReceived(d, l)' = received'[l] /\ SeenBilled(d, l)' = billed'[l]
      BY <1>3, <3>2 DEF SeenReceived, SeenBilled
    <3>4. LineCheck(l, SeenReceived(d, l), SeenBilled(d, l))'
      BY <1>3, <3>3 DEF LineCheck, BillingCap
    <3>5. DeltaOK(d, l)'
      BY <3>2, <1>2 DEF DeltaOK
    <3> QED
      BY <3>4, <3>5
  <2> QED
    BY <2>2, <2>3
<1>7. ASSUME NEW l \in Line
      PROVE  LineCheck(l, SeenReceived(c, l), SeenBilled(c, l))' /\ DeltaOK(c, l)'
  <2>1. SeenReceived(c, l)' = received'[l] /\ SeenBilled(c, l)' = billed'[l]
    BY <1>2, <1>3 DEF SeenReceived, SeenBilled
  <2>2. DeltaOK(c, l)'
    BY <1>2 DEF DeltaOK, Returned, Received
  <2> QED
    BY <1>3, <2>1, <2>2 DEF LineCheck, BillingCap
<1>8. ThreeWayMatchHolds'
  BY <1>3, <1>6, <1>7 DEF ThreeWayMatchHolds, LedgerMatches, LineCheck, BillingCap
<1> QED
  BY <1>4, <1>5, <1>6, <1>7, <1>8

\* The operator's receipt writes a line no transaction holds, and only a value
\* the CHECK constraint accepts.
LEMMA ManualReceiptKeepsIInv ==
    ASSUME IInv, NEW l \in Line, NEW n \in 0 .. quantity[l], SetManualLineReceipt(l, n)
    PROVE  IInv'
<1> USE DEF IInv
<1>1. /\ received' = [received EXCEPT ![l] = n]
      /\ UNCHANGED <<billed, deleted, band, tx>>
      /\ LineCheck(l, n, billed[l])
      /\ \A c \in Client : l \notin tx[c].held
  BY DEF SetManualLineReceipt, SetReceived, Unlocked
<1>2. n \in Nat
  BY LineAssumption
<1>3. received'[l] = n /\ \A k \in Line \ {l} : received'[k] = received[k]
  BY <1>1 DEF TypeOK
<1>4. TypeOK'
  BY <1>1, <1>2 DEF TypeOK
<1>5. LocksExclusive'
  BY <1>1 DEF LocksExclusive
<1>6. \A c \in Client : tx[c].delta[l] = 0
  BY <1>1 DEF DeltaOK
<1>7. ThreeWayMatchHolds'
  <2>1. LedgerMatches'
    BY <1>1, <1>3 DEF ThreeWayMatchHolds, LedgerMatches, LineCheck, BillingCap
  <2>2. ASSUME NEW c \in Client, NEW k \in Line
        PROVE  LineCheck(k, SeenReceived(c, k), SeenBilled(c, k))'
    <3>1. CASE k # l
      BY <1>1, <1>3, <3>1 DEF ThreeWayMatchHolds, SeenReceived, SeenBilled, LineCheck, BillingCap
    <3>2. CASE k = l
      <4>1. SeenReceived(c, l)' = n /\ SeenBilled(c, l)' = billed[l]
        <5>1. billed[l] \in Nat
          BY DEF TypeOK
        <5> QED
          BY <1>1, <1>2, <1>3, <1>6, <5>1 DEF SeenReceived, SeenBilled
      <4> QED
        BY <1>1, <3>2, <4>1 DEF LineCheck, BillingCap
    <3> QED
      BY <3>1, <3>2
  <2> QED
    BY <2>1, <2>2 DEF ThreeWayMatchHolds
<1>8. ASSUME NEW c \in Client, NEW k \in Line
      PROVE  DeltaOK(c, k)'
  <2>1. CASE k # l
    BY <1>1, <1>3, <2>1 DEF DeltaOK, Running
  <2>2. CASE k = l
    BY <1>1, <1>6, <2>2 DEF DeltaOK
  <2> QED
    BY <2>1, <2>2
<1> QED
  BY <1>4, <1>5, <1>7, <1>8

\* The delete takes a line no transaction holds; the header holds no line.
LEMMA HeaderAndDeleteKeepIInv ==
    ASSUME IInv, HeaderMoves \/ \E l \in Line : SoftDeleteLine(l)
    PROVE  IInv'
<1> USE DEF IInv
<1>1. UNCHANGED <<received, billed, tx>>
  BY DEF HeaderMoves, SoftDeleteLine, DropLine
<1>2. TypeOK'
  BY DEF TypeOK, HeaderMoves, SoftDeleteLine, DropLine
<1>3. LocksExclusive'
  BY DEF LocksExclusive, HeaderMoves, SoftDeleteLine, DropLine, Unlocked
<1>4. ThreeWayMatchHolds'
  BY <1>1 DEF ThreeWayMatchHolds, LedgerMatches, SeenReceived, SeenBilled,
              LineCheck, BillingCap
<1>5. \A c \in Client, l \in Line : DeltaOK(c, l)'
  BY <1>1 DEF DeltaOK, Running
<1> QED
  BY <1>2, <1>3, <1>4, <1>5

\* No step of the system leaves the invariant.
LEMMA StepKeepsIInv == IInv /\ [Next]_vars => IInv'
<1> SUFFICES ASSUME IInv, [Next]_vars PROVE IInv'
  OBVIOUS
<1>1. ASSUME NEW c \in Client, NEW req \in Requests, Begin(c, req) PROVE IInv'
  BY <1>1, BeginKeepsIInv
<1>2. ASSUME NEW c \in Client, Step(c) PROVE IInv'
  BY <1>2, LockRowKeepsIInv, ApplyPartKeepsIInv, RollbackKeepsIInv, CommitKeepsIInv DEF Step
<1>3. ASSUME NEW c \in Client, DeadlockAbort(c) \/ ConnectionLost(c) PROVE IInv'
  BY <1>3, RollbackKeepsIInv
<1>4. ASSUME NEW l \in Line, NEW n \in 0 .. quantity[l], SetManualLineReceipt(l, n)
      PROVE  IInv'
  BY <1>4, ManualReceiptKeepsIInv
<1>5. ASSUME HeaderMoves \/ \E l \in Line : SoftDeleteLine(l) PROVE IInv'
  BY <1>5, HeaderAndDeleteKeepIInv
<1>6. ASSUME UNCHANGED vars PROVE IInv'
  <2>1. UNCHANGED <<received, billed, deleted, band, tx>>
    BY <1>6 DEF vars
  <2> QED
    BY <2>1 DEF IInv, TypeOK, ThreeWayMatchHolds, LedgerMatches, LocksExclusive, DeltaOK,
                Running, SeenReceived, SeenBilled, LineCheck, BillingCap
<1> QED
  BY <1>1, <1>2, <1>3, <1>4, <1>5, <1>6 DEF Next

-----------------------------------------------------------------------------
(* The theorems.                                                           *)

\* The inductive invariant holds in every reachable state, whatever the
\* clients, lines and requests are.
THEOREM InductiveInvariant == Spec => []IInv
BY InitEstablishesIInv, StepKeepsIInv, PTL DEF Spec

\* Type correctness: in particular no watermark ever becomes negative.
THEOREM TypeCorrect == Spec => []TypeOK
<1>1. IInv => TypeOK
  BY DEF IInv
<1> QED
  BY <1>1, InductiveInvariant, PTL

\* The caps that allocate, deallocate and match_bill_lines compute under the
\* row locks keep the 3-way match, with any number of concurrent callers, and
\* no UPDATE of theirs ever relies on the CHECK constraint.
THEOREM MatchHoldsForEveryCaller == Spec => []ThreeWayMatchHolds
<1>1. IInv => ThreeWayMatchHolds
  BY DEF IInv
<1> QED
  BY <1>1, InductiveInvariant, PTL

\* A commit is one atomic step of the ledger, chosen by the kind of the call.
LEMMA CommitIsLedgerStep ==
    ASSUME IInv, NEW c \in Client, Commit(c)
    PROVE  LedgerNext
<1> USE DEF IInv
<1>1. /\ received' = [l \in Line |-> SeenReceived(c, l)]
      /\ billed' = [l \in Line |-> SeenBilled(c, l)]
      /\ UNCHANGED deleted
      /\ Running(c)
  BY DEF Commit
<1>2. tx[c].kind \in Kind
  BY <1>1 DEF TypeOK, Tx, Running
<1>3. ASSUME NEW l \in Line
      PROVE  /\ received[l] \in Nat /\ billed[l] \in Nat /\ tx[c].delta[l] \in Int
             /\ LineCheck(l, SeenReceived(c, l), SeenBilled(c, l))
             /\ DeltaOK(c, l)
             /\ tx[c].delta[l] # 0 => l \in Live
             /\ SeenReceived(c, l) \in Quantities /\ SeenBilled(c, l) \in Quantities
  <2>1. tx[c].held \intersect deleted = {} /\ DeltaOK(c, l)
    BY DEF LocksExclusive
  <2>2. tx[c].delta[l] # 0 => l \in Live
    BY <2>1 DEF DeltaOK, Live
  <2>3. /\ received[l] \in Nat /\ billed[l] \in Nat /\ tx[c].delta[l] \in Int
        /\ LineCheck(l, SeenReceived(c, l), SeenBilled(c, l))
    BY DEF TypeOK, Tx, ThreeWayMatchHolds
  <2>4. SeenReceived(c, l) \in Int /\ SeenBilled(c, l) \in Int
    BY <2>3 DEF SeenReceived, SeenBilled
  <2>5. SeenReceived(c, l) \in 0 .. quantity[l] /\ SeenBilled(c, l) \in 0 .. quantity[l]
    BY <2>3, <2>4, LineAssumption DEF LineCheck, BillingCap
  <2>6. 0 .. quantity[l] \subseteq Quantities
    BY DEF Quantities
  <2> QED
    BY <2>1, <2>2, <2>3, <2>5, <2>6
<1>4. CASE OnReceivedColumn(tx[c].kind)
  <2>1. ASSUME NEW l \in Line
        PROVE  /\ SeenReceived(c, l) = received[l] + tx[c].delta[l]
               /\ SeenBilled(c, l) = billed[l]
               /\ SeenReceived(c, l) \in Nat
    BY <1>3, <1>4 DEF SeenReceived, SeenBilled, LineCheck
  <2>2. /\ received' \in [Line -> Quantities]
        /\ \A l \in Line : received'[l] = received[l] + tx[c].delta[l]
    BY <1>1, <1>3, <2>1
  <2>3. billed' = billed
    BY <1>1, <2>1 DEF TypeOK
  <2>4. CASE tx[c].kind = Received
    <3>1. Receive
      BY <1>1, <1>3, <2>1, <2>2, <2>3, <2>4 DEF Receive, DeltaOK, LineCheck, Received
    <3> QED
      BY <3>1 DEF LedgerNext
  <2>5. CASE tx[c].kind = Returned
    <3>1. Return
      BY <1>1, <1>3, <2>1, <2>2, <2>3, <2>5 DEF Return, DeltaOK, Returned
    <3> QED
      BY <3>1 DEF LedgerNext
  <2> QED
    BY <1>4, <2>4, <2>5 DEF OnReceivedColumn
<1>5. CASE ~OnReceivedColumn(tx[c].kind)
  <2>1. ASSUME NEW l \in Line
        PROVE  /\ SeenBilled(c, l) = billed[l] + tx[c].delta[l]
               /\ SeenReceived(c, l) = received[l]
               /\ SeenBilled(c, l) \in Nat
    BY <1>3, <1>5 DEF SeenReceived, SeenBilled, LineCheck
  <2>2. /\ billed' \in [Line -> Quantities]
        /\ \A l \in Line : billed'[l] = billed[l] + tx[c].delta[l]
    BY <1>1, <1>3, <2>1
  <2>3. received' = received
    BY <1>1, <2>1 DEF TypeOK
  <2>4. CASE tx[c].kind \in {Billed, Matched}
    <3>1. Bill
      BY <1>1, <1>3, <2>1, <2>2, <2>3, <2>4 DEF Bill, DeltaOK, LineCheck
    <3> QED
      BY <3>1 DEF LedgerNext
  <2>5. CASE tx[c].kind = Credited
    <3>1. Credit
      BY <1>1, <1>3, <2>1, <2>2, <2>3, <2>5 DEF Credit, DeltaOK
    <3> QED
      BY <3>1 DEF LedgerNext
  <2> QED
    BY <1>2, <1>5, <2>4, <2>5 DEF OnReceivedColumn, Kind, WatermarkKind
<1> QED
  BY <1>4, <1>5

\* Every step of the system is a step of the ledger or leaves it alone.
LEMMA StepIsLedgerStep == IInv /\ [Next]_vars => [LedgerNext]_ledgerVars
<1> SUFFICES ASSUME IInv, [Next]_vars PROVE [LedgerNext]_ledgerVars
  OBVIOUS
<1>1. ASSUME NEW c \in Client, Commit(c) PROVE LedgerNext
  BY <1>1, CommitIsLedgerStep
<1>2. ASSUME NEW c \in Client, Step(c), ~Commit(c) PROVE UNCHANGED ledgerVars
  BY <1>2 DEF Step, LockRow, ApplyPart, Reject, ledgerVars
<1>3. ASSUME NEW c \in Client,
             DeadlockAbort(c) \/ ConnectionLost(c) \/ \E req \in Requests : Begin(c, req)
      PROVE  UNCHANGED ledgerVars
  BY <1>3 DEF DeadlockAbort, ConnectionLost, Begin, ledgerVars
<1>4. ASSUME NEW l \in Line, \/ SoftDeleteLine(l)
                             \/ \E n \in 0 .. quantity[l] : SetManualLineReceipt(l, n)
      PROVE  LedgerNext
  BY <1>4 DEF SoftDeleteLine, SetManualLineReceipt, LedgerNext
<1>5. CASE HeaderMoves \/ UNCHANGED vars
  BY <1>5 DEF HeaderMoves, vars, ledgerVars
<1> QED
  BY <1>1, <1>2, <1>3, <1>4, <1>5 DEF Next

\* The interleaved, locking transactions implement the ledger: whatever the
\* callers do, the committed columns change one column and one direction at a
\* time, on live lines, inside the bounds of MatchLedger.
THEOREM TransactionsImplementLedger == Spec => ImplementsLedger
<1>1. Init => LedgerInit
  BY DEF Init
<1> QED
  BY <1>1, InductiveInvariant, StepIsLedgerStep, PTL DEF Spec, LedgerSpec, ImplementsLedger

-----------------------------------------------------------------------------
(* The whole of a request or none of it.                                   *)

\* What transaction record r moved on each line, what its parts ask for, the
\* lines that count for a target, and the applied parts that name the target.
Moved(r) == [l \in Line |-> IF r.delta[l] < 0 THEN -r.delta[l] ELSE r.delta[l]]
Asked(r) == [i \in DOMAIN r.parts |-> AtLeastZero(r.parts[i].amount)]
LinesOf(r, t) == {l \in Line : IF r.kind = Matched THEN l = t ELSE item[l] = t}
Applied(r, t) == {j \in DOMAIN r.parts : j < r.next /\ r.parts[j].target = t}

\* The inductive form of AppliedInFull: after every part, each target has
\* moved by the sum of the parts applied so far that name it.
AppliedSoFar ==
    \A c \in Client : Running(c) =>
        \A t \in Item \union Line :
            Total(Moved(tx[c]), LinesOf(tx[c], t)) = Total(Asked(tx[c]), Applied(tx[c], t))

\* A spread counts in full for any lines that include its rows, and not at
\* all for lines none of which is one of its rows.
LEMMA SpreadCounts ==
    ASSUME NEW cap \in [Line -> Int], NEW rows \in SUBSET Line, NEW qty \in Int,
           NEW take \in Spread(cap, rows, qty),
           qty <= Total([l \in Line |-> IF l \in rows THEN cap[l] ELSE 0], Line),
           NEW S \in SUBSET Line
    PROVE  /\ rows \subseteq S => Total(take, S) = AtLeastZero(qty)
           /\ rows \intersect S = {} => Total(take, S) = 0
<1>1. \A l \in Line : take[l] \in Int /\ (l \notin rows => take[l] = 0)
  BY SpreadWithinCapacity
<1>2. IsFiniteSet(Line) /\ IsFiniteSet(S)
  BY LineAssumption, FS_Subset
<1>3. Total(take, rows) = AtLeastZero(qty)
  BY SpreadTakesAll
<1>4. ASSUME rows \subseteq S PROVE Total(take, S) = AtLeastZero(qty)
  <2>1. \A l \in S \ rows : take[l] = 0
    BY <1>1
  <2>2. SumFunctionOnSet(take, S) = SumFunctionOnSet(take, rows)
    BY <1>1, <1>2, <1>4, <2>1, SumOfSupport
  <2> QED
    BY <1>3, <2>2 DEF Total
<1>5. ASSUME rows \intersect S = {} PROVE Total(take, S) = 0
  <2>1. \A l \in S \ {} : take[l] = 0
    BY <1>1, <1>5
  <2>2. SumFunctionOnSet(take, S) = SumFunctionOnSet(take, {})
    <3>1. {} \in SUBSET S /\ \A l \in S : take[l] \in Int
      BY <1>1
    <3> QED
      BY <1>2, <2>1, <3>1, SumOfSupport
  <2> QED
    BY <2>2, SumEmpty DEF Total
<1> QED
  BY <1>4, <1>5

\* The parts of a transaction are finitely many integers at least 0.
LEMMA AskedAreNumbers ==
    ASSUME NEW r \in Tx, NEW t
    PROVE  /\ IsFiniteSet(Applied(r, t))
           /\ \A j \in DOMAIN r.parts : Asked(r)[j] \in Int /\ r.parts[j] \in Part
<1>1. r.parts \in Seq(Part)
  BY DEF Tx
<1>2. DOMAIN r.parts = 1 .. Len(r.parts) /\ Len(r.parts) \in Nat
  BY <1>1
<1>3. IsFiniteSet(DOMAIN r.parts)
  BY <1>2, FS_Interval
<1>4. ASSUME NEW j \in DOMAIN r.parts PROVE Asked(r)[j] \in Int /\ r.parts[j] \in Part
  <2>1. r.parts[j] \in Part
    BY <1>1, <1>2
  <2>2. r.parts[j].amount \in Int
    BY <2>1 DEF Part
  <2> QED
    BY <2>1, <2>2 DEF Asked, AtLeastZero
<1> QED
  BY <1>3, <1>4, FS_Subset DEF Applied

\* An empty transaction that starts at its first part has moved nothing and
\* applied nothing.
LEMMA EmptyTxAppliedNothing ==
    ASSUME NEW r \in Tx, r.delta = [l \in Line |-> 0], r.next = 1, NEW t
    PROVE  Total(Moved(r), LinesOf(r, t)) = Total(Asked(r), Applied(r, t))
<1>1. Applied(r, t) = {}
  <2>1. \A j \in DOMAIN r.parts : j \in Nat /\ j >= 1
    BY DEF Tx
  <2> QED
    BY <2>1 DEF Applied
<1>2. \A l \in LinesOf(r, t) : Moved(r)[l] = 0
  BY DEF LinesOf, Moved
<1>3. Total(Moved(r), LinesOf(r, t)) = Total(Moved(r), {})
  <2>1. IsFiniteSet(LinesOf(r, t)) /\ {} \in SUBSET LinesOf(r, t)
    BY LineAssumption, FS_Subset DEF LinesOf
  <2>2. PICK m, S : m = Moved(r) /\ S = LinesOf(r, t)
    OBVIOUS
  <2> QED
    BY <1>2, <2>1, <2>2, SumOfSupport DEF Total
<1> QED
  BY <1>1, <1>3, SumEmpty DEF Total

\* What a part takes from the lines adds to what its transaction moved there,
\* because a kind moves its column in one direction only.
LEMMA MovedAdds ==
    ASSUME NEW r \in Tx, NEW s \in Tx, NEW take \in [Line -> Nat], s.kind = r.kind,
           NEW sign, sign = (IF r.kind \in {Returned, Credited} THEN -1 ELSE 1),
           \A l \in Line : s.delta[l] = r.delta[l] + sign * take[l],
           r.kind \in {Returned, Credited} => \A l \in Line : r.delta[l] <= 0,
           r.kind \notin {Returned, Credited} => \A l \in Line : r.delta[l] >= 0,
           NEW S \in SUBSET Line
    PROVE  Total(Moved(s), S) = Total(Moved(r), S) + Total(take, S)
<1>1. ASSUME NEW l \in S
      PROVE  Moved(r)[l] \in Int /\ take[l] \in Int /\ Moved(s)[l] = Moved(r)[l] + take[l]
  <2>1. r.delta[l] \in Int /\ s.delta[l] \in Int /\ take[l] \in Nat
    BY DEF Tx
  <2>2. CASE r.kind \in {Returned, Credited}
    <3>1. s.delta[l] = r.delta[l] - take[l] /\ r.delta[l] <= 0
      BY <2>1, <2>2
    <3> QED
      BY <2>1, <3>1 DEF Moved
  <2>3. CASE r.kind \notin {Returned, Credited}
    <3>1. s.delta[l] = r.delta[l] + take[l] /\ r.delta[l] >= 0
      BY <2>1, <2>3
    <3> QED
      BY <2>1, <3>1 DEF Moved
  <2> QED
    BY <2>2, <2>3
<1>2. IsFiniteSet(S)
  BY LineAssumption, FS_Subset
<1>3. PICK m, n : m = Moved(r) /\ n = Moved(s)
  OBVIOUS
<1>4. \A l \in S : m[l] \in Int /\ take[l] \in Int /\ n[l] = m[l] + take[l]
  BY <1>1, <1>3
<1> QED
  BY <1>2, <1>3, <1>4, SumPlus DEF Total

\* One more part applies its own quantity to its own target.
LEMMA ApplyPartKeepsApplied ==
    ASSUME IInv, AppliedSoFar, NEW c \in Client, ApplyPart(c)
    PROVE  AppliedSoFar'
<1> DEFINE r == tx[c]
           p == CurrentPart(c)
           rows == WantedRows(c)
           cap == [l \in Line |-> SeenCapacity(c, l)]
<1>1. PICK take \in Spread(cap, rows, p.amount) :
          tx' = [tx EXCEPT ![c].next = @ + 1,
                           ![c].delta = [l \in Line |-> @[l] + (IF tx[c].kind \in {Returned, Credited}
                                                                THEN -1 ELSE 1) * take[l]]]
  BY DEF ApplyPart
<1>2. tx \in [Client -> Tx] /\ tx' \in [Client -> Tx]
  BY ApplyPartKeepsIInv DEF IInv, TypeOK
<1>3. PICK s : s = tx'[c]
  OBVIOUS
<1>4. r \in Tx /\ s \in Tx
  BY <1>2, <1>3
<1>5. PICK sign : sign = (IF r.kind \in {Returned, Credited} THEN -1 ELSE 1)
  OBVIOUS
<1>6. /\ \A d \in Client \ {c} : tx'[d] = tx[d]
      /\ s.kind = r.kind /\ s.parts = r.parts /\ s.next = r.next + 1
      /\ \A l \in Line : s.delta[l] = r.delta[l] + sign * take[l]
  BY <1>1, <1>2, <1>3, <1>5 DEF Tx
<1>7. r.next \in DOMAIN r.parts /\ p = r.parts[r.next] /\ Running(c) /\ r.next \in Nat
  BY <1>4 DEF ApplyPart, PartLocked, MoreParts, CurrentPart, Tx
<1>8. p \in Part /\ p.amount \in Int /\ p.target \in Item \union Line
  BY <1>4, <1>7, AskedAreNumbers DEF Part
<1>9. take \in [Line -> Nat]
  BY <1>8 DEF Spread, AtLeastZero
<1>10. /\ r.kind \in {Returned, Credited} => \A l \in Line : r.delta[l] <= 0
       /\ r.kind \notin {Returned, Credited} => \A l \in Line : r.delta[l] >= 0
  BY <1>4, <1>7 DEF IInv, DeltaOK, Running, Tx, Kind, WatermarkKind
<1>11. /\ rows \subseteq LinesOf(r, p.target)
       /\ \A t : t # p.target => rows \intersect LinesOf(r, t) = {}
  BY DEF WantedRows, RowsOf, LinesOf, Live
<1>12. /\ cap \in [Line -> Int] /\ rows \in SUBSET Line
       /\ p.amount <= Total([l \in Line |-> IF l \in rows THEN cap[l] ELSE 0], Line)
  <2>1. cap \in [Line -> Int]
    BY <1>7, SeenCapacityIsNumber DEF IInv
  <2>2. rows \in SUBSET Line
    BY DEF WantedRows, RowsOf, Live
  <2>3. p.amount <= Total([l \in Line |-> IF l \in rows THEN SeenCapacity(c, l) ELSE 0], Line)
    BY DEF ApplyPart, PartFits
  <2>4. [l \in Line |-> IF l \in rows THEN SeenCapacity(c, l) ELSE 0]
            = [l \in Line |-> IF l \in rows THEN cap[l] ELSE 0]
    OBVIOUS
  <2> QED
    BY <2>1, <2>2, <2>3, <2>4
<1>13. ASSUME NEW t \in Item \union Line
       PROVE  Total(Moved(s), LinesOf(s, t)) = Total(Asked(s), Applied(s, t))
  <2>1. LinesOf(s, t) = LinesOf(r, t) /\ LinesOf(r, t) \in SUBSET Line /\ Asked(s) = Asked(r)
    BY <1>6 DEF LinesOf, Asked
  <2>2. Total(Moved(s), LinesOf(r, t)) = Total(Moved(r), LinesOf(r, t)) + Total(take, LinesOf(r, t))
    <3> HIDE DEF r
    <3> QED
      BY <1>4, <1>5, <1>6, <1>9, <1>10, <2>1, MovedAdds
  <2>3. Total(Moved(r), LinesOf(r, t)) = Total(Asked(r), Applied(r, t))
    BY <1>7 DEF AppliedSoFar
  <2>4. Applied(s, t) = IF p.target = t THEN Applied(r, t) \union {r.next} ELSE Applied(r, t)
    <3>1. \A j \in DOMAIN r.parts : j \in Nat /\ (j < r.next + 1 <=> j < r.next \/ j = r.next)
      BY <1>4, <1>7 DEF Tx
    <3> QED
      BY <1>6, <1>7, <3>1 DEF Applied
  <2>5. CASE p.target = t
    <3>1. Total(take, LinesOf(r, t)) = AtLeastZero(p.amount)
      <4> HIDE DEF cap, rows, p
      <4> QED
        BY <1>1, <1>8, <1>11, <1>12, <2>1, <2>5, SpreadCounts
    <3>2. Total(Asked(r), Applied(r, t) \union {r.next}) =
              Asked(r)[r.next] + Total(Asked(r), Applied(r, t))
      <4>1. r.next \notin Applied(r, t) /\ Applied(r, t) \subseteq DOMAIN r.parts
        BY <1>7 DEF Applied
      <4>2. PICK a, A : a = Asked(r) /\ A = Applied(r, t)
        OBVIOUS
      <4>3. IsFiniteSet(A) /\ \A j \in A \union {r.next} : a[j] \in Int
        BY <1>4, <1>7, <4>1, <4>2, AskedAreNumbers
      <4> QED
        BY <4>1, <4>2, <4>3, SumAdd DEF Total
    <3>3. Asked(r)[r.next] = AtLeastZero(p.amount)
      BY <1>7 DEF Asked
    <3>4. Total(Asked(r), Applied(r, t)) \in Int /\ AtLeastZero(p.amount) \in Int
      <4>1. PICK a, A : a = Asked(r) /\ A = Applied(r, t)
        OBVIOUS
      <4>2. IsFiniteSet(A) /\ \A j \in A : a[j] \in Int
        BY <1>4, <4>1, AskedAreNumbers DEF Applied
      <4> QED
        BY <1>8, <4>1, <4>2, SumIsInt DEF Total, AtLeastZero
    <3> QED
      BY <2>1, <2>2, <2>3, <2>4, <2>5, <3>1, <3>2, <3>3, <3>4
  <2>6. CASE p.target # t
    <3>1. Total(take, LinesOf(r, t)) = 0
      <4> HIDE DEF cap, rows, p
      <4> QED
        BY <1>1, <1>8, <1>11, <1>12, <2>1, <2>6, SpreadCounts
    <3>2. Total(Asked(r), Applied(r, t)) \in Int
      <4>1. PICK a, A : a = Asked(r) /\ A = Applied(r, t)
        OBVIOUS
      <4>2. IsFiniteSet(A) /\ \A j \in A : a[j] \in Int
        BY <1>4, <4>1, AskedAreNumbers DEF Applied
      <4> QED
        BY <4>1, <4>2, SumIsInt DEF Total
    <3> QED
      BY <2>1, <2>2, <2>3, <2>4, <2>6, <3>1, <3>2
  <2> QED
    BY <2>5, <2>6
<1>14. ASSUME NEW d \in Client, Running(d)', NEW t \in Item \union Line
       PROVE  (Total(Moved(tx[d]), LinesOf(tx[d], t)) = Total(Asked(tx[d]), Applied(tx[d], t)))'
  <2>1. PICK q : q = tx'[d]
    OBVIOUS
  <2>2. Total(Moved(q), LinesOf(q, t)) = Total(Asked(q), Applied(q, t))
    BY <1>3, <1>6, <1>13, <1>14, <2>1 DEF AppliedSoFar, Running
  <2> QED
    BY <2>1, <2>2 DEF Total, Moved, LinesOf, Asked, Applied
<1> QED
  BY <1>14 DEF AppliedSoFar

\* The other steps leave every running transaction's parts and writes alone,
\* or open one that has applied nothing.
LEMMA OtherStepKeepsApplied ==
    ASSUME IInv, AppliedSoFar, tx' \in [Client -> Tx],
           \A d \in Client : Running(d)' =>
               \/ /\ Running(d)
                  /\ tx'[d].kind = tx[d].kind /\ tx'[d].parts = tx[d].parts
                  /\ tx'[d].next = tx[d].next /\ tx'[d].delta = tx[d].delta
               \/ tx'[d].next = 1 /\ tx'[d].delta = [l \in Line |-> 0]
    PROVE  AppliedSoFar'
<1>1. ASSUME NEW d \in Client, Running(d)', NEW t \in Item \union Line
      PROVE  (Total(Moved(tx[d]), LinesOf(tx[d], t)) = Total(Asked(tx[d]), Applied(tx[d], t)))'
  <2>1. PICK q : q = tx'[d]
    OBVIOUS
  <2>2. q \in Tx
    BY <2>1
  <2>3. Total(Moved(q), LinesOf(q, t)) = Total(Asked(q), Applied(q, t))
    <3>1. CASE q.next = 1 /\ q.delta = [l \in Line |-> 0]
      BY <2>2, <3>1, EmptyTxAppliedNothing
    <3>2. CASE /\ Running(d) /\ q.kind = tx[d].kind /\ q.parts = tx[d].parts
               /\ q.next = tx[d].next /\ q.delta = tx[d].delta
      <4>1. /\ Moved(q) = Moved(tx[d]) /\ LinesOf(q, t) = LinesOf(tx[d], t)
            /\ Asked(q) = Asked(tx[d]) /\ Applied(q, t) = Applied(tx[d], t)
        BY <3>2 DEF Moved, LinesOf, Asked, Applied
      <4> QED
        BY <3>2, <4>1 DEF AppliedSoFar
    <3> QED
      BY <1>1, <2>1, <3>1, <3>2
  <2> QED
    BY <2>1, <2>3 DEF Total, Moved, LinesOf, Asked, Applied
<1> QED
  BY <1>1 DEF AppliedSoFar

LEMMA StepKeepsApplied == IInv /\ AppliedSoFar /\ [Next]_vars => AppliedSoFar'
<1> SUFFICES ASSUME IInv, AppliedSoFar, [Next]_vars PROVE AppliedSoFar'
  OBVIOUS
<1>1. tx \in [Client -> Tx] /\ tx' \in [Client -> Tx]
  BY StepKeepsIInv DEF IInv, TypeOK
<1>2. ASSUME NEW c \in Client, ApplyPart(c) PROVE AppliedSoFar'
  BY <1>2, ApplyPartKeepsApplied
<1>3. ASSUME NEW c \in Client, NEW req \in Requests, Begin(c, req) PROVE AppliedSoFar'
  <2>1. /\ \A d \in Client \ {c} : tx'[d] = tx[d]
        /\ tx'[c].next = 1 /\ tx'[c].delta = [l \in Line |-> 0]
    BY <1>1, <1>3 DEF Begin, NewTx
  <2> QED
    BY <1>1, <2>1, OtherStepKeepsApplied DEF Running
<1>4. ASSUME NEW c \in Client, tx' = [tx EXCEPT ![c] = NoTx] PROVE AppliedSoFar'
  <2>1. /\ \A d \in Client \ {c} : tx'[d] = tx[d]
        /\ tx'[c].next = 1 /\ tx'[c].delta = [l \in Line |-> 0]
    BY <1>1, <1>4 DEF NoTx, NewTx
  <2> QED
    BY <1>1, <2>1, OtherStepKeepsApplied DEF Running
<1>5. ASSUME NEW c \in Client, NEW l \in Line, LockRow(c, l) PROVE AppliedSoFar'
  <2>1. /\ \A d \in Client \ {c} : tx'[d] = tx[d]
        /\ tx'[c].kind = tx[c].kind /\ tx'[c].parts = tx[c].parts
        /\ tx'[c].next = tx[c].next /\ tx'[c].delta = tx[c].delta
    BY <1>1, <1>5 DEF LockRow, Tx
  <2> QED
    BY <1>1, <2>1, OtherStepKeepsApplied DEF Running
<1>6. ASSUME tx' = tx PROVE AppliedSoFar'
  BY <1>1, <1>6, OtherStepKeepsApplied DEF Running
<1> QED
  BY <1>2, <1>3, <1>4, <1>5, <1>6
  DEF Next, Step, Reject, Commit, DeadlockAbort, ConnectionLost, EndTx,
      SetManualLineReceipt, SoftDeleteLine, HeaderMoves, vars

\* The whole of a request or none of it: mark_received, mark_billed,
\* mark_returned, mark_credited and match_bill_lines reach their commit only
\* when each item (each line, for a bill match) has moved by exactly the sum
\* of the quantities named for it, however often it was named.
THEOREM RequestsAppliedInFull == Spec => []AppliedInFull
<1>1. Init => AppliedSoFar
  BY DEF Init, AppliedSoFar, Running, NoTx, NewTx
<1>2. IInv /\ AppliedSoFar => AppliedInFull
  <2> SUFFICES ASSUME IInv, AppliedSoFar, NEW c \in Client, Running(c), ~MoreParts(c),
                      NEW i \in DOMAIN tx[c].parts
               PROVE  LET parts == tx[c].parts
                          amounts == [j \in DOMAIN parts |-> AtLeastZero(parts[j].amount)]
                          moved == [l \in Line |-> IF tx[c].delta[l] < 0 THEN -tx[c].delta[l]
                                                                         ELSE tx[c].delta[l]]
                          covers(l, t) == IF tx[c].kind = Matched THEN l = t ELSE item[l] = t
                      IN Total(moved, {l \in Line : covers(l, parts[i].target)}) =
                         Total(amounts, {j \in DOMAIN parts : parts[j].target = parts[i].target})
    BY DEF AppliedInFull
  <2> DEFINE t == tx[c].parts[i].target
  <2>1. tx[c] \in Tx
    BY DEF IInv, TypeOK
  <2>2. t \in Item \union Line
    BY <2>1, AskedAreNumbers DEF Part
  <2>3. Applied(tx[c], t) = {j \in DOMAIN tx[c].parts : tx[c].parts[j].target = t}
    <3>1. DOMAIN tx[c].parts = 1 .. Len(tx[c].parts) /\ Len(tx[c].parts) \in Nat
          /\ tx[c].next \in Nat
      BY <2>1 DEF Tx
    <3>2. \A j \in DOMAIN tx[c].parts : j < tx[c].next
      BY <3>1 DEF MoreParts
    <3> QED
      BY <3>2 DEF Applied
  <2> QED
    BY <2>2, <2>3 DEF AppliedSoFar, Moved, Asked, LinesOf
<1> QED
  BY <1>1, <1>2, InductiveInvariant, StepKeepsApplied, PTL DEF Spec
=============================================================================
