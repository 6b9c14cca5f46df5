----------------------- MODULE BlanketAgreementProofs -----------------------
(***************************************************************************)
(* For every set of lines, callers, rates, orders and requests: the types, *)
(* the cap of the blanket, the turns of closes and call-offs, the live     *)
(* prices, and that what is drawn is what the call-offs ordered.           *)
(***************************************************************************)
EXTENDS BlanketAgreement, SumFacts, TLAPS

-----------------------------------------------------------------------------
(* Types.                                                                  *)

LEMMA IdleIsCall == Idle \in Call
  BY DEF Idle, Call, RateBook

\* Moving a call to its next statement keeps it a call.
At == {"idle", "open", "lock_line", "find", "price", "clear", "replace",
       "lock", "retire", "share", "draw"}

LEMMA CallAt ==
  ASSUME NEW k \in Call, NEW at \in At
  PROVE  [k EXCEPT !.at = at] \in Call
  BY DEF Call, At

LEMMA CallAtRates ==
  ASSUME NEW k \in Call, NEW at \in At, NEW rates \in RateBook
  PROVE  [k EXCEPT !.at = at, !.rates = rates] \in Call
  BY DEF Call, At

LEMMA CallAtSeen ==
  ASSUME NEW k \in Call, NEW at \in At, NEW seen \in SUBSET Line
  PROVE  [k EXCEPT !.at = at, !.seen = seen] \in Call
  BY DEF Call, At

LEMMA CallAtDraws ==
  ASSUME NEW k \in Call, NEW at \in At, NEW draws \in Seq(Draw)
  PROVE  [k EXCEPT !.at = at, !.draws = draws] \in Call
  BY DEF Call, At

LEMMA CallAtVerb ==
  ASSUME NEW k \in Call, NEW at \in At, NEW verb \in {"none", "close", "cancel"}
  PROVE  [k EXCEPT !.at = at, !.verb = verb] \in Call
  BY DEF Call, At

LEMMA CallDraws ==
  ASSUME NEW k \in Call, NEW draws \in Seq(Draw), NEW l \in Line, NEW q \in Nat
  PROVE  [k EXCEPT !.draws = draws, !.taken[l] = @ + q] \in Call
<1>1. [k.taken EXCEPT ![l] = @ + q] \in [Line -> Nat]
  BY DEF Call
<1> QED BY <1>1 DEF Call

\* A draw leaves a request that is one shorter, and the draw is a draw.
LEMMA HeadAndTail ==
  ASSUME NEW s \in Seq(Draw), s # <<>>
  PROVE  Head(s) \in Draw /\ Tail(s) \in Seq(Draw)
  OBVIOUS

\* The order of a call-off starts as a draft with what was drawn.
LEMMA NewOrderType ==
  ASSUME NEW drew \in [Line -> Nat]
  PROVE  [NoOrder EXCEPT !.status = "draft", !.draws = drew]
            \in [status : Status \union {"none"}, draws : [Line -> Nat], reopened : BOOLEAN]
<1>1. NoOrder \in [status : Status \union {"none"}, draws : [Line -> Nat], reopened : BOOLEAN]
  BY DEF NoOrder
<1> QED BY <1>1 DEF Status

\* An upsert yields rows of rates.
LEMMA UpsertType ==
  ASSUME NEW rates \in RateBook, NEW found, price \in [Line -> Seq(Rates)]
  PROVE  Upsert(rates, found) \in [Line -> Seq(Rates)]
<1> SUFFICES ASSUME NEW l \in Line
             PROVE  (IF l \notin Named(rates) THEN price[l]
                     ELSE IF l \in found THEN Refreshed(price[l], rates[l])
                     ELSE Append(price[l], rates[l])) \in Seq(Rates)
  BY DEF Upsert
<1>1. price[l] \in Seq(Rates)
  OBVIOUS
<1>2. CASE l \in Named(rates)
  <2>1. rates[l] \in Rates
    BY <1>2 DEF Named, RateBook
  <2>2. Append(price[l], rates[l]) \in Seq(Rates)
    BY <1>1, <2>1
  <2>3. Refreshed(price[l], rates[l]) \in Seq(Rates)
    BY <1>1, <2>1 DEF Refreshed
  <2> QED BY <2>2, <2>3, <1>2
<1> QED BY <1>1, <1>2

LEMMA TypeInit == Init => TypeOK
<1> SUFFICES ASSUME Init PROVE TypeOK
  OBVIOUS
<1>1. live \subseteq Line
  BY DEF Init, Named
<1>2. price \in [Line -> Seq(Rates)]
  BY DEF Init
<1>3. order \in [Order -> [status : Status \union {"none"}, draws : [Line -> Nat], reopened : BOOLEAN]]
  BY DEF Init, NoOrder
<1>4. call \in [Client -> Call]
  BY IdleIsCall DEF Init
<1> QED BY <1>1, <1>2, <1>3, <1>4 DEF Init, TypeOK, AgreementStatus

LEMMA TypeStep == TypeOK /\ [Next]_vars => TypeOK'
<1> SUFFICES ASSUME TypeOK, [Next]_vars PROVE TypeOK'
  OBVIOUS
<1> USE DEF TypeOK
<1>0. ASSUME NEW c \in Client, Return(c) PROVE call' \in [Client -> Call]
  BY <1>0, IdleIsCall DEF Return
<1>a. ASSUME NEW c \in Client, NEW at \in {"find", "retire", "draw"}, Go(c, at)
      PROVE  call' \in [Client -> Call]
  <2>1. [call[c] EXCEPT !.at = at] \in Call
    BY CallAt DEF At
  <2> QED BY <1>a, <2>1 DEF Go
<1>1. ASSUME NEW c \in Client, ConfirmReads(c) PROVE TypeOK'
  <2> DEFINE read == [l \in Line |-> IF l \in live THEN rate[l] ELSE NoRate]
  <2>1. read \in RateBook
    BY DEF RateBook
  <2>2. [Idle EXCEPT !.at = "open", !.rates = read] \in Call
    BY <2>1, IdleIsCall, CallAtRates DEF At
  <2> QED BY <1>1, <2>2 DEF ConfirmReads, Start, book
<1>2. ASSUME NEW c \in Client, ConfirmCommits(c) PROVE TypeOK'
  <2>1. Upsert(call[c].rates, Priced) \in [Line -> Seq(Rates)]
    BY UpsertType DEF Call
  <2> QED BY <1>0, <1>2, <2>1 DEF ConfirmCommits, book, AgreementStatus
<1>3. ASSUME NEW c \in Client, NEW l \in Line, NEW r \in Rates, RepriceReads(c, l, r) PROVE TypeOK'
  <2> DEFINE named == [Idle.rates EXCEPT ![l] = r]
  <2>0. named \in RateBook
    BY DEF RateBook, Idle
  <2>1. [Idle EXCEPT !.at = "lock_line", !.rates = named] \in Call
    BY <2>0, IdleIsCall, CallAtRates DEF At
  <2> QED BY <1>3, <2>1 DEF RepriceReads, Start, book
<1>4. ASSUME NEW c \in Client, RepriceLocksLine(c) PROVE TypeOK'
  BY <1>a, <1>4 DEF RepriceLocksLine, book
<1>5. ASSUME NEW c \in Client, RepriceFinds(c) PROVE TypeOK'
  <2> DEFINE found == Priced \intersect Named(call[c].rates)
  <2>1. [call[c] EXCEPT !.at = "price", !.seen = found] \in Call
    BY CallAtSeen DEF At, Priced, Named
  <2> QED BY <1>5, <2>1 DEF RepriceFinds, book
<1>6. ASSUME NEW c \in Client, RepriceCommits(c) PROVE TypeOK'
  <2>1. Upsert(call[c].rates, call[c].seen) \in [Line -> Seq(Rates)]
    BY UpsertType DEF Call
  <2>2. rate' \in RateBook
    BY <1>6 DEF RepriceCommits, Call, RateBook
  <2> QED BY <1>0, <1>6, <2>1, <2>2 DEF RepriceCommits
<1>7. ASSUME NEW c \in Client, ResequenceReads(c) PROVE TypeOK'
  <2>1. [Idle EXCEPT !.at = "clear"] \in Call
    BY IdleIsCall, CallAt DEF At
  <2> QED BY <1>7, <2>1 DEF ResequenceReads, Start, book
<1>8. ASSUME NEW c \in Client, ResequenceClears(c) PROVE TypeOK'
  <2>1. [call[c] EXCEPT !.at = "replace", !.seen = live] \in Call
    BY CallAtSeen DEF At
  <2> QED BY <1>8, <2>1 DEF ResequenceClears, book
<1>9. ASSUME NEW c \in Client, NEW new \in RateBook, ResequenceCommits(c, new) PROVE TypeOK'
  <2>1. rate' \in RateBook
    BY <1>9 DEF ResequenceCommits, RateBook
  <2> QED BY <1>0, <1>9, <2>1 DEF ResequenceCommits, Named
<1>10. ASSUME NEW c \in Client, NEW verb \in {"close", "cancel"}, RetireReads(c, verb) PROVE TypeOK'
  <2>1. [Idle EXCEPT !.at = "lock", !.verb = verb] \in Call
    BY IdleIsCall, CallAtVerb DEF At
  <2> QED BY <1>10, <2>1 DEF RetireReads, Start, book
<1>11. ASSUME NEW c \in Client, RetireLocks(c) PROVE TypeOK'
  BY <1>a, <1>11 DEF RetireLocks, book
<1>12. ASSUME NEW c \in Client, RetireCommits(c) PROVE TypeOK'
  <2>1. [l \in Line |-> <<>>] \in [Line -> Seq(Rates)]
    OBVIOUS
  <2> QED BY <1>0, <1>12, <2>1 DEF RetireCommits, book, Target, AgreementStatus
<1>13. ASSUME NEW c \in Client, NEW draws \in Requests, CallOffReads(c, draws) PROVE TypeOK'
  <2>1. [Idle EXCEPT !.at = "share", !.draws = draws] \in Call
    BY IdleIsCall, CallAtDraws, BlanketAssumption DEF At
  <2> QED BY <1>13, <2>1 DEF CallOffReads, Start, book
<1>14. ASSUME NEW c \in Client, CallOffLocks(c) PROVE TypeOK'
  BY <1>0, <1>a, <1>14 DEF CallOffLocks, book
<1>15. ASSUME NEW c \in Client, CallOffDraws(c) PROVE TypeOK'
  <2> DEFINE d == Head(call[c].draws)
             k == [call[c] EXCEPT !.draws = Tail(@), !.taken[d.line] = @ + d.quantity]
  <2>1. call[c] \in Call /\ call[c].draws # <<>>
    BY <1>15 DEF CallOffDraws
  <2>2. d \in Draw /\ Tail(call[c].draws) \in Seq(Draw)
    BY <2>1, HeadAndTail DEF Call
  <2>3. k \in Call
    BY <2>1, <2>2, CallDraws DEF Draw
  <2>4. call' \in [Client -> Call]
    BY <1>0, <1>15, <2>3 DEF CallOffDraws
  <2> QED BY <1>15, <2>4 DEF CallOffDraws, book
<1>16. ASSUME NEW c \in Client, CallOffCommits(c) PROVE TypeOK'
  <2>1. call[c].taken \in [Line -> Nat]
    BY DEF Call
  <2>2. order' \in [Order -> [status : Status \union {"none"}, draws : [Line -> Nat], reopened : BOOLEAN]]
    <3>1. PICK o \in Order :
             order' = [order EXCEPT ![o] = [NoOrder EXCEPT !.status = "draft", !.draws = call[c].taken]]
      BY <1>16 DEF CallOffCommits
    <3>2. [NoOrder EXCEPT !.status = "draft", !.draws = call[c].taken]
            \in [status : Status \union {"none"}, draws : [Line -> Nat], reopened : BOOLEAN]
      BY <2>1, NewOrderType
    <3> QED BY <3>1, <3>2
  <2>3. drawn' \in [Line -> Nat]
    BY <1>16, <2>1 DEF CallOffCommits
  <2> QED BY <1>0, <1>16, <2>2, <2>3 DEF CallOffCommits, book
<1>17. ASSUME NEW c \in Client, Crash(c) PROVE TypeOK'
  BY <1>0, <1>17 DEF Crash, book
<1>18. ASSUME NEW o \in Order, OrderMoves(o) PROVE TypeOK'
  <2>1. PICK to \in Status :
           order' = [order EXCEPT ![o].status = to,
                                  ![o].reopened = @ \/ (to = "draft" /\ o \notin OpenCallOffs)]
    BY <1>18 DEF OrderMoves
  <2>2. order' \in [Order -> [status : Status \union {"none"}, draws : [Line -> Nat], reopened : BOOLEAN]]
    BY <2>1
  <2> QED BY <1>18, <2>2 DEF OrderMoves, book
<1>19. CASE UNCHANGED vars
  BY <1>19 DEF vars, book
<1> QED
  BY <1>1, <1>2, <1>3, <1>4, <1>5, <1>6, <1>7, <1>8, <1>9, <1>10, <1>11, <1>12, <1>13,
     <1>14, <1>15, <1>16, <1>17, <1>18, <1>19 DEF Next, Begin, Trade, Manage

\* Every variable keeps its type; in particular a request's draws stay draws
\* and the statuses stay in their enums.
THEOREM TypeCorrect == Spec => []TypeOK
<1>1. Init => TypeOK
  BY TypeInit
<1>2. TypeOK /\ [Next]_vars => TypeOK'
  BY TypeStep
<1> QED BY <1>1, <1>2, PTL DEF Spec

-----------------------------------------------------------------------------
(* The agreement's row: a close and the call-offs take turns.              *)

\* A transaction that holds the agreement exclusively is alone on it, and
\* while a call-off holds its share the agreement stays open.
Turns ==
    /\ \A c, d \in Client : c # d /\ HoldsAgreement(c) => ~HoldsAgreement(d) /\ ~HoldsShare(d)
    /\ \A c \in Client : HoldsShare(c) => status = "open"
    /\ NoCallOffStranded

LEMMA TurnsInit == Init => Turns
  BY DEF Init, Turns, HoldsAgreement, HoldsShare, Idle, NoCallOffStranded

\* A reset is the only move that makes a call-off open again, and it is marked.
LEMMA OpenAgainIsReopened ==
  ASSUME TypeOK, NEW o \in Order, OrderMoves(o), NEW p \in Order, p \in OpenCallOffs'
  PROVE  order'[p].reopened \/ (p \in OpenCallOffs /\ order'[p].reopened = order[p].reopened)
<1>1. PICK to \in Status :
        /\ <<order[o].status, to>> \in DeclaredMoves
        /\ order' = [order EXCEPT ![o].status = to,
                                  ![o].reopened = @ \/ (to = "draft" /\ o \notin OpenCallOffs)]
  BY DEF OrderMoves
<1>2. CASE p # o
  BY <1>1, <1>2 DEF OpenCallOffs, TypeOK
<1>3. CASE p = o /\ o \in OpenCallOffs
  BY <1>1, <1>3 DEF OpenCallOffs, TypeOK
<1>4. CASE p = o /\ o \notin OpenCallOffs
  <2>1. to \in {"draft", "sent", "to_approve"}
    BY <1>1, <1>4 DEF OpenCallOffs, TypeOK
  <2>2. order[o].status \in {"purchase", "cancelled"}
    BY <1>1, <1>4 DEF OpenCallOffs, DeclaredMoves
  <2>3. to = "draft"
    BY <1>1, <2>1, <2>2 DEF DeclaredMoves
  <2> QED BY <1>1, <1>4, <2>3 DEF TypeOK
<1> QED BY <1>2, <1>3, <1>4

LEMMA TurnsStep == TypeOK /\ Turns /\ [Next]_vars => Turns'
<1> SUFFICES ASSUME TypeOK, Turns, [Next]_vars PROVE Turns'
  OBVIOUS
<1> USE DEF HoldsAgreement, HoldsShare
<1>0. call \in [Client -> Call]
  BY DEF TypeOK
<1>1. ASSUME NEW c \in Client,
             \A d \in Client \ {c} : call'[d] = call[d],
             call'[c].at \notin {"retire", "draw"} \/ call'[c].at = call[c].at,
             UNCHANGED <<status, order>>
      PROVE  Turns'
  BY <1>1 DEF Turns, NoCallOffStranded, OpenCallOffs
<1>2. ASSUME NEW c \in Client, Begin(c) PROVE Turns'
  <2>1. \A d \in Client \ {c} : call'[d] = call[d]
    BY <1>0, <1>2 DEF Begin, ConfirmReads, ResequenceReads, RepriceReads, RetireReads, CallOffReads, Start
  <2>2. call'[c].at \in {"open", "lock_line", "clear", "lock", "share"}
    BY <1>0, <1>2 DEF Begin, ConfirmReads, ResequenceReads, RepriceReads, RetireReads, CallOffReads, Start, Idle
  <2>3. UNCHANGED <<status, order>>
    BY <1>2 DEF Begin, ConfirmReads, ResequenceReads, RepriceReads, RetireReads, CallOffReads
  <2> QED BY <1>1, <2>1, <2>2, <2>3
<1>3. ASSUME NEW c \in Client,
             RepriceLocksLine(c) \/ RepriceFinds(c) \/ RepriceCommits(c)
               \/ ResequenceClears(c) \/ (\E new \in RateBook : ResequenceCommits(c, new))
               \/ Crash(c)
      PROVE  Turns'
  <2>1. \A d \in Client \ {c} : call'[d] = call[d]
    BY <1>0, <1>3 DEF RepriceLocksLine, RepriceFinds, RepriceCommits, ResequenceClears, ResequenceCommits,
                      Crash, Go, Return
  <2>2. call'[c].at \in {"find", "price", "replace", "idle"}
    BY <1>0, <1>3 DEF RepriceLocksLine, RepriceFinds, RepriceCommits, ResequenceClears, ResequenceCommits,
                      Crash, Go, Return, Idle, Call
  <2>3. UNCHANGED <<status, order>>
    BY <1>3 DEF RepriceLocksLine, RepriceFinds, RepriceCommits, ResequenceClears, ResequenceCommits,
                Crash
  <2> QED BY <1>1, <2>1, <2>2, <2>3
<1>4. ASSUME NEW c \in Client, ConfirmCommits(c) PROVE Turns'
  <2>1. \A d \in Client : d # c => call'[d] = call[d]
    BY <1>0, <1>4 DEF ConfirmCommits, Return
  <2>2. call'[c].at = "idle"
    BY <1>0, <1>4 DEF ConfirmCommits, Return, Idle
  <2>3. status' = status \/ status' = "open"
    BY <1>4 DEF ConfirmCommits
  <2>4. order' = order
    BY <1>4 DEF ConfirmCommits
  <2> QED BY <2>1, <2>2, <2>3, <2>4 DEF Turns, NoCallOffStranded, OpenCallOffs
<1>5. ASSUME NEW c \in Client, RetireLocks(c) PROVE Turns'
  <2>1. \A d \in Client : d # c => call'[d] = call[d] /\ ~HoldsAgreement(d) /\ ~HoldsShare(d)
    BY <1>0, <1>5 DEF RetireLocks, Go, MayLock
  <2>2. call'[c].at = "retire"
    BY <1>0, <1>5 DEF RetireLocks, Go, Call
  <2>3. UNCHANGED <<status, order>>
    BY <1>5 DEF RetireLocks
  <2> QED BY <2>1, <2>2, <2>3 DEF Turns, NoCallOffStranded, OpenCallOffs
<1>6. ASSUME NEW c \in Client, RetireCommits(c) PROVE Turns'
  <2>1. \A d \in Client : d # c => call'[d] = call[d]
    BY <1>0, <1>6 DEF RetireCommits, Return
  <2>2. call'[c].at = "idle"
    BY <1>0, <1>6 DEF RetireCommits, Return, Idle
  <2>3. \A d \in Client : ~HoldsShare(d)
    BY <1>6 DEF RetireCommits, Turns
  <2>4. order' = order /\ (status' = status \/ OpenCallOffs = {})
    BY <1>6 DEF RetireCommits
  <2> QED BY <2>1, <2>2, <2>3, <2>4 DEF Turns, NoCallOffStranded, OpenCallOffs
<1>7. ASSUME NEW c \in Client, CallOffLocks(c) PROVE Turns'
  <2>1. \A d \in Client : d # c => call'[d] = call[d] /\ ~HoldsAgreement(d)
    BY <1>0, <1>7 DEF CallOffLocks, Go, Return, MayShare
  <2>2. call'[c].at = "idle" \/ (call'[c].at = "draw" /\ status = "open")
    BY <1>0, <1>7 DEF CallOffLocks, Go, Return, Idle, Call
  <2>3. UNCHANGED <<status, order>>
    BY <1>7 DEF CallOffLocks
  <2> QED BY <2>1, <2>2, <2>3 DEF Turns, NoCallOffStranded, OpenCallOffs
<1>8. ASSUME NEW c \in Client, CallOffDraws(c) PROVE Turns'
  <2>1. \A d \in Client \ {c} : call'[d] = call[d]
    BY <1>0, <1>8 DEF CallOffDraws, Return
  <2>2. call'[c].at = call[c].at \/ call'[c].at = "idle"
    BY <1>0, <1>8 DEF CallOffDraws, Return, Idle, Call
  <2>3. UNCHANGED <<status, order>>
    BY <1>8 DEF CallOffDraws
  <2> QED BY <1>1, <2>1, <2>2, <2>3
<1>9. ASSUME NEW c \in Client, CallOffCommits(c) PROVE Turns'
  <2>1. \A d \in Client : d # c => call'[d] = call[d]
    BY <1>0, <1>9 DEF CallOffCommits, Return
  <2>2. call'[c].at = "idle"
    BY <1>0, <1>9 DEF CallOffCommits, Return, Idle
  <2>3. status = "open" /\ status' = status
    BY <1>9 DEF CallOffCommits, Turns
  <2> QED BY <2>1, <2>2, <2>3 DEF Turns, NoCallOffStranded
<1>10. ASSUME NEW o \in Order, OrderMoves(o) PROVE Turns'
  <2>1. UNCHANGED <<status, call>>
    BY <1>10 DEF OrderMoves
  <2>2. NoCallOffStranded'
    <3> SUFFICES ASSUME status \in {"done", "cancelled"}, NEW p \in OpenCallOffs'
                 PROVE  order'[p].reopened
      BY <2>1 DEF NoCallOffStranded
    <3>1. p \in Order
      BY DEF OpenCallOffs
    <3> QED BY <1>10, <3>1, OpenAgainIsReopened DEF Turns, NoCallOffStranded
  <2> QED BY <2>1, <2>2 DEF Turns
<1>11. CASE UNCHANGED vars
  BY <1>11 DEF vars, book, Turns, NoCallOffStranded, OpenCallOffs
<1> QED
  BY <1>2, <1>3, <1>4, <1>5, <1>6, <1>7, <1>8, <1>9, <1>10, <1>11 DEF Next, Trade, Manage

\* A close and a call-off take turns on the agreement's row, so that no retired
\* agreement has a call-off open on it that was never confirmed or cancelled.
THEOREM NothingStranded == Spec => []NoCallOffStranded
<1>1. Init => TypeOK /\ Turns
  BY TypeInit, TurnsInit
<1>2. TypeOK /\ Turns /\ [Next]_vars => TypeOK' /\ Turns'
  BY TypeStep, TurnsStep
<1>3. Turns => NoCallOffStranded
  BY DEF Turns
<1> QED BY <1>1, <1>2, <1>3, PTL DEF Spec

-----------------------------------------------------------------------------
(* The rows of the lines: draws stay within the blanket.                   *)

\* Nobody but the holder of a line has drawn on it, and what it has drawn fits
\* on top of what is committed.
Caps ==
    /\ WithinBlanket
    /\ \A c \in Client, l \in Line : call[c].taken[l] > 0 => call[c].at = "draw"
    /\ \A c, d \in Client, l \in Line : c # d /\ HoldsLine(c, l) => ~HoldsLine(d, l)
    /\ \A c \in Client, l \in Line : drawn[l] + call[c].taken[l] <= Blanket[l]

LEMMA CapsInit == Init => Caps
  BY BlanketAssumption DEF Init, Caps, WithinBlanket, HoldsLine, Idle

\* A caller that takes no line and draws nothing keeps the caps.
LEMMA CapsKept ==
  ASSUME TypeOK, TypeOK', Caps, NEW c \in Client,
         \A d \in Client : d # c => call'[d] = call[d],
         \A l \in Line : call'[c].taken[l] = 0 \/ call'[c].taken[l] = call[c].taken[l],
         \A l \in Line : HoldsLine(c, l)' => HoldsLine(c, l),
         \A l \in Line : call'[c].taken[l] > 0 => call'[c].at = "draw",
         drawn' = drawn
  PROVE  Caps'
<1> USE DEF Caps
<1>1. WithinBlanket'
  BY DEF WithinBlanket
<1>2. \A d \in Client, l \in Line : HoldsLine(d, l)' => HoldsLine(d, l)
  BY DEF HoldsLine
<1>3. \A d \in Client, l \in Line : drawn'[l] + call'[d].taken[l] <= Blanket[l]
  <2> SUFFICES ASSUME NEW d \in Client, NEW l \in Line
               PROVE  drawn[l] + call'[d].taken[l] <= Blanket[l]
    OBVIOUS
  <2>1. call'[d].taken[l] = 0 \/ call'[d].taken[l] = call[d].taken[l]
    OBVIOUS
  <2>2. drawn[l] \in Nat /\ Blanket[l] \in Nat
    BY BlanketAssumption DEF TypeOK
  <2> QED BY <2>1, <2>2 DEF WithinBlanket
<1>4. \A d \in Client, l \in Line : call'[d].taken[l] > 0 => call'[d].at = "draw"
  OBVIOUS
<1>5. \A a, d \in Client, l \in Line : a # d /\ HoldsLine(a, l)' => ~HoldsLine(d, l)'
  BY <1>2
<1> QED BY <1>1, <1>3, <1>4, <1>5

LEMMA CapsStep == TypeOK /\ TypeOK' /\ Caps /\ [Next]_vars => Caps'
<1> SUFFICES ASSUME TypeOK, TypeOK', Caps, [Next]_vars PROVE Caps'
  OBVIOUS
<1>0. call \in [Client -> Call] /\ \A c \in Client : call[c].taken \in [Line -> Nat]
  BY DEF TypeOK, Call
<1>1. ASSUME NEW c \in Client, Begin(c) PROVE Caps'
  <2>1. \A d \in Client : d # c => call'[d] = call[d]
    BY <1>0, <1>1 DEF Begin, ConfirmReads, ResequenceReads, RepriceReads, RetireReads, CallOffReads, Start
  <2>2. call'[c].taken = Idle.taken
    BY <1>0, <1>1 DEF Begin, ConfirmReads, ResequenceReads, RepriceReads, RetireReads, CallOffReads, Start, Idle
  <2>3. call'[c].at \in {"open", "lock_line", "clear", "lock", "share"}
    BY <1>0, <1>1 DEF Begin, ConfirmReads, ResequenceReads, RepriceReads, RetireReads, CallOffReads, Start, Idle
  <2>4. drawn' = drawn
    BY <1>1 DEF Begin, ConfirmReads, ResequenceReads, RepriceReads, RetireReads, CallOffReads
  <2>5. \A l \in Line : call'[c].taken[l] = 0
    BY <2>2 DEF Idle
  <2>6. \A l \in Line : ~HoldsLine(c, l)'
    BY <2>3, <2>5 DEF HoldsLine
  <2> QED BY <2>1, <2>4, <2>5, <2>6, CapsKept
<1>2. ASSUME NEW c \in Client, Return(c), drawn' = drawn PROVE Caps'
  <2>1. \A d \in Client : d # c => call'[d] = call[d]
    BY <1>0, <1>2 DEF Return
  <2>2. call'[c] = Idle
    BY <1>0, <1>2 DEF Return
  <2>3. \A l \in Line : call'[c].taken[l] = 0 /\ ~HoldsLine(c, l)'
    BY <2>2 DEF HoldsLine, Idle
  <2> QED BY <1>2, <2>1, <2>3, CapsKept
<1>3. ASSUME NEW c \in Client,
             ConfirmCommits(c) \/ RepriceCommits(c) \/ RetireCommits(c) \/ Crash(c)
               \/ (\E new \in RateBook : ResequenceCommits(c, new))
      PROVE  Caps'
  BY <1>2, <1>3 DEF ConfirmCommits, RepriceCommits, ResequenceCommits, RetireCommits, Crash
<1>4. ASSUME NEW c \in Client, RepriceLocksLine(c) PROVE Caps'
  <2>1. call' = [call EXCEPT ![c].at = "find"] /\ drawn' = drawn /\ call[c].at = "lock_line"
    BY <1>4 DEF RepriceLocksLine, Go
  <2>2. \A d \in Client : d # c => call'[d] = call[d]
    BY <1>0, <2>1
  <2>3. call'[c].taken = call[c].taken /\ call'[c].rates = call[c].rates /\ call'[c].at = "find"
    BY <1>0, <2>1 DEF Call
  <2>4. \A l \in Line : ~(call[c].taken[l] > 0)
    BY <2>1 DEF Caps
  <2>5. \A l \in Line : HoldsLine(c, l)' => LineFree(c, l)
    BY <1>4, <2>3, <2>4 DEF HoldsLine, RepriceLocksLine
  <2>6. \A d \in Client, l \in Line : d # c => (HoldsLine(d, l)' <=> HoldsLine(d, l))
    BY <2>2 DEF HoldsLine
  <2>7. \A d, e \in Client, l \in Line : d # e /\ HoldsLine(d, l)' => ~HoldsLine(e, l)'
    BY <2>5, <2>6 DEF LineFree, Caps
  <2>8. \A d \in Client, l \in Line : drawn'[l] + call'[d].taken[l] <= Blanket[l]
    BY <2>1, <2>2, <2>3 DEF Caps
  <2>9. \A d \in Client, l \in Line : call'[d].taken[l] > 0 => call'[d].at = "draw"
    BY <2>2, <2>3, <2>4 DEF Caps
  <2> QED BY <2>1, <2>7, <2>8, <2>9 DEF Caps, WithinBlanket
<1>5. ASSUME NEW c \in Client, RepriceFinds(c) PROVE Caps'
  <2>1. /\ call' = [call EXCEPT ![c].at = "price", ![c].seen = Priced \intersect Named(call[c].rates)]
        /\ drawn' = drawn /\ call[c].at = "find"
    BY <1>5 DEF RepriceFinds
  <2>2. \A d \in Client : d # c => call'[d] = call[d]
    BY <1>0, <2>1
  <2>3. call'[c].taken = call[c].taken /\ call'[c].rates = call[c].rates /\ call'[c].at = "price"
    BY <1>0, <2>1 DEF Call
  <2>4. \A l \in Line : HoldsLine(c, l)' => HoldsLine(c, l)
    BY <2>1, <2>3 DEF HoldsLine
  <2>5. \A l \in Line : ~(call[c].taken[l] > 0)
    BY <2>1 DEF Caps
  <2> QED BY <2>1, <2>2, <2>3, <2>4, <2>5, CapsKept
<1>6. ASSUME NEW c \in Client, NEW at, call[c].at \notin {"draw", "find", "price"},
             at \notin {"find", "price"}, Go(c, at), drawn' = drawn
      PROVE  Caps'
  <2>1. \A d \in Client : d # c => call'[d] = call[d]
    BY <1>0, <1>6 DEF Go
  <2>2. call'[c].taken = call[c].taken /\ call'[c].at = at
    BY <1>0, <1>6 DEF Go, Call
  <2>3. \A l \in Line : ~(call[c].taken[l] > 0)
    BY <1>6 DEF Caps
  <2>4. \A l \in Line : ~HoldsLine(c, l)'
    BY <1>6, <2>2, <2>3 DEF HoldsLine
  <2> QED BY <1>6, <2>1, <2>2, <2>3, <2>4, CapsKept
<1>7. ASSUME NEW c \in Client, RetireLocks(c) PROVE Caps'
  BY <1>6, <1>7 DEF RetireLocks
<1>8. ASSUME NEW c \in Client, CallOffLocks(c) PROVE Caps'
  BY <1>2, <1>6, <1>8 DEF CallOffLocks
<1>9. ASSUME NEW c \in Client, ResequenceClears(c) PROVE Caps'
  <2>1. /\ call' = [call EXCEPT ![c].at = "replace", ![c].seen = live]
        /\ drawn' = drawn /\ call[c].at = "clear"
    BY <1>9 DEF ResequenceClears
  <2>2. \A d \in Client : d # c => call'[d] = call[d]
    BY <1>0, <2>1
  <2>3. call'[c].taken = call[c].taken /\ call'[c].at = "replace"
    BY <1>0, <2>1 DEF Call
  <2>4. \A l \in Line : ~(call[c].taken[l] > 0)
    BY <2>1 DEF Caps
  <2>5. \A l \in Line : ~HoldsLine(c, l)'
    BY <2>3, <2>4 DEF HoldsLine
  <2> QED BY <2>1, <2>2, <2>3, <2>4, <2>5, CapsKept
<1>10. ASSUME NEW c \in Client, CallOffDraws(c) PROVE Caps'
  <2> DEFINE d == Head(call[c].draws)
  <2>1. call[c].at = "draw" /\ call[c].draws # <<>> /\ LineFree(c, d.line) /\ drawn' = drawn
    BY <1>10 DEF CallOffDraws
  <2>2. d \in Draw
    BY <1>0, <2>1, HeadAndTail DEF Call
  <2>3. CASE Return(c)
    BY <1>2, <2>1, <2>3
  <2>4. CASE /\ Fits(c, d)
             /\ call' = [call EXCEPT ![c].draws = Tail(@), ![c].taken[d.line] = @ + d.quantity]
    <3>1. \A e \in Client : e # c => call'[e] = call[e]
      BY <1>0, <2>4
    <3>2. call'[c].at = "draw" /\ call'[c].taken = [call[c].taken EXCEPT ![d.line] = @ + d.quantity]
      BY <1>0, <2>1, <2>4 DEF Call
    <3>3. \A l \in Line : HoldsLine(c, l)' => LineFree(c, l)
      BY <1>0, <2>1, <3>2 DEF HoldsLine, LineFree, Caps
    <3>4. \A e \in Client, l \in Line : e # c => (HoldsLine(e, l)' <=> HoldsLine(e, l))
      BY <3>1 DEF HoldsLine
    <3>5. \A a, e \in Client, l \in Line : a # e /\ HoldsLine(a, l)' => ~HoldsLine(e, l)'
      BY <3>3, <3>4 DEF LineFree, Caps
    <3>6. ASSUME NEW l \in Line PROVE drawn[l] + call'[c].taken[l] <= Blanket[l]
      <4>1. CASE l = d.line
        <5>1. call'[c].taken[l] = call[c].taken[l] + d.quantity
          BY <1>0, <3>2, <4>1
        <5>2. drawn[l] \in Nat /\ call[c].taken[l] \in Nat /\ d.quantity \in Nat /\ Blanket[l] \in Nat
          BY <1>0, <2>2, BlanketAssumption DEF TypeOK, Draw
        <5> QED BY <2>4, <4>1, <5>1, <5>2 DEF Fits
      <4>2. CASE l # d.line
        BY <1>0, <3>2, <4>2 DEF Caps
      <4> QED BY <4>1, <4>2
    <3>7. \A e \in Client, l \in Line : drawn'[l] + call'[e].taken[l] <= Blanket[l]
      BY <2>1, <3>1, <3>6 DEF Caps
    <3>8. \A e \in Client, l \in Line : call'[e].taken[l] > 0 => call'[e].at = "draw"
      BY <3>1, <3>2 DEF Caps
    <3> QED BY <2>1, <3>5, <3>7, <3>8 DEF Caps, WithinBlanket
  <2> QED BY <1>10, <2>3, <2>4 DEF CallOffDraws
<1>11. ASSUME NEW c \in Client, CallOffCommits(c) PROVE Caps'
  <2>1. drawn' = [l \in Line |-> drawn[l] + call[c].taken[l]] /\ Return(c)
    BY <1>11 DEF CallOffCommits
  <2>2. \A e \in Client : e # c => call'[e] = call[e]
    BY <1>0, <2>1 DEF Return
  <2>3. \A l \in Line : call'[c].taken[l] = 0 /\ ~HoldsLine(c, l)'
    BY <1>0, <2>1 DEF Return, HoldsLine, Idle
  <2>4. WithinBlanket'
    BY <2>1 DEF Caps, WithinBlanket
  <2>5. ASSUME NEW e \in Client, NEW l \in Line PROVE drawn'[l] + call'[e].taken[l] <= Blanket[l]
    <3>0. /\ drawn[l] \in Nat /\ Blanket[l] \in Nat
          /\ call[c].taken[l] \in Nat /\ call[e].taken[l] \in Nat
      BY <1>0, BlanketAssumption DEF TypeOK
    <3>1. CASE e = c \/ call[e].taken[l] = 0
      BY <2>1, <2>2, <2>3, <2>4, <3>0, <3>1 DEF WithinBlanket
    <3>2. CASE e # c /\ call[e].taken[l] > 0
      <4>1. ~HoldsLine(c, l)
        BY <3>2 DEF Caps, HoldsLine
      <4>2. call[c].taken[l] = 0
        BY <3>0, <4>1 DEF HoldsLine
      <4> QED BY <2>1, <2>2, <3>0, <3>2, <4>2 DEF Caps
    <3> QED BY <3>0, <3>1, <3>2
  <2>6. \A e \in Client, l \in Line : call'[e].taken[l] > 0 => call'[e].at = "draw"
    BY <2>2, <2>3 DEF Caps
  <2>7. \A a, e \in Client, l \in Line : a # e /\ HoldsLine(a, l)' => ~HoldsLine(e, l)'
    <3>1. \A e \in Client, l \in Line : HoldsLine(e, l)' => HoldsLine(e, l)
      BY <2>2, <2>3 DEF HoldsLine
    <3> QED BY <3>1 DEF Caps
  <2> QED BY <2>4, <2>5, <2>6, <2>7 DEF Caps
<1>12. CASE UNCHANGED <<call, drawn>>
  BY <1>12 DEF Caps, WithinBlanket, HoldsLine
<1> QED
  BY <1>1, <1>3, <1>4, <1>5, <1>7, <1>8, <1>9, <1>10, <1>11, <1>12
     DEF Next, Trade, Manage, OrderMoves, vars

\* However many call-offs draw on a line at once, and however often one names
\* it, the line is never drawn past its blanket quantity.
THEOREM BlanketCapsDraws == Spec => []WithinBlanket
<1>1. Init => TypeOK /\ Caps
  BY TypeInit, CapsInit
<1>2. TypeOK /\ Caps /\ [Next]_vars => TypeOK' /\ Caps'
  BY TypeStep, CapsStep
<1>3. Caps => WithinBlanket
  BY DEF Caps
<1> QED BY <1>1, <1>2, <1>3, PTL DEF Spec

-----------------------------------------------------------------------------
(* Supplier prices: at most one live row per line, which shows its rate.   *)

PriceRow == \A l \in Line : price[l] = <<>> \/ price[l] = <<rate[l]>>

Repricing(c) == call[c].at \in {"lock_line", "find", "price"}

\* A draft has no price and its lines keep their rates, so a confirm mints what
\* the lines say; a re-price is of an agreement that was opened, and while it
\* holds the line nobody mints the row it did not find.
Prices ==
    /\ PriceRow
    /\ status = "draft" => Priced = {}
    /\ \A c \in Client : Repricing(c) => status # "draft"
    /\ \A c \in Client : call[c].at = "open" /\ status = "draft"
          => \A l \in Named(call[c].rates) : rate[l] = call[c].rates[l]
    /\ \A c \in Client : call[c].at = "price"
          => \A l \in Named(call[c].rates) \ call[c].seen : price[l] = <<>>

LEMMA PricesInit == Init => Prices
  BY DEF Init, Prices, PriceRow, Repricing, Priced, Idle

\* What an upsert leaves of a line with at most one live row.
LEMMA UpsertRow ==
  ASSUME TypeOK, PriceRow, NEW rates \in RateBook, NEW found, NEW l \in Line,
         l \in Named(rates), l \notin found => price[l] = <<>>
  PROVE  Upsert(rates, found)[l] \in {<<>>, <<rates[l]>>}
<1>1. CASE l \notin found
  <2>1. Append(<<>>, rates[l]) = <<rates[l]>>
    OBVIOUS
  <2> QED BY <1>1, <2>1 DEF Upsert
<1>2. CASE l \in found /\ price[l] = <<>>
  BY <1>2 DEF Upsert, Refreshed
<1>3. CASE l \in found /\ price[l] = <<rate[l]>>
  <2>1. price[l] # <<>>
    BY <1>3
  <2>2. [price[l] EXCEPT ![1] = rates[l]] = <<rates[l]>>
    BY <1>3
  <2> QED BY <1>3, <2>1, <2>2 DEF Upsert, Refreshed
<1> QED BY <1>1, <1>2, <1>3 DEF PriceRow

\* A step of one caller that touches neither prices nor rates nor the status.
LEMMA PricesKept ==
  ASSUME TypeOK, Prices, NEW c \in Client,
         \A d \in Client : d # c => call'[d] = call[d],
         UNCHANGED <<status, price, rate>>,
         Repricing(c)' => Repricing(c) \/ status = "open",
         call'[c].at # "open",
         call'[c].at # "price"
  PROVE  Prices'
  BY DEF Prices, PriceRow, Repricing, Priced, Named

LEMMA PricesStep == TypeOK /\ Caps /\ Prices /\ [Next]_vars => Prices'
<1> SUFFICES ASSUME TypeOK, Caps, Prices, [Next]_vars PROVE Prices'
  OBVIOUS
<1>0. call \in [Client -> Call]
  BY DEF TypeOK
<1>1. ASSUME NEW c \in Client, ConfirmReads(c) PROVE Prices'
  <2> DEFINE read == [l \in Line |-> IF l \in live THEN rate[l] ELSE NoRate]
  <2>1. \A d \in Client : d # c => call'[d] = call[d]
    BY <1>0, <1>1 DEF ConfirmReads, Start
  <2>2. call'[c].at = "open" /\ call'[c].rates = read
    BY <1>0, <1>1 DEF ConfirmReads, Start, Idle
  <2>3. UNCHANGED <<status, price, rate>>
    BY <1>1 DEF ConfirmReads, book
  <2>4. \A l \in Named(read) : rate[l] = read[l]
    BY DEF Named
  <2> QED BY <2>1, <2>2, <2>3, <2>4 DEF Prices, PriceRow, Repricing, Priced, Named
<1>2. ASSUME NEW c \in Client, NEW l \in Line, NEW r \in Rates, RepriceReads(c, l, r) PROVE Prices'
  <2>1. \A d \in Client : d # c => call'[d] = call[d]
    BY <1>0, <1>2 DEF RepriceReads, Start
  <2>2. call'[c].at = "lock_line"
    BY <1>0, <1>2 DEF RepriceReads, Start, Idle
  <2>3. status = "open" /\ UNCHANGED <<status, price, rate>>
    BY <1>2 DEF RepriceReads, book
  <2> QED BY <2>1, <2>2, <2>3, PricesKept
<1>3. ASSUME NEW c \in Client,
             ResequenceReads(c) \/ (\E verb \in {"close", "cancel"} : RetireReads(c, verb))
               \/ (\E draws \in Requests : CallOffReads(c, draws))
      PROVE  Prices'
  <2>1. \A d \in Client : d # c => call'[d] = call[d]
    BY <1>0, <1>3 DEF ResequenceReads, RetireReads, CallOffReads, Start
  <2>2. call'[c].at \in {"clear", "lock", "share"}
    BY <1>0, <1>3 DEF ResequenceReads, RetireReads, CallOffReads, Start, Idle
  <2>3. UNCHANGED <<status, price, rate>>
    BY <1>3 DEF ResequenceReads, RetireReads, CallOffReads, book
  <2> QED BY <2>1, <2>2, <2>3, PricesKept DEF Repricing
<1>4. ASSUME NEW c \in Client,
             RepriceLocksLine(c) \/ ResequenceClears(c) \/ RetireLocks(c) \/ CallOffLocks(c)
               \/ CallOffDraws(c) \/ CallOffCommits(c) \/ Crash(c)
      PROVE  Prices'
  <2>1. \A d \in Client : d # c => call'[d] = call[d]
    BY <1>0, <1>4 DEF RepriceLocksLine, ResequenceClears, RetireLocks, CallOffLocks, CallOffDraws,
                      CallOffCommits, Crash, Go, Return
  <2>2. \/ call'[c].at \in {"replace", "retire", "draw", "idle"}
        \/ call'[c].at = "find" /\ call[c].at = "lock_line"
    BY <1>0, <1>4 DEF RepriceLocksLine, ResequenceClears, RetireLocks, CallOffLocks, CallOffDraws,
                      CallOffCommits, Crash, Go, Return, Idle, Call
  <2>3. UNCHANGED <<status, price, rate>>
    BY <1>4 DEF RepriceLocksLine, ResequenceClears, RetireLocks, CallOffLocks, CallOffDraws,
                CallOffCommits, Crash, book
  <2> QED BY <2>1, <2>2, <2>3, PricesKept DEF Repricing
<1>5. ASSUME NEW c \in Client, ConfirmCommits(c) PROVE Prices'
  <2>1. \A d \in Client : d # c => call'[d] = call[d]
    BY <1>0, <1>5 DEF ConfirmCommits, Return
  <2>2. call'[c].at = "idle" /\ rate' = rate
    BY <1>0, <1>5 DEF ConfirmCommits, Return, Idle, book
  <2>3. CASE status # "draft"
    <3>1. UNCHANGED <<status, price>>
      BY <1>5, <2>3 DEF ConfirmCommits
    <3> QED BY <2>1, <2>2, <3>1, PricesKept DEF Repricing
  <2>4. CASE status = "draft"
    <3>1. status' = "open" /\ price' = Upsert(call[c].rates, Priced) /\ call[c].at = "open"
      BY <1>5, <2>4 DEF ConfirmCommits
    <3>2. PriceRow'
      <4> SUFFICES ASSUME NEW l \in Line PROVE price'[l] = <<>> \/ price'[l] = <<rate[l]>>
        BY <2>2 DEF PriceRow
      <4>1. price[l] = <<>>
        BY <2>4 DEF Prices, Priced
      <4>2. CASE l \notin Named(call[c].rates)
        BY <3>1, <4>1, <4>2 DEF Upsert
      <4>3. CASE l \in Named(call[c].rates)
        <5>1. call[c].rates \in RateBook /\ rate[l] = call[c].rates[l]
          BY <1>0, <2>4, <3>1, <4>3 DEF Prices, Call
        <5> QED BY <3>1, <4>1, <4>3, <5>1, UpsertRow DEF Prices
      <4> QED BY <4>2, <4>3
    <3>3. \A d \in Client : ~Repricing(d)
      BY <2>4 DEF Prices
    <3>4. \A d \in Client : ~Repricing(d)'
      BY <2>1, <2>2, <3>3 DEF Repricing
    <3> QED BY <3>1, <3>2, <3>4 DEF Prices, Repricing
  <2> QED BY <2>3, <2>4
<1>6. ASSUME NEW c \in Client, RepriceFinds(c) PROVE Prices'
  <2>1. /\ call' = [call EXCEPT ![c].at = "price", ![c].seen = Priced \intersect Named(call[c].rates)]
        /\ call[c].at = "find"
    BY <1>6 DEF RepriceFinds
  <2>2. \A d \in Client : d # c => call'[d] = call[d]
    BY <1>0, <2>1
  <2>3. /\ call'[c].at = "price" /\ call'[c].rates = call[c].rates
        /\ call'[c].seen = Priced \intersect Named(call[c].rates)
    BY <1>0, <2>1 DEF Call
  <2>4. UNCHANGED <<status, price, rate>>
    BY <1>6 DEF RepriceFinds, book
  <2>5. \A l \in Named(call'[c].rates) \ call'[c].seen : price'[l] = <<>>
    BY <2>3, <2>4 DEF Priced, Named
  <2>6. status # "draft"
    BY <2>1 DEF Prices, Repricing
  <2> QED BY <2>2, <2>3, <2>4, <2>5, <2>6 DEF Prices, PriceRow, Repricing, Priced, Named
<1>7. ASSUME NEW c \in Client, RepriceCommits(c) PROVE Prices'
  <2> DEFINE rates == call[c].rates
             found == call[c].seen
  <2>1. \A d \in Client : d # c => call'[d] = call[d]
    BY <1>0, <1>7 DEF RepriceCommits, Return
  <2>2. call'[c].at = "idle" /\ call[c].at = "price"
    BY <1>0, <1>7 DEF RepriceCommits, Return, Idle
  <2>3. /\ rate' = [l \in Line |-> IF l \in Named(rates) THEN rates[l] ELSE rate[l]]
        /\ price' = Upsert(rates, found) /\ status' = status
    BY <1>7 DEF RepriceCommits
  <2>4. status # "draft"
    BY <2>2 DEF Prices, Repricing
  <2>5. rates \in RateBook
    BY <1>0 DEF Call
  <2>6. PriceRow'
    <3> SUFFICES ASSUME NEW l \in Line PROVE price'[l] = <<>> \/ price'[l] = <<rate'[l]>>
      BY DEF PriceRow
    <3>1. CASE l \notin Named(rates)
      BY <2>3, <3>1 DEF Upsert, Prices, PriceRow
    <3>2. CASE l \in Named(rates)
      <4>1. l \notin found => price[l] = <<>>
        BY <2>2, <3>2 DEF Prices
      <4>2. Upsert(rates, found)[l] \in {<<>>, <<rates[l]>>}
        BY <2>5, <3>2, <4>1, UpsertRow DEF Prices
      <4> QED BY <2>3, <3>2, <4>2
    <3> QED BY <3>1, <3>2
  <2>7. ASSUME NEW d \in Client, NEW l \in Line, call'[d].at = "price",
               l \in Named(call'[d].rates) \ call'[d].seen
        PROVE  price'[l] = <<>>
    <3>1. d # c /\ call'[d] = call[d]
      BY <2>1, <2>2, <2>7
    <3>2. l \in Line /\ HoldsLine(d, l)
      BY <2>7, <3>1 DEF HoldsLine, Named
    <3>3. l \notin Named(rates)
      BY <2>2, <3>1, <3>2 DEF Caps, HoldsLine
    <3>4. price[l] = <<>>
      BY <2>7, <3>1 DEF Prices
    <3> QED BY <2>3, <3>2, <3>3, <3>4 DEF Upsert
  <2> QED BY <2>1, <2>2, <2>3, <2>4, <2>6, <2>7 DEF Prices, Repricing, Named
<1>8. ASSUME NEW c \in Client, NEW new \in RateBook, ResequenceCommits(c, new) PROVE Prices'
  <2>1. \A d \in Client : d # c => call'[d] = call[d]
    BY <1>0, <1>8 DEF ResequenceCommits, Return
  <2>2. call'[c].at = "idle"
    BY <1>0, <1>8 DEF ResequenceCommits, Return, Idle
  <2>3. /\ rate' = [l \in Line |-> IF l \in Named(new) THEN new[l] ELSE rate[l]]
        /\ \A l \in Named(new) : rate[l] = NoRate
        /\ UNCHANGED <<status, price>>
    BY <1>8 DEF ResequenceCommits, Named
  <2>4. ASSUME NEW l \in Line, price[l] # <<>> PROVE rate[l] # NoRate
    <3>1. price[l] = <<rate[l]>> /\ price[l] \in Seq(Rates)
      BY <2>4 DEF Prices, PriceRow, TypeOK
    <3>2. rate[l] \in Rates
      <4>1. price[l][1] \in Rates
        BY <3>1
      <4> QED BY <3>1, <4>1
    <3> QED BY <3>2, BlanketAssumption
  <2>5. PriceRow'
    BY <2>3, <2>4 DEF Prices, PriceRow
  <2>6. ASSUME NEW d \in Client, NEW l \in Line, call'[d].at = "open", status' = "draft",
               l \in Named(call'[d].rates)
        PROVE  rate'[l] = call'[d].rates[l]
    <3>1. call'[d] = call[d]
      BY <2>1, <2>2, <2>6
    <3>2. l \in Line /\ rate[l] = call[d].rates[l] /\ call[d].rates[l] # NoRate
      BY <2>3, <2>6, <3>1 DEF Prices, Named
    <3> QED BY <2>3, <3>1, <3>2
  <2> QED BY <2>1, <2>2, <2>3, <2>5, <2>6 DEF Prices, Repricing, Priced, Named
<1>9. ASSUME NEW c \in Client, RetireCommits(c) PROVE Prices'
  <2>1. \A d \in Client : d # c => call'[d] = call[d]
    BY <1>0, <1>9 DEF RetireCommits, Return
  <2>2. call'[c].at = "idle" /\ rate' = rate
    BY <1>0, <1>9 DEF RetireCommits, Return, Idle, book
  <2>3. CASE UNCHANGED <<status, price>>
    BY <2>1, <2>2, <2>3, PricesKept DEF Repricing
  <2>4. CASE status' = Target(call[c].verb) /\ price' = [l \in Line |-> <<>>]
    <3>1. status' # "draft"
      BY <2>4 DEF Target
    <3>2. PriceRow'
      BY <2>4 DEF PriceRow
    <3>3. \A d \in Client : \A l \in Named(call'[d].rates) : price'[l] = <<>>
      BY <2>4 DEF Named
    <3> QED BY <3>1, <3>2, <3>3 DEF Prices
  <2> QED BY <1>9, <2>3, <2>4 DEF RetireCommits
<1>10. CASE UNCHANGED <<status, book, price, call>>
  BY <1>10 DEF book, Prices, PriceRow, Repricing, Priced
<1> QED
  BY <1>1, <1>2, <1>3, <1>4, <1>5, <1>6, <1>7, <1>8, <1>9, <1>10
     DEF Next, Begin, Trade, Manage, OrderMoves, vars

LEMMA PriceRowIsOnePrice ==
  ASSUME PriceRow PROVE OneLivePricePerLine /\ PriceIsTheRate
<1>1. ASSUME NEW l \in Line PROVE Len(price[l]) <= 1 /\ \A i \in DOMAIN price[l] : price[l][i] = rate[l]
  <2>1. CASE price[l] = <<>>
    BY <2>1
  <2>2. CASE price[l] = <<rate[l]>>
    BY <2>2
  <2> QED BY <2>1, <2>2 DEF PriceRow
<1> QED BY <1>1 DEF OneLivePricePerLine, PriceIsTheRate

LEMMA PricesAlways == Spec => [](OneLivePricePerLine /\ PriceIsTheRate)
<1>1. Init => TypeOK /\ Caps /\ Prices
  BY TypeInit, CapsInit, PricesInit
<1>2. TypeOK /\ Caps /\ Prices /\ [Next]_vars => TypeOK' /\ Caps' /\ Prices'
  BY TypeStep, CapsStep, PricesStep
<1>3. Prices => OneLivePricePerLine /\ PriceIsTheRate
  BY PriceRowIsOnePrice DEF Prices
<1> QED BY <1>1, <1>2, <1>3, PTL DEF Spec

\* Without a unique index, and whatever confirms, re-prices, resequences and
\* closes overlap: a line has at most one live supplier price.
THEOREM OneLivePrice == Spec => []OneLivePricePerLine
  BY PricesAlways, PTL

\* The live price of a line shows the rate of the line: the two columns are
\* never seen apart, whoever re-prices at once (upsert_for_agreement_line).
THEOREM PriceShowsTheRate == Spec => []PriceIsTheRate
  BY PricesAlways, PTL

-----------------------------------------------------------------------------
(* What is drawn is what the call-offs ordered.                            *)

\* An order that does not exist yet has drawn nothing.
UnbornDrawNothing ==
    \A o \in Order, l \in Line : order[o].status = "none" => order[o].draws[l] = 0
Counts == DrawsCounted /\ UnbornDrawNothing

DrawsOn(l) == [o \in Order |-> order[o].draws[l]]

LEMMA DrawsOnType ==
  ASSUME TypeOK, NEW l \in Line
  PROVE  /\ CalledOff(l) = SumFunctionOnSet(DrawsOn(l), Order)
         /\ \A o \in Order : DrawsOn(l)[o] = order[o].draws[l] /\ DrawsOn(l)[o] \in Int
<1>1. CalledOff(l) = SumFunctionOnSet(DrawsOn(l), Order)
  BY DEF CalledOff, SumFunction, DrawsOn
<1>2. ASSUME NEW o \in Order
      PROVE  DrawsOn(l)[o] = order[o].draws[l] /\ DrawsOn(l)[o] \in Int
  <2>1. order[o].draws \in [Line -> Nat]
    BY DEF TypeOK
  <2> QED BY <2>1 DEF DrawsOn
<1> QED BY <1>1, <1>2

LEMMA CountsInit == Init => Counts
<1> SUFFICES ASSUME Init PROVE Counts
  OBVIOUS
<1>1. TypeOK
  BY TypeInit
<1>2. \A o \in Order, l \in Line : order[o].draws[l] = 0
  BY DEF Init, NoOrder
<1>3. ASSUME NEW l \in Line PROVE drawn[l] = CalledOff(l)
  <2> DEFINE f == DrawsOn(l)
  <2>1. (\A o \in Order : f[o] \in Int) /\ (\A o \in Order \ {} : f[o] = 0) /\ {} \in SUBSET Order
    BY <1>1, <1>2, DrawsOnType
  <2> HIDE DEF f
  <2>2. SumFunctionOnSet(f, Order) = SumFunctionOnSet(f, {})
    BY <2>1, BlanketAssumption, SumOfSupport
  <2>3. SumFunctionOnSet(f, Order) = 0
    BY <2>2, SumEmpty
  <2> QED BY <1>1, <2>3, DrawsOnType DEF f, Init
<1> QED BY <1>2, <1>3 DEF Counts, DrawsCounted, UnbornDrawNothing

\* Where no order draws more or less, the count is the same.
LEMMA CountKept ==
  ASSUME TypeOK, TypeOK', NEW l \in Line, drawn[l] = CalledOff(l), drawn'[l] = drawn[l],
         \A o \in Order : order'[o].draws = order[o].draws
  PROVE  drawn'[l] = CalledOff(l)'
<1>1. PICK f, g : f = DrawsOn(l) /\ g = DrawsOn(l)'
  OBVIOUS
<1>2. \A o \in Order : f[o] \in Int /\ g[o] = f[o]
  <2>1. \A o \in Order : f[o] = order[o].draws[l] /\ f[o] \in Int
    BY <1>1, DrawsOnType
  <2>2. \A o \in Order : g[o] = order'[o].draws[l]
    BY <1>1 DEF DrawsOn
  <2> QED BY <2>1, <2>2
<1>3. SumFunctionOnSet(g, Order) = SumFunctionOnSet(f, Order)
  BY <1>2, BlanketAssumption, SumSame
<1>4. CalledOff(l) = SumFunctionOnSet(f, Order)
  BY <1>1, DrawsOnType
<1>5. CalledOff(l)' = SumFunctionOnSet(g, Order)
  BY <1>1 DEF CalledOff, SumFunction, DrawsOn
<1> QED BY <1>3, <1>4, <1>5

LEMMA CountsStep == TypeOK /\ TypeOK' /\ Counts /\ [Next]_vars => Counts'
<1> SUFFICES ASSUME TypeOK, TypeOK', Counts, [Next]_vars PROVE Counts'
  OBVIOUS
<1>1. ASSUME UNCHANGED <<drawn, order>> PROVE Counts'
  <2>1. \A l \in Line : drawn'[l] = CalledOff(l)'
    BY <1>1, CountKept DEF Counts, DrawsCounted
  <2> QED BY <1>1, <2>1 DEF Counts, DrawsCounted, UnbornDrawNothing
<1>2. ASSUME NEW c \in Client, CallOffCommits(c) PROVE Counts'
  <2>1. PICK o \in Order :
          /\ order[o].status = "none"
          /\ order' = [order EXCEPT ![o] = [NoOrder EXCEPT !.status = "draft",
                                                          !.draws = call[c].taken]]
    BY <1>2 DEF CallOffCommits
  <2>2. call[c].taken \in [Line -> Nat] /\ drawn' = [l \in Line |-> drawn[l] + call[c].taken[l]]
    BY <1>2 DEF CallOffCommits, TypeOK, Call
  <2>3. /\ order'[o].draws = call[c].taken /\ order'[o].status = "draft"
        /\ \A p \in Order \ {o} : order'[p] = order[p]
    BY <2>1 DEF NoOrder, TypeOK
  <2>4. ASSUME NEW l \in Line PROVE drawn'[l] = CalledOff(l)'
    <3>1. PICK f, g : f = DrawsOn(l) /\ g = DrawsOn(l)'
      OBVIOUS
    <3>2. \A p \in Order : f[p] = order[p].draws[l] /\ f[p] \in Int
      BY <3>1, DrawsOnType
    <3>3. \A p \in Order : g[p] = order'[p].draws[l]
      BY <3>1 DEF DrawsOn
    <3>4. f[o] = 0 /\ g[o] = call[c].taken[l] /\ call[c].taken[l] \in Int
      BY <2>1, <2>2, <2>3, <3>2, <3>3 DEF Counts, UnbornDrawNothing
    <3>5. \A p \in Order \ {o} : g[p] = f[p]
      BY <2>3, <3>2, <3>3
    <3>6. \A p \in Order : f[p] \in Int /\ g[p] \in Int
      BY <3>2, <3>4, <3>5
    <3>7. SumFunctionOnSet(g, Order) = SumFunctionOnSet(f, Order) - f[o] + g[o]
      BY <3>5, <3>6, BlanketAssumption, SumChange
    <3>8. drawn[l] = SumFunctionOnSet(f, Order) /\ drawn[l] \in Nat
      BY <3>1, DrawsOnType DEF Counts, DrawsCounted, TypeOK
    <3>9. CalledOff(l)' = SumFunctionOnSet(g, Order)
      BY <3>1 DEF CalledOff, SumFunction, DrawsOn
    <3> QED BY <2>2, <3>4, <3>7, <3>8, <3>9
  <2>5. UnbornDrawNothing'
    BY <2>3 DEF Counts, UnbornDrawNothing
  <2> QED BY <2>4, <2>5 DEF Counts, DrawsCounted
<1>3. ASSUME NEW o \in Order, OrderMoves(o) PROVE Counts'
  <2>1. drawn' = drawn /\ \A p \in Order : order'[p].draws = order[p].draws
    BY <1>3 DEF OrderMoves, TypeOK
  <2>2. order[o].status # "none" /\ order'[o].status # "none"
    BY <1>3 DEF OrderMoves, TypeOK, Status
  <2>3. \A p \in Order \ {o} : order'[p] = order[p]
    <3>1. PICK to \in Status : order' = [order EXCEPT ![o].status = to,
                ![o].reopened = @ \/ (to = "draft" /\ o \notin OpenCallOffs)]
      BY <1>3 DEF OrderMoves
    <3> QED BY <3>1 DEF TypeOK
  <2>4. \A l \in Line : drawn'[l] = CalledOff(l)'
    BY <2>1, CountKept DEF Counts, DrawsCounted
  <2>5. UnbornDrawNothing'
    BY <2>2, <2>3 DEF Counts, UnbornDrawNothing
  <2> QED BY <2>4, <2>5 DEF Counts, DrawsCounted
<1>4. ASSUME NEW c \in Client, Begin(c) \/ Manage(c) \/ Crash(c) PROVE Counts'
  BY <1>1, <1>4 DEF Begin, Manage, Crash, ConfirmReads, ResequenceReads, RepriceReads, RetireReads,
     CallOffReads, ConfirmCommits, ResequenceClears, ResequenceCommits, RetireLocks, RetireCommits
<1>5. ASSUME NEW c \in Client, Trade(c) PROVE Counts'
  BY <1>1, <1>2, <1>5 DEF Trade, RepriceLocksLine, RepriceFinds, RepriceCommits, CallOffLocks,
     CallOffDraws
<1>6. CASE UNCHANGED vars
  BY <1>1, <1>6 DEF vars
<1> QED BY <1>3, <1>4, <1>5, <1>6 DEF Next

\* The quantity of a line that is drawn is what its call-off orders draw, order
\* by order, however many there are and whatever becomes of them: a call-off
\* commits its order and its draws together or neither (increment_qty_ordered).
THEOREM EveryDrawCounted == Spec => []DrawsCounted
<1>1. Init => TypeOK /\ Counts
  BY TypeInit, CountsInit
<1>2. TypeOK /\ Counts /\ [Next]_vars => TypeOK' /\ Counts'
  BY TypeStep, CountsStep
<1>3. Counts => DrawsCounted
  BY DEF Counts
<1> QED BY <1>1, <1>2, <1>3, PTL DEF Spec
=============================================================================
