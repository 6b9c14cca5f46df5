----------------------- MODULE OrderLifecycleProofs -----------------------
(***************************************************************************)
(* The safety properties of the lifecycle verbs, for any number of callers *)
(* and any thresholds.                                                     *)
(*                                                                         *)
(* None of them follows from the status alone.  IInv relates every call in *)
(* progress to what it may still do: a call about to enter purchase was    *)
(* made by a manager or was let through by the settings of some moment of  *)
(* its life, the events still owed are covered by entries, and while a     *)
(* cancel is about to commit, the header is still what its trigger saw.    *)
(***************************************************************************)
EXTENDS OrderLifecycle, FiniteSetTheorems, TLAPS

\* While the settings let the order through, every running call has seen that;
\* whoever is about to enter purchase is a manager or has seen it.
GateSeen ==
    \A c \in Client :
        /\ call[c] # Idle /\ ~OverThreshold(settings) => call[c].lax
        /\ call[c].at = "enter" => call[c].manager \/ call[c].lax

\* The row lock of a cancel that passed its trigger: it is the only one, and
\* the header has not moved since.
CommitHeld ==
    \A c \in Client : call[c].at = "commit" =>
        /\ status # "cancelled" /\ ~deleted /\ ~locked
        /\ \A d \in Client : call[d].at = "commit" => d = c

IInv ==
    /\ TypeOK
    /\ DeletedOrdersStayCancelled
    /\ NoEventWithoutEntry
    /\ GateSeen
    /\ CommitHeld

-----------------------------------------------------------------------------
(* Counting the events that are owed.                                      *)

\* The owed events are finitely many, and their number is a natural number.
LEMMA OwedFinite == IsFiniteSet(Owed) /\ Cardinality(Owed) \in Nat
<1>1. Owed \subseteq Client
  BY DEF Owed
<1> QED
  BY <1>1, LifecycleAssumption, FS_Subset, FS_CardinalityType

\* A call that moves between statements changes what is owed by itself only:
\* nothing, one event more, or one event less.
LEMMA OwedMoves ==
    ASSUME TypeOK, NEW c \in Client, \A d \in Client \ {c} : call'[d] = call[d]
    PROVE  /\ Cardinality(Owed') \in Nat
           /\ call'[c].at # "announce" => Cardinality(Owed') <= Cardinality(Owed)
           /\ Cardinality(Owed') <= Cardinality(Owed) + 1
           /\ call[c].at = "announce" /\ call'[c].at # "announce" =>
                  Cardinality(Owed') = Cardinality(Owed) - 1
<1>1. IsFiniteSet(Owed) /\ Cardinality(Owed) \in Nat
  BY OwedFinite
<1>2. CASE call'[c].at = "announce"
  <2>1. Owed' = Owed \union {c}
    BY <1>2 DEF Owed
  <2>2. Cardinality(Owed \union {c}) = IF c \in Owed THEN Cardinality(Owed)
                                                     ELSE Cardinality(Owed) + 1
    BY <1>1, FS_AddElement
  <2> QED
    BY <1>1, <1>2, <2>1, <2>2
<1>3. CASE call'[c].at # "announce"
  <2>1. Owed' = Owed \ {c}
    BY <1>3 DEF Owed
  <2>2. /\ Cardinality(Owed \ {c}) = IF c \in Owed THEN Cardinality(Owed) - 1
                                                   ELSE Cardinality(Owed)
        /\ IsFiniteSet(Owed \ {c})
    BY <1>1, FS_RemoveElement
  <2>3. Cardinality(Owed \ {c}) \in Nat
    BY <2>2, FS_CardinalityType
  <2>4. call[c].at = "announce" => c \in Owed
    BY DEF Owed
  <2> QED
    BY <1>1, <1>3, <2>1, <2>2, <2>3, <2>4
<1> QED
  BY <1>2, <1>3

-----------------------------------------------------------------------------
(* Every step keeps the invariant.                                         *)

\* A fresh order owes nothing and nobody has called yet.
LEMMA InitEstablishesIInv == Init => IInv
<1> SUFFICES ASSUME Init PROVE IInv
  OBVIOUS
<1>1. TypeOK
  BY DEF Init, TypeOK, Status, Idle, Call
<1>2. Owed = {}
  BY DEF Init, Owed, Idle
<1>3. NoEventWithoutEntry
  BY <1>2, FS_EmptySet DEF Init, NoEventWithoutEntry
<1>4. DeletedOrdersStayCancelled /\ GateSeen /\ CommitHeld
  BY DEF Init, DeletedOrdersStayCancelled, GateSeen, CommitHeld, Idle
<1> QED
  BY <1>1, <1>3, <1>4 DEF IInv

\* What a step of one client does to its own call and to the others'.
LEMMA CallMoves ==
    ASSUME TypeOK, NEW c \in Client, NEW v \in Call, call' = [call EXCEPT ![c] = v]
    PROVE  /\ call'[c] = v /\ call' \in [Client -> Call]
           /\ \A d \in Client \ {c} : call'[d] = call[d]
BY DEF TypeOK

\* Idle is a call, and so is a call that starts or goes on.
LEMMA CallValues ==
    /\ Idle \in Call /\ Idle.at = "done"
    /\ \A c \in Client, at \in {"enter", "park", "commit", "announce", "notify"} :
          TypeOK => /\ [call[c] EXCEPT !.at = at] \in Call
                    /\ [call[c] EXCEPT !.at = at].at = at
                    /\ [call[c] EXCEPT !.at = at].manager = call[c].manager
                    /\ [call[c] EXCEPT !.at = at].lax = call[c].lax
                    /\ [call[c] EXCEPT !.at = at].verb = call[c].verb
BY DEF Idle, Call, TypeOK

\* A step of one client that publishes and announces nothing, writes a status
\* or leaves it, and goes on only where its call has been let through; it writes
\* and locks the header only while no other cancel holds its lock.
LEMMA QuietCallKeepsIInv ==
    ASSUME IInv, NEW c \in Client, NEW v \in Call, call' = [call EXCEPT ![c] = v],
           v.at # "announce",
           v.at = "enter" => v.manager \/ v.lax,
           v # Idle /\ ~OverThreshold(settings) => v.lax,
           status' \in Status, deleted => status' = "cancelled",
           \/ v.at # "commit" /\ status' = status
           \/ /\ \A d \in Client \ {c} : call[d].at # "commit"
              /\ v.at = "commit" => status' # "cancelled" /\ ~deleted /\ ~locked,
           UNCHANGED <<locked, acknowledged, deleted, approved, settings, billedLive,
                       entered, announced>>
    PROVE  IInv'
<1> USE DEF IInv
<1>1. /\ call'[c] = v /\ call' \in [Client -> Call]
      /\ \A d \in Client \ {c} : call'[d] = call[d]
  BY CallMoves
<1>2. TypeOK' /\ DeletedOrdersStayCancelled'
  BY <1>1 DEF TypeOK, DeletedOrdersStayCancelled
<1>3. NoEventWithoutEntry'
  <2>1. Cardinality(Owed') \in Nat /\ Cardinality(Owed') <= Cardinality(Owed)
    BY <1>1, OwedMoves
  <2>2. Cardinality(Owed) \in Nat /\ announced \in Nat /\ entered \in Nat
    BY OwedFinite DEF TypeOK
  <2> QED
    BY <2>1, <2>2 DEF NoEventWithoutEntry
<1>4. GateSeen'
  BY <1>1 DEF GateSeen, OverThreshold
<1>5. CommitHeld'
  BY <1>1 DEF CommitHeld
<1> QED
  BY <1>2, <1>3, <1>4, <1>5

\* A call begins with what the settings say at that moment.
LEMMA StartKeepsIInv ==
    ASSUME IInv, NEW c \in Client, NEW mgr \in BOOLEAN,
           ConfirmReadsGate(c, mgr) \/ ApproveReadsGate(c, mgr) \/ CancelReadsGate(c)
    PROVE  IInv'
<1>1. PICK v \in Call : /\ call' = [call EXCEPT ![c] = v]
                        /\ v.at \in {"settings", "cancel"}
                        /\ v.lax = ~OverThreshold(settings)
  <2>1. PICK verb \in {"confirm", "approve", "cancel"}, m \in BOOLEAN,
             at \in {"settings", "cancel"} : Start(c, verb, m, at)
    BY DEF ConfirmReadsGate, ApproveReadsGate, CancelReadsGate
  <2>2. [verb |-> verb, manager |-> m, at |-> at, lax |-> ~OverThreshold(settings)] \in Call
    BY DEF Call
  <2> QED
    BY <2>1, <2>2 DEF Start
<1>2. UNCHANGED <<status, locked, acknowledged, deleted, approved, settings, billedLive,
                  entered, announced>>
  BY DEF ConfirmReadsGate, ApproveReadsGate, CancelReadsGate, header, history
<1>3. status \in Status /\ (deleted => status = "cancelled")
  BY DEF IInv, TypeOK, DeletedOrdersStayCancelled
<1> QED
  BY <1>1, <1>2, <1>3, QuietCallKeepsIInv

\* The decision on the settings lets a call through only with cause.
LEMMA ReadSettingsKeepsIInv ==
    ASSUME IInv, NEW c \in Client, ReadSettings(c)
    PROVE  IInv'
<1>1. TypeOK /\ call[c] \in Call /\ call[c] # Idle
  BY DEF IInv, TypeOK, ReadSettings, Idle
<1>2. UNCHANGED <<status, locked, acknowledged, deleted, approved, settings, billedLive,
                  entered, announced>>
  BY DEF ReadSettings, header, history
<1>3. status \in Status /\ (deleted => status = "cancelled")
  BY DEF IInv, TypeOK, DeletedOrdersStayCancelled
<1>4. ~OverThreshold(settings) => call[c].lax
  BY <1>1 DEF IInv, GateSeen
<1>5. CASE call' = [call EXCEPT ![c] = Idle]
  BY <1>2, <1>3, <1>5, CallValues, QuietCallKeepsIInv
<1>6. CASE Go(c, "park")
  <2> DEFINE v == [call[c] EXCEPT !.at = "park"]
  <2>1. v \in Call /\ v.at = "park" /\ v.lax = call[c].lax
    BY <1>1, CallValues
  <2>2. call' = [call EXCEPT ![c] = v]
    BY <1>6 DEF Go
  <2> HIDE DEF v
  <2> QED
    BY <1>2, <1>3, <1>4, <2>1, <2>2, QuietCallKeepsIInv
<1>7. CASE Go(c, "enter") /\ (call[c].manager \/ ~OverThreshold(settings))
  <2> DEFINE v == [call[c] EXCEPT !.at = "enter"]
  <2>1. v \in Call /\ v.at = "enter" /\ v.lax = call[c].lax /\ v.manager = call[c].manager
    BY <1>1, CallValues
  <2>2. call' = [call EXCEPT ![c] = v]
    BY <1>7 DEF Go
  <2> HIDE DEF v
  <2> QED
    BY <1>2, <1>3, <1>4, <1>7, <2>1, <2>2, QuietCallKeepsIInv
<1> QED
  BY <1>5, <1>6, <1>7 DEF ReadSettings, Return

\* Parking, cancelling and dying write a status at most, never on a deleted
\* order, and under the row lock.
LEMMA ParkCancelCrashKeepIInv ==
    ASSUME IInv, NEW c \in Client,
           Park(c) \/ CancelChecks(c) \/ CancelCommits(c) \/ Crash(c)
    PROVE  IInv'
<1>1. TypeOK /\ call[c] \in Call
  BY DEF IInv, TypeOK
<1>2. UNCHANGED <<locked, acknowledged, deleted, approved, settings, billedLive,
                  entered, announced>>
  BY DEF Park, CancelChecks, CancelCommits, Crash, header, history
<1>3. status' \in Status /\ (deleted => status' = "cancelled")
  BY DEF IInv, TypeOK, DeletedOrdersStayCancelled, Park, CancelChecks, CancelCommits, Crash,
         Status, header
<1>4. \/ status' = status
      \/ \A d \in Client \ {c} : call[d].at # "commit"
  BY DEF IInv, CommitHeld, HeaderFree, Park, CancelChecks, CancelCommits, Crash, header
<1>5. CASE call' = [call EXCEPT ![c] = Idle]
  BY <1>2, <1>3, <1>4, <1>5, CallValues, QuietCallKeepsIInv
<1>6. CASE /\ call[c].at \in {"park", "cancel"}
           /\ \E at \in {"notify", "commit"} :
                 /\ Go(c, at) /\ HeaderFree
                 /\ at = "commit" => status' # "cancelled" /\ ~deleted /\ ~locked
  <2>1. PICK at \in {"notify", "commit"} :
            /\ Go(c, at) /\ HeaderFree
            /\ at = "commit" => status' # "cancelled" /\ ~deleted /\ ~locked
    BY <1>6
  <2> DEFINE v == [call[c] EXCEPT !.at = at]
  <2>2. v \in Call /\ v.at = at /\ v.lax = call[c].lax
    BY <1>1, CallValues
  <2>3. call' = [call EXCEPT ![c] = v]
    BY <2>1 DEF Go
  <2>4. ~OverThreshold(settings) => call[c].lax
    BY <1>6 DEF IInv, GateSeen, Idle
  <2>5. \A d \in Client \ {c} : call[d].at # "commit"
    BY <2>1 DEF HeaderFree
  <2>6. v.at # "announce" /\ v.at # "enter"
    BY <2>2
  <2> HIDE DEF v
  <2> QED
    BY <1>2, <1>3, <2>1, <2>2, <2>3, <2>4, <2>5, <2>6, QuietCallKeepsIInv
<1>7. CASE Park(c)
  BY <1>5, <1>6, <1>7 DEF Park, Return
<1>8. CASE CancelChecks(c)
  BY <1>5, <1>6, <1>8 DEF CancelChecks, Return, header
<1> QED
  BY <1>5, <1>7, <1>8 DEF CancelCommits, Crash, Return

\* An entry pays for the event it owes.
LEMMA EnterPurchaseKeepsIInv ==
    ASSUME IInv, NEW c \in Client, EnterPurchase(c)
    PROVE  IInv'
<1>1. TypeOK /\ call[c] \in Call
  BY DEF IInv, TypeOK
<1>2. CASE /\ call' = [call EXCEPT ![c] = Idle]
           /\ UNCHANGED <<status, approved, entered>>
  <2>1. UNCHANGED <<locked, acknowledged, deleted, approved, settings, billedLive,
                    entered, announced>>
    BY <1>2 DEF EnterPurchase
  <2>2. status' \in Status /\ (deleted => status' = "cancelled")
    BY <1>2 DEF IInv, TypeOK, DeletedOrdersStayCancelled
  <2> QED
    BY <2>1, <2>2, <1>2, CallValues, QuietCallKeepsIInv
<1>3. CASE /\ ~deleted /\ status' = "purchase" /\ approved' = TRUE
           /\ entered' = entered + 1 /\ Go(c, "announce")
  <2> USE DEF IInv
  <2> DEFINE v == [call[c] EXCEPT !.at = "announce"]
  <2>1. v \in Call /\ v.at = "announce" /\ v.lax = call[c].lax
    BY <1>1, CallValues
  <2>2. call' = [call EXCEPT ![c] = v]
    BY <1>3 DEF Go
  <2> HIDE DEF v
  <2>3. /\ call'[c] = v /\ call' \in [Client -> Call]
        /\ \A d \in Client \ {c} : call'[d] = call[d]
    BY <2>1, <2>2, CallMoves
  <2>4. UNCHANGED <<locked, acknowledged, deleted, settings, billedLive, announced>>
    BY DEF EnterPurchase
  <2>5. TypeOK' /\ DeletedOrdersStayCancelled'
    BY <1>3, <2>3, <2>4 DEF TypeOK, DeletedOrdersStayCancelled, Status
  <2>6. NoEventWithoutEntry'
    <3>1. Cardinality(Owed') \in Nat /\ Cardinality(Owed') <= Cardinality(Owed) + 1
      BY <2>3, OwedMoves
    <3>2. Cardinality(Owed) \in Nat /\ announced \in Nat /\ entered \in Nat
      BY OwedFinite DEF TypeOK
    <3> QED
      BY <1>3, <2>4, <3>1, <3>2 DEF NoEventWithoutEntry
  <2>7. call[c] # Idle
    BY DEF EnterPurchase, Idle
  <2>8. GateSeen'
    BY <2>1, <2>3, <2>4, <2>7 DEF GateSeen, OverThreshold
  <2>9. CommitHeld'
    BY <2>1, <2>3 DEF CommitHeld, HeaderFree, EnterPurchase
  <2> QED
    BY <2>5, <2>6, <2>8, <2>9
<1> QED
  BY <1>2, <1>3 DEF EnterPurchase, Return

\* A publish takes one event off what is owed.
LEMMA PublishKeepsIInv ==
    ASSUME IInv, NEW c \in Client, Publish(c)
    PROVE  IInv'
<1> USE DEF IInv
<1>1. /\ call'[c] = Idle /\ call' \in [Client -> Call]
      /\ \A d \in Client \ {c} : call'[d] = call[d]
  BY CallValues, CallMoves DEF Publish, Return
<1>2. UNCHANGED <<status, locked, acknowledged, deleted, approved, settings, billedLive, entered>>
  BY DEF Publish, header
<1>3. announced \in Nat /\ entered \in Nat /\ Cardinality(Owed) \in Nat
  BY OwedFinite DEF TypeOK
<1>4. TypeOK' /\ DeletedOrdersStayCancelled'
  BY <1>1, <1>2, <1>3 DEF TypeOK, DeletedOrdersStayCancelled, Publish
<1>5. NoEventWithoutEntry'
  <2>1. /\ Cardinality(Owed') \in Nat
        /\ Cardinality(Owed') <= Cardinality(Owed)
        /\ call[c].at = "announce" => Cardinality(Owed') = Cardinality(Owed) - 1
    BY <1>1, CallValues, OwedMoves
  <2>2. announced' = IF call[c].at = "announce" THEN announced + 1 ELSE announced
    BY DEF Publish
  <2> QED
    BY <1>2, <1>3, <2>1, <2>2 DEF NoEventWithoutEntry
<1>6. GateSeen' /\ CommitHeld'
  BY <1>1, <1>2, CallValues DEF GateSeen, CommitHeld, OverThreshold
<1> QED
  BY <1>4, <1>5, <1>6

\* One-statement verbs never touch a deleted order, calls or history.
LEMMA OneStatementKeepsIInv ==
    ASSUME IInv, OneStatement \/ BillingMoves
    PROVE  IInv'
<1> USE DEF IInv
<1>1. UNCHANGED <<settings, call, entered, announced>>
  BY DEF OneStatement, BillingMoves, history
<1>2. /\ locked' \in BOOLEAN /\ acknowledged' \in BOOLEAN /\ deleted' \in BOOLEAN
      /\ approved' \in BOOLEAN /\ billedLive' \in BOOLEAN
  BY Zenon DEF OneStatement, BillingMoves, TypeOK, header, Send, Reset, SetLocked,
               Acknowledge, Delete
<1>3. status' \in Status
  BY DEF OneStatement, BillingMoves, TypeOK, Status, header, Send, Reset, SetLocked,
         Acknowledge, Delete
<1>4. TypeOK'
  BY <1>1, <1>2, <1>3 DEF TypeOK
<1>5. DeletedOrdersStayCancelled'
  BY DEF OneStatement, BillingMoves, DeletedOrdersStayCancelled, header, Send, Reset,
         SetLocked, Acknowledge, Delete
<1>6. NoEventWithoutEntry' /\ GateSeen'
  BY <1>1 DEF NoEventWithoutEntry, Owed, GateSeen, OverThreshold
<1>7. CommitHeld'
  BY <1>1 DEF OneStatement, BillingMoves, HeaderFree, CommitHeld, header
<1> QED
  BY <1>4, <1>5, <1>6, <1>7

\* New settings are shown to every running call.
LEMMA UpsertSettingsKeepsIInv ==
    ASSUME IInv, UpsertSettings
    PROVE  IInv'
<1> USE DEF IInv
<1>1. UNCHANGED <<status, locked, acknowledged, deleted, approved, billedLive, entered, announced>>
  BY DEF UpsertSettings, header, history
<1>2. ASSUME NEW c \in Client
      PROVE  /\ call'[c] \in Call /\ call'[c].at = call[c].at
             /\ call'[c].manager = call[c].manager
             /\ call[c].lax => call'[c].lax
             /\ call'[c] # Idle /\ ~OverThreshold(settings') => call'[c].lax
  <2>1. call[c] \in Call
    BY DEF TypeOK
  <2>2. CASE call[c] = Idle
    BY <2>1, <2>2 DEF UpsertSettings
  <2>3. CASE call[c] # Idle
    <3> DEFINE x == call[c].lax \/ ~OverThreshold(settings')
    <3>1. call'[c] = [call[c] EXCEPT !.lax = x]
      BY <2>3 DEF UpsertSettings
    <3>2. x \in BOOLEAN /\ (call[c].lax => x) /\ (~OverThreshold(settings') => x)
      BY <2>1 DEF Call
    <3> HIDE DEF x
    <3>3. /\ call'[c] \in Call /\ call'[c].at = call[c].at
          /\ call'[c].manager = call[c].manager /\ call'[c].lax = x
      BY <2>1, <3>1, <3>2 DEF Call
    <3> QED
      BY <3>2, <3>3
  <2> QED
    BY <2>2, <2>3
<1>3. TypeOK' /\ DeletedOrdersStayCancelled'
  <2>1. call' \in [Client -> Call]
    BY <1>2 DEF UpsertSettings
  <2>2. settings' \in Settings
    BY DEF UpsertSettings
  <2> QED
    BY <1>1, <2>1, <2>2 DEF TypeOK, DeletedOrdersStayCancelled
<1>4. NoEventWithoutEntry'
  <2>1. Owed' = Owed
    BY <1>2 DEF Owed
  <2> QED
    BY <1>1, <2>1 DEF NoEventWithoutEntry
<1>5. GateSeen' /\ CommitHeld'
  BY <1>1, <1>2 DEF GateSeen, CommitHeld
<1> QED
  BY <1>3, <1>4, <1>5

\* No step leaves the invariant.
LEMMA StepKeepsIInv == IInv /\ [Next]_vars => IInv'
<1> SUFFICES ASSUME IInv, [Next]_vars PROVE IInv'
  OBVIOUS
<1>1. ASSUME NEW c \in Client, NEW mgr \in BOOLEAN,
             ConfirmReadsGate(c, mgr) \/ ApproveReadsGate(c, mgr) \/ CancelReadsGate(c)
      PROVE  IInv'
  BY <1>1, StartKeepsIInv
<1>2. ASSUME NEW c \in Client, Proceed(c) \/ Crash(c) PROVE IInv'
  BY <1>2, ReadSettingsKeepsIInv, ParkCancelCrashKeepIInv, EnterPurchaseKeepsIInv,
     PublishKeepsIInv DEF Proceed
<1>3. CASE OneStatement \/ UpsertSettings \/ BillingMoves
  BY <1>3, OneStatementKeepsIInv, UpsertSettingsKeepsIInv
<1>4. CASE UNCHANGED vars
  BY <1>4 DEF vars, header, history, IInv, TypeOK, DeletedOrdersStayCancelled,
              NoEventWithoutEntry, Owed, GateSeen, CommitHeld, OverThreshold
<1> QED
  BY <1>1, <1>2, <1>3, <1>4 DEF Next

-----------------------------------------------------------------------------
(* The theorems.                                                           *)

\* The inductive invariant holds in every reachable state.
THEOREM InductiveInvariant == Spec => []IInv
BY InitEstablishesIInv, StepKeepsIInv, PTL DEF Spec

\* Type correctness of the header, the settings and the calls in progress.
THEOREM TypeCorrect == Spec => []TypeOK
<1>1. IInv => TypeOK
  BY DEF IInv
<1> QED
  BY <1>1, InductiveInvariant, PTL

\* No verb revives a deleted order, however stale its gate row is.
THEOREM DeletedStayCancelled == Spec => []DeletedOrdersStayCancelled
<1>1. IInv => DeletedOrdersStayCancelled
  BY DEF IInv
<1> QED
  BY <1>1, InductiveInvariant, PTL

\* PurchaseOrderConfirmed is never published more often than the order entered
\* purchase, with any number of racing confirms and approves.
THEOREM ConfirmedAtMostOncePerEntry == Spec => []NoEventWithoutEntry
<1>1. IInv => NoEventWithoutEntry
  BY DEF IInv
<1> QED
  BY <1>1, InductiveInvariant, PTL

\* The approval gate holds on both entry paths: nobody but a manager takes the
\* order into purchase in a call during which it was never let through.
THEOREM GateHoldsOnBothPaths == Spec => OverThresholdNeedsManager
<1>1. IInv /\ [Next]_vars =>
        [\A c \in Client : call[c].at = "enter" /\ call'[c].at = "announce"
             => call[c].manager \/ call[c].lax]_vars
  BY DEF IInv, GateSeen
<1> QED
  BY <1>1, InductiveInvariant, PTL DEF Spec, OverThresholdNeedsManager

\* Every status written is a declared move, and a cancel that commits finds the
\* order as unlocked as its trigger did.
LEMMA StatusWritesAreSound ==
    ASSUME IInv, [Next]_vars, status' # status
    PROVE  /\ <<status, status'>> \in DeclaredMoves
           /\ status' = "cancelled" => ~locked
<1>1. status \in Status
  BY DEF IInv, TypeOK
<1>2. ASSUME NEW c \in Client, Park(c) \/ EnterPurchase(c) \/ CancelCommits(c)
      PROVE  /\ <<status, status'>> \in DeclaredMoves
             /\ status' = "cancelled" => ~locked
  <2>1. CASE Park(c)
    BY <2>1 DEF Park, Editable, DeclaredMoves
  <2>2. CASE EnterPurchase(c)
    <3>1. status \in {"draft", "sent", "to_approve"} /\ status' = "purchase"
      BY <2>2 DEF EnterPurchase, EntryStates, Editable
    <3> QED
      BY <3>1 DEF DeclaredMoves
  <2>3. CASE CancelCommits(c)
    <3>1. status # "cancelled" /\ status' = "cancelled" /\ ~locked
      BY <2>3 DEF CancelCommits, IInv, CommitHeld
    <3>2. status \in {"draft", "sent", "to_approve", "purchase"}
      BY <1>1, <3>1 DEF Status
    <3> QED
      BY <3>1, <3>2 DEF DeclaredMoves
  <2> QED
    BY <1>2, <2>1, <2>2, <2>3
<1>3. CASE OneStatement
  BY <1>1, <1>3 DEF OneStatement, Send, Reset, SetLocked, Acknowledge, Delete,
                          DeclaredMoves, Status
<1>4. ASSUME NEW c \in Client, NEW mgr \in BOOLEAN
      PROVE  ConfirmReadsGate(c, mgr) \/ ApproveReadsGate(c, mgr) \/ CancelReadsGate(c)
             \/ ReadSettings(c) \/ CancelChecks(c) \/ Publish(c) \/ Crash(c)
             => UNCHANGED status
  BY DEF ConfirmReadsGate, ApproveReadsGate, CancelReadsGate, ReadSettings, CancelChecks,
         Publish, Crash, header
<1>5. UpsertSettings \/ BillingMoves \/ UNCHANGED vars => UNCHANGED status
  BY DEF UpsertSettings, BillingMoves, vars, header
<1> QED
  BY <1>2, <1>3, <1>4, <1>5 DEF Next, Proceed

\* No cancel commits on a locked order, however many calls race it: a lock that
\* came after the pre-checks is seen by the trigger, and none can come between
\* the trigger and the commit.
THEOREM LockedOrdersAreNotCancelled == Spec => LockedNeverCancelled
<1>1. IInv /\ [Next]_vars => [status' = "cancelled" /\ status # "cancelled" => ~locked]_vars
  BY StatusWritesAreSound
<1> QED
  BY <1>1, InductiveInvariant, PTL DEF Spec, LockedNeverCancelled

\* The verbs write declared moves only, whatever their callers had read.
THEOREM OnlyDeclaredMoves == Spec => DeclaredMovesOnly
<1>1. IInv /\ [Next]_vars => [status' # status => <<status, status'>> \in DeclaredMoves]_vars
  BY StatusWritesAreSound
<1> QED
  BY <1>1, InductiveInvariant, PTL DEF Spec, DeclaredMovesOnly
=============================================================================
