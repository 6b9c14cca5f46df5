------------------------ MODULE ReceiptReminderProofs ------------------------
(***************************************************************************)
(* What the reminder promises however many replicas sweep, for every set   *)
(* of orders and suppliers, every cap and every schedule.                  *)
(***************************************************************************)
EXTENDS ReceiptReminder, SequenceTheorems, FiniteSetTheorems, TLAPS

ClaimRun == [at : {"claim"}, day : Day, seen : [Supplier -> Seq(SettingsRow)],
             due : SUBSET Order, claimed : Seq(Order)]
PublishRun == [at : {"publish"}, day : Day, claimed : Seq(Order)]

\* The parts of the types that different actions disturb.
OrderTypes ==
    /\ day \in Day
    /\ order \in [Order -> OrderRow]
    /\ writing \in [Order -> Verb \union {"none"}]
SettingsTypes ==
    /\ settings \in [Owner -> Seq(SettingsRow)]
    /\ upsert \in [Admin -> Upsert] /\ upserts \in 0 .. MaxUpserts
WithinCap == \A r \in Runner : At(r, "claim") => Len(run[r].claimed) <= Cap
RunTypes == run \in [Runner -> Run] /\ WithinCap
SentTypes == sent \in [Order -> [Day -> Nat]]

LEMMA ClaimHasShape ==
    ASSUME RunTypes, NEW r \in Runner, At(r, "claim")
    PROVE  run[r] \in ClaimRun
BY DEF RunTypes, Run, At, ClaimRun, Idle

LEMMA PublishHasShape ==
    ASSUME RunTypes, NEW r \in Runner, At(r, "publish")
    PROVE  run[r] \in PublishRun
BY DEF RunTypes, Run, At, PublishRun, Idle

LEMMA ClaimsAreClaimed ==
    ASSUME NEW r \in Runner
    PROVE  Claims(r) = IF At(r, "claim") THEN {run[r].claimed[i] : i \in DOMAIN run[r].claimed}
                       ELSE {}
BY DEF Claims, At, Range

LEMMA TypeParts == TypeOK <=> OrderTypes /\ SettingsTypes /\ RunTypes /\ SentTypes
<1>1. ASSUME run \in [Runner -> Run], NEW r \in Runner
      PROVE  (Claims(r) # {} => Len(run[r].claimed) <= Cap)
                 <=> (At(r, "claim") => Len(run[r].claimed) <= Cap)
  <2>1. CASE ~At(r, "claim")
      BY <2>1 DEF Claims, At
  <2>2. CASE At(r, "claim")
    <3>1. run[r].claimed \in Seq(Order)
        BY <1>1, <2>2 DEF Run, At, Idle
    <3>2. CASE run[r].claimed = <<>>
        BY <3>2, ReminderAssumption
    <3>3. CASE run[r].claimed # <<>>
      <4>1. Len(run[r].claimed) \in Nat \ {0} /\ DOMAIN run[r].claimed = 1 .. Len(run[r].claimed)
          BY <3>1, <3>3, EmptySeq, LenProperties
      <4>2. run[r].claimed[1] \in Claims(r)
          BY <4>1, <2>2, ClaimsAreClaimed
      <4> QED BY <4>2, <2>2
    <3> QED BY <3>2, <3>3
  <2> QED BY <2>1, <2>2
<1> QED BY <1>1 DEF TypeOK, OrderTypes, SettingsTypes, RunTypes, WithinCap, SentTypes

LEMMA NextTypeParts ==
    TypeOK' <=> OrderTypes' /\ SettingsTypes' /\ RunTypes' /\ SentTypes'
BY TypeParts, PTL

LEMMA InitHasTypes == Init => TypeOK
<1> SUFFICES ASSUME Init PROVE TypeOK
    OBVIOUS
<1>1. OrderTypes /\ SentTypes
    BY ReminderAssumption DEF Init, OrderTypes, SentTypes, OrderRow, Day, Never
<1>2. SettingsTypes
  <2>1. <<>> \in Seq(SettingsRow)
      BY EmptySeq
  <2>2. [remind |-> TRUE, lead |-> 0] \in SettingsRow
      BY DEF SettingsRow
  <2>3. <<[remind |-> TRUE, lead |-> 0]>> \in Seq(SettingsRow)
      BY <2>2
  <2>4. settings \in [Owner -> Seq(SettingsRow)]
      BY <2>1, <2>3 DEF Init
  <2> QED BY <2>4, ReminderAssumption DEF Init, SettingsTypes, Upsert, Idle
<1>3. RunTypes
    BY DEF Init, RunTypes, WithinCap, Run, Idle, At
<1> QED BY <1>1, <1>2, <1>3, TypeParts

\* A step that takes runner r to a state of its own.
LEMMA RunStepKeepsRunTypes ==
    ASSUME RunTypes, NEW r \in Runner, NEW next \in Run, Goto(r, next),
           next.at = "claim" => Len(next.claimed) <= Cap
    PROVE  RunTypes'
BY DEF RunTypes, WithinCap, Goto, At

LEMMA RowsAreFew ==
    ASSUME TypeOK, NEW r \in Runner, At(r, "claim"), NEW o \in Order
    PROVE  /\ Rows(r, o) \in Nat
           /\ Rows(r, o) <= Len(Joined(run[r].seen, SupplierOf[o]))
<1> DEFINE s == SupplierOf[o]
           joined == Joined(run[r].seen, s)
           m == Matching(run[r].seen, run[r].day, o)
<1>1. run[r].seen[s] \in Seq(SettingsRow)
    BY ClaimHasShape, TypeParts, ReminderAssumption DEF ClaimRun
<1>2. [remind |-> TRUE, lead |-> 1] \in SettingsRow
    BY DEF SettingsRow
<1>3. joined \in Seq(SettingsRow)
    BY <1>1, <1>2 DEF Joined
<1>4. Len(joined) \in Nat /\ DOMAIN joined = 1 .. Len(joined)
    BY <1>3, LenProperties
<1>5. m \in SUBSET (1 .. Len(joined))
    BY <1>4 DEF Matching
<1> HIDE DEF joined
<1>6. IsFiniteSet(1 .. Len(joined)) /\ Cardinality(1 .. Len(joined)) = Len(joined)
  <2>1. /\ IsFiniteSet(1 .. Len(joined))
        /\ Cardinality(1 .. Len(joined)) = IF 1 > Len(joined) THEN 0 ELSE Len(joined) - 1 + 1
      BY <1>4, FS_Interval
  <2> QED BY <2>1, <1>4
<1>7. IsFiniteSet(m) /\ Cardinality(m) <= Len(joined)
    BY <1>5, <1>6, FS_Subset
<1> QED BY <1>7, FS_CardinalityType DEF Rows, joined

LEMMA ClaimAppends ==
    ASSUME TypeOK, NEW r \in Runner, NEW o \in Order, Claim(r, o)
    PROVE  /\ Taken(r, o) \in Nat /\ Taken(r, o) <= Rows(r, o)
           /\ \A s \in Runner \ {r} : run'[s] = run[s]
           /\ run' = [run EXCEPT ![r] = run'[r]] /\ run'[r] \in ClaimRun
           /\ run'[r].day = run[r].day /\ run'[r].due = run[r].due \ {o}
           /\ Len(run'[r].claimed) = Len(run[r].claimed) + Taken(r, o)
           /\ Len(run'[r].claimed) <= Cap
           /\ \A i \in 1 .. Len(run'[r].claimed) : run'[r].claimed[i] =
                  IF i <= Len(run[r].claimed) THEN run[r].claimed[i] ELSE o
<1> DEFINE old == run[r].claimed
           more == [i \in 1 .. Taken(r, o) |-> o]
<1>1. run[r] \in ClaimRun /\ Len(old) < Cap /\ run \in [Runner -> Run]
    BY ClaimHasShape, TypeParts DEF Claim, RunTypes
<1>2. old \in Seq(Order) /\ Len(old) \in Nat
    BY <1>1, LenProperties DEF ClaimRun
<1>3. Rows(r, o) \in Nat
    BY RowsAreFew DEF Claim
<1>4. Taken(r, o) \in Nat /\ Taken(r, o) <= Rows(r, o) /\ Len(old) + Taken(r, o) <= Cap
    BY <1>1, <1>2, <1>3, ReminderAssumption DEF Taken
<1>5. more \in Seq(Order) /\ Len(more) = Taken(r, o)
    BY <1>4
<1>6. /\ old \o more \in Seq(Order)
      /\ Len(old \o more) = Len(old) + Taken(r, o)
      /\ \A i \in 1 .. Len(old) + Taken(r, o) : (old \o more)[i] =
             IF i <= Len(old) THEN old[i] ELSE o
    BY <1>2, <1>4, <1>5, ConcatProperties
<1>7. run' = [run EXCEPT ![r] = [run[r] EXCEPT !.due = @ \ {o}, !.claimed = @ \o more]]
    BY DEF Claim, Goto
<1>8. run'[r] = [run[r] EXCEPT !.due = @ \ {o}, !.claimed = old \o more]
    BY <1>1, <1>7
<1> HIDE DEF more
<1>9. /\ run'[r] \in ClaimRun /\ run'[r].day = run[r].day /\ run'[r].due = run[r].due \ {o}
      /\ run'[r].claimed = old \o more
    BY <1>1, <1>6, <1>8 DEF ClaimRun
<1>10. run' = [run EXCEPT ![r] = run'[r]] /\ \A s \in Runner \ {r} : run'[s] = run[s]
    BY <1>1, <1>7, <1>8
<1> QED BY <1>4, <1>6, <1>9, <1>10

-----------------------------------------------------------------------------
(* Types.                                                                  *)

LEMMA RunStepKeepsTypes ==
    ASSUME TypeOK, NEW r \in Runner, RunStep(r)
    PROVE  TypeOK'
<1>1. OrderTypes /\ SettingsTypes /\ RunTypes /\ SentTypes
    BY TypeParts
<1>2. CASE ReadGate(r)
  <2>1. [at |-> "gated"] \in Run
      BY DEF Run
  <2>2. RunTypes'
      BY <1>1, <1>2, <2>1, RunStepKeepsRunTypes DEF ReadGate
  <2> QED BY <1>1, <1>2, <2>2, NextTypeParts DEF ReadGate, OrderTypes, SettingsTypes, SentTypes
<1>3. CASE StartClaim(r)
  <2> DEFINE seen == [s \in Supplier |-> settings[s]]
             next == [at |-> "claim", day |-> day, seen |-> seen,
                      due |-> {o \in Order : Open(o, day) /\ Matching(seen, day, o) # {}},
                      claimed |-> <<>>]
  <2>1. seen \in [Supplier -> Seq(SettingsRow)]
      BY <1>1 DEF SettingsTypes, Owner
  <2>2. <<>> \in Seq(Order) /\ Len(<<>>) = 0
      BY EmptySeq
  <2> HIDE DEF seen
  <2>3. next \in Run /\ Len(next.claimed) <= Cap
      BY <1>1, <2>1, <2>2, ReminderAssumption DEF Run, OrderTypes
  <2>4. Goto(r, next)
      BY <1>3 DEF StartClaim, seen
  <2> HIDE DEF next
  <2>5. RunTypes'
      BY <1>1, <2>3, <2>4, RunStepKeepsRunTypes
  <2> QED BY <1>1, <1>3, <2>5, NextTypeParts DEF StartClaim, OrderTypes, SettingsTypes, SentTypes
<1>4. ASSUME NEW o \in Order, Claim(r, o)
      PROVE  TypeOK'
  <2>1. /\ run' = [run EXCEPT ![r] = run'[r]] /\ run'[r] \in ClaimRun
        /\ Len(run'[r].claimed) <= Cap
      BY <1>4, ClaimAppends
  <2>2. run'[r] \in Run
      BY <2>1 DEF ClaimRun, Run
  <2>3. RunTypes'
      BY <1>1, <2>1, <2>2 DEF RunTypes, WithinCap, At
  <2> QED BY <1>1, <1>4, <2>3, NextTypeParts DEF Claim, OrderTypes, SettingsTypes, SentTypes
<1>5. CASE Stamp(r)
  <2>1. run[r] \in ClaimRun
      BY <1>1, <1>5, ClaimHasShape DEF Stamp
  <2> DEFINE next == [at |-> "publish", day |-> run[r].day, claimed |-> run[r].claimed]
  <2>2. next \in Run /\ next.at # "claim"
      BY <2>1 DEF ClaimRun, Run
  <2>3. RunTypes'
      BY <1>1, <1>5, <2>2, RunStepKeepsRunTypes DEF Stamp
  <2>4. OrderTypes'
      BY <1>1, <1>5, <2>1 DEF Stamp, OrderTypes, OrderRow, ClaimRun
  <2> QED BY <1>1, <1>5, <2>3, <2>4, NextTypeParts DEF Stamp, SettingsTypes, SentTypes
<1>6. CASE Publish(r)
  <2>1. run[r] \in PublishRun
      BY <1>1, <1>6, PublishHasShape DEF Publish
  <2>2. CASE run[r].claimed = <<>>
    <3>1. RunTypes'
        BY <1>1, <1>6, <2>2, RunStepKeepsRunTypes DEF Publish, Run, Idle
    <3> QED BY <1>1, <1>6, <2>2, <3>1, NextTypeParts DEF Publish, OrderTypes, SettingsTypes, SentTypes
  <2>3. CASE run[r].claimed # <<>>
    <3>1. Head(run[r].claimed) \in Order /\ Tail(run[r].claimed) \in Seq(Order)
        BY <2>1, <2>3, HeadTailProperties DEF PublishRun
    <3> DEFINE next == [run[r] EXCEPT !.claimed = Tail(@)]
    <3>2. next \in Run /\ next.at # "claim"
        BY <2>1, <3>1 DEF PublishRun, Run
    <3>3. RunTypes'
        BY <1>1, <1>6, <2>3, <3>2, RunStepKeepsRunTypes DEF Publish
    <3>4. SentTypes'
      <4> DEFINE o == Head(run[r].claimed)
                 d == run[r].day
      <4>1. o \in Order /\ d \in Day /\ sent \in [Order -> [Day -> Nat]]
          BY <1>1, <2>1, <3>1 DEF PublishRun, SentTypes
      <4>2. sent[o][d] + 1 \in Nat
          BY <4>1
      <4>3. sent' = [sent EXCEPT ![o][d] = sent[o][d] + 1]
          BY <1>6, <2>3 DEF Publish
      <4> HIDE DEF o, d
      <4> QED BY <4>1, <4>2, <4>3 DEF SentTypes
    <3> QED BY <1>1, <1>6, <3>3, <3>4, NextTypeParts DEF Publish, OrderTypes, SettingsTypes
  <2> QED BY <2>2, <2>3
<1> QED BY <1>2, <1>3, <1>4, <1>5, <1>6 DEF RunStep

\* The upserts keep the rows of the settings what they are.
LEMMA UpsertsKeepSettingsTypes ==
    ASSUME TypeOK, NEW a \in Admin,
           \/ UpsertWrites(a)
           \/ \E k \in Owner, remind \in BOOLEAN, lead \in Leads :
                 UpsertLooks(a, k, [remind |-> remind, lead |-> lead])
    PROVE  SettingsTypes'
<1>1. SettingsTypes
    BY TypeParts
<1>2. ASSUME NEW k \in Owner, NEW remind \in BOOLEAN, NEW lead \in Leads,
             UpsertLooks(a, k, [remind |-> remind, lead |-> lead])
      PROVE  SettingsTypes'
  <2>1. [remind |-> remind, lead |-> lead] \in SettingsRow
      BY ReminderAssumption DEF SettingsRow
  <2> QED BY <1>1, <1>2, <2>1, ReminderAssumption DEF UpsertLooks, SettingsTypes, Upsert, Idle
<1>3. CASE UpsertWrites(a)
  <2> DEFINE u == upsert[a]
             old == settings[u.key]
             new == IF u.found THEN [old EXCEPT ![1] = u.row] ELSE Append(old, u.row)
  <2>1. u.key \in Owner /\ u.row \in SettingsRow
      BY <1>1, <1>3 DEF UpsertWrites, SettingsTypes, Upsert, Idle
  <2>2. old \in Seq(SettingsRow)
      BY <1>1, <2>1 DEF SettingsTypes
  <2>3. Append(old, u.row) \in Seq(SettingsRow)
      BY <2>1, <2>2, AppendProperties
  <2>4. [old EXCEPT ![1] = u.row] \in Seq(SettingsRow)
    <3>1. CASE old = <<>>
      <4>1. [old EXCEPT ![1] = u.row] = old
          BY <3>1
      <4> QED BY <2>2, <4>1
    <3>2. CASE old # <<>>
      <4>1. 1 \in 1 .. Len(old)
          BY <2>2, <3>2, EmptySeq
      <4> QED BY <2>1, <2>2, <4>1, ExceptSeq
    <3> QED BY <3>1, <3>2
  <2>5. new \in Seq(SettingsRow) /\ settings' = [settings EXCEPT ![u.key] = new]
      BY <1>3, <2>3, <2>4 DEF UpsertWrites
  <2> HIDE DEF new
  <2>6. settings' \in [Owner -> Seq(SettingsRow)]
      BY <1>1, <2>1, <2>5 DEF SettingsTypes
  <2>7. upsert' \in [Admin -> Upsert] /\ upserts' = upserts
      BY <1>1, <1>3 DEF UpsertWrites, SettingsTypes, Upsert
  <2> QED BY <1>1, <2>6, <2>7 DEF SettingsTypes
<1> QED BY <1>2, <1>3

LEMMA StepKeepsTypes ==
    ASSUME TypeOK, [Next]_vars
    PROVE  TypeOK'
<1>1. OrderTypes /\ SettingsTypes /\ RunTypes /\ SentTypes
    BY TypeParts
<1>2. ASSUME NEW r \in Runner, RunStep(r)
      PROVE  TypeOK'
    BY <1>2, RunStepKeepsTypes
<1>3. ASSUME NEW r \in Runner, Crash(r)
      PROVE  TypeOK'
  <2>1. RunTypes'
      BY <1>1, <1>3, RunStepKeepsRunTypes DEF Crash, Run, Idle
  <2> QED BY <1>1, <1>3, <2>1, NextTypeParts DEF Crash, OrderTypes, SettingsTypes, SentTypes
<1>4. ASSUME NEW o \in Order, VerbCommits(o)
      PROVE  TypeOK'
  <2>1. writing[o] \in Verb /\ order[o] \in OrderRow
      BY <1>1, <1>4 DEF VerbCommits, OrderTypes
  <2>2. Written(writing[o], order[o]) \in OrderRow
      BY <2>1 DEF Written, OrderRow, Verb
  <2>3. OrderTypes'
      BY <1>1, <1>4, <2>2 DEF VerbCommits, OrderTypes
  <2> QED BY <1>1, <1>4, <2>3, NextTypeParts DEF VerbCommits, SettingsTypes, RunTypes, WithinCap,
             At, SentTypes
<1>5. ASSUME NEW o \in Order, NEW verb \in VerbsOn[o], VerbLocks(o, verb)
      PROVE  TypeOK'
  <2>1. verb \in Verb
      BY ReminderAssumption
  <2>2. OrderTypes'
      BY <1>1, <1>5, <2>1 DEF VerbLocks, OrderTypes
  <2> QED BY <1>1, <1>5, <2>2, NextTypeParts DEF VerbLocks, SettingsTypes, RunTypes, WithinCap,
             At, SentTypes
<1>6. ASSUME NEW a \in Admin,
             \/ UpsertWrites(a)
             \/ \E k \in Owner, remind \in BOOLEAN, lead \in Leads :
                   UpsertLooks(a, k, [remind |-> remind, lead |-> lead])
      PROVE  TypeOK'
  <2>1. SettingsTypes'
      BY <1>6, UpsertsKeepSettingsTypes
  <2>2. UNCHANGED <<day, order, writing, run, sent>>
      BY <1>6 DEF UpsertWrites, UpsertLooks
  <2> QED BY <1>1, <2>1, <2>2, NextTypeParts DEF OrderTypes, RunTypes, WithinCap, At, SentTypes
<1>7. CASE Midnight
  <2>1. day' \in Day
      BY <1>1, <1>7, ReminderAssumption DEF Midnight, OrderTypes, Day
  <2> QED BY <1>1, <1>7, <2>1, NextTypeParts DEF Midnight, OrderTypes, SettingsTypes, RunTypes,
             WithinCap, At, SentTypes
<1>8. CASE UNCHANGED vars
    BY <1>1, <1>8, NextTypeParts DEF vars, OrderTypes, SettingsTypes, RunTypes, WithinCap, At,
       SentTypes
<1> QED BY <1>2, <1>3, <1>4, <1>5, <1>6, <1>7, <1>8 DEF Next

\* The state of the reminder keeps its types, and no claim exceeds the cap.
THEOREM TypeCorrect == Spec => []TypeOK
<1>1. TypeOK /\ [Next]_vars => TypeOK'
    BY StepKeepsTypes
<1> QED BY <1>1, InitHasTypes, PTL DEF Spec

-----------------------------------------------------------------------------
(* Stamps and claims.                                                      *)

\* A claim is of today, and no stamp is of tomorrow.
ClaimsToday == \A r \in Runner : At(r, "claim") => run[r].day = day
StampsPast == \A o \in Order : order[o].stamp <= day

\* The lock of a claimed row keeps it as it was found, and it is not due again.
ClaimsHold ==
    \A r \in Runner : At(r, "claim") =>
        \A i \in DOMAIN run[r].claimed : LET o == run[r].claimed[i] IN
            writing[o] = "none" /\ Open(o, run[r].day) /\ o \notin run[r].due

\* No row is claimed by two replicas (SKIP LOCKED).
ClaimsDisjoint ==
    \A r, s \in Runner : r # s => \A o \in Order : o \notin Claims(r) \/ o \notin Claims(s)

\* What is to be published is stamped.
OwedAreStamped ==
    \A r \in Runner : At(r, "publish") =>
        \A i \in DOMAIN run[r].claimed : order[run[r].claimed[i]].stamp >= run[r].day

IInv ==
    /\ TypeOK
    /\ ClaimsToday /\ StampsPast
    /\ ClaimsHold /\ ClaimsDisjoint
    /\ OwedAreStamped /\ EventsBehindStamps

LEMMA InitEstablishesIInv == Init => IInv
<1> SUFFICES ASSUME Init PROVE IInv
    OBVIOUS
<1>1. \A r \in Runner : run[r] = Idle /\ Claims(r) = {}
    BY DEF Init, Idle, Claims
<1>2. ClaimsToday /\ ClaimsHold /\ ClaimsDisjoint /\ OwedAreStamped
    BY <1>1 DEF ClaimsToday, ClaimsHold, ClaimsDisjoint, OwedAreStamped, At, Idle
<1>3. \A o \in Order : order[o].stamp = 0 /\ \A d \in Day : sent[o][d] = 0
    BY DEF Init, Never
<1>4. StampsPast /\ EventsBehindStamps
    BY <1>3 DEF Init, StampsPast, EventsBehindStamps
<1> QED BY <1>2, <1>4, InitHasTypes DEF IInv

\* The rows of a run are orders.
LEMMA ClaimedAreOrders ==
    ASSUME TypeOK, NEW r \in Runner, run[r].at \in {"claim", "publish"}
    PROVE  /\ run[r].claimed \in Seq(Order) /\ Len(run[r].claimed) \in Nat
           /\ DOMAIN run[r].claimed = 1 .. Len(run[r].claimed)
           /\ \A i \in DOMAIN run[r].claimed : run[r].claimed[i] \in Order
           /\ run[r].day \in Day
<1>1. run[r].claimed \in Seq(Order) /\ run[r].day \in Day
    BY ClaimHasShape, PublishHasShape, TypeParts DEF At, ClaimRun, PublishRun
<1> QED BY <1>1, LenProperties, ElementOfSeq

\* A run that moves to a state without claims of its own leaves the others alone.
LEMMA LeavingKeepsIInv ==
    ASSUME IInv, TypeOK', NEW r \in Runner, NEW next, Goto(r, next),
           next.at \notin {"claim", "publish"},
           UNCHANGED <<day, order, writing, sent>>
    PROVE  IInv'
<1>1. run' = [run EXCEPT ![r] = next] /\ run \in [Runner -> Run]
    BY TypeParts DEF Goto, IInv, RunTypes
<1>2. \A s \in Runner : s # r => run'[s] = run[s] /\ Claims(s)' = Claims(s)
    BY <1>1 DEF Claims
<1>3. run'[r] = next /\ Claims(r)' = {}
    BY <1>1 DEF Claims
<1>4. ClaimsToday' /\ StampsPast' /\ OwedAreStamped' /\ EventsBehindStamps'
    BY <1>2, <1>3 DEF IInv, ClaimsToday, StampsPast, OwedAreStamped, EventsBehindStamps, At
<1>5. ClaimsHold' /\ ClaimsDisjoint'
    BY <1>2, <1>3 DEF IInv, ClaimsHold, ClaimsDisjoint, At, Open
<1> QED BY <1>4, <1>5 DEF IInv

LEMMA StartClaimKeepsIInv ==
    ASSUME IInv, TypeOK', NEW r \in Runner, StartClaim(r)
    PROVE  IInv'
<1>1. run \in [Runner -> Run]
    BY TypeParts DEF IInv, RunTypes
<1>2. /\ run'[r].at = "claim" /\ run'[r].day = day /\ run'[r].claimed = <<>>
      /\ \A s \in Runner : s # r => run'[s] = run[s] /\ Claims(s)' = Claims(s)
    BY <1>1 DEF StartClaim, Goto, Claims
<1>3. DOMAIN run'[r].claimed = {} /\ Claims(r)' = {}
    BY <1>2 DEF Claims, Range
<1>4. UNCHANGED <<day, order, writing, sent>>
    BY DEF StartClaim
<1>5. ClaimsToday' /\ StampsPast' /\ OwedAreStamped' /\ EventsBehindStamps'
    BY <1>2, <1>4 DEF IInv, ClaimsToday, StampsPast, OwedAreStamped, EventsBehindStamps, At
<1>6. ClaimsHold' /\ ClaimsDisjoint'
    BY <1>2, <1>3, <1>4 DEF IInv, ClaimsHold, ClaimsDisjoint, At, Open
<1> QED BY <1>5, <1>6 DEF IInv

\* What a claim takes was free, and open under the lock.
LEMMA ClaimKeepsIInv ==
    ASSUME IInv, TypeOK', NEW r \in Runner, NEW o \in Order, Claim(r, o)
    PROVE  IInv'
<1> DEFINE old == run[r].claimed
           new == run'[r].claimed
<1>1. /\ Taken(r, o) \in Nat /\ run'[r] \in ClaimRun
      /\ run' = [run EXCEPT ![r] = run'[r]]
      /\ run'[r].day = run[r].day /\ run'[r].due = run[r].due \ {o}
      /\ Len(new) = Len(old) + Taken(r, o)
      /\ \A i \in 1 .. Len(new) : new[i] = IF i <= Len(old) THEN old[i] ELSE o
    BY ClaimAppends DEF IInv
<1>2. run \in [Runner -> Run] /\ At(r, "claim") /\ run'[r].at = "claim" /\ o \in run[r].due
    BY <1>1, TypeParts DEF IInv, RunTypes, ClaimRun, Claim
<1>3. /\ Len(old) \in Nat /\ DOMAIN old = 1 .. Len(old)
      /\ DOMAIN new = 1 .. Len(new)
    BY <1>1, <1>2, ClaimedAreOrders, LenProperties DEF IInv, At, ClaimRun
<1>4. Taken(r, o) # 0 => FreeFor(r, o) /\ Open(o, run[r].day)
    BY DEF Taken
<1>5. UNCHANGED <<day, order, writing, sent>>
    BY DEF Claim
<1>6. \A s \in Runner : s # r => run'[s] = run[s] /\ Claims(s)' = Claims(s)
    BY <1>1, <1>2 DEF Claims
<1>7. \A p \in Claims(r)' : p \in Claims(r) \/ (p = o /\ FreeFor(r, o))
  <2> SUFFICES ASSUME NEW i \in DOMAIN new
               PROVE  new[i] \in Claims(r) \/ (new[i] = o /\ FreeFor(r, o))
      BY <1>2 DEF Claims, Range
  <2>1. CASE i <= Len(old)
    <3>1. new[i] = old[i] /\ i \in DOMAIN old
        BY <1>1, <1>3, <2>1
    <3> QED BY <3>1, <1>2, ClaimsAreClaimed
  <2>2. CASE i > Len(old)
      BY <1>1, <1>3, <1>4, <2>2
  <2> QED BY <1>1, <1>3, <2>1, <2>2
<1>8. ClaimsDisjoint'
  <2> SUFFICES ASSUME NEW s \in Runner, NEW q \in Runner, s # q, NEW p \in Order,
                      p \in Claims(s)', p \in Claims(q)'
               PROVE  FALSE
      BY DEF ClaimsDisjoint
  <2>1. CASE s # r /\ q # r
      BY <1>6, <2>1 DEF IInv, ClaimsDisjoint
  <2>2. CASE s = r
      BY <1>6, <1>7, <2>2 DEF IInv, ClaimsDisjoint, FreeFor
  <2>3. CASE q = r
      BY <1>6, <1>7, <2>3 DEF IInv, ClaimsDisjoint, FreeFor
  <2> QED BY <2>1, <2>2, <2>3
<1>9. ClaimsHold'
  <2> SUFFICES ASSUME NEW s \in Runner, run'[s].at = "claim", NEW i \in DOMAIN run'[s].claimed
               PROVE  LET p == run'[s].claimed[i] IN
                      /\ writing[p] = "none" /\ Open(p, run'[s].day)
                      /\ p \notin run'[s].due
      BY <1>5 DEF ClaimsHold, At, Open
  <2>1. CASE s # r
      BY <1>6, <2>1 DEF IInv, ClaimsHold, At
  <2>2. CASE s = r /\ i <= Len(old)
    <3>0. i \in 1 .. Len(new) /\ i \in 1 .. Len(old) + Taken(r, o) /\ i <= Len(old)
        BY <1>1, <1>3, <2>2
    <3>1. new[i] = old[i]
        BY <1>1, <3>0
    <3>2. i \in DOMAIN old
        BY <1>1, <1>3, <3>0
    <3> QED BY <1>1, <1>2, <2>2, <3>1, <3>2 DEF IInv, ClaimsHold
  <2>3. CASE s = r /\ ~(i <= Len(old))
    <3>0. i \in 1 .. Len(old) + Taken(r, o) /\ i \in Int /\ ~(i <= Len(old))
        BY <1>1, <1>3, <2>3
    <3>1. new[i] = o /\ Taken(r, o) # 0
        BY <1>1, <1>3, <3>0
    <3> QED BY <1>1, <1>4, <2>3, <3>1 DEF FreeFor
  <2> QED BY <2>1, <2>2, <2>3
<1>10. ClaimsToday' /\ StampsPast' /\ OwedAreStamped' /\ EventsBehindStamps'
  <2>1. ClaimsToday' /\ StampsPast'
      BY <1>1, <1>2, <1>5, <1>6 DEF IInv, ClaimsToday, StampsPast, At
  <2>2. OwedAreStamped' /\ EventsBehindStamps'
      BY <1>2, <1>5, <1>6 DEF IInv, OwedAreStamped, EventsBehindStamps, At
  <2> QED BY <2>1, <2>2
<1> QED BY <1>8, <1>9, <1>10 DEF IInv

\* The stamps of a run are of today; the rows of the other claims are others'.
LEMMA StampKeepsIInv ==
    ASSUME IInv, TypeOK', NEW r \in Runner, Stamp(r)
    PROVE  IInv'
<1> DEFINE owed == run[r].claimed
<1>1. /\ run \in [Runner -> Run] /\ order \in [Order -> OrderRow] /\ day \in Nat
      /\ sent \in [Order -> [Day -> Nat]]
    BY TypeParts DEF IInv, RunTypes, OrderTypes, SentTypes, Day
<1>2. run[r].at = "claim" /\ run[r].day = day
    BY DEF IInv, ClaimsToday, Stamp, At
<1>3. /\ run'[r].at = "publish" /\ run'[r].day = day /\ run'[r].claimed = owed
      /\ \A s \in Runner : s # r => run'[s] = run[s] /\ Claims(s)' = Claims(s)
      /\ Claims(r)' = {}
    BY <1>1, <1>2 DEF Stamp, Goto, Claims
<1>4. UNCHANGED <<day, writing, sent>>
    BY DEF Stamp
<1>5. \A o \in Order :
          /\ o \in Claims(r) => order'[o].stamp = day
          /\ o \notin Claims(r) => order'[o] = order[o]
    BY <1>1, <1>2 DEF Stamp, OrderRow
<1>6. \A o \in Order : order[o].stamp \in Int /\ order[o].stamp <= day /\ order'[o].stamp >= order[o].stamp
                       /\ order'[o].stamp \in Int /\ order'[o].stamp <= day
    BY <1>1, <1>5 DEF IInv, StampsPast, OrderRow, Day, Never
<1>7. ClaimsToday' /\ StampsPast'
    BY <1>3, <1>4, <1>6 DEF IInv, ClaimsToday, StampsPast, At
<1>8. ClaimsHold'
  <2> SUFFICES ASSUME NEW s \in Runner, s # r, run[s].at = "claim", NEW i \in DOMAIN run[s].claimed
               PROVE  LET p == run[s].claimed[i] IN
                      /\ writing[p] = "none" /\ Open(p, run[s].day)'
                      /\ p \notin run[s].due
      BY <1>3, <1>4 DEF ClaimsHold, At, Open
  <2> DEFINE p == run[s].claimed[i]
  <2>1. p \in Order /\ p \in Claims(s)
      BY ClaimedAreOrders, ClaimsAreClaimed DEF IInv, At
  <2>2. order'[p] = order[p]
      BY <1>5, <2>1 DEF IInv, ClaimsDisjoint
  <2> QED BY <1>3, <2>2 DEF IInv, ClaimsHold, At, Open
<1>9. ClaimsDisjoint'
    BY <1>3 DEF IInv, ClaimsDisjoint
<1>10. OwedAreStamped'
  <2> SUFFICES ASSUME NEW s \in Runner, run'[s].at = "publish", NEW i \in DOMAIN run'[s].claimed
               PROVE  order'[run'[s].claimed[i]].stamp >= run'[s].day
      BY DEF OwedAreStamped, At
  <2>1. CASE s = r
    <3>1. owed[i] \in Order /\ owed[i] \in Claims(r)
        BY <1>2, <1>3, <2>1, ClaimedAreOrders, ClaimsAreClaimed DEF IInv, At
    <3> QED BY <1>1, <1>3, <1>5, <2>1, <3>1
  <2>2. CASE s # r
    <3> DEFINE p == run[s].claimed[i]
    <3>1. p \in Order /\ run[s].day \in Int /\ order[p].stamp >= run[s].day /\ run'[s] = run[s]
        BY <1>3, <2>2, ClaimedAreOrders DEF IInv, OwedAreStamped, At, Day
    <3>2. order[p].stamp \in Int /\ order'[p].stamp \in Int /\ order'[p].stamp >= order[p].stamp
        BY <1>6, <3>1
    <3> HIDE DEF p
    <3> QED BY <3>1, <3>2 DEF p
  <2> QED BY <2>1, <2>2
<1>11. EventsBehindStamps'
  <2> SUFFICES ASSUME NEW o \in Order, NEW d \in Day, sent[o][d] > 0
               PROVE  order'[o].stamp >= d
      BY <1>4 DEF EventsBehindStamps
  <2> QED BY <1>6 DEF IInv, EventsBehindStamps, Day
<1> QED BY <1>7, <1>8, <1>9, <1>10, <1>11 DEF IInv

\* An event leaves for an order that was stamped before.
LEMMA PublishKeepsIInv ==
    ASSUME IInv, TypeOK', NEW r \in Runner, Publish(r), run[r].claimed # <<>>
    PROVE  IInv'
<1> DEFINE owed == run[r].claimed
           h == Head(owed)
<1>1. /\ run \in [Runner -> Run] /\ sent \in [Order -> [Day -> Nat]]
      /\ run[r].at = "publish" /\ run[r] \in PublishRun
    BY TypeParts, PublishHasShape DEF IInv, RunTypes, SentTypes, Publish, At
<1>2. owed \in Seq(Order) /\ owed # <<>> /\ run[r].day \in Day
    BY <1>1 DEF PublishRun
<1>3. /\ h = owed[1] /\ h \in Order /\ 1 \in DOMAIN owed
      /\ Tail(owed) \in Seq(Order)
      /\ \A i \in DOMAIN Tail(owed) : i + 1 \in DOMAIN owed /\ Tail(owed)[i] = owed[i + 1]
  <2>1. Len(owed) \in Nat \ {0} /\ DOMAIN owed = 1 .. Len(owed)
      BY <1>2, EmptySeq, LenProperties
  <2>2. /\ h \in Order /\ Tail(owed) \in Seq(Order) /\ Len(Tail(owed)) = Len(owed) - 1
        /\ \A i \in 1 .. Len(Tail(owed)) : Tail(owed)[i] = owed[i + 1]
      BY <1>2, HeadTailProperties
  <2>3. DOMAIN Tail(owed) = 1 .. Len(owed) - 1
      BY <2>2, LenProperties
  <2> QED BY <2>1, <2>2, <2>3
<1>4. /\ run'[r].at = "publish" /\ run'[r].day = run[r].day /\ run'[r].claimed = Tail(owed)
      /\ \A s \in Runner : s # r => run'[s] = run[s] /\ Claims(s)' = Claims(s)
      /\ Claims(r)' = {}
    BY <1>1 DEF Publish, Goto, Claims, PublishRun
<1>5. UNCHANGED <<day, order, writing>>
    BY DEF Publish
<1>6. ClaimsToday' /\ StampsPast'
    BY <1>4, <1>5 DEF IInv, ClaimsToday, StampsPast, At
<1>7. ClaimsHold' /\ ClaimsDisjoint'
    BY <1>4, <1>5 DEF IInv, ClaimsHold, ClaimsDisjoint, At, Open
<1>8. OwedAreStamped'
  <2> SUFFICES ASSUME NEW s \in Runner, run'[s].at = "publish", NEW i \in DOMAIN run'[s].claimed
               PROVE  order[run'[s].claimed[i]].stamp >= run'[s].day
      BY <1>5 DEF OwedAreStamped, At
  <2>1. CASE s = r
    <3>1. i \in DOMAIN Tail(owed) /\ run'[s].claimed[i] = Tail(owed)[i] /\ run'[s].day = run[r].day
        BY <1>4, <2>1
    <3>2. i + 1 \in DOMAIN owed /\ run'[s].claimed[i] = owed[i + 1]
        BY <1>3, <3>1
    <3>3. \A j \in DOMAIN owed : order[owed[j]].stamp >= run[r].day
        BY <1>1 DEF IInv, OwedAreStamped, At
    <3> QED BY <3>1, <3>2, <3>3
  <2>2. CASE s # r
      BY <1>4, <2>2 DEF IInv, OwedAreStamped, At
  <2> QED BY <2>1, <2>2
<1>9. EventsBehindStamps'
  <2>1. sent' = [sent EXCEPT ![h][run[r].day] = @ + 1]
      BY DEF Publish
  <2>2. \A o \in Order, d \in Day :
            o # h \/ d # run[r].day => sent'[o][d] = sent[o][d]
      BY <1>1, <1>2, <1>3, <2>1
  <2>3. order[h].stamp >= run[r].day
      BY <1>1, <1>3 DEF IInv, OwedAreStamped, At
  <2> HIDE DEF h
  <2>4. ASSUME NEW o \in Order, NEW d \in Day, sent'[o][d] > 0
        PROVE  order[o].stamp >= d
    <3>1. CASE o = h /\ d = run[r].day
        BY <2>3, <3>1
    <3>2. CASE o # h \/ d # run[r].day
        BY <2>2, <2>4, <3>2 DEF IInv, EventsBehindStamps
    <3> QED BY <3>1, <3>2
  <2> QED BY <1>5, <2>4 DEF EventsBehindStamps
<1> QED BY <1>6, <1>7, <1>8, <1>9 DEF IInv

\* A statement waits for the claims of its row, and a claim skips its row.
LEMMA VerbsKeepIInv ==
    ASSUME IInv, TypeOK', NEW o \in Order,
           VerbCommits(o) \/ \E verb \in VerbsOn[o] : VerbLocks(o, verb)
    PROVE  IInv'
<1>1. order \in [Order -> OrderRow] /\ writing \in [Order -> Verb \union {"none"}]
    BY TypeParts DEF IInv, OrderTypes
<1>2. UNCHANGED <<day, run, sent>> /\ \A r \in Runner : Claims(r)' = Claims(r)
    BY DEF VerbCommits, VerbLocks, Claims
<1>3. \A r \in Runner : At(r, "claim") => \A i \in DOMAIN run[r].claimed :
          run[r].claimed[i] # o /\ run[r].claimed[i] \in Order
  <2> SUFFICES ASSUME NEW r \in Runner, At(r, "claim"), NEW i \in DOMAIN run[r].claimed
               PROVE  run[r].claimed[i] # o /\ run[r].claimed[i] \in Order
      OBVIOUS
  <2>1. run[r].claimed[i] \in Claims(r) /\ run[r].claimed[i] \in Order
      BY ClaimsAreClaimed, ClaimedAreOrders DEF IInv, At
  <2>2. CASE VerbCommits(o)
      BY <2>1, <2>2 DEF VerbCommits, IInv, ClaimsHold
  <2>3. CASE \E verb \in VerbsOn[o] : VerbLocks(o, verb)
      BY <2>1, <2>3 DEF VerbLocks
  <2> QED BY <2>1, <2>2, <2>3
<1>4. \A p \in Order : /\ p # o => order'[p] = order[p] /\ writing'[p] = writing[p]
                       /\ order'[p].stamp = order[p].stamp
  <2>1. CASE VerbCommits(o)
    <3>1. writing[o] \in Verb /\ order[o] \in OrderRow
        BY <1>1, <2>1 DEF VerbCommits
    <3>2. Written(writing[o], order[o]).stamp = order[o].stamp
        BY <3>1 DEF Written, OrderRow, Verb
    <3> QED BY <1>1, <2>1, <3>2 DEF VerbCommits
  <2>2. CASE \E verb \in VerbsOn[o] : VerbLocks(o, verb)
      BY <1>1, <2>2 DEF VerbLocks
  <2> QED BY <2>1, <2>2
<1>5. ClaimsToday' /\ StampsPast'
    BY <1>2, <1>4 DEF IInv, ClaimsToday, StampsPast, At
<1>6. ClaimsHold' /\ ClaimsDisjoint'
    BY <1>2, <1>3, <1>4 DEF IInv, ClaimsHold, ClaimsDisjoint, At, Open
<1>7. OwedAreStamped' /\ EventsBehindStamps'
  <2>1. \A r \in Runner : At(r, "publish") =>
            \A i \in DOMAIN run[r].claimed : run[r].claimed[i] \in Order
      BY ClaimedAreOrders DEF IInv, At
  <2> QED BY <1>2, <1>4, <2>1 DEF IInv, OwedAreStamped, EventsBehindStamps, At
<1> QED BY <1>5, <1>6, <1>7 DEF IInv

LEMMA StepKeepsIInv ==
    ASSUME IInv, [Next]_vars
    PROVE  IInv'
<1>1. TypeOK'
    BY StepKeepsTypes DEF IInv
<1>2. ASSUME NEW r \in Runner, RunStep(r)
      PROVE  IInv'
  <2>1. CASE ReadGate(r)
      BY <1>1, <2>1, LeavingKeepsIInv DEF ReadGate
  <2>2. CASE StartClaim(r)
      BY <1>1, <2>2, StartClaimKeepsIInv
  <2>3. CASE \E o \in Order : Claim(r, o)
      BY <1>1, <2>3, ClaimKeepsIInv
  <2>4. CASE Stamp(r)
      BY <1>1, <2>4, StampKeepsIInv
  <2>5. CASE Publish(r) /\ run[r].claimed = <<>>
      BY <1>1, <2>5, LeavingKeepsIInv DEF Publish, Idle
  <2>6. CASE Publish(r) /\ run[r].claimed # <<>>
      BY <1>1, <2>6, PublishKeepsIInv
  <2> QED BY <1>2, <2>1, <2>2, <2>3, <2>4, <2>5, <2>6 DEF RunStep
<1>3. ASSUME NEW r \in Runner, Crash(r)
      PROVE  IInv'
    BY <1>1, <1>3, LeavingKeepsIInv DEF Crash, Idle
<1>4. ASSUME NEW o \in Order, VerbCommits(o) \/ \E verb \in VerbsOn[o] : VerbLocks(o, verb)
      PROVE  IInv'
    BY <1>1, <1>4, VerbsKeepIInv
<1>5. ASSUME UNCHANGED <<day, order, writing, run, sent>>
      PROVE  IInv'
    BY <1>1, <1>5 DEF IInv, ClaimsToday, StampsPast, ClaimsHold, ClaimsDisjoint, Claims, Open,
       OwedAreStamped, EventsBehindStamps, At
<1>6. ASSUME NEW a \in Admin,
             \/ UpsertWrites(a)
             \/ \E k \in Owner, remind \in BOOLEAN, lead \in Leads :
                   UpsertLooks(a, k, [remind |-> remind, lead |-> lead])
      PROVE  IInv'
    BY <1>5, <1>6 DEF UpsertWrites, UpsertLooks
<1>7. CASE Midnight
  <2>1. /\ UNCHANGED <<order, writing, run, sent>> /\ day' = day + 1
        /\ \A r \in Runner : ~At(r, "claim")
      BY <1>7 DEF Midnight
  <2>2. day \in Int /\ \A o \in Order : order[o].stamp \in Int
      BY TypeParts DEF IInv, OrderTypes, OrderRow, Day, Never
  <2>3. ClaimsToday' /\ StampsPast'
      BY <2>1, <2>2 DEF IInv, ClaimsToday, StampsPast, At
  <2> QED BY <1>1, <2>1, <2>3 DEF IInv, ClaimsHold, ClaimsDisjoint, Claims, Open, OwedAreStamped,
             EventsBehindStamps, At
<1>8. CASE UNCHANGED vars
    BY <1>5, <1>8 DEF vars
<1> QED BY <1>2, <1>3, <1>4, <1>6, <1>7, <1>8 DEF Next

LEMMA AlwaysIInv == Spec => []IInv
BY InitEstablishesIInv, StepKeepsIInv, PTL DEF Spec

\* An event that is out finds its day, or a later one, stamped on the order,
\* whatever replicas ran and crashed.
THEOREM EventsFollowStamps == Spec => []EventsBehindStamps
<1>1. IInv => EventsBehindStamps
    BY DEF IInv
<1> QED BY <1>1, AlwaysIInv, PTL

\* No order is stamped that is not open for its reminder when it is stamped.
THEOREM StampsOnlyOpen == Spec => OnlyOpenOrdersStamped
<1> DEFINE Step == \A o \in Order : order'[o].stamp # order[o].stamp =>
                       order[o].purchase /\ ~order[o].acknowledged /\ ~order[o].full
<1>1. ASSUME IInv, [Next]_vars, UNCHANGED order \/ \E o \in Order : VerbCommits(o)
      PROVE  Step
  <2>1. order \in [Order -> OrderRow] /\ writing \in [Order -> Verb \union {"none"}]
      BY <1>1, TypeParts DEF IInv, OrderTypes
  <2>2. ASSUME NEW o \in Order, VerbCommits(o)
        PROVE  Step
    <3>1. writing[o] \in Verb /\ order[o] \in OrderRow
        BY <2>1, <2>2 DEF VerbCommits
    <3>2. Written(writing[o], order[o]).stamp = order[o].stamp
        BY <3>1 DEF Written, OrderRow, Verb
    <3> QED BY <2>1, <2>2, <3>2 DEF VerbCommits
  <2> QED BY <1>1, <2>2
<1>2. ASSUME IInv, NEW r \in Runner, Stamp(r)
      PROVE  Step
  <2>1. At(r, "claim") /\ order \in [Order -> OrderRow]
      BY <1>2, TypeParts DEF Stamp, IInv, OrderTypes
  <2>2. \A o \in Claims(r) : Open(o, run[r].day)
      BY <1>2, <2>1, ClaimsAreClaimed DEF IInv, ClaimsHold
  <2>3. \A o \in Order : o \notin Claims(r) => order'[o] = order[o]
      BY <1>2 DEF Stamp
  <2> QED BY <2>2, <2>3 DEF Open
<1>3. ASSUME [Next]_vars
      PROVE  \/ UNCHANGED order \/ \E o \in Order : VerbCommits(o)
             \/ \E r \in Runner : Stamp(r)
    BY <1>3 DEF Next, RunStep, vars, ReadGate, StartClaim, Claim, Publish, Crash, VerbLocks,
       UpsertWrites, UpsertLooks, Midnight
<1>4. IInv /\ [Next]_vars => [Step]_vars
    BY <1>1, <1>2, <1>3
<1> HIDE DEF Step
<1>5. [][Step]_vars <=> OnlyOpenOrdersStamped
    BY PTL DEF OnlyOpenOrdersStamped, Step
<1> QED BY <1>4, <1>5, AlwaysIInv, PTL DEF Spec

-----------------------------------------------------------------------------
(* The settings rows.                                                      *)

\* The callers that are about to insert a row of k.
Inserting(k) == {a \in Admin : upsert[a] # Idle /\ upsert[a].key = k /\ ~upsert[a].found}

\* Each row of k was inserted by a caller that found none, and so will be each
\* to come: a caller that looks after the first row is there finds it.
RowsAndInserts ==
    \A k \in Owner : Len(settings[k]) + Cardinality(Inserting(k)) <= Cardinality(Admin)

LEMMA InsertingIsFinite ==
    ASSUME NEW k
    PROVE  /\ IsFiniteSet(Inserting(k)) /\ Cardinality(Inserting(k)) \in Nat
           /\ Cardinality(Inserting(k)) <= Cardinality(Admin)
BY ReminderAssumption, FS_Subset, FS_CardinalityType DEF Inserting

\* A write of a caller that found a row keeps their number, another adds one.
LEMMA UpsertWritesRows ==
    ASSUME TypeOK, NEW a \in Admin, UpsertWrites(a)
    PROVE  /\ upsert[a].key \in Owner /\ upsert[a].found \in BOOLEAN
           /\ upsert' = [upsert EXCEPT ![a] = Idle]
           /\ \A k \in Owner : Len(settings'[k]) =
                  IF k = upsert[a].key /\ ~upsert[a].found THEN Len(settings[k]) + 1
                  ELSE Len(settings[k])
<1> DEFINE u == upsert[a]
           old == settings[u.key]
<1>1. /\ settings \in [Owner -> Seq(SettingsRow)]
      /\ u.key \in Owner /\ u.found \in BOOLEAN /\ u.row \in SettingsRow
      /\ upsert' = [upsert EXCEPT ![a] = Idle]
    BY TypeParts DEF SettingsTypes, UpsertWrites, Upsert, Idle
<1>2. old \in Seq(SettingsRow)
    BY <1>1
<1>3. Len([old EXCEPT ![1] = u.row]) = Len(old)
  <2>1. CASE 1 \in 1 .. Len(old)
      BY <1>1, <1>2, <2>1, ExceptSeq
  <2>2. CASE 1 \notin 1 .. Len(old)
    <3>1. 1 \notin DOMAIN old
        BY <1>2, <2>2, LenProperties
    <3>2. [old EXCEPT ![1] = u.row] = old
        BY <1>2, <3>1
    <3> QED BY <3>2
  <2> QED BY <2>1, <2>2
<1>4. Len(Append(old, u.row)) = Len(old) + 1
    BY <1>1, <1>2, AppendProperties
<1> DEFINE new == IF u.found THEN [old EXCEPT ![1] = u.row] ELSE Append(old, u.row)
<1>5. settings' = [settings EXCEPT ![u.key] = new]
    BY DEF UpsertWrites
<1>6. Len(new) = IF u.found THEN Len(old) ELSE Len(old) + 1
    BY <1>3, <1>4
<1> HIDE DEF new
<1> QED BY <1>1, <1>5, <1>6

LEMMA StepKeepsRowsAndInserts ==
    ASSUME TypeOK, RowsAndInserts, [Next]_vars
    PROVE  RowsAndInserts'
<1>1. /\ \A k \in Owner : Len(settings[k]) \in Nat
      /\ upsert \in [Admin -> Upsert]
    BY TypeParts, LenProperties DEF SettingsTypes
<1>2. ASSUME NEW a \in Admin, NEW j \in Owner, NEW row, UpsertLooks(a, j, row)
      PROVE  RowsAndInserts'
  <2>1. /\ UNCHANGED settings /\ upsert[a] = Idle
        /\ upsert' = [upsert EXCEPT ![a] = [at |-> "write", key |-> j, row |-> row,
                                            found |-> settings[j] # <<>>]]
      BY <1>2 DEF UpsertLooks
  <2> SUFFICES ASSUME NEW k \in Owner
               PROVE  Len(settings[k]) + Cardinality(Inserting(k)') <= Cardinality(Admin)
      BY <2>1 DEF RowsAndInserts
  <2>2. CASE k = j /\ settings[j] = <<>>
    <3>1. Inserting(k)' \in SUBSET Admin
        BY DEF Inserting
    <3>2. Cardinality(Inserting(k)') <= Cardinality(Admin) /\ Cardinality(Inserting(k)') \in Nat
        BY <3>1, ReminderAssumption, FS_Subset, FS_CardinalityType
    <3> QED BY <2>2, <3>2
  <2>3. CASE ~(k = j /\ settings[j] = <<>>)
    <3>1. Inserting(k)' = Inserting(k)
        BY <1>1, <2>1, <2>3 DEF Inserting
    <3> QED BY <3>1 DEF RowsAndInserts
  <2> QED BY <2>2, <2>3
<1>3. ASSUME NEW a \in Admin, UpsertWrites(a)
      PROVE  RowsAndInserts'
  <2> SUFFICES ASSUME NEW k \in Owner
               PROVE  Len(settings'[k]) + Cardinality(Inserting(k)') <= Cardinality(Admin)
      BY DEF RowsAndInserts
  <2>1. /\ upsert[a].found \in BOOLEAN
        /\ upsert' = [upsert EXCEPT ![a] = Idle]
        /\ Len(settings'[k]) = IF k = upsert[a].key /\ ~upsert[a].found THEN Len(settings[k]) + 1
                               ELSE Len(settings[k])
      BY <1>3, UpsertWritesRows
  <2>2. Inserting(k)' = Inserting(k) \ {a}
      BY <1>1, <2>1 DEF Inserting
  <2>3. /\ IsFiniteSet(Inserting(k)) /\ Cardinality(Inserting(k)) \in Nat
        /\ Cardinality(Inserting(k) \ {a}) =
               IF a \in Inserting(k) THEN Cardinality(Inserting(k)) - 1
               ELSE Cardinality(Inserting(k))
      BY InsertingIsFinite, FS_RemoveElement
  <2>4. a \in Inserting(k) <=> k = upsert[a].key /\ ~upsert[a].found
      BY <1>3 DEF UpsertWrites, Inserting
  <2>5. Len(settings[k]) + Cardinality(Inserting(k)) <= Cardinality(Admin)
      BY DEF RowsAndInserts
  <2>6. Cardinality(Admin) \in Nat
      BY ReminderAssumption, FS_CardinalityType
  <2> QED BY <1>1, <2>1, <2>2, <2>3, <2>4, <2>5, <2>6
<1>4. ASSUME UNCHANGED <<settings, upsert>>
      PROVE  RowsAndInserts'
    BY <1>4 DEF RowsAndInserts, Inserting
<1>5. \/ \E a \in Admin : UpsertWrites(a)
      \/ \E a \in Admin, k \in Owner, remind \in BOOLEAN, lead \in Leads :
            UpsertLooks(a, k, [remind |-> remind, lead |-> lead])
      \/ UNCHANGED <<settings, upsert>>
    BY DEF Next, RunStep, vars, ReadGate, StartClaim, Claim, Stamp, Publish, Crash, VerbLocks,
       VerbCommits, Midnight
<1> QED BY <1>2, <1>3, <1>4, <1>5

LEMMA InitEstablishesRowsAndInserts == Init => RowsAndInserts
<1> SUFFICES ASSUME Init, NEW k \in Owner
             PROVE  Len(settings[k]) + Cardinality(Inserting(k)) <= Cardinality(Admin)
    BY DEF RowsAndInserts
<1>1. Cardinality(Inserting(k)) = 0
  <2>1. Inserting(k) = {}
      BY DEF Init, Inserting
  <2> QED BY <2>1, FS_EmptySet
<1>2. settings[k] \in {<<>>, <<[remind |-> TRUE, lead |-> 0]>>}
    BY DEF Init
<1>3. Len(settings[k]) = 0 \/ Len(settings[k]) = 1
    BY <1>2
<1>4. Cardinality(Admin) \in Nat /\ Cardinality(Admin) >= 1
    BY ReminderAssumption, FS_CardinalityType, FS_EmptySet
<1>5. CASE Len(settings[k]) = 0
    BY <1>1, <1>4, <1>5
<1>6. CASE Len(settings[k]) = 1
    BY <1>1, <1>4, <1>6
<1> QED BY <1>3, <1>5, <1>6

LEMMA AlwaysRowsAndInserts == Spec => [](TypeOK /\ RowsAndInserts)
<1>1. Init => TypeOK /\ RowsAndInserts
    BY InitHasTypes, InitEstablishesRowsAndInserts
<1>2. (TypeOK /\ RowsAndInserts) /\ [Next]_vars => (TypeOK /\ RowsAndInserts)'
    BY StepKeepsTypes, StepKeepsRowsAndInserts
<1> QED BY <1>1, <1>2, PTL DEF Spec

\* No owner has more settings rows than callers could overlap in its first upsert.
THEOREM FewSettingsRows == Spec => []SettingsBounded
<1>1. TypeOK /\ RowsAndInserts => SettingsBounded
  <2> SUFFICES ASSUME TypeOK, RowsAndInserts, NEW k \in Owner
               PROVE  Len(settings[k]) <= Cardinality(Admin)
      BY DEF SettingsBounded
  <2>1. Len(settings[k]) \in Nat
      BY TypeParts, LenProperties DEF SettingsTypes
  <2>2. Cardinality(Inserting(k)) \in Nat /\ Cardinality(Admin) \in Nat
      BY InsertingIsFinite, ReminderAssumption, FS_CardinalityType
  <2>3. Len(settings[k]) + Cardinality(Inserting(k)) <= Cardinality(Admin)
      BY DEF RowsAndInserts
  <2> QED BY <2>1, <2>2, <2>3
<1> QED BY <1>1, AlwaysRowsAndInserts, PTL

-----------------------------------------------------------------------------
(* Once a day.                                                             *)

\* The places of o on the lists of the runs of day d.
Owed(o, d) == {p \in Runner \X (1 .. Cap) : Owes(p[1], p[2], o, d)}

\* The reminders a supplier's rows make of one order.
Allowed(o) == LET rows == Len(settings[SupplierOf[o]]) IN IF rows = 0 THEN 1 ELSE rows

\* A claim joins with rows that are still there when it goes on.
SeenStays ==
    \A r \in Runner : At(r, "claim") =>
        \A s \in Supplier : Len(run[r].seen[s]) <= Len(settings[s])

\* What is left to publish was within the cap.
OwedWithinCap == \A r \in Runner : At(r, "publish") => Len(run[r].claimed) <= Cap

WithinAllowed ==
    \A o \in Order, d \in Day : sent[o][d] + Cardinality(Owed(o, d)) <= Allowed(o)

RInv == IInv /\ SeenStays /\ OwedWithinCap /\ RemindedOncePerDay

LEMMA OwedIsFinite ==
    ASSUME NEW o, NEW d
    PROVE  /\ IsFiniteSet(Owed(o, d)) /\ Cardinality(Owed(o, d)) \in Nat
           /\ IsFiniteSet(Owed(o, d)')
           /\ Reminders(o, d) = sent[o][d] + Cardinality(Owed(o, d))
<1>1. IsFiniteSet(Runner) /\ IsFiniteSet(1 .. Cap)
    BY ReminderAssumption, FS_Interval
<1>2. IsFiniteSet(Runner \X (1 .. Cap))
    BY <1>1, FS_Product
<1>3. /\ Owed(o, d) \in SUBSET (Runner \X (1 .. Cap))
      /\ Owed(o, d)' \in SUBSET (Runner \X (1 .. Cap))
    BY DEF Owed
<1>4. IsFiniteSet(Owed(o, d)) /\ IsFiniteSet(Owed(o, d)')
    BY <1>2, <1>3, FS_Subset
<1> QED BY <1>4, FS_CardinalityType DEF Reminders, Owed

LEMMA OnceIsWithinAllowed == RemindedOncePerDay <=> WithinAllowed
BY OwedIsFinite DEF RemindedOncePerDay, WithinAllowed, Allowed

LEMMA NextOnceIsWithinAllowed == RemindedOncePerDay' <=> WithinAllowed'
BY OnceIsWithinAllowed, PTL

\* Fewer reminders, and as many rows or more.
LEMMA FewerAreWithinAllowed ==
    ASSUME TypeOK, TypeOK', RemindedOncePerDay, NEW o \in Order, NEW d \in Day,
           Len(settings'[SupplierOf[o]]) >= Len(settings[SupplierOf[o]]),
           sent'[o][d] + Cardinality(Owed(o, d)') <= sent[o][d] + Cardinality(Owed(o, d))
    PROVE  sent'[o][d] + Cardinality(Owed(o, d)') <= Allowed(o)'
<1> DEFINE s == SupplierOf[o]
<1>1. s \in Owner
    BY ReminderAssumption DEF Owner
<1>2. settings[s] \in Seq(SettingsRow) /\ settings'[s] \in Seq(SettingsRow)
    BY <1>1, TypeParts, NextTypeParts DEF SettingsTypes
<1>3. Len(settings[s]) \in Nat /\ Len(settings'[s]) \in Nat
    BY <1>2, LenProperties
<1>4. Allowed(o) \in Nat /\ Allowed(o)' \in Nat /\ Allowed(o) <= Allowed(o)'
    BY <1>3 DEF Allowed
<1>5. /\ sent[o][d] \in Nat /\ sent'[o][d] \in Nat
      /\ Cardinality(Owed(o, d)) \in Nat /\ Cardinality(Owed(o, d)') \in Nat
    BY TypeParts, NextTypeParts, OwedIsFinite, FS_CardinalityType DEF SentTypes
<1>6. sent[o][d] + Cardinality(Owed(o, d)) <= Allowed(o)
    BY OnceIsWithinAllowed DEF WithinAllowed
<1> QED BY <1>4, <1>5, <1>6

LEMMA SettingsGrow ==
    ASSUME TypeOK, [Next]_vars, NEW k \in Owner
    PROVE  /\ Len(settings[k]) \in Nat /\ Len(settings'[k]) \in Nat
           /\ Len(settings'[k]) >= Len(settings[k])
<1>1. Len(settings[k]) \in Nat
    BY TypeParts, LenProperties DEF SettingsTypes
<1>2. (\E a \in Admin : UpsertWrites(a)) \/ UNCHANGED settings
    BY DEF Next, RunStep, vars, ReadGate, StartClaim, Claim, Stamp, Publish, Crash, VerbLocks,
       VerbCommits, UpsertLooks, Midnight
<1>3. CASE UNCHANGED settings
    BY <1>1, <1>3
<1>4. ASSUME NEW a \in Admin, UpsertWrites(a)
      PROVE  /\ Len(settings'[k]) \in Nat
             /\ Len(settings'[k]) >= Len(settings[k])
    BY <1>1, <1>4, UpsertWritesRows
<1> QED BY <1>1, <1>2, <1>3, <1>4

LEMMA StepKeepsSeenStays ==
    ASSUME TypeOK, SeenStays, [Next]_vars
    PROVE  SeenStays'
<1>1. run \in [Runner -> Run]
    BY TypeParts DEF RunTypes
<1>2. SUFFICES ASSUME NEW r \in Runner, run'[r].at = "claim", NEW s \in Supplier
               PROVE  Len(run'[r].seen[s]) <= Len(settings'[s])
    BY DEF SeenStays, At
<1>3. s \in Owner /\ Len(settings[s]) \in Nat /\ Len(settings'[s]) \in Nat
      /\ Len(settings'[s]) >= Len(settings[s])
    BY SettingsGrow DEF Owner
<1>4. ASSUME run[r].at = "claim", run'[r].seen = run[r].seen
      PROVE  Len(run'[r].seen[s]) <= Len(settings'[s])
  <2>1. Len(run[r].seen[s]) \in Nat
    <3>1. run[r].seen[s] \in Seq(SettingsRow)
        BY <1>4, ClaimHasShape, TypeParts DEF At, ClaimRun
    <3> QED BY <3>1, LenProperties
  <2>2. Len(run[r].seen[s]) <= Len(settings[s])
      BY <1>4 DEF SeenStays, At
  <2> QED BY <1>3, <1>4, <2>1, <2>2
<1>5. CASE UNCHANGED run
    BY <1>2, <1>4, <1>5
<1>6. ASSUME NEW q \in Runner, RunStep(q) \/ Crash(q)
      PROVE  Len(run'[r].seen[s]) <= Len(settings'[s])
  <2>1. CASE q # r
    <3>1. run'[r] = run[r]
        BY <1>1, <1>6, <2>1 DEF RunStep, ReadGate, StartClaim, Claim, Stamp, Publish, Crash, Goto
    <3> QED BY <1>2, <1>4, <3>1
  <2>2. CASE q = r /\ StartClaim(r)
    <3>1. run'[r].seen = [x \in Supplier |-> settings[x]]
        BY <1>1, <2>2 DEF StartClaim, Goto
    <3>2. run'[r].seen[s] = settings[s]
        BY <3>1
    <3> QED BY <1>3, <3>2
  <2>3. CASE q = r /\ \E o \in Order : Claim(r, o)
    <3>1. PICK o \in Order : Claim(r, o)
        BY <2>3
    <3>2. run[r].at = "claim"
        BY <3>1 DEF Claim, At
    <3>3. run[r] \in ClaimRun
        BY <3>2, ClaimHasShape, TypeParts DEF At
    <3> DEFINE more == [i \in 1 .. Taken(r, o) |-> o]
    <3>4. run'[r] = [run[r] EXCEPT !.due = @ \ {o}, !.claimed = @ \o more]
        BY <1>1, <3>1 DEF Claim, Goto
    <3> HIDE DEF more
    <3>5. run'[r].seen = run[r].seen
        BY <3>3, <3>4 DEF ClaimRun
    <3> QED BY <1>4, <3>2, <3>5
  <2>4. CASE q = r /\ (ReadGate(r) \/ Stamp(r) \/ Crash(r) \/ (Publish(r) /\ run[r].claimed = <<>>))
      BY <1>1, <1>2, <2>4 DEF ReadGate, Stamp, Crash, Publish, Goto, Idle
  <2>5. CASE q = r /\ Publish(r) /\ run[r].claimed # <<>>
    <3>1. run[r].at = "publish" /\ run[r] \in PublishRun
        BY <2>5, PublishHasShape, TypeParts DEF Publish, At
    <3>2. run'[r].at = "publish"
        BY <1>1, <2>5, <3>1 DEF Publish, Goto, PublishRun
    <3> QED BY <1>2, <3>2
  <2> QED BY <1>6, <2>1, <2>2, <2>3, <2>4, <2>5 DEF RunStep
<1>7. UNCHANGED run \/ \E q \in Runner : RunStep(q) \/ Crash(q)
    BY DEF Next, vars, VerbLocks, VerbCommits, UpsertWrites, UpsertLooks, Midnight
<1> QED BY <1>5, <1>6, <1>7

\* A step that adds nothing to the lists of the runs adds no reminder.
LEMMA NothingOwedAnew ==
    ASSUME IInv, RemindedOncePerDay, TypeOK', [Next]_vars, UNCHANGED sent,
           \A r \in Runner : \A i \in DOMAIN run'[r].claimed :
               run'[r].at \in {"claim", "publish"} =>
                   /\ run[r].at \in {"claim", "publish"} /\ run[r].day = run'[r].day
                   /\ i \in DOMAIN run[r].claimed /\ run[r].claimed[i] = run'[r].claimed[i]
    PROVE  RemindedOncePerDay'
<1> SUFFICES ASSUME NEW o \in Order, NEW d \in Day
             PROVE  sent'[o][d] + Cardinality(Owed(o, d)') <= Allowed(o)'
    BY NextOnceIsWithinAllowed DEF WithinAllowed
<1>1. Owed(o, d)' \in SUBSET Owed(o, d)
    BY DEF Owed, Owes
<1>2. /\ Cardinality(Owed(o, d)') <= Cardinality(Owed(o, d))
      /\ Cardinality(Owed(o, d)) \in Nat /\ Cardinality(Owed(o, d)') \in Nat
    BY <1>1, OwedIsFinite, FS_Subset, FS_CardinalityType
<1>3. sent[o][d] \in Nat
    BY TypeParts DEF IInv, SentTypes
<1>4. SupplierOf[o] \in Owner
    BY ReminderAssumption DEF Owner
<1>5. sent'[o][d] + Cardinality(Owed(o, d)') <= sent[o][d] + Cardinality(Owed(o, d))
    BY <1>2, <1>3
<1> QED BY <1>4, <1>5, SettingsGrow, FewerAreWithinAllowed DEF IInv

\* A claim takes an order that has no reminder of the day yet, once a joined row.
LEMMA ClaimKeepsOnce ==
    ASSUME RInv, TypeOK', NEW r \in Runner, NEW o \in Order, Claim(r, o)
    PROVE  RemindedOncePerDay'
<1> DEFINE old == run[r].claimed
           new == run'[r].claimed
           n == Len(old)
           t == Taken(r, o)
<1>1. /\ TypeOK /\ [Next]_vars /\ RemindedOncePerDay
      /\ UNCHANGED <<order, sent, settings>>
    BY DEF RInv, IInv, Claim, Next, RunStep
<1>2. /\ t \in Nat /\ t <= Rows(r, o) /\ run'[r] \in ClaimRun
      /\ run' = [run EXCEPT ![r] = run'[r]]
      /\ \A s \in Runner \ {r} : run'[s] = run[s]
      /\ run'[r].day = run[r].day
      /\ Len(new) = n + t /\ Len(new) <= Cap
      /\ \A i \in 1 .. Len(new) : new[i] = IF i <= n THEN old[i] ELSE o
    BY <1>1, ClaimAppends
<1>3. run[r].at = "claim" /\ run'[r].at = "claim" /\ o \in run[r].due
    BY <1>2 DEF Claim, At, ClaimRun
<1>4. /\ n \in Nat /\ DOMAIN old = 1 .. n /\ DOMAIN new = 1 .. n + t
      /\ run[r].day \in Day
    BY <1>1, <1>2, <1>3, ClaimedAreOrders, LenProperties DEF At, ClaimRun
<1>0. PICK today \in Day : today = run[r].day
    BY <1>4
<1> HIDE DEF t, n, new, old
<1>5. ASSUME NEW p \in Order, NEW d \in Day, p # o \/ d # today \/ t = 0
      PROVE  Owed(p, d)' \in SUBSET Owed(p, d)
  <2> SUFFICES ASSUME NEW s \in Runner, NEW i \in 1 .. Cap, Owes(s, i, p, d)'
               PROVE  Owes(s, i, p, d)
      BY DEF Owed
  <2>1. CASE s # r
      BY <1>2, <2>1 DEF Owes
  <2>2. CASE s = r
    <3>1. i \in 1 .. n + t /\ new[i] = p /\ d = today
        BY <1>0, <1>2, <1>4, <2>2 DEF Owes, new
    <3>2. i <= n /\ new[i] = old[i]
        BY <1>2, <1>4, <1>5, <3>1
    <3> QED BY <1>0, <1>3, <1>4, <2>2, <3>1, <3>2 DEF Owes, old
  <2> QED BY <2>1, <2>2
<1>6. ASSUME NEW p \in Order, NEW d \in Day, p # o \/ d # today \/ t = 0
      PROVE  sent'[p][d] + Cardinality(Owed(p, d)') <= Allowed(p)'
  <2>1. /\ Cardinality(Owed(p, d)') <= Cardinality(Owed(p, d))
        /\ Cardinality(Owed(p, d)) \in Nat /\ Cardinality(Owed(p, d)') \in Nat
      BY <1>5, <1>6, OwedIsFinite, FS_Subset, FS_CardinalityType
  <2>2. sent'[p][d] = sent[p][d] /\ sent[p][d] \in Nat
      BY <1>1, TypeParts DEF SentTypes
  <2>3. sent'[p][d] + Cardinality(Owed(p, d)') <= sent[p][d] + Cardinality(Owed(p, d))
      BY <2>1, <2>2
  <2>4. SupplierOf[p] \in Owner
      BY ReminderAssumption DEF Owner
  <2> QED BY <1>1, <2>3, <2>4, SettingsGrow, FewerAreWithinAllowed
<1>7. ASSUME t # 0
      PROVE  sent'[o][today] + Cardinality(Owed(o, today)') <= Allowed(o)'
  <2>1. FreeFor(r, o) /\ order[o].stamp # today /\ today = day
      BY <1>0, <1>3, <1>7 DEF t, Taken, Open, RInv, IInv, ClaimsToday, At
  <2>2. ~(order[o].stamp >= today)
    <3>1. order[o].stamp \in Int /\ order[o].stamp <= day /\ day \in Int
        BY <1>1, TypeParts DEF RInv, IInv, StampsPast, OrderTypes, OrderRow, Day, Never
    <3> QED BY <2>1, <3>1
  <2>3. sent'[o][today] = 0
    <3>1. sent'[o][today] = sent[o][today] /\ sent[o][today] \in Nat
        BY <1>1, <1>4, TypeParts DEF SentTypes
    <3>2. ~(sent[o][today] > 0)
        BY <1>4, <2>2 DEF RInv, IInv, EventsBehindStamps
    <3> QED BY <3>1, <3>2
  <2>4. Owed(o, today)' \in SUBSET ({r} \X (n + 1 .. n + t))
    <3> SUFFICES ASSUME NEW s \in Runner, NEW i \in 1 .. Cap, Owes(s, i, o, today)'
                 PROVE  s = r /\ i \in n + 1 .. n + t
        BY DEF Owed
    <3>1. s = r
      <4> SUFFICES ASSUME s # r PROVE FALSE
          OBVIOUS
      <4>1. Owes(s, i, o, today)
          BY <1>2 DEF Owes
      <4>2. CASE run[s].at = "claim"
        <5>1. o \in Claims(s)
            BY <4>1, <4>2, ClaimsAreClaimed DEF Owes, At
        <5> QED BY <2>1, <5>1 DEF FreeFor
      <4>3. CASE run[s].at = "publish"
        <5>1. order[o].stamp >= today
            BY <4>1, <4>3 DEF Owes, RInv, IInv, OwedAreStamped, At
        <5> QED BY <2>2, <5>1
      <4> QED BY <4>1, <4>2, <4>3 DEF Owes
    <3>2. i \in 1 .. n + t /\ new[i] = o
        BY <1>4, <3>1 DEF Owes, new
    <3>3. ~(i <= n)
      <4> SUFFICES ASSUME i <= n PROVE FALSE
          OBVIOUS
      <4>1. i \in DOMAIN old /\ old[i] = o
          BY <1>2, <1>4, <3>2
      <4> QED BY <1>3, <4>1 DEF old, RInv, IInv, ClaimsHold, At
    <3> QED BY <1>2, <1>4, <3>1, <3>2, <3>3
  <2>5. Cardinality(Owed(o, today)') <= t
    <3>1. /\ IsFiniteSet(n + 1 .. n + t) /\ Cardinality(n + 1 .. n + t) = t
      <4>1. /\ IsFiniteSet(n + 1 .. n + t)
            /\ Cardinality(n + 1 .. n + t) =
                   IF n + 1 > n + t THEN 0 ELSE n + t - (n + 1) + 1
          BY <1>2, <1>4, FS_Interval
      <4> QED BY <1>2, <1>4, <4>1
    <3>2. IsFiniteSet({r}) /\ Cardinality({r}) = 1
        BY FS_Singleton
    <3>3. /\ IsFiniteSet({r} \X (n + 1 .. n + t))
          /\ Cardinality({r} \X (n + 1 .. n + t)) = 1 * t
        BY <3>1, <3>2, FS_Product
    <3> QED BY <1>2, <2>4, <3>3, FS_Subset
  <2>6. t <= Allowed(o)'
    <3> DEFINE s == SupplierOf[o]
    <3>1. s \in Supplier /\ s \in Owner
        BY ReminderAssumption DEF Owner
    <3>2. run[r].seen[s] \in Seq(SettingsRow)
        BY <1>1, <1>3, <3>1, ClaimHasShape, TypeParts DEF At, ClaimRun
    <3>3. Len(run[r].seen[s]) \in Nat /\ Len(settings[s]) \in Nat
        BY <1>1, <3>1, <3>2, LenProperties, SettingsGrow
    <3>4. Len(run[r].seen[s]) <= Len(settings[s])
        BY <1>3, <3>1 DEF RInv, SeenStays, At
    <3>5. Rows(r, o) \in Nat /\ Rows(r, o) <= Len(Joined(run[r].seen, s))
        BY <1>1, <1>3, RowsAreFew DEF At
    <3>6. Len(Joined(run[r].seen, s)) =
              IF run[r].seen[s] = <<>> THEN 1 ELSE Len(run[r].seen[s])
        BY DEF Joined
    <3>7. run[r].seen[s] # <<>> => Len(run[r].seen[s]) # 0
        BY <3>2, EmptySeq
    <3>8. Allowed(o)' = IF Len(settings[s]) = 0 THEN 1 ELSE Len(settings[s])
        BY <1>1 DEF Allowed
    <3> HIDE DEF s
    <3> QED BY <1>2, <3>3, <3>4, <3>5, <3>6, <3>7, <3>8
  <2>7. Cardinality(Owed(o, today)') \in Nat
      BY OwedIsFinite, FS_CardinalityType
  <2>8. Allowed(o)' \in Nat
    <3>1. SupplierOf[o] \in Owner
        BY ReminderAssumption DEF Owner
    <3>2. Len(settings'[SupplierOf[o]]) \in Nat
        BY <1>1, <3>1, SettingsGrow
    <3> QED BY <3>2 DEF Allowed
  <2> QED BY <1>2, <2>3, <2>5, <2>6, <2>7, <2>8
<1>8. WithinAllowed'
    BY <1>6, <1>7 DEF WithinAllowed
<1> QED BY <1>8, NextOnceIsWithinAllowed

\* An event that is out was one that was owed.
LEMMA PublishKeepsOnce ==
    ASSUME RInv, TypeOK', NEW r \in Runner, Publish(r), run[r].claimed # <<>>
    PROVE  RemindedOncePerDay'
<1> DEFINE owed == run[r].claimed
           new == run'[r].claimed
<1>1. /\ TypeOK /\ [Next]_vars /\ RemindedOncePerDay /\ UNCHANGED settings
    BY DEF RInv, IInv, Publish, Next, RunStep
<1>2. /\ run \in [Runner -> Run] /\ sent \in [Order -> [Day -> Nat]]
      /\ run[r].at = "publish" /\ run[r] \in PublishRun /\ Len(owed) <= Cap
    BY <1>1, TypeParts, PublishHasShape DEF RInv, RunTypes, SentTypes, Publish, At, OwedWithinCap
<1>3. owed \in Seq(Order) /\ owed # <<>>
    BY <1>2 DEF PublishRun
<1>4. PICK today \in Day : today = run[r].day
    BY <1>2 DEF PublishRun
<1>5. PICK h \in Order : h = Head(owed)
    BY <1>3, HeadTailProperties
<1>6. /\ run'[r].at = "publish" /\ run'[r].day = today /\ new = Tail(owed)
      /\ \A s \in Runner : s # r => run'[s] = run[s]
      /\ sent' = [sent EXCEPT ![h][today] = @ + 1]
    BY <1>2, <1>4, <1>5 DEF Publish, Goto, PublishRun
<1>7. /\ 1 \in DOMAIN owed /\ owed[1] = h
      /\ \A i \in DOMAIN new : i \in Nat \ {0} /\ i + 1 \in DOMAIN owed /\ new[i] = owed[i + 1]
      /\ \A i \in DOMAIN owed : i \in 1 .. Cap
  <2>1. Len(owed) \in Nat \ {0} /\ DOMAIN owed = 1 .. Len(owed)
      BY <1>3, EmptySeq, LenProperties
  <2>2. /\ Tail(owed) \in Seq(Order) /\ Len(Tail(owed)) = Len(owed) - 1
        /\ \A i \in 1 .. Len(Tail(owed)) : Tail(owed)[i] = owed[i + 1]
        /\ Head(owed) = owed[1]
      BY <1>3, HeadTailProperties
  <2>3. DOMAIN new = 1 .. Len(owed) - 1
      BY <1>6, <2>2, LenProperties
  <2>4. 1 \in DOMAIN owed /\ owed[1] = h
      BY <1>5, <2>1, <2>2
  <2>5. ASSUME NEW i \in DOMAIN owed
        PROVE  i \in 1 .. Cap
      BY <1>2, <2>1, ReminderAssumption
  <2>6. ASSUME NEW i \in DOMAIN new
        PROVE  i \in Nat \ {0} /\ i + 1 \in DOMAIN owed /\ new[i] = owed[i + 1]
    <3>1. i \in 1 .. Len(owed) - 1 /\ i \in 1 .. Len(Tail(owed))
        BY <2>2, <2>3
    <3>2. new[i] = owed[i + 1]
        BY <1>6, <2>2, <3>1
    <3> QED BY <2>1, <3>1, <3>2
  <2> QED BY <2>4, <2>5, <2>6
<1> HIDE DEF owed, new
<1> SUFFICES ASSUME NEW o \in Order, NEW d \in Day
             PROVE  sent'[o][d] + Cardinality(Owed(o, d)') <= Allowed(o)'
    BY NextOnceIsWithinAllowed DEF WithinAllowed
<1> DEFINE Before == Owed(o, d) \ (IF o = h /\ d = today THEN {<<r, 1>>} ELSE {})
           After == Owed(o, d)'
           Place == [p \in After |-> IF p[1] = r THEN <<r, p[2] + 1>> ELSE p]
<1>8. Place \in Injection(After, Before)
  <2>1. ASSUME NEW p \in After
        PROVE  Place[p] \in Before
    <3>1. p \in Runner \X (1 .. Cap) /\ Owes(p[1], p[2], o, d)'
        BY DEF Owed
    <3>2. p = <<p[1], p[2]>> /\ p[1] \in Runner /\ p[2] \in 1 .. Cap
        BY <3>1
    <3>3. CASE p[1] # r
      <4>1. Owes(p[1], p[2], o, d)
          BY <1>6, <3>1, <3>2, <3>3 DEF Owes
      <4>2. p \in Owed(o, d) /\ p # <<r, 1>>
          BY <3>1, <3>3, <4>1 DEF Owed
      <4> QED BY <3>3, <4>2
    <3>4. CASE p[1] = r
      <4>1. p[2] \in DOMAIN new /\ new[p[2]] = o /\ d = today
          BY <1>6, <3>1, <3>4 DEF Owes, new
      <4>2. p[2] + 1 \in DOMAIN owed /\ owed[p[2] + 1] = o /\ p[2] + 1 \in 1 .. Cap /\ p[2] \in Nat \ {0}
          BY <1>7, <4>1
      <4>3. Owes(r, p[2] + 1, o, d)
          BY <1>2, <1>4, <4>1, <4>2 DEF Owes, owed
      <4>4. <<r, p[2] + 1>> \in Owed(o, d) /\ <<r, p[2] + 1>> # <<r, 1>>
          BY <4>2, <4>3 DEF Owed
      <4> QED BY <3>4, <4>4
    <3> QED BY <3>3, <3>4
  <2>2. ASSUME NEW p \in After, NEW q \in After, Place[p] = Place[q]
        PROVE  p = q
    <3>1. /\ p = <<p[1], p[2]>> /\ p[2] \in Int
          /\ q = <<q[1], q[2]>> /\ q[2] \in Int
        BY DEF Owed
    <3> QED BY <2>2, <3>1
  <2> HIDE DEF After, Before
  <2>3. Place \in [After -> Before]
      BY <2>1
  <2>4. DOMAIN Place = After
      OBVIOUS
  <2> HIDE DEF Place
  <2> QED BY <2>2, <2>3, <2>4 DEF Injection, IsInjective
<1>9. /\ IsFiniteSet(Owed(o, d)) /\ IsFiniteSet(After)
      /\ Cardinality(Owed(o, d)) \in Nat /\ Cardinality(After) \in Nat
    BY OwedIsFinite, FS_CardinalityType
<1>10. sent[o][d] \in Nat
    BY <1>2
<1>11. sent'[o][d] + Cardinality(After) <= sent[o][d] + Cardinality(Owed(o, d))
  <2>1. CASE o = h /\ d = today
    <3>1. <<r, 1>> \in Owed(o, d)
      <4>1. Owes(r, 1, o, d) /\ 1 \in 1 .. Cap
          BY <1>2, <1>4, <1>7, <2>1 DEF Owes, owed
      <4> QED BY <4>1 DEF Owed
    <3>2. IsFiniteSet(Before) /\ Cardinality(Before) = Cardinality(Owed(o, d)) - 1
        BY <1>9, <2>1, <3>1, FS_RemoveElement
    <3>3. Cardinality(After) <= Cardinality(Before)
      <4> HIDE DEF After, Before, Place
      <4> QED BY <1>8, <3>2, FS_Injection
    <3>4. sent'[o][d] = sent[o][d] + 1
        BY <1>2, <1>6, <2>1
    <3> QED BY <1>9, <1>10, <3>2, <3>3, <3>4
  <2>2. CASE ~(o = h /\ d = today)
    <3>1. IsFiniteSet(Before) /\ Cardinality(Before) = Cardinality(Owed(o, d))
        BY <1>9, <2>2
    <3>2. Cardinality(After) <= Cardinality(Before)
      <4> HIDE DEF After, Before, Place
      <4> QED BY <1>8, <3>1, FS_Injection
    <3>3. sent'[o][d] = sent[o][d]
        BY <1>2, <1>6, <2>2
    <3> QED BY <1>9, <1>10, <3>1, <3>2, <3>3
  <2> QED BY <2>1, <2>2
<1>12. SupplierOf[o] \in Owner
    BY ReminderAssumption DEF Owner
<1> QED BY <1>1, <1>11, <1>12, SettingsGrow, FewerAreWithinAllowed

LEMMA StepKeepsOwedWithinCap ==
    ASSUME TypeOK, OwedWithinCap, [Next]_vars
    PROVE  OwedWithinCap'
<1>1. run \in [Runner -> Run] /\ WithinCap
    BY TypeParts DEF RunTypes
<1>2. ASSUME NEW r \in Runner, NEW next, Goto(r, next),
             next.at = "publish" => Len(next.claimed) <= Cap
      PROVE  OwedWithinCap'
    BY <1>1, <1>2 DEF OwedWithinCap, Goto, At
<1>3. ASSUME NEW r \in Runner, RunStep(r) \/ Crash(r)
      PROVE  OwedWithinCap'
  <2>1. CASE ReadGate(r) \/ StartClaim(r) \/ Crash(r) \/ (Publish(r) /\ run[r].claimed = <<>>)
      BY <1>2, <2>1 DEF ReadGate, StartClaim, Crash, Publish, Idle
  <2>2. ASSUME NEW o \in Order, Claim(r, o)
        PROVE  OwedWithinCap'
    <3>1. run'[r] \in ClaimRun /\ \A s \in Runner \ {r} : run'[s] = run[s]
        BY <2>2, ClaimAppends
    <3>2. run'[r].at = "claim"
        BY <3>1 DEF ClaimRun
    <3> QED BY <3>1, <3>2 DEF OwedWithinCap, At
  <2>3. CASE Stamp(r)
      BY <1>1, <1>2, <2>3 DEF Stamp, WithinCap
  <2>4. CASE Publish(r) /\ run[r].claimed # <<>>
    <3>1. run[r] \in PublishRun /\ Len(run[r].claimed) <= Cap
        BY <2>4, PublishHasShape, TypeParts DEF Publish, OwedWithinCap
    <3>2. /\ Len(Tail(run[r].claimed)) = Len(run[r].claimed) - 1
          /\ Len(run[r].claimed) \in Nat
        BY <2>4, <3>1, HeadTailProperties, LenProperties DEF PublishRun
    <3> DEFINE next == [run[r] EXCEPT !.claimed = Tail(@)]
    <3>3. Len(next.claimed) <= Cap
        BY <3>1, <3>2, ReminderAssumption DEF PublishRun
    <3>4. Goto(r, next)
        BY <2>4 DEF Publish
    <3> HIDE DEF next
    <3> QED BY <1>2, <3>3, <3>4
  <2> QED BY <1>3, <2>1, <2>2, <2>3, <2>4 DEF RunStep
<1>4. CASE UNCHANGED run
    BY <1>4 DEF OwedWithinCap, At
<1>5. UNCHANGED run \/ \E r \in Runner : RunStep(r) \/ Crash(r)
    BY DEF Next, vars, VerbLocks, VerbCommits, UpsertWrites, UpsertLooks, Midnight
<1> QED BY <1>3, <1>4, <1>5

LEMMA StepKeepsRInv ==
    ASSUME RInv, [Next]_vars
    PROVE  RInv'
<1>1. IInv /\ IInv' /\ TypeOK /\ TypeOK' /\ SeenStays' /\ OwedWithinCap'
    BY StepKeepsIInv, StepKeepsSeenStays, StepKeepsOwedWithinCap DEF RInv, IInv
<1>2. run \in [Runner -> Run]
    BY <1>1, TypeParts DEF RunTypes
<1>3. ASSUME NEW r \in Runner, RunStep(r) \/ Crash(r)
      PROVE  RemindedOncePerDay'
  <2>1. CASE \E o \in Order : Claim(r, o)
      BY <1>1, <2>1, ClaimKeepsOnce
  <2>2. CASE Publish(r) /\ run[r].claimed # <<>>
      BY <1>1, <2>2, PublishKeepsOnce
  <2>3. CASE ReadGate(r) \/ StartClaim(r) \/ Stamp(r) \/ Crash(r)
             \/ (Publish(r) /\ run[r].claimed = <<>>)
    <3>1. UNCHANGED sent
        BY <2>3 DEF ReadGate, StartClaim, Stamp, Crash, Publish
    <3>2. \A s \in Runner : s # r => run'[s] = run[s]
        BY <1>2, <2>3 DEF ReadGate, StartClaim, Stamp, Crash, Publish, Goto
    <3>3. \/ run'[r].at \notin {"claim", "publish"}
          \/ DOMAIN run'[r].claimed = {}
          \/ /\ run[r].at = "claim" /\ run'[r].at = "publish"
             /\ run[r].day = run'[r].day /\ run[r].claimed = run'[r].claimed
        BY <1>2, <2>3 DEF ReadGate, StartClaim, Stamp, Crash, Publish, Goto, Idle, At
    <3>4. \A s \in Runner : \A i \in DOMAIN run'[s].claimed :
              run'[s].at \in {"claim", "publish"} =>
                  /\ run[s].at \in {"claim", "publish"} /\ run[s].day = run'[s].day
                  /\ i \in DOMAIN run[s].claimed /\ run[s].claimed[i] = run'[s].claimed[i]
        BY <3>2, <3>3
    <3> QED BY <1>1, <3>1, <3>4, NothingOwedAnew DEF RInv
  <2> QED BY <1>3, <2>1, <2>2, <2>3 DEF RunStep
<1>4. CASE UNCHANGED <<run, sent>>
    BY <1>1, <1>4, NothingOwedAnew DEF RInv
<1>5. UNCHANGED <<run, sent>> \/ \E r \in Runner : RunStep(r) \/ Crash(r)
    BY DEF Next, vars, VerbLocks, VerbCommits, UpsertWrites, UpsertLooks, Midnight
<1> QED BY <1>1, <1>3, <1>4, <1>5 DEF RInv

LEMMA InitEstablishesRInv == Init => RInv
<1> SUFFICES ASSUME Init PROVE RInv
    OBVIOUS
<1>1. IInv /\ TypeOK
    BY InitEstablishesIInv, InitHasTypes
<1>2. SeenStays /\ OwedWithinCap
    BY DEF Init, SeenStays, OwedWithinCap, At, Idle
<1>3. ASSUME NEW o \in Order, NEW d \in Day
      PROVE  sent[o][d] + Cardinality(Owed(o, d)) <= Allowed(o)
  <2>1. Owed(o, d) = {} /\ sent[o][d] = 0
      BY DEF Init, Owed, Owes, Idle
  <2>2. Cardinality(Owed(o, d)) = 0
      BY <2>1, FS_EmptySet
  <2>3. SupplierOf[o] \in Owner
      BY ReminderAssumption DEF Owner
  <2>4. Len(settings[SupplierOf[o]]) \in Nat
      BY <1>1, <2>3, TypeParts, LenProperties DEF SettingsTypes
  <2>5. Allowed(o) \in Nat
      BY <2>4 DEF Allowed
  <2> QED BY <2>1, <2>2, <2>5
<1>4. RemindedOncePerDay
    BY <1>3, OnceIsWithinAllowed DEF WithinAllowed
<1> QED BY <1>1, <1>2, <1>4 DEF RInv

\* Replicas that overlap, crash and start over remind of an order once a day for
\* each settings row of its supplier, and once where there is one row or none.
THEOREM OncePerDay == Spec => []RemindedOncePerDay
<1>1. RInv => RemindedOncePerDay
    BY DEF RInv
<1> QED BY <1>1, InitEstablishesRInv, StepKeepsRInv, PTL DEF Spec
=============================================================================
