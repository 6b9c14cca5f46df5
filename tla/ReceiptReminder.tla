--------------------------- MODULE ReceiptReminder ---------------------------
(***************************************************************************)
(* The daily receipt reminder: replicas of send_receipt_reminder sweep the *)
(* orders at the same time, while verbs write the orders and the settings  *)
(* are upserted.  A run reads the settings gate, claims due orders row by  *)
(* row in one transaction (FOR UPDATE SKIP LOCKED), stamps them, commits,  *)
(* and publishes one event per claimed row afterwards.                     *)
(*                                                                         *)
(* The table of company settings and that of supplier overrides are        *)
(* written by the same upsert, and modelled as one function of their keys. *)
(***************************************************************************)
EXTENDS Integers, Sequences, FiniteSets, Functions

CONSTANTS
    Runner, Admin,      \* replicas of the job, callers who upsert settings
    Order, Supplier,
    SupplierOf,         \* SupplierOf[o] : the supplier of an order
    Schedule,           \* Schedule[o] : the day its goods are due
    Leads,              \* reminder_days_before, as upserts set it
    VerbsOn,            \* VerbsOn[o] : the statements that write the order
    Cap,                \* REMINDER_CLAIM_CAP
    LastDay, MaxUpserts \* bounds

Company == "company"
Owner == Supplier \union {Company}
Day == 1 .. LastDay
Never == 0
Verb == {"confirm", "reset", "acknowledge", "receive", "return", "touch"}

ASSUME ReminderAssumption ==
    /\ Company \notin Supplier
    /\ SupplierOf \in [Order -> Supplier]
    /\ Schedule \in [Order -> Int]
    /\ Leads \subseteq Nat
    /\ VerbsOn \in [Order -> SUBSET Verb]
    /\ IsFiniteSet(Runner) /\ IsFiniteSet(Admin) /\ Admin # {}
    /\ Cap \in Nat \ {0} /\ LastDay \in Nat \ {0} /\ MaxUpserts \in Nat

VARIABLES
    day,        \* CURRENT_DATE
    order,      \* order[o] : the columns the claim looks at
    writing,    \* writing[o] : the verb whose statement holds the row, or "none"
    settings,   \* settings[k] : the live rows of k, the oldest first
    upsert,     \* upsert[a] : the upsert caller a has a snapshot for
    upserts,    \* how many there were
    run,        \* run[r] : where runner r is
    sent        \* sent[o][d] : events published for o by runs of day d

vars == <<day, order, writing, settings, upsert, upserts, run, sent>>

OrderRow == [purchase : BOOLEAN, acknowledged : BOOLEAN, full : BOOLEAN, stamp : {Never} \union Day]
SettingsRow == [remind : BOOLEAN, lead : Nat]
Idle == [at |-> "idle"]
Run ==
    {Idle, [at |-> "gated"]}
    \union [at : {"claim"}, day : Day, seen : [Supplier -> Seq(SettingsRow)],
            due : SUBSET Order, claimed : Seq(Order)]
    \union [at : {"publish"}, day : Day, claimed : Seq(Order)]
Upsert == {Idle} \union [at : {"write"}, key : Owner, found : BOOLEAN, row : SettingsRow]

\* The rows a run holds.
Claims(r) == IF run[r].at = "claim" THEN Range(run[r].claimed) ELSE {}

\* No run claims more than the cap.
TypeOK ==
    /\ day \in Day
    /\ order \in [Order -> OrderRow]
    /\ writing \in [Order -> Verb \union {"none"}]
    /\ settings \in [Owner -> Seq(SettingsRow)]
    /\ upsert \in [Admin -> Upsert] /\ upserts \in 0 .. MaxUpserts
    /\ run \in [Runner -> Run]
    /\ \A r \in Runner : Claims(r) # {} => Len(run[r].claimed) <= Cap
    /\ sent \in [Order -> [Day -> Nat]]

Init ==
    /\ day = 1
    /\ order = [o \in Order |-> [purchase |-> TRUE, acknowledged |-> FALSE, full |-> FALSE,
                                 stamp |-> Never]]
    /\ writing = [o \in Order |-> "none"]
    /\ \E company \in {<<>>, <<[remind |-> TRUE, lead |-> 0]>>} :
          settings = [k \in Owner |-> IF k = Company THEN company ELSE <<>>]
    /\ upsert = [a \in Admin |-> Idle] /\ upserts = 0
    /\ run = [r \in Runner |-> Idle]
    /\ sent = [o \in Order |-> [d \in Day |-> 0]]

-----------------------------------------------------------------------------
(* The claim.                                                              *)

\* Plausible bug: SKIP LOCKED is left out, and rows are taken whoever has them.
FreeAnyway(r, o) == TRUE

FreeFor(r, o) == writing[o] = "none" /\ \A other \in Runner \ {r} : o \notin Claims(other)

\* The rows the LEFT JOIN pairs a supplier with; without one, the defaults.
Joined(seen, s) == IF seen[s] = <<>> THEN <<[remind |-> TRUE, lead |-> 1]>> ELSE seen[s]

Matching(seen, d, o) ==
    {i \in DOMAIN Joined(seen, SupplierOf[o]) :
        LET row == Joined(seen, SupplierOf[o])[i] IN row.remind /\ Schedule[o] - row.lead = d}

\* Plausible bug: the stamp is not looked at.
OpenWhateverStamp(o, d) ==
    order[o].purchase /\ ~order[o].acknowledged /\ ~order[o].full

\* The columns of the order itself let it be reminded on day d.
Open(o, d) ==
    /\ order[o].purchase /\ ~order[o].acknowledged /\ ~order[o].full
    /\ order[o].stamp # d

At(r, place) == run[r].at = place
Goto(r, next) == run' = [run EXCEPT ![r] = next]

\* No settings row, or reminders off: the run ends silently.  The read has no
\* order, so with several rows it may return any of them.
ReadGate(r) ==
    /\ At(r, "idle")
    /\ \E i \in DOMAIN settings[Company] : settings[Company][i].remind
    /\ Goto(r, [at |-> "gated"])
    /\ UNCHANGED <<day, order, writing, settings, upsert, upserts, sent>>

\* The statement sees the orders and settings committed when it starts.
StartClaim(r) ==
    /\ At(r, "gated")
    /\ LET seen == [s \in Supplier |-> settings[s]] IN
       Goto(r, [at |-> "claim", day |-> day, seen |-> seen,
                due |-> {o \in Order : Open(o, day) /\ Matching(seen, day, o) # {}},
                claimed |-> <<>>])
    /\ UNCHANGED <<day, order, writing, settings, upsert, upserts, sent>>

\* The rows of the join an order is in, and how many of them a claim takes that
\* locks it and checks it again as it is now.  Locked orders are skipped.
Rows(r, o) == Cardinality(Matching(run[r].seen, run[r].day, o))

\* Plausible bug: the cap counts orders that fit, not rows.
TakenUncapped(r, o) ==
    IF FreeFor(r, o) /\ Open(o, run[r].day) THEN Rows(r, o) ELSE 0

Taken(r, o) ==
    LET room == Cap - Len(run[r].claimed) IN
    IF FreeFor(r, o) /\ Open(o, run[r].day)
    THEN IF Rows(r, o) < room THEN Rows(r, o) ELSE room
    ELSE 0

\* It goes from row to row, up to the cap.
Claim(r, o) ==
    /\ At(r, "claim") /\ o \in run[r].due /\ Len(run[r].claimed) < Cap
    /\ Goto(r, [run[r] EXCEPT !.due = @ \ {o},
                               !.claimed = @ \o [i \in 1 .. Taken(r, o) |-> o]])
    /\ UNCHANGED <<day, order, writing, settings, upsert, upserts, sent>>

\* Plausible bug: the events are published from inside of the transaction.
StampAfterPublish(r) ==
    /\ At(r, "claim") /\ (run[r].due = {} \/ Len(run[r].claimed) = Cap)
    /\ Goto(r, [at |-> "publish", day |-> run[r].day, claimed |-> run[r].claimed])
    /\ UNCHANGED <<day, order, writing, settings, upsert, upserts, sent>>

\* Every claimed row is stamped and the transaction committed.  Nobody saw the
\* stamps before, nor could write the rows.
Stamp(r) ==
    /\ At(r, "claim") /\ (run[r].due = {} \/ Len(run[r].claimed) = Cap)
    /\ order' = [o \in Order |->
                    IF o \in Claims(r) THEN [order[o] EXCEPT !.stamp = run[r].day] ELSE order[o]]
    /\ Goto(r, [at |-> "publish", day |-> run[r].day, claimed |-> run[r].claimed])
    /\ UNCHANGED <<day, writing, settings, upsert, upserts, sent>>

\* One event per claimed row, one after the other.
Publish(r) ==
    /\ At(r, "publish")
    /\ IF run[r].claimed = <<>>
       THEN Goto(r, Idle) /\ UNCHANGED sent
       ELSE /\ Goto(r, [run[r] EXCEPT !.claimed = Tail(@)])
            /\ sent' = [sent EXCEPT ![Head(run[r].claimed)][run[r].day] = @ + 1]
    /\ UNCHANGED <<day, order, writing, settings, upsert, upserts>>

\* The process dies: an open transaction is rolled back, unpublished events are
\* lost.
Crash(r) ==
    /\ ~At(r, "idle")
    /\ Goto(r, Idle)
    /\ UNCHANGED <<day, order, writing, settings, upsert, upserts, sent>>

-----------------------------------------------------------------------------
(* Who else writes.                                                        *)

\* The WHERE of a verb's statement.  A line added to the order, for one, locks
\* the row and changes nothing the claim looks at.
Applies(verb, o) ==
    CASE verb = "confirm" -> ~order[o].purchase
      [] verb = "touch" -> TRUE
      [] OTHER -> order[o].purchase

Written(verb, row) ==
    CASE verb = "confirm" -> [row EXCEPT !.purchase = TRUE]
      [] verb = "reset" -> [row EXCEPT !.purchase = FALSE]
      [] verb = "acknowledge" -> [row EXCEPT !.acknowledged = TRUE]
      [] verb = "receive" -> [row EXCEPT !.full = TRUE]
      [] verb = "return" -> [row EXCEPT !.full = FALSE]
      [] verb = "touch" -> row

\* A statement takes the row lock, waiting for whoever has it ...
VerbLocks(o, verb) ==
    /\ writing[o] = "none" /\ \A r \in Runner : o \notin Claims(r)
    /\ Applies(verb, o)
    /\ writing' = [writing EXCEPT ![o] = verb]
    /\ UNCHANGED <<day, order, settings, upsert, upserts, run, sent>>

\* ... and commits.
VerbCommits(o) ==
    /\ writing[o] # "none"
    /\ order' = [order EXCEPT ![o] = Written(writing[o], @)]
    /\ writing' = [writing EXCEPT ![o] = "none"]
    /\ UNCHANGED <<day, settings, upsert, upserts, run, sent>>

\* An upsert looks for the oldest live row in its snapshot ...
UpsertLooks(a, k, row) ==
    /\ upsert[a] = Idle /\ upserts < MaxUpserts
    /\ upsert' = [upsert EXCEPT ![a] = [at |-> "write", key |-> k, row |-> row,
                                        found |-> settings[k] # <<>>]]
    /\ upserts' = upserts + 1
    /\ UNCHANGED <<day, order, writing, settings, run, sent>>

\* Plausible bug: the row is inserted whether one was found or not.
UpsertAlwaysInserts(a) ==
    /\ upsert[a] # Idle
    /\ settings' = [settings EXCEPT ![upsert[a].key] = Append(@, upsert[a].row)]
    /\ upsert' = [upsert EXCEPT ![a] = Idle]
    /\ UNCHANGED <<day, order, writing, upserts, run, sent>>

\* ... and updates it, or inserts one.  No unique index stops a second row.
UpsertWrites(a) ==
    /\ upsert[a] # Idle
    /\ LET u == upsert[a] IN
       settings' = [settings EXCEPT ![u.key] =
                       IF u.found THEN [@ EXCEPT ![1] = u.row] ELSE Append(@, u.row)]
    /\ upsert' = [upsert EXCEPT ![a] = Idle]
    /\ UNCHANGED <<day, order, writing, upserts, run, sent>>

\* The job runs in the morning: a claim is over by midnight.
Midnight ==
    /\ day < LastDay
    /\ \A r \in Runner : ~At(r, "claim")
    /\ day' = day + 1
    /\ UNCHANGED <<order, writing, settings, upsert, upserts, run, sent>>

RunStep(r) ==
    ReadGate(r) \/ StartClaim(r) \/ (\E o \in Order : Claim(r, o)) \/ Stamp(r) \/ Publish(r)

Next ==
    \/ \E r \in Runner : RunStep(r) \/ Crash(r)
    \/ \E o \in Order : VerbCommits(o) \/ \E verb \in VerbsOn[o] : VerbLocks(o, verb)
    \/ \E a \in Admin :
          \/ UpsertWrites(a)
          \/ \E k \in Owner, remind \in BOOLEAN, lead \in Leads :
                UpsertLooks(a, k, [remind |-> remind, lead |-> lead])
    \/ Midnight

Spec == Init /\ [][Next]_vars

-----------------------------------------------------------------------------
(* Properties.                                                             *)

\* No event is ahead of its durable stamp: whoever was sent a reminder of a day
\* finds that day, or a later one, on the order, whatever crashed since (the
\* publish strictly after the commit).
EventsBehindStamps ==
    \A o \in Order, d \in Day : sent[o][d] > 0 => order[o].stamp >= d

\* Replica r is to publish its ith event for o on day d, or will when it commits.
Owes(r, i, o, d) ==
    /\ run[r].at \in {"claim", "publish"} /\ run[r].day = d
    /\ i \in DOMAIN run[r].claimed /\ run[r].claimed[i] = o

\* Events of o that are out or on their way for day d.
Reminders(o, d) ==
    sent[o][d] + Cardinality({p \in Runner \X (1 .. Cap) : Owes(p[1], p[2], o, d)})

\* However many replicas sweep, overlap, crash and start over, an order is
\* reminded at most once a day per settings row of its supplier: once, where
\* the one-row shape holds (the stamp and the pickup lock).
RemindedOncePerDay ==
    \A o \in Order, d \in Day :
        LET rows == Len(settings[SupplierOf[o]]) IN
        Reminders(o, d) <= (IF rows = 0 THEN 1 ELSE rows)

\* An order is stamped only while it is in purchase, unacknowledged and not
\* fully received, although verbs ran since the claim's snapshot (the recheck
\* under the lock).
OnlyOpenOrdersStamped ==
    [][\A o \in Order : order'[o].stamp # order[o].stamp =>
          order[o].purchase /\ ~order[o].acknowledged /\ ~order[o].full]_vars

\* A supplier, or the company, has at most as many settings rows as callers can
\* overlap in its first upsert (update-else-insert without a unique index).
SettingsBounded == \A k \in Owner : Len(settings[k]) <= Cardinality(Admin)

\* Every stamp was announced, unless its run still has to (delivery may repeat
\* across runs, the reminder effect happens once per day).  Does not hold, and no
\* run checks it: the process may die between the commit and the publish.
StampedIsReminded ==
    \A o \in Order :
        order[o].stamp # Never => Reminders(o, order[o].stamp) > 0
=============================================================================
