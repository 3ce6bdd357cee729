------------------------------ MODULE BatchExpiry ------------------------------
(***************************************************************************)
(* Taking expired batches off sale: the scan that flags what expires, and  *)
(* the expiry page on which staff block a batch or mark an event actioned. *)
(* A scan reads the batches once and then goes through them without a      *)
(* lock, beside other scans and beside the page.                           *)
(***************************************************************************)
EXTENDS Integers, FiniteSets

CONSTANTS
  Batches,
  Places,      \* <<batch, location>>: where a batch has stock all along
  Scanners,    \* who may press Scan
  MaxEdits     \* how often a batch's status is set by hand

ASSUME ExpiryAssumption ==
  /\ \A place \in Places : place[1] \in Batches
  /\ MaxEdits \in Nat

\* For the count of events: scans are pressed by so many people at once.
ASSUME FinitelyManyScanners == IsFiniteSet(Scanners)

VARIABLES
  life,         \* life[b]: how far batch b is from its expiry date
  batchStatus,  \* batchStatus[b]
  open,         \* open[p]: the events of place p that nobody has acted upon
  scan,         \* scan[s]: how far s's scan has come
  edits

expiryVars == <<life, batchStatus, open, scan, edits>>

Scanless == [at |-> "idle"]

ExpiryInit ==
  /\ life = [b \in Batches |-> "fresh"]
  /\ batchStatus = [b \in Batches |-> "ACTIVE"]
  /\ open = [p \in Places |-> 0]
  /\ scan = [s \in Scanners |-> Scanless]
  /\ edits = 0

\* Time: the batch comes within sixty days of its date, and then past it.
Age(b) ==
  /\ life[b] # "over"
  /\ life' = [life EXCEPT ![b] = IF life[b] = "fresh" THEN "near" ELSE "over"]
  /\ UNCHANGED <<batchStatus, open, scan, edits>>

\* Mutant: the window begins today.
DueLater(b) == batchStatus[b] = "ACTIVE" /\ life[b] = "near"

\* What a scan reads: active batches whose date is within the window or past.
Due(b) == batchStatus[b] = "ACTIVE" /\ life[b] \in {"near", "over"}

\* It remembers the rows it read and which of them were past their date.
StartScan(s) ==
  /\ scan[s] = Scanless
  /\ scan' = [scan EXCEPT ![s] =
       [at |-> "loop", todo |-> {<<p, life[p[1]] = "over">> : p \in {q \in Places : Due(q[1])}}]]
  /\ UNCHANGED <<life, batchStatus, open, edits>>

\* A row with an event nobody acted upon is left alone.
CheckRow(s) ==
  /\ scan[s].at = "loop"
  /\ \E row \in scan[s].todo :
       LET rest == scan[s].todo \ {row}
       IN scan' = [scan EXCEPT ![s] =
            IF open[row[1]] > 0 THEN [at |-> "loop", todo |-> rest] ELSE [at |-> "flag", row |-> row, todo |-> rest]]
  /\ UNCHANGED <<life, batchStatus, open, edits>>

\* Otherwise the event is created, whatever was created since.
FlagRow(s) ==
  /\ scan[s].at = "flag"
  /\ open' = [open EXCEPT ![scan[s].row[1]] = @ + 1]
  /\ scan' = [scan EXCEPT ![s] =
       IF scan[s].row[2] THEN [at |-> "expire", row |-> scan[s].row] ELSE [at |-> "loop", todo |-> scan[s].todo]]
  /\ UNCHANGED <<life, batchStatus, edits>>

\* The batch is taken off sale; its audit entry names a user that does not
\* exist, so that the scan ends here with an error.
ExpireBatch(s) ==
  /\ scan[s].at = "expire"
  /\ batchStatus' = [batchStatus EXCEPT ![scan[s].row[1][1]] = "EXPIRED"]
  /\ scan' = [scan EXCEPT ![s] = Scanless]
  /\ UNCHANGED <<life, open, edits>>

EndScan(s) ==
  /\ scan[s] = [at |-> "loop", todo |-> {}]
  /\ scan' = [scan EXCEPT ![s] = Scanless]
  /\ UNCHANGED <<life, batchStatus, open, edits>>

\* The page offers both for an event nobody acted upon; blocking asks nothing of
\* the batch, which may be off sale already.
MarkActedUpon(p) ==
  /\ open[p] > 0
  /\ open' = [open EXCEPT ![p] = @ - 1]
  /\ UNCHANGED <<life, batchStatus, scan, edits>>

BlockBatch(p) ==
  /\ open[p] > 0
  /\ batchStatus' = [batchStatus EXCEPT ![p[1]] = "BLOCKED"]
  /\ UNCHANGED <<life, open, scan, edits>>

\* PATCH /catalog/batches/:id: the status is whatever is asked for.
UpdateBatch(b) ==
  /\ edits < MaxEdits
  /\ \E to \in {"ACTIVE", "BLOCKED", "EXPIRED"} : batchStatus' = [batchStatus EXCEPT ![b] = to]
  /\ edits' = edits + 1
  /\ UNCHANGED <<life, open, scan>>

ScanStep(s) == StartScan(s) \/ CheckRow(s) \/ FlagRow(s) \/ ExpireBatch(s) \/ EndScan(s)

ExpiryNext ==
  \/ \E b \in Batches : Age(b) \/ UpdateBatch(b)
  \/ \E p \in Places : MarkActedUpon(p) \/ BlockBatch(p)
  \/ \E s \in Scanners : ScanStep(s)

\* Scan is pressed again and again, its handler goes on, and every event on the
\* page is marked some day; blocking is never owed.
ExpiryFairness ==
  /\ \A s \in Scanners : WF_expiryVars(ScanStep(s))
  /\ \A p \in Places : WF_expiryVars(MarkActedUpon(p))

-----------------------------------------------------------------------------
(* Properties.                                                             *)

\* In the end no batch past its date is on sale, although a scan leaves alone
\* what is flagged already and stops at the first batch it takes off.
ExpiredComesOffSale ==
  <>[](\A p \in Places : life[p[1]] = "over" => batchStatus[p[1]] # "ACTIVE")

\* Those about to create an event for place p, having found none.
Flagging(p) == {s \in Scanners : scan[s].at = "flag" /\ scan[s].row[1] = p}

\* Scans that find no event each create one, but never more than they are: a
\* lone scan leaves at most one event of a place that nobody acted upon
\* ("Skips batches already flagged", ExpiryService.scanExpiringBatches).
EventsMeetByRace == \A p \in Places : open[p] <= Cardinality(Scanners)

\* Only a hand takes off sale as EXPIRED what is not past its date, however
\* old the rows are that a scan goes through.
ExpiredIsOver ==
  edits = 0 => \A b \in Batches : batchStatus[b] = "EXPIRED" => life[b] = "over"

-----------------------------------------------------------------------------
(* What makes them inductive: a scan that is about to flag a place counts  *)
(* as its event, and what a scan remembers as past its date is.            *)

ScanRows == Places \X BOOLEAN

ScanType ==
  {Scanless}
    \cup [at : {"loop"}, todo : SUBSET ScanRows]
    \cup [at : {"flag"}, row : ScanRows, todo : SUBSET ScanRows]
    \cup [at : {"expire"}, row : ScanRows]

ExpiryTypeOK ==
  /\ life \in [Batches -> {"fresh", "near", "over"}]
  /\ batchStatus \in [Batches -> {"ACTIVE", "BLOCKED", "EXPIRED"}]
  /\ open \in [Places -> Nat]
  /\ scan \in [Scanners -> ScanType]
  /\ edits \in Nat

IsOver(row) == row[2] => life[row[1][1]] = "over"

RemembersTruly(q) ==
  /\ q.at \in {"loop", "flag"} => \A row \in q.todo : IsOver(row)
  /\ q.at = "flag" => IsOver(q.row)
  /\ q.at = "expire" => life[q.row[1][1]] = "over"

ScansRemember == \A s \in Scanners : RemembersTruly(scan[s])

EventsAreScanned == \A p \in Places : open[p] + Cardinality(Flagging(p)) <= Cardinality(Scanners)

ExpiryInv == ExpiryTypeOK /\ ScansRemember /\ EventsAreScanned /\ ExpiredIsOver
===============================================================================
