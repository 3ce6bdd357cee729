---------------------------- MODULE FefoAllocation ----------------------------
(***************************************************************************)
(* The allocation loop of reserveSalesOrderItem, one iteration per step,   *)
(* for a line of a batch-tracked product that names no batch.  The query   *)
(* returns the eligible batches in the order they expire, rows locked.     *)
(***************************************************************************)
EXTENDS Fefo, Sequences, FiniteSets

CONSTANTS
  Candidates,   \* number of eligible batches
  MaxStock,     \* bound: stock of a batch
  MaxWanted     \* bound: baseQuantity of the line

ASSUME AllocationAssumption ==
  Candidates \in Nat /\ MaxStock \in Nat /\ MaxWanted \in Nat

VARIABLES
  stock,        \* AVAILABLE baseQuantity of each batch
  wanted,       \* baseQuantity of the line
  next,         \* the candidate of this iteration
  remaining,    \* remainingBase
  allocations,  \* what each batch contributes so far
  outcome       \* "checking", "allocating", "done" or "refused"

\* The batches, numbered in the order they expire.
Positions == 1..Candidates

allocationVars == <<stock, wanted, next, remaining, allocations, outcome>>

AllocationInit ==
  /\ stock \in [Positions -> 0..MaxStock]
  /\ wanted \in 1..MaxWanted
  /\ next = 1
  /\ remaining = wanted
  /\ allocations = [p \in Positions |-> 0]
  /\ outcome = "checking"

TotalAvailable == SumFunction(stock)

\* INSUFFICIENT_STOCK before anything is allocated.
Check ==
  /\ outcome = "checking"
  /\ outcome' = IF TotalAvailable < wanted THEN "refused" ELSE "allocating"
  /\ UNCHANGED <<stock, wanted, next, remaining, allocations>>

Lesser(a, b) == IF a < b THEN a ELSE b

\* Mutant: every candidate is charged the whole line.
AllocateFromWanted ==
  /\ outcome = "allocating" /\ next \in Positions /\ remaining > 0
  /\ LET allocated == Lesser(wanted, stock[next]) IN
       /\ allocations' = [allocations EXCEPT ![next] = allocated]
       /\ remaining' = remaining - allocated
  /\ next' = next + 1
  /\ UNCHANGED <<stock, wanted, outcome>>

\* One iteration: as much of the rest as the batch holds.  The query leaves
\* out a batch without stock, which an iteration with nothing to take equals.
Allocate ==
  /\ outcome = "allocating" /\ next \in Positions /\ remaining > 0
  /\ LET allocated == Lesser(remaining, stock[next]) IN
       /\ allocations' = [allocations EXCEPT ![next] = allocated]
       /\ remaining' = remaining - allocated
  /\ next' = next + 1
  /\ UNCHANGED <<stock, wanted, outcome>>

\* The loop ends when nothing remains or no candidate is left.
LoopEnds ==
  /\ outcome = "allocating"
  /\ next \notin Positions \/ remaining <= 0
  /\ outcome' = "done"
  /\ UNCHANGED <<stock, wanted, next, remaining, allocations>>

AllocationNext == Check \/ Allocate \/ LoopEnds

AllocationSpec == AllocationInit /\ [][AllocationNext]_allocationVars

-----------------------------------------------------------------------------

\* What the loop returns is the first-expired-first-out allocation of the
\* whole line (the code does not check after the loop that nothing remains),
\* and only a line the eligible batches cannot cover is refused.
AllocatesFefo ==
  /\ outcome = "done" => IsFefoAllocation(stock, [p \in Positions |-> p], wanted, allocations)
  /\ outcome = "refused" => TotalAvailable < wanted

\* Why: before an iteration, what was allocated and what remains make up the
\* line; the batches passed so far are empty, as long as something remains,
\* and the others untouched.  The batches hold the line, so the loop does not
\* run out of them first.
LoopInv ==
  /\ stock \in [Positions -> Nat] /\ wanted \in Nat
  /\ next \in 1..(Candidates + 1) /\ remaining \in Nat
  /\ allocations \in [Positions -> Nat]
  /\ outcome \in {"checking", "allocating", "done", "refused"}
  /\ remaining + SumFunction(allocations) = wanted
  /\ \A p \in Positions :
       /\ allocations[p] <= stock[p]
       /\ p >= next => allocations[p] = 0
       /\ p < next /\ remaining > 0 => allocations[p] = stock[p]
  /\ \A early, late \in Positions :
       early < late /\ allocations[late] > 0 => allocations[early] = stock[early]
  /\ outcome = "refused" => TotalAvailable < wanted
  /\ outcome \in {"allocating", "done"} => TotalAvailable >= wanted
  /\ outcome = "done" => remaining = 0
=============================================================================
