------------------------------ MODULE CreditLimits ------------------------------
(***************************************************************************)
(* The credit limit of one retailer: requests to raise it, and the staff   *)
(* who approve or reject them. A request compares with a limit it read     *)
(* before, a decision with a status it read before; neither takes a lock.  *)
(***************************************************************************)
EXTENDS Integers

CONSTANTS
  Increases,   \* the calls that ask for a higher limit
  Deciders,    \* the calls that approve or reject
  StartLimit,
  MaxLimit     \* the highest limit anybody asks for

ASSUME CreditAssumption == StartLimit \in Nat /\ MaxLimit \in Nat

VARIABLES
  limit,      \* the limit the order check reads
  approval,   \* approval[r]: the status of request r
  newLimit,   \* newLimit[r]: what r asks for
  decision    \* decision[d]: what decider d has in hand

creditVars == <<limit, approval, newLimit, decision>>

Limits == 0 .. MaxLimit

Undecided == [does |-> "nothing"]

CreditInit ==
  /\ limit = StartLimit
  /\ approval = [r \in Increases |-> "unasked"]
  /\ newLimit = [r \in Increases |-> 0]
  /\ decision = [d \in Deciders |-> Undecided]

\* Mutant: a request may ask for any limit.
RequestAny(r) ==
  /\ approval[r] = "unasked"
  /\ \E l \in Limits : newLimit' = [newLimit EXCEPT ![r] = l]
  /\ approval' = [approval EXCEPT ![r] = "asking"]
  /\ UNCHANGED <<limit, decision>>

\* A request asks for more than the limit it reads.
RequestIncrease(r) ==
  /\ approval[r] = "unasked"
  /\ \E l \in Limits : l > limit /\ newLimit' = [newLimit EXCEPT ![r] = l]
  /\ approval' = [approval EXCEPT ![r] = "asking"]
  /\ UNCHANGED <<limit, decision>>

CreateRequest(r) ==
  /\ approval[r] = "asking"
  /\ approval' = [approval EXCEPT ![r] = "PENDING"]
  /\ UNCHANGED <<limit, newLimit, decision>>

\* Both decisions read the request first; nothing claims it.
TakeUp(d, r) ==
  /\ decision[d] = Undecided /\ approval[r] = "PENDING"
  /\ \E verb \in {"approve", "reject"} : decision' = [decision EXCEPT ![d] = [does |-> verb, request |-> r]]
  /\ UNCHANGED <<limit, approval, newLimit>>

\* One transaction writes the limit the request asks for and its status.
ApproveRequest(d) ==
  /\ decision[d].does = "approve"
  /\ limit' = newLimit[decision[d].request]
  /\ approval' = [approval EXCEPT ![decision[d].request] = "APPROVED"]
  /\ decision' = [decision EXCEPT ![d] = Undecided]
  /\ UNCHANGED newLimit

RejectRequest(d) ==
  /\ decision[d].does = "reject"
  /\ approval' = [approval EXCEPT ![decision[d].request] = "REJECTED"]
  /\ decision' = [decision EXCEPT ![d] = Undecided]
  /\ UNCHANGED <<limit, newLimit>>

\* The handler dies between its read and its write.
DropDecision(d) ==
  /\ decision[d] # Undecided
  /\ decision' = [decision EXCEPT ![d] = Undecided]
  /\ UNCHANGED <<limit, approval, newLimit>>

CreditNext ==
  \/ \E r \in Increases : RequestIncrease(r) \/ CreateRequest(r)
  \/ \E d \in Deciders, r \in Increases : TakeUp(d, r)
  \/ \E d \in Deciders : ApproveRequest(d) \/ RejectRequest(d) \/ DropDecision(d)

CreditSpec == CreditInit /\ [][CreditNext]_creditVars

-----------------------------------------------------------------------------
(* Properties.                                                             *)

\* The limit is the first one or what a decided request asked for, and no race
\* of requests and decisions leaves it below the first one. It may fall: the
\* older of two requests can be approved last.
LimitWasGranted ==
  /\ limit >= StartLimit
  /\ limit # StartLimit => \E r \in Increases : approval[r] \in {"APPROVED", "REJECTED"} /\ newLimit[r] = limit

-----------------------------------------------------------------------------
(* The inductive invariant of FinanceProofs: a limit asked for is above the *)
(* first one, and a decision is about a request that was made.              *)

Made == {"PENDING", "APPROVED", "REJECTED"}

CreditTypeOK ==
  /\ limit \in Nat
  /\ approval \in [Increases -> {"unasked", "asking"} \cup Made]
  /\ newLimit \in [Increases -> Nat]
  /\ decision \in [Deciders -> {Undecided} \cup [does : {"approve", "reject"}, request : Increases]]

AskedAboveStart == \A r \in Increases : approval[r] # "unasked" => newLimit[r] > StartLimit

DecidesWhatWasMade ==
  \A d \in Deciders : decision[d] # Undecided => approval[decision[d].request] \in Made

CreditInv == CreditTypeOK /\ AskedAboveStart /\ DecidesWhatWasMade /\ LimitWasGranted
===============================================================================
