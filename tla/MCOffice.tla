-------------------------------- MODULE MCOffice --------------------------------
(* The office: staff on one document, or one form, or the expiry page, or the  *)
(* credit limit of a retailer, or the cash sessions of a branch.               *)
EXTENDS Desk, NewDocument, BatchExpiry, CreditLimits, CashSessions, TLC

CONSTANTS u1, u2, b1, b2, l1

Company == {<<"company", "all">>}

Keeper == Seat({"WAREHOUSE_MANAGER"}, {<<"warehouse", "home">>})

MCTeams ==
  {(u1 :> a @@ u2 :> b) :
     <<a, b>> \in
       {<<Seat({"ADMIN"}, Company), Seat({"ADMIN"}, Company)>>,
        <<Seat({"BRANCH_MANAGER"}, {<<"branch", "home">>}), Keeper>>,
        <<Seat({"SUPER_ADMIN"}, Company), Seat({"WAREHOUSE_MANAGER"}, {<<"branch", "away">>})>>,
        <<Seat({"ADMIN"}, {<<"branch", "home">>, <<"branch", "away">>}), Seat({"STORE_STAFF"}, {<<"branch", "home">>})>>,
        <<Seat({"BRANCH_MANAGER", "WAREHOUSE_MANAGER"}, {<<"branch", "home">>}), Keeper>>}}

MCPlaces == {<<b1, l1>>, <<b2, l1>>}

\* A part nobody is at: a state none of its actions leaves.
NobodyAtDesk ==
  /\ kind = "purchase" /\ status = "CANCELLED"
  /\ team = (u1 :> Seat({"STORE_STAFF"}, {}) @@ u2 :> Seat({"STORE_STAFF"}, {}))
  /\ view = [u \in Users |-> None] /\ call = [u \in Users |-> Idle]
  /\ hands = [approve |-> None, post |-> None]

NoForm ==
  /\ form = "partner" /\ page = "left" /\ presses = << >>
  /\ filed = 0 /\ lost = 0 /\ undone = 0

NoBatches ==
  /\ life = [b \in Batches |-> "over"] /\ batchStatus = [b \in Batches |-> "EXPIRED"]
  /\ open = [p \in Places |-> 0]
  /\ scan = [s \in Scanners |-> [at |-> "away"]]
  /\ edits = MaxEdits

\* Expiry: one scan beside a status set by hand, or all scans and no such hand.
ExpiryStart ==
  /\ life = [b \in Batches |-> "fresh"] /\ batchStatus = [b \in Batches |-> "ACTIVE"]
  /\ open = [p \in Places |-> 0]
  /\ \/ scan = [s \in Scanners |-> IF s = u1 THEN Scanless ELSE [at |-> "away"]] /\ edits = 0
     \/ scan = [s \in Scanners |-> Scanless] /\ edits = MaxEdits

NoCredit ==
  /\ limit = MaxLimit
  /\ approval = [r \in Increases |-> "REJECTED"] /\ newLimit = [r \in Increases |-> MaxLimit]
  /\ decision = [d \in Deciders |-> Undecided]

NoCash ==
  /\ session = [s \in Sessions |-> "CLOSED"] /\ unseen = [s \in Sessions |-> {}]
  /\ closing = [c \in Clerks |-> NoSession]

Init ==
  \/ DeskInit /\ NoForm /\ NoBatches /\ NoCredit /\ NoCash
  \/ NobodyAtDesk /\ FormInit /\ NoBatches /\ NoCredit /\ NoCash
  \/ NobodyAtDesk /\ NoForm /\ ExpiryStart /\ NoCredit /\ NoCash
  \/ NobodyAtDesk /\ NoForm /\ NoBatches /\ CreditInit /\ NoCash
  \/ NobodyAtDesk /\ NoForm /\ NoBatches /\ NoCredit /\ CashInit

Next ==
  \/ DeskNext /\ UNCHANGED <<formVars, expiryVars, creditVars, cashVars>>
  \/ FormNext /\ UNCHANGED <<deskVars, expiryVars, creditVars, cashVars>>
  \/ ExpiryNext /\ UNCHANGED <<deskVars, formVars, creditVars, cashVars>>
  \/ CreditNext /\ UNCHANGED <<deskVars, formVars, expiryVars, cashVars>>
  \/ CashNext /\ UNCHANGED <<deskVars, formVars, expiryVars, creditVars>>

vars == <<deskVars, formVars, expiryVars, creditVars, cashVars>>

Spec == Init /\ [][Next]_vars /\ DeskFairness /\ ExpiryFairness
===============================================================================
