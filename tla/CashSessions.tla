------------------------------ MODULE CashSessions ------------------------------
(***************************************************************************)
(* The cash sessions of one branch. Opening looks for an open session and  *)
(* then creates one; closing reads that the session is open and then       *)
(* closes it. Nothing else keeps two sessions of a branch apart.           *)
(***************************************************************************)

CONSTANTS
  Sessions,    \* one for every call that opens a session
  Clerks,      \* the calls that close one
  NoSession

ASSUME CashAssumption == NoSession \notin Sessions

VARIABLES
  session,    \* session[s]: the status of s, "none" before it and "opening" once looked for
  unseen,     \* history: unseen[s], the sessions created while s was being opened
  closing     \* closing[c]: the session clerk c found open

cashVars == <<session, unseen, closing>>

CashInit ==
  /\ session = [s \in Sessions |-> "none"]
  /\ unseen = [s \in Sessions |-> {}]
  /\ closing = [c \in Clerks |-> NoSession]

\* Mutant: opening does not look.
OpenBlindly(s) ==
  /\ session[s] = "none"
  /\ session' = [session EXCEPT ![s] = "opening"]
  /\ UNCHANGED <<unseen, closing>>

LookForOpen(s) ==
  /\ session[s] = "none"
  /\ \A t \in Sessions : session[t] # "OPEN"
  /\ session' = [session EXCEPT ![s] = "opening"]
  /\ UNCHANGED <<unseen, closing>>

CreateSession(s) ==
  /\ session[s] = "opening"
  /\ session' = [session EXCEPT ![s] = "OPEN"]
  /\ unseen' = [t \in Sessions |-> IF t # s /\ session[t] = "opening" THEN unseen[t] \union {s} ELSE unseen[t]]
  /\ UNCHANGED closing

FindOpen(c, s) ==
  /\ closing[c] = NoSession /\ session[s] = "OPEN"
  /\ closing' = [closing EXCEPT ![c] = s]
  /\ UNCHANGED <<session, unseen>>

\* A second closing overwrites the first: counts and variance are the last's.
CloseSession(c) ==
  /\ closing[c] # NoSession
  /\ session' = [session EXCEPT ![closing[c]] = "CLOSED"]
  /\ closing' = [closing EXCEPT ![c] = NoSession]
  /\ UNCHANGED unseen

CashNext ==
  \/ \E s \in Sessions : LookForOpen(s) \/ CreateSession(s)
  \/ \E c \in Clerks, s \in Sessions : FindOpen(c, s)
  \/ \E c \in Clerks : CloseSession(c)

CashSpec == CashInit /\ [][CashNext]_cashVars

-----------------------------------------------------------------------------
(* Properties.                                                             *)

\* Two sessions of a branch are open together only if they were being opened
\* together: one was created while the other was past its look.
TogetherOnlyByRace ==
  \A s, t \in Sessions :
    s # t /\ session[s] = "OPEN" /\ session[t] = "OPEN" => s \in unseen[t] \/ t \in unseen[s]

-----------------------------------------------------------------------------
(* The inductive invariant of FinanceProofs: whoever is past its look has   *)
(* not seen the sessions that are open now.                                 *)

CashTypeOK ==
  /\ session \in [Sessions -> {"none", "opening", "OPEN", "CLOSED"}]
  /\ unseen \in [Sessions -> SUBSET Sessions]
  /\ closing \in [Clerks -> Sessions \cup {NoSession}]

OpenedUnseen == \A s, t \in Sessions : session[s] = "opening" /\ session[t] = "OPEN" => t \in unseen[s]

CashInv == CashTypeOK /\ OpenedUnseen /\ TogetherOnlyByRace
===============================================================================
