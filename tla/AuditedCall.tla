----------------------------- MODULE AuditedCall -----------------------------
(***************************************************************************)
(* What an audited boundary promises its caller about one call: it refuses *)
(* the call without a trace, or decides one outcome, asks for one row that *)
(* says the same, and only then answers; the answer is a success only when *)
(* the outcome was one and its row was written.  Executor.Execute and the  *)
(* stream of Service.ChatStream implement it (spec 001, FR-009; spec 002,  *)
(* FR-008).                                                                *)
(***************************************************************************)

VARIABLES
  outcome,  \* how the call itself ended, "none" before
  row,      \* the row the store holds: none yet, the outcome, or "lost"
  answer    \* what the caller was told, "none" before

vars == <<outcome, row, answer>>

Outcomes == {"ok", "error"}

Init == outcome = "none" /\ row = "none" /\ answer = "none"

Refuse ==
  /\ Init
  /\ answer' = "error"
  /\ UNCHANGED <<outcome, row>>

Decide ==
  /\ Init
  /\ outcome' \in Outcomes
  /\ UNCHANGED <<row, answer>>

Settle ==
  /\ outcome # "none"
  /\ row = "none"
  /\ row' \in {outcome, "lost"}
  /\ answer' = IF row' = "ok" THEN "ok" ELSE "error"
  /\ UNCHANGED outcome

Next == Refuse \/ Decide \/ Settle

Spec == Init /\ [][Next]_vars

(* Every call is answered.                                                 *)
FairSpec == Spec /\ WF_vars(Next)
=============================================================================
