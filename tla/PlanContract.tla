---------------------------- MODULE PlanContract ----------------------------
(***************************************************************************)
(* What a plan promises its user, without the store, the goroutines or the *)
(* remote side:                                                            *)
(*   - an approval is given to one revision, and an edit voids it;         *)
(*   - at most one submission is open, and while one is open the plan can  *)
(*     be neither edited, nor approved, nor submitted again;               *)
(*   - a submission is closed only by telling the user that it failed.     *)
(* PlanLifecycle implements this contract.                                 *)
(***************************************************************************)
EXTENDS Naturals

VARIABLES
  rev,       \* current revision of the parameters
  approved,  \* the revision approved by the user, 0 when there is none
  count,     \* submissions begun
  open       \* the latest one has not been reported as failed

contractVars == <<rev, approved, count, open>>

ContractInit ==
  /\ rev = 1
  /\ approved = 0
  /\ count = 0
  /\ open = FALSE

Edit ==
  /\ ~open
  /\ rev' = rev + 1
  /\ approved' = 0
  /\ UNCHANGED <<count, open>>

Approve ==
  /\ ~open
  /\ approved = 0
  /\ approved' = rev
  /\ UNCHANGED <<rev, count, open>>

BeginSubmission ==
  /\ ~open
  /\ count' = count + 1
  /\ open' = TRUE
  /\ UNCHANGED <<rev, approved>>

ReportFailure ==
  /\ open' = FALSE
  /\ UNCHANGED <<rev, approved, count>>

ContractNext == Edit \/ Approve \/ BeginSubmission \/ ReportFailure

ContractSpec == ContractInit /\ [][ContractNext]_contractVars
=============================================================================
