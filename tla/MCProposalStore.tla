--------------------------- MODULE MCProposalStore ---------------------------
(* Instances of ProposalStore with values that are new in period 0.      *)
EXTENDS ProposalStore, TLC

CONSTANTS a, b

MCOriginalPeriod == (a :> 0 @@ b :> 0)
TwoProposers == (a :> 2 @@ b :> 1)
==============================================================================
