------------------------------ MODULE Freshness ------------------------------
(***************************************************************************)
(* The order in which voteTrackerRound lets threshold events through to    *)
(* the player (agreement/events.go, voteAuxiliary.go).                     *)
(***************************************************************************)
EXTENDS Integers

CONSTANT bottom  \* the zero proposal-value

\* Fault: a certificate of an older period is not fresher.
fresherThanByPeriod(e, o) ==
    \/ o.T = "none"
    \/ /\ o.T # "cert"
       /\ \/ e.Period > o.Period
          \/ /\ e.T # "soft" /\ e.Period = o.Period
             /\ o.T = "soft" \/ (e.Proposal = bottom /\ o.Proposal # bottom)

fresherThan(e, o) ==
    \/ o.T = "none"
    \/ /\ o.T # "cert"
       /\ \/ e.T = "cert"
          \/ e.Period > o.Period
          \/ /\ e.T = "next" /\ e.Period = o.Period
             /\ o.T = "soft" \/ (e.Proposal = bottom /\ o.Proposal # bottom)
=============================================================================
