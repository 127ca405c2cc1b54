------------------------- MODULE MCReputationEpoch -------------------------
(* Small instances of ReputationEpoch for TLC.                             *)
EXTENDS ReputationEpoch, TLC

\* Two assets; first one of them is above the average, then the other.
MCAssets == {0, 1}
MCSheets == << (0 :> 2 @@ 1 :> 1), (0 :> 1 @@ 1 :> 2) >>
=============================================================================
