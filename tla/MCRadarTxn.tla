----------------------------- MODULE MCRadarTxn -----------------------------
(* Instances of RadarTxn for TLC. *)
EXTENDS RadarTxn, TLC

CONSTANTS w1, t1, t2

MCBots == <<"bot-gap-fixed", "bot-gap-mgd">>
MCManagedBots == {"bot-gap-mgd"}
MCLevels == {60}
TabSymmetry == Permutations({t1, t2})
=============================================================================
