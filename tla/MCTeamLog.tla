----------------------------- MODULE MCTeamLog -----------------------------
(* The teams for which TeamLog is checked.                                   *)
EXTENDS TeamLog, TLC

CONSTANTS a, b, c

Team(hosts, drivers, older, n) ==
  [clones |-> DOMAIN hosts, host |-> hosts, drivers |-> drivers, older |-> older,
   commits |-> n]

TwoHosts == (a :> "ha") @@ (b :> "hb")
(* b and c are two checkouts on one machine.                                 *)
SharedHost == (a :> "ha") @@ (b :> "hb") @@ (c :> "hb")

(* The merge driver on both sides; b's release writes neither host nor uid.  *)
Pair == Team(TwoHosts, {a, b}, {b}, 5)
(* The third clone has no merge driver.                                      *)
Mixed == Team(SharedHost, {a, b}, {}, 5)

PairAndMixed == {Pair, Mixed}
AllCurrent == {Team(TwoHosts, {a, b}, {}, 5)}
AllDriven == {Team(SharedHost, {a, b, c}, {}, 4)}
=============================================================================
