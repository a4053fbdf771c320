------------------------ MODULE MCServerLifecycle ------------------------
(* A small instance of ServerLifecycle for TLC.                            *)
EXTENDS ServerLifecycle

CONSTANTS w1, r1, h1, j1, PagerDuty, OpsGenie

OneWorker == {w1}
OneRequest == {r1}
OneChat == {h1}
OneJob == {j1}
Both == {PagerDuty, OpsGenie}
=============================================================================
