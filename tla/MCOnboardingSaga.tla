-------------------------- MODULE MCOnboardingSaga --------------------------
(* Small instances of OnboardingSaga for TLC.                              *)
EXTENDS OnboardingSaga, TLC

CONSTANTS s1, s2, s3, w1, e1, e2

ThreeSagas == {s1, s2, s3}
TwoEmails == {e1, e2}
TwoAndOne == (s1 :> e1) @@ (s2 :> e1) @@ (s3 :> e2)
SecondEmail == {e2}
SecondSaga == {s2}
OneWorker == {w1}
SamePriority == [j \in Sagas |-> 2]
=============================================================================
