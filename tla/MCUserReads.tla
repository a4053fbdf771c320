----------------------------- MODULE MCUserReads -----------------------------
(* A small instance, for TLC, of what reads users: one by one through the  *)
(* cache, or page by page past it.  The two share nothing that either      *)
(* would notice, so that in one behaviour only one of them moves.          *)
EXTENDS CacheAside, UserListing, TLC

CONSTANTS n1, n2, r1, r2

TwoNodes == {n1, n2}
TwoReaders == {r1, r2}
OnePerNode == (r1 :> n1) @@ (r2 :> n2)

FourUsers == 1 .. 4
SomeLimits == {-1, 0, 1, 5}
TwoRanks == [u \in FourUsers |-> u % 2]

VARIABLE half

ReadsInit ==
    /\ half \in {"cache", "list"}
    /\ Init /\ ListInit
    /\ half = "cache" =>
           matching = {} /\ query = [type |-> "cursor", limit |-> 0, sorted |-> FALSE, named |-> TRUE]

ReadsNext ==
    /\ UNCHANGED half
    /\ \/ half = "cache" /\ Next /\ UNCHANGED lvars
       \/ half = "list" /\ ListNext /\ UNCHANGED vars

ReadsSpec == ReadsInit /\ [][ReadsNext]_<<half, vars, lvars>>
=============================================================================
