------------------------------ MODULE MCGateway ------------------------------
(* A small instance of the gateway for TLC.  Its list of hosts and its     *)
(* circuit breaker share nothing, so that in one behaviour only one of     *)
(* them moves.                                                             *)
EXTENDS ServiceDiscovery, CircuitBreaker, TLC

CONSTANTS i1, k1, k2

OneInstance == {i1}
TwoCalls == {k1, k2}

VARIABLE half

GatewayInit ==
    /\ half \in {"registry", "breaker"}
    /\ Init /\ BreakerInit
    /\ half = "registry" => service = "well"

GatewayNext ==
    /\ UNCHANGED half
    /\ \/ half = "registry" /\ Next /\ UNCHANGED bvars
       \/ half = "breaker" /\ BreakerNext /\ UNCHANGED vars

GatewaySpec ==
    GatewayInit /\ [][GatewayNext]_<<half, vars, bvars>> /\ BreakerFairness
=============================================================================
