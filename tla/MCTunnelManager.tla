-------------------------- MODULE MCTunnelManager --------------------------
(* TunnelManager for TLC. *)
EXTENDS TunnelManager, TLC

\* One user and every accident, or two users at once and a shutdown.
OneUser == [users |-> {CHOOSE c \in Clients : TRUE}, faults |-> 1,
            falls |-> 1, ageings |-> 1, restarts |-> 1]
TwoUsers == [users |-> Clients, faults |-> 0, falls |-> 0, ageings |-> 0, restarts |-> 1]
OneOrTwoUsers == {OneUser, TwoUsers}
=============================================================================
