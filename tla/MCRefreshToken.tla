-------------------------- MODULE MCRefreshToken --------------------------
EXTENDS RefreshToken, TLC

CONSTANTS g1, g2, r1, r2, r3, web, cli, alice, bob

IssuedTo  == (g1 :> web) @@ (g2 :> cli)
HeldBy    == (g1 :> alice) @@ (g2 :> bob)
Symmetric == Permutations(Refreshes)
=============================================================================
