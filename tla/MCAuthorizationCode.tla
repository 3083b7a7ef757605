------------------------ MODULE MCAuthorizationCode ------------------------
EXTENDS AuthorizationCode, TLC

CONSTANTS s1, a1, t1, t2, l1, b1, web, cli, webUri, cliUri, openid,
          x, y, alice, bob

OwnerOf      == s1 :> alice
UrisOf       == (web :> {webUri}) @@ (cli :> {cliUri})
ScopesOf     == (web :> {openid}) @@ (cli :> {})

Symmetric    == Permutations({t1, t2}) \cup Permutations({x, y})
=============================================================================
