------------------------------ MODULE MCBroker ------------------------------
EXTENDS Broker, TLC

CONSTANTS s1, s2, c1, c2, google, entra, core, other,
          annAtGoogle, annAtEntra, bobAtGoogle, ann, eve, eveLocal

KnownTo   == annAtGoogle :> google @@ annAtEntra :> entra @@ bobAtGoogle :> google
Addresses == annAtGoogle :> ann @@ annAtEntra :> ann @@ bobAtGoogle :> None
EveOnly   == eveLocal :> [subject |-> eveLocal, email |-> eve, workspace |-> core]

Symmetric == Permutations(Callbacks) \cup Permutations(Starts)
=============================================================================
