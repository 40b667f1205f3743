--------------------------- MODULE MCBrainCourier ---------------------------
(***************************************************************************)
(* TLC instances of BrainCourier: two intents with one action each, of     *)
(* which one plants a credential.                                          *)
(***************************************************************************)
EXTENDS BrainCourier, TLC

CONSTANTS s1, s2, k1, w1, w2

MCCatalog == (0 :> {"show_fake_endpoints"})
          @@ (1 :> {"plant_honeytoken_credentials"})
MCBundle == ("show_fake_endpoints" :> {})
         @@ ("plant_honeytoken_credentials" :> {k1})

(* Every session is another attacker's; an attacker is named by it.        *)
OwnAttacker == (s1 :> s1) @@ (s2 :> s2)
OneAttacker == s1 :> s1
Symmetry == Permutations({s1, s2}) \cup Permutations({w1, w2})

(* Once something has failed, one generation task at a time is enough.     *)
OneTaskAfterFault == faults = 0 \/ Cardinality(tasks) <= 1
=============================================================================
