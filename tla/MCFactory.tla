------------------------------ MODULE MCFactory ------------------------------
(* Constants of the instances of Factory that TLC checks.                  *)
EXTENDS FactoryProperties, TLC

Symmetric == Permutations(Owners)
=============================================================================
