----------------------------- MODULE MCHandlers -----------------------------
(* Instances of Handlers for TLC. *)
EXTENDS Handlers, TLC

CONSTANTS keystore, configstore, other, c1, c2

ThreeTypes == {keystore, configstore, other}
TwoTypes == {keystore, configstore}
TwoVersions == {c1, c2}

\* Neither the known types nor the versions are told apart.
Symmetry == Permutations(TwoTypes) \cup Permutations(TwoVersions)

\* Two complete packages, one with a long check sum, and incomplete ones.
SomeDetails ==
    {[name |-> "navi", version |-> "v1", sum |-> "short"],
     [name |-> "media", version |-> "v2", sum |-> "long"],
     [name |-> Absent, version |-> "v2", sum |-> "short"],
     NoDetails}
=============================================================================
