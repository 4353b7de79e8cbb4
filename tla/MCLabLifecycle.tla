--------------------------- MODULE MCLabLifecycle ---------------------------
(* One KME for the staged pair, the two switches of the QKD link, and two  *)
(* settings that differ in the image and the IPv4 subnet (here by the same *)
(* letter) and are interchangeable.                                        *)
EXTENDS LabLifecycle

CONSTANTS a, b, prefix

LabQuadra == <<"ceos1", "ceos3">>
LabSettings == [image : {a}, v4 : {a}, v6 : {prefix}] \cup [image : {b}, v4 : {b}, v6 : {prefix}]
LabFlaws == {[of |-> "ceos", how |-> "offcontract"], [of |-> "radius", how |-> "unresolved"],
             [of |-> "annot", how |-> "missing"]}
Exchange == Permutations({a, b})
==============================================================================
