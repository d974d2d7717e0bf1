-------------------------- MODULE MCCatalogHistory ---------------------------
(* Two ids, one set of facts, two instants to run the generator at.        *)
EXTENDS CatalogHistory, TLC
CONSTANTS x, y, m1
MCIds == {x, y}
MCModels == {m1}
MCBuildTimes == {1, 3}
MCSymmetry == Permutations({x, y})
==============================================================================
