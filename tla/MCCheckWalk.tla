----------------------------- MODULE MCCheckWalk -----------------------------
(***************************************************************************)
(* Values for the constants of CheckWalk, on top of those of ManifestStore.*)
(* v3 holds a violation.  The archive old has the name bundles had before  *)
(* they kept the module's suffix, so that its stem plus ".py" is mA.       *)
(***************************************************************************)
EXTENDS MCManifestStore, CheckWalk

CONSTANT Astray  (* the modules whose recorded paths name nothing where    *)
                 (* the walk starts                                        *)

MCOrdered(S, s) == SelectSeq(s, LAMBDA x : x \in S)
MCFileOrder == MCOrdered(Modules, <<mA, mB, mR>>)
MCBundleOrder == MCOrdered(Paths, <<mA, mB, mR, old>>)
MCMarads == {v3} \cap Contents
MCStemPy == [a \in Paths |-> IF a = old THEN mA ELSE "missing"]
MCFromCwd == [m \in Modules |-> IF m \in Astray THEN "missing" ELSE m]
=============================================================================
