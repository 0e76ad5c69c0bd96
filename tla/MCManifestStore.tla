--------------------------- MODULE MCManifestStore ---------------------------
(***************************************************************************)
(* Values for the constants of ManifestStore.  The texts: v1 has names f   *)
(* and g, v1crlf is v1 with other newlines, v1bom is v1 with a BOM, v2     *)
(* changed f, v3 lost g and kept f, dyn has a dynamic __all__, bad is not  *)
(* UTF-8 and broken no program.                                            *)
(***************************************************************************)
EXTENDS ManifestRefinement

CONSTANTS v1, v1crlf, v1bom, v2, v3, dyn, bad, broken, f, g, one, two,
          mA, mB, mR, old, w1, w2, r1, ci, dev, public, staging

MCNames == {f, g}
MCPrints == {one, two}

MCCanon == [c \in Contents |-> IF c \in {v1crlf, v1bom} THEN v1 ELSE c]
MCParse == [c \in Contents |-> CASE c = dyn -> "dynamic"
                                 [] c \in {v1bom, broken} -> "syntax"
                                 [] c = bad -> "undecodable"
                                 [] OTHER -> "ok"]
MCSurfaceOf == [c \in Contents |->
   CASE c = v2 -> [n \in {f, g} |-> IF n = f THEN two ELSE one]
     [] c = v3 -> [n \in {f} |-> one]
     [] OTHER -> [n \in {f, g} |-> one]]

MCLang == [m \in Modules |-> IF m = mB THEN "go"
                            ELSE IF m = mR THEN "rust" ELSE "python"]
MCExtras == [p \in Procs |-> {"rust", "go"}]
MCSigner == [p \in Procs |-> IF p = w2 THEN dev ELSE ci]
MCPolicies == {"none", "any", ci, dev}
=============================================================================
