-------------------------- MODULE ManifestRefinement --------------------------
(***************************************************************************)
(* The refinement mapping from ManifestStore to ManifestLog: a signed      *)
(* bundle is its link in a chain; hash, surface, trust root and signer are *)
(* forgotten, and so is every process.                                     *)
(***************************************************************************)
EXTENDS ManifestStore

Link(b) == [mod |-> b.mod, prev |-> b.prev, pos |-> b.pos]
Links == [i \in 1 .. Len(log) |-> Link(log[i])]

Log == INSTANCE ManifestLog WITH
         Files <- Paths, chain <- Links, held <- store

(* The commands implement the append-only log of linked manifests: every   *)
(* step of a command, a crash or an editor is one of its steps or changes  *)
(* neither the log nor a bundle file.                                      *)
ImplementsLog == Log!Spec
=============================================================================
