----------------------------- MODULE CasmManifest -----------------------------
(***************************************************************************)
(* The data of Gate 11: module texts, public surfaces, CASM manifests and  *)
(* the checks of the nine-step verification flow that are functions of     *)
(* what one step has read.  ManifestStore.tla adds the commands that read  *)
(* and write files; every definition here is a state function of nothing.  *)
(*                                                                         *)
(* Abstractions.  A text is a member of Contents.  What the code computes  *)
(* from a text is given by constant functions: the canonical form whose    *)
(* SHA-256 is module_root_hash (Canon), whether the parser of its language *)
(* accepts it (Parse), and the surface an extractor that can read it       *)
(* returns (SurfaceOf).  SHA-256 is collision free: two hashes are equal   *)
(* only for equal arguments.                                               *)
(***************************************************************************)
EXTENDS Integers

CONSTANTS
  Contents,     (* the distinct texts a module file may hold               *)
  Canon,        (* text -> canonical form (BOM stripped, newlines LF)      *)
  Parse,        (* text -> what the extractor makes of it, see ParseKinds  *)
  Names,        (* public names                                            *)
  Prints,       (* signature fingerprints                                  *)
  SurfaceOf,    (* text -> its public surface, when it can be read         *)
  Identities,   (* OIDC identities that may sign                           *)
  TrustRoots,   (* Sigstore deployments a trust-config can name            *)
  PublicRoot    (* the deployment sign_manifest always signs with          *)

(* "dynamic": a dynamic __all__ or a glob re-export; "syntax": the parser  *)
(* rejects it (a UTF-8 BOM in Python source included: read_text keeps it   *)
(* and ast.parse refuses it); "undecodable": not UTF-8.                    *)
ParseKinds == {"ok", "dynamic", "syntax", "undecodable"}

Surfaces == UNION {[S -> Prints] : S \in SUBSET Names}
Canonicals == {Canon[c] : c \in Contents}
EmptySurface == [n \in {} |-> n]

ASSUME ContentsAssumption ==
  /\ DOMAIN Canon = Contents
  /\ Parse \in [Contents -> ParseKinds]
  /\ SurfaceOf \in [Contents -> Surfaces]

(* Two texts with the same canonical form differ in a BOM or in newlines   *)
(* only; unless a BOM makes the parser reject one, they read the same.     *)
ASSUME CanonAssumption ==
  \A c, d \in Contents :
     Canon[c] = Canon[d] /\ Parse[c] # "syntax" /\ Parse[d] # "syntax"
        => Parse[c] = Parse[d] /\ SurfaceOf[c] = SurfaceOf[d]

ASSUME TrustAssumption == PublicRoot \in TrustRoots

-----------------------------------------------------------------------------
(* extract_public_surface and its Rust and Go counterparts: what reading   *)
(* the surface of text c can end in.  An exception of a parser is none     *)
(* that verify and check catch.  The Rust parser reads bytes and may pass  *)
(* those that are not UTF-8; goast is a program of its own and can fail,   *)
(* by its time-out if by nothing else, on any text.                        *)
Extraction(lang, c) ==
  IF Parse[c] = "dynamic" THEN {"INDETERMINATE"}
  ELSE {v \in {"ok", "traceback"} :
          \/ v = "ok" /\ (Parse[c] = "ok" \/ (lang = "rust" /\ Parse[c] = "undecodable"))
          \/ v = "traceback" /\ (Parse[c] # "ok" \/ lang = "go")}

-----------------------------------------------------------------------------
(* A signed bundle: the manifest's fields, the identity in the certificate *)
(* and the deployment whose log holds the entry.  prev is the hash of the  *)
(* previous manifest: its index in the log of everything ever signed, 0    *)
(* for None (issued_at and the fields make two manifests differ).          *)
Bundles(Modules) ==
  [mod: Modules, root: Canonicals, names: Surfaces, pos: Nat, prev: Nat,
   trust: TrustRoots, by: Identities, signedAt: TrustRoots]

(* step 6, verify_artifact of sigstore: None when the signature holds.     *)
Policies == Identities \cup {"none", "any"}

(* Mutant: no policy means any identity, as before the C-1 corrective.     *)
Step6Permissive(b, trust, policy) ==
  IF b.signedAt # trust THEN "CASM-V-030"
  ELSE IF policy \notin {"none", "any", b.by} THEN "CASM-V-032"
  ELSE "ok"

Step6(b, trust, policy) ==
  IF policy = "none" THEN "CASM-V-035"
  ELSE IF b.signedAt # trust THEN "CASM-V-030"
  ELSE IF policy \notin {"any", b.by} THEN "CASM-V-032"
  ELSE "ok"

(* Mutant: the hash of the file is computed and not compared.              *)
Step7Uncompared(b, c) ==
  IF Parse[c] = "undecodable" THEN "CASM-V-002" ELSE "ok"

(* step 7: module_root_hash of the text against the manifest's.            *)
Step7(b, c) ==
  IF Parse[c] = "undecodable" THEN "CASM-V-002"
  ELSE IF Canon[c] # b.root THEN "CASM-V-040"
  ELSE "ok"

(* step 8: the manifest's names against the live surface s: removals, then *)
(* changed fingerprints; additions are silent.                             *)
CompareSurface(names, s) ==
  IF ~(DOMAIN names \subseteq DOMAIN s) THEN "CASM-V-050"
  ELSE IF \E n \in DOMAIN names : names[n] # s[n] THEN "CASM-V-051"
  ELSE "ok"

Step8(b, c, extracted) ==
  IF extracted = "ok" THEN CompareSurface(b.names, SurfaceOf[c]) ELSE extracted

(* step 9: the search of the bundle's directory for its predecessor.       *)
(* siblings holds the hashes of the other readable bundles.  The loop      *)
(* stops at the first sibling that is the predecessor or sits at the       *)
(* previous position, in whatever order glob lists them, so every          *)
(* outcome below can be the one reported.                                  *)
AtPreviousPosition(log, b, siblings) ==
  {s \in siblings : s # b.prev /\ log[s].pos = b.pos - 1}

Step9(log, b, siblings) ==
  IF b.prev = 0 THEN {"OK"}
  ELSE IF b.prev \in siblings \/ AtPreviousPosition(log, b, siblings) # {}
       THEN {v \in {"OK", "CASM-V-060"} :
               \/ v = "OK" /\ b.prev \in siblings
               \/ v = "CASM-V-060" /\ AtPreviousPosition(log, b, siblings) # {}}
       ELSE {"OK CASM-V-061"}

Verdicts == {"written", "OK", "OK CASM-V-061", "INDETERMINATE", "traceback",
             "bundle unreadable", "not found", "signing failed",
             "CASM-V-002", "CASM-V-010", "CASM-V-021", "CASM-V-030",
             "CASM-V-032", "CASM-V-035", "CASM-V-040", "CASM-V-050",
             "CASM-V-051", "CASM-V-060", "Go manifest unavailable"}

Accepting == {"OK", "OK CASM-V-061"}

-----------------------------------------------------------------------------
(* What a manifest attests is coherent when one text has both its hash and *)
(* its surface.                                                            *)
Coherent(b) ==
  \E c \in Contents :
     Parse[c] = "ok" /\ Canon[c] = b.root /\ SurfaceOf[c] = b.names
=============================================================================
