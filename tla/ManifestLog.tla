----------------------------- MODULE ManifestLog -----------------------------
(***************************************************************************)
(* What the manifest commands promise together, whatever overlaps and      *)
(* wherever one is killed: signed manifests are only ever appended, each   *)
(* extends an earlier manifest of its own module by one position or starts *)
(* a chain, and the bundle file beside a module is unreadable or holds one *)
(* of that module's signed manifests.  ManifestStore implements this.      *)
(***************************************************************************)
EXTENDS Integers, Sequences

CONSTANTS
  Modules,      (* the modules; the bundle beside m is file m              *)
  Files,        (* all bundle files, Modules among them                    *)
  Absent, Torn  (* no bundle file; an unreadable one                       *)

VARIABLES
  chain,        (* the signed manifests, as links: module, position and    *)
                (* index of the predecessor, 0 for none                    *)
  held          (* bundle file -> Absent, Torn or the index of a manifest  *)

Init == chain = << >> /\ held = [a \in Files |-> Absent]

(* sign_manifest in init or update: prev is 0 or a manifest of m.          *)
Publish(m, prev) ==
  /\ prev # 0 => chain[prev].mod = m
  /\ chain' = Append(chain,
        [mod |-> m, prev |-> prev,
         pos |-> IF prev = 0 THEN 1 ELSE chain[prev].pos + 1])
  /\ UNCHANGED held

(* Bundle.write begins, or loses against another command's write.          *)
Truncate(a) == held' = [held EXCEPT ![a] = Torn] /\ UNCHANGED chain

(* Bundle.write ends, or a user copies a bundle.                           *)
Put(a, i) ==
  /\ a \in Modules => chain[i].mod = a
  /\ held' = [held EXCEPT ![a] = i]
  /\ UNCHANGED chain

Next ==
  \/ \E m \in Modules, prev \in 0 .. Len(chain) : Publish(m, prev)
  \/ \E a \in Files : Truncate(a)
  \/ \E a \in Files, i \in 1 .. Len(chain) : Put(a, i)

Spec == Init /\ [][Next]_<<chain, held>>
=============================================================================
