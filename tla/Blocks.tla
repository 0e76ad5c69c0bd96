------------------------------- MODULE Blocks -------------------------------
(***************************************************************************)
(* The blocks of a function, and what the adapters leave of them.          *)
(*                                                                         *)
(* The walks over a body are all of one form: what a walk finds in a       *)
(* statement is a matter of the statement's own words and of what the walk *)
(* finds in its clauses, and what it finds in a block is put together from *)
(* its statements.  So a block is not kept as a tree but as the record of  *)
(* what the walks find in it, a field for each of them, and an operator    *)
(* that stands for a walk is one level of it: from a kind k, a test t and  *)
(* the clauses cl of a statement, each clause such a record.               *)
(***************************************************************************)
EXTENDS Naturals, Sequences, SequencesExt

(* A clause that is not written is the empty block; handlers and arms, of  *)
(* which there may be several, are sets, with the arms that stand more     *)
(* than once in one of their own.                                          *)
NoClauses(empty) ==
  [body |-> empty, else |-> empty, finally |-> empty, except |-> {}, case |-> {}, twice |-> {}]
Parts(cl) == {cl.body, cl.else, cl.finally} \cup cl.except \cup cl.case

(* The heads of the statements of a block, at any depth, are its field     *)
(* within.                                                                 *)
Filled(b) == b.within # {}
Heading(k, t, cl) ==
  [k |-> k, t |-> t,
   with |-> {l \in {"else"} : Filled(cl.else)} \cup {l \in {"except"} : cl.except # {}}]
Within(k, t, cl) == {Heading(k, t, cl)} \cup UNION {b.within : b \in Parts(cl)}

Has(b, kinds) == \E h \in b.within : h.k \in kinds

-----------------------------------------------------------------------------
(* The translation is a sequence of returns and ifs.  The checkers of the  *)
(* furqan package ask three things of it: whether it returns anywhere,     *)
(* whether it always returns, and whether it returns None anywhere.  What  *)
(* holds of a sequence is the union of what holds of its elements.         *)
Answers == {"returns", "always", "none"}

Ret(v) == {"returns", "always"} \cup {a \in {"none"} : v = "none"}

(* Nested ifs with one of the blocks bs on every branch.                   *)
Branches(bs) ==
  ((UNION bs) \ {"always"}) \cup {a \in {"always"} : bs # {} /\ \A b \in bs : a \in b}
If(then, else) == Branches({then, else})

(* D24 reports a function that returns, but not on all paths.              *)
AllPathsReturn(ir) == "always" \in ir
AnyReturn(ir) == "returns" \in ir
MissesReturn(ir) == AnyReturn(ir) /\ ~AllPathsReturn(ir)
=============================================================================
