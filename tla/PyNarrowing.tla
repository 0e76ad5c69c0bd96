----------------------------- MODULE PyNarrowing -----------------------------
(***************************************************************************)
(* adapter.py, for D11: the calls of a Python function whose None no guard *)
(* handles.  Some guards count only if nothing outside of them reads x,    *)
(* which is settled level by level, as the statements around them are      *)
(* walked.                                                                 *)
(***************************************************************************)
EXTENDS PyAdapter

(* What the walk finds of a block or statement b is b.narrow:              *)
(*   straight  neither branches nor touches x                              *)
(*   ends      whether it is an exit after a straight prefix, and of what: *)
(*             the path, the loop or nothing                               *)
(*   sets      assigns x after a straight prefix                           *)
(*   binding   ends in x = p()                                             *)
(*   guard     what the statement is to an x = p() right before it         *)
(*   kept      some call in it keeps its None                              *)
(*   alone     some guard in it counts only if nothing outside reads x     *)
(*   looped    some guard in it counts only if, besides, b is a loop's body*)
EndKinds == {"path", "loop", "no"}
GuardKinds == {"always", "in loop", "alone", "no"}

Walrus == {"wnone", "wsome"}
TakesOptional(b) == Has(b, {"call", "p"}) \/ \E h \in b.within : h.t \in Walrus

(* Reads of x, those in nested scopes included.                            *)
Loads(k, t) == k \in {"read", "x", "late"} \/ t \in {"none", "some"}
NameLoads(b) == \E h \in b.within : Loads(h.k, h.t)

(* Something reads x when nobody looks: no guard vouches for x.            *)
Unguardable(b) == Has(b, {"late"})

EndsOf(k) ==
  CASE k \in (Returns \ {"x"}) \cup Exits -> "path"
    [] k \in {"break", "continue"} -> "loop"
    [] OTHER -> "no"

(* The None branch sets x to a literal, on every path and to nothing else. *)
Rebinds(b) ==
  /\ b.narrow.sets
  /\ ~Has(b, {"call", "default", "other"}) /\ \A h \in b.within : h.t \notin Walrus

(* The statement after x = p() handles the None.                           *)
Guards(k, t, cl) ==
  CASE k = "if" /\ t = "none" /\ (cl.body.narrow.ends = "path" \/ Rebinds(cl.body)) -> "always"
    [] k = "if" /\ t = "none" /\ cl.body.narrow.ends = "loop" -> "in loop"
    [] k = "if" /\ t = "some" /\ ~NameLoads(cl.else) -> "alone"
    [] OTHER -> "no"

WalrusGuards(k, t, cl) ==
  /\ k = "if"
  /\ \/ t = "wnone" /\ cl.body.narrow.ends = "path"
     \/ t = "wsome" /\ ~NameLoads(cl.else)

(* Mutant: an exit is trusted wherever it stands.                          *)
SensitiveNever(k) == FALSE
(* Inside a with or a try an exit may be caught or overridden.             *)
Sensitive(k) == k \in {"with", "try", "try*"}

(* Guards in a clause that count only if nothing outside it reads x, and   *)
(* statements whose reads are outside.                                     *)
BodyAlone(k, t, cl) ==
  \/ cl.body.narrow.alone
  \/ k \in {"for", "while"} /\ cl.body.narrow.looped
  \/ k = "if" /\ t = "wsome"

ReadOutside(k, t, cl) ==
  \/ BodyAlone(k, t, cl) /\ (Loads(k, t) \/ NameLoads(cl.else))
  \/ cl.else.narrow.alone /\ (Loads(k, t) \/ NameLoads(cl.body))
  \/ \E a \in cl.case : /\ a.narrow.alone
                        /\ \E b \in (cl.case \ {a}) \cup ({a} \cap cl.twice) : NameLoads(b)

KeepsNone(k, t, cl) ==
  \/ k = "p"
  \/ t \in Walrus /\ ~WalrusGuards(k, t, cl)
  \/ Sensitive(k) /\ \E b \in Parts(cl) : TakesOptional(b)
  \/ \E b \in Parts(cl) : b.narrow.kept \/ b.narrow.binding
  \/ cl.body.narrow.looped /\ k \notin {"for", "while"}
  \/ cl.else.narrow.looped \/ \E a \in cl.case : a.narrow.looped
  \/ ReadOutside(k, t, cl)

Narrow(k, t, cl) ==
  [straight |-> k \in {"pass", "exit"}, ends |-> EndsOf(k),
   sets |-> k \in {"call", "default", "literal"}, binding |-> k = "call",
   guard |-> Guards(k, t, cl), kept |-> KeepsNone(k, t, cl),
   alone |-> BodyAlone(k, t, cl) \/ \E b \in {cl.else} \cup cl.case : b.narrow.alone,
   looped |-> FALSE]

NarrowNothing ==
  [straight |-> TRUE, ends |-> "no", sets |-> FALSE, binding |-> FALSE, guard |-> "no",
   kept |-> FALSE, alone |-> FALSE, looped |-> FALSE]

(* A block that goes on with statement s.                                  *)
NarrowOn(b, s) ==
  LET n == b.narrow
      m == s.narrow IN
  [straight |-> n.straight /\ m.straight,
   ends |-> IF n.straight THEN m.ends ELSE "no",
   sets |-> n.sets \/ (n.straight /\ m.sets),
   binding |-> m.binding, guard |-> "no",
   kept |->
     \/ n.kept \/ m.kept
     \/ n.alone /\ NameLoads(s)
     \/ m.alone /\ NameLoads(b)
     \/ n.binding /\ (m.guard = "no" \/ (m.guard # "always" /\ NameLoads(b))),
   alone |-> n.alone \/ m.alone \/ (n.binding /\ m.guard = "alone"),
   looped |-> n.looped \/ (n.binding /\ m.guard = "in loop")]

(* The producer calls the translation hands to D11.                        *)
ExtractCalls(f) ==
  IF Unguardable(f.body) THEN TakesOptional(f.body)
  ELSE f.body.narrow.kept \/ f.body.narrow.binding \/ f.body.narrow.looped

(* D11 of the furqan package reports a call that may hand back None in a   *)
(* function that does not declare it.                                      *)
IsOptionalUnion(contract) == contract = "T or None"

StatusCoverage(f) ==
  Collected(f.place) /\ Contract(f) # "no" /\ ~IsOptionalUnion(Contract(f)) /\ ExtractCalls(f)
=============================================================================
