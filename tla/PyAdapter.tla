------------------------------ MODULE PyAdapter ------------------------------
(***************************************************************************)
(* adapter.py: what the translation keeps of a Python function for D24 and *)
(* return_none.  Of its return annotation the contract, of its body a      *)
(* sequence of returns and ifs.                                            *)
(***************************************************************************)
EXTENDS PyFunction

(* The heads of annotations, with the number of their arguments: a type,   *)
(* None, Optional[a], a quoted annotation, other subscripts, a | b, and    *)
(* Union[a, ...].  An annotation a has its head a.h and the heads of its   *)
(* arguments a.hs.                                                         *)
PyHeads ==
  {<<"T", 0>>, <<"none", 0>>, <<"optional", 1>>, <<"quoted", 1>>, <<"generic", 1>>, <<"pipe", 2>>}
    \cup ({"union"} \X (Nat \ {0}))

HeadsOf(args) == [i \in DOMAIN args |-> args[i].h]

IsNone(a) == a.h = "none"
IsOptional(a) == a.h = "optional"
IsPipeWithNone(a) == a.h = "pipe" /\ a.hs[2] = "none"
NoneArms(a) == {i \in DOMAIN a.hs : a.hs[i] = "none"}
IsUnionWithNone(a) == a.h = "union" /\ NoneArms(a) \notin {{}, DOMAIN a.hs}
IsAllNoneUnion(a) == a.h = "union" /\ NoneArms(a) = DOMAIN a.hs

(* The contract of an annotation: "T", "None", or "T or None".             *)
TranslateReturn(a, args) ==
  IF a.h = "quoted" THEN args[1].contract
  ELSE IF \/ IsNone(a) \/ IsAllNoneUnion(a)
          \/ IsOptional(a) /\ a.hs[1] = "none"
          \/ IsPipeWithNone(a) /\ a.hs[1] = "none" THEN "None"
  ELSE IF IsOptional(a) \/ IsPipeWithNone(a) \/ IsUnionWithNone(a) THEN "T or None"
  ELSE "T"

IsProcedure(a) == IsNone(a) \/ (a.h = "quoted" /\ a.hs[1] = "none")

(* What an annotation admits, for typing and for Python.                   *)
Means(h, args) ==
  CASE h = "none" -> {"None"}
    [] h = "optional" -> {"None", "value"}
    [] h \in {"quoted", "union", "pipe"} -> UNION {args[i].means : i \in DOMAIN args}
    [] OTHER -> {"value"}

PyType(h, args) ==
  LET a == [h |-> h, hs |-> HeadsOf(args)]
  IN [h |-> h, hs |-> a.hs, contract |-> TranslateReturn(a, args), means |-> Means(h, args)]

Missing == [h |-> "missing", hs |-> << >>]

(* Generators and procedures are translated like unannotated functions.    *)
Contract(f) ==
  IF f.ann = Missing \/ f.generator \/ IsProcedure(f.ann) THEN "no" ELSE f.ann.contract

(* Where a def stands: what encloses it, from the module inwards.  Only    *)
(* defs of the module and of classes in classes are translated.            *)
Collected(place) == \A i \in DOMAIN place : place[i] = "class"

-----------------------------------------------------------------------------
(* The body.  ContainsReturn does not look into nested scopes, and neither *)
(* do the blocks of this model.                                            *)
ContainsReturn(b) == Has(b, Returns)

Exits == {"raise", "exit"}

(* Whether an exit is the end of a path.                                   *)
Readings == {"ends", "runs on"}

MaybeRuns(ir) == If(ir, {})

(* Mutant: all handlers are lost.                                          *)
HandlerChainDropped(hs) == {}

(* All handlers but the last are an if each; the last is the innermost     *)
(* else, for an exception nothing catches leaves the function.             *)
HandlerChain(hs) == Branches(hs)

Translate(k, cl, e) ==
  CASE k \in Exits /\ e = "ends" -> Ret("raise")
    [] k \in Returns -> Ret(IF k = "none" THEN "none" ELSE "opaque")
    [] k = "if" -> If(cl.body.ir[e], cl.else.ir[e])
    [] k \in {"for", "while"} -> MaybeRuns(cl.body.ir[e] \cup cl.else.ir[e])
    [] k = "with" -> cl.body.ir[e]
    [] k = "try" -> If(cl.body.ir[e] \cup cl.else.ir[e], HandlerChain({h.ir[e] : h \in cl.except}))
                      \cup cl.finally.ir[e]
    [] k = "match" -> UNION {MaybeRuns(a.ir[e]) : a \in cl.case}
    [] OTHER -> {}

(* Mutant: an exit is no end of a path anywhere.                           *)
TranslateBodyRunsOn(f) == f.body.ir["runs on"]
(* Mutant: an exit is an end of a path everywhere.                         *)
TranslateBodyExits(f) == f.body.ir["ends"]

(* An exit ends a path only in a function that returns somewhere.          *)
TranslateBody(f) == f.body.ir[IF ContainsReturn(f.body) THEN "ends" ELSE "runs on"]
=============================================================================
