----------------------------- MODULE PyCheckers -----------------------------
(***************************************************************************)
(* The checkers of a Python function: R3 (zero_return.py), return_none.py, *)
(* and D24 and D11 of the furqan package on the translation of PyAdapter   *)
(* and PyNarrowing.                                                        *)
(***************************************************************************)
EXTENDS PyNarrowing

(* R3, on the syntax tree itself.                                          *)

AnnotationAllowsNone(a) ==
  IsNone(a) \/ IsOptional(a) \/ IsPipeWithNone(a) \/ IsUnionWithNone(a) \/ IsAllNoneUnion(a)

(* Decorators and imports are pairs of a qualifier and a name; an import   *)
(* of a whole module has the name "".                                      *)
Stubs == {<<"typing", "overload">>, <<"abc", "abstractmethod">>}
BareStubs == {s[2] : s \in Stubs}

(* What a name of the module means: its last import, if it has one.        *)
Meaning(imports, n) ==
  LET i == SelectLastInSeq(imports, LAMBDA e : e.as = n)
  IN IF i = 0 THEN <<"", n>> ELSE <<imports[i].module, imports[i].name>>

(* The decorator is written as one of the stubs, whatever it means.        *)
NamedLikeStub(f) == f.dec \in Stubs \/ (f.dec[1] = "" /\ f.dec[2] \in BareStubs)

HasSkipDecorator(f) ==
  /\ f.dec # << >>
  /\ \/ NamedLikeStub(f)
     \/ f.dec[1] = "" /\ Meaning(f.imports, f.dec[2]) \in Stubs
     \/ f.dec[1] # "" /\ LET q == Meaning(f.imports, f.dec[1])
                         IN q[2] = "" /\ <<q[1], f.dec[2]>> \in Stubs

(* Mutant: a break under anything but an if does not count.                *)
ContainsBreakTop(b) == Has(b, {"break"}) /\ ~Has(b, {"for", "while", "with", "try", "match"})
ContainsBreak(b) == Has(b, {"break"})

CanComplete(k, t, cl) ==
  CASE k \in Returns \cup Exits \cup {"break", "continue"} -> FALSE
    [] k = "if" -> cl.body.completes \/ cl.else.completes
    [] k = "while" /\ t = "true" -> ContainsBreak(cl.body)
    [] k \in {"try", "try*"} ->
         /\ cl.finally.completes
         /\ (cl.body.completes /\ cl.else.completes) \/ cl.except # {}
    [] OTHER -> TRUE

HasAnyReturn(b) == Has(b, Returns)

CheckFunction(f) ==
  /\ f.ann # Missing
  /\ ~AnnotationAllowsNone(f.ann)
  /\ ~HasSkipDecorator(f)
  /\ ~f.generator
  /\ f.body.completes
  /\ ~HasAnyReturn(f.body)

-----------------------------------------------------------------------------
(* return_none, and the reports on a function.                             *)

AllowsNone(contract) == contract \in {"None", "T or None"}

HasNoneReturn(ir) == "none" \in ir

CheckReturnNone(f) ==
  Contract(f) # "no" /\ ~AllowsNone(Contract(f)) /\ HasNoneReturn(TranslateBody(f))

PythonReports(f) ==
  {c \in {"zero_return_path"} : CheckFunction(f)} \cup
  IF ~Collected(f.place) THEN {}
  ELSE {c \in {"all_paths_return"} : Contract(f) # "no" /\ MissesReturn(TranslateBody(f))}
  \cup {c \in {"return_none_mismatch"} : CheckReturnNone(f)}
  \cup {c \in {"status_coverage"} : StatusCoverage(f)}

-----------------------------------------------------------------------------
(* What the walks of a Python body find in it: the ends of running it, its *)
(* translation, whether R3 takes it to complete, the guards of x in it,    *)
(* and its statements.                                                     *)
PyEmpty ==
  [run |-> [v \in Modes |-> [x \in Xs |-> {<<"next", x>>}]],
   ir |-> [e \in Readings |-> {}], completes |-> TRUE,
   narrow |-> NarrowNothing, within |-> {}]

PyStatement(k, t, cl) ==
  [run |-> [v \in Modes |-> [x \in Xs |-> Run(k, t, cl, v, x)]],
   ir |-> [e \in Readings |-> Translate(k, cl, e)],
   completes |-> CanComplete(k, t, cl), narrow |-> Narrow(k, t, cl),
   within |-> Within(k, t, cl)]

PyThen(b, s) ==
  [run |-> [v \in Modes |-> [x \in Xs |-> RunOn(b, s, v, x)]],
   ir |-> [e \in Readings |-> b.ir[e] \cup s.ir[e]],
   completes |-> b.completes /\ s.completes, narrow |-> NarrowOn(b, s),
   within |-> b.within \cup s.within]
=============================================================================
