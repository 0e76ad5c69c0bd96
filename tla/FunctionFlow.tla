---------------------------- MODULE FunctionFlow ----------------------------
(***************************************************************************)
(* "furqan-lint check" on one function: a developer types the function top *)
(* to bottom, statement by statement, in Python, Rust or Go, and the       *)
(* checkers of its language run on it.  What they report is held against   *)
(* what running the function can end in.  As a statement is typed, each of *)
(* the walks over it, the checkers' and the execution, takes its step, so  *)
(* that what a walk finds is known for a function of any size.             *)
(***************************************************************************)
EXTENDS PyCheckers, RustAdapter, GoAdapter

CONSTANT
  Tasks  (* what a developer may set out to write: a def line, and the     *)
         (* types and statements in use and how many of them               *)

SimpleOf == [python |-> Simple, rust |-> RustSimple, go |-> GoSimple]
CompoundsOf == [python |-> Compounds, rust |-> RustCompounds, go |-> GoCompounds]
HeadsIn == [python |-> PyHeads, rust |-> RustHeads, go |-> GoHeads]
Languages == DOMAIN SimpleOf

(* The def line, without its annotation: whether the body yields, where it *)
(* stands, its decorator and the imports of the module, and whether R3     *)
(* reports another function of its name.                                   *)
Defs ==
  [lang : Languages, generator : BOOLEAN, place : Seq(STRING),
   dec : {<< >>} \cup (STRING \X STRING),
   imports : Seq([as : STRING, module : STRING, name : STRING]), namesake : BOOLEAN]

ASSUME TasksAssumption ==
  \A task \in Tasks :
    LET g == task.grammar
        lang == task.def.lang IN
    /\ task.def \in Defs
    /\ g.simple \subseteq SimpleOf[lang] /\ g.compound \subseteq CompoundsOf[lang]
    /\ g.heads \subseteq HeadsIn[lang]
    /\ g.types \in Nat /\ g.size \in Nat

VARIABLES
  def,       (* the def line, with what its module says around it          *)
  grammar,   (* the types and statements in use                            *)
  types,     (* the types of the annotation, nested ones put together      *)
  open,      (* the blocks being typed, the outermost first                *)
  size,      (* statements typed so far                                    *)
  reports    (* the checkers that reported the function, or Unchecked      *)

vars == <<def, grammar, types, open, size, reports>>

(* The walks of the language.                                              *)
Empty == IF def.lang = "python" THEN PyEmpty ELSE NativeEmpty
Statement(k, t, cl) ==
  CASE def.lang = "python" -> PyStatement(k, t, cl)
    [] def.lang = "rust" -> RustStatement(k, t, cl)
    [] OTHER -> GoStatement(k, t, cl)
Then(b, s) == IF def.lang = "python" THEN PyThen(b, s) ELSE NativeThen(b, s)

Unchecked == {"unchecked"}
Frame(k, t, l) == [k |-> k, t |-> t, done |-> NoClauses(Empty), l |-> l, b |-> Empty]
Top == open[Len(open)]
SetTop(frame) == [open EXCEPT ![Len(open)] = frame]
AppendTo(frame, s) == [frame EXCEPT !.b = Then(@, s)]

Body == open[1].b
Function ==
  [ann |-> IF types = << >> THEN Missing ELSE types[1], types |-> types,
   generator |-> def.generator, place |-> def.place, dec |-> def.dec, imports |-> def.imports,
   namesake |-> def.namesake, body |-> Body]

Init ==
  /\ \E task \in Tasks : def = task.def /\ grammar = task.grammar
  /\ types = << >>
  /\ open = <<Frame("def", "-", "body")>>
  /\ size = 0
  /\ reports = Unchecked

-----------------------------------------------------------------------------
(* The annotation, its arguments before its head.  Go has a list of return *)
(* types, Python and Rust have one at most.                                *)

TypeOf(h, args) ==
  CASE def.lang = "python" -> PyType(h, args)
    [] def.lang = "rust" -> TranslateType(h, args)
    [] OTHER -> [h |-> h]

WriteType(h, n) ==
  /\ reports = Unchecked /\ size = 0 /\ Len(open) = 1
  /\ n <= Len(types) /\ Len(types) - n < grammar.types
  /\ LET rest == Len(types) - n
     IN types' = Append(SubSeq(types, 1, rest), TypeOf(h, SubSeq(types, rest + 1, Len(types))))
  /\ UNCHANGED <<def, grammar, open, size, reports>>

Declared == def.lang = "go" \/ Len(types) <= 1

-----------------------------------------------------------------------------
(* Typing.  Only programs the compiler of the language reads: break and    *)
(* continue in the body of a loop, nothing that leaves a clause of         *)
(* except*, a late reader made before it is run, no empty block in Python, *)
(* nothing after the expression that ends a block in Rust.                 *)

Loops == {"for", "while", "loop"}
InLoop ==
  \E i \in DOMAIN open :
    /\ open[i].k \in Loops /\ open[i].l = "body"
    /\ \A j \in i .. Len(open) : open[j].k # "go" /\ (def.lang = "go" => open[j].k # "switch")
InExceptStar == \E i \in DOMAIN open : open[i].k = "try*" /\ open[i].l = "except"

SomeLateReader ==
  \E i \in DOMAIN open : \E b \in {open[i].b} \cup Parts(open[i].done) : Has(b, {"late"})

MayEnd(b) == def.lang # "python" \/ Filled(b)
MayFollow(b) == def.lang = "rust" => ~Has(b, Tails)

Legal(k) ==
  /\ k \in {"break", "continue"} => InLoop
  /\ k = "late()" => SomeLateReader
  /\ InExceptStar => k \notin Returns \cup {"break", "continue"}

Type(k) ==
  /\ reports = Unchecked /\ size < grammar.size
  /\ Declared /\ Legal(k) /\ MayFollow(Top.b)
  /\ open' = SetTop(AppendTo(Top, Statement(k, "-", NoClauses(Empty))))
  /\ size' = size + 1
  /\ UNCHANGED <<def, grammar, types, reports>>

OpenBlock(k, t) ==
  /\ reports = Unchecked /\ size + 1 < grammar.size
  /\ Declared /\ MayFollow(Top.b)
  /\ open' = Append(open, Frame(k, t, IF k \in {"match", "switch"} THEN "case" ELSE "body"))
  /\ size' = size + 1
  /\ UNCHANGED <<def, grammar, types, reports>>

Following(k, l) ==
  CASE k \in {"if", "for", "while"} /\ l = "body" -> {"else"}
    [] k \in {"match", "switch"} -> {"case"}
    [] k \in {"try", "try*"} /\ l = "body" -> {"except"} \cup (IF k = "try" THEN {"finally"} ELSE {})
    [] k \in {"try", "try*"} /\ l = "except" -> {"except", "else", "finally"}
    [] k \in {"try", "try*"} /\ l = "else" -> {"finally"}
    [] OTHER -> {}

EndClause(frame) ==
  CASE frame.l = "body" -> [frame.done EXCEPT !.body = frame.b]
    [] frame.l = "else" -> [frame.done EXCEPT !.else = frame.b]
    [] frame.l = "finally" -> [frame.done EXCEPT !.finally = frame.b]
    [] frame.l = "except" -> [frame.done EXCEPT !.except = @ \cup {frame.b}]
    [] OTHER -> [frame.done EXCEPT !.case = @ \cup {frame.b},
                                   !.twice = @ \cup ({frame.b} \cap frame.done.case)]

NextClause(l) ==
  /\ reports = Unchecked /\ size < grammar.size
  /\ Len(open) > 1 /\ MayEnd(Top.b)
  /\ l \in Following(Top.k, Top.l)
  /\ open' = SetTop([Frame(Top.k, Top.t, l) EXCEPT !.done = EndClause(Top)])
  /\ UNCHANGED <<def, grammar, types, size, reports>>

CloseBlock ==
  /\ reports = Unchecked
  /\ Len(open) > 1 /\ MayEnd(Top.b)
  /\ ~(Top.k \in {"try", "try*"} /\ Top.l = "body")
  /\ LET below == SubSeq(open, 1, Len(open) - 1)
         s == Statement(Top.k, Top.t, EndClause(Top))
     IN open' = [below EXCEPT ![Len(below)] = AppendTo(@, s)]
  /\ UNCHANGED <<def, grammar, types, size, reports>>

-----------------------------------------------------------------------------
(* The checks.                                                             *)

Check(lang, found) ==
  /\ def.lang = lang /\ reports = Unchecked
  /\ Len(open) = 1 /\ MayEnd(Body) /\ Declared
  /\ reports' = found
  /\ UNCHANGED <<def, grammar, types, open, size>>

CheckPythonModule == Check("python", PythonReports(Function))
CheckRustModule == Check("rust", RustReports(Function))
CheckGoModule == Check("go", GoReports(Function))

Next ==
  \/ \E h \in grammar.heads : WriteType(h[1], h[2])
  \/ \E k \in grammar.simple : Type(k)
  \/ \E s \in grammar.compound : OpenBlock(s[1], s[2])
  \/ \E l \in {"else", "except", "finally", "case"} : NextClause(l)
  \/ CloseBlock
  \/ CheckPythonModule
  \/ CheckRustModule
  \/ CheckGoModule

Spec == Init /\ [][Next]_vars

-----------------------------------------------------------------------------
(* Properties of Python functions.                                         *)

Checked(lang) == reports # Unchecked /\ def.lang = lang

AdmitsNone(a) == "None" \in a.means

(* The decorator is one of the stubs when the module has been run.         *)
Bindings(n) == {i \in DOMAIN def.imports : def.imports[i].as = n}
LastImport(n) == def.imports[CHOOSE i \in Bindings(n) : \A j \in Bindings(n) : j <= i]
IsStub ==
  /\ def.dec # << >>
  /\ IF def.dec[1] = ""
       THEN Bindings(def.dec[2]) # {} /\ LET e == LastImport(def.dec[2]) IN <<e.module, e.name>> \in Stubs
       ELSE /\ Bindings(def.dec[1]) # {}
            /\ LET e == LastImport(def.dec[1]) IN e.name = "" /\ <<e.module, def.dec[2]>> \in Stubs

(* A function that owes its caller a value.  The names of the stubs are    *)
(* skipped whatever they stand for, as zero_return.py says.                *)
OwesValue ==
  /\ types # << >> /\ ~AdmitsNone(types[1]) /\ ~def.generator
  /\ ~IsStub /\ ~(def.dec # << >> /\ NamedLikeStub(Function))

(* Silence is sound.  A function that owes a value and that R3, D24 and    *)
(* return_none all pass neither falls off its end nor returns None,        *)
(* however its loops and handlers nest.  except* is the documented         *)
(* exception: it is not translated.                                        *)
SilenceIsSound ==
  Checked("python") /\ reports \subseteq {"status_coverage"} /\ OwesValue /\ Collected(def.place)
    /\ ~Has(Body, {"try*"})
  => EndsIn(Body, "plain") \cap {"next", "return None"} = {}

(* D11 trusts a guard only where nothing can undo it: not even a context   *)
(* manager that swallows the guard's exit lets the None of p() out of a    *)
(* function D11 is silent about.                                           *)
GuardsHold ==
  Checked("python") /\ OwesValue /\ Collected(def.place)
    /\ "status_coverage" \notin reports
  => "leak" \notin EndsIn(Body, "suppressing")

(* R3's completion analysis is sound: a function without a return it is    *)
(* silent about cannot fall off its end, suppressing managers or not.      *)
ZeroReturnProves ==
  Checked("python") /\ OwesValue /\ ~Has(Body, Returns)
    /\ "zero_return_path" \notin reports
  => "next" \notin EndsIn(Body, "suppressing")

(* Alarms are real.  Outside the limits the README lists, what R3 or D24   *)
(* reports can fall off its end, and R3 reports no generator, no stub and  *)
(* no annotation with a None that is neither quoted nor on the left of |.  *)
R3Limits(h) ==
  \/ h.k \in {"for", "with", "match", "break"} \/ "except" \in h.with
  \/ h.k = "while" /\ "else" \in h.with
  \/ h.k = "if" /\ h.t = "true"
D24Limits(h) ==
  \/ h.k \in {"for", "while"} /\ (h.t = "true" \/ "else" \in h.with)
  \/ h.k = "if" /\ h.t = "true"
  \/ h.k = "try" /\ "except" \notin h.with
  \/ h.k \in {"match", "try*"}
PlainNone(a) ==
  \/ a.h \in {"none", "optional"}
  \/ a.h = "pipe" /\ a.hs[2] = "none"
  \/ a.h = "union" /\ \E i \in DOMAIN a.hs : a.hs[i] = "none"

AlarmsAreReal ==
  Checked("python") =>
  /\ "zero_return_path" \in reports /\ (\A h \in Body.within : ~R3Limits(h))
       => "next" \in EndsIn(Body, "plain")
  /\ "all_paths_return" \in reports /\ (\A h \in Body.within : ~D24Limits(h))
       => "next" \in EndsIn(Body, "plain")
  /\ "zero_return_path" \in reports => ~def.generator /\ ~IsStub /\ ~PlainNone(types[1])

(* R3 and D24 divide the functions between them: never both report one.    *)
NeverBoth ==
  ~({"zero_return_path", "all_paths_return"} \subseteq reports)

-----------------------------------------------------------------------------
(* Properties of Rust and Go functions.                                    *)

Native == Checked("rust") \/ Checked("go")
Concrete ==
  IF def.lang = "rust" THEN RustDeclares(Function) /\ ~RustUnion(Function)
  ELSE TranslateReturnTypes(types) \notin {"no", "T or error"}
Declares ==
  IF def.lang = "rust" THEN RustDeclares(Function) ELSE TranslateReturnTypes(types) # "no"
Visible == IF def.lang = "rust" THEN IterFunctionItems(def.place) ELSE CollectFunctions(def.place)

(* What the adapters do not look into, the calls they do not see, and the  *)
(* ()-expression Rust's takes for a value.                                 *)
HidesPaths(h) == h.k = "loop" \/ (def.lang = "go" /\ h.k \in {"switch", "block"})
HidesCalls(h) ==
  IF def.lang = "rust" THEN h.k = "macro"
  ELSE h.t = "init" \/ h.k \in {"loop", "switch", "block", "nested", "method", "var", "defer", "ret p"}
IsUnit(h) == h.k = "unit"

(* Alarms of the other adapters are real: a function R3 or D24 reports has *)
(* a path on which it gives no value.  Rust counts a panic written as a    *)
(* statement as one; in Go it is, wrongly, a step like any other.          *)
NativeAlarmsAreReal ==
  Native /\ reports \cap {"zero_return_path", "all_paths_return"} # {}
    /\ (\A h \in Body.within : ~HidesPaths(h))
  => Body.run \cap {"next", "panic"} # {}

(* And their silence is sound: a function they take for complete gives a   *)
(* value on every path that ends.  Go has no R3 and says nothing of a      *)
(* function without a return; Rust keeps silent in the shadow of a         *)
(* reported namesake.                                                      *)
NativeSilenceIsSound ==
  Native /\ Declares /\ Visible /\ ~def.namesake
    /\ reports \cap {"zero_return_path", "all_paths_return"} = {}
    /\ (def.lang = "go" => "return" \in Body.run)
    /\ (\A h \in Body.within : ~HidesPaths(h) /\ ~IsUnit(h)) /\ "taken" \notin Body.misplaced
  => "next" \notin Body.run

(* A function that declares one value and may give it although p() was     *)
(* called on the way, and may have failed, is reported, whatever branches  *)
(* and loops the call stands in.  In Rust only a call in the arguments of  *)
(* a macro is not seen; in Go only a call that is all of a statement or of *)
(* the right side of an assignment is, and none in a loop, a switch, a     *)
(* select or a block of its own.                                           *)
FailuresSurface ==
  Native /\ Concrete /\ Visible /\ Body.called \cap {"return", "value"} # {}
    /\ (\A h \in Body.within : ~HidesCalls(h))
  => "status_coverage" \in reports

(* go_adapter/runner.py says that such a function is flagged, the README   *)
(* that loops, switch, select, defer and the methods of interfaces are the *)
(* limits.  A function that gets p()'s result for an argument may see to   *)
(* the failure and is left out here.                                       *)
GoCallersAreFlagged ==
  Checked("go") /\ Concrete /\ Visible /\ "return" \in Body.called
    /\ (\A h \in Body.within : h.k \notin {"loop", "switch", "method", "defer", "nested", "ret p"})
  => "status_coverage" \in reports
=============================================================================
