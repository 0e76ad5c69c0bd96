--------------------------- MODULE MCFunctionFlow ---------------------------
(***************************************************************************)
(* The tasks for TLC: Python's control flow, guards of an Optional, other  *)
(* uses of one, what a short function does under every kind of def line,   *)
(* and the control flow of Rust and Go.                                    *)
(***************************************************************************)
EXTENDS FunctionFlow

Def(lang) ==
  [lang |-> lang, generator |-> FALSE, place |-> << >>, dec |-> << >>, imports |-> << >>,
   namesake |-> FALSE]
Python == Def("python")

Import(as, module, name) == [as |-> as, module |-> module, name |-> name]
ImportLists ==
  {<< >>, <<Import("o", "typing", "overload")>>, <<Import("t", "typing", "")>>,
   <<Import("o", "abc", "abstractmethod"), Import("o", "lib", "overload")>>,
   <<Import("t", "lib", ""), Import("t", "typing", "")>>,
   <<Import("t", "typing", "overload")>>}
Decorators == {<<"", "overload">>, <<"", "o">>, <<"t", "overload">>, <<"abc", "abstractmethod">>,
               <<"t", "o">>}
Places == {<<"class">>, <<"class", "class">>, <<"def">>, <<"branch">>, <<"def", "class">>}

PythonDefs ==
  {[Python EXCEPT !.dec = d, !.imports = i] : d \in Decorators, i \in ImportLists}
  \cup {[Python EXCEPT !.place = p] : p \in Places}
  \cup {[Python EXCEPT !.generator = TRUE]}

FlowGrammar ==
  [simple |-> {"pass", "value", "none", "raise", "break", "continue"},
   compound |-> {<<"if", "c">>, <<"while", "c">>, <<"while", "true">>, <<"for", "-">>, <<"with", "-">>,
                 <<"try", "-">>, <<"try*", "-">>, <<"match", "partial">>, <<"match", "total">>},
   heads |-> {<<"T", 0>>}, types |-> 1, size |-> 4]
TestGrammar ==
  [simple |-> {"call", "literal", "x", "late", "late()", "exit"},
   compound |-> {<<"if", "none">>, <<"if", "some">>, <<"if", "wnone">>, <<"if", "wsome">>,
                 <<"if", "true">>, <<"while", "some">>, <<"while", "wnone">>},
   heads |-> {<<"T", 0>>}, types |-> 1, size |-> 3]
GuardGrammar ==
  [simple |-> {"call", "literal", "x", "raise", "continue", "late", "late()"},
   compound |-> {<<"if", "none">>, <<"if", "some">>, <<"while", "c">>, <<"with", "-">>},
   heads |-> {<<"T", 0>>}, types |-> 1, size |-> 5]
WalrusGrammar ==
  [simple |-> {"x", "raise", "value", "continue", "late()"},
   compound |-> {<<"if", "wnone">>, <<"if", "wsome">>, <<"while", "c">>, <<"with", "-">>},
   heads |-> {<<"T", 0>>}, types |-> 1, size |-> 4]
ShortGrammar ==
  [simple |-> {"pass", "read", "call", "default", "other", "x", "p", "equals", "exit"},
   compound |-> {<<"if", "wsome">>, <<"if", "none">>, <<"try", "-">>},
   heads |-> {<<"T", 0>>, <<"none", 0>>, <<"optional", 1>>}, types |-> 2, size |-> 3]
AnnotationGrammar ==
  [simple |-> {"pass", "read", "default", "other", "p", "equals", "none", "value", "raise"},
   compound |-> {<<"if", "c">>},
   heads |-> {<<"T", 0>>, <<"none", 0>>, <<"optional", 1>>, <<"quoted", 1>>, <<"generic", 1>>,
              <<"pipe", 2>>, <<"union", 1>>, <<"union", 2>>},
   types |-> 2, size |-> 2]
DefGrammar ==
  [simple |-> {"pass", "none", "value", "raise"}, compound |-> {},
   heads |-> {<<"T", 0>>, <<"optional", 1>>}, types |-> 1, size |-> 2]

Rust == Def("rust")
RustPlaces ==
  {[Rust EXCEPT !.place = p] :
     p \in {<<"impl">>, <<"mod">>, <<"fn">>, <<"closure">>, <<"closure", "fn">>}}
RustGrammar ==
  [simple |-> {"step", "call", "ret", "ret p", "panic", "break"} \cup Tails,
   compound |-> RustCompounds \ {<<"if", "init">>}, heads |-> RustHeads, types |-> 2, size |-> 3]

Go == Def("go")
GoGrammar ==
  [simple |-> {"step", "call", "ret", "ret p", "panic", "break"},
   compound |-> GoCompounds \ {<<"block", "-">>}, heads |-> GoHeads, types |-> 2, size |-> 4]
(* Every way to call p(), above all.                                       *)
RustCallGrammar ==
  [simple |-> {"nested", "method", "macro", "call", "p", "value", "ret", "panic"},
   compound |-> {<<"if", "init">>, <<"loop", "c">>, <<"switch", "total">>},
   heads |-> {<<"T", 0>>}, types |-> 1, size |-> 4]
GoCallGrammar ==
  [simple |-> {"nested", "method", "var", "defer", "call", "ret", "ret p", "panic"},
   compound |-> {<<"if", "c">>, <<"if", "init">>, <<"block", "-">>},
   heads |-> {<<"int", 0>>}, types |-> 1, size |-> 4]

Short(g) == [g EXCEPT !.types = 3, !.size = 2]
Of(defs, g) == {[def |-> d, grammar |-> g] : d \in defs}
MCTasks ==
  Of({Python}, FlowGrammar) \cup Of({Python}, GuardGrammar) \cup Of({Python}, WalrusGrammar)
  \cup Of({Python} \cup {[Python EXCEPT !.place = <<p>>] : p \in {"class", "def"}}, ShortGrammar)
  \cup Of({Python}, TestGrammar) \cup Of({Python}, AnnotationGrammar)
  \cup Of(PythonDefs, DefGrammar)
  \cup Of({Rust}, RustGrammar) \cup Of({Go}, GoGrammar)
  \cup Of(RustPlaces \cup {[Rust EXCEPT !.namesake = TRUE]}, Short(RustGrammar))
  \cup Of({Rust}, RustCallGrammar) \cup Of({Go}, GoCallGrammar)
  \cup Of({Go, [Go EXCEPT !.place = <<"func">>]}, Short(GoGrammar))
(* Go's callers only.                                                      *)
MCGoTasks == Of({Go}, GoCallGrammar)
=============================================================================
