------------------------------ MODULE GoAdapter ------------------------------
(***************************************************************************)
(* cmd/goast/main.go and go_adapter: a Go function as goast prints it, as  *)
(* the translation reads it, and the reports on it.                        *)
(***************************************************************************)
EXTENDS NativeFunction

GoSimple == NativeSimple \cup {"var", "defer"}
GoHeads == {<<"int", 0>>, <<"error", 0>>}

(* The kinds goast tells apart: a step is an assignment or a call here.    *)
(* It prints of an if neither condition nor init statement, of a return no *)
(* call, and of what is opaque nothing at all.                             *)
ConvertStatement(k) ==
  CASE k \in {"ret", "ret p"} -> "return"
    [] k = "if" -> "if"
    [] k \in {"step", "call", "nested", "method", "panic"} -> "assign"
    [] OTHER -> "opaque"

(* Return types: none, one, (T, error), another pair, more.                *)
TranslateReturnTypes(types) ==
  CASE types = << >> -> "no"
    [] Len(types) = 1 -> "T"
    [] Len(types) = 2 /\ types[2].h = "error" -> "T or error"
    [] OTHER -> "opaque"

(* Mutant: the else of an if is not walked.                                *)
GoElseDropped(cl) == NativeEmpty
(* Mutant: an if without an else has its body for one.                     *)
GoElseRepeats(cl) == IF Filled(cl.else) THEN cl.else ELSE cl.body
GoElse(cl) == cl.else

GoTranslate(k, cl) ==
  CASE ConvertStatement(k) = "return" -> Ret("opaque")
    [] ConvertStatement(k) = "if" -> If(cl.body.ir, GoElse(cl).ir)
    [] ConvertStatement(k) = "assign" -> {}
    [] OTHER -> If({}, {})

(* Of the right side of an assignment goast prints the outermost call, by  *)
(* its whole name: p() within f(p()) is lost, and c.p is not p.            *)
GoExtractCalls(k, cl) ==
  \/ ConvertStatement(k) = "assign" /\ k = "call"
  \/ ConvertStatement(k) = "if" /\ (cl.body.extracted \/ GoElse(cl).extracted)

GoStatement(k, t, cl) ==
  NativeStatement(k, t, cl, GoTranslate(k, cl), GoExtractCalls(k, cl))

(* goast lists the functions and methods of the file, no function literal. *)
CollectFunctions(place) == place = << >>

GoReports(f) ==
  LET t == TranslateReturnTypes(f.types) IN
  IF ~CollectFunctions(f.place) THEN {}
  ELSE {c \in {"all_paths_return"} : t # "no" /\ MissesReturn(f.body.ir)}
    \cup {c \in {"status_coverage"} : t \notin {"no", "T or error"} /\ f.body.extracted}
=============================================================================
