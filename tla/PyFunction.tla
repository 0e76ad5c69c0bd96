----------------------------- MODULE PyFunction -----------------------------
(***************************************************************************)
(* Python functions as the checkers see them, and what running one of them *)
(* can end in.  A function has one variable of interest, x, and one call   *)
(* that may hand back None, p().  The execution is the reference: it is    *)
(* Python's, not this repository's.                                        *)
(***************************************************************************)
EXTENDS Blocks

Simple == {"pass",      (* does not touch x                                *)
           "read",      (* reads x                                         *)
           "call",      (* x = p()                                         *)
           "default",   (* x = p() or "d"                                  *)
           "literal",   (* x = "d"                                         *)
           "other",     (* binds x in another way, to another value        *)
           "late",      (* makes something that reads x when it is run     *)
           "value", "none", "x", "p", "late()",  (* return of that         *)
           "equals",    (* return p() == "d"                               *)
           "raise", "exit", "break", "continue"}

Returns == {"value", "none", "x", "p", "late()", "equals"}

(* The tests of if and while: opaque, the literal True, "x is None", "x",  *)
(* and the same two of (x := p()).                                         *)
Tests == {"c", "true", "none", "some", "wnone", "wsome"}

Compounds ==
  ({"if", "while"} \X Tests) \cup ({"for", "with", "try", "try*"} \X {"-"})
    \cup ({"match"} \X {"partial", "total"})

-----------------------------------------------------------------------------
(* What a block run from a value of x can end in: the pairs of an outcome  *)
(* and the value x has then.  "leak" is the return of p's None.  The mode  *)
(* says whether context managers swallow exceptions.                       *)
Xs == {"none", "ok"}
Modes == {"plain", "suppressing"}
Outcomes == {"next", "return", "return None", "leak", "raise", "break", "continue"}
Ends == Outcomes \X Xs

(* The values of x for which the test may hold, and may fail.              *)
Holds(t, X) == IF t \in {"some", "wsome"} THEN X \cap {"ok"} ELSE X
Fails(t, X) ==
  CASE t = "true" -> {}
    [] t \in {"none", "wnone"} -> X \cap {"ok"}
    [] OTHER -> X

(* x when the test has been evaluated.                                     *)
Tested(t, X) == IF t \in {"wnone", "wsome"} /\ X # {} THEN Xs ELSE X
Faults(t, x) == IF t \in {"wnone", "wsome"} THEN {<<"raise", x>>} ELSE {}

(* Any statement may raise, if only because the program is interrupted.    *)
RunSimple(k, x) ==
  {<<"raise", x>>} \cup
  CASE k \in {"pass", "read", "late"} -> {<<"next", x>>}
    [] k = "call" -> {<<"next", "none">>, <<"next", "ok">>}
    [] k \in {"default", "other", "literal"} -> {<<"next", "ok">>}
    [] k \in {"value", "equals"} -> {<<"return", x>>}
    [] k = "none" -> {<<"return None", x>>}
    [] k \in {"x", "late()"} -> {<<IF x = "none" THEN "leak" ELSE "return", x>>}
    [] k = "p" -> {<<"leak", x>>, <<"return", x>>}
    [] k \in {"break", "continue"} -> {<<k, x>>}
    [] OTHER -> {}

(* The values x may have where rs ends in outcome o, and what running b    *)
(* from one of the values X can end in.                                    *)
After(rs, o) == {y \in Xs : <<o, y>> \in rs}
From(b, v, X) == UNION {b.run[v][y] : y \in X}

RunLoop(t, cl, v, x) ==
  LET Enter(X) == From(cl.body, v, Holds(t, Tested(t, X)))
      Again(X) == X \cup After(Enter(X), "next") \cup After(Enter(X), "continue")
      heads == Again(Again({x}))
      rs == Enter(heads)
  IN Faults(t, x) \cup {r \in rs : r[1] \notin {"next", "continue", "break"}}
       \cup ({"next"} \X After(rs, "break"))
       \cup From(cl.else, v, Fails(t, Tested(t, heads)))

(* A try before its finally.                                               *)
RunTried(cl, v, x) ==
  LET tried == cl.body.run[v][x]
  IN {r \in tried : r[1] # "next"}
       \cup From(cl.else, v, After(tried, "next"))
       \cup UNION {From(h, v, After(tried, "raise")) : h \in cl.except}

RunTry(cl, v, x) ==
  {e \in Ends : \E r \in RunTried(cl, v, x) :
     \/ e[1] # "next" /\ e \in cl.finally.run[v][r[2]]
     \/ e[1] = r[1] /\ <<"next", e[2]>> \in cl.finally.run[v][r[2]]}

RunMatch(t, cl, v, x) ==
  (UNION {a.run[v][x] : a \in cl.case}) \cup IF t = "total" THEN {} ELSE {<<"next", x>>}

Run(k, t, cl, v, x) ==
  CASE k \in Simple -> RunSimple(k, x)
    [] k = "if" -> Faults(t, x) \cup From(cl.body, v, Holds(t, Tested(t, {x})))
                     \cup From(cl.else, v, Fails(t, Tested(t, {x})))
    [] k \in {"while", "for"} -> RunLoop(t, cl, v, x)
    [] k = "with" ->
         LET rs == cl.body.run[v][x]
         IN rs \cup IF v = "suppressing" THEN {"next"} \X After(rs, "raise") ELSE {}
    [] k \in {"try", "try*"} -> RunTry(cl, v, x)
    [] k = "match" -> RunMatch(t, cl, v, x)

(* A block that goes on with statement s.                                  *)
RunOn(b, s, v, x) ==
  {r \in b.run[v][x] : r[1] # "next"} \cup From(s, v, After(b.run[v][x], "next"))

EndsIn(b, v) == {r[1] : r \in b.run[v]["ok"]}
=============================================================================
