--------------------------- MODULE NativeFunction ---------------------------
(***************************************************************************)
(* Functions of Rust and Go, and how running one can end.  The execution   *)
(* is the reference: it is the languages', not this repository's.  Of the  *)
(* calls of a function only those of p() matter, a function of the same    *)
(* file whose result may be a failure.                                     *)
(***************************************************************************)
EXTENDS Blocks

NativeSimple ==
  {"step",     (* a declaration, an assignment, a call of no interest      *)
   "call",     (* x = p()                                                  *)
   "nested",   (* x = f(p()), p() inside another expression                *)
   "method",   (* x = c.p()                                                *)
   "ret",      (* returns a value                                          *)
   "ret p",    (* returns p() or what it makes of it                       *)
   "panic",    (* panics                                                   *)
   "break"}
(* In Rust also "macro", p() in the arguments of a macro; in Go also "var", *)
(* var x = p(), and "defer", defer p() or go p().                          *)

(* In Rust a block may end in an expression, and that is its value: one of *)
(* interest, one of type (), a panic, and a call of p().                   *)
Tails == {"value", "unit", "panics", "p"}

(* if has the test "c", or "init" when it calls p() on the way in.         *)
(* loop has the test "c", or "true" when it is endless.  switch stands for *)
(* match and for switch and select; its arms are all there is ("total") or *)
(* may all be passed by ("partial"), the last of them for its guard        *)
(* ("guarded").  block is a block of its own, labelled or not.  go stands  *)
(* for closures and function literals, whose body is another function's.   *)
RustCompounds ==
  {<<"if", "c">>, <<"if", "init">>, <<"loop", "c">>, <<"loop", "true">>, <<"switch", "total">>,
   <<"switch", "guarded">>, <<"go", "-">>}
GoCompounds ==
  {<<"if", "c">>, <<"if", "init">>, <<"loop", "c">>, <<"loop", "true">>,
   <<"switch", "total">>, <<"switch", "partial">>, <<"block", "-">>, <<"go", "-">>}

(* "next" is the end of the block without a value, "value" with one.       *)
GoesOn == {"next", "value"}

(* How a loop ends when its body ends so.                                  *)
LeaveLoop(ends) ==
  (ends \ (GoesOn \cup {"break"})) \cup {e \in {"next"} : "break" \in ends}

NativeRun(k, t, cl) ==
  CASE k \in {"step", "call", "nested", "method", "macro", "var", "defer", "unit"} ->
           {"next"}
    [] k \in {"value", "p"} -> {"value"}
    [] k \in {"ret", "ret p"} -> {"return"}
    [] k \in {"panic", "panics"} -> {"panic"}
    [] k = "break" -> {"break"}
    [] k = "if" -> cl.body.run \cup cl.else.run
    [] k = "loop" -> LeaveLoop(cl.body.run) \cup {e \in {"next"} : t = "c"}
    [] k = "switch" -> (UNION {a.run : a \in cl.case})
                         \cup IF t = "total" /\ cl.case # {} THEN {} ELSE {"next"}
    [] k = "block" -> cl.body.run
    [] k = "go" -> {"next"}

(* What it ends in when it has called p().  A loop whose body called p()   *)
(* and goes on ends like any other.                                        *)
CallKinds == {"call", "nested", "method", "macro", "var", "defer", "ret p", "p"}
NativeCalled(k, t, cl) ==
  IF k \in CallKinds \/ t = "init" THEN NativeRun(k, t, cl)
  ELSE CASE k = "if" -> cl.body.called \cup cl.else.called
         [] k = "loop" -> LeaveLoop(cl.body.called)
                            \cup (IF cl.body.called \cap GoesOn = {} THEN {} ELSE NativeRun(k, t, cl))
         [] k = "switch" -> UNION {a.called : a \in cl.case}
         [] k = "block" -> cl.body.called
         [] OTHER -> {}

(* A value that ends a block of which nobody takes the value: no Rust      *)
(* compiler lets that pass.  Of the two fates a block's value may have,    *)
(* those it is not made for.                                               *)
Fates == {"taken", "dropped"}
Misplaced(k, cl) ==
  {w \in Fates :
     \/ k \in {"value", "p"} /\ w = "dropped"
     \/ \E b \in Parts(cl) : (IF k \in {"if", "switch"} THEN w ELSE "dropped") \in b.misplaced}

NativeEmpty ==
  [run |-> {"next"}, ir |-> {}, called |-> {}, extracted |-> FALSE, misplaced |-> {},
   within |-> {}]

(* ir is what the adapter translates the statement to, extracted says      *)
(* whether it finds a call of p() in it.                                   *)
NativeStatement(k, t, cl, ir, extracted) ==
  [run |-> NativeRun(k, t, cl), ir |-> ir, called |-> NativeCalled(k, t, cl),
   extracted |-> extracted, misplaced |-> Misplaced(k, cl), within |-> Within(k, t, cl)]

NativeThen(b, s) ==
  [run |-> (b.run \ GoesOn) \cup (IF b.run \cap GoesOn = {} THEN {} ELSE s.run),
   ir |-> b.ir \cup s.ir,
   called |-> (b.called \ GoesOn) \cup (IF b.called \cap GoesOn = {} THEN {} ELSE s.run)
                \cup (IF b.run \cap GoesOn = {} THEN {} ELSE s.called),
   extracted |-> b.extracted \/ s.extracted,
   misplaced |-> {w \in Fates : "dropped" \in b.misplaced \/ w \in s.misplaced},
   within |-> b.within \cup s.within]
=============================================================================
