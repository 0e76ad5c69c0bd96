----------------------------- MODULE RustAdapter -----------------------------
(***************************************************************************)
(* rust_adapter/translator.py and runner.py: a function_item as the        *)
(* translation leaves it, and the reports on it.                           *)
(***************************************************************************)
EXTENDS NativeFunction

RustSimple == NativeSimple \cup Tails \cup {"macro"}
RustHeads == {<<"T", 0>>, <<"result", 0>>, <<"result", 2>>, <<"option", 1>>}

(* Every function of impl, mod, trait, fn and closure is collected; what   *)
(* is a closure itself, the last of its place, is not.                     *)
IterFunctionItems(place) == place # << >> => place[Len(place)] # "closure"

(* The left arm of a nested union stands for it.                           *)
AsTypePath(t) == IF t.h = "union" THEN t.left ELSE t.h

TranslateType(h, args) ==
  IF h \in {"result", "option"} /\ args # << >>
    THEN [h |-> "union", left |-> AsTypePath(args[1]),
          right |-> IF h = "option" THEN "None"
                    ELSE IF Len(args) >= 2 THEN AsTypePath(args[2]) ELSE "unknown"]
    ELSE [h |-> h]

Opaque == If({}, {})

(* Mutant: the last arm may be passed by like the others.                  *)
ArmsToIfChainOpen(arms, guarded) == Branches(arms \cup {{}})

(* Rust checks that the arms are all there is: the last one, unless it has *)
(* a guard, is the innermost else.                                         *)
ArmsToIfChain(arms, guarded) == Branches(arms \cup (IF guarded THEN {{}} ELSE {}))

(* What ends a block without a semicolon is a return, in any block.        *)
TranslateBlock(k, t, cl) ==
  CASE k \in {"ret", "ret p"} \cup Tails -> Ret("opaque")
    [] k = "if" -> If(cl.body.ir, cl.else.ir)
    [] k = "switch" -> ArmsToIfChain({a.ir : a \in cl.case}, t = "guarded")
    [] k = "loop" -> Opaque
    [] OTHER -> {}

(* Every call expression outside closures and nested items.  What stands   *)
(* between the parentheses of a macro is tokens and no expression.         *)
RustExtractCalls(k, t, cl) ==
  \/ k \in {"call", "nested", "method", "ret p", "p"} \/ t = "init"
  \/ k # "go" /\ \E b \in Parts(cl) : b.extracted

RustStatement(k, t, cl) ==
  NativeStatement(k, t, cl, TranslateBlock(k, t, cl), RustExtractCalls(k, t, cl))

RustDeclares(f) == f.types # << >>
RustUnion(f) == f.types[1].h = "union"

(* R3 is ring_close's; where it reports a function, D24 keeps silent about *)
(* all functions of that name.  namesake says whether R3 reports another   *)
(* function with this name.                                                *)
RustReports(f) ==
  LET r3 == RustDeclares(f) /\ ~AnyReturn(f.body.ir)
      r3Names == r3 \/ f.namesake
  IN IF ~IterFunctionItems(f.place) THEN {}
     ELSE {c \in {"zero_return_path"} : r3}
       \cup {c \in {"all_paths_return"} : RustDeclares(f) /\ MissesReturn(f.body.ir) /\ ~r3Names}
       \cup {c \in {"status_coverage"} : RustDeclares(f) /\ ~RustUnion(f) /\ f.body.extracted}
=============================================================================
