------------------------- MODULE FunctionFlowProofs -------------------------
(***************************************************************************)
(* Proofs about FunctionFlow: the inductive invariant FlowInv, and from it *)
(* the properties of the checkers of the three languages.                  *)
(*                                                                         *)
(* PySound, RustSound and GoSound are the relations a block is in, as told *)
(* in PyBlockProofs; FlowInv says that every open block and every clause   *)
(* typed so far is.                                                        *)
(***************************************************************************)
EXTENDS PyBlockProofs, SequenceTheorems, WellFoundedInduction

-----------------------------------------------------------------------------
(* Rust and Go.  H is the set of the statements the adapter does not look  *)
(* into.                                                                   *)
RustHidden == {"loop"}
GoHidden == {"loop", "switch", "block"}
RustKinds == RustSimple \cup {"if", "loop", "switch", "go"}
GoKinds == GoSimple \cup {"if", "loop", "switch", "block", "go"}
(* The calls it does not see: in these statements, and in those with a     *)
(* test of GoLostIn.                                                       *)
RustLost == {"macro"}
GoLost == GoHidden \cup {"nested", "method", "var", "defer", "ret p"}
GoLostIn == {"init"}

Shown(b, H) == \A h \in b.within : h.k \notin H

AlwaysIsReturn(b) == "always" \in b.ir => "returns" \in b.ir
DroppedIsWorse(b) == "taken" \in b.misplaced => "dropped" \in b.misplaced
NativeMissReal(b, H) ==
  "always" \notin b.ir /\ Shown(b, H) => b.run \cap {"next", "panic", "break"} # {}
NativeAlways(b, H) ==
  "always" \in b.ir /\ Shown(b, H \cup {"unit"}) =>
    /\ "taken" \notin b.misplaced => "next" \notin b.run
    /\ "dropped" \notin b.misplaced => "next" \notin b.run /\ "value" \notin b.run
ReturnFound(b, H) == "return" \in b.run /\ Shown(b, H) => "returns" \in b.ir
CallsFound(b, J, I) ==
  b.called # {} /\ Shown(b, J) /\ (\A h \in b.within : h.t \notin I) => b.extracted

RustSound(b) ==
  /\ AlwaysIsReturn(b) /\ DroppedIsWorse(b) /\ NativeMissReal(b, RustHidden)
  /\ NativeAlways(b, RustHidden) /\ CallsFound(b, RustLost, {})
GoSound(b) ==
  /\ AlwaysIsReturn(b) /\ DroppedIsWorse(b) /\ NativeMissReal(b, GoHidden)
  /\ NativeAlways(b, GoHidden) /\ ReturnFound(b, GoHidden)
  /\ CallsFound(b, GoLost, GoLostIn)

(* The clauses a statement of Go has.                                      *)
NativeFormed(k, cl) ==
  \A b \in Parts(cl) :
    \/ b = NativeEmpty
    \/ k = "if" /\ b \in {cl.body, cl.else}
    \/ k \in {"loop", "switch", "block", "go"}

(* The fields of a statement of Rust or Go, and of a block that goes on    *)
(* with one.                                                               *)
LEMMA NativeFields ==
  ASSUME NEW k, NEW t, NEW cl, NEW ir, NEW extracted
  PROVE  LET S == NativeStatement(k, t, cl, ir, extracted) IN
         /\ S.run = NativeRun(k, t, cl)
         /\ S.ir = ir
         /\ S.called = NativeCalled(k, t, cl)
         /\ S.extracted = extracted
         /\ S.misplaced = Misplaced(k, cl)
         /\ S.within = Within(k, t, cl)
BY DEF NativeStatement

LEMMA NativeThenFields ==
  ASSUME NEW b, NEW s
  PROVE  LET S == NativeThen(b, s) IN
         /\ S.run = (b.run \ {"next", "value"})
                      \cup (IF b.run \cap {"next", "value"} = {} THEN {} ELSE s.run)
         /\ S.ir = b.ir \cup s.ir
         /\ S.called # {} => b.called # {} \/ s.called # {}
         /\ S.extracted <=> b.extracted \/ s.extracted
         /\ S.misplaced = {w \in Fates : "dropped" \in b.misplaced \/ w \in s.misplaced}
         /\ S.within = b.within \cup s.within
BY DEF NativeThen, GoesOn

(* What a statement shows its clauses show.                                *)
LEMMA NativeShown ==
  ASSUME NEW k, NEW t, NEW cl, NEW ir, NEW extracted, NEW H
  PROVE  Shown(NativeStatement(k, t, cl, ir, extracted), H)
           => k \notin H /\ \A b \in Parts(cl) : Shown(b, H)
<1> DEFINE S == NativeStatement(k, t, cl, ir, extracted)
<1>1. S.within = Within(k, t, cl)
  BY NativeFields
<1>2. /\ Heading(k, t, cl) \in S.within
      /\ \A b \in Parts(cl) : b.within \subseteq S.within
      /\ Heading(k, t, cl).k = k
  BY <1>1 DEF Within, Heading
<1>3. QED
  BY <1>2 DEF Shown

LEMMA NativeThenShown ==
  ASSUME NEW b, NEW s, NEW H
  PROVE  Shown(NativeThen(b, s), H) => Shown(b, H) /\ Shown(s, H)
<1>1. NativeThen(b, s).within = b.within \cup s.within
  BY NativeThenFields
<1>2. QED
  BY <1>1 DEF Shown

LEMMA NativeStatementWorse ==
  ASSUME NEW k, NEW t, NEW cl, NEW ir, NEW extracted, \A b \in Parts(cl) : DroppedIsWorse(b)
  PROVE  DroppedIsWorse(NativeStatement(k, t, cl, ir, extracted))
<1>1. "taken" \in Misplaced(k, cl) => "dropped" \in Misplaced(k, cl)
  BY DEF Misplaced, Fates, DroppedIsWorse
<1>2. NativeStatement(k, t, cl, ir, extracted).misplaced = Misplaced(k, cl)
  BY NativeFields
<1>3. QED
  BY <1>1, <1>2 DEF DroppedIsWorse

(* What holds of two blocks holds of one after the other.                  *)
LEMMA NativeThenSound ==
  ASSUME NEW b, NEW s, NEW H, NEW J, NEW I, AlwaysIsReturn(b), AlwaysIsReturn(s),
         DroppedIsWorse(b), DroppedIsWorse(s), NativeMissReal(b, H), NativeMissReal(s, H),
         NativeAlways(b, H), NativeAlways(s, H), CallsFound(b, J, I), CallsFound(s, J, I)
  PROVE  LET S == NativeThen(b, s) IN
         /\ AlwaysIsReturn(S) /\ DroppedIsWorse(S) /\ NativeMissReal(S, H)
         /\ NativeAlways(S, H) /\ CallsFound(S, J, I)
<1> DEFINE S == NativeThen(b, s)
<1>0. /\ S.run = (b.run \ {"next", "value"})
                      \cup (IF b.run \cap {"next", "value"} = {} THEN {} ELSE s.run)
      /\ S.ir = b.ir \cup s.ir
      /\ S.called # {} => b.called # {} \/ s.called # {}
      /\ S.extracted <=> b.extracted \/ s.extracted
      /\ S.misplaced = {w \in Fates : "dropped" \in b.misplaced \/ w \in s.misplaced}
      /\ S.within = b.within \cup s.within
  BY NativeThenFields
<1> HIDE DEF S
<1>1. AlwaysIsReturn(S)
  BY <1>0 DEF AlwaysIsReturn
<1>2. DroppedIsWorse(S)
  BY <1>0 DEF DroppedIsWorse, Fates
<1>3. NativeMissReal(S, H)
  <2> SUFFICES ASSUME "always" \notin S.ir, Shown(S, H)
               PROVE  S.run \cap {"next", "panic", "break"} # {}
    BY DEF NativeMissReal
  <2>1. Shown(b, H) /\ Shown(s, H)
    BY NativeThenShown DEF S
  <2>2. /\ b.run \cap {"next", "panic", "break"} # {}
        /\ s.run \cap {"next", "panic", "break"} # {}
    BY <1>0, <2>1 DEF NativeMissReal
  <2>3. CASE "next" \in b.run
    BY <1>0, <2>2, <2>3
  <2>4. CASE "next" \notin b.run
    BY <1>0, <2>2, <2>4
  <2>5. QED
    BY <2>3, <2>4
<1>4. NativeAlways(S, H)
  <2> SUFFICES ASSUME "always" \in S.ir, Shown(S, H \cup {"unit"})
               PROVE  /\ "taken" \notin S.misplaced => "next" \notin S.run
                      /\ "dropped" \notin S.misplaced => "next" \notin S.run /\ "value" \notin S.run
    BY DEF NativeAlways
  <2>1. Shown(b, H \cup {"unit"}) /\ Shown(s, H \cup {"unit"})
    BY NativeThenShown DEF S
  <2>2. \A w \in Fates : w \notin S.misplaced => "dropped" \notin b.misplaced /\ w \notin s.misplaced
    BY <1>0
  <2>3. CASE "always" \in b.ir
    <3>1. "dropped" \notin b.misplaced => b.run \cap {"next", "value"} = {}
      BY <2>1, <2>3 DEF NativeAlways
    <3>2. "dropped" \notin b.misplaced => "next" \notin S.run /\ "value" \notin S.run
      BY <1>0, <3>1
    <3>3. QED
      BY <2>2, <3>2 DEF Fates
  <2>4. CASE "always" \in s.ir
    <3>1. /\ "taken" \notin s.misplaced => "next" \notin s.run
          /\ "dropped" \notin s.misplaced => "next" \notin s.run /\ "value" \notin s.run
      BY <2>1, <2>4 DEF NativeAlways
    <3>2. QED
      BY <1>0, <2>2, <3>1 DEF Fates
  <2>5. QED
    BY <1>0, <2>3, <2>4
<1>5. CallsFound(S, J, I)
  <2> SUFFICES ASSUME S.called # {}, Shown(S, J), \A h \in S.within : h.t \notin I
               PROVE  S.extracted
    BY DEF CallsFound
  <2>1. Shown(b, J) /\ Shown(s, J)
    BY NativeThenShown DEF S
  <2>2. QED
    BY <1>0, <2>1 DEF CallsFound
<1>6. QED
  BY <1>1, <1>2, <1>3, <1>4, <1>5 DEF S

LEMMA NativeThenReturn ==
  ASSUME NEW b, NEW s, NEW H, ReturnFound(b, H), ReturnFound(s, H)
  PROVE  ReturnFound(NativeThen(b, s), H)
<1> DEFINE S == NativeThen(b, s)
<1> SUFFICES ASSUME "return" \in S.run, Shown(S, H)
             PROVE  "returns" \in S.ir
  BY DEF ReturnFound
<1>1. Shown(b, H) /\ Shown(s, H)
  BY NativeThenShown
<1>2. "return" \in b.run \/ "return" \in s.run
  BY NativeThenFields
<1>3. S.ir = b.ir \cup s.ir
  BY NativeThenFields
<1>4. QED
  BY <1>1, <1>2, <1>3 DEF ReturnFound

LEMMA NativeEmptyFields ==
  /\ NativeEmpty.run = {"next"} /\ NativeEmpty.ir = {} /\ NativeEmpty.misplaced = {}
  /\ NativeEmpty.called = {} /\ NativeEmpty.within = {}
BY DEF NativeEmpty

LEMMA NativeEmptySound == RustSound(NativeEmpty) /\ GoSound(NativeEmpty)
<1>1. AlwaysIsReturn(NativeEmpty) /\ DroppedIsWorse(NativeEmpty)
  BY NativeEmptyFields DEF AlwaysIsReturn, DroppedIsWorse
<1>2. ASSUME NEW H, NEW I
      PROVE  /\ NativeMissReal(NativeEmpty, H) /\ NativeAlways(NativeEmpty, H)
             /\ ReturnFound(NativeEmpty, H) /\ CallsFound(NativeEmpty, H, I)
  BY NativeEmptyFields DEF NativeMissReal, NativeAlways, ReturnFound, CallsFound
<1>3. QED
  BY <1>1, <1>2 DEF RustSound, GoSound

(* What an if and a choice of arms translate to.                           *)
LEMMA RustAnswers ==
  ASSUME NEW k \in RustKinds, NEW t, NEW cl
  PROVE  /\ "always" \in TranslateBlock(k, t, cl) <=>
              \/ k \in {"ret", "ret p"} \cup Tails
              \/ k = "if" /\ "always" \in cl.body.ir /\ "always" \in cl.else.ir
              \/ /\ k = "switch" /\ t # "guarded" /\ cl.case # {}
                 /\ \A a \in cl.case : "always" \in a.ir
         /\ "returns" \in TranslateBlock(k, t, cl) <=>
              \/ k \in {"ret", "ret p"} \cup Tails
              \/ k = "if" /\ ("returns" \in cl.body.ir \/ "returns" \in cl.else.ir)
              \/ k = "switch" /\ \E a \in cl.case : "returns" \in a.ir
<1> DEFINE T == TranslateBlock(k, t, cl)
<1>1. CASE k \in {"ret", "ret p"} \cup Tails
  <2>1. T = Ret("opaque") /\ k \notin {"if", "switch"}
    BY <1>1 DEF TranslateBlock, Tails
  <2>2. QED
    BY <1>1, <2>1 DEF Ret
<1>2. CASE k = "if"
  <2>1. T = If(cl.body.ir, cl.else.ir) /\ k \notin {"ret", "ret p"} \cup Tails
    BY <1>2 DEF TranslateBlock, Tails
  <2>2. QED
    BY <1>2, <2>1, IfAnswers
<1>3. CASE k = "switch"
  <2> DEFINE bs == {a.ir : a \in cl.case} \cup (IF t = "guarded" THEN {{}} ELSE {})
  <2>1. T = Branches(bs) /\ k \notin {"ret", "ret p"} \cup Tails
    BY <1>3 DEF TranslateBlock, Tails, ArmsToIfChain
  <2>2. \A a : a \in Branches(bs) <=>
           \/ a # "always" /\ \E b \in bs : a \in b
           \/ a = "always" /\ bs # {} /\ \A b \in bs : a \in b
    BY BranchAnswers
  <2>3. /\ (bs # {} /\ \A b \in bs : "always" \in b)
             <=> (t # "guarded" /\ cl.case # {} /\ \A a \in cl.case : "always" \in a.ir)
        /\ (\E b \in bs : "returns" \in b) <=> (\E a \in cl.case : "returns" \in a.ir)
    <3>1. CASE t = "guarded"
      <4>1. {} \in bs
        BY <3>1
      <4>2. \A b \in bs : b = {} \/ \E a \in cl.case : b = a.ir
        BY <3>1
      <4>3. \A a \in cl.case : a.ir \in bs
        OBVIOUS
      <4> HIDE DEF bs
      <4>4. QED
        BY <3>1, <4>1, <4>2, <4>3
    <3>2. CASE t # "guarded"
      <4>1. bs = {a.ir : a \in cl.case}
        BY <3>2
      <4> HIDE DEF bs
      <4>2. QED
        BY <3>2, <4>1
    <3>3. QED
      BY <3>1, <3>2
  <2> HIDE DEF bs
  <2>4. QED
    BY <1>3, <2>1, <2>2, <2>3
<1>4. CASE k = "loop"
  <2>1. T = If({}, {}) /\ k \notin {"ret", "ret p"} \cup Tails
    BY <1>4 DEF TranslateBlock, Tails, Opaque
  <2>2. QED
    BY <1>4, <2>1, IfAnswers
<1>5. CASE k \notin {"ret", "ret p", "if", "switch", "loop"} \cup Tails
  <2>1. T = {}
    BY <1>5 DEF TranslateBlock
  <2>2. QED
    BY <1>5, <2>1
<1>6. QED
  BY <1>1, <1>2, <1>3, <1>4, <1>5

(* A switch ends as one of its arms unless it may be passed by.            *)
LEMMA NativeSwitchEnds ==
  ASSUME NEW t, NEW cl
  PROVE  /\ \A a \in cl.case : a.run \subseteq NativeRun("switch", t, cl)
         /\ \A r \in NativeRun("switch", t, cl) : r = "next" \/ \E a \in cl.case : r \in a.run
         /\ t = "total" /\ cl.case # {} =>
              \A r \in NativeRun("switch", t, cl) : \E a \in cl.case : r \in a.run
         /\ t # "total" \/ cl.case = {} => "next" \in NativeRun("switch", t, cl)
BY DEF NativeRun

(* A statement calls p() itself or in one of its clauses.                  *)
LEMMA CalledParts ==
  ASSUME NEW k, NEW t, NEW cl, NativeCalled(k, t, cl) # {}
  PROVE  \/ k \in CallKinds \/ t = "init"
         \/ k \in {"if", "loop", "switch", "block"} /\ \E b \in Parts(cl) : b.called # {}
<1> SUFFICES ASSUME k \notin CallKinds, t # "init"
             PROVE  k \in {"if", "loop", "switch", "block"} /\ \E b \in Parts(cl) : b.called # {}
  OBVIOUS
<1>1. cl.body \in Parts(cl) /\ cl.else \in Parts(cl) /\ cl.case \subseteq Parts(cl)
  BY DEF Parts
<1>2. CASE k \in {"if", "block"}
  BY <1>1, <1>2 DEF NativeCalled
<1>3. CASE k = "loop"
  BY <1>1, <1>3 DEF NativeCalled, LeaveLoop
<1>4. CASE k = "switch"
  <2>1. PICK a \in cl.case : a.called # {}
    BY <1>4 DEF NativeCalled
  <2>2. QED
    BY <1>1, <1>4, <2>1
<1>5. CASE k \notin {"if", "loop", "switch", "block"}
  BY <1>5 DEF NativeCalled
<1>6. QED
  BY <1>2, <1>3, <1>4, <1>5

(* A statement of Rust keeps RustSound.                                    *)
LEMMA RustStatementSound ==
  ASSUME NEW k \in RustKinds, NEW t, NEW cl, \A b \in Parts(cl) : RustSound(b),
         k = "switch" => t \in {"total", "guarded"}
  PROVE  RustSound(RustStatement(k, t, cl))
<1> DEFINE T == TranslateBlock(k, t, cl)
           X == RustExtractCalls(k, t, cl)
           S == NativeStatement(k, t, cl, T, X)
           R == NativeRun(k, t, cl)
           M == Misplaced(k, cl)
<1>0. /\ S.run = R /\ S.ir = T
      /\ S.called = NativeCalled(k, t, cl)
      /\ S.extracted = X /\ S.misplaced = M
  BY NativeFields
<1>a. \A H : Shown(S, H) => k \notin H /\ \A b \in Parts(cl) : Shown(b, H)
  BY NativeShown
<1>b. cl.body \in Parts(cl) /\ cl.else \in Parts(cl) /\ cl.case \subseteq Parts(cl)
  BY DEF Parts
<1>c. DroppedIsWorse(S)
  BY NativeStatementWorse DEF RustSound
<1>r. /\ k \in {"step", "call", "nested", "method", "macro", "unit", "go"} => R = {"next"}
      /\ k \in {"value", "p"} => R = {"value"}
      /\ k \in {"ret", "ret p"} => R = {"return"}
      /\ k \in {"panic", "panics"} => R = {"panic"}
      /\ k = "break" => R = {"break"}
      /\ k = "if" => R = cl.body.run \cup cl.else.run
  BY DEF NativeRun
<1> HIDE DEF S, T, R, M, X
<1>1. AlwaysIsReturn(S)
  <2>1. \A b \in Parts(cl) : "always" \in b.ir => "returns" \in b.ir
    BY DEF RustSound, AlwaysIsReturn
  <2>2. "always" \in T => "returns" \in T
    BY <1>b, <2>1, RustAnswers DEF T
  <2>3. QED
    BY <1>0, <2>2 DEF AlwaysIsReturn
<1>2. NativeMissReal(S, RustHidden)
  <2> SUFFICES ASSUME "always" \notin T, Shown(S, RustHidden)
               PROVE  R \cap {"next", "panic", "break"} # {}
    BY <1>0 DEF NativeMissReal
  <2>1. k # "loop" /\ \A b \in Parts(cl) : Shown(b, RustHidden)
    BY <1>a DEF RustHidden
  <2>2. \A b \in Parts(cl) : "always" \notin b.ir => b.run \cap {"next", "panic", "break"} # {}
    BY <2>1 DEF RustSound, NativeMissReal
  <2>3. /\ k \notin {"ret", "ret p"} \cup Tails
        /\ k = "if" => "always" \notin cl.body.ir \/ "always" \notin cl.else.ir
        /\ k = "switch" => t = "guarded" \/ cl.case = {} \/ \E a \in cl.case : "always" \notin a.ir
    BY RustAnswers DEF T
  <2>4. CASE k = "if"
    BY <1>b, <2>2, <2>3, <2>4, <1>r
  <2>5. CASE k = "switch"
    <3>1. CASE t = "guarded" \/ cl.case = {}
      BY <2>5, <3>1, NativeSwitchEnds DEF R
    <3>2. CASE \E a \in cl.case : "always" \notin a.ir
      <4>1. PICK a \in cl.case : "always" \notin a.ir
        BY <3>2
      <4>2. a.run \cap {"next", "panic", "break"} # {}
        BY <1>b, <2>2, <4>1
      <4>3. a.run \subseteq R
        BY <2>5, NativeSwitchEnds DEF R
      <4>4. QED
        BY <4>2, <4>3
    <3>3. QED
      BY <2>3, <2>5, <3>1, <3>2
  <2>6. CASE k \in {"step", "call", "nested", "method", "macro", "panic", "break", "go"}
    BY <2>6, <1>r
  <2>7. QED
    BY <2>1, <2>3, <2>4, <2>5, <2>6 DEF RustKinds, RustSimple, NativeSimple, Tails
<1>3. NativeAlways(S, RustHidden)
  <2> SUFFICES ASSUME "always" \in T, Shown(S, RustHidden \cup {"unit"})
               PROVE  /\ "taken" \notin M => "next" \notin R
                      /\ "dropped" \notin M => "next" \notin R /\ "value" \notin R
    BY <1>0 DEF NativeAlways
  <2>1. k \notin RustHidden \cup {"unit"} /\ \A b \in Parts(cl) : Shown(b, RustHidden \cup {"unit"})
    BY <1>a
  <2>2. \A b \in Parts(cl) : "always" \in b.ir =>
          /\ "taken" \notin b.misplaced => "next" \notin b.run
          /\ "dropped" \notin b.misplaced => "next" \notin b.run /\ "value" \notin b.run
    BY <2>1 DEF RustSound, NativeAlways
  <2>3. \/ k \in {"ret", "ret p"} \cup Tails
        \/ k = "if" /\ "always" \in cl.body.ir /\ "always" \in cl.else.ir
        \/ /\ k = "switch" /\ t # "guarded" /\ cl.case # {}
           /\ \A a \in cl.case : "always" \in a.ir
    BY RustAnswers DEF T
  <2>4. CASE k \in {"ret", "ret p"} \cup Tails
    <3>1. k \in {"value", "p"} => "dropped" \in M
      BY DEF M, Misplaced, Fates
    <3>2. QED
      BY <2>1, <2>4, <3>1, <1>r DEF Tails
  <2>5. k \in {"if", "switch"} =>
          \A w \in Fates : w \notin M => \A b \in Parts(cl) : w \notin b.misplaced
    BY DEF M, Misplaced
  <2>6. CASE k = "if" /\ "always" \in cl.body.ir /\ "always" \in cl.else.ir
    BY <1>b, <2>2, <2>5, <2>6, <1>r DEF Fates
  <2>7. CASE /\ k = "switch" /\ t # "guarded" /\ cl.case # {}
             /\ \A a \in cl.case : "always" \in a.ir
    <3>1. \A r \in R : \E a \in cl.case : r \in a.run
      BY <2>7, NativeSwitchEnds DEF R
    <3>2. QED
      BY <1>b, <2>2, <2>5, <2>7, <3>1 DEF Fates
  <2>8. QED
    BY <2>3, <2>4, <2>6, <2>7
<1>4. CallsFound(S, RustLost, {})
  <2> SUFFICES ASSUME S.called # {}, Shown(S, RustLost)
               PROVE  X
    BY <1>0 DEF CallsFound
  <2>1. k # "macro" /\ \A b \in Parts(cl) : b.called # {} => b.extracted
    BY <1>a DEF RustSound, CallsFound, RustLost
  <2>2. \/ k \in CallKinds \/ t = "init"
        \/ k \in {"if", "loop", "switch", "block"} /\ \E b \in Parts(cl) : b.called # {}
    BY <1>0, CalledParts
  <2>3. k \notin {"var", "defer"}
    BY DEF RustKinds, RustSimple, NativeSimple, Tails
  <2>4. QED
    BY <2>1, <2>2, <2>3 DEF X, RustExtractCalls, CallKinds
<1>5. QED
  BY <1>c, <1>1, <1>2, <1>3, <1>4 DEF RustSound, RustStatement, S, T, X

(* What the translation of a Go statement answers.                         *)
LEMMA GoAnswers ==
  ASSUME NEW k \in GoKinds, NEW cl
  PROVE  /\ "always" \in GoTranslate(k, cl) <=>
              \/ k \in {"ret", "ret p"}
              \/ k = "if" /\ "always" \in cl.body.ir /\ "always" \in cl.else.ir
         /\ "returns" \in GoTranslate(k, cl) <=>
              \/ k \in {"ret", "ret p"}
              \/ k = "if" /\ ("returns" \in cl.body.ir \/ "returns" \in cl.else.ir)
<1> DEFINE T == GoTranslate(k, cl)
<1>1. CASE k \in {"ret", "ret p"}
  <2>1. T = Ret("opaque")
    BY <1>1 DEF GoTranslate, ConvertStatement
  <2>2. QED
    BY <1>1, <2>1 DEF Ret
<1>2. CASE k = "if"
  <2>1. T = If(cl.body.ir, cl.else.ir)
    BY <1>2 DEF GoTranslate, ConvertStatement, GoElse
  <2>2. QED
    BY <1>2, <2>1, IfAnswers
<1>3. CASE k \in {"step", "call", "nested", "method", "panic"}
  <2>1. T = {}
    BY <1>3 DEF GoTranslate, ConvertStatement
  <2>2. QED
    BY <1>3, <2>1
<1>4. CASE k \in {"break", "var", "defer", "loop", "switch", "block", "go"}
  <2>1. T = If({}, {})
    BY <1>4 DEF GoTranslate, ConvertStatement
  <2>2. QED
    BY <1>4, <2>1, IfAnswers
<1>5. QED
  BY <1>1, <1>2, <1>3, <1>4 DEF GoKinds, GoSimple, NativeSimple

(* A statement of Go keeps GoSound.                                        *)
LEMMA GoStatementSound ==
  ASSUME NEW k \in GoKinds, NEW t, NEW cl, NativeFormed(k, cl), \A b \in Parts(cl) : GoSound(b)
  PROVE  GoSound(GoStatement(k, t, cl))
<1> DEFINE T == GoTranslate(k, cl)
           X == GoExtractCalls(k, cl)
           S == NativeStatement(k, t, cl, T, X)
           R == NativeRun(k, t, cl)
           M == Misplaced(k, cl)
<1>0. /\ S.run = R /\ S.ir = T
      /\ S.called = NativeCalled(k, t, cl)
      /\ S.extracted = X /\ S.misplaced = M
  BY NativeFields
<1>a. \A H : Shown(S, H) => k \notin H /\ \A b \in Parts(cl) : Shown(b, H)
  BY NativeShown
<1>b. cl.body \in Parts(cl) /\ cl.else \in Parts(cl)
  BY DEF Parts
<1>c. DroppedIsWorse(S)
  BY NativeStatementWorse DEF GoSound
<1>r. /\ k \in {"step", "call", "nested", "method", "var", "defer", "go"} => R = {"next"}
      /\ k \in {"ret", "ret p"} => R = {"return"}
      /\ k = "panic" => R = {"panic"}
      /\ k = "break" => R = {"break"}
      /\ k = "if" => R = cl.body.run \cup cl.else.run
  BY DEF NativeRun
<1>s. S.within = Within(k, t, cl)
  BY NativeFields
<1> HIDE DEF S, T, R, M, X
<1>1. AlwaysIsReturn(S)
  <2>1. \A b \in Parts(cl) : "always" \in b.ir => "returns" \in b.ir
    BY DEF GoSound, AlwaysIsReturn
  <2>2. "always" \in T => "returns" \in T
    BY <1>b, <2>1, GoAnswers DEF T
  <2>3. QED
    BY <1>0, <2>2 DEF AlwaysIsReturn
<1>2. NativeMissReal(S, GoHidden)
  <2> SUFFICES ASSUME "always" \notin T, Shown(S, GoHidden)
               PROVE  R \cap {"next", "panic", "break"} # {}
    BY <1>0 DEF NativeMissReal
  <2>1. k \notin GoHidden /\ \A b \in Parts(cl) : Shown(b, GoHidden)
    BY <1>a
  <2>2. \A b \in Parts(cl) : "always" \notin b.ir => b.run \cap {"next", "panic", "break"} # {}
    BY <2>1 DEF GoSound, NativeMissReal
  <2>3. /\ k \notin {"ret", "ret p"}
        /\ k = "if" => "always" \notin cl.body.ir \/ "always" \notin cl.else.ir
    BY GoAnswers DEF T
  <2>4. CASE k = "if"
    BY <1>b, <2>2, <2>3, <2>4, <1>r
  <2>5. CASE k \in {"step", "call", "nested", "method", "var", "defer", "panic", "break", "go"}
    BY <2>5, <1>r
  <2>6. QED
    BY <2>1, <2>3, <2>4, <2>5 DEF GoKinds, GoSimple, NativeSimple, GoHidden
<1>3. NativeAlways(S, GoHidden)
  <2> SUFFICES ASSUME "always" \in T, Shown(S, GoHidden \cup {"unit"})
               PROVE  /\ "taken" \notin M => "next" \notin R
                      /\ "dropped" \notin M => "next" \notin R /\ "value" \notin R
    BY <1>0 DEF NativeAlways
  <2>1. \A b \in Parts(cl) : Shown(b, GoHidden \cup {"unit"})
    BY <1>a
  <2>2. \A b \in Parts(cl) : "always" \in b.ir =>
          /\ "taken" \notin b.misplaced => "next" \notin b.run
          /\ "dropped" \notin b.misplaced => "next" \notin b.run /\ "value" \notin b.run
    BY <2>1 DEF GoSound, NativeAlways
  <2>3. \/ k \in {"ret", "ret p"}
        \/ k = "if" /\ "always" \in cl.body.ir /\ "always" \in cl.else.ir
    BY GoAnswers DEF T
  <2>4. CASE k \in {"ret", "ret p"}
    BY <2>4, <1>r
  <2>5. k = "if" => \A w \in Fates : w \notin M => \A b \in Parts(cl) : w \notin b.misplaced
    BY DEF M, Misplaced
  <2>6. CASE k = "if" /\ "always" \in cl.body.ir /\ "always" \in cl.else.ir
    BY <1>b, <2>2, <2>5, <2>6, <1>r DEF Fates
  <2>7. QED
    BY <2>3, <2>4, <2>6
<1>4. ReturnFound(S, GoHidden)
  <2> SUFFICES ASSUME "return" \in R, Shown(S, GoHidden)
               PROVE  "returns" \in T
    BY <1>0 DEF ReturnFound
  <2>1. k \notin GoHidden /\ \A b \in Parts(cl) : Shown(b, GoHidden)
    BY <1>a
  <2>2. \A b \in Parts(cl) : "return" \in b.run => "returns" \in b.ir
    BY <2>1 DEF GoSound, ReturnFound
  <2>3. k \in {"ret", "ret p"} \/ (k = "if" /\ ("returns" \in cl.body.ir \/ "returns" \in cl.else.ir))
    <3>1. k \in {"step", "call", "nested", "method", "var", "defer", "panic", "break", "go",
                 "ret", "ret p", "if"}
      BY <2>1 DEF GoKinds, GoSimple, NativeSimple, GoHidden
    <3>2. QED
      BY <1>b, <2>2, <3>1, <1>r
  <2>4. QED
    BY <2>3, GoAnswers DEF T
<1>5. CallsFound(S, GoLost, GoLostIn)
  <2> SUFFICES ASSUME S.called # {}, Shown(S, GoLost), \A h \in S.within : h.t \notin GoLostIn
               PROVE  X
    BY <1>0 DEF CallsFound
  <2>1. k \notin GoLost /\ \A b \in Parts(cl) : Shown(b, GoLost)
    BY <1>a
  <2>2. t # "init" /\ \A b \in Parts(cl) : \A h \in b.within : h.t \notin GoLostIn
    <3>1. Heading(k, t, cl) \in S.within /\ \A b \in Parts(cl) : b.within \subseteq S.within
      BY <1>s DEF Within
    <3>2. Heading(k, t, cl).t = t
      BY DEF Heading
    <3>3. QED
      BY <3>1, <3>2 DEF GoLostIn
  <2>3. \A b \in Parts(cl) : b.called # {} => b.extracted
    BY <2>1, <2>2 DEF GoSound, CallsFound
  <2>4. \/ k \in CallKinds \/ t = "init"
        \/ k \in {"if", "loop", "switch", "block"} /\ \E b \in Parts(cl) : b.called # {}
    BY <1>0, CalledParts
  <2>5. k = "call" \/ (k = "if" /\ \E b \in Parts(cl) : b.called # {})
    <3>1. k \notin {"p", "macro"}
      BY DEF GoKinds, GoSimple, NativeSimple
    <3>2. QED
      BY <2>1, <2>2, <2>4, <3>1 DEF CallKinds, GoLost, GoHidden
  <2>6. CASE k = "call"
    BY <2>6 DEF X, GoExtractCalls, ConvertStatement
  <2>7. CASE k = "if" /\ \E b \in Parts(cl) : b.called # {}
    <3>1. PICK b \in Parts(cl) : b.called # {}
      BY <2>7
    <3>2. b \in {cl.body, cl.else}
      BY <2>7, <3>1, NativeEmptyFields DEF NativeFormed
    <3>3. cl.body.extracted \/ cl.else.extracted
      BY <2>3, <3>1, <3>2
    <3>4. QED
      BY <2>7, <3>3 DEF X, GoExtractCalls, ConvertStatement, GoElse
  <2>8. QED
    BY <2>5, <2>6, <2>7
<1>6. QED
  BY <1>c, <1>1, <1>2, <1>3, <1>4, <1>5 DEF GoSound, GoStatement, S, T, X

-----------------------------------------------------------------------------
(* The inductive invariant.                                                *)

(* The annotations: one that admits no None has the contract T, and R3     *)
(* sees no None in it.                                                     *)
PyHeadNames == {"T", "none", "optional", "quoted", "generic", "pipe", "union"}
PyTypes ==
  [h : PyHeadNames, hs : Seq(PyHeadNames), contract : {"T", "None", "T or None"},
   means : SUBSET {"None", "value"}]
RustTypeNames == {"T", "result", "option", "None", "unknown"}
PyTypeSound(a) ==
  /\ a.h = "none" => "None" \in a.means
  /\ "None" \notin a.means =>
       a.contract = "T" /\ ~IsProcedure(a) /\ ~AnnotationAllowsNone(a)
TypesOf ==
  [python |-> {a \in PyTypes : PyTypeSound(a)},
   rust |-> [h : RustTypeNames] \cup [h : {"union"}, left : RustTypeNames, right : RustTypeNames],
   go |-> [h : {"int", "error"}]]

(* The walks of language L, and what holds of a block.                     *)
EmptyIn(L) == IF L = "python" THEN PyEmpty ELSE NativeEmpty
StatementIn(L, k, t, cl) ==
  CASE L = "python" -> PyStatement(k, t, cl)
    [] L = "rust" -> RustStatement(k, t, cl)
    [] OTHER -> GoStatement(k, t, cl)
ThenIn(L, b, s) == IF L = "python" THEN PyThen(b, s) ELSE NativeThen(b, s)
MayEndIn(L, b) == L # "python" \/ Filled(b)

(* A statement that is ended: it is not empty, and no guard of x in it     *)
(* waits for the loop it is the body of.                                   *)
Stands(L, s) == MayEndIn(L, s) /\ (L = "python" => ~s.narrow.looped)

Sound(L, b) ==
  CASE L = "python" -> PySound(b)
    [] L = "rust" -> RustSound(b)
    [] OTHER -> GoSound(b)

(* Running a block may end it at a break or a continue.                    *)
Breaks(L, b) ==
  IF L = "python"
    THEN \E o \in {"break", "continue"} : EndsAt(b, o)
    ELSE "break" \in b.run

(* Which clauses a statement may have, and that they are sound.            *)
ClausesSound(L, k, cl) ==
  /\ cl = [body |-> cl.body, else |-> cl.else, finally |-> cl.finally,
           except |-> cl.except, case |-> cl.case, twice |-> cl.twice]
  /\ \A b \in Parts(cl) : Sound(L, b)
  /\ cl.body = EmptyIn(L) \/ k \notin {"match", "switch"}
  /\ cl.else = EmptyIn(L) \/ k \in {"if", "for", "while", "try", "try*"}
  /\ cl.finally = EmptyIn(L) \/ k \in {"try", "try*"}
  /\ cl.except = {} \/ k \in {"try", "try*"}
  /\ cl.case = {} \/ k \in {"match", "switch"}
  /\ \A b \in cl.except \cup cl.case : MayEndIn(L, b)
  /\ cl.twice \subseteq cl.case

FrameSound(L, f) ==
  /\ f = [k |-> f.k, t |-> f.t, done |-> f.done, l |-> f.l, b |-> f.b]
  /\ Sound(L, f.b) /\ ClausesSound(L, f.k, f.done)
  /\ f.l \in {"body", "else", "except", "finally", "case"}
  /\ f.l = "case" <=> f.k \in {"match", "switch"}
  /\ f.l = "else" => f.k \in {"if", "for", "while", "try", "try*"}
  /\ f.l \in {"except", "finally"} => f.k \in {"try", "try*"}
  /\ f.l \notin {"body", "case"} => MayEndIn(L, f.done.body)

Stack(o) == o \in Seq({o[i] : i \in DOMAIN o}) /\ o # << >>

OpenSound(L, o) ==
  /\ Stack(o)
  /\ \A i \in DOMAIN o : FrameSound(L, o[i])
  /\ o[1].k = "def" /\ o[1].l = "body"
  /\ \A i \in DOMAIN o : i > 1 => <<o[i].k, o[i].t>> \in CompoundsOf[L]

LoopBody(f) == f.k \in Loops /\ f.l = "body"
InLoopBelow(o, i) == \E j \in DOMAIN o : j < i /\ LoopBody(o[j])

(* A break that leaves the statement of frame f.                           *)
BreaksOut(L, f) ==
  \/ Breaks(L, f.b) /\ ~LoopBody(f)
  \/ Breaks(L, f.done.body) /\ f.k \notin Loops
  \/ \E b \in {f.done.else, f.done.finally} \cup f.done.except \cup f.done.case : Breaks(L, b)

StackSound(L, o) ==
  /\ OpenSound(L, o)
  /\ \A i \in DOMAIN o : BreaksOut(L, o[i]) => InLoopBelow(o, i)

FromTask ==
  /\ def \in Defs
  /\ grammar.simple \subseteq SimpleOf[def.lang]
  /\ grammar.compound \subseteq CompoundsOf[def.lang]
  /\ grammar.heads \subseteq HeadsIn[def.lang]

Found ==
  CASE def.lang = "python" -> PythonReports(Function)
    [] def.lang = "rust" -> RustReports(Function)
    [] OTHER -> GoReports(Function)

FlowInv ==
  /\ FromTask
  /\ types \in Seq(TypesOf[def.lang])
  /\ size \in Nat /\ (size = 0 => open = <<Frame("def", "-", "body")>>)
  /\ StackSound(def.lang, open)
  /\ reports = Unchecked \/ (Len(open) = 1 /\ MayEnd(Body) /\ Declared /\ reports = Found)

(* What the tables by language say.                                        *)
LEMMA LanguageNames ==
  /\ Languages = {"python", "rust", "go"}
  /\ SimpleOf["python"] = Simple /\ SimpleOf["rust"] = RustSimple /\ SimpleOf["go"] = GoSimple
  /\ CompoundsOf["python"] = Compounds /\ CompoundsOf["rust"] = RustCompounds
  /\ CompoundsOf["go"] = GoCompounds
  /\ HeadsIn["python"] = PyHeads /\ HeadsIn["rust"] = RustHeads /\ HeadsIn["go"] = GoHeads
BY DEF Languages, SimpleOf, CompoundsOf, HeadsIn

(* The walks of FunctionFlow are those of the language of the def.         *)
LEMMA LanguageWalks ==
  /\ Empty = EmptyIn(def.lang)
  /\ \A k, t, cl : Statement(k, t, cl) = StatementIn(def.lang, k, t, cl)
  /\ \A b, s : Then(b, s) = ThenIn(def.lang, b, s)
  /\ \A b : MayEnd(b) <=> MayEndIn(def.lang, b)
BY DEF Empty, EmptyIn, Statement, StatementIn, Then, ThenIn, MayEnd, MayEndIn

(* In every language the empty block is sound, and a block stays so as it  *)
(* goes on.                                                                *)
LEMMA EmptyBlock ==
  ASSUME NEW L \in Languages
  PROVE  Sound(L, EmptyIn(L)) /\ ~Breaks(L, EmptyIn(L))
<1>1. CASE L = "python"
  <2>1. Sound(L, PyEmpty)
    BY <1>1, EmptySound DEF Sound
  <2>2. ~Breaks(L, PyEmpty)
    <3>1. ASSUME NEW v \in Modes, NEW x \in Xs, NEW y \in Xs, NEW o \in {"break", "continue"}
          PROVE  <<o, y>> \notin PyEmpty.run[v][x]
      <4>1. PyEmpty.run[v][x] = {<<"next", x>>}
        BY EmptyFields
      <4>2. QED
        BY <4>1
    <3>2. QED
      BY <1>1, <3>1 DEF Breaks, EndsAt
  <2>3. QED
    BY <1>1, <2>1, <2>2 DEF EmptyIn
<1>2. CASE L # "python"
  BY <1>2, NativeEmptySound, NativeEmptyFields DEF Sound, Breaks, EmptyIn
<1>3. QED
  BY <1>1, <1>2

(* A statement with clauses as they may be written.                        *)
LEMMA PyFormed ==
  ASSUME NEW k, NEW t, NEW cl, ClausesSound("python", k, cl),
         \/ k \in Simple /\ cl = NoClauses(PyEmpty)
         \/ /\ <<k, t>> \in Compounds
            /\ IF k = "match" THEN cl.case # {} ELSE Filled(cl.body)
  PROVE  Formed(k, cl) /\ \A b \in Parts(cl) : PySound(b)
<1>1. \A b \in Parts(cl) : PySound(b)
  BY DEF ClausesSound, Sound
<1>2. \A b \in Parts(cl) : b \in PyBlocks /\ Written(b)
  BY <1>1 DEF PySound
<1>3. PyClauses(cl)
  <2>1. /\ cl.body \in PyBlocks /\ cl.else \in PyBlocks /\ cl.finally \in PyBlocks
        /\ cl.except \in SUBSET PyBlocks /\ cl.case \in SUBSET PyBlocks
        /\ cl.twice \in SUBSET PyBlocks
    BY <1>2 DEF Parts, ClausesSound
  <2>2. cl = [body |-> cl.body, else |-> cl.else, finally |-> cl.finally,
              except |-> cl.except, case |-> cl.case, twice |-> cl.twice]
    BY DEF ClausesSound
  <2> HIDE DEF PyClauses
  <2>3. [body |-> cl.body, else |-> cl.else, finally |-> cl.finally,
         except |-> cl.except, case |-> cl.case, twice |-> cl.twice]
          \in [body : PyBlocks, else : PyBlocks, finally : PyBlocks,
               except : SUBSET PyBlocks, case : SUBSET PyBlocks, twice : SUBSET PyBlocks]
    BY <2>1
  <2>4. QED
    BY <2>2, <2>3 DEF PyClauses
<1>4. k \in Simple \/ k \in {"if", "while", "for", "with", "try", "try*", "match"}
  BY DEF Compounds
<1>5. \A b \in Parts(cl) : b \in Walked(k, cl) \/ b = PyEmpty
  <2>0. /\ cl.body = PyEmpty \/ k \notin {"match", "switch"}
        /\ cl.else = PyEmpty \/ k \in {"if", "for", "while", "try", "try*"}
        /\ cl.finally = PyEmpty \/ k \in {"try", "try*"}
        /\ cl.except = {} \/ k \in {"try", "try*"}
        /\ cl.case = {} \/ k \in {"match", "switch"}
    BY DEF ClausesSound, EmptyIn
  <2>1. CASE k \in Simple
    <3>1. cl = NoClauses(PyEmpty)
      BY <2>1 DEF Simple, Compounds
    <3>2. QED
      BY <3>1 DEF Parts, NoClauses
  <2>2. CASE k \in {"if", "while", "for"}
    BY <2>0, <2>2 DEF Parts, Walked
  <2>3. CASE k = "with"
    BY <2>0, <2>3 DEF Parts, Walked
  <2>4. CASE k \in {"try", "try*"}
    BY <2>0, <2>4 DEF Parts, Walked
  <2>5. CASE k = "match"
    BY <2>0, <2>5 DEF Parts, Walked
  <2>6. QED
    BY <1>4, <2>1, <2>2, <2>3, <2>4, <2>5
<1>6. k \in {"if", "while", "for", "with", "try", "try*"} => Raises(cl.body)
  <2>1. ASSUME k \in {"if", "while", "for", "with", "try", "try*"}
        PROVE  Raises(cl.body)
    <3>1. Filled(cl.body)
      BY <2>1 DEF Simple
    <3>2. Written(cl.body)
      BY <1>2 DEF Parts
    <3>3. QED
      BY <3>1, <3>2 DEF Written
  <2>2. QED
    BY <2>1
<1>7. k = "match" => cl.case # {}
  BY DEF Simple
<1>8. \A b \in cl.except \cup cl.case : Raises(b)
  <2>1. ASSUME NEW b \in cl.except \cup cl.case
        PROVE  Raises(b)
    <3>1. Filled(b)
      BY DEF ClausesSound, MayEndIn
    <3>2. Written(b)
      BY <1>2 DEF Parts
    <3>3. QED
      BY <3>1, <3>2 DEF Written
  <2>2. QED
    BY <2>1
<1>9. IF k = "match" THEN cl.body = PyEmpty /\ cl.else = PyEmpty ELSE cl.case = {}
  <2>1. cl.body = PyEmpty \/ k \notin {"match", "switch"}
    BY DEF ClausesSound, EmptyIn
  <2>2. cl.else = PyEmpty \/ k \in {"if", "for", "while", "try", "try*"}
    BY DEF ClausesSound, EmptyIn
  <2>3. cl.case = {} \/ k \in {"match", "switch"}
    BY DEF ClausesSound
  <2>4. k # "switch"
    BY <1>4 DEF Simple
  <2>5. QED
    BY <2>1, <2>2, <2>3, <2>4
<1>10. QED
  BY <1>1, <1>2, <1>3, <1>5, <1>6, <1>7, <1>8, <1>9 DEF Formed

MayStand(L, k, t, cl) ==
  \/ k \in SimpleOf[L] /\ t = "-" /\ cl = NoClauses(EmptyIn(L))
  \/ /\ <<k, t>> \in CompoundsOf[L]
     /\ IF k \in {"match", "switch"} THEN cl.case # {} ELSE MayEndIn(L, cl.body)

LEMMA StatementBlock ==
  ASSUME NEW L \in Languages, NEW k, NEW t, NEW cl,
         ClausesSound(L, k, cl), MayStand(L, k, t, cl)
  PROVE  Sound(L, StatementIn(L, k, t, cl)) /\ Stands(L, StatementIn(L, k, t, cl))
<1> DEFINE S == StatementIn(L, k, t, cl)
<1>a. \A b \in Parts(cl) : Sound(L, b)
  BY DEF ClausesSound
<1>1. CASE L = "python"
  <2>1. \/ k \in Simple /\ t = "-" /\ cl = NoClauses(PyEmpty)
        \/ /\ <<k, t>> \in Compounds
           /\ IF k \in {"match", "switch"} THEN cl.case # {} ELSE Filled(cl.body)
    BY <1>1, LanguageNames DEF MayStand, EmptyIn, MayEndIn
  <2>2. <<k, t>> \in Compounds => k \in {"if", "while", "for", "with", "try", "try*", "match"}
    BY DEF Compounds
  <2>a. <<k, t>> \in Compounds => t \in {"c", "true", "none", "some", "wnone", "wsome", "-", "partial", "total"}
    BY DEF Compounds, Tests
  <2>b. ClausesSound("python", k, cl)
    BY <1>1
  <2>c. \/ k \in Simple /\ cl = NoClauses(PyEmpty)
        \/ /\ <<k, t>> \in Compounds
           /\ IF k = "match" THEN cl.case # {} ELSE Filled(cl.body)
    BY <2>1, <2>2
  <2>3. Formed(k, cl) /\ \A b \in Parts(cl) : PySound(b)
    BY <2>b, <2>c, PyFormed
  <2>4. k \in PyKinds /\ t \in PyTests
    BY <2>1, <2>2, <2>a DEF PyKinds, PyTests, Tests
  <2>5. /\ PySound(PyStatement(k, t, cl)) /\ Filled(PyStatement(k, t, cl))
        /\ ~PyStatement(k, t, cl).narrow.looped
    BY <2>3, <2>4, StatementSound
  <2>6. QED
    BY <1>1, <2>5 DEF StatementIn, Sound, MayEndIn, Stands
<1>2. CASE L = "rust"
  <2>1. (k \in RustSimple /\ t = "-") \/ <<k, t>> \in RustCompounds
    BY <1>2, LanguageNames DEF MayStand
  <2>2. k \in RustKinds /\ (k = "switch" => t \in {"total", "guarded"})
    BY <2>1 DEF RustKinds, RustCompounds, RustSimple, NativeSimple, Tails
  <2>3. \A b \in Parts(cl) : RustSound(b)
    BY <1>2, <1>a DEF Sound
  <2>4. RustSound(RustStatement(k, t, cl))
    BY <2>2, <2>3, RustStatementSound
  <2>5. QED
    BY <1>2, <2>4 DEF StatementIn, Sound, MayEndIn, Stands
<1>3. CASE L = "go"
  <2>1. \/ k \in GoSimple /\ cl = NoClauses(NativeEmpty)
        \/ <<k, t>> \in GoCompounds
    BY <1>3, LanguageNames DEF MayStand, EmptyIn
  <2>2. <<k, t>> \in GoCompounds => k \in {"if", "loop", "switch", "block", "go"}
    BY DEF GoCompounds
  <2>3. k \in GoKinds
    BY <2>1, <2>2 DEF GoKinds
  <2>4. \A b \in Parts(cl) : GoSound(b)
    BY <1>3, <1>a DEF Sound
  <2>5. NativeFormed(k, cl)
    <3>1. CASE cl = NoClauses(NativeEmpty)
      BY <3>1 DEF NativeFormed, Parts, NoClauses
    <3>2. CASE k = "if"
      <4>1. cl.finally = NativeEmpty /\ cl.except = {} /\ cl.case = {}
        BY <1>3, <3>2 DEF ClausesSound, EmptyIn
      <4>2. QED
        BY <3>2, <4>1 DEF NativeFormed, Parts
    <3>3. CASE k \in {"loop", "switch", "block", "go"}
      BY <3>3 DEF NativeFormed
    <3>4. QED
      BY <2>1, <2>2, <3>1, <3>2, <3>3
  <2>6. GoSound(GoStatement(k, t, cl))
    BY <2>3, <2>4, <2>5, GoStatementSound
  <2>7. QED
    BY <1>3, <2>6 DEF StatementIn, Sound, MayEndIn, Stands
<1>4. QED
  BY <1>1, <1>2, <1>3, LanguageNames

LEMMA ThenBlock ==
  ASSUME NEW L \in Languages, NEW b, NEW s, Sound(L, b), Sound(L, s), Stands(L, s)
  PROVE  Sound(L, ThenIn(L, b, s))
<1>1. CASE L = "python"
  <2>1. PySound(b) /\ PySound(s) /\ Filled(s) /\ ~s.narrow.looped
    BY <1>1 DEF Sound, MayEndIn, Stands
  <2>2. PySound(PyThen(b, s))
    BY <2>1, ThenSound
  <2>3. QED
    BY <1>1, <2>2 DEF Sound, ThenIn
<1>2. CASE L = "rust"
  <2>1. RustSound(b) /\ RustSound(s)
    BY <1>2 DEF Sound
  <2>2. RustSound(NativeThen(b, s))
    BY <2>1, NativeThenSound DEF RustSound
  <2>3. QED
    BY <1>2, <2>2 DEF Sound, ThenIn
<1>3. CASE L = "go"
  <2>1. GoSound(b) /\ GoSound(s)
    BY <1>3 DEF Sound
  <2> DEFINE S == NativeThen(b, s)
  <2>a. /\ AlwaysIsReturn(b) /\ AlwaysIsReturn(s) /\ DroppedIsWorse(b) /\ DroppedIsWorse(s)
        /\ NativeMissReal(b, GoHidden) /\ NativeMissReal(s, GoHidden)
        /\ NativeAlways(b, GoHidden) /\ NativeAlways(s, GoHidden)
        /\ CallsFound(b, GoLost, GoLostIn) /\ CallsFound(s, GoLost, GoLostIn)
        /\ ReturnFound(b, GoHidden) /\ ReturnFound(s, GoHidden)
    BY <2>1 DEF GoSound
  <2>b. /\ AlwaysIsReturn(S) /\ DroppedIsWorse(S) /\ NativeMissReal(S, GoHidden)
        /\ NativeAlways(S, GoHidden) /\ CallsFound(S, GoLost, GoLostIn)
    BY <2>a, NativeThenSound
  <2>c. ReturnFound(S, GoHidden)
    BY <2>a, NativeThenReturn
  <2>2. GoSound(NativeThen(b, s))
    BY <2>b, <2>c DEF GoSound
  <2>3. QED
    BY <1>3, <2>2 DEF Sound, ThenIn
<1>4. QED
  BY <1>1, <1>2, <1>3, LanguageNames

(* Where the breaks of a statement come from.                              *)
LEMMA StatementBreaks ==
  ASSUME NEW L \in Languages, NEW k, NEW t, NEW cl,
         ClausesSound(L, k, cl), MayStand(L, k, t, cl), Breaks(L, StatementIn(L, k, t, cl))
  PROVE  \/ k \in {"break", "continue"} /\ k \in SimpleOf[L]
         \/ <<k, t>> \in CompoundsOf[L] /\ k \in Loops /\ Breaks(L, cl.else)
         \/ <<k, t>> \in CompoundsOf[L] /\ k \notin Loops /\ \E b \in Parts(cl) : Breaks(L, b)
<1>1. CASE L = "python"
  <2>1. \/ k \in Simple /\ cl = NoClauses(PyEmpty)
        \/ /\ <<k, t>> \in Compounds
           /\ IF k \in {"match", "switch"} THEN cl.case # {} ELSE Filled(cl.body)
    BY <1>1, LanguageNames DEF MayStand, EmptyIn, MayEndIn
  <2>2. <<k, t>> \in Compounds => k \in {"if", "while", "for", "with", "try", "try*", "match"}
    BY DEF Compounds
  <2>3. k \in PyKinds
    BY <2>1, <2>2 DEF PyKinds
  <2>4. PyClauses(cl)
    BY <1>1, <2>1, <2>2, PyFormed DEF Formed
  <2>5. PICK o \in {"break", "continue"} : EndsAt(PyStatement(k, t, cl), o)
    BY <1>1 DEF Breaks, StatementIn
  <2>6. \/ k \in Simple /\ k = o
        \/ \E b \in Walked(k, cl) : EndsAt(b, o) /\ (k \in {"for", "while"} => b = cl.else)
    BY <2>3, <2>4, <2>5, BreakParts
  <2>7. CASE k \in Simple /\ k = o
    BY <1>1, <2>7, LanguageNames
  <2>8. CASE \E b \in Walked(k, cl) : EndsAt(b, o) /\ (k \in {"for", "while"} => b = cl.else)
    <3>1. PICK b \in Walked(k, cl) : EndsAt(b, o) /\ (k \in {"for", "while"} => b = cl.else)
      BY <2>8
    <3>2. Breaks(L, b)
      BY <1>1, <3>1 DEF Breaks
    <3>3. k \notin Simple
      BY <3>1 DEF Walked, Simple
    <3>4. <<k, t>> \in CompoundsOf[L] /\ k # "loop"
      BY <1>1, <2>1, <2>2, <3>3, LanguageNames
    <3>5. QED
      BY <3>1, <3>2, <3>4, WalkedParts DEF Loops
  <2>9. QED
    BY <2>6, <2>7, <2>8
<1>2. CASE L # "python"
  <2>0. L \in {"rust", "go"}
    BY <1>2, LanguageNames
  <2>1. "break" \in NativeRun(k, t, cl)
    <3>1. StatementIn(L, k, t, cl).run = NativeRun(k, t, cl)
      BY <1>2, NativeFields DEF StatementIn, RustStatement, GoStatement
    <3>2. QED
      BY <1>2, <3>1 DEF Breaks
  <2>2. k \in RustSimple \cup GoSimple \/ k \in {"if", "loop", "switch", "block", "go"}
    <3>1. k \in SimpleOf[L] \/ <<k, t>> \in CompoundsOf[L]
      BY DEF MayStand
    <3>2. <<k, t>> \in RustCompounds \/ <<k, t>> \in GoCompounds
            => k \in {"if", "loop", "switch", "block", "go"}
      BY DEF RustCompounds, GoCompounds
    <3>3. QED
      BY <2>0, <3>1, <3>2, LanguageNames
  <2>3. CASE k \in RustSimple \cup GoSimple
    <3>1. k = "break"
      BY <2>1, <2>3 DEF NativeRun, RustSimple, GoSimple, NativeSimple, Tails
    <3>2. QED
      BY <2>0, <3>1, LanguageNames DEF RustSimple, GoSimple, NativeSimple
  <2>4. CASE k \in {"if", "loop", "switch", "block", "go"}
    <3>1. k \notin Loops /\ \E b \in Parts(cl) : "break" \in b.run
      <4>1. CASE k \in {"if", "block"}
        BY <2>1, <4>1 DEF NativeRun, Parts, Loops
      <4>2. CASE k = "switch"
        <5>1. PICK a \in cl.case : "break" \in a.run
          BY <2>1, <4>2 DEF NativeRun
        <5>2. QED
          BY <4>2, <5>1 DEF Parts, Loops
      <4>3. CASE k \in {"loop", "go"}
        BY <2>1, <4>3 DEF NativeRun, LeaveLoop, GoesOn
      <4>4. QED
        BY <2>4, <4>1, <4>2, <4>3
    <3>2. <<k, t>> \in CompoundsOf[L]
      BY <2>0, <2>4, LanguageNames DEF MayStand, RustSimple, GoSimple, NativeSimple, Tails
    <3>3. QED
      BY <1>2, <3>1, <3>2 DEF Breaks
  <2>5. QED
    BY <2>2, <2>3, <2>4
<1>3. QED
  BY <1>1, <1>2

(* The breaks of a block that goes on with a statement.                    *)
LEMMA ThenBreaks ==
  ASSUME NEW L \in Languages, NEW b, NEW s, Breaks(L, ThenIn(L, b, s))
  PROVE  Breaks(L, b) \/ Breaks(L, s)
<1>1. CASE L = "python"
  <2>1. PICK v \in Modes, x \in Xs, y \in Xs, o \in {"break", "continue"} :
          <<o, y>> \in PyThen(b, s).run[v][x]
    BY <1>1 DEF Breaks, EndsAt, ThenIn
  <2>2. PyThen(b, s).run[v][x] = RunOn(b, s, v, x)
    BY ThenFields
  <2>a. <<o, y>> \in RunOn(b, s, v, x)
    BY <2>1, <2>2
  <2>3. <<o, y>> \in b.run[v][x] \/ \E z \in Xs : <<o, y>> \in s.run[v][z]
    BY <2>a, RunOnEnds
  <2>4. QED
    BY <1>1, <2>3 DEF Breaks, EndsAt
<1>2. CASE L # "python"
  BY <1>2, NativeThenFields DEF Breaks, ThenIn
<1>3. QED
  BY <1>1, <1>2

-----------------------------------------------------------------------------
(* The stack of open blocks.                                               *)

(* Stacks of blocks, as they grow and shrink.                              *)
LEMMA StackOf ==
  ASSUME NEW S, NEW o \in Seq(S), Len(o) > 0
  PROVE  Stack(o)
<1>1. Len(o) \in Nat /\ DOMAIN o = 1 .. Len(o) /\ o \in [1 .. Len(o) -> S]
  BY LenProperties
<1>2. o \in [1 .. Len(o) -> {o[i] : i \in DOMAIN o}]
  BY <1>1
<1>3. o \in Seq({o[i] : i \in DOMAIN o})
  BY <1>1, <1>2, SeqDef
<1>4. o # << >>
  BY <1>1, EmptySeq
<1>5. QED
  BY <1>3, <1>4 DEF Stack

LEMMA StackFacts ==
  ASSUME NEW o, Stack(o)
  PROVE  Len(o) \in Nat /\ Len(o) > 0 /\ DOMAIN o = 1 .. Len(o)
<1>1. o \in Seq({o[i] : i \in DOMAIN o}) /\ o # << >>
  BY DEF Stack
<1>2. Len(o) \in Nat /\ DOMAIN o = 1 .. Len(o)
  BY <1>1, LenProperties
<1>3. QED
  BY <1>1, <1>2, EmptySeq

LEMMA TopReplaced ==
  ASSUME NEW o, Stack(o), NEW f, NEW p, p = [o EXCEPT ![Len(o)] = f]
  PROVE  /\ Stack(p)
         /\ Len(p) = Len(o) /\ Len(o) \in Nat /\ Len(o) > 0
         /\ DOMAIN p = 1 .. Len(o) /\ DOMAIN o = 1 .. Len(o)
         /\ p[Len(o)] = f
         /\ \A i \in 1 .. Len(o) : i # Len(o) => p[i] = o[i]
<1> DEFINE S == {o[i] : i \in DOMAIN o}
<1>1. Len(o) \in Nat /\ DOMAIN o = 1 .. Len(o) /\ Len(o) > 0
  BY StackFacts
<1>2. o \in Seq(S)
  BY DEF Stack
<1> HIDE DEF S
<1>3. o \in Seq(S \cup {f})
  BY <1>2, SeqMonotonic
<1>4. /\ p \in Seq(S \cup {f})
      /\ Len(p) = Len(o)
      /\ \A j \in 1 .. Len(o) : p[j] = IF j = Len(o) THEN f ELSE o[j]
  BY <1>1, <1>3, ExceptSeq
<1>5. Len(p) > 0
  BY <1>1, <1>4
<1>6. Stack(p)
  BY <1>4, <1>5, StackOf
<1>7. DOMAIN p = 1 .. Len(o)
  BY <1>4, <1>6, StackFacts
<1>8. QED
  BY <1>1, <1>4, <1>6, <1>7

LEMMA BlockOpened ==
  ASSUME NEW o, Stack(o), NEW f
  PROVE  /\ Stack(Append(o, f))
         /\ Len(Append(o, f)) = Len(o) + 1 /\ Len(o) \in Nat /\ Len(o) > 0
         /\ DOMAIN Append(o, f) = 1 .. Len(o) + 1 /\ DOMAIN o = 1 .. Len(o)
         /\ Append(o, f)[Len(o) + 1] = f
         /\ \A i \in 1 .. Len(o) : Append(o, f)[i] = o[i]
<1> DEFINE p == Append(o, f)
<1> DEFINE S == {o[i] : i \in DOMAIN o}
<1>1. Len(o) \in Nat /\ DOMAIN o = 1 .. Len(o) /\ Len(o) > 0
  BY StackFacts
<1>2. o \in Seq(S)
  BY DEF Stack
<1> HIDE DEF S
<1>3. o \in Seq(S \cup {f})
  BY <1>2, SeqMonotonic
<1>4. /\ p \in Seq(S \cup {f})
      /\ Len(p) = Len(o) + 1
      /\ \A j \in 1 .. Len(o) : p[j] = o[j]
      /\ p[Len(o) + 1] = f
  BY <1>1, <1>3, AppendProperties
<1> HIDE DEF p
<1>5. Len(p) > 0
  BY <1>1, <1>4
<1>6. Stack(p)
  BY <1>4, <1>5, StackOf
<1>7. DOMAIN p = 1 .. Len(o) + 1
  BY <1>4, <1>6, StackFacts
<1>8. QED
  BY <1>1, <1>4, <1>6, <1>7 DEF p

LEMMA BlockBelow ==
  ASSUME NEW o, Stack(o), Len(o) > 1, NEW p, p = SubSeq(o, 1, Len(o) - 1)
  PROVE  /\ Stack(p)
         /\ Len(p) = Len(o) - 1 /\ Len(o) \in Nat
         /\ \A i \in 1 .. Len(o) - 1 : p[i] = o[i]
<1> DEFINE S == {o[i] : i \in DOMAIN o}
<1>1. Len(o) \in Nat /\ DOMAIN o = 1 .. Len(o)
  BY StackFacts
<1>2. o \in Seq(S)
  BY DEF Stack
<1> HIDE DEF S
<1>3. \A i \in 1 .. Len(o) - 1 : o[i] \in S
  BY <1>1, <1>2, ElementOfSeq
<1>4. /\ p \in Seq(S)
      /\ Len(p) = IF 1 <= Len(o) - 1 THEN (Len(o) - 1) - 1 + 1 ELSE 0
      /\ \A i \in 1 .. (Len(o) - 1) - 1 + 1 : p[i] = o[1 + i - 1]
  BY <1>1, <1>2, <1>3, SubSeqProperties
<1>5. Len(p) = Len(o) - 1 /\ Len(p) > 0
  BY <1>1, <1>4
<1>6. Stack(p)
  BY <1>4, <1>5, StackOf
<1>7. \A i \in 1 .. Len(o) - 1 : p[i] = o[i]
  BY <1>1, <1>4
<1>8. QED
  BY <1>1, <1>5, <1>6, <1>7

(* Whether a frame lies in a loop is a matter of the frames below it.      *)
LEMMA SameBelow ==
  ASSUME NEW o, Stack(o), NEW p, Stack(p), NEW i \in Nat, i - 1 <= Len(o), i - 1 <= Len(p),
         \A j \in 1 .. i - 1 : p[j] = o[j]
  PROVE  InLoopBelow(o, i) <=> InLoopBelow(p, i)
<1>1. /\ Len(o) \in Nat /\ DOMAIN o = 1 .. Len(o)
      /\ Len(p) \in Nat /\ DOMAIN p = 1 .. Len(p)
  BY StackFacts
<1>2. InLoopBelow(o, i) <=> \E j \in 1 .. i - 1 : LoopBody(o[j])
  BY <1>1 DEF InLoopBelow
<1>3. InLoopBelow(p, i) <=> \E j \in 1 .. i - 1 : LoopBody(p[j])
  BY <1>1 DEF InLoopBelow
<1>4. QED
  BY <1>2, <1>3

LEMMA StackTop ==
  ASSUME NEW L, NEW o, StackSound(L, o)
  PROVE  /\ Stack(o) /\ Len(o) \in Nat /\ Len(o) > 0 /\ DOMAIN o = 1 .. Len(o)
         /\ FrameSound(L, o[Len(o)])
         /\ BreaksOut(L, o[Len(o)]) => InLoopBelow(o, Len(o))
         /\ Len(o) > 1 => <<o[Len(o)].k, o[Len(o)].t>> \in CompoundsOf[L]
<1>1. Stack(o)
  BY DEF StackSound, OpenSound
<1>2. Len(o) \in Nat /\ Len(o) > 0 /\ DOMAIN o = 1 .. Len(o)
  BY <1>1, StackFacts
<1>3. Len(o) \in DOMAIN o
  BY <1>2
<1>4. QED
  BY <1>1, <1>2, <1>3 DEF StackSound, OpenSound

(* What StackSound says of one frame.                                      *)
LEMMA FrameAt ==
  ASSUME NEW L, NEW o, StackSound(L, o), NEW i \in DOMAIN o
  PROVE  /\ FrameSound(L, o[i])
         /\ BreaksOut(L, o[i]) => InLoopBelow(o, i)
         /\ i > 1 => <<o[i].k, o[i].t>> \in CompoundsOf[L]
         /\ o[1].k = "def"
         /\ o[1].l = "body"
BY DEF StackSound, OpenSound

LEMMA InRange ==
  ASSUME NEW n \in Nat, n > 0
  PROVE  /\ 1 \in 1 .. n
         /\ \A i \in 1 .. n : i \in Nat /\ i - 1 <= n
         /\ \A i \in 1 .. n : \A j \in 1 .. i - 1 : j \in 1 .. n /\ j # n
OBVIOUS

(* The innermost block is replaced by another of the same statement.       *)
SameStatement(f, g) == f.k = g.k /\ f.t = g.t

LEMMA TopDiffers ==
  ASSUME NEW L, NEW o, StackSound(L, o), NEW f, FrameSound(L, f),
         SameStatement(f, o[Len(o)]), Len(o) = 1 => f.l = "body",
         BreaksOut(L, f) => InLoopBelow(o, Len(o)),
         NEW p, Stack(p), Len(p) = Len(o), p[Len(o)] = f,
         \A i \in 1 .. Len(o) : i # Len(o) => p[i] = o[i]
  PROVE  StackSound(L, p)
<1>1. Stack(o)
  BY DEF StackSound, OpenSound
<1>2. /\ Len(o) \in Nat /\ Len(o) > 0
      /\ DOMAIN p = 1 .. Len(o) /\ DOMAIN o = 1 .. Len(o)
  BY <1>1, StackFacts
<1>3. ASSUME NEW i \in DOMAIN p
      PROVE  /\ FrameSound(L, p[i])
             /\ BreaksOut(L, p[i]) => InLoopBelow(p, i)
             /\ i > 1 => <<p[i].k, p[i].t>> \in CompoundsOf[L]
             /\ i = 1 => p[1].k = "def" /\ p[1].l = "body"
  <2>1. i \in Nat /\ i \in DOMAIN o /\ i - 1 <= Len(o) /\ i - 1 <= Len(p)
    BY <1>2, InRange
  <2>2. \A j \in 1 .. i - 1 : p[j] = o[j]
    BY <1>2, InRange
  <2>3. InLoopBelow(o, i) <=> InLoopBelow(p, i)
    BY <1>1, <1>2, <2>1, <2>2, SameBelow
  <2>4. /\ FrameSound(L, o[i])
        /\ BreaksOut(L, o[i]) => InLoopBelow(o, i)
        /\ i > 1 => <<o[i].k, o[i].t>> \in CompoundsOf[L]
        /\ o[1].k = "def"
        /\ o[1].l = "body"
    BY <2>1, FrameAt
  <2>5. CASE i = Len(o)
    <3>1. p[i] = f
      BY <1>2, <2>5
    <3>2. BreaksOut(L, f) => InLoopBelow(p, i)
      BY <2>3, <2>5
    <3>3. f.k = o[i].k /\ f.t = o[i].t
      BY <2>5 DEF SameStatement
    <3>4. i = 1 => f.k = "def" /\ f.l = "body"
      BY <2>4, <2>5, <3>3
    <3>5. QED
      BY <2>4, <3>1, <3>2, <3>3, <3>4
  <2>6. CASE i # Len(o)
    <3>1. p[i] = o[i]
      BY <1>2, <2>6
    <3>2. BreaksOut(L, p[i]) => InLoopBelow(p, i)
      BY <2>3, <2>4, <3>1
    <3>3. QED
      BY <2>4, <3>1, <3>2
  <2>7. QED
    BY <2>5, <2>6
<1>4. 1 \in DOMAIN p
  BY <1>2, InRange
<1>5. QED
  BY <1>2, <1>3, <1>4 DEF StackSound, OpenSound

(* A sound stack stays sound when a sound frame of the same statement      *)
(* replaces the top.                                                       *)
LEMMA TopChanged ==
  ASSUME NEW L, NEW o, StackSound(L, o), NEW f, FrameSound(L, f),
         SameStatement(f, o[Len(o)]), Len(o) = 1 => f.l = "body",
         BreaksOut(L, f) => InLoopBelow(o, Len(o)),
         NEW p, p = [o EXCEPT ![Len(o)] = f]
  PROVE  StackSound(L, p)
<1>1. Stack(o)
  BY DEF StackSound, OpenSound
<1>2. /\ Stack(p)
      /\ Len(p) = Len(o)
      /\ p[Len(o)] = f
      /\ \A i \in 1 .. Len(o) : i # Len(o) => p[i] = o[i]
  BY <1>1, TopReplaced
<1>3. QED
  BY <1>2, TopDiffers

(* A block is opened.                                                      *)
LEMMA StackOpened ==
  ASSUME NEW L, NEW o, StackSound(L, o), NEW f, FrameSound(L, f),
         <<f.k, f.t>> \in CompoundsOf[L], ~BreaksOut(L, f),
         NEW p, p = Append(o, f)
  PROVE  StackSound(L, p)
<1>1. Stack(o)
  BY DEF StackSound, OpenSound
<1>2. /\ Stack(p)
      /\ Len(p) = Len(o) + 1 /\ Len(o) \in Nat /\ Len(o) > 0
      /\ DOMAIN p = 1 .. Len(o) + 1 /\ DOMAIN o = 1 .. Len(o)
      /\ p[Len(o) + 1] = f
      /\ \A i \in 1 .. Len(o) : p[i] = o[i]
  BY <1>1, BlockOpened
<1>3. ASSUME NEW i \in DOMAIN p
      PROVE  /\ FrameSound(L, p[i])
             /\ BreaksOut(L, p[i]) => InLoopBelow(p, i)
             /\ i > 1 => <<p[i].k, p[i].t>> \in CompoundsOf[L]
             /\ i = 1 => p[1].k = "def" /\ p[1].l = "body"
  <2>1. CASE i = Len(o) + 1
    <3>1. p[i] = f
      BY <1>2, <2>1
    <3>2. QED
      BY <1>2, <2>1, <3>1
  <2>2. CASE i # Len(o) + 1
    <3>1. i \in Nat /\ i \in DOMAIN o /\ i - 1 <= Len(o) /\ i - 1 <= Len(p)
      BY <1>2, <2>2
    <3>2. \A j \in 1 .. i - 1 : p[j] = o[j]
      BY <1>2, <3>1
    <3>3. InLoopBelow(o, i) <=> InLoopBelow(p, i)
      BY <1>1, <1>2, <3>1, <3>2, SameBelow
    <3>4. /\ FrameSound(L, o[i])
          /\ BreaksOut(L, o[i]) => InLoopBelow(o, i)
          /\ i > 1 => <<o[i].k, o[i].t>> \in CompoundsOf[L]
          /\ o[1].k = "def"
          /\ o[1].l = "body"
      BY <3>1, FrameAt
    <3>5. p[i] = o[i]
      BY <1>2, <3>1
    <3>6. BreaksOut(L, p[i]) => InLoopBelow(p, i)
      BY <3>3, <3>4, <3>5
    <3>7. QED
      BY <3>4, <3>5, <3>6
  <2>3. QED
    BY <2>1, <2>2
<1>4. 1 \in DOMAIN p
  BY <1>2
<1>5. QED
  BY <1>2, <1>3, <1>4 DEF StackSound, OpenSound

(* The innermost block is closed.                                          *)
Below(o) == SubSeq(o, 1, Len(o) - 1)

LEMMA StackClosed ==
  ASSUME NEW L, NEW o, StackSound(L, o), Len(o) > 1, NEW p, p = Below(o)
  PROVE  /\ StackSound(L, p)
         /\ InLoopBelow(o, Len(o)) => LoopBody(p[Len(p)]) \/ InLoopBelow(p, Len(p))
<1>1. Stack(o)
  BY DEF StackSound, OpenSound
<1>2. /\ Stack(p)
      /\ Len(p) = Len(o) - 1 /\ Len(o) \in Nat
      /\ \A i \in 1 .. Len(o) - 1 : p[i] = o[i]
  BY <1>1, BlockBelow DEF Below
<1>3. DOMAIN p = 1 .. Len(p) /\ DOMAIN o = 1 .. Len(o) /\ Len(p) \in Nat /\ Len(p) > 0
  BY <1>1, <1>2, StackFacts
<1>4. ASSUME NEW i \in DOMAIN p
      PROVE  /\ FrameSound(L, p[i])
             /\ BreaksOut(L, p[i]) => InLoopBelow(p, i)
             /\ i > 1 => <<p[i].k, p[i].t>> \in CompoundsOf[L]
             /\ i = 1 => p[1].k = "def" /\ p[1].l = "body"
  <2>1. i \in Nat /\ i \in DOMAIN o /\ i - 1 <= Len(o) /\ i - 1 <= Len(p)
    BY <1>2, <1>3
  <2>2. \A j \in 1 .. i - 1 : p[j] = o[j]
    BY <1>2, <1>3, <2>1
  <2>3. InLoopBelow(o, i) <=> InLoopBelow(p, i)
    BY <1>1, <1>2, <2>1, <2>2, SameBelow
  <2>4. /\ FrameSound(L, o[i])
        /\ BreaksOut(L, o[i]) => InLoopBelow(o, i)
        /\ i > 1 => <<o[i].k, o[i].t>> \in CompoundsOf[L]
        /\ o[1].k = "def"
        /\ o[1].l = "body"
    BY <2>1, FrameAt
  <2>5. p[i] = o[i]
    BY <1>2, <1>3
  <2>6. BreaksOut(L, p[i]) => InLoopBelow(p, i)
    BY <2>3, <2>4, <2>5
  <2>7. QED
    BY <2>4, <2>5, <2>6
<1>5. 1 \in DOMAIN p
  BY <1>3
<1>6. StackSound(L, p)
  BY <1>2, <1>4, <1>5 DEF StackSound, OpenSound
<1>7. ASSUME InLoopBelow(o, Len(o))
      PROVE  LoopBody(p[Len(p)]) \/ InLoopBelow(p, Len(p))
  <2>1. PICK j \in DOMAIN o : j < Len(o) /\ LoopBody(o[j])
    BY <1>7 DEF InLoopBelow
  <2>2. j \in DOMAIN p /\ p[j] = o[j]
    BY <1>2, <1>3, <2>1
  <2>3. j = Len(p) \/ j < Len(p)
    BY <1>3, <2>2
  <2>4. QED
    BY <2>1, <2>2, <2>3 DEF InLoopBelow
<1>8. QED
  BY <1>6, <1>7

(* The innermost block goes on with a statement.                           *)
LEMMA StackGoesOn ==
  ASSUME NEW L \in Languages, NEW o, StackSound(L, o),
         NEW s, Sound(L, s), Stands(L, s),
         Breaks(L, s) => LoopBody(o[Len(o)]) \/ InLoopBelow(o, Len(o)),
         NEW f, f = [o[Len(o)] EXCEPT !.b = ThenIn(L, o[Len(o)].b, s)],
         NEW p, p = [o EXCEPT ![Len(o)] = f]
  PROVE  StackSound(L, p)
<1> DEFINE g == o[Len(o)]
<1>1. FrameSound(L, g) /\ (BreaksOut(L, g) => InLoopBelow(o, Len(o)))
  BY StackTop
<1>2. g = [k |-> g.k, t |-> g.t, done |-> g.done, l |-> g.l, b |-> g.b]
  BY <1>1 DEF FrameSound
<1> HIDE DEF g
<1>3. f = [k |-> g.k, t |-> g.t, done |-> g.done, l |-> g.l, b |-> ThenIn(L, g.b, s)]
  BY <1>2 DEF g
<1>4. Sound(L, g.b)
  BY <1>1 DEF FrameSound
<1>5. Sound(L, f.b)
  BY <1>3, <1>4, ThenBlock
<1>6. f.k = g.k /\ f.t = g.t /\ f.done = g.done /\ f.l = g.l
  BY <1>3
<1>a. f = [k |-> f.k, t |-> f.t, done |-> f.done, l |-> f.l, b |-> f.b]
  BY <1>3
<1>7. FrameSound(L, f)
  BY <1>1, <1>a, <1>5, <1>6 DEF FrameSound
<1>8. Breaks(L, f.b) => Breaks(L, g.b) \/ Breaks(L, s)
  BY <1>3, ThenBreaks
<1>9. BreaksOut(L, f) => InLoopBelow(o, Len(o))
  BY <1>1, <1>6, <1>8 DEF BreaksOut, LoopBody, g
<1>10. Len(o) = 1 => f.l = "body"
  BY <1>6 DEF StackSound, OpenSound, g
<1>11. QED
  BY <1>6, <1>7, <1>9, <1>10, TopChanged DEF g, SameStatement

(* A block without clauses yet.                                            *)
LEMMA NoClausesSound ==
  ASSUME NEW L \in Languages, NEW k
  PROVE  ClausesSound(L, k, NoClauses(EmptyIn(L)))
<1> DEFINE e == EmptyIn(L)
           cl == NoClauses(e)
<1>1. Sound(L, e)
  BY EmptyBlock
<1> HIDE DEF e
<1>2. /\ cl = [body |-> cl.body, else |-> cl.else, finally |-> cl.finally,
               except |-> cl.except, case |-> cl.case, twice |-> cl.twice]
      /\ cl.body = e /\ cl.else = e /\ cl.finally = e /\ cl.except = {} /\ cl.case = {}
      /\ cl.twice = {}
  BY DEF NoClauses
<1> HIDE DEF cl
<1>3. Parts(cl) = {e}
  BY <1>2 DEF Parts
<1>4. ClausesSound(L, k, cl)
  BY <1>1, <1>2, <1>3 DEF ClausesSound, e
<1>5. QED
  BY <1>4 DEF cl, e

LEMMA FrameOpened ==
  ASSUME NEW L \in Languages, NEW k, NEW t, NEW l \in {"body", "case"},
         l = "case" <=> k \in {"match", "switch"},
         NEW f, f = [k |-> k, t |-> t, done |-> NoClauses(EmptyIn(L)), l |-> l, b |-> EmptyIn(L)]
  PROVE  FrameSound(L, f) /\ ~BreaksOut(L, f)
<1> DEFINE e == EmptyIn(L)
           cl == NoClauses(e)
<1>1. Sound(L, e) /\ ~Breaks(L, e)
  BY EmptyBlock
<1>2. ClausesSound(L, k, cl)
  BY NoClausesSound
<1> HIDE DEF e
<1>3. cl.body = e /\ cl.else = e /\ cl.finally = e /\ cl.except = {} /\ cl.case = {}
  BY DEF NoClauses
<1> HIDE DEF cl
<1>4. f = [k |-> k, t |-> t, done |-> cl, l |-> l, b |-> e]
  BY DEF cl, e
<1>5. f.k = k /\ f.t = t /\ f.done = cl /\ f.l = l /\ f.b = e
  BY <1>4
<1>6. f = [k |-> f.k, t |-> f.t, done |-> f.done, l |-> f.l, b |-> f.b]
  BY <1>4, <1>5
<1>7. FrameSound(L, f)
  BY <1>1, <1>2, <1>5, <1>6 DEF FrameSound
<1>8. ~BreaksOut(L, f)
  BY <1>1, <1>3, <1>5 DEF BreaksOut
<1>9. QED
  BY <1>7, <1>8

(* A clause is ended.                                                      *)
LEMMA ClauseFields ==
  ASSUME NEW L, NEW f, FrameSound(L, f), NEW cl, cl = EndClause(f)
  PROVE  /\ cl = [body |-> cl.body, else |-> cl.else, finally |-> cl.finally,
                  except |-> cl.except, case |-> cl.case, twice |-> cl.twice]
         /\ cl.body = IF f.l = "body" THEN f.b ELSE f.done.body
         /\ cl.else = IF f.l = "else" THEN f.b ELSE f.done.else
         /\ cl.finally = IF f.l = "finally" THEN f.b ELSE f.done.finally
         /\ cl.except = IF f.l = "except" THEN f.done.except \cup {f.b} ELSE f.done.except
         /\ cl.case = IF f.l = "case" THEN f.done.case \cup {f.b} ELSE f.done.case
         /\ cl.twice = IF f.l = "case" THEN f.done.twice \cup ({f.b} \cap f.done.case) ELSE f.done.twice
<1> DEFINE d == f.done
<1>1. d = [body |-> d.body, else |-> d.else, finally |-> d.finally,
           except |-> d.except, case |-> d.case, twice |-> d.twice]
  BY DEF FrameSound, ClausesSound
<1>2. f.l \in {"body", "else", "except", "finally", "case"}
  BY DEF FrameSound
<1> HIDE DEF d
<1>3. /\ f.l = "body" => cl = [d EXCEPT !.body = f.b]
      /\ f.l = "else" => cl = [d EXCEPT !.else = f.b]
      /\ f.l = "finally" => cl = [d EXCEPT !.finally = f.b]
      /\ f.l = "except" => cl = [d EXCEPT !.except = d.except \cup {f.b}]
      /\ f.l = "case" => cl = [d EXCEPT !.case = d.case \cup {f.b},
                                       !.twice = d.twice \cup ({f.b} \cap d.case)]
  BY DEF EndClause, d
<1>4. CASE f.l = "body"
  BY <1>1, <1>3, <1>4 DEF d
<1>5. CASE f.l = "else"
  BY <1>1, <1>3, <1>5 DEF d
<1>6. CASE f.l = "finally"
  BY <1>1, <1>3, <1>6 DEF d
<1>7. CASE f.l = "except"
  BY <1>1, <1>3, <1>7 DEF d
<1>8. CASE f.l = "case"
  BY <1>1, <1>3, <1>8 DEF d
<1>9. QED
  BY <1>2, <1>4, <1>5, <1>6, <1>7, <1>8

LEMMA ClauseEnded ==
  ASSUME NEW L, NEW f, FrameSound(L, f), MayEndIn(L, f.b), NEW cl, cl = EndClause(f)
  PROVE  /\ ClausesSound(L, f.k, cl)
         /\ f.l # "case" => MayEndIn(L, cl.body)
         /\ f.l = "case" => cl.case # {}
         /\ Parts(cl) \subseteq Parts(f.done) \cup {f.b}
<1>1. /\ cl = [body |-> cl.body, else |-> cl.else, finally |-> cl.finally,
               except |-> cl.except, case |-> cl.case, twice |-> cl.twice]
      /\ cl.body = IF f.l = "body" THEN f.b ELSE f.done.body
      /\ cl.else = IF f.l = "else" THEN f.b ELSE f.done.else
      /\ cl.finally = IF f.l = "finally" THEN f.b ELSE f.done.finally
      /\ cl.except = IF f.l = "except" THEN f.done.except \cup {f.b} ELSE f.done.except
      /\ cl.case = IF f.l = "case" THEN f.done.case \cup {f.b} ELSE f.done.case
      /\ cl.twice = IF f.l = "case" THEN f.done.twice \cup ({f.b} \cap f.done.case) ELSE f.done.twice
  BY ClauseFields
<1>2. Parts(cl) \subseteq Parts(f.done) \cup {f.b}
  BY <1>1 DEF Parts
<1>3. \A b \in Parts(cl) : Sound(L, b)
  BY <1>2 DEF FrameSound, ClausesSound
<1>4. /\ cl.body = EmptyIn(L) \/ f.k \notin {"match", "switch"}
      /\ cl.else = EmptyIn(L) \/ f.k \in {"if", "for", "while", "try", "try*"}
      /\ cl.finally = EmptyIn(L) \/ f.k \in {"try", "try*"}
      /\ cl.except = {} \/ f.k \in {"try", "try*"}
      /\ cl.case = {} \/ f.k \in {"match", "switch"}
  BY <1>1 DEF FrameSound, ClausesSound
<1>5. \A b \in cl.except \cup cl.case : MayEndIn(L, b)
  BY <1>1 DEF FrameSound, ClausesSound
<1>a. cl.twice \subseteq cl.case
  BY <1>1 DEF FrameSound, ClausesSound
<1>6. ClausesSound(L, f.k, cl)
  BY <1>1, <1>3, <1>4, <1>5, <1>a DEF ClausesSound
<1>7. /\ f.l # "case" => MayEndIn(L, cl.body)
      /\ f.l = "case" => cl.case # {}
  BY <1>1 DEF FrameSound
<1>8. QED
  BY <1>2, <1>6, <1>7

LEMMA FrameFields ==
  ASSUME NEW k, NEW t, NEW done, NEW l, NEW b,
         NEW g, g = [k |-> k, t |-> t, done |-> done, l |-> l, b |-> b]
  PROVE  /\ g = [k |-> g.k, t |-> g.t, done |-> g.done, l |-> g.l, b |-> g.b]
         /\ g.k = k /\ g.t = t /\ g.done = done /\ g.l = l /\ g.b = b
OBVIOUS

(* The next clause is begun.                                               *)
LEMMA ClauseBegun ==
  ASSUME NEW L \in Languages, NEW f, FrameSound(L, f), MayEndIn(L, f.b),
         NEW l \in Following(f.k, f.l),
         NEW cl, cl = EndClause(f),
         NEW g, g = [k |-> f.k, t |-> f.t, done |-> cl, l |-> l, b |-> EmptyIn(L)]
  PROVE  FrameSound(L, g) /\ SameStatement(g, f) /\ (BreaksOut(L, g) => BreaksOut(L, f))
<1> DEFINE e == EmptyIn(L)
<1>2. /\ ClausesSound(L, f.k, cl)
      /\ f.l # "case" => MayEndIn(L, cl.body)
  BY ClauseEnded
<1>3. /\ cl.body = IF f.l = "body" THEN f.b ELSE f.done.body
      /\ cl.else = IF f.l = "else" THEN f.b ELSE f.done.else
      /\ cl.finally = IF f.l = "finally" THEN f.b ELSE f.done.finally
      /\ cl.except = IF f.l = "except" THEN f.done.except \cup {f.b} ELSE f.done.except
      /\ cl.case = IF f.l = "case" THEN f.done.case \cup {f.b} ELSE f.done.case
  BY ClauseFields
<1>4. Sound(L, e) /\ ~Breaks(L, e)
  BY EmptyBlock
<1>5. g = [k |-> f.k, t |-> f.t, done |-> cl, l |-> l, b |-> e]
  OBVIOUS
<1> HIDE DEF e
<1>6. /\ g = [k |-> g.k, t |-> g.t, done |-> g.done, l |-> g.l, b |-> g.b]
      /\ g.k = f.k /\ g.t = f.t /\ g.done = cl /\ g.l = l /\ g.b = e
  BY <1>5, FrameFields
<1>7. /\ l \in {"body", "else", "except", "finally", "case"}
      /\ l = "case" <=> f.k \in {"match", "switch"}
      /\ l = "else" => f.k \in {"if", "for", "while", "try", "try*"}
      /\ l \in {"except", "finally"} => f.k \in {"try", "try*"}
      /\ l # "case" => f.l # "case"
  <2>1. f.l = "case" <=> f.k \in {"match", "switch"}
    BY DEF FrameSound
  <2>2. QED
    BY <2>1 DEF Following
<1>8. FrameSound(L, g)
  BY <1>2, <1>4, <1>6, <1>7 DEF FrameSound
<1>9. SameStatement(g, f)
  BY <1>6 DEF SameStatement
<1>10. BreaksOut(L, g) => BreaksOut(L, f)
  <2>1. Breaks(L, cl.body) /\ f.k \notin Loops => BreaksOut(L, f)
    BY <1>3 DEF BreaksOut, LoopBody
  <2>2. ASSUME NEW b \in {cl.else, cl.finally} \cup cl.except \cup cl.case, Breaks(L, b)
        PROVE  BreaksOut(L, f)
    <3>1. \/ b \in {f.done.else, f.done.finally} \cup f.done.except \cup f.done.case
          \/ b = f.b /\ f.l # "body"
      BY <1>3
    <3>2. QED
      BY <2>2, <3>1 DEF BreaksOut, LoopBody
  <2>3. QED
    BY <1>4, <1>6, <2>1, <2>2 DEF BreaksOut
<1>11. QED
  BY <1>8, <1>9, <1>10

(* A statement is ended.                                                   *)
LEMMA StatementEnded ==
  ASSUME NEW L \in Languages, NEW f, FrameSound(L, f), MayEndIn(L, f.b),
         <<f.k, f.t>> \in CompoundsOf[L], NEW s, s = StatementIn(L, f.k, f.t, EndClause(f))
  PROVE  Sound(L, s) /\ Stands(L, s) /\ (Breaks(L, s) => BreaksOut(L, f))
<1> DEFINE cl == EndClause(f)
<1>1. /\ ClausesSound(L, f.k, cl)
      /\ f.l # "case" => MayEndIn(L, cl.body)
      /\ f.l = "case" => cl.case # {}
  BY ClauseEnded
<1>2. MayStand(L, f.k, f.t, cl)
  BY <1>1 DEF MayStand, FrameSound
<1>3. Sound(L, s) /\ Stands(L, s)
  BY <1>1, <1>2, StatementBlock
<1>4. ASSUME Breaks(L, s)
      PROVE  BreaksOut(L, f)
  <2>1. \/ f.k \in {"break", "continue"} /\ f.k \in SimpleOf[L]
        \/ <<f.k, f.t>> \in CompoundsOf[L] /\ f.k \in Loops /\ Breaks(L, cl.else)
        \/ <<f.k, f.t>> \in CompoundsOf[L] /\ f.k \notin Loops /\ \E b \in Parts(cl) : Breaks(L, b)
    BY <1>1, <1>2, <1>4, StatementBreaks
  <2>2. f.k \notin {"break", "continue"}
    BY LanguageNames DEF Compounds, RustCompounds, GoCompounds
  <2>3. CASE f.k \in Loops /\ Breaks(L, cl.else)
    <3>1. cl.else = IF f.l = "else" THEN f.b ELSE f.done.else
      BY ClauseFields
    <3>2. QED
      BY <2>3, <3>1 DEF BreaksOut, LoopBody
  <2>4. CASE f.k \notin Loops /\ \E b \in Parts(cl) : Breaks(L, b)
    <3>1. PICK b \in Parts(cl) : Breaks(L, b)
      BY <2>4
    <3>2. b \in Parts(f.done) \/ b = f.b
      BY ClauseEnded
    <3>3. QED
      BY <2>4, <3>1, <3>2 DEF BreaksOut, LoopBody, Parts
  <2>5. QED
    BY <2>1, <2>2, <2>3, <2>4
<1>5. QED
  BY <1>3, <1>4

(* The body before anything is typed.                                      *)
LEMMA OneBlock ==
  ASSUME NEW L \in Languages, NEW f,
         f = [k |-> "def", t |-> "-", done |-> NoClauses(EmptyIn(L)), l |-> "body", b |-> EmptyIn(L)]
  PROVE  StackSound(L, <<f>>)
<1> DEFINE o == <<f>>
<1>1. FrameSound(L, f) /\ ~BreaksOut(L, f)
  <2> DEFINE k == "def"
             l == "body"
             t == "-"
  <2>1. l \in {"body", "case"} /\ (l = "case" <=> k \in {"match", "switch"})
    OBVIOUS
  <2>2. f = [k |-> k, t |-> t, done |-> NoClauses(EmptyIn(L)), l |-> l, b |-> EmptyIn(L)]
    OBVIOUS
  <2> HIDE DEF k, l, t
  <2>3. QED
    BY <2>1, <2>2, FrameOpened
<1>2. f.k = "def" /\ f.l = "body"
  OBVIOUS
<1>3. o \in Seq({f}) /\ Len(o) = 1 /\ o[1] = f
  OBVIOUS
<1> HIDE DEF o
<1>4. Stack(o)
  BY <1>3, StackOf
<1>5. DOMAIN o = {1}
  BY <1>3, <1>4, StackFacts
<1>6. StackSound(L, o)
  BY <1>1, <1>2, <1>3, <1>4, <1>5 DEF StackSound, OpenSound
<1>7. QED
  BY <1>6 DEF o

LEMMA LangTyped ==
  ASSUME FromTask
  PROVE  def.lang \in Languages
BY DEF FromTask, Defs

(* A statement that is typed breaks only out of a loop.                    *)
LEMMA LoopEncloses ==
  ASSUME Stack(open), InLoop
  PROVE  LoopBody(open[Len(open)]) \/ InLoopBelow(open, Len(open))
<1>1. DOMAIN open = 1 .. Len(open) /\ Len(open) \in Nat
  BY StackFacts
<1>2. PICK i \in DOMAIN open : open[i].k \in Loops /\ open[i].l = "body"
  BY DEF InLoop
<1>3. i = Len(open) \/ i < Len(open)
  BY <1>1, <1>2
<1>4. QED
  BY <1>2, <1>3 DEF LoopBody, InLoopBelow

LEMMA SimpleTyped ==
  ASSUME NEW L \in Languages, NEW k \in SimpleOf[L],
         NEW s, s = StatementIn(L, k, "-", NoClauses(EmptyIn(L)))
  PROVE  Sound(L, s) /\ Stands(L, s) /\ (Breaks(L, s) => k \in {"break", "continue"})
<1> DEFINE cl == NoClauses(EmptyIn(L))
           t == "-"
<1>1. ClausesSound(L, k, cl)
  BY NoClausesSound
<1>2. \A b \in Parts(cl) : ~Breaks(L, b)
  <2>1. Parts(cl) = {EmptyIn(L)}
    BY DEF Parts, NoClauses
  <2>2. QED
    BY <2>1, EmptyBlock
<1>a. cl.else \in Parts(cl)
  BY DEF Parts
<1>b. s = StatementIn(L, k, t, cl)
  OBVIOUS
<1>3. MayStand(L, k, t, cl)
  BY DEF MayStand
<1> HIDE DEF cl, t
<1>4. Sound(L, s) /\ Stands(L, s)
  BY <1>1, <1>3, <1>b, StatementBlock
<1>5. Breaks(L, s) => k \in {"break", "continue"}
  BY <1>1, <1>2, <1>3, <1>a, <1>b, StatementBreaks
<1>6. QED
  BY <1>4, <1>5

-----------------------------------------------------------------------------
(* The steps.                                                              *)

(* FlowInv holds at first.                                                 *)
LEMMA InitFlow == Init => FlowInv
<1> SUFFICES ASSUME Init
             PROVE  FlowInv
  OBVIOUS
<1>1. FromTask
  <2>1. PICK task \in Tasks : def = task.def /\ grammar = task.grammar
    BY DEF Init
  <2>2. QED
    BY <2>1, TasksAssumption DEF FromTask
<1>2. def.lang \in Languages
  BY <1>1, LangTyped
<1>3. Frame("def", "-", "body") =
        [k |-> "def", t |-> "-", done |-> NoClauses(EmptyIn(def.lang)), l |-> "body",
         b |-> EmptyIn(def.lang)]
  BY LanguageWalks DEF Frame
<1>4. StackSound(def.lang, open)
  BY <1>2, <1>3, OneBlock DEF Init
<1>5. types \in Seq(TypesOf[def.lang])
  BY DEF Init
<1>6. QED
  BY <1>1, <1>4, <1>5 DEF FlowInv, Init

(* A simple statement is typed.                                            *)
LEMMA TypeStep ==
  ASSUME FlowInv, NEW k \in grammar.simple, Type(k)
  PROVE  StackSound(def.lang, open')
<1> DEFINE L == def.lang
           g == open[Len(open)]
           s == StatementIn(L, k, "-", NoClauses(EmptyIn(L)))
           f == [g EXCEPT !.b = ThenIn(L, g.b, s)]
<1>1. L \in Languages /\ k \in SimpleOf[L]
  BY LangTyped DEF FlowInv, FromTask
<1>2. StackSound(L, open) /\ Stack(open)
  BY DEF FlowInv, StackSound, OpenSound
<1>4. Sound(L, s) /\ Stands(L, s) /\ (Breaks(L, s) => k \in {"break", "continue"})
  BY <1>1, SimpleTyped
<1>5. Breaks(L, s) => LoopBody(g) \/ InLoopBelow(open, Len(open))
  BY <1>2, <1>4, LoopEncloses DEF Type, Legal
<1>6. open' = [open EXCEPT ![Len(open)] = f]
  BY LanguageWalks DEF Type, SetTop, AppendTo, Top
<1> HIDE DEF s
<1>7. QED
  BY <1>1, <1>2, <1>4, <1>5, <1>6, StackGoesOn

(* A block is opened.                                                      *)
LEMMA OpenBlockStep ==
  ASSUME FlowInv, NEW k, NEW t, <<k, t>> \in grammar.compound, OpenBlock(k, t)
  PROVE  StackSound(def.lang, open')
<1> DEFINE L == def.lang
           l == IF k \in {"match", "switch"} THEN "case" ELSE "body"
           f == Frame(k, t, l)
<1>1. L \in Languages /\ <<k, t>> \in CompoundsOf[L]
  BY LangTyped DEF FlowInv, FromTask
<1>2. f = [k |-> k, t |-> t, done |-> NoClauses(EmptyIn(L)), l |-> l, b |-> EmptyIn(L)]
  BY LanguageWalks DEF Frame
<1>3. l \in {"body", "case"} /\ (l = "case" <=> k \in {"match", "switch"})
  OBVIOUS
<1>4. StackSound(L, open) /\ open' = Append(open, f)
  BY DEF FlowInv, OpenBlock
<1> HIDE DEF l, f
<1>5. FrameSound(L, f) /\ ~BreaksOut(L, f)
  BY <1>1, <1>2, <1>3, FrameOpened
<1>6. f.k = k /\ f.t = t
  BY <1>2
<1>7. QED
  BY <1>1, <1>4, <1>5, <1>6, StackOpened

LEMMA StackContinues ==
  ASSUME NEW L \in Languages, NEW o, StackSound(L, o), Len(o) > 1,
         NEW f, f = o[Len(o)], MayEndIn(L, f.b), NEW l \in Following(f.k, f.l),
         NEW cl, cl = EndClause(f),
         NEW g, g = [k |-> f.k, t |-> f.t, done |-> cl, l |-> l, b |-> EmptyIn(L)],
         NEW p, p = [o EXCEPT ![Len(o)] = g]
  PROVE  StackSound(L, p)
<1>1. /\ FrameSound(L, f)
      /\ BreaksOut(L, f) => InLoopBelow(o, Len(o))
  BY StackTop
<1>2. FrameSound(L, g) /\ SameStatement(g, f) /\ (BreaksOut(L, g) => BreaksOut(L, f))
  BY <1>1, ClauseBegun
<1>3. SameStatement(g, o[Len(o)])
  BY <1>2
<1>4. BreaksOut(L, g) => InLoopBelow(o, Len(o))
  BY <1>1, <1>2
<1>5. Len(o) = 1 => g.l = "body"
  BY StackTop
<1>6. QED
  BY <1>2, <1>3, <1>4, <1>5, TopChanged

(* The next clause of the innermost statement is begun.                    *)
LEMMA NextClauseStep ==
  ASSUME FlowInv, NEW l, NextClause(l)
  PROVE  StackSound(def.lang, open')
<1> DEFINE L == def.lang
           f == open[Len(open)]
           cl == EndClause(f)
           g == [k |-> f.k, t |-> f.t, done |-> cl, l |-> l, b |-> EmptyIn(L)]
<1>1. L \in Languages /\ StackSound(L, open)
  BY LangTyped DEF FlowInv
<1>2. Len(open) > 1 /\ MayEndIn(L, f.b) /\ l \in Following(f.k, f.l)
  BY LanguageWalks DEF NextClause, Top
<1>3. Frame(f.k, f.t, l) =
        [k |-> f.k, t |-> f.t, done |-> NoClauses(EmptyIn(L)), l |-> l, b |-> EmptyIn(L)]
  BY LanguageWalks DEF Frame
<1>4. [Frame(f.k, f.t, l) EXCEPT !.done = cl] = g
  BY <1>3
<1>5. open' = [open EXCEPT ![Len(open)] = [Frame(f.k, f.t, l) EXCEPT !.done = cl]]
  BY DEF NextClause, SetTop, Top
<1>6. open' = [open EXCEPT ![Len(open)] = g]
  BY <1>4, <1>5
<1>7. QED
  BY <1>1, <1>2, <1>6, StackContinues

LEMMA StackCloses ==
  ASSUME NEW L \in Languages, NEW o, StackSound(L, o), Len(o) > 1,
         NEW f, f = o[Len(o)], MayEndIn(L, f.b),
         NEW s, s = StatementIn(L, f.k, f.t, EndClause(f)),
         NEW below, below = Below(o),
         NEW h, h = [below[Len(below)] EXCEPT !.b = ThenIn(L, below[Len(below)].b, s)],
         NEW p, p = [below EXCEPT ![Len(below)] = h]
  PROVE  StackSound(L, p)
<1>1. /\ FrameSound(L, f)
      /\ BreaksOut(L, f) => InLoopBelow(o, Len(o))
      /\ <<f.k, f.t>> \in CompoundsOf[L]
  BY StackTop
<1>2. Sound(L, s) /\ Stands(L, s) /\ (Breaks(L, s) => BreaksOut(L, f))
  BY <1>1, StatementEnded
<1>3. /\ StackSound(L, below)
      /\ InLoopBelow(o, Len(o)) => LoopBody(below[Len(below)]) \/ InLoopBelow(below, Len(below))
  BY StackClosed
<1>4. Breaks(L, s) => LoopBody(below[Len(below)]) \/ InLoopBelow(below, Len(below))
  BY <1>1, <1>2, <1>3
<1>5. QED
  BY <1>2, <1>3, <1>4, StackGoesOn

(* The innermost statement is closed and stands in the block below.        *)
LEMMA CloseBlockStep ==
  ASSUME FlowInv, CloseBlock
  PROVE  StackSound(def.lang, open')
<1> DEFINE L == def.lang
           f == open[Len(open)]
           below == Below(open)
           s == StatementIn(L, f.k, f.t, EndClause(f))
           h == [below[Len(below)] EXCEPT !.b = ThenIn(L, below[Len(below)].b, s)]
<1>1. L \in Languages /\ StackSound(L, open)
  BY LangTyped DEF FlowInv
<1>2. Len(open) > 1 /\ MayEndIn(L, f.b)
  BY LanguageWalks DEF CloseBlock, Top
<1>3. open' = [below EXCEPT ![Len(below)] = h]
  BY LanguageWalks DEF CloseBlock, AppendTo, Top, Below
<1>4. QED
  BY <1>1, <1>2, <1>3, StackCloses

-----------------------------------------------------------------------------
(* Late readers of Python.  One is run only where one has been made, and   *)
(* what has been typed is never lost: a clause that is ended takes the     *)
(* place of an empty one.                                                  *)

LateWords == {"late", "late()"}

InFrame(f, w) == \E b \in {f.b} \cup Parts(f.done) : Has(b, {w})
Somewhere(o, w) == \E i \in DOMAIN o : InFrame(o[i], w)

(* The clauses of a statement that are still to come.                      *)
Coming(f) ==
  /\ f.l = "body" => f.done = NoClauses(PyEmpty)
  /\ f.l \in {"except", "else"} => f.done.else = PyEmpty
  /\ f.l \in {"except", "else", "finally"} => f.done.finally = PyEmpty

LateSound(o) ==
  /\ Somewhere(o, "late()") => Somewhere(o, "late")
  /\ \A i \in DOMAIN o : Coming(o[i])

LateInv == def.lang = "python" => LateSound(open)

LEMMA EmptyHas == \A w : ~Has(PyEmpty, {w})
BY EmptyFields DEF Has

LEMMA NoClausesFields ==
  LET cl == NoClauses(PyEmpty) IN
    /\ Parts(cl) = {PyEmpty}
    /\ cl.body = PyEmpty /\ cl.else = PyEmpty /\ cl.finally = PyEmpty
    /\ cl.except = {} /\ cl.case = {}
BY DEF NoClauses, Parts

(* What is in a clause that ends is in the statement it is of.             *)
LEMMA ClauseKept ==
  ASSUME NEW f, FrameSound("python", f), Coming(f), NEW w
  PROVE  InFrame(f, w) <=> \E b \in Parts(EndClause(f)) : Has(b, {w})
<1> DEFINE d == f.done
           cl == EndClause(f)
<1>1. /\ cl.body = IF f.l = "body" THEN f.b ELSE d.body
      /\ cl.else = IF f.l = "else" THEN f.b ELSE d.else
      /\ cl.finally = IF f.l = "finally" THEN f.b ELSE d.finally
      /\ cl.except = IF f.l = "except" THEN d.except \cup {f.b} ELSE d.except
      /\ cl.case = IF f.l = "case" THEN d.case \cup {f.b} ELSE d.case
  BY ClauseFields
<1>2. /\ f.l = "body" => d.body = PyEmpty
      /\ f.l = "else" => d.else = PyEmpty
      /\ f.l = "finally" => d.finally = PyEmpty
      /\ f.l \in {"body", "else", "except", "finally", "case"}
  BY NoClausesFields DEF Coming, FrameSound
<1> HIDE DEF d, cl
<1>3. Parts(cl) \subseteq Parts(d) \cup {f.b}
  BY <1>1 DEF Parts
<1>4. \A b \in Parts(d) \cup {f.b} : b \in Parts(cl) \/ b = PyEmpty
  BY <1>1, <1>2 DEF Parts
<1>5. InFrame(f, w) <=> \E b \in Parts(d) \cup {f.b} : Has(b, {w})
  BY DEF InFrame, d
<1>6. QED
  BY <1>3, <1>4, <1>5, EmptyHas DEF cl

(* Where the words of a stack are when its top is replaced.                *)
LEMMA TopFound ==
  ASSUME NEW o, Stack(o), NEW w
  PROVE  Somewhere(o, w) <=>
           InFrame(o[Len(o)], w) \/ \E i \in DOMAIN o : i # Len(o) /\ InFrame(o[i], w)
<1>1. Len(o) \in DOMAIN o
  BY StackFacts
<1>2. QED
  BY <1>1 DEF Somewhere

LEMMA TopLate ==
  ASSUME NEW o, Stack(o), LateSound(o), NEW f, Coming(f),
         \A w \in LateWords : InFrame(o[Len(o)], w) => InFrame(f, w),
         InFrame(f, "late()") => InFrame(o[Len(o)], "late()") \/ Somewhere(o, "late"),
         NEW p, p = [o EXCEPT ![Len(o)] = f]
  PROVE  LateSound(p)
<1>1. /\ Stack(p) /\ Len(p) = Len(o) /\ DOMAIN p = DOMAIN o
      /\ p[Len(o)] = f
      /\ \A i \in DOMAIN o : i # Len(o) => p[i] = o[i]
  BY TopReplaced
<1>2. ASSUME NEW w
      PROVE  Somewhere(p, w) <=>
               InFrame(f, w) \/ \E i \in DOMAIN o : i # Len(o) /\ InFrame(o[i], w)
  <2>1. Somewhere(p, w) <=>
          InFrame(p[Len(p)], w) \/ \E i \in DOMAIN p : i # Len(p) /\ InFrame(p[i], w)
    BY <1>1, TopFound
  <2>2. QED
    BY <1>1, <2>1
<1>3. Somewhere(o, "late") => Somewhere(p, "late")
  BY <1>2, TopFound DEF LateWords
<1>4. Somewhere(p, "late()") => Somewhere(o, "late()") \/ Somewhere(o, "late")
  BY <1>2, TopFound
<1>5. \A i \in DOMAIN p : Coming(p[i])
  BY <1>1 DEF LateSound
<1>6. QED
  BY <1>3, <1>4, <1>5 DEF LateSound

(* A block that goes on with a statement has what the two have.            *)
LEMMA GoesOnKept ==
  ASSUME NEW g, FrameSound("python", g), NEW s,
         NEW f, f = [g EXCEPT !.b = PyThen(g.b, s)], NEW w
  PROVE  /\ InFrame(f, w) <=> InFrame(g, w) \/ Has(s, {w})
         /\ f.l = g.l /\ f.done = g.done
<1>1. g = [k |-> g.k, t |-> g.t, done |-> g.done, l |-> g.l, b |-> g.b]
  BY DEF FrameSound
<1>2. f = [k |-> g.k, t |-> g.t, done |-> g.done, l |-> g.l, b |-> PyThen(g.b, s)]
  BY <1>1
<1>3. f.b = PyThen(g.b, s) /\ f.done = g.done /\ f.l = g.l
  BY <1>2
<1>4. Has(f.b, {w}) <=> Has(g.b, {w}) \/ Has(s, {w})
  BY <1>3, WithinThen
<1>5. QED
  BY <1>3, <1>4 DEF InFrame

(* The innermost block of a Python function.                               *)
LEMMA PyTop ==
  ASSUME FlowInv, def.lang = "python"
  PROVE  /\ StackSound("python", open) /\ Stack(open)
         /\ FrameSound("python", open[Len(open)])
         /\ Len(open) \in DOMAIN open /\ Len(open) \in Nat /\ DOMAIN open = 1 .. Len(open)
         /\ Len(open) > 1 => <<open[Len(open)].k, open[Len(open)].t>> \in Compounds
<1>1. StackSound("python", open)
  BY DEF FlowInv
<1>2. Stack(open)
  BY <1>1 DEF StackSound, OpenSound
<1>3. Len(open) \in DOMAIN open /\ Len(open) \in Nat /\ DOMAIN open = 1 .. Len(open)
  BY <1>2, StackFacts
<1>4. FrameSound("python", open[Len(open)])
  BY <1>1, StackTop
<1>5. Len(open) > 1 => <<open[Len(open)].k, open[Len(open)].t>> \in CompoundsOf["python"]
  BY <1>1, StackTop
<1>6. QED
  BY <1>1, <1>2, <1>3, <1>4, <1>5, LanguageNames

LEMMA TypeLate ==
  ASSUME FlowInv, LateSound(open), def.lang = "python", NEW k, Type(k)
  PROVE  LateSound(open')
<1> DEFINE g == open[Len(open)]
           cl == NoClauses(PyEmpty)
           s == PyStatement(k, "-", cl)
           f == [g EXCEPT !.b = PyThen(g.b, s)]
<1>1. Stack(open) /\ FrameSound("python", g) /\ Len(open) \in DOMAIN open
  BY PyTop
<1>2. open' = [open EXCEPT ![Len(open)] = f]
  BY LanguageWalks DEF Type, SetTop, AppendTo, Top, EmptyIn, StatementIn, ThenIn
<1>3. k = "late()" => Somewhere(open, "late")
  BY DEF Type, Legal, SomeLateReader, Somewhere, InFrame
<1>4. \A w : Has(s, {w}) => k = w
  <2>1. \A w : Has(s, {w}) => k = w \/ \E b \in Parts(cl) : Has(b, {w})
    BY WithinStatement
  <2>2. QED
    BY <2>1, NoClausesFields, EmptyHas
<1> HIDE DEF s, cl
<1>5. /\ \A w : InFrame(f, w) <=> InFrame(g, w) \/ Has(s, {w})
      /\ f.l = g.l /\ f.done = g.done
  BY <1>1, GoesOnKept
<1> HIDE DEF f
<1>6. Coming(f)
  BY <1>1, <1>5 DEF LateSound, Coming
<1>7. InFrame(f, "late()") => InFrame(g, "late()") \/ Somewhere(open, "late")
  BY <1>3, <1>4, <1>5
<1>8. QED
  BY <1>1, <1>2, <1>5, <1>6, <1>7, TopLate

LEMMA FreshFrame ==
  ASSUME NEW k, NEW t, NEW l,
         NEW f, f = [k |-> k, t |-> t, done |-> NoClauses(PyEmpty), l |-> l, b |-> PyEmpty]
  PROVE  Coming(f) /\ \A w : ~InFrame(f, w)
<1>1. f.done = NoClauses(PyEmpty) /\ f.l = l /\ f.b = PyEmpty
  OBVIOUS
<1>2. QED
  BY <1>1, NoClausesFields, EmptyHas DEF Coming, InFrame

LEMMA OpenBlockLate ==
  ASSUME FlowInv, LateSound(open), def.lang = "python", NEW k, NEW t, OpenBlock(k, t)
  PROVE  LateSound(open')
<1> DEFINE l == IF k \in {"match", "switch"} THEN "case" ELSE "body"
           f == Frame(k, t, l)
<1>1. f = [k |-> k, t |-> t, done |-> NoClauses(PyEmpty), l |-> l, b |-> PyEmpty]
  BY LanguageWalks DEF Frame, EmptyIn
<1>2. open' = Append(open, f)
  BY DEF OpenBlock
<1> HIDE DEF f, l
<1>3. Coming(f) /\ \A w : ~InFrame(f, w)
  BY <1>1, FreshFrame
<1>4. Stack(open)
  BY DEF FlowInv, StackSound, OpenSound
<1>5. /\ DOMAIN open' = 1 .. Len(open) + 1 /\ DOMAIN open = 1 .. Len(open) /\ Len(open) \in Nat
      /\ open'[Len(open) + 1] = f
      /\ \A i \in 1 .. Len(open) : open'[i] = open[i]
  BY <1>2, <1>4, BlockOpened
<1>6. \A i \in DOMAIN open' : i \in DOMAIN open \/ i = Len(open) + 1
  BY <1>5
<1>7. DOMAIN open \subseteq DOMAIN open'
  BY <1>5
<1>8. \A w : Somewhere(open', w) <=> Somewhere(open, w)
  BY <1>3, <1>5, <1>6, <1>7 DEF Somewhere
<1>9. \A i \in DOMAIN open' : Coming(open'[i])
  BY <1>3, <1>5, <1>6 DEF LateSound
<1>10. QED
  BY <1>8, <1>9 DEF LateSound

LEMMA NextClauseLate ==
  ASSUME FlowInv, LateSound(open), def.lang = "python", NEW l, NextClause(l)
  PROVE  LateSound(open')
<1> DEFINE f == open[Len(open)]
           cl == EndClause(f)
           e == PyEmpty
           g == [k |-> f.k, t |-> f.t, done |-> cl, l |-> l, b |-> e]
<1>1. Stack(open) /\ FrameSound("python", f) /\ Len(open) \in DOMAIN open
  BY PyTop
<1>2. Frame(f.k, f.t, l) =
        [k |-> f.k, t |-> f.t, done |-> NoClauses(PyEmpty), l |-> l, b |-> PyEmpty]
  BY LanguageWalks DEF Frame, EmptyIn
<1>3. [Frame(f.k, f.t, l) EXCEPT !.done = cl] = g
  BY <1>2
<1>4. open' = [open EXCEPT ![Len(open)] = [Frame(f.k, f.t, l) EXCEPT !.done = cl]]
  BY DEF NextClause, SetTop, Top
<1>5. open' = [open EXCEPT ![Len(open)] = g]
  BY <1>3, <1>4
<1>6. l \in Following(f.k, f.l)
  BY DEF NextClause, Top
<1>7. Coming(f)
  BY <1>1 DEF LateSound
<1> HIDE DEF f
<1>8. /\ cl.else = IF f.l = "else" THEN f.b ELSE f.done.else
      /\ cl.finally = IF f.l = "finally" THEN f.b ELSE f.done.finally
  BY <1>1, ClauseFields
<1>9. \A w : InFrame(f, w) <=> \E b \in Parts(cl) : Has(b, {w})
  BY <1>1, <1>7, ClauseKept
<1> HIDE DEF cl, e
<1>10. g.l = l /\ g.done = cl /\ g.b = e
  BY FrameFields
<1> HIDE DEF g
<1>11. Coming(g)
  <2>1. f.l = "body" => f.done.else = PyEmpty /\ f.done.finally = PyEmpty
    BY <1>7, NoClausesFields DEF Coming
  <2>2. /\ l # "body"
        /\ l \in {"except", "else"} => f.l \in {"body", "except"}
        /\ l = "finally" => f.l \in {"body", "except", "else"}
    BY <1>6 DEF Following
  <2>3. l \in {"except", "else"} => cl.else = PyEmpty
    BY <1>7, <1>8, <2>1, <2>2 DEF Coming
  <2>4. l \in {"except", "else", "finally"} => cl.finally = PyEmpty
    BY <1>7, <1>8, <2>1, <2>2 DEF Coming
  <2>5. QED
    BY <1>10, <2>2, <2>3, <2>4 DEF Coming
<1>12. \A w : InFrame(g, w) <=> InFrame(f, w)
  BY <1>9, <1>10, EmptyHas DEF InFrame, e
<1>13. QED
  BY <1>1, <1>5, <1>11, <1>12, TopLate DEF f

LEMMA CloseBlockLate ==
  ASSUME FlowInv, LateSound(open), def.lang = "python", CloseBlock
  PROVE  LateSound(open')
<1> DEFINE n == Len(open)
           f == open[n]
           cl == EndClause(f)
           s == PyStatement(f.k, f.t, cl)
           below == Below(open)
           g == below[Len(below)]
           h == [g EXCEPT !.b = PyThen(g.b, s)]
<1>1. /\ Stack(open) /\ FrameSound("python", f) /\ n \in DOMAIN open
      /\ n \in Nat /\ n > 1 /\ DOMAIN open = 1 .. n
      /\ <<f.k, f.t>> \in Compounds
  BY PyTop DEF CloseBlock
<1>2. open' = [below EXCEPT ![Len(below)] = h]
  BY LanguageWalks DEF CloseBlock, AppendTo, Top, Below, StatementIn, ThenIn
<1>3. /\ Stack(below) /\ Len(below) = n - 1
      /\ \A i \in 1 .. n - 1 : below[i] = open[i]
  BY <1>1, BlockBelow DEF Below
<1> HIDE DEF below, n
<1>4. DOMAIN below = 1 .. n - 1 /\ Len(below) \in DOMAIN below
  BY <1>3, StackFacts
<1>a. n - 1 \in 1 .. n
  BY <1>1
<1>5. FrameSound("python", g) /\ Coming(g) /\ Coming(f)
  <2>1. g = open[n - 1] /\ n - 1 \in DOMAIN open
    BY <1>1, <1>3, <1>4, <1>a
  <2>2. StackSound("python", open)
    BY DEF FlowInv
  <2>3. QED
    BY <1>1, <2>1, <2>2, FrameAt DEF LateSound
<1>6. \A w \in LateWords : Has(s, {w}) <=> InFrame(f, w)
  <2>1. f.k \notin LateWords
    BY <1>1 DEF Compounds, LateWords
  <2>2. \A w \in LateWords : Has(s, {w}) <=> \E b \in Parts(cl) : Has(b, {w})
    BY <2>1, WithinStatement
  <2>3. QED
    BY <1>1, <1>5, <2>2, ClauseKept
<1> HIDE DEF s
<1>7. /\ \A w : InFrame(h, w) <=> InFrame(g, w) \/ Has(s, {w})
      /\ h.l = g.l /\ h.done = g.done
  BY <1>5, GoesOnKept
<1> HIDE DEF h, g, f
<1>8. Coming(h)
  BY <1>5, <1>7 DEF Coming
<1>9. /\ Stack(open') /\ Len(open') = n - 1 /\ DOMAIN open' = DOMAIN below
      /\ open'[n - 1] = h
      /\ \A i \in DOMAIN below : i # n - 1 => open'[i] = open[i]
  BY <1>2, <1>3, <1>4, TopReplaced
<1>10. \A i \in DOMAIN open : i \in DOMAIN below \/ i = n
  BY <1>1, <1>4
<1>11. DOMAIN below \subseteq DOMAIN open /\ n - 1 \in DOMAIN below
  BY <1>1, <1>3, <1>4
<1>12. open[n] = f /\ open[n - 1] = g
  BY <1>3, <1>4 DEF f, g
<1>13. \A w \in LateWords : Somewhere(open', w) <=> Somewhere(open, w)
  BY <1>1, <1>6, <1>7, <1>9, <1>10, <1>11, <1>12 DEF Somewhere
<1>14. \A i \in DOMAIN open' : Coming(open'[i])
  BY <1>8, <1>9, <1>11 DEF LateSound
<1>15. QED
  BY <1>13, <1>14 DEF LateSound, LateWords

LEMMA InitLate == Init => LateInv
<1> SUFFICES ASSUME Init, def.lang = "python"
             PROVE  LateSound(open)
  BY DEF LateInv
<1> DEFINE f == Frame("def", "-", "body")
<1>1. f = [k |-> "def", t |-> "-", done |-> NoClauses(PyEmpty), l |-> "body", b |-> PyEmpty]
  BY LanguageWalks DEF Frame, EmptyIn
<1>2. open = <<f>>
  BY DEF Init
<1>3. Coming(f) /\ \A w : ~InFrame(f, w)
  BY <1>1, FreshFrame
<1> HIDE DEF f
<1>4. DOMAIN open = {1} /\ open[1] = f
  BY <1>2
<1>5. QED
  BY <1>3, <1>4 DEF LateSound, Somewhere

(* Every step keeps LateInv.                                               *)
LEMMA NextLate == FlowInv /\ LateInv /\ [Next]_vars => LateInv'
<1> SUFFICES ASSUME FlowInv, LateInv, [Next]_vars, def'.lang = "python"
             PROVE  LateSound(open')
  BY DEF LateInv
<1>1. def' = def
  BY DEF Next, vars, WriteType, Type, OpenBlock, NextClause, CloseBlock,
         CheckPythonModule, CheckRustModule, CheckGoModule, Check
<1>2. def.lang = "python" /\ LateSound(open)
  BY <1>1 DEF LateInv
<1>3. ASSUME NEW k \in grammar.simple, Type(k)
      PROVE  LateSound(open')
  BY <1>2, <1>3, TypeLate
<1>4. ASSUME NEW s \in grammar.compound, OpenBlock(s[1], s[2])
      PROVE  LateSound(open')
  BY <1>2, <1>4, OpenBlockLate
<1>5. ASSUME NEW l, NextClause(l)
      PROVE  LateSound(open')
  BY <1>2, <1>5, NextClauseLate
<1>6. CASE CloseBlock
  BY <1>2, <1>6, CloseBlockLate
<1>7. ASSUME open' = open
      PROVE  LateSound(open')
  BY <1>2, <1>7
<1>8. QED
  BY <1>3, <1>4, <1>5, <1>6, <1>7
     DEF Next, vars, WriteType, CheckPythonModule, CheckRustModule, CheckGoModule, Check

-----------------------------------------------------------------------------
(* The annotation.                                                         *)

LEMMA HeadsTyped ==
  ASSUME NEW args \in Seq(PyTypes)
  PROVE  HeadsOf(args) \in Seq(PyHeadNames)
<1>1. Len(args) \in Nat /\ DOMAIN args = 1 .. Len(args) /\ \A i \in 1 .. Len(args) : args[i] \in PyTypes
  BY LenProperties, ElementOfSeq
<1>2. HeadsOf(args) \in [1 .. Len(args) -> PyHeadNames]
  BY <1>1 DEF HeadsOf, PyTypes
<1>3. QED
  BY <1>1, <1>2, SeqDef

(* A Python type put together from types that are sound is sound.          *)
LEMMA PyTypeStands ==
  ASSUME NEW h, NEW n, <<h, n>> \in PyHeads, NEW args \in Seq(TypesOf["python"]), Len(args) = n
  PROVE  PyType(h, args) \in TypesOf["python"]
<1> DEFINE a == [h |-> h, hs |-> HeadsOf(args)]
           ty == PyType(h, args)
<1>1. TypesOf["python"] = {x \in PyTypes : PyTypeSound(x)}
  BY DEF TypesOf
<1>2. /\ Len(args) \in Nat /\ DOMAIN args = 1 .. Len(args)
      /\ \A i \in 1 .. Len(args) : args[i] \in PyTypes /\ PyTypeSound(args[i])
  BY <1>1, LenProperties, ElementOfSeq
<1>3. args \in Seq(PyTypes)
  BY <1>2, SeqDef
<1>4. HeadsOf(args) \in Seq(PyHeadNames)
  BY <1>3, HeadsTyped
<1>5. /\ h \in PyHeadNames
      /\ h \in {"optional", "quoted", "generic"} => n = 1
      /\ h = "pipe" => n = 2
      /\ h = "union" => n > 0
  BY DEF PyHeads, PyHeadNames
<1>6. Means(h, args) \in SUBSET {"None", "value"}
  <2>1. \A i \in 1 .. Len(args) : args[i].means \subseteq {"None", "value"}
    BY <1>2 DEF PyTypes
  <2>2. QED
    BY <1>2, <2>1 DEF Means
<1>7. TranslateReturn(a, args) \in {"T", "None", "T or None"}
  <2>1. ASSUME h = "quoted"
        PROVE  args[1].contract \in {"T", "None", "T or None"}
    <3>1. args[1] \in PyTypes
      BY <1>2, <1>5, <2>1
    <3>2. QED
      BY <3>1 DEF PyTypes
  <2>2. QED
    BY <2>1 DEF TranslateReturn
<1>8. ty = [h |-> h, hs |-> HeadsOf(args), contract |-> TranslateReturn(a, args), means |-> Means(h, args)]
  BY DEF PyType
<1> HIDE DEF ty
<1>9. ty \in PyTypes
  BY <1>4, <1>5, <1>6, <1>7, <1>8 DEF PyTypes
<1>10. ty.h = h /\ ty.hs = HeadsOf(args) /\ ty.contract = TranslateReturn(a, args) /\ ty.means = Means(h, args)
  BY <1>8
<1>11. \A i \in 1 .. Len(args) : HeadsOf(args)[i] = args[i].h
  BY <1>2 DEF HeadsOf
<1>12. DOMAIN HeadsOf(args) = 1 .. Len(args)
  BY <1>2 DEF HeadsOf
<1>13. h = "none" => "None" \in Means(h, args)
  BY DEF Means
<1>14. ASSUME "None" \notin Means(h, args)
       PROVE  ty.contract = "T" /\ ~IsProcedure(ty) /\ ~AnnotationAllowsNone(ty)
  <2>1. h \notin {"none", "optional"}
    BY <1>14 DEF Means
  <2>2. ASSUME h \in {"quoted", "union", "pipe"}, NEW i \in 1 .. Len(args)
        PROVE  "None" \notin args[i].means /\ args[i].h # "none" /\ args[i].contract = "T"
    <3>1. "None" \notin args[i].means
      BY <1>2, <1>14, <2>2 DEF Means
    <3>2. QED
      BY <1>2, <3>1 DEF PyTypeSound
  <2>3. CASE h \in {"T", "generic"}
    BY <1>10, <2>3 DEF TranslateReturn, IsProcedure, AnnotationAllowsNone, IsNone, IsOptional,
                       IsPipeWithNone, IsUnionWithNone, IsAllNoneUnion
  <2>4. CASE h = "quoted"
    <3>1. args[1].contract = "T" /\ HeadsOf(args)[1] # "none"
      BY <1>5, <1>11, <2>2, <2>4
    <3>2. QED
      BY <1>10, <2>4, <3>1 DEF TranslateReturn, IsProcedure, AnnotationAllowsNone, IsNone, IsOptional,
                       IsPipeWithNone, IsUnionWithNone, IsAllNoneUnion
  <2>5. CASE h = "pipe"
    <3>1. HeadsOf(args)[2] # "none"
      BY <1>5, <1>11, <2>2, <2>5
    <3>2. QED
      BY <1>10, <2>5, <3>1 DEF TranslateReturn, IsProcedure, AnnotationAllowsNone, IsNone, IsOptional,
                       IsPipeWithNone, IsUnionWithNone, IsAllNoneUnion
  <2>6. CASE h = "union"
    <3>1. NoneArms(ty) = {} /\ NoneArms(a) = {}
      BY <1>10, <1>11, <1>12, <2>2, <2>6 DEF NoneArms
    <3>2. DOMAIN ty.hs # {} /\ DOMAIN a.hs # {}
      BY <1>5, <1>10, <1>12, <2>6
    <3>3. QED
      BY <1>10, <2>6, <3>1, <3>2 DEF TranslateReturn, IsProcedure, AnnotationAllowsNone, IsNone,
                       IsOptional, IsPipeWithNone, IsUnionWithNone, IsAllNoneUnion
  <2>7. QED
    BY <1>5, <2>1, <2>3, <2>4, <2>5, <2>6 DEF PyHeadNames
<1>15. PyTypeSound(ty)
  BY <1>10, <1>13, <1>14 DEF PyTypeSound
<1>16. QED
  BY <1>1, <1>9, <1>15 DEF ty

(* The types of Rust are those of TypesOf.                                 *)
LEMMA RustTypeStands ==
  ASSUME NEW h, NEW n, <<h, n>> \in RustHeads, NEW args \in Seq(TypesOf["rust"])
  PROVE  TranslateType(h, args) \in TypesOf["rust"]
<1>1. TypesOf["rust"] = [h : RustTypeNames] \cup [h : {"union"}, left : RustTypeNames, right : RustTypeNames]
  BY DEF TypesOf
<1>2. h \in {"T", "result", "option"}
  BY DEF RustHeads
<1>3. \A a \in TypesOf["rust"] : AsTypePath(a) \in RustTypeNames
  <2>1. ASSUME NEW a \in [h : RustTypeNames]
        PROVE  a.h \in RustTypeNames /\ a.h # "union"
    BY DEF RustTypeNames
  <2>2. ASSUME NEW a \in [h : {"union"}, left : RustTypeNames, right : RustTypeNames]
        PROVE  a.h = "union" /\ a.left \in RustTypeNames
    OBVIOUS
  <2>3. QED
    BY <1>1, <2>1, <2>2 DEF AsTypePath
<1>4. CASE h \in {"result", "option"} /\ args # << >>
  <2>1. Len(args) \in Nat /\ Len(args) > 0
    BY <1>4, LenProperties, EmptySeq
  <2>2. AsTypePath(args[1]) \in RustTypeNames
    BY <1>3, <2>1, ElementOfSeq
  <2>3. Len(args) >= 2 => AsTypePath(args[2]) \in RustTypeNames
    BY <1>3, <2>1, ElementOfSeq
  <2> DEFINE right == IF h = "option" THEN "None"
                      ELSE IF Len(args) >= 2 THEN AsTypePath(args[2]) ELSE "unknown"
  <2>4. right \in RustTypeNames
    BY <2>3 DEF RustTypeNames
  <2>5. TranslateType(h, args) = [h |-> "union", left |-> AsTypePath(args[1]), right |-> right]
    BY <1>4 DEF TranslateType
  <2> HIDE DEF right
  <2>6. QED
    BY <1>1, <2>2, <2>4, <2>5
<1>5. CASE ~(h \in {"result", "option"} /\ args # << >>)
  <2>1. TranslateType(h, args) = [h |-> h]
    BY <1>5 DEF TranslateType
  <2>2. h \in RustTypeNames
    BY <1>2 DEF RustTypeNames
  <2>3. QED
    BY <1>1, <2>1, <2>2
<1>6. QED
  BY <1>4, <1>5

(* The last n of a sequence.                                               *)
LEMMA LastTypes ==
  ASSUME NEW S, NEW o \in Seq(S), NEW n \in Nat, n <= Len(o)
  PROVE  /\ SubSeq(o, Len(o) - n + 1, Len(o)) \in Seq(S)
         /\ Len(SubSeq(o, Len(o) - n + 1, Len(o))) = n
<1> DEFINE m == Len(o) - n + 1
<1>1. Len(o) \in Nat /\ m \in 1 .. Len(o) + 1 /\ Len(o) - m + 1 = n
  BY LenProperties
<1> HIDE DEF m
<1>2. m \in Int /\ Len(o) \in Int /\ \A i \in m .. Len(o) : o[i] \in S
  BY <1>1, ElementOfSeq
<1>3. /\ SubSeq(o, m, Len(o)) \in Seq(S)
      /\ Len(SubSeq(o, m, Len(o))) = IF m <= Len(o) THEN Len(o) - m + 1 ELSE 0
  BY <1>2, SubSeqProperties
<1>4. SubSeq(o, m, Len(o)) \in Seq(S) /\ Len(SubSeq(o, m, Len(o))) = n
  BY <1>1, <1>3
<1>5. QED
  BY <1>4 DEF m

(* A type is written.                                                      *)
LEMMA WriteTypeStep ==
  ASSUME FlowInv, NEW p \in grammar.heads, NEW h, NEW n, h = p[1], n = p[2], WriteType(h, n)
  PROVE  types' \in Seq(TypesOf[def.lang])
<1> DEFINE L == def.lang
           S == TypesOf[L]
           rest == Len(types) - n
           args == SubSeq(types, rest + 1, Len(types))
<1>1. L \in Languages /\ p \in HeadsIn[L] /\ types \in Seq(S)
  BY LangTyped DEF FlowInv, FromTask
<1>2. p = <<h, n>> /\ n \in Nat
  <2>1. CASE L = "python"
    BY <1>1, <2>1, LanguageNames DEF PyHeads
  <2>2. CASE L = "rust"
    BY <1>1, <2>2, LanguageNames DEF RustHeads
  <2>3. CASE L = "go"
    BY <1>1, <2>3, LanguageNames DEF GoHeads
  <2>4. QED
    BY <1>1, <2>1, <2>2, <2>3, LanguageNames
<1>3. Len(types) \in Nat /\ n <= Len(types)
  BY <1>1, LenProperties DEF WriteType
<1>4. \A i \in 1 .. Len(types) : types[i] \in S
  BY <1>1, ElementOfSeq
<1>5. SubSeq(types, 1, rest) \in Seq(S)
  <2>1. \A i \in 1 .. rest : types[i] \in S
    BY <1>2, <1>3, <1>4
  <2>2. 1 \in Int /\ rest \in Int
    BY <1>2, <1>3
  <2>3. QED
    BY <1>1, <2>1, <2>2, SubSeqProperties
<1>6. args \in Seq(S) /\ Len(args) = n
  BY <1>1, <1>2, <1>3, LastTypes
<1>7. types' = Append(SubSeq(types, 1, rest), TypeOf(h, args))
  BY DEF WriteType
<1> HIDE DEF args, rest
<1>8. TypeOf(h, args) \in S
  <2>1. CASE L = "python"
    <3>1. PyType(h, args) \in TypesOf["python"]
      BY <1>1, <1>2, <1>6, <2>1, LanguageNames, PyTypeStands
    <3>2. QED
      BY <2>1, <3>1 DEF TypeOf
  <2>2. CASE L = "rust"
    <3>1. TranslateType(h, args) \in TypesOf["rust"]
      BY <1>1, <1>2, <1>6, <2>2, LanguageNames, RustTypeStands
    <3>2. QED
      BY <2>2, <3>1 DEF TypeOf
  <2>3. CASE L = "go"
    <3>1. h \in {"int", "error"}
      BY <1>1, <1>2, <2>3, LanguageNames DEF GoHeads
    <3>2. TypeOf(h, args) = [h |-> h]
      BY <2>3 DEF TypeOf
    <3>3. TypesOf["go"] = [h : {"int", "error"}]
      BY DEF TypesOf
    <3>4. [h |-> h] \in [h : {"int", "error"}]
      BY <3>1
    <3>5. QED
      BY <2>3, <3>2, <3>3, <3>4
  <2>4. QED
    BY <1>1, <2>1, <2>2, <2>3, LanguageNames
<1> HIDE DEF S
<1>9. types' \in Seq(S)
  BY <1>5, <1>7, <1>8, AppendProperties
<1>10. QED
  BY <1>9 DEF S

(* What the reports are does not change with them.                         *)
LEMMA FoundSame ==
  ASSUME def' = def, types' = types, open' = open
  PROVE  Found' = Found /\ MayEnd(Body)' = MayEnd(Body) /\ Declared' = Declared
<1>1. Body' = Body
  BY DEF Body
<1>2. Function' = Function
  BY <1>1 DEF Function
<1>3. Found' = Found
  BY <1>2 DEF Found
<1>4. MayEnd(Body)' = MayEnd(Body)
  BY <1>1 DEF MayEnd
<1>5. Declared' = Declared
  BY DEF Declared
<1>6. QED
  BY <1>3, <1>4, <1>5

(* The checkers run.                                                       *)
LEMMA CheckStep ==
  ASSUME FlowInv, CheckPythonModule \/ CheckRustModule \/ CheckGoModule
  PROVE  FlowInv'
<1>1. /\ UNCHANGED <<def, grammar, types, open, size>>
      /\ Len(open) = 1 /\ MayEnd(Body) /\ Declared
  BY DEF CheckPythonModule, CheckRustModule, CheckGoModule, Check
<1>2. reports' = Found
  BY DEF CheckPythonModule, CheckRustModule, CheckGoModule, Check, Found
<1>3. Found' = Found /\ MayEnd(Body)' = MayEnd(Body) /\ Declared' = Declared
  BY <1>1, FoundSame
<1>4. reports' = Found' /\ Len(open') = 1 /\ MayEnd(Body)' /\ Declared'
  BY <1>1, <1>2, <1>3
<1>5. FromTask' /\ (Frame("def", "-", "body")' = Frame("def", "-", "body"))
  BY <1>1 DEF FlowInv, FromTask, Frame, Empty
<1>6. QED
  BY <1>1, <1>4, <1>5 DEF FlowInv

LEMMA AboveOne ==
  ASSUME NEW n \in Nat, n > 1
  PROVE  n # 1
OBVIOUS

(* Every step keeps FlowInv.                                               *)
LEMMA NextFlow == FlowInv /\ [Next]_vars => FlowInv'
<1> SUFFICES ASSUME FlowInv, [Next]_vars
             PROVE  FlowInv'
  OBVIOUS
<1>1. ASSUME def' = def, grammar' = grammar
      PROVE  FromTask' /\ Frame("def", "-", "body")' = Frame("def", "-", "body")
  BY <1>1 DEF FlowInv, FromTask, Frame, Empty
<1>2. ASSUME NEW h \in grammar.heads, WriteType(h[1], h[2])
      PROVE  FlowInv'
  <2>1. types' \in Seq(TypesOf[def.lang])
    BY <1>2, WriteTypeStep
  <2>2. def' = def /\ grammar' = grammar /\ open' = open /\ size' = size /\ reports' = reports
        /\ size = 0 /\ reports = Unchecked
    BY <1>2 DEF WriteType
  <2>3. QED
    BY <1>1, <2>1, <2>2 DEF FlowInv
<1>3. ASSUME StackSound(def.lang, open'), def' = def, grammar' = grammar, types' = types,
             size' \in Nat, size' # 0 \/ (size' = size /\ open' = open), reports' = reports,
             reports = Unchecked
      PROVE  FlowInv'
  BY <1>1, <1>3 DEF FlowInv
<1>4. ASSUME NEW k \in grammar.simple, Type(k)
      PROVE  FlowInv'
  BY <1>3, <1>4, TypeStep DEF Type, FlowInv
<1>5. ASSUME NEW s \in grammar.compound, OpenBlock(s[1], s[2])
      PROVE  FlowInv'
  <2>1. <<s[1], s[2]>> \in grammar.compound
    <3>1. s \in CompoundsOf[def.lang] /\ def.lang \in Languages
      BY LangTyped DEF FlowInv, FromTask
    <3>2. s = <<s[1], s[2]>>
      <4>1. CASE def.lang = "python"
        BY <3>1, <4>1, LanguageNames DEF Compounds
      <4>2. CASE def.lang = "rust"
        BY <3>1, <4>2, LanguageNames DEF RustCompounds
      <4>3. CASE def.lang = "go"
        BY <3>1, <4>3, LanguageNames DEF GoCompounds
      <4>4. QED
        BY <3>1, <4>1, <4>2, <4>3, LanguageNames
    <3>3. QED
      BY <3>2
  <2>2. StackSound(def.lang, open')
    BY <1>5, <2>1, OpenBlockStep
  <2>3. QED
    BY <1>3, <1>5, <2>2 DEF OpenBlock, FlowInv
<1>6. size = 0 => Len(open) = 1
  BY DEF FlowInv
<1>7. ASSUME NEW l, NextClause(l)
      PROVE  FlowInv'
  <2>a. Len(open) > 1
    BY <1>7 DEF NextClause
  <2>b. Len(open) \in Nat
    BY StackTop DEF FlowInv
  <2>c. Len(open) # 1
    BY <2>a, <2>b, AboveOne
  <2>1. size # 0
    BY <1>6, <2>c
  <2>2. QED
    BY <1>3, <1>7, <2>1, NextClauseStep DEF NextClause, FlowInv
<1>8. ASSUME CloseBlock
      PROVE  FlowInv'
  <2>1. size # 0
    BY <1>6, <1>8 DEF CloseBlock
  <2>2. QED
    BY <1>3, <1>8, <2>1, CloseBlockStep DEF CloseBlock, FlowInv
<1>9. ASSUME UNCHANGED vars
      PROVE  FlowInv'
  <2>1. Found' = Found /\ MayEnd(Body)' = MayEnd(Body) /\ Declared' = Declared
    BY <1>9, FoundSame DEF vars
  <2>2. QED
    BY <1>1, <1>9, <2>1 DEF FlowInv, vars
<1>10. QED
  BY <1>2, <1>4, <1>5, <1>7, <1>8, <1>9, CheckStep DEF Next

-----------------------------------------------------------------------------
(* The stubs.                                                              *)

(* There is a last import of a name that is imported.                      *)
LEMMA LastOf ==
  ASSUME NEW n \in Nat, NEW I \in SUBSET (1 .. n), I # {}
  PROVE  \E m \in I : \A j \in I : j <= m
<1> DEFINE J == {n - i : i \in I}
           R == OpToRel(<, Nat)
<1>a. \A i \in I : n - i \in Nat
  OBVIOUS
<1>b. \A i \in I : n - i \in J
  OBVIOUS
<1>c. J # {}
  BY <1>b
<1>1. J \subseteq Nat /\ J # {}
  BY <1>a, <1>c
<1>2. \E x \in J : \A y \in J : <<y, x>> \notin R
  <2> HIDE DEF J, R
  <2>1. IsWellFoundedOn(R, Nat)
    BY NatLessThanWellFounded DEF R
  <2>2. QED
    BY <1>1, <2>1, WFMin
<1>3. PICK x \in J : \A y \in J : ~(y < x)
  BY <1>1, <1>2 DEF OpToRel
<1>4. PICK i \in I : x = n - i
  OBVIOUS
<1>5. \A j \in I : j <= i
  <2>1. ASSUME NEW j \in I
        PROVE  ~(n - j < n - i)
    <3>1. n - j \in J
      BY <1>b
    <3> HIDE DEF J
    <3>2. ~(n - j < x)
      BY <1>3, <3>1
    <3>3. QED
      BY <1>4, <3>2
  <2>2. \A j \in 1 .. n : ~(n - j < n - i) => j <= i
    OBVIOUS
  <2>3. QED
    BY <2>1, <2>2
<1>6. QED
  BY <1>5

(* The alias map of zero_return.py has the last import of each name.       *)
LEMMA MeaningIsLast ==
  ASSUME FromTask, NEW n
  PROVE  Meaning(def.imports, n) =
           IF Bindings(n) = {} THEN <<"", n>> ELSE <<LastImport(n).module, LastImport(n).name>>
<1> DEFINE imports == def.imports
           I == {j \in 1 .. Len(imports) : imports[j].as = n}
           i == IF I # {} THEN Max(I) ELSE 0
<1>1. Len(imports) \in Nat /\ DOMAIN imports = 1 .. Len(imports)
  <2>1. imports \in Seq([as : STRING, module : STRING, name : STRING])
    BY DEF FromTask, Defs
  <2>2. QED
    BY <2>1, LenProperties
<1>2. Meaning(imports, n) = IF i = 0 THEN <<"", n>> ELSE <<imports[i].module, imports[i].name>>
  BY DEF Meaning, SelectLastInSeq
<1>3. Bindings(n) = I
  BY <1>1 DEF Bindings
<1>4. CASE I = {}
  BY <1>2, <1>3, <1>4
<1>5. CASE I # {}
  <2>1. PICK m \in I : \A j \in I : j <= m
    BY <1>1, <1>5, LastOf
  <2> HIDE DEF I
  <2>2. \A j \in I : j \in Nat /\ j # 0
    BY <1>1 DEF I
  <2>3. Max(I) = m
    <3>1. \A p \in I : (\A j \in I : p >= j) => p = m
      BY <2>1, <2>2
    <3>2. \A j \in I : m >= j
      BY <2>1, <2>2
    <3>3. QED
      BY <3>1, <3>2 DEF Max
  <2>4. (CHOOSE p \in I : \A j \in I : j <= p) = m
    <3>1. \A p \in I : (\A j \in I : j <= p) => p = m
      BY <2>1, <2>2
    <3>2. QED
      BY <2>1, <3>1
  <2>5. LastImport(n) = imports[m]
    BY <1>3, <2>4 DEF LastImport
  <2>6. i = m /\ m # 0
    BY <1>5, <2>2, <2>3
  <2> HIDE DEF i
  <2>7. QED
    BY <1>2, <1>3, <1>5, <2>5, <2>6
<1>6. QED
  BY <1>4, <1>5

(* R3 skips just the stubs and what is named like one.                     *)
LEMMA StubsSkipped ==
  ASSUME FromTask
  PROVE  HasSkipDecorator(Function) <=> IsStub \/ (def.dec # << >> /\ NamedLikeStub(Function))
<1> DEFINE d == def.dec
<1>1. Function.dec = d /\ Function.imports = def.imports
  BY DEF Function
<1>2. ASSUME NEW n, NEW m
      PROVE  <<"", n>> \notin Stubs /\ (n # "" => ~(<<"", n>>[2] = "" /\ <<<<"", n>>[1], m>> \in Stubs))
  BY DEF Stubs
<1>3. CASE d[1] = ""
  <2>1. Meaning(def.imports, d[2]) \in Stubs
          <=> Bindings(d[2]) # {} /\ <<LastImport(d[2]).module, LastImport(d[2]).name>> \in Stubs
    BY <1>2, MeaningIsLast
  <2>2. QED
    BY <1>1, <1>3, <2>1 DEF HasSkipDecorator, IsStub
<1>4. CASE d[1] # ""
  <2> DEFINE q == Meaning(def.imports, d[1])
             e == LastImport(d[1])
  <2>1. q = IF Bindings(d[1]) = {} THEN <<"", d[1]>> ELSE <<e.module, e.name>>
    BY MeaningIsLast
  <2>2. q[2] = "" /\ <<q[1], d[2]>> \in Stubs
          <=> Bindings(d[1]) # {} /\ e.name = "" /\ <<e.module, d[2]>> \in Stubs
    <3> HIDE DEF q, e
    <3>1. CASE Bindings(d[1]) = {}
      BY <1>4, <2>1, <3>1
    <3>2. CASE Bindings(d[1]) # {}
      BY <2>1, <3>2
    <3>3. QED
      BY <3>1, <3>2
  <2>3. QED
    BY <1>1, <1>4, <2>2 DEF HasSkipDecorator, IsStub
<1>5. QED
  BY <1>3, <1>4

-----------------------------------------------------------------------------
(* Checked functions.                                                      *)

(* What FlowInv says of the body of a function.                            *)
LEMMA BodySound ==
  ASSUME FlowInv
  PROVE  /\ def.lang \in Languages
         /\ Sound(def.lang, Body)
         /\ reports # Unchecked => ~Breaks(def.lang, Body) /\ reports = Found
<1>1. StackSound(def.lang, open) /\ Stack(open)
  BY DEF FlowInv, StackSound, OpenSound
<1>2. 1 \in DOMAIN open /\ \A j \in DOMAIN open : ~(j < 1)
  BY <1>1, StackFacts
<1>3. /\ FrameSound(def.lang, open[1])
      /\ BreaksOut(def.lang, open[1]) => InLoopBelow(open, 1)
      /\ open[1].k = "def"
  BY <1>1, <1>2, FrameAt
<1>4. ~InLoopBelow(open, 1)
  BY <1>2 DEF InLoopBelow
<1>5. ~Breaks(def.lang, Body)
  BY <1>3, <1>4 DEF BreaksOut, LoopBody, Loops, Body
<1>6. Sound(def.lang, Body)
  BY <1>3 DEF FrameSound, Body
<1>7. QED
  BY <1>5, <1>6, LangTyped DEF FlowInv

(* An outcome of a body is the outcome of some end.                        *)
LEMMA EndPair ==
  ASSUME NEW b \in PyBlocks, NEW v \in Modes, NEW o, o \in EndsIn(b, v)
  PROVE  \E y \in Xs : <<o, y>> \in b.run[v]["ok"]
<1>1. PICK r \in b.run[v]["ok"] : o = r[1]
  BY DEF EndsIn
<1>2. r \in Ends
  BY ModesXs, BlockTypes
<1>3. r = <<r[1], r[2]>> /\ r[2] \in Xs
  BY <1>2, EndPairs
<1>4. QED
  BY <1>1, <1>3

LEMMA PairEnds ==
  ASSUME NEW b, NEW v, NEW o, NEW y, <<o, y>> \in b.run[v]["ok"]
  PROVE  o \in EndsIn(b, v)
<1>1. o = <<o, y>>[1]
  OBVIOUS
<1>2. QED
  BY <1>1 DEF EndsIn

LEMMA PythonFields ==
  /\ Function.body = Body
  /\ Function.generator = def.generator
  /\ Function.place = def.place
  /\ types # << >> => Function.ann = types[1]
  /\ types = << >> => Function.ann = Missing
BY DEF Function

(* The annotation of a Python function is one of the types.                *)
LEMMA PythonType ==
  ASSUME FlowInv, def.lang = "python", types # << >>
  PROVE  types[1] \in PyTypes /\ PyTypeSound(types[1]) /\ types[1] # Missing
<1>1. types \in Seq(TypesOf["python"])
  BY DEF FlowInv
<1>2. Len(types) \in Nat /\ Len(types) > 0
  BY <1>1, LenProperties, EmptySeq
<1>3. types[1] \in TypesOf["python"]
  BY <1>1, <1>2, ElementOfSeq
<1>4. types[1] \in PyTypes /\ PyTypeSound(types[1])
  BY <1>3 DEF TypesOf
<1>5. types[1].h # "missing"
  BY <1>4 DEF PyTypes, PyHeadNames
<1>6. types[1] # Missing
  BY <1>5 DEF Missing
<1>7. QED
  BY <1>4, <1>6

(* What a function owes its caller the checkers know.                      *)
LEMMA Owes ==
  ASSUME FlowInv, def.lang = "python", OwesValue
  PROVE  /\ Contract(Function) = "T"
         /\ CheckFunction(Function) <=> Body.completes /\ ~Has(Body, Returns)
<1>1. types # << >> /\ "None" \notin types[1].means /\ ~def.generator
  BY DEF OwesValue, AdmitsNone
<1>2. /\ types[1] # Missing /\ types[1].contract = "T"
      /\ ~IsProcedure(types[1]) /\ ~AnnotationAllowsNone(types[1])
  BY <1>1, PythonType DEF PyTypeSound
<1>3. ~HasSkipDecorator(Function)
  <2>1. FromTask
    BY DEF FlowInv
  <2>2. QED
    BY <2>1, StubsSkipped DEF OwesValue
<1>4. Contract(Function) = "T"
  BY <1>1, <1>2, PythonFields DEF Contract
<1>5. CheckFunction(Function) <=> Body.completes /\ ~Has(Body, Returns)
  BY <1>1, <1>2, <1>3, PythonFields DEF CheckFunction, HasAnyReturn
<1>6. QED
  BY <1>4, <1>5

(* The reports on a Python function, one by one.                           *)
LEMMA PythonFound ==
  ASSUME FlowInv, Checked("python")
  PROVE  /\ PySound(Body) /\ ~Breaks("python", Body)
         /\ "zero_return_path" \in reports <=> CheckFunction(Function)
         /\ "all_paths_return" \in reports <=>
              Collected(def.place) /\ Contract(Function) # "no" /\ MissesReturn(TranslateBody(Function))
         /\ "return_none_mismatch" \in reports <=>
              Collected(def.place) /\ CheckReturnNone(Function)
         /\ "status_coverage" \in reports <=> Collected(def.place) /\ StatusCoverage(Function)
<1>1. def.lang = "python" /\ reports # Unchecked
  BY DEF Checked
<1>2. PySound(Body) /\ ~Breaks("python", Body) /\ reports = PythonReports(Function)
  BY <1>1, BodySound DEF Sound, Found
<1>3. /\ "zero_return_path" \in reports <=> CheckFunction(Function)
      /\ "all_paths_return" \in reports <=>
           Collected(def.place) /\ Contract(Function) # "no" /\ MissesReturn(TranslateBody(Function))
      /\ "return_none_mismatch" \in reports <=>
           Collected(def.place) /\ CheckReturnNone(Function)
      /\ "status_coverage" \in reports <=> Collected(def.place) /\ StatusCoverage(Function)
  BY <1>2, PythonFields DEF PythonReports
<1>4. QED
  BY <1>2, <1>3

(* FlowInv implies each of the properties.                                 *)
LEMMA Silence == FlowInv => SilenceIsSound
<1> SUFFICES ASSUME FlowInv, Checked("python"), reports \subseteq {"status_coverage"}, OwesValue,
                    Collected(def.place), ~Has(Body, {"try*"}), NEW o \in {"next", "return None"}
             PROVE  o \notin EndsIn(Body, "plain")
  BY DEF SilenceIsSound
<1>1. PySound(Body) /\ Body \in PyBlocks /\ def.lang = "python"
  BY PythonFound DEF PySound, Checked
<1>2. Contract(Function) = "T" /\ (CheckFunction(Function) <=> Body.completes /\ ~Has(Body, Returns))
  BY <1>1, Owes
<1>3. ~CheckFunction(Function) /\ ~MissesReturn(TranslateBody(Function)) /\ ~CheckReturnNone(Function)
  BY <1>2, PythonFound
<1>4. Has(Body, Returns) => TranslateBody(Function) = Body.ir["ends"] /\ "returns" \in Body.ir["ends"]
  <2>1. Has(Body, Returns) => "returns" \in Body.ir["ends"]
    BY <1>1, ModesXs DEF PySound, ReturnTranslated
  <2>2. Has(Body, Returns) => TranslateBody(Function) = Body.ir["ends"]
    BY PythonFields DEF TranslateBody, ContainsReturn
  <2>3. QED
    BY <2>1, <2>2
<1>5. SUFFICES ASSUME o \in EndsIn(Body, "plain")
               PROVE  FALSE
  OBVIOUS
<1>6. PICK y \in Xs : <<o, y>> \in Body.run["plain"]["ok"]
  BY <1>1, <1>5, ModesXs, EndPair
<1>7. CASE o = "next"
  <2>1. Body.completes
    BY <1>1, <1>6, <1>7, ModesXs DEF PySound, CompletionSound
  <2>2. Has(Body, Returns)
    BY <1>2, <1>3, <2>1
  <2>3. "always" \in Body.ir["ends"]
    BY <1>3, <1>4, <2>2 DEF MissesReturn, AnyReturn, AllPathsReturn
  <2>4. QED
    BY <1>1, <1>6, <1>7, <2>3, ModesXs DEF PySound, AlwaysReturns
<1>8. CASE o = "return None"
  <2>1. Has(Body, Returns) /\ "none" \in Body.ir["ends"]
    BY <1>1, <1>6, <1>8, ModesXs DEF PySound, NoneTranslated
  <2>2. CheckReturnNone(Function)
    BY <1>2, <1>4, <2>1 DEF CheckReturnNone, AllowsNone, HasNoneReturn
  <2>3. QED
    BY <1>3, <2>2
<1>9. QED
  BY <1>7, <1>8

(* A late reader that is run is made in the body.                          *)
LEMMA LateIsMade ==
  ASSUME FlowInv, LateInv, Checked("python"), Has(Body, {"late()"})
  PROVE  Has(Body, {"late"})
<1>1. LateSound(open) /\ Len(open) = 1
  BY DEF Checked, LateInv, FlowInv
<1>2. Stack(open) /\ open[1].l = "body"
  BY DEF FlowInv, StackSound, OpenSound
<1>3. DOMAIN open = {1}
  BY <1>1, <1>2, StackFacts
<1>4. open[1].done = NoClauses(PyEmpty)
  BY <1>1, <1>2, <1>3 DEF LateSound, Coming
<1>5. \A w : Somewhere(open, w) <=> Has(Body, {w})
  BY <1>3, <1>4, NoClausesFields, EmptyHas DEF Somewhere, InFrame, Body
<1>6. QED
  BY <1>1, <1>5 DEF LateSound

LEMMA Guarded == FlowInv /\ LateInv => GuardsHold
<1> SUFFICES ASSUME FlowInv, LateInv, Checked("python"), OwesValue, Collected(def.place),
                    "status_coverage" \notin reports, "leak" \in EndsIn(Body, "suppressing")
             PROVE  FALSE
  BY DEF GuardsHold
<1>1. PySound(Body) /\ Body \in PyBlocks /\ NarrowSound(Body) /\ def.lang = "python"
  BY PythonFound DEF PySound, Checked
<1>2. ~ExtractCalls(Function)
  <2>1. ~StatusCoverage(Function)
    BY PythonFound
  <2>2. Contract(Function) = "T"
    BY <1>1, Owes
  <2>3. QED
    BY <2>1, <2>2, PythonFields DEF StatusCoverage, IsOptionalUnion
<1>3. PICK y \in Xs : <<"leak", y>> \in Body.run["suppressing"]["ok"]
  BY <1>1, ModesXs, EndPair
<1>4. "leak" \in Outcomes
  BY DEF Outcomes
<1>5. CASE Has(Body, {"late"})
  <2>1. ~TakesOptional(Body)
    BY <1>2, <1>5, PythonFields DEF ExtractCalls, Unguardable
  <2>2. QED
    BY <1>1, <1>3, <1>4, <2>1, ModesXs DEF NarrowSound, CleanStays
<1>6. CASE ~Has(Body, {"late"})
  <2>1. ~Has(Body, {"late()"})
    BY <1>6, LateIsMade
  <2>2. ~Body.narrow.kept
    BY <1>2, <1>6, PythonFields DEF ExtractCalls, Unguardable
  <2>3. Silent(Body)
    BY <2>1, <2>2 DEF Silent
  <2>4. Lets(Body, "leak", y)
    BY <1>1, <1>3, <1>4, <2>3, ModesXs DEF NarrowSound, SilentSafe
  <2>5. QED
    BY <2>4 DEF Lets
<1>7. QED
  BY <1>5, <1>6

LEMMA ZeroReturn == FlowInv => ZeroReturnProves
<1> SUFFICES ASSUME FlowInv, Checked("python"), OwesValue, ~Has(Body, Returns),
                    "zero_return_path" \notin reports, "next" \in EndsIn(Body, "suppressing")
             PROVE  FALSE
  BY DEF ZeroReturnProves
<1>1. PySound(Body) /\ Body \in PyBlocks /\ def.lang = "python"
  BY PythonFound DEF PySound, Checked
<1>2. PICK y \in Xs : <<"next", y>> \in Body.run["suppressing"]["ok"]
  BY <1>1, ModesXs, EndPair
<1>3. Body.completes
  BY <1>1, <1>2, ModesXs DEF PySound, CompletionSound
<1>4. QED
  BY <1>1, <1>3, Owes, PythonFound

LEMMA Alarms == FlowInv => AlarmsAreReal
<1> SUFFICES ASSUME FlowInv, Checked("python")
             PROVE  AlarmsAreReal
  BY DEF AlarmsAreReal
<1>1. PySound(Body) /\ Body \in PyBlocks /\ def.lang = "python"
  BY PythonFound DEF PySound, Checked
<1>2. ASSUME "zero_return_path" \in reports, \A h \in Body.within : ~R3Limits(h)
      PROVE  "next" \in EndsIn(Body, "plain")
  <2>1. Body.completes /\ ~Has(Body, Returns)
    BY <1>2, PythonFound, PythonFields DEF CheckFunction, HasAnyReturn
  <2>2. <<"next", "ok">> \in Body.run["plain"]["ok"]
    BY <1>1, <1>2, <2>1 DEF PySound, CompletionReal
  <2>3. QED
    BY <2>2, PairEnds
<1>3. ASSUME "all_paths_return" \in reports, \A h \in Body.within : ~D24Limits(h)
      PROVE  "next" \in EndsIn(Body, "plain")
  <2>1. MissesReturn(TranslateBody(Function))
    BY <1>3, PythonFound
  <2>2. Has(Body, Returns)
    BY <1>1, <2>1, PythonFields
      DEF PySound, ReturnTyped, MissesReturn, AnyReturn, TranslateBody, ContainsReturn
  <2>3. "always" \notin Body.ir["ends"]
    BY <2>1, <2>2, PythonFields DEF MissesReturn, AllPathsReturn, TranslateBody, ContainsReturn
  <2>4. PICK o \in {"next", "break", "continue"} : <<o, "ok">> \in Body.run["plain"]["ok"]
    BY <1>1, <1>3, <2>3 DEF PySound, MissReal, Passes
  <2>5. o = "next"
    <3>1. \A p \in {"break", "continue"} : ~EndsAt(Body, p)
      BY PythonFound DEF Breaks
    <3>2. QED
      BY <2>4, <3>1, ModesXs DEF EndsAt
  <2>6. QED
    BY <2>4, <2>5, PairEnds
<1>4. ASSUME "zero_return_path" \in reports
      PROVE  ~def.generator /\ ~IsStub /\ ~PlainNone(types[1])
  <2>1. /\ Function.ann # Missing /\ ~AnnotationAllowsNone(Function.ann)
        /\ ~HasSkipDecorator(Function) /\ ~def.generator
    BY <1>4, PythonFound, PythonFields DEF CheckFunction
  <2>2. ~IsStub
    <3>1. FromTask
      BY DEF FlowInv
    <3>2. QED
      BY <2>1, <3>1, StubsSkipped
  <2>3. types # << >> /\ Function.ann = types[1]
    BY <2>1, PythonFields
  <2>4. types[1].hs \in Seq(PyHeadNames)
    BY <1>1, <2>3, PythonType DEF PyTypes
  <2>5. ~PlainNone(types[1])
    BY <2>1, <2>3, <2>4 DEF PlainNone, AnnotationAllowsNone, IsNone, IsOptional, IsPipeWithNone,
                             IsUnionWithNone, IsAllNoneUnion, NoneArms
  <2>6. QED
    BY <2>1, <2>2, <2>5
<1>5. QED
  BY <1>2, <1>3, <1>4 DEF AlarmsAreReal

LEMMA NotBoth == FlowInv => NeverBoth
<1> SUFFICES ASSUME FlowInv, "zero_return_path" \in reports, "all_paths_return" \in reports
             PROVE  FALSE
  BY DEF NeverBoth
<1>1. reports # Unchecked
  BY DEF Unchecked
<1>2. def.lang \in {"python", "rust", "go"} /\ reports = Found
  BY <1>1, BodySound, LanguageNames
<1>3. CASE def.lang = "python"
  <2>1. Checked("python")
    BY <1>1, <1>3 DEF Checked
  <2>2. ~Has(Body, Returns) /\ MissesReturn(TranslateBody(Function))
    BY <2>1, PythonFound, PythonFields DEF CheckFunction, HasAnyReturn
  <2>3. "returns" \in Body.ir["runs on"]
    BY <2>2, PythonFields DEF MissesReturn, AnyReturn, TranslateBody, ContainsReturn
  <2>4. QED
    BY <2>1, <2>2, <2>3, PythonFound DEF PySound, ReturnTyped
<1>4. CASE def.lang = "rust"
  BY <1>2, <1>4 DEF Found, RustReports
<1>5. CASE def.lang = "go"
  BY <1>2, <1>5 DEF Found, GoReports
<1>6. QED
  BY <1>2, <1>3, <1>4, <1>5

(* What FlowInv says of the body of a checked Rust or Go function.         *)
LEMMA NativeBody ==
  ASSUME FlowInv, Native
  PROVE  \/ /\ def.lang = "rust" /\ reports = RustReports(Function)
            /\ RustSound(Body) /\ "break" \notin Body.run
         \/ /\ def.lang = "go" /\ reports = GoReports(Function)
            /\ GoSound(Body) /\ "break" \notin Body.run
<1>1. reports # Unchecked /\ def.lang \in {"rust", "go"}
  BY DEF Native, Checked
<1>2. Sound(def.lang, Body) /\ ~Breaks(def.lang, Body) /\ reports = Found
  BY <1>1, BodySound
<1>3. CASE def.lang = "rust"
  BY <1>2, <1>3 DEF Sound, Breaks, Found
<1>4. CASE def.lang = "go"
  BY <1>2, <1>4 DEF Sound, Breaks, Found
<1>5. QED
  BY <1>1, <1>3, <1>4

LEMMA NativeFunctionFields ==
  Function.body = Body /\ Function.types = types /\ Function.place = def.place
    /\ Function.namesake = def.namesake
BY DEF Function

(* The reports on a Rust function, one by one.                             *)
LEMMA RustFound ==
  ASSUME reports = RustReports(Function)
  PROVE  /\ "zero_return_path" \in reports <=>
              IterFunctionItems(def.place) /\ RustDeclares(Function) /\ ~AnyReturn(Body.ir)
         /\ "all_paths_return" \in reports <=>
              /\ IterFunctionItems(def.place) /\ RustDeclares(Function) /\ MissesReturn(Body.ir)
              /\ ~(RustDeclares(Function) /\ ~AnyReturn(Body.ir)) /\ ~def.namesake
         /\ "status_coverage" \in reports <=>
              /\ IterFunctionItems(def.place) /\ RustDeclares(Function) /\ ~RustUnion(Function)
              /\ Body.extracted
BY NativeFunctionFields DEF RustReports

(* The reports on a Go function, one by one.                               *)
LEMMA GoFound ==
  ASSUME reports = GoReports(Function)
  PROVE  /\ "zero_return_path" \notin reports
         /\ "all_paths_return" \in reports <=>
              /\ CollectFunctions(def.place) /\ TranslateReturnTypes(types) # "no"
              /\ MissesReturn(Body.ir)
         /\ "status_coverage" \in reports <=>
              /\ CollectFunctions(def.place) /\ TranslateReturnTypes(types) \notin {"no", "T or error"}
              /\ Body.extracted
BY NativeFunctionFields DEF GoReports

(* Without "always" in its translation a body may be passed.               *)
LEMMA NativeAlarms == FlowInv => NativeAlarmsAreReal
<1> SUFFICES ASSUME FlowInv, Native, NEW c \in {"zero_return_path", "all_paths_return"},
                    c \in reports, \A h \in Body.within : ~HidesPaths(h)
             PROVE  Body.run \cap {"next", "panic"} # {}
  BY DEF NativeAlarmsAreReal
<1>1. CASE def.lang = "rust"
  <2>1. RustSound(Body) /\ "break" \notin Body.run /\ reports = RustReports(Function)
    BY <1>1, NativeBody
  <2>2. Shown(Body, RustHidden)
    BY DEF Shown, RustHidden, HidesPaths
  <2>3. ~AnyReturn(Body.ir) \/ MissesReturn(Body.ir)
    BY <2>1, RustFound
  <2>4. "always" \notin Body.ir
    BY <2>1, <2>3 DEF RustSound, AlwaysIsReturn, MissesReturn, AnyReturn, AllPathsReturn
  <2>5. QED
    BY <2>1, <2>2, <2>4 DEF RustSound, NativeMissReal
<1>2. CASE def.lang = "go"
  <2>1. GoSound(Body) /\ "break" \notin Body.run /\ reports = GoReports(Function)
    BY <1>2, NativeBody
  <2>2. Shown(Body, GoHidden)
    BY <1>2 DEF Shown, GoHidden, HidesPaths
  <2>3. MissesReturn(Body.ir)
    BY <2>1, GoFound
  <2>4. "always" \notin Body.ir
    BY <2>3 DEF MissesReturn, AllPathsReturn
  <2>5. QED
    BY <2>1, <2>2, <2>4 DEF GoSound, NativeMissReal
<1>3. QED
  BY <1>1, <1>2 DEF Native, Checked

(* With "always" in its translation a body gives a value.                  *)
LEMMA NativeSilence == FlowInv => NativeSilenceIsSound
<1> SUFFICES ASSUME FlowInv, Native, Declares, Visible, ~def.namesake,
                    "zero_return_path" \notin reports, "all_paths_return" \notin reports,
                    def.lang = "go" => "return" \in Body.run,
                    \A h \in Body.within : ~HidesPaths(h) /\ ~IsUnit(h),
                    "taken" \notin Body.misplaced
             PROVE  "next" \notin Body.run
  BY DEF NativeSilenceIsSound
<1>1. CASE def.lang = "rust"
  <2>1. RustSound(Body) /\ reports = RustReports(Function)
    BY <1>1, NativeBody
  <2>2. Shown(Body, RustHidden \cup {"unit"})
    BY DEF Shown, RustHidden, HidesPaths, IsUnit
  <2>3. IterFunctionItems(def.place) /\ RustDeclares(Function)
    BY <1>1 DEF Declares, Visible
  <2>4. AnyReturn(Body.ir) /\ ~MissesReturn(Body.ir)
    BY <2>1, <2>3, RustFound
  <2>5. "always" \in Body.ir
    BY <2>4 DEF MissesReturn, AllPathsReturn
  <2>6. QED
    BY <2>1, <2>2, <2>5 DEF RustSound, NativeAlways
<1>2. CASE def.lang = "go"
  <2>1. GoSound(Body) /\ reports = GoReports(Function)
    BY <1>2, NativeBody
  <2>2. Shown(Body, GoHidden) /\ Shown(Body, GoHidden \cup {"unit"})
    BY <1>2 DEF Shown, GoHidden, HidesPaths, IsUnit
  <2>3. CollectFunctions(def.place) /\ TranslateReturnTypes(types) # "no"
    BY <1>2 DEF Declares, Visible
  <2>4. AnyReturn(Body.ir)
    BY <1>2, <2>1, <2>2 DEF GoSound, ReturnFound, AnyReturn
  <2>5. "always" \in Body.ir
    BY <2>1, <2>3, <2>4, GoFound DEF MissesReturn, AllPathsReturn
  <2>6. QED
    BY <2>1, <2>2, <2>5 DEF GoSound, NativeAlways
<1>3. QED
  BY <1>1, <1>2 DEF Native, Checked

(* No call of p() that is shown is missed.                                 *)
LEMMA Failures == FlowInv => FailuresSurface
<1> SUFFICES ASSUME FlowInv, Native, Concrete, Visible, Body.called # {},
                    \A h \in Body.within : ~HidesCalls(h)
             PROVE  "status_coverage" \in reports
  BY DEF FailuresSurface
<1>1. CASE def.lang = "rust"
  <2>1. RustSound(Body) /\ reports = RustReports(Function)
    BY <1>1, NativeBody
  <2>2. Shown(Body, RustLost)
    BY <1>1 DEF Shown, RustLost, HidesCalls
  <2>3. Body.extracted
    BY <2>1, <2>2 DEF RustSound, CallsFound
  <2>4. QED
    BY <1>1, <2>1, <2>3, RustFound DEF Concrete, Visible
<1>2. CASE def.lang = "go"
  <2>1. GoSound(Body) /\ reports = GoReports(Function)
    BY <1>2, NativeBody
  <2>2. CollectFunctions(def.place) /\ TranslateReturnTypes(types) \notin {"no", "T or error"}
    BY <1>2 DEF Concrete, Visible
  <2>3. Shown(Body, GoLost) /\ \A h \in Body.within : h.t \notin GoLostIn
    BY <1>2 DEF Shown, HidesCalls, GoLost, GoHidden, GoLostIn
  <2>4. Body.extracted
    BY <2>1, <2>3 DEF GoSound, CallsFound
  <2>5. QED
    BY <2>1, <2>2, <2>4, GoFound
<1>3. QED
  BY <1>1, <1>2 DEF Native, Checked

-----------------------------------------------------------------------------
(* FlowInv is an invariant, and so are the properties, for functions of    *)
(* any size and for any tasks.                                             *)

(* What is known of every open block, of the annotation and of the reports *)
(* holds at all times.                                                     *)
THEOREM FlowInvariant == Spec => []FlowInv
BY InitFlow, NextFlow, PTL DEF Spec

(* A Python function that owes a value and that no checker reports gives   *)
(* one, or does not end.                                                   *)
THEOREM SilenceInvariant == Spec => []SilenceIsSound
BY FlowInvariant, Silence, PTL

(* A late reader of Python is run only if one has been made.               *)
THEOREM LateInvariant == Spec => []LateInv
BY FlowInvariant, InitLate, NextLate, PTL DEF Spec

(* Where D11 is silent about a Python function that owes a value, no None  *)
(* of a call gets out of it past the guards, not even with a context       *)
(* manager that swallows their exits.                                      *)
THEOREM GuardsInvariant == Spec => []GuardsHold
BY FlowInvariant, LateInvariant, Guarded, PTL

(* Where R3 is silent about a function without a return, the function      *)
(* cannot fall off its end.                                                *)
THEOREM ZeroReturnInvariant == Spec => []ZeroReturnProves
BY FlowInvariant, ZeroReturn, PTL

(* A Python function R3 or D24 reports can fall off its end, outside the   *)
(* limits.                                                                 *)
THEOREM AlarmsInvariant == Spec => []AlarmsAreReal
BY FlowInvariant, Alarms, PTL

(* R3 and D24 never report the same function.                              *)
THEOREM NeverBothInvariant == Spec => []NeverBoth
BY FlowInvariant, NotBoth, PTL

(* A Rust or Go function R3 or D24 reports has a path without a value.     *)
THEOREM NativeAlarmsInvariant == Spec => []NativeAlarmsAreReal
BY FlowInvariant, NativeAlarms, PTL

(* A Rust or Go function taken for complete gives a value on every path.   *)
THEOREM NativeSilenceInvariant == Spec => []NativeSilenceIsSound
BY FlowInvariant, NativeSilence, PTL

(* A call of what may fail is reported, on whatever branch it stands.      *)
THEOREM FailuresInvariant == Spec => []FailuresSurface
BY FlowInvariant, Failures, PTL
=============================================================================
