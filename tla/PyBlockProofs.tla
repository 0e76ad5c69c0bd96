---------------------------- MODULE PyBlockProofs ----------------------------
(***************************************************************************)
(* Proofs about the blocks of Python functions: what relates the walks    *)
(* over one.                                                               *)
(*                                                                         *)
(* A walk over a block is told from the same walk over its clauses, so     *)
(* what relates two walks, say the completion R3 computes and the ends of  *)
(* an execution, is shown once for a statement, from the same relation     *)
(* between the walks over its clauses, and once for a block that goes on   *)
(* with a statement.  PySound is the relations a block is in.              *)
(***************************************************************************)
EXTENDS FunctionFlow, TLAPS

PyKinds == Simple \cup {"if", "while", "for", "with", "try", "try*", "match"}
PyTests == Tests \cup {"-", "partial", "total"}
Headings == [k : PyKinds, t : PyTests, with : SUBSET {"else", "except"}]
Narrowings ==
  [straight : BOOLEAN, ends : EndKinds, sets : BOOLEAN, binding : BOOLEAN, guard : GuardKinds,
   kept : BOOLEAN, alone : BOOLEAN, looped : BOOLEAN]
PyBlocks ==
  [run : [Modes -> [Xs -> SUBSET Ends]], ir : [Readings -> SUBSET Answers],
   completes : BOOLEAN, narrow : Narrowings, within : SUBSET Headings]

(* Where R3 says that a block cannot complete, it does not.                *)
CompletionSound(b) ==
  \A v \in Modes : \A x, y \in Xs : <<"next", y>> \in b.run[v][x] => b.completes
BreakTyped(b) ==
  \A v \in Modes : \A x, y \in Xs : <<"break", y>> \in b.run[v][x] => Has(b, {"break"})
ReturnTyped(b) == "returns" \in b.ir["runs on"] => Has(b, Returns)
ReturnTranslated(b) ==
  Has(b, Returns) /\ ~Has(b, {"try*"}) => \A e \in Readings : "returns" \in b.ir[e]
AlwaysReturns(b) ==
  "always" \in b.ir["ends"] => \A x, y \in Xs : <<"next", y>> \notin b.run["plain"][x]
NoneTranslated(b) ==
  ~Has(b, {"try*"}) =>
    \A v \in Modes : \A x, y \in Xs :
      <<"return None", y>> \in b.run[v][x] => Has(b, Returns) /\ "none" \in b.ir["ends"]
CompletionReal(b) ==
  b.completes /\ ~Has(b, Returns) /\ (\A h \in b.within : ~R3Limits(h))
    => <<"next", "ok">> \in b.run["plain"]["ok"]
Passes(b) == \E o \in {"next", "break", "continue"} : <<o, "ok">> \in b.run["plain"]["ok"]
MissReal(b) ==
  "always" \notin b.ir["ends"] /\ (\A h \in b.within : ~D24Limits(h)) => Passes(b)
Raises(b) == <<"raise", "ok">> \in b.run["plain"]["ok"]

(* Every block but the empty one may raise, if only when interrupted.      *)
Written(b) == IF Filled(b) THEN Raises(b) ELSE b = PyEmpty

(* Narrowing.  D11 is silent about a block whose calls keep no None, if no *)
(* late reader of x runs in it.                                            *)
Silent(b) == ~b.narrow.kept /\ ~Has(b, {"late()"})
Leaks(b, v, x) == \E y \in Xs : <<"leak", y>> \in b.run[v][x]
Passing == {"next", "break", "continue"}

(* Without a p() whose None may come to x, x stays what it is.             *)
CleanStays(b) ==
  ~TakesOptional(b) =>
    \A v \in Modes : \A o \in Outcomes, y \in Xs :
      <<o, y>> \in b.run[v]["ok"] => o # "leak" /\ y = "ok"
(* Without a read of x nothing leaks.                                      *)
UnreadSafe(b) ==
  ~NameLoads(b) /\ ~Has(b, {"late()", "p"}) => \A v \in Modes, x \in Xs : ~Leaks(b, v, x)
(* What keeps a None has a p(), and return p() keeps it.                   *)
KeepsTake(b) ==
  /\ Has(b, {"p"}) => b.narrow.kept
  /\ b.narrow.binding \/ b.narrow.alone \/ b.narrow.looped => TakesOptional(b)
StraightOn(b) ==
  b.narrow.straight =>
    \A v \in Modes, x \in Xs : \A o \in Outcomes, y \in Xs :
      <<o, y>> \in b.run[v][x] => o \in {"next", "raise"} /\ y = x
(* An exit after a straight prefix leaves the path, or the loop.           *)
PathEnds(b) ==
  b.narrow.ends = "path" /\ Silent(b) =>
    \A v \in Modes, x \in Xs : \A o \in Outcomes, y \in Xs :
      <<o, y>> \in b.run[v][x] => o \notin Passing \cup {"leak"}
LoopExits(b) ==
  b.narrow.ends = "loop" =>
    \A v \in Modes, x \in Xs : \A o \in Outcomes, y \in Xs :
      <<o, y>> \in b.run[v][x] => o \notin {"next", "leak"}
(* A branch that rebinds x leaves no None in it.                           *)
RebindsSound(b) ==
  Rebinds(b) /\ Silent(b) =>
    \A v \in Modes, x \in Xs : \A o \in Outcomes, y \in Xs :
      <<o, y>> \in b.run[v][x] => o # "leak" /\ (o \in Passing => y = "ok")
(* What may come out of a block D11 is silent about, run from a value of   *)
(* x: no leak, and a None only from a call right at the end or from where  *)
(* nothing outside reads x.                                                *)
Lets(b, o, y) ==
  /\ o # "leak"
  /\ o \in Passing /\ y = "none" =>
       b.narrow.alone \/ (IF o = "next" THEN b.narrow.binding ELSE b.narrow.looped)
SilentSafe(b) ==
  Silent(b) => \A v \in Modes :
    /\ \A o \in Outcomes, y \in Xs : <<o, y>> \in b.run[v]["ok"] => Lets(b, o, y)
    /\ b.narrow.looped /\ <<"next", "none">> \in b.run[v]["none"]
         => b.narrow.binding \/ b.narrow.alone
    /\ b.narrow.alone \/ b.narrow.looped => ~Leaks(b, v, "none")
(* A guard handles the None of the call before it.                         *)
Handles(g, o, y) ==
  /\ o # "leak"
  /\ o \in Passing /\ y = "none" => g = "alone" \/ (g = "in loop" /\ o # "next")
GuardSafe(b) ==
  Silent(b) /\ b.narrow.guard # "no" =>
    \A v \in Modes : \A o \in Outcomes, y \in Xs :
      <<o, y>> \in b.run[v]["none"] => Handles(b.narrow.guard, o, y)

NarrowSound(b) ==
  /\ CleanStays(b) /\ UnreadSafe(b) /\ KeepsTake(b) /\ StraightOn(b) /\ PathEnds(b)
  /\ LoopExits(b) /\ RebindsSound(b) /\ SilentSafe(b) /\ GuardSafe(b)

PySound(b) ==
  /\ b \in PyBlocks /\ Written(b)
  /\ CompletionSound(b) /\ BreakTyped(b) /\ ReturnTyped(b) /\ ReturnTranslated(b)
  /\ AlwaysReturns(b) /\ NoneTranslated(b) /\ CompletionReal(b) /\ MissReal(b)
  /\ NarrowSound(b)

PyClauses(cl) ==
  cl \in [body : PyBlocks, else : PyBlocks, finally : PyBlocks,
          except : SUBSET PyBlocks, case : SUBSET PyBlocks, twice : SUBSET PyBlocks]

-----------------------------------------------------------------------------
(* Ends.                                                                   *)

(* An end is a pair of an outcome and a value of x.                        *)
LEMMA EndPairs ==
  /\ \A o \in Outcomes, y \in Xs : <<o, y>> \in Ends
  /\ \A r \in Ends : r = <<r[1], r[2]>> /\ r[1] \in Outcomes /\ r[2] \in Xs
BY DEF Ends

LEMMA ModesXs ==
  /\ "plain" \in Modes /\ "suppressing" \in Modes
  /\ "ok" \in Xs /\ "none" \in Xs
  /\ "ends" \in Readings /\ "runs on" \in Readings
BY DEF Modes, Xs, Readings

(* The fields of a block.                                                  *)
LEMMA BlockTypes ==
  ASSUME NEW b \in PyBlocks
  PROVE  /\ \A v \in Modes, x \in Xs : b.run[v][x] \subseteq Ends
         /\ \A e \in Readings : b.ir[e] \subseteq Answers
         /\ b.completes \in BOOLEAN
         /\ b.within \subseteq Headings
BY DEF PyBlocks

LEMMA PartsTyped ==
  ASSUME NEW cl, PyClauses(cl)
  PROVE  /\ Parts(cl) \subseteq PyBlocks
         /\ cl.body \in Parts(cl) /\ cl.else \in Parts(cl) /\ cl.finally \in Parts(cl)
         /\ \A h \in cl.except : h \in Parts(cl)
         /\ \A a \in cl.case : a \in Parts(cl)
BY DEF PyClauses, Parts

(* What running a block from some values can end in.                       *)
LEMMA FromEnds ==
  ASSUME NEW b \in PyBlocks, NEW v \in Modes, NEW X \in SUBSET Xs
  PROVE  From(b, v, X) \subseteq Ends
BY BlockTypes DEF From

(* A test leaves x among its values, and from "ok" any test but a true one *)
(* may hold or fail.                                                       *)
LEMMA TestValues ==
  ASSUME NEW t, NEW X \in SUBSET Xs
  PROVE  /\ Tested(t, X) \in SUBSET Xs /\ Holds(t, X) \in SUBSET Xs /\ Fails(t, X) \in SUBSET Xs
         /\ "ok" \in X => "ok" \in Tested(t, X) /\ "ok" \in Holds(t, X)
         /\ "ok" \in X /\ t # "true" => "ok" \in Fails(t, X)
         /\ t = "true" => Fails(t, X) = {}
BY ModesXs DEF Tested, Holds, Fails

(* The ends of a loop: the ones of its body but for break and continue,    *)
(* and those of its else.                                                  *)
LEMMA LoopEnds ==
  ASSUME NEW t, NEW cl, PyClauses(cl), NEW v \in Modes, NEW x \in Xs
  PROVE  /\ RunLoop(t, cl, v, x) \subseteq Ends
         /\ \A o \in Outcomes, y \in Xs : <<o, y>> \in RunLoop(t, cl, v, x) =>
              \/ o = "raise" /\ Faults(t, x) # {}
              \/ /\ o \notin {"next", "break", "continue"}
                 /\ \E z \in Xs : <<o, y>> \in cl.body.run[v][z]
              \/ o = "next" /\ \E z \in Xs : <<"break", y>> \in cl.body.run[v][z]
              \/ t # "true" /\ \E z \in Xs : <<o, y>> \in cl.else.run[v][z]
         /\ x = "ok" /\ <<"raise", "ok">> \in cl.body.run[v]["ok"]
              => <<"raise", "ok">> \in RunLoop(t, cl, v, x)
         /\ x = "ok" /\ t # "true" => cl.else.run[v]["ok"] \subseteq RunLoop(t, cl, v, x)
<1> DEFINE Enter(X) == From(cl.body, v, Holds(t, Tested(t, X)))
           Again(X) == X \cup After(Enter(X), "next") \cup After(Enter(X), "continue")
           heads == Again(Again({x}))
           rs == Enter(heads)
           fs == From(cl.else, v, Fails(t, Tested(t, heads)))
<1>1. \A X \in SUBSET Xs : Again(X) \in SUBSET Xs /\ X \subseteq Again(X)
  BY DEF After
<1>2. heads \in SUBSET Xs /\ x \in heads
  BY <1>1
<1>3. RunLoop(t, cl, v, x) =
        Faults(t, x) \cup {r \in rs : r[1] \notin {"next", "continue", "break"}}
          \cup ({"next"} \X After(rs, "break")) \cup fs
  BY DEF RunLoop
<1> HIDE DEF heads
<1>4. cl.body \in PyBlocks /\ cl.else \in PyBlocks
  BY DEF PyClauses
<1>5. /\ Tested(t, heads) \in SUBSET Xs
      /\ Holds(t, Tested(t, heads)) \in SUBSET Xs
      /\ Fails(t, Tested(t, heads)) \in SUBSET Xs
      /\ t = "true" => Fails(t, Tested(t, heads)) = {}
      /\ x = "ok" => "ok" \in Holds(t, Tested(t, heads))
      /\ x = "ok" /\ t # "true" => "ok" \in Fails(t, Tested(t, heads))
  BY <1>2, TestValues
<1>6. rs \subseteq Ends /\ fs \subseteq Ends
  BY <1>4, <1>5, FromEnds
<1>7. \A r \in rs : \E z \in Xs : r \in cl.body.run[v][z]
  BY <1>5 DEF From
<1>8. \A r \in fs : t # "true" /\ \E z \in Xs : r \in cl.else.run[v][z]
  BY <1>5 DEF From
<1>9. Faults(t, x) \subseteq Ends /\ \A r \in Faults(t, x) : r[1] = "raise"
  BY EndPairs DEF Faults, Outcomes
<1>10. RunLoop(t, cl, v, x) \subseteq Ends
  <2>1. {"next"} \X After(rs, "break") \subseteq Ends
    BY EndPairs DEF After, Outcomes, Ends
  <2>2. QED
    BY <1>3, <1>6, <1>9, <2>1
<1>11. ASSUME NEW o \in Outcomes, NEW y \in Xs, <<o, y>> \in RunLoop(t, cl, v, x)
       PROVE  \/ o = "raise" /\ Faults(t, x) # {}
              \/ /\ o \notin {"next", "break", "continue"}
                 /\ \E z \in Xs : <<o, y>> \in cl.body.run[v][z]
              \/ o = "next" /\ \E z \in Xs : <<"break", y>> \in cl.body.run[v][z]
              \/ t # "true" /\ \E z \in Xs : <<o, y>> \in cl.else.run[v][z]
  <2>1. CASE <<o, y>> \in Faults(t, x)
    BY <2>1, <1>9
  <2>2. CASE <<o, y>> \in {r \in rs : r[1] \notin {"next", "continue", "break"}}
    BY <2>2, <1>7
  <2>3. CASE <<o, y>> \in {"next"} \X After(rs, "break")
    <3>1. o = "next" /\ <<"break", y>> \in rs
      BY <2>3 DEF After
    <3>2. QED
      BY <3>1, <1>7
  <2>4. CASE <<o, y>> \in fs
    BY <2>4, <1>8
  <2>5. QED
    BY <1>3, <1>11, <2>1, <2>2, <2>3, <2>4
<1>12. x = "ok" /\ <<"raise", "ok">> \in cl.body.run[v]["ok"]
         => <<"raise", "ok">> \in RunLoop(t, cl, v, x)
  <2>1. x = "ok" /\ <<"raise", "ok">> \in cl.body.run[v]["ok"] => <<"raise", "ok">> \in rs
    BY <1>5 DEF From
  <2>2. QED
    BY <2>1, <1>3
<1>13. x = "ok" /\ t # "true" => cl.else.run[v]["ok"] \subseteq RunLoop(t, cl, v, x)
  <2>1. x = "ok" /\ t # "true" => cl.else.run[v]["ok"] \subseteq fs
    BY <1>5 DEF From
  <2>2. QED
    BY <2>1, <1>3
<1>14. QED
  BY <1>10, <1>11, <1>12, <1>13

(* The ends of a try before its finally, and with it.                      *)
LEMMA TriedEnds ==
  ASSUME NEW cl, PyClauses(cl), NEW v \in Modes, NEW x \in Xs
  PROVE  /\ RunTried(cl, v, x) \subseteq Ends
         /\ \A o \in Outcomes, z \in Xs : <<o, z>> \in RunTried(cl, v, x) <=>
              \/ o # "next" /\ <<o, z>> \in cl.body.run[v][x]
              \/ \E w \in Xs : <<"next", w>> \in cl.body.run[v][x] /\ <<o, z>> \in cl.else.run[v][w]
              \/ \E h \in cl.except, w \in Xs :
                   <<"raise", w>> \in cl.body.run[v][x] /\ <<o, z>> \in h.run[v][w]
<1> DEFINE tried == cl.body.run[v][x]
           stays == {r \in tried : r[1] # "next"}
           goes == From(cl.else, v, After(tried, "next"))
           caught == UNION {From(h, v, After(tried, "raise")) : h \in cl.except}
<1>1. cl.body \in PyBlocks /\ cl.else \in PyBlocks /\ cl.except \subseteq PyBlocks
  BY DEF PyClauses
<1>2. tried \subseteq Ends /\ After(tried, "next") \in SUBSET Xs /\ After(tried, "raise") \in SUBSET Xs
  BY <1>1, BlockTypes DEF After
<1>3. RunTried(cl, v, x) = stays \cup goes \cup caught
  BY DEF RunTried
<1>4. stays \subseteq Ends /\ goes \subseteq Ends
  BY <1>1, <1>2, FromEnds
<1>5. \A h \in cl.except : From(h, v, After(tried, "raise")) \subseteq Ends
  BY <1>1, <1>2, FromEnds
<1>6. caught \subseteq Ends
  BY <1>5
<1>7. \A o \in Outcomes, z \in Xs : <<o, z>> \in stays <=> o # "next" /\ <<o, z>> \in tried
  OBVIOUS
<1>8. \A o \in Outcomes, z \in Xs : <<o, z>> \in goes <=>
        \E w \in Xs : <<"next", w>> \in tried /\ <<o, z>> \in cl.else.run[v][w]
  BY DEF From, After
<1>9. \A o \in Outcomes, z \in Xs : <<o, z>> \in caught <=>
        \E h \in cl.except, w \in Xs : <<"raise", w>> \in tried /\ <<o, z>> \in h.run[v][w]
  BY DEF From, After
<1>10. QED
  BY <1>3, <1>4, <1>6, <1>7, <1>8, <1>9

(* What follows when the try and its finally are passed.                   *)
LEMMA TriedNext ==
  ASSUME NEW cl, PyClauses(cl), NEW v \in Modes, NEW x \in Xs, NEW z \in Xs,
         <<"next", z>> \in RunTried(cl, v, x)
  PROVE  \/ \E w \in Xs : <<"next", w>> \in cl.body.run[v][x] /\ <<"next", z>> \in cl.else.run[v][w]
         \/ \E h \in cl.except, w \in Xs :
              <<"raise", w>> \in cl.body.run[v][x] /\ <<"next", z>> \in h.run[v][w]
<1>1. "next" \in Outcomes
  BY DEF Outcomes
<1>2. \/ "next" # "next" /\ <<"next", z>> \in cl.body.run[v][x]
      \/ \E w \in Xs : <<"next", w>> \in cl.body.run[v][x] /\ <<"next", z>> \in cl.else.run[v][w]
      \/ \E h \in cl.except, w \in Xs :
           <<"raise", w>> \in cl.body.run[v][x] /\ <<"next", z>> \in h.run[v][w]
  BY <1>1, TriedEnds
<1>3. QED
  BY <1>2

(* The ends of a try, with its finally.                                    *)
LEMMA TryEnds ==
  ASSUME NEW cl, PyClauses(cl), NEW v \in Modes, NEW x \in Xs
  PROVE  /\ RunTry(cl, v, x) \subseteq Ends
         /\ \A o \in Outcomes, y \in Xs : <<o, y>> \in RunTry(cl, v, x) <=>
              \E p \in Outcomes, z \in Xs :
                /\ <<p, z>> \in RunTried(cl, v, x)
                /\ \/ o # "next" /\ <<o, y>> \in cl.finally.run[v][z]
                   \/ o = p /\ <<"next", y>> \in cl.finally.run[v][z]
<1>1. RunTry(cl, v, x) \subseteq Ends
  BY DEF RunTry
<1>2. ASSUME NEW o \in Outcomes, NEW y \in Xs, <<o, y>> \in RunTry(cl, v, x)
      PROVE  \E p \in Outcomes, z \in Xs :
                /\ <<p, z>> \in RunTried(cl, v, x)
                /\ \/ o # "next" /\ <<o, y>> \in cl.finally.run[v][z]
                   \/ o = p /\ <<"next", y>> \in cl.finally.run[v][z]
  <2>1. PICK r \in RunTried(cl, v, x) :
          \/ o # "next" /\ <<o, y>> \in cl.finally.run[v][r[2]]
          \/ o = r[1] /\ <<"next", y>> \in cl.finally.run[v][r[2]]
    BY <1>2 DEF RunTry
  <2>2. r = <<r[1], r[2]>> /\ r[1] \in Outcomes /\ r[2] \in Xs
    BY TriedEnds, EndPairs
  <2>3. QED
    BY <2>1, <2>2
<1>3. ASSUME NEW o \in Outcomes, NEW y \in Xs, NEW p \in Outcomes, NEW z \in Xs,
             <<p, z>> \in RunTried(cl, v, x),
             \/ o # "next" /\ <<o, y>> \in cl.finally.run[v][z]
             \/ o = p /\ <<"next", y>> \in cl.finally.run[v][z]
      PROVE  <<o, y>> \in RunTry(cl, v, x)
  <2>1. <<o, y>> \in Ends
    BY EndPairs
  <2>2. QED
    BY <1>3, <2>1 DEF RunTry
<1>4. QED
  BY <1>1, <1>2, <1>3

(* A try is passed only through its finally.                               *)
LEMMA TryNext ==
  ASSUME NEW cl, PyClauses(cl), NEW v \in Modes, NEW x \in Xs, NEW y \in Xs,
         <<"next", y>> \in RunTry(cl, v, x)
  PROVE  \E z \in Xs : <<"next", z>> \in RunTried(cl, v, x) /\ <<"next", y>> \in cl.finally.run[v][z]
<1>1. "next" \in Outcomes
  BY DEF Outcomes
<1>2. \E p \in Outcomes, z \in Xs :
        /\ <<p, z>> \in RunTried(cl, v, x)
        /\ \/ "next" # "next" /\ <<"next", y>> \in cl.finally.run[v][z]
           \/ "next" = p /\ <<"next", y>> \in cl.finally.run[v][z]
  BY <1>1, TryEnds
<1>3. QED
  BY <1>2

(* The ends of the other statements.                                       *)
LEMMA SimpleEnds ==
  ASSUME NEW k \in Simple, NEW t, NEW cl, NEW v, NEW x \in Xs
  PROVE  /\ Run(k, t, cl, v, x) \subseteq Ends
         /\ \A o, y : <<o, y>> \in Run(k, t, cl, v, x) =>
              /\ o = "next" => k \notin Returns \cup Exits \cup {"break", "continue"}
              /\ o = "break" => k = "break"
              /\ o = "continue" => k = "continue"
              /\ o = "return None" => k = "none"
         /\ <<"raise", x>> \in Run(k, t, cl, v, x)
         /\ k \notin Returns \cup Exits \cup {"break", "continue"} /\ x = "ok"
              => <<"next", "ok">> \in Run(k, t, cl, v, x)
         /\ k \in {"break", "continue"} => <<k, x>> \in Run(k, t, cl, v, x)
<1>1. Run(k, t, cl, v, x) = RunSimple(k, x)
  BY DEF Run, Simple
<1>2. RunSimple(k, x) \subseteq Ends
  <2>1. \A o \in Outcomes, y \in Xs : <<o, y>> \in Ends
    BY EndPairs
  <2>2. QED
    BY <2>1, ModesXs DEF RunSimple, Outcomes
<1>3. QED
  BY <1>1, <1>2, ModesXs DEF RunSimple, Returns, Exits, Simple

(* The ends of an if are those of its branches.                            *)
LEMMA IfEnds ==
  ASSUME NEW t, NEW cl, PyClauses(cl), NEW v \in Modes, NEW x \in Xs
  PROVE  /\ Run("if", t, cl, v, x) \subseteq Ends
         /\ \A o, y : <<o, y>> \in Run("if", t, cl, v, x) =>
              \/ o = "raise" /\ Faults(t, x) # {}
              \/ \E z \in Xs : <<o, y>> \in cl.body.run[v][z]
              \/ \E z \in Xs : <<o, y>> \in cl.else.run[v][z]
         /\ x = "ok" => cl.body.run[v]["ok"] \subseteq Run("if", t, cl, v, x)
         /\ x = "ok" /\ t # "true" => cl.else.run[v]["ok"] \subseteq Run("if", t, cl, v, x)
<1> DEFINE bs == From(cl.body, v, Holds(t, Tested(t, {x})))
           es == From(cl.else, v, Fails(t, Tested(t, {x})))
<1>1. Run("if", t, cl, v, x) = Faults(t, x) \cup bs \cup es
  BY DEF Run, Simple
<1>2. cl.body \in PyBlocks /\ cl.else \in PyBlocks
  BY DEF PyClauses
<1>3. /\ Holds(t, Tested(t, {x})) \in SUBSET Xs
      /\ Fails(t, Tested(t, {x})) \in SUBSET Xs
      /\ x = "ok" => "ok" \in Holds(t, Tested(t, {x}))
      /\ x = "ok" /\ t # "true" => "ok" \in Fails(t, Tested(t, {x}))
  <2>1. {x} \in SUBSET Xs
    OBVIOUS
  <2>2. Tested(t, {x}) \in SUBSET Xs /\ (x = "ok" => "ok" \in Tested(t, {x}))
    BY <2>1, TestValues
  <2>3. QED
    BY <2>2, TestValues
<1>4. bs \subseteq Ends /\ es \subseteq Ends
  BY <1>2, <1>3, FromEnds
<1>5. Faults(t, x) \subseteq Ends /\ \A r \in Faults(t, x) : r[1] = "raise"
  BY EndPairs DEF Faults, Outcomes
<1>6. /\ \A r \in bs : \E z \in Xs : r \in cl.body.run[v][z]
      /\ \A r \in es : \E z \in Xs : r \in cl.else.run[v][z]
      /\ x = "ok" => cl.body.run[v]["ok"] \subseteq bs
      /\ x = "ok" /\ t # "true" => cl.else.run[v]["ok"] \subseteq es
  BY <1>3 DEF From
<1>7. QED
  BY <1>1, <1>4, <1>5, <1>6

(* A with ends as its body, or swallows an exception of it.                *)
LEMMA WithEnds ==
  ASSUME NEW t, NEW cl, PyClauses(cl), NEW v \in Modes, NEW x \in Xs
  PROVE  /\ Run("with", t, cl, v, x) \subseteq Ends
         /\ \A o, y : <<o, y>> \in Run("with", t, cl, v, x) =>
              \/ <<o, y>> \in cl.body.run[v][x]
              \/ o = "next" /\ v = "suppressing"
         /\ cl.body.run[v][x] \subseteq Run("with", t, cl, v, x)
<1> DEFINE rs == cl.body.run[v][x]
           ss == IF v = "suppressing" THEN {"next"} \X After(rs, "raise") ELSE {}
<1>1. Run("with", t, cl, v, x) = rs \cup ss
  BY DEF Run, Simple
<1>2. rs \subseteq Ends
  BY BlockTypes DEF PyClauses
<1>3. ss \subseteq Ends
  BY EndPairs DEF After, Outcomes, Ends
<1>4. \A o, y : <<o, y>> \in ss => o = "next" /\ v = "suppressing"
  OBVIOUS
<1>5. QED
  BY <1>1, <1>2, <1>3, <1>4

(* A match ends as one of its arms, or is passed by.                       *)
LEMMA MatchEnds ==
  ASSUME NEW t, NEW cl, PyClauses(cl), NEW v \in Modes, NEW x \in Xs
  PROVE  /\ Run("match", t, cl, v, x) \subseteq Ends
         /\ \A o, y : <<o, y>> \in Run("match", t, cl, v, x) =>
              o = "next" \/ \E a \in cl.case : <<o, y>> \in a.run[v][x]
         /\ \A a \in cl.case : a.run[v][x] \subseteq Run("match", t, cl, v, x)
<1> DEFINE as == UNION {a.run[v][x] : a \in cl.case}
           ss == IF t = "total" THEN {} ELSE {<<"next", x>>}
<1>1. Run("match", t, cl, v, x) = as \cup ss
  <2>1. Run("match", t, cl, v, x) = RunMatch(t, cl, v, x)
    BY DEF Run, Simple
  <2>2. QED
    BY <2>1 DEF RunMatch
<1>2. \A a \in cl.case : a.run[v][x] \subseteq Ends
  BY BlockTypes DEF PyClauses
<1>3. ss \subseteq Ends /\ \A o, y : <<o, y>> \in ss => o = "next"
  BY EndPairs DEF Outcomes
<1>4. QED
  BY <1>1, <1>2, <1>3

-----------------------------------------------------------------------------
(* What a statement of kind k has of its clauses.                          *)
Walked(k, cl) ==
  CASE k \in {"if", "while", "for"} -> {cl.body, cl.else}
    [] k = "with" -> {cl.body}
    [] k \in {"try", "try*"} -> {cl.body, cl.else, cl.finally} \cup cl.except
    [] k = "match" -> cl.case
    [] OTHER -> {}

(* Which clauses a statement has, and that a written clause is not empty.  *)
Formed(k, cl) ==
  /\ PyClauses(cl)
  /\ \A b \in Parts(cl) : b \in Walked(k, cl) \/ b = PyEmpty
  /\ k \in {"if", "while", "for", "with", "try", "try*"} => Raises(cl.body)
  /\ k = "match" => cl.case # {}
  /\ IF k = "match" THEN cl.body = PyEmpty /\ cl.else = PyEmpty ELSE cl.case = {}
  /\ \A b \in Parts(cl) : Written(b)
  /\ \A b \in cl.except \cup cl.case : Raises(b)

(* The fields of a statement, and those of a block that goes on with one.  *)
LEMMA StatementFields ==
  ASSUME NEW k, NEW t, NEW cl
  PROVE  /\ \A v \in Modes, x \in Xs : PyStatement(k, t, cl).run[v][x] = Run(k, t, cl, v, x)
         /\ \A e \in Readings : PyStatement(k, t, cl).ir[e] = Translate(k, cl, e)
         /\ PyStatement(k, t, cl).completes <=> CanComplete(k, t, cl)
         /\ PyStatement(k, t, cl).within = Within(k, t, cl)
BY DEF PyStatement

LEMMA StatementAt ==
  ASSUME NEW k, NEW t, NEW cl
  PROVE  /\ PyStatement(k, t, cl).ir["ends"] = Translate(k, cl, "ends")
         /\ PyStatement(k, t, cl).ir["runs on"] = Translate(k, cl, "runs on")
         /\ \A x \in Xs : PyStatement(k, t, cl).run["plain"][x] = Run(k, t, cl, "plain", x)
         /\ PyStatement(k, t, cl).run["plain"]["ok"] = Run(k, t, cl, "plain", "ok")
BY ModesXs DEF PyStatement

LEMMA ThenFields ==
  ASSUME NEW b, NEW s
  PROVE  /\ \A v \in Modes, x \in Xs : PyThen(b, s).run[v][x] = RunOn(b, s, v, x)
         /\ \A e \in Readings : PyThen(b, s).ir[e] = b.ir[e] \cup s.ir[e]
         /\ PyThen(b, s).completes <=> b.completes /\ s.completes
         /\ PyThen(b, s).within = b.within \cup s.within
BY DEF PyThen

LEMMA ThenAt ==
  ASSUME NEW b, NEW s
  PROVE  /\ PyThen(b, s).ir["ends"] = b.ir["ends"] \cup s.ir["ends"]
         /\ PyThen(b, s).ir["runs on"] = b.ir["runs on"] \cup s.ir["runs on"]
         /\ \A x \in Xs : PyThen(b, s).run["plain"][x] = RunOn(b, s, "plain", x)
         /\ PyThen(b, s).run["plain"]["ok"] = RunOn(b, s, "plain", "ok")
BY ModesXs DEF PyThen

LEMMA EmptyFields ==
  /\ \A v \in Modes, x \in Xs : PyEmpty.run[v][x] = {<<"next", x>>}
  /\ \A e \in Readings : PyEmpty.ir[e] = {}
  /\ PyEmpty.completes = TRUE
  /\ PyEmpty.within = {}
  /\ PyEmpty.ir["ends"] = {}
  /\ PyEmpty.ir["runs on"] = {}
  /\ PyEmpty.run["plain"]["ok"] = {<<"next", "ok">>}
BY ModesXs DEF PyEmpty

LEMMA RunOnTyped ==
  ASSUME NEW b \in PyBlocks, NEW s \in PyBlocks, NEW v \in Modes, NEW x \in Xs
  PROVE  RunOn(b, s, v, x) \subseteq Ends
<1>1. b.run[v][x] \subseteq Ends /\ After(b.run[v][x], "next") \in SUBSET Xs
  BY BlockTypes DEF After
<1>2. From(s, v, After(b.run[v][x], "next")) \subseteq Ends
  BY <1>1, FromEnds
<1>3. QED
  BY <1>1, <1>2 DEF RunOn

(* A block ends before the statement it goes on with, or in it.            *)
LEMMA RunOnEnds ==
  ASSUME NEW b, NEW s, NEW v, NEW x, NEW o, NEW y
  PROVE  <<o, y>> \in RunOn(b, s, v, x) <=>
           \/ o # "next" /\ <<o, y>> \in b.run[v][x]
           \/ \E z \in Xs : <<"next", z>> \in b.run[v][x] /\ <<o, y>> \in s.run[v][z]
BY DEF RunOn, From, After

(* Running a statement ends in Ends, and a break, a continue or a return   *)
(* of None comes from one of its clauses, if it is not the statement.      *)
LEMMA Origins ==
  ASSUME NEW k \in PyKinds, NEW t, NEW cl, PyClauses(cl), NEW v \in Modes, NEW x \in Xs
  PROVE  /\ Run(k, t, cl, v, x) \subseteq Ends
         /\ \A o \in {"break", "continue", "return None"}, y \in Xs :
              <<o, y>> \in Run(k, t, cl, v, x) =>
                \/ k \in Simple /\ k = (IF o = "return None" THEN "none" ELSE o)
                \/ \E b \in Walked(k, cl), w, z \in Xs :
                     /\ <<o, w>> \in b.run[v][z]
                     /\ k \in {"for", "while"} /\ o # "return None" => b = cl.else
<1> DEFINE From1(o) == \E b \in Walked(k, cl), w, z \in Xs :
                         /\ <<o, w>> \in b.run[v][z]
                         /\ k \in {"for", "while"} /\ o # "return None" => b = cl.else
<1> SUFFICES ASSUME NEW o \in {"break", "continue", "return None"}, NEW y \in Xs
             PROVE  /\ Run(k, t, cl, v, x) \subseteq Ends
                    /\ <<o, y>> \in Run(k, t, cl, v, x) =>
                         (k \in Simple /\ k = (IF o = "return None" THEN "none" ELSE o)) \/ From1(o)
  OBVIOUS
<1>0. o \in Outcomes /\ o # "next" /\ o # "raise"
  BY DEF Outcomes
<1>1. CASE k \in Simple
  BY <1>1, SimpleEnds
<1>2. CASE k = "if"
  <2>1. Walked(k, cl) = {cl.body, cl.else}
    BY <1>2 DEF Walked
  <2>2. /\ Run(k, t, cl, v, x) \subseteq Ends
        /\ <<o, y>> \in Run(k, t, cl, v, x) =>
             \/ \E z \in Xs : <<o, y>> \in cl.body.run[v][z]
             \/ \E z \in Xs : <<o, y>> \in cl.else.run[v][z]
    BY <1>0, <1>2, IfEnds
  <2>3. QED
    BY <1>2, <2>1, <2>2
<1>3. CASE k \in {"while", "for"}
  <2>1. Walked(k, cl) = {cl.body, cl.else}
    BY <1>3 DEF Walked
  <2>2. Run(k, t, cl, v, x) = RunLoop(t, cl, v, x)
    BY <1>3 DEF Run, Simple
  <2>3. /\ Run(k, t, cl, v, x) \subseteq Ends
        /\ <<o, y>> \in Run(k, t, cl, v, x) =>
             \/ o = "return None" /\ \E z \in Xs : <<o, y>> \in cl.body.run[v][z]
             \/ \E z \in Xs : <<o, y>> \in cl.else.run[v][z]
    <3>1. RunLoop(t, cl, v, x) \subseteq Ends
      BY LoopEnds
    <3>2. <<o, y>> \in RunLoop(t, cl, v, x) =>
             \/ o = "raise"
             \/ /\ o \notin {"next", "break", "continue"}
                /\ \E z \in Xs : <<o, y>> \in cl.body.run[v][z]
             \/ o = "next"
             \/ \E z \in Xs : <<o, y>> \in cl.else.run[v][z]
      BY <1>0, LoopEnds
    <3>3. QED
      BY <1>0, <2>2, <3>1, <3>2
  <2>4. QED
    BY <2>1, <2>3
<1>4. CASE k = "with"
  <2>1. Walked(k, cl) = {cl.body}
    BY <1>4 DEF Walked
  <2>2. QED
    BY <1>0, <1>4, <2>1, WithEnds
<1>5. CASE k \in {"try", "try*"}
  <2>1. Walked(k, cl) = {cl.body, cl.else, cl.finally} \cup cl.except
    BY <1>5 DEF Walked
  <2>2. Run(k, t, cl, v, x) = RunTry(cl, v, x)
    BY <1>5 DEF Run, Simple
  <2>3. RunTry(cl, v, x) \subseteq Ends
    BY TryEnds
  <2>4. ASSUME <<o, y>> \in RunTry(cl, v, x)
        PROVE  From1(o)
    <3>1. PICK p \in Outcomes, z \in Xs :
                /\ <<p, z>> \in RunTried(cl, v, x)
                /\ \/ o # "next" /\ <<o, y>> \in cl.finally.run[v][z]
                   \/ o = p /\ <<"next", y>> \in cl.finally.run[v][z]
      BY <1>0, <2>4, TryEnds
    <3>2. CASE <<o, y>> \in cl.finally.run[v][z]
      BY <1>5, <2>1, <3>2
    <3>3. CASE o = p
      <4>1. \/ <<o, z>> \in cl.body.run[v][x]
            \/ \E w \in Xs : <<o, z>> \in cl.else.run[v][w]
            \/ \E h \in cl.except, w \in Xs : <<o, z>> \in h.run[v][w]
        BY <3>1, <3>3, TriedEnds
      <4>2. QED
        BY <1>5, <2>1, <4>1
    <3>4. QED
      BY <3>1, <3>2, <3>3
  <2>5. QED
    BY <2>2, <2>3, <2>4
<1>6. CASE k = "match"
  <2>1. Walked(k, cl) = cl.case
    BY <1>6 DEF Walked
  <2>2. /\ Run(k, t, cl, v, x) \subseteq Ends
        /\ <<o, y>> \in Run(k, t, cl, v, x) => \E a \in cl.case : <<o, y>> \in a.run[v][x]
    BY <1>0, <1>6, MatchEnds
  <2>3. QED
    BY <1>6, <2>1, <2>2
<1>7. QED
  BY <1>1, <1>2, <1>3, <1>4, <1>5, <1>6 DEF PyKinds

LEMMA BreakOrigins ==
  ASSUME NEW k \in PyKinds, NEW t, NEW cl, PyClauses(cl), NEW v \in Modes, NEW x \in Xs,
         NEW o \in {"break", "continue"}, NEW y \in Xs, <<o, y>> \in Run(k, t, cl, v, x)
  PROVE  \/ k \in Simple /\ k = o
         \/ \E b \in Walked(k, cl), w, z \in Xs :
              /\ <<o, w>> \in b.run[v][z]
              /\ k \in {"for", "while"} => b = cl.else
<1>1. o \in {"break", "continue", "return None"} /\ o # "return None"
  OBVIOUS
<1>2. \A p \in {"break", "continue", "return None"}, u \in Xs :
        <<p, u>> \in Run(k, t, cl, v, x) =>
          \/ k \in Simple /\ k = (IF p = "return None" THEN "none" ELSE p)
          \/ \E b \in Walked(k, cl), w, z \in Xs :
               /\ <<p, w>> \in b.run[v][z]
               /\ k \in {"for", "while"} /\ p # "return None" => b = cl.else
  BY Origins
<1>3. QED
  BY <1>1, <1>2

EndsAt(b, o) == \E v \in Modes, x \in Xs, y \in Xs : <<o, y>> \in b.run[v][x]

LEMMA BreakParts ==
  ASSUME NEW k \in PyKinds, NEW t, NEW cl, PyClauses(cl), NEW o \in {"break", "continue"},
         EndsAt(PyStatement(k, t, cl), o)
  PROVE  \/ k \in Simple /\ k = o
         \/ \E b \in Walked(k, cl) : EndsAt(b, o) /\ (k \in {"for", "while"} => b = cl.else)
<1>1. PICK v \in Modes, x \in Xs, y \in Xs : <<o, y>> \in PyStatement(k, t, cl).run[v][x]
  BY DEF EndsAt
<1>2. <<o, y>> \in Run(k, t, cl, v, x)
  BY <1>1, StatementFields
<1>3. \/ k \in Simple /\ k = o
      \/ \E b \in Walked(k, cl), w, z \in Xs :
           /\ <<o, w>> \in b.run[v][z]
           /\ k \in {"for", "while"} => b = cl.else
  BY <1>2, BreakOrigins
<1>4. QED
  BY <1>3 DEF EndsAt

-----------------------------------------------------------------------------
(* The translation.                                                        *)

(* Ifs return always when all their branches do, and anywhere when one     *)
(* does.                                                                   *)
LEMMA BranchAnswers ==
  ASSUME NEW bs
  PROVE  \A a : a \in Branches(bs) <=>
           \/ a # "always" /\ \E b \in bs : a \in b
           \/ a = "always" /\ bs # {} /\ \A b \in bs : a \in b
BY DEF Branches

LEMMA IfAnswers ==
  ASSUME NEW then, NEW else
  PROVE  \A a : a \in If(then, else) <=>
           \/ a # "always" /\ (a \in then \/ a \in else)
           \/ a = "always" /\ a \in then /\ a \in else
BY BranchAnswers DEF If

(* What the translation of a statement answers.                            *)
LEMMA TranslateAnswers ==
  ASSUME NEW k \in PyKinds, NEW cl, PyClauses(cl), NEW e \in Readings
  PROVE  /\ Translate(k, cl, e) \subseteq Answers
         /\ \A a \in {"returns", "none"} : a \in Translate(k, cl, e) <=>
              \/ k # "try*" /\ \E b \in Walked(k, cl) : a \in b.ir[e]
              \/ k \in Returns /\ (a = "returns" \/ k = "none")
              \/ k \in Exits /\ e = "ends" /\ a = "returns"
         /\ "always" \in Translate(k, cl, e) <=>
              \/ k \in Returns
              \/ k \in Exits /\ e = "ends"
              \/ k = "if" /\ "always" \in cl.body.ir[e] /\ "always" \in cl.else.ir[e]
              \/ k = "with" /\ "always" \in cl.body.ir[e]
              \/ k = "try" /\ "always" \in cl.finally.ir[e]
              \/ /\ k = "try" /\ "always" \in cl.body.ir[e] \cup cl.else.ir[e]
                 /\ cl.except # {} /\ \A h \in cl.except : "always" \in h.ir[e]
<1> DEFINE T == Translate(k, cl, e)
           Goal ==
             /\ T \subseteq Answers
             /\ \A a \in {"returns", "none"} : a \in T <=>
                  \/ k # "try*" /\ \E b \in Walked(k, cl) : a \in b.ir[e]
                  \/ k \in Returns /\ (a = "returns" \/ k = "none")
                  \/ k \in Exits /\ e = "ends" /\ a = "returns"
             /\ "always" \in T <=>
                  \/ k \in Returns
                  \/ k \in Exits /\ e = "ends"
                  \/ k = "if" /\ "always" \in cl.body.ir[e] /\ "always" \in cl.else.ir[e]
                  \/ k = "with" /\ "always" \in cl.body.ir[e]
                  \/ k = "try" /\ "always" \in cl.finally.ir[e]
                  \/ /\ k = "try" /\ "always" \in cl.body.ir[e] \cup cl.else.ir[e]
                     /\ cl.except # {} /\ \A h \in cl.except : "always" \in h.ir[e]
<1>0. /\ cl.body.ir[e] \subseteq Answers /\ cl.else.ir[e] \subseteq Answers
      /\ cl.finally.ir[e] \subseteq Answers
      /\ \A h \in cl.except : h.ir[e] \subseteq Answers
      /\ \A a \in cl.case : a.ir[e] \subseteq Answers
  BY BlockTypes, PartsTyped
<1>1. CASE k \in Simple
  <2>1. T = IF k \in Exits /\ e = "ends" THEN Ret("raise")
            ELSE IF k \in Returns THEN Ret(IF k = "none" THEN "none" ELSE "opaque") ELSE {}
    BY <1>1 DEF Translate, Simple, Exits, Returns
  <2>2. Walked(k, cl) = {}
    BY <1>1 DEF Walked, Simple
  <2>3. k \notin {"if", "with", "try", "try*"}
    BY <1>1 DEF Simple
  <2>4. k \in Exits => k \notin Returns
    BY DEF Exits, Returns
  <2>5. QED
    BY <2>1, <2>2, <2>3, <2>4 DEF Ret, Answers
<1>2. CASE k = "if"
  <2>1. T = If(cl.body.ir[e], cl.else.ir[e])
    BY <1>2 DEF Translate, Exits, Returns
  <2>2. Walked(k, cl) = {cl.body, cl.else}
    BY <1>2 DEF Walked
  <2>3. k \notin Returns /\ k \notin Exits
    BY <1>2 DEF Exits, Returns
  <2>4. QED
    BY <1>0, <1>2, <2>1, <2>2, <2>3, IfAnswers DEF Answers
<1>3. CASE k \in {"for", "while"}
  <2>1. T = If(cl.body.ir[e] \cup cl.else.ir[e], {})
    BY <1>3 DEF Translate, Exits, Returns, MaybeRuns
  <2>2. Walked(k, cl) = {cl.body, cl.else}
    BY <1>3 DEF Walked
  <2>3. k \notin Returns /\ k \notin Exits
    BY <1>3 DEF Exits, Returns
  <2>4. QED
    BY <1>0, <1>3, <2>1, <2>2, <2>3, IfAnswers DEF Answers
<1>4. CASE k = "with"
  <2>1. T = cl.body.ir[e]
    BY <1>4 DEF Translate, Exits, Returns
  <2>2. Walked(k, cl) = {cl.body}
    BY <1>4 DEF Walked
  <2>3. k \notin Returns /\ k \notin Exits
    BY <1>4 DEF Exits, Returns
  <2>4. QED
    BY <1>0, <1>4, <2>1, <2>2, <2>3
<1>5. CASE k = "try"
  <2> DEFINE hs == {h.ir[e] : h \in cl.except}
  <2>1. T = If(cl.body.ir[e] \cup cl.else.ir[e], Branches(hs)) \cup cl.finally.ir[e]
    BY <1>5 DEF Translate, Exits, Returns, HandlerChain
  <2>2. Walked(k, cl) = {cl.body, cl.else, cl.finally} \cup cl.except
    BY <1>5 DEF Walked
  <2>3. k \notin Returns /\ k \notin Exits
    BY <1>5 DEF Exits, Returns
  <2>4. \A a : a \in Branches(hs) <=>
          \/ a # "always" /\ \E h \in cl.except : a \in h.ir[e]
          \/ a = "always" /\ cl.except # {} /\ \A h \in cl.except : a \in h.ir[e]
    BY BranchAnswers
  <2> HIDE DEF hs
  <2>5. \A a : a \in T <=>
          \/ a \in cl.finally.ir[e]
          \/ a # "always" /\ (a \in cl.body.ir[e] \cup cl.else.ir[e] \/ a \in Branches(hs))
          \/ a = "always" /\ a \in cl.body.ir[e] \cup cl.else.ir[e] /\ a \in Branches(hs)
    BY <2>1, IfAnswers
  <2>6. T \subseteq Answers
    BY <1>0, <2>4, <2>5
  <2>7. ASSUME NEW a \in {"returns", "none"}
        PROVE  a \in T <=> \E b \in Walked(k, cl) : a \in b.ir[e]
    BY <2>2, <2>4, <2>5
  <2>8. "always" \in T <=>
          \/ "always" \in cl.finally.ir[e]
          \/ /\ "always" \in cl.body.ir[e] \cup cl.else.ir[e]
             /\ cl.except # {} /\ \A h \in cl.except : "always" \in h.ir[e]
    BY <2>4, <2>5
  <2>9. QED
    BY <1>5, <2>3, <2>6, <2>7, <2>8
<1>6. CASE k = "try*"
  <2>1. T = {}
    BY <1>6 DEF Translate, Exits, Returns
  <2>2. k \notin Returns /\ k \notin Exits
    BY <1>6 DEF Exits, Returns
  <2>3. QED
    BY <1>6, <2>1, <2>2
<1>7. CASE k = "match"
  <2>1. T = UNION {MaybeRuns(a.ir[e]) : a \in cl.case}
    BY <1>7 DEF Translate, Exits, Returns
  <2>2. Walked(k, cl) = cl.case
    BY <1>7 DEF Walked
  <2>3. k \notin Returns /\ k \notin Exits
    BY <1>7 DEF Exits, Returns
  <2>4. \A a : a \in T <=> \E c \in cl.case : a # "always" /\ a \in c.ir[e]
    BY <2>1, IfAnswers DEF MaybeRuns
  <2>5. QED
    BY <1>0, <1>7, <2>2, <2>3, <2>4
<1>8. QED
  BY <1>1, <1>2, <1>3, <1>4, <1>5, <1>6, <1>7 DEF PyKinds

(* The translation returns None only where the statement does.             *)
LEMMA NoneAnswers ==
  ASSUME NEW k \in PyKinds, NEW cl, PyClauses(cl), NEW e \in Readings
  PROVE  "none" \in Translate(k, cl, e) <=>
           \/ k # "try*" /\ \E b \in Walked(k, cl) : "none" \in b.ir[e]
           \/ k = "none"
<1>1. \A a \in {"returns", "none"} : a \in Translate(k, cl, e) <=>
        \/ k # "try*" /\ \E b \in Walked(k, cl) : a \in b.ir[e]
        \/ k \in Returns /\ (a = "returns" \/ k = "none")
        \/ k \in Exits /\ e = "ends" /\ a = "returns"
  BY TranslateAnswers
<1>2. "none" \in Returns /\ "none" # "returns"
  BY DEF Returns
<1>3. QED
  BY <1>1, <1>2

-----------------------------------------------------------------------------
(* A statement whose clauses are sound is sound, and so is a block that    *)
(* goes on with a sound statement.                                         *)

(* What is within a statement is its head or within a clause of it.        *)
LEMMA WithinStatement ==
  ASSUME NEW k, NEW t, NEW cl
  PROVE  \A K : Has(PyStatement(k, t, cl), K) <=> k \in K \/ \E b \in Parts(cl) : Has(b, K)
<1>1. \A h : h \in PyStatement(k, t, cl).within <=>
              h = Heading(k, t, cl) \/ \E b \in Parts(cl) : h \in b.within
  BY StatementFields DEF Within
<1>2. Heading(k, t, cl).k = k
  BY DEF Heading
<1>3. QED
  BY <1>1, <1>2 DEF Has

LEMMA WithinThen ==
  ASSUME NEW b, NEW s
  PROVE  \A K : Has(PyThen(b, s), K) <=> Has(b, K) \/ Has(s, K)
BY ThenFields DEF Has

LEMMA WalkedParts ==
  ASSUME NEW k, NEW cl
  PROVE  Walked(k, cl) \subseteq Parts(cl)
BY DEF Walked, Parts

(* What narrowing finds of a statement and of a block that goes on.        *)
LEMMA NarrowTyped ==
  ASSUME NEW k, NEW t, NEW cl
  PROVE  Narrow(k, t, cl) \in Narrowings
<1>1. EndsOf(k) \in EndKinds
  BY DEF EndsOf, EndKinds
<1>2. Guards(k, t, cl) \in GuardKinds
  BY DEF Guards, GuardKinds
<1>3. KeepsNone(k, t, cl) \in BOOLEAN /\ BodyAlone(k, t, cl) \in BOOLEAN
  BY DEF KeepsNone, BodyAlone
<1>4. QED
  BY <1>1, <1>2, <1>3 DEF Narrow, Narrowings

LEMMA NarrowOnTyped ==
  ASSUME NEW b \in PyBlocks, NEW s \in PyBlocks
  PROVE  NarrowOn(b, s) \in Narrowings
<1>1. b.narrow \in Narrowings /\ s.narrow \in Narrowings
  BY DEF PyBlocks
<1>2. "no" \in EndKinds /\ "no" \in GuardKinds
  BY DEF EndKinds, GuardKinds
<1>3. QED
  BY <1>1, <1>2 DEF NarrowOn, Narrowings

(* A statement is a block, and so is a block that goes on with one.        *)
LEMMA StatementTyped ==
  ASSUME NEW k \in PyKinds, NEW t \in PyTests, NEW cl, PyClauses(cl)
  PROVE  PyStatement(k, t, cl) \in PyBlocks
<1>1. \A v \in Modes : \A x \in Xs : Run(k, t, cl, v, x) \in SUBSET Ends
  BY Origins
<1>2. \A e \in Readings : Translate(k, cl, e) \in SUBSET Answers
  BY TranslateAnswers
<1>3. CanComplete(k, t, cl) \in BOOLEAN
  <2>1. cl.body.completes \in BOOLEAN /\ cl.else.completes \in BOOLEAN /\ cl.finally.completes \in BOOLEAN
    BY PartsTyped, BlockTypes
  <2>2. QED
    BY <2>1 DEF CanComplete, ContainsBreak, Has
<1>4. Heading(k, t, cl) \in Headings
  BY DEF Heading, Headings
<1>5. Within(k, t, cl) \subseteq Headings
  BY <1>4, PartsTyped, BlockTypes DEF Within
<1>6. [v \in Modes |-> [x \in Xs |-> Run(k, t, cl, v, x)]] \in [Modes -> [Xs -> SUBSET Ends]]
  BY <1>1
<1>7. [e \in Readings |-> Translate(k, cl, e)] \in [Readings -> SUBSET Answers]
  BY <1>2
<1>8. Narrow(k, t, cl) \in Narrowings
  BY NarrowTyped
<1>9. QED
  BY <1>3, <1>5, <1>6, <1>7, <1>8 DEF PyStatement, PyBlocks

LEMMA ThenTyped ==
  ASSUME NEW b \in PyBlocks, NEW s \in PyBlocks
  PROVE  PyThen(b, s) \in PyBlocks
<1>1. [v \in Modes |-> [x \in Xs |-> RunOn(b, s, v, x)]] \in [Modes -> [Xs -> SUBSET Ends]]
  BY RunOnTyped
<1>2. [e \in Readings |-> b.ir[e] \cup s.ir[e]] \in [Readings -> SUBSET Answers]
  BY BlockTypes
<1>3. (b.completes /\ s.completes) \in BOOLEAN
  OBVIOUS
<1>4. b.within \cup s.within \subseteq Headings
  BY BlockTypes
<1>5. NarrowOn(b, s) \in Narrowings
  BY NarrowOnTyped
<1>6. QED
  BY <1>1, <1>2, <1>3, <1>4, <1>5 DEF PyThen, PyBlocks

(* Each part of PySound is kept by a statement and by a block that goes    *)
(* on.                                                                     *)
LEMMA StatementCompletionSound ==
  ASSUME NEW k \in PyKinds, NEW t, NEW cl, PyClauses(cl),
         \A b \in Parts(cl) : CompletionSound(b) /\ BreakTyped(b)
  PROVE  CompletionSound(PyStatement(k, t, cl))
<1> SUFFICES ASSUME NEW v \in Modes, NEW x \in Xs, NEW y \in Xs,
                    <<"next", y>> \in Run(k, t, cl, v, x)
             PROVE  CanComplete(k, t, cl)
  BY StatementFields DEF CompletionSound
<1>0. /\ "next" \in Outcomes /\ "break" \in Outcomes /\ "raise" \in Outcomes
      /\ {cl.body, cl.else, cl.finally} \subseteq Parts(cl)
  BY PartsTyped DEF Outcomes
<1>a. \A b \in Parts(cl), w, z \in Xs : <<"next", z>> \in b.run[v][w] => b.completes
  BY DEF CompletionSound
<1>1. CASE k \in Simple
  <2>1. k \notin Returns \cup Exits \cup {"break", "continue"}
    BY <1>1, SimpleEnds
  <2>2. k \notin {"if", "while", "try", "try*"}
    BY <1>1 DEF Simple
  <2>3. QED
    BY <2>1, <2>2 DEF CanComplete
<1>2. CASE k = "if"
  <2>1. \/ \E z \in Xs : <<"next", y>> \in cl.body.run[v][z]
        \/ \E z \in Xs : <<"next", y>> \in cl.else.run[v][z]
    BY <1>2, IfEnds
  <2>2. cl.body.completes \/ cl.else.completes
    BY <1>0, <1>a, <2>1
  <2>3. QED
    BY <1>2, <2>2 DEF CanComplete, Returns, Exits
<1>3. CASE k \in {"while", "for"}
  <2>1. CASE k = "while" /\ t = "true"
    <3>1. Run(k, t, cl, v, x) = RunLoop(t, cl, v, x)
      BY <1>3 DEF Run, Simple
    <3>2. \E z \in Xs : <<"break", y>> \in cl.body.run[v][z]
      BY <1>0, <2>1, <3>1, LoopEnds
    <3>3. Has(cl.body, {"break"})
      BY <1>0, <3>2 DEF BreakTyped
    <3>4. QED
      BY <2>1, <3>3 DEF CanComplete, Returns, Exits, ContainsBreak
  <2>2. CASE ~(k = "while" /\ t = "true")
    BY <1>3, <2>2 DEF CanComplete, Returns, Exits
  <2>3. QED
    BY <2>1, <2>2
<1>4. CASE k \in {"with", "match"}
  BY <1>4 DEF CanComplete, Returns, Exits
<1>5. CASE k \in {"try", "try*"}
  <2>1. Run(k, t, cl, v, x) = RunTry(cl, v, x)
    BY <1>5 DEF Run, Simple
  <2>2. PICK z \in Xs : <<"next", z>> \in RunTried(cl, v, x) /\ <<"next", y>> \in cl.finally.run[v][z]
    BY <2>1, TryNext
  <2>3. cl.finally.completes
    BY <1>0, <1>a, <2>2
  <2>4. \/ \E w \in Xs : <<"next", w>> \in cl.body.run[v][x] /\ <<"next", z>> \in cl.else.run[v][w]
        \/ cl.except # {}
    <3>1. <<"next", z>> \in RunTried(cl, v, x)
      BY <2>2
    <3>2. QED
      BY <3>1, TriedNext
  <2>5. (cl.body.completes /\ cl.else.completes) \/ cl.except # {}
    BY <1>0, <1>a, <2>4
  <2>6. QED
    BY <1>5, <2>3, <2>5 DEF CanComplete, Returns, Exits
<1>6. QED
  BY <1>1, <1>2, <1>3, <1>4, <1>5 DEF PyKinds

LEMMA ThenCompletionSound ==
  ASSUME NEW b \in PyBlocks, NEW s \in PyBlocks, CompletionSound(b), CompletionSound(s)
  PROVE  CompletionSound(PyThen(b, s))
<1> SUFFICES ASSUME NEW v \in Modes, NEW x \in Xs, NEW y \in Xs,
                    <<"next", y>> \in RunOn(b, s, v, x)
             PROVE  b.completes /\ s.completes
  BY ThenFields DEF CompletionSound
<1>1. \E z \in Xs : <<"next", z>> \in b.run[v][x] /\ <<"next", y>> \in s.run[v][z]
  BY RunOnEnds
<1>2. QED
  BY <1>1 DEF CompletionSound

LEMMA StatementBreakTyped ==
  ASSUME NEW k \in PyKinds, NEW t, NEW cl, PyClauses(cl), \A b \in Parts(cl) : BreakTyped(b)
  PROVE  BreakTyped(PyStatement(k, t, cl))
<1> SUFFICES ASSUME NEW v \in Modes, NEW x \in Xs, NEW y \in Xs,
                    <<"break", y>> \in PyStatement(k, t, cl).run[v][x]
             PROVE  Has(PyStatement(k, t, cl), {"break"})
  BY DEF BreakTyped
<1>1. EndsAt(PyStatement(k, t, cl), "break")
  BY DEF EndsAt
<1>2. k = "break" \/ \E b \in Walked(k, cl) : EndsAt(b, "break")
  BY <1>1, BreakParts
<1>3. k = "break" \/ \E b \in Parts(cl) : Has(b, {"break"})
  BY <1>2, WalkedParts DEF EndsAt, BreakTyped
<1>4. QED
  BY <1>3, WithinStatement

LEMMA ThenBreakTyped ==
  ASSUME NEW b \in PyBlocks, NEW s \in PyBlocks, BreakTyped(b), BreakTyped(s)
  PROVE  BreakTyped(PyThen(b, s))
<1> SUFFICES ASSUME NEW v \in Modes, NEW x \in Xs, NEW y \in Xs,
                    <<"break", y>> \in RunOn(b, s, v, x)
             PROVE  Has(b, {"break"}) \/ Has(s, {"break"})
  BY ThenFields, WithinThen DEF BreakTyped
<1>1. \/ <<"break", y>> \in b.run[v][x]
      \/ \E z \in Xs : <<"break", y>> \in s.run[v][z]
  BY RunOnEnds
<1>2. QED
  BY <1>1 DEF BreakTyped

LEMMA StatementReturnTyped ==
  ASSUME NEW k \in PyKinds, NEW t, NEW cl, PyClauses(cl), \A b \in Parts(cl) : ReturnTyped(b)
  PROVE  ReturnTyped(PyStatement(k, t, cl))
<1> SUFFICES ASSUME "returns" \in Translate(k, cl, "runs on")
             PROVE  k \in Returns \/ \E b \in Parts(cl) : Has(b, Returns)
  <2>1. Has(PyStatement(k, t, cl), Returns) <=> k \in Returns \/ \E b \in Parts(cl) : Has(b, Returns)
    BY WithinStatement
  <2>2. PyStatement(k, t, cl).ir["runs on"] = Translate(k, cl, "runs on")
    BY StatementAt
  <2>3. QED
    BY <2>1, <2>2 DEF ReturnTyped
<1>1. \/ \E b \in Walked(k, cl) : "returns" \in b.ir["runs on"]
      \/ k \in Returns
  <2>1. "returns" \in Translate(k, cl, "runs on") <=>
          \/ k # "try*" /\ \E b \in Walked(k, cl) : "returns" \in b.ir["runs on"]
          \/ k \in Returns /\ ("returns" = "returns" \/ k = "none")
          \/ k \in Exits /\ "runs on" = "ends" /\ "returns" = "returns"
    BY TranslateAnswers, ModesXs
  <2>2. QED
    BY <2>1
<1>2. QED
  BY <1>1, WalkedParts DEF ReturnTyped

LEMMA ThenReturnTyped ==
  ASSUME NEW b, NEW s, ReturnTyped(b), ReturnTyped(s)
  PROVE  ReturnTyped(PyThen(b, s))
<1>1. Has(PyThen(b, s), Returns) <=> Has(b, Returns) \/ Has(s, Returns)
  BY WithinThen
<1>2. PyThen(b, s).ir["runs on"] = b.ir["runs on"] \cup s.ir["runs on"]
  BY ThenAt
<1>3. QED
  BY <1>1, <1>2 DEF ReturnTyped

LEMMA StatementReturnTranslated ==
  ASSUME NEW k \in PyKinds, NEW t, NEW cl, Formed(k, cl), \A b \in Parts(cl) : ReturnTranslated(b)
  PROVE  ReturnTranslated(PyStatement(k, t, cl))
<1> SUFFICES ASSUME k \in Returns \/ \E b \in Parts(cl) : Has(b, Returns),
                    k # "try*", \A b \in Parts(cl) : ~Has(b, {"try*"}),
                    NEW e \in Readings
             PROVE  "returns" \in Translate(k, cl, e)
  BY StatementFields, WithinStatement DEF ReturnTranslated
<1>1. PyClauses(cl) /\ \A b \in Parts(cl) : b \in Walked(k, cl) \/ b = PyEmpty
  BY DEF Formed
<1>2. ~Has(PyEmpty, Returns)
  BY EmptyFields DEF Has
<1>3. k \in Returns \/ \E b \in Walked(k, cl) : "returns" \in b.ir[e]
  BY <1>1, <1>2 DEF ReturnTranslated
<1>4. QED
  BY <1>1, <1>3, TranslateAnswers

LEMMA ThenReturnTranslated ==
  ASSUME NEW b, NEW s, ReturnTranslated(b), ReturnTranslated(s)
  PROVE  ReturnTranslated(PyThen(b, s))
BY ThenFields, WithinThen DEF ReturnTranslated

LEMMA StatementNoneTranslated ==
  ASSUME NEW k \in PyKinds, NEW t, NEW cl, PyClauses(cl), \A b \in Parts(cl) : NoneTranslated(b)
  PROVE  NoneTranslated(PyStatement(k, t, cl))
<1> SUFFICES ASSUME k # "try*", \A b \in Parts(cl) : ~Has(b, {"try*"}),
                    NEW v \in Modes, NEW x \in Xs, NEW y \in Xs,
                    <<"return None", y>> \in Run(k, t, cl, v, x)
             PROVE  /\ k \in Returns \/ \E b \in Parts(cl) : Has(b, Returns)
                    /\ "none" \in Translate(k, cl, "ends")
  <2> DEFINE S == PyStatement(k, t, cl)
  <2>1. Has(S, Returns) <=> k \in Returns \/ \E b \in Parts(cl) : Has(b, Returns)
    BY WithinStatement
  <2>2. Has(S, {"try*"}) <=> k = "try*" \/ \E b \in Parts(cl) : Has(b, {"try*"})
    BY WithinStatement
  <2>3. S.ir["ends"] = Translate(k, cl, "ends")
    BY StatementAt
  <2>4. \A v \in Modes, x \in Xs : S.run[v][x] = Run(k, t, cl, v, x)
    BY StatementFields
  <2> HIDE DEF S
  <2>5. QED
    BY <2>1, <2>2, <2>3, <2>4 DEF NoneTranslated, S
<1>1. \/ k = "none"
      \/ \E b \in Walked(k, cl), w, z \in Xs : <<"return None", w>> \in b.run[v][z]
  BY Origins
<1>2. \/ k = "none"
      \/ \E b \in Walked(k, cl) : Has(b, Returns) /\ "none" \in b.ir["ends"]
  BY <1>1, WalkedParts DEF NoneTranslated
<1>3. "none" \in Returns
  BY DEF Returns
<1>4. "none" \in Translate(k, cl, "ends")
  BY <1>2, <1>3, NoneAnswers, ModesXs
<1>5. QED
  BY <1>2, <1>3, <1>4, WalkedParts

LEMMA ThenNoneTranslated ==
  ASSUME NEW b, NEW s, NoneTranslated(b), NoneTranslated(s)
  PROVE  NoneTranslated(PyThen(b, s))
<1> SUFFICES ASSUME ~Has(b, {"try*"}), ~Has(s, {"try*"}),
                    NEW v \in Modes, NEW x \in Xs, NEW y \in Xs,
                    <<"return None", y>> \in RunOn(b, s, v, x)
             PROVE  /\ Has(b, Returns) \/ Has(s, Returns)
                    /\ "none" \in b.ir["ends"] \cup s.ir["ends"]
  <2> DEFINE S == PyThen(b, s)
  <2>1. Has(S, Returns) <=> Has(b, Returns) \/ Has(s, Returns)
    BY WithinThen
  <2>2. Has(S, {"try*"}) <=> Has(b, {"try*"}) \/ Has(s, {"try*"})
    BY WithinThen
  <2>3. S.ir["ends"] = b.ir["ends"] \cup s.ir["ends"]
    BY ThenAt
  <2>4. \A v \in Modes, x \in Xs : S.run[v][x] = RunOn(b, s, v, x)
    BY ThenFields
  <2>5. ASSUME ~Has(S, {"try*"}), NEW v \in Modes, NEW x \in Xs, NEW y \in Xs,
               <<"return None", y>> \in S.run[v][x]
        PROVE  Has(S, Returns) /\ "none" \in S.ir["ends"]
    BY <2>1, <2>2, <2>3, <2>4, <2>5
  <2>6. QED
    BY <2>5 DEF NoneTranslated
<1>1. \/ <<"return None", y>> \in b.run[v][x]
      \/ \E z \in Xs : <<"return None", y>> \in s.run[v][z]
  BY RunOnEnds
<1>2. QED
  BY <1>1 DEF NoneTranslated

LEMMA StatementAlwaysReturns ==
  ASSUME NEW k \in PyKinds, NEW t, NEW cl, PyClauses(cl), \A b \in Parts(cl) : AlwaysReturns(b)
  PROVE  AlwaysReturns(PyStatement(k, t, cl))
<1> SUFFICES ASSUME "always" \in Translate(k, cl, "ends"), NEW x \in Xs, NEW y \in Xs
             PROVE  <<"next", y>> \notin Run(k, t, cl, "plain", x)
  <2> DEFINE S == PyStatement(k, t, cl)
  <2>1. S.ir["ends"] = Translate(k, cl, "ends")
    BY StatementAt
  <2>2. \A x \in Xs : S.run["plain"][x] = Run(k, t, cl, "plain", x)
    BY StatementAt
  <2> HIDE DEF S
  <2>3. QED
    BY <2>1, <2>2 DEF AlwaysReturns, S
<1>0. /\ "next" \in Outcomes /\ "raise" \in Outcomes /\ "plain" \in Modes /\ "ends" \in Readings
      /\ {cl.body, cl.else, cl.finally} \subseteq Parts(cl) /\ cl.except \subseteq Parts(cl)
  BY PartsTyped, ModesXs DEF Outcomes
<1>a. \A b \in Parts(cl), w, z \in Xs :
        "always" \in b.ir["ends"] => <<"next", z>> \notin b.run["plain"][w]
  BY DEF AlwaysReturns
<1>1. \/ k \in Returns
      \/ k \in Exits
      \/ k = "if" /\ "always" \in cl.body.ir["ends"] /\ "always" \in cl.else.ir["ends"]
      \/ k = "with" /\ "always" \in cl.body.ir["ends"]
      \/ k = "try" /\ "always" \in cl.finally.ir["ends"]
      \/ /\ k = "try" /\ "always" \in cl.body.ir["ends"] \cup cl.else.ir["ends"]
         /\ cl.except # {} /\ \A h \in cl.except : "always" \in h.ir["ends"]
  BY <1>0, TranslateAnswers
<1>2. CASE k \in Returns \cup Exits
  <2>1. k \in Simple
    BY <1>2 DEF Returns, Exits, Simple
  <2>2. QED
    BY <1>2, <2>1, SimpleEnds
<1>3. CASE k = "if" /\ "always" \in cl.body.ir["ends"] /\ "always" \in cl.else.ir["ends"]
  BY <1>0, <1>a, <1>3, IfEnds
<1>4. CASE k = "with" /\ "always" \in cl.body.ir["ends"]
  <2>1. "plain" # "suppressing"
    OBVIOUS
  <2>2. QED
    BY <1>0, <1>a, <1>4, <2>1, WithEnds
<1>5. ASSUME k = "try", <<"next", y>> \in RunTry(cl, "plain", x)
      PROVE  \E z \in Xs : /\ <<"next", y>> \in cl.finally.run["plain"][z]
                           /\ <<"next", z>> \in RunTried(cl, "plain", x)
  <2>1. \E p \in Outcomes, z \in Xs :
          /\ <<p, z>> \in RunTried(cl, "plain", x)
          /\ \/ "next" # "next" /\ <<"next", y>> \in cl.finally.run["plain"][z]
             \/ "next" = p /\ <<"next", y>> \in cl.finally.run["plain"][z]
    BY <1>0, <1>5, TryEnds
  <2>2. QED
    BY <2>1
<1>6. CASE k = "try"
  <2>1. Run(k, t, cl, "plain", x) = RunTry(cl, "plain", x)
    BY <1>6 DEF Run, Simple
  <2>2. CASE "always" \in cl.finally.ir["ends"]
    BY <1>0, <1>a, <1>5, <1>6, <2>1, <2>2
  <2>3. CASE /\ "always" \in cl.body.ir["ends"] \cup cl.else.ir["ends"]
             /\ \A h \in cl.except : "always" \in h.ir["ends"]
    <3>1. ASSUME NEW z \in Xs, <<"next", z>> \in RunTried(cl, "plain", x)
          PROVE  FALSE
      <4>1. \/ \E w \in Xs : <<"next", w>> \in cl.body.run["plain"][x] /\ <<"next", z>> \in cl.else.run["plain"][w]
            \/ \E h \in cl.except, w \in Xs : <<"next", z>> \in h.run["plain"][w]
        BY <1>0, <3>1, TriedNext
      <4>2. QED
        BY <1>0, <1>a, <2>3, <4>1
    <3>2. QED
      BY <1>5, <1>6, <2>1, <3>1
  <2>4. k \notin Returns /\ k \notin Exits
    BY <1>6 DEF Returns, Exits
  <2>5. QED
    BY <1>1, <1>6, <2>2, <2>3, <2>4
<1>7. QED
  BY <1>1, <1>2, <1>3, <1>4, <1>6

LEMMA ThenAlwaysReturns ==
  ASSUME NEW b, NEW s, AlwaysReturns(b), AlwaysReturns(s)
  PROVE  AlwaysReturns(PyThen(b, s))
<1> SUFFICES ASSUME "always" \in b.ir["ends"] \cup s.ir["ends"], NEW x \in Xs, NEW y \in Xs,
                    <<"next", y>> \in RunOn(b, s, "plain", x)
             PROVE  FALSE
  <2> DEFINE S == PyThen(b, s)
  <2>1. S.ir["ends"] = b.ir["ends"] \cup s.ir["ends"]
    BY ThenAt
  <2>2. \A x \in Xs : S.run["plain"][x] = RunOn(b, s, "plain", x)
    BY ThenAt
  <2> HIDE DEF S
  <2>3. QED
    BY <2>1, <2>2 DEF AlwaysReturns, S
<1>1. \E z \in Xs : <<"next", z>> \in b.run["plain"][x] /\ <<"next", y>> \in s.run["plain"][z]
  BY RunOnEnds
<1>2. QED
  BY <1>1 DEF AlwaysReturns

(* Within a statement are its own head and what is within its clauses.     *)
LEMMA StatementHeads ==
  ASSUME NEW k, NEW t, NEW cl
  PROVE  /\ Heading(k, t, cl) \in PyStatement(k, t, cl).within
         /\ \A b \in Parts(cl) : b.within \subseteq PyStatement(k, t, cl).within
         /\ Heading(k, t, cl).k = k /\ Heading(k, t, cl).t = t
         /\ "else" \in Heading(k, t, cl).with <=> Filled(cl.else)
         /\ "except" \in Heading(k, t, cl).with <=> cl.except # {}
<1>1. PyStatement(k, t, cl).within = Within(k, t, cl)
  BY StatementFields
<1>2. QED
  BY <1>1 DEF Within, Heading

(* Any statement may raise.                                                *)
LEMMA StatementRaises ==
  ASSUME NEW k \in PyKinds, NEW t, NEW cl, Formed(k, cl)
  PROVE  Raises(PyStatement(k, t, cl))
<1> DEFINE R == Run(k, t, cl, "plain", "ok")
<1> SUFFICES <<"raise", "ok">> \in R
  <2>1. PyStatement(k, t, cl).run["plain"]["ok"] = R
    BY StatementAt
  <2>2. QED
    BY <2>1 DEF Raises
<1>0. PyClauses(cl) /\ "raise" \in Outcomes
  BY DEF Formed, Outcomes
<1>1. CASE k \in Simple
  BY <1>1, SimpleEnds, ModesXs
<1>2. CASE k \in {"if", "while", "for", "with", "try", "try*"}
  <2>1. <<"raise", "ok">> \in cl.body.run["plain"]["ok"]
    BY <1>2 DEF Formed, Raises
  <2>2. CASE k = "if"
    BY <1>0, <2>1, <2>2, IfEnds, ModesXs
  <2>3. CASE k \in {"while", "for"}
    <3>1. R = RunLoop(t, cl, "plain", "ok")
      BY <2>3 DEF Run, Simple
    <3>2. QED
      BY <1>0, <2>1, <3>1, LoopEnds, ModesXs
  <2>4. CASE k = "with"
    BY <1>0, <2>1, <2>4, WithEnds, ModesXs
  <2>5. CASE k \in {"try", "try*"}
    <3>1. R = RunTry(cl, "plain", "ok")
      BY <2>5 DEF Run, Simple
    <3>2. <<"raise", "ok">> \in RunTried(cl, "plain", "ok")
      <4>1. \A o \in Outcomes, z \in Xs :
              o # "next" /\ <<o, z>> \in cl.body.run["plain"]["ok"] => <<o, z>> \in RunTried(cl, "plain", "ok")
        BY <1>0, TriedEnds, ModesXs
      <4>2. QED
        BY <1>0, <2>1, <4>1, ModesXs
    <3>3. \/ <<"raise", "ok">> \in cl.finally.run["plain"]["ok"]
          \/ <<"next", "ok">> \in cl.finally.run["plain"]["ok"]
      <4>1. Raises(cl.finally) \/ cl.finally = PyEmpty
        BY <1>0, PartsTyped DEF Formed, Written
      <4>2. QED
        BY <4>1, EmptyFields DEF Raises
    <3>4. \A o \in Outcomes, y \in Xs, p \in Outcomes, z \in Xs :
            /\ <<p, z>> \in RunTried(cl, "plain", "ok")
            /\ \/ o # "next" /\ <<o, y>> \in cl.finally.run["plain"][z]
               \/ o = p /\ <<"next", y>> \in cl.finally.run["plain"][z]
            => <<o, y>> \in RunTry(cl, "plain", "ok")
      BY <1>0, TryEnds, ModesXs
    <3>5. QED
      BY <1>0, <3>1, <3>2, <3>3, <3>4, ModesXs
  <2>6. QED
    BY <1>2, <2>2, <2>3, <2>4, <2>5
<1>3. CASE k = "match"
  <2>1. PICK a \in cl.case : Raises(a)
    BY <1>3 DEF Formed, Written
  <2>2. a.run["plain"]["ok"] \subseteq R
    BY <1>0, <1>3, MatchEnds, ModesXs
  <2>3. QED
    BY <2>1, <2>2 DEF Raises
<1>4. QED
  BY <1>1, <1>2, <1>3 DEF PyKinds

LEMMA ThenRaises ==
  ASSUME NEW b, NEW s, b = PyEmpty \/ Raises(b), Raises(s)
  PROVE  Raises(PyThen(b, s))
<1>1. <<"raise", "ok">> \in RunOn(b, s, "plain", "ok")
  <2>1. CASE Raises(b)
    <3>1. "raise" # "next" /\ <<"raise", "ok">> \in b.run["plain"]["ok"]
      BY <2>1 DEF Raises
    <3>2. QED
      BY <3>1, RunOnEnds
  <2>2. CASE b = PyEmpty
    <3>1. "ok" \in Xs /\ <<"next", "ok">> \in b.run["plain"]["ok"] /\ <<"raise", "ok">> \in s.run["plain"]["ok"]
      BY <2>2, EmptyFields, ModesXs DEF Raises
    <3>2. QED
      BY <3>1, RunOnEnds
  <2>3. QED
    BY <2>1, <2>2
<1>2. PyThen(b, s).run["plain"]["ok"] = RunOn(b, s, "plain", "ok")
  BY ThenAt
<1>3. QED
  BY <1>1, <1>2 DEF Raises

LEMMA StatementCompletionReal ==
  ASSUME NEW k \in PyKinds, NEW t, NEW cl, Formed(k, cl),
         \A b \in Parts(cl) : CompletionReal(b)
  PROVE  CompletionReal(PyStatement(k, t, cl))
<1> DEFINE S == PyStatement(k, t, cl)
           R == Run(k, t, cl, "plain", "ok")
<1> SUFFICES ASSUME CanComplete(k, t, cl), ~Has(S, Returns), \A h \in S.within : ~R3Limits(h)
             PROVE  <<"next", "ok">> \in R
  <2>1. S.run["plain"]["ok"] = R
    BY StatementAt
  <2>2. S.completes <=> CanComplete(k, t, cl)
    BY StatementFields
  <2>3. QED
    BY <2>1, <2>2 DEF CompletionReal
<1>0. PyClauses(cl) /\ "next" \in Outcomes
  BY DEF Formed, Outcomes
<1>a. /\ k \notin {"for", "with", "match", "break"}
      /\ cl.except = {}
      /\ k = "while" => ~Filled(cl.else)
      /\ k = "if" => t # "true"
  <2>1. ~R3Limits(Heading(k, t, cl))
    BY StatementHeads
  <2>2. QED
    BY <2>1, StatementHeads DEF R3Limits
<1>b. ASSUME NEW b \in Parts(cl), b.completes
      PROVE  <<"next", "ok">> \in b.run["plain"]["ok"]
  <2>1. b.within \subseteq S.within
    BY StatementHeads
  <2>2. ~Has(b, Returns) /\ \A h \in b.within : ~R3Limits(h)
    BY <2>1 DEF Has
  <2>3. QED
    BY <1>b, <2>2 DEF CompletionReal
<1>c. cl.body \in Parts(cl) /\ cl.else \in Parts(cl) /\ cl.finally \in Parts(cl)
  BY DEF Parts
<1> HIDE DEF S
<1>1. CASE k \in Simple
  <2>1. k \notin Returns \cup Exits \cup {"break", "continue"}
    <3>1. k \notin {"if", "while", "try", "try*"}
      BY <1>1 DEF Simple
    <3>2. QED
      BY <3>1 DEF CanComplete
  <2>2. QED
    BY <1>1, <2>1, SimpleEnds, ModesXs
<1>2. CASE k = "if"
  <2>1. cl.body.completes \/ cl.else.completes
    BY <1>2 DEF CanComplete, Returns, Exits
  <2>2. cl.body.run["plain"]["ok"] \subseteq R /\ cl.else.run["plain"]["ok"] \subseteq R
    BY <1>0, <1>2, <1>a, IfEnds, ModesXs
  <2>3. QED
    BY <1>b, <1>c, <2>1, <2>2
<1>3. CASE k = "while"
  <2>1. t # "true"
    <3>1. ASSUME t = "true"
          PROVE  FALSE
      <4>1. Has(cl.body, {"break"})
        BY <1>3, <3>1 DEF CanComplete, Returns, Exits, ContainsBreak
      <4>2. PICK h \in cl.body.within : h.k = "break"
        BY <4>1 DEF Has
      <4>3. h \in S.within
        BY <1>c, StatementHeads DEF S
      <4>4. QED
        BY <4>2, <4>3 DEF R3Limits
    <3>2. QED
      BY <3>1
  <2>2. cl.else = PyEmpty
    BY <1>3, <1>a, <1>c DEF Formed, Written
  <2>3. R = RunLoop(t, cl, "plain", "ok")
    BY <1>3 DEF Run, Simple
  <2>4. cl.else.run["plain"]["ok"] \subseteq RunLoop(t, cl, "plain", "ok")
    BY <1>0, <2>1, LoopEnds, ModesXs
  <2>5. QED
    BY <2>2, <2>3, <2>4, EmptyFields
<1>4. CASE k \in {"try", "try*"}
  <2>1. cl.finally.completes /\ cl.body.completes /\ cl.else.completes
    BY <1>4, <1>a DEF CanComplete, Returns, Exits
  <2>2. R = RunTry(cl, "plain", "ok")
    BY <1>4 DEF Run, Simple
  <2>3. /\ <<"next", "ok">> \in cl.body.run["plain"]["ok"]
        /\ <<"next", "ok">> \in cl.else.run["plain"]["ok"]
        /\ <<"next", "ok">> \in cl.finally.run["plain"]["ok"]
    BY <1>b, <1>c, <2>1
  <2>4. <<"next", "ok">> \in RunTried(cl, "plain", "ok")
    <3>1. \A o \in Outcomes, z \in Xs, w \in Xs :
            <<"next", w>> \in cl.body.run["plain"]["ok"] /\ <<o, z>> \in cl.else.run["plain"][w]
            => <<o, z>> \in RunTried(cl, "plain", "ok")
      BY <1>0, TriedEnds, ModesXs
    <3>2. QED
      BY <1>0, <2>3, <3>1, ModesXs
  <2>5. \A o \in Outcomes, y \in Xs, z \in Xs :
          <<o, z>> \in RunTried(cl, "plain", "ok") /\ <<"next", y>> \in cl.finally.run["plain"][z]
          => <<o, y>> \in RunTry(cl, "plain", "ok")
    BY <1>0, TryEnds, ModesXs
  <2>6. QED
    BY <1>0, <2>2, <2>3, <2>4, <2>5, ModesXs
<1>5. QED
  BY <1>a, <1>1, <1>2, <1>3, <1>4 DEF PyKinds

LEMMA ThenCompletionReal ==
  ASSUME NEW b, NEW s, CompletionReal(b), CompletionReal(s)
  PROVE  CompletionReal(PyThen(b, s))
<1> DEFINE S == PyThen(b, s)
<1> SUFFICES ASSUME b.completes, s.completes, ~Has(S, Returns), \A h \in S.within : ~R3Limits(h)
             PROVE  <<"next", "ok">> \in RunOn(b, s, "plain", "ok")
  <2>1. S.run["plain"]["ok"] = RunOn(b, s, "plain", "ok")
    BY ThenAt
  <2>2. S.completes <=> b.completes /\ s.completes
    BY ThenFields
  <2>3. QED
    BY <2>1, <2>2 DEF CompletionReal
<1>1. S.within = b.within \cup s.within
  BY ThenFields
<1>2. /\ ~Has(b, Returns) /\ \A h \in b.within : ~R3Limits(h)
      /\ ~Has(s, Returns) /\ \A h \in s.within : ~R3Limits(h)
  BY <1>1 DEF Has
<1>3. <<"next", "ok">> \in b.run["plain"]["ok"] /\ <<"next", "ok">> \in s.run["plain"]["ok"] /\ "ok" \in Xs
  BY <1>2, ModesXs DEF CompletionReal
<1>4. QED
  BY <1>3, RunOnEnds

LEMMA StatementMissReal ==
  ASSUME NEW k \in PyKinds, NEW t, NEW cl, Formed(k, cl),
         \A b \in Parts(cl) : MissReal(b)
  PROVE  MissReal(PyStatement(k, t, cl))
<1> DEFINE S == PyStatement(k, t, cl)
           R == Run(k, t, cl, "plain", "ok")
<1> SUFFICES ASSUME "always" \notin Translate(k, cl, "ends"), \A h \in S.within : ~D24Limits(h)
             PROVE  \E o \in {"next", "break", "continue"} : <<o, "ok">> \in R
  <2>1. S.run["plain"]["ok"] = R /\ S.ir["ends"] = Translate(k, cl, "ends")
    BY StatementAt
  <2>2. QED
    BY <2>1 DEF MissReal, Passes
<1>0. PyClauses(cl) /\ {"next", "break", "continue", "raise"} \subseteq Outcomes
  BY DEF Formed, Outcomes
<1>a. /\ k \in {"for", "while"} => t # "true" /\ ~Filled(cl.else)
      /\ k = "if" => t # "true"
      /\ k = "try" => cl.except # {}
      /\ k \notin {"match", "try*"}
  <2>1. ~D24Limits(Heading(k, t, cl))
    BY StatementHeads
  <2>2. QED
    BY <2>1, StatementHeads DEF D24Limits
<1>b. ASSUME NEW b \in Parts(cl), "always" \notin b.ir["ends"]
      PROVE  \E o \in {"next", "break", "continue"} : <<o, "ok">> \in b.run["plain"]["ok"]
  <2>1. b.within \subseteq S.within
    BY StatementHeads
  <2>2. \A h \in b.within : ~D24Limits(h)
    BY <2>1
  <2>3. QED
    BY <1>b, <2>2 DEF MissReal, Passes
<1>c. cl.body \in Parts(cl) /\ cl.else \in Parts(cl) /\ cl.finally \in Parts(cl) /\ cl.except \subseteq Parts(cl)
  BY DEF Parts
<1>d. /\ k \notin Returns
      /\ k \notin Exits
      /\ ~(k = "if" /\ "always" \in cl.body.ir["ends"] /\ "always" \in cl.else.ir["ends"])
      /\ ~(k = "with" /\ "always" \in cl.body.ir["ends"])
      /\ ~(k = "try" /\ "always" \in cl.finally.ir["ends"])
      /\ ~(/\ k = "try" /\ "always" \in cl.body.ir["ends"] \cup cl.else.ir["ends"]
           /\ cl.except # {} /\ \A h \in cl.except : "always" \in h.ir["ends"])
  BY <1>0, TranslateAnswers, ModesXs
<1> HIDE DEF S
<1>1. CASE k \in Simple
  <2>1. CASE k \in {"break", "continue"}
    BY <1>1, <2>1, SimpleEnds, ModesXs
  <2>2. CASE k \notin {"break", "continue"}
    BY <1>1, <1>d, <2>2, SimpleEnds, ModesXs
  <2>3. QED
    BY <2>1, <2>2
<1>2. CASE k = "if"
  <2>1. "always" \notin cl.body.ir["ends"] \/ "always" \notin cl.else.ir["ends"]
    BY <1>2, <1>d
  <2>2. cl.body.run["plain"]["ok"] \subseteq R /\ cl.else.run["plain"]["ok"] \subseteq R
    BY <1>0, <1>2, <1>a, IfEnds, ModesXs
  <2>3. QED
    BY <1>b, <1>c, <2>1, <2>2
<1>3. CASE k \in {"while", "for"}
  <2>1. cl.else = PyEmpty
    BY <1>3, <1>a, <1>c DEF Formed, Written
  <2>2. R = RunLoop(t, cl, "plain", "ok")
    BY <1>3 DEF Run, Simple
  <2>3. cl.else.run["plain"]["ok"] \subseteq RunLoop(t, cl, "plain", "ok")
    BY <1>0, <1>3, <1>a, LoopEnds, ModesXs
  <2>4. QED
    BY <2>1, <2>2, <2>3, EmptyFields
<1>4. CASE k = "with"
  <2>1. cl.body.run["plain"]["ok"] \subseteq R
    BY <1>0, <1>4, WithEnds, ModesXs
  <2>2. QED
    BY <1>4, <1>b, <1>c, <1>d, <2>1
<1>5. CASE k = "try"
  <2> DEFINE tried == RunTried(cl, "plain", "ok")
  <2>0. <<"raise", "ok">> \in cl.body.run["plain"]["ok"]
    BY <1>5 DEF Formed, Raises
  <2>1. R = RunTry(cl, "plain", "ok")
    BY <1>5 DEF Run, Simple
  <2>2. \A o \in Outcomes, z \in Xs :
          /\ o # "next" /\ <<o, z>> \in cl.body.run["plain"]["ok"] => <<o, z>> \in tried
          /\ \A w \in Xs : <<"next", w>> \in cl.body.run["plain"]["ok"] /\ <<o, z>> \in cl.else.run["plain"][w]
               => <<o, z>> \in tried
          /\ \A h \in cl.except, w \in Xs :
               <<"raise", w>> \in cl.body.run["plain"]["ok"] /\ <<o, z>> \in h.run["plain"][w]
               => <<o, z>> \in tried
    BY <1>0, TriedEnds, ModesXs
  <2>3. \E o \in {"next", "break", "continue"} : <<o, "ok">> \in tried
    <3>1. CASE \E h \in cl.except : "always" \notin h.ir["ends"]
      <4>1. PICK h \in cl.except : "always" \notin h.ir["ends"]
        BY <3>1
      <4>2. PICK o \in {"next", "break", "continue"} : <<o, "ok">> \in h.run["plain"]["ok"]
        BY <1>b, <1>c, <4>1
      <4>3. QED
        BY <1>0, <2>0, <2>2, <4>2, ModesXs
    <3>2. CASE "always" \notin cl.body.ir["ends"] /\ "always" \notin cl.else.ir["ends"]
      <4>1. PICK o \in {"next", "break", "continue"} : <<o, "ok">> \in cl.body.run["plain"]["ok"]
        BY <1>b, <1>c, <3>2
      <4>2. PICK p \in {"next", "break", "continue"} : <<p, "ok">> \in cl.else.run["plain"]["ok"]
        BY <1>b, <1>c, <3>2
      <4>3. CASE o = "next"
        BY <1>0, <2>2, <4>1, <4>2, <4>3, ModesXs
      <4>4. CASE o # "next"
        BY <1>0, <2>2, <4>1, <4>4, ModesXs
      <4>5. QED
        BY <4>3, <4>4
    <3>3. QED
      BY <1>5, <1>a, <1>d, <3>1, <3>2
  <2>4. PICK p \in {"next", "break", "continue"} : <<p, "ok">> \in tried
    BY <2>3
  <2>5. PICK o \in {"next", "break", "continue"} : <<o, "ok">> \in cl.finally.run["plain"]["ok"]
    BY <1>5, <1>b, <1>c, <1>d
  <2>6. \A q \in Outcomes, y \in Xs, r \in Outcomes, z \in Xs :
          /\ <<r, z>> \in tried
          /\ \/ q # "next" /\ <<q, y>> \in cl.finally.run["plain"][z]
             \/ q = r /\ <<"next", y>> \in cl.finally.run["plain"][z]
          => <<q, y>> \in RunTry(cl, "plain", "ok")
    BY <1>0, TryEnds, ModesXs
  <2> HIDE DEF tried
  <2>7. CASE o = "next"
    BY <1>0, <2>1, <2>4, <2>5, <2>6, <2>7, ModesXs
  <2>8. CASE o # "next"
    BY <1>0, <2>1, <2>4, <2>5, <2>6, <2>8, ModesXs
  <2>9. QED
    BY <2>7, <2>8
<1>6. QED
  BY <1>a, <1>1, <1>2, <1>3, <1>4, <1>5 DEF PyKinds

LEMMA ThenMissReal ==
  ASSUME NEW b, NEW s, MissReal(b), MissReal(s)
  PROVE  MissReal(PyThen(b, s))
<1> DEFINE S == PyThen(b, s)
           R == RunOn(b, s, "plain", "ok")
<1> SUFFICES ASSUME "always" \notin b.ir["ends"] \cup s.ir["ends"], \A h \in S.within : ~D24Limits(h)
             PROVE  \E o \in {"next", "break", "continue"} : <<o, "ok">> \in R
  <2>1. S.run["plain"]["ok"] = R /\ S.ir["ends"] = b.ir["ends"] \cup s.ir["ends"]
    BY ThenAt
  <2>2. QED
    BY <2>1 DEF MissReal, Passes
<1>1. S.within = b.within \cup s.within
  BY ThenFields
<1>2. PICK o \in {"next", "break", "continue"} : <<o, "ok">> \in b.run["plain"]["ok"]
  BY <1>1 DEF MissReal, Passes
<1>3. PICK p \in {"next", "break", "continue"} : <<p, "ok">> \in s.run["plain"]["ok"]
  BY <1>1 DEF MissReal, Passes
<1>4. CASE o = "next"
  <2>1. <<p, "ok">> \in R
    BY <1>2, <1>3, <1>4, RunOnEnds, ModesXs
  <2>2. QED
    BY <2>1
<1>5. CASE o # "next"
  <2>1. <<o, "ok">> \in R
    BY <1>2, <1>5, RunOnEnds
  <2>2. QED
    BY <2>1
<1>6. QED
  BY <1>4, <1>5

-----------------------------------------------------------------------------
(* With which values of x the clauses of a statement are run.              *)

(* An if.                                                                  *)
LEMMA IfFrom ==
  ASSUME NEW t, NEW cl, NEW v \in Modes, NEW x \in Xs, NEW o, NEW y,
         <<o, y>> \in Run("if", t, cl, v, x)
  PROVE  \/ t \in Walrus /\ o = "raise"
         \/ \E z \in Xs :
              /\ <<o, y>> \in cl.body.run[v][z]
              /\ t \notin Walrus => z = x
              /\ t \in {"some", "wsome"} => z = "ok"
         \/ \E z \in Xs :
              /\ <<o, y>> \in cl.else.run[v][z]
              /\ t \notin Walrus => z = x
              /\ t \in {"none", "wnone"} => z = "ok"
<1> DEFINE bs == From(cl.body, v, Holds(t, Tested(t, {x})))
           es == From(cl.else, v, Fails(t, Tested(t, {x})))
<1>1. Run("if", t, cl, v, x) = Faults(t, x) \cup bs \cup es
  BY DEF Run, Simple
<1>2. CASE <<o, y>> \in Faults(t, x)
  BY <1>2 DEF Faults, Walrus
<1>3. CASE <<o, y>> \in bs
  <2>1. PICK z \in Holds(t, Tested(t, {x})) : <<o, y>> \in cl.body.run[v][z]
    BY <1>3 DEF From
  <2>2. z \in Xs /\ (t \notin Walrus => z = x) /\ (t \in {"some", "wsome"} => z = "ok")
    BY DEF Holds, Tested, Walrus
  <2>3. QED
    BY <2>1, <2>2
<1>4. CASE <<o, y>> \in es
  <2>1. PICK z \in Fails(t, Tested(t, {x})) : <<o, y>> \in cl.else.run[v][z]
    BY <1>4 DEF From
  <2>2. z \in Xs /\ (t \notin Walrus => z = x) /\ (t \in {"none", "wnone"} => z = "ok")
    BY DEF Fails, Tested, Walrus
  <2>3. QED
    BY <2>1, <2>2
<1>5. QED
  BY <1>1, <1>2, <1>3, <1>4

(* A loop that starts with a value and whose body keeps it.                *)
LEMMA LoopFromOk ==
  ASSUME NEW t, t \notin Walrus, NEW cl, PyClauses(cl), NEW v \in Modes,
         \A o \in {"next", "continue"} : <<o, "none">> \notin cl.body.run[v]["ok"],
         NEW o \in Outcomes, NEW y \in Xs, <<o, y>> \in RunLoop(t, cl, v, "ok")
  PROVE  \/ o \notin Passing /\ <<o, y>> \in cl.body.run[v]["ok"]
         \/ o = "next" /\ <<"break", y>> \in cl.body.run[v]["ok"]
         \/ <<o, y>> \in cl.else.run[v]["ok"]
<1> DEFINE Enter(X) == From(cl.body, v, Holds(t, Tested(t, X)))
           Again(X) == X \cup After(Enter(X), "next") \cup After(Enter(X), "continue")
           heads == Again(Again({"ok"}))
           rs == Enter(heads)
           fs == From(cl.else, v, Fails(t, Tested(t, heads)))
<1>1. RunLoop(t, cl, v, "ok") =
        Faults(t, "ok") \cup {r \in rs : r[1] \notin {"next", "continue", "break"}}
          \cup ({"next"} \X After(rs, "break")) \cup fs
  BY DEF RunLoop
<1>2. Holds(t, Tested(t, {"ok"})) = {"ok"} /\ Fails(t, Tested(t, {"ok"})) \subseteq {"ok"}
  BY DEF Holds, Fails, Tested, Walrus
<1>3. From(cl.body, v, {"ok"}) = cl.body.run[v]["ok"]
  BY DEF From
<1>4. Enter({"ok"}) = cl.body.run[v]["ok"]
  BY <1>2, <1>3
<1>5. After(Enter({"ok"}), "next") \subseteq {"ok"} /\ After(Enter({"ok"}), "continue") \subseteq {"ok"}
  BY <1>4 DEF After, Xs
<1>6. Again({"ok"}) = {"ok"}
  BY <1>5
<1>7. heads = {"ok"}
  BY <1>6
<1>8. rs = cl.body.run[v]["ok"]
  BY <1>4, <1>7
<1>9. \A r \in fs : r \in cl.else.run[v]["ok"]
  BY <1>2, <1>7 DEF From
<1>10. Faults(t, "ok") = {}
  BY DEF Faults, Walrus
<1> HIDE DEF heads, rs, fs, Enter, Again
<1>11. <<o, y>> \in {"next"} \X After(rs, "break") => o = "next" /\ <<"break", y>> \in rs
  BY DEF After
<1>12. QED
  BY <1>1, <1>8, <1>9, <1>10, <1>11 DEF Passing

(* A with.                                                                 *)
LEMMA WithFrom ==
  ASSUME NEW t, NEW cl, PyClauses(cl), NEW v \in Modes, NEW x \in Xs, NEW o, NEW y,
         <<o, y>> \in Run("with", t, cl, v, x)
  PROVE  \/ <<o, y>> \in cl.body.run[v][x]
         \/ o = "next" /\ <<"raise", y>> \in cl.body.run[v][x]
<1>1. Run("with", t, cl, v, x) =
        cl.body.run[v][x]
          \cup IF v = "suppressing" THEN {"next"} \X After(cl.body.run[v][x], "raise") ELSE {}
  BY DEF Run, Simple
<1>2. <<o, y>> \in {"next"} \X After(cl.body.run[v][x], "raise")
        => o = "next" /\ <<"raise", y>> \in cl.body.run[v][x]
  BY DEF After
<1>3. QED
  BY <1>1, <1>2

(* A match.                                                                *)
LEMMA MatchFrom ==
  ASSUME NEW t, NEW cl, NEW v \in Modes, NEW x \in Xs, NEW o, NEW y,
         <<o, y>> \in Run("match", t, cl, v, x)
  PROVE  (o = "next" /\ y = x) \/ \E a \in cl.case : <<o, y>> \in a.run[v][x]
<1>1. Run("match", t, cl, v, x) = RunMatch(t, cl, v, x)
  BY DEF Run, Simple
<1>2. QED
  BY <1>1 DEF RunMatch

(* What comes to the finally of a try.                                     *)
Comes(cl, v, x, p, z) ==
  \/ <<p, z>> \in cl.body.run[v][x]
  \/ \E w \in Xs : <<"next", w>> \in cl.body.run[v][x] /\ <<p, z>> \in cl.else.run[v][w]
  \/ \E h \in cl.except, w \in Xs :
       <<"raise", w>> \in cl.body.run[v][x] /\ <<p, z>> \in h.run[v][w]

(* A try.                                                                  *)
LEMMA TryFrom ==
  ASSUME NEW cl, PyClauses(cl), NEW v \in Modes, NEW x \in Xs, NEW o \in Outcomes, NEW y \in Xs,
         <<o, y>> \in RunTry(cl, v, x)
  PROVE  \E p \in Outcomes, z \in Xs :
           /\ Comes(cl, v, x, p, z)
           /\ <<o, y>> \in cl.finally.run[v][z] \/ (o = p /\ <<"next", y>> \in cl.finally.run[v][z])
<1>1. PICK p \in Outcomes, z \in Xs :
        /\ <<p, z>> \in RunTried(cl, v, x)
        /\ \/ o # "next" /\ <<o, y>> \in cl.finally.run[v][z]
           \/ o = p /\ <<"next", y>> \in cl.finally.run[v][z]
  BY TryEnds
<1>2. Comes(cl, v, x, p, z)
  BY <1>1, TriedEnds DEF Comes
<1>3. QED
  BY <1>1, <1>2

LEMMA RunOfSimple ==
  ASSUME NEW k \in Simple, NEW t, NEW cl, NEW v, NEW x
  PROVE  Run(k, t, cl, v, x) = RunSimple(k, x)
BY DEF Run, Simple

(* What is within a statement and within a block that goes on, for p()     *)
(* and for the reads of x.                                                 *)
LEMMA StatementWithin ==
  ASSUME NEW k, NEW t, NEW cl
  PROVE  LET S == PyStatement(k, t, cl) IN
         /\ TakesOptional(S) <=>
              k \in {"call", "p"} \/ t \in Walrus \/ \E b \in Parts(cl) : TakesOptional(b)
         /\ NameLoads(S) <=> Loads(k, t) \/ \E b \in Parts(cl) : NameLoads(b)
<1> DEFINE S == PyStatement(k, t, cl)
<1>1. \A h : h \in S.within <=> h = Heading(k, t, cl) \/ \E b \in Parts(cl) : h \in b.within
  BY StatementFields DEF Within
<1>2. Heading(k, t, cl).k = k /\ Heading(k, t, cl).t = t
  BY DEF Heading
<1> HIDE DEF S
<1>3. QED
  BY <1>1, <1>2 DEF TakesOptional, NameLoads, Has, S

LEMMA ThenWithin ==
  ASSUME NEW b, NEW s
  PROVE  LET S == PyThen(b, s) IN
         /\ TakesOptional(S) <=> TakesOptional(b) \/ TakesOptional(s)
         /\ NameLoads(S) <=> NameLoads(b) \/ NameLoads(s)
<1>1. PyThen(b, s).within = b.within \cup s.within
  BY ThenFields
<1>2. QED
  BY <1>1 DEF TakesOptional, NameLoads, Has

LEMMA NarrowFields ==
  ASSUME NEW k, NEW t, NEW cl
  PROVE  LET n == PyStatement(k, t, cl).narrow IN
         /\ n.straight <=> k \in {"pass", "exit"}
         /\ n.ends = EndsOf(k)
         /\ n.sets <=> k \in {"call", "default", "literal"}
         /\ n.binding <=> k = "call"
         /\ n.guard = Guards(k, t, cl)
         /\ n.kept <=> KeepsNone(k, t, cl)
         /\ n.alone <=> BodyAlone(k, t, cl) \/ \E b \in {cl.else} \cup cl.case : b.narrow.alone
         /\ ~n.looped
<1>1. PyStatement(k, t, cl).narrow = Narrow(k, t, cl)
  BY DEF PyStatement
<1> DEFINE n == Narrow(k, t, cl)
<1>2. n.straight <=> k \in {"pass", "exit"}
  BY DEF Narrow
<1>3. n.ends = EndsOf(k) /\ n.guard = Guards(k, t, cl)
  BY DEF Narrow
<1>4. n.sets <=> k \in {"call", "default", "literal"}
  BY DEF Narrow
<1>5. n.binding <=> k = "call"
  BY DEF Narrow
<1>6. n.kept <=> KeepsNone(k, t, cl)
  BY DEF Narrow
<1>7. n.alone <=> BodyAlone(k, t, cl) \/ \E b \in {cl.else} \cup cl.case : b.narrow.alone
  BY DEF Narrow
<1>8. ~n.looped
  BY DEF Narrow
<1> HIDE DEF n
<1>9. QED
  BY <1>1, <1>2, <1>3, <1>4, <1>5, <1>6, <1>7, <1>8 DEF n

(* Where D11 is silent about a statement, it is about its clauses.         *)
LEMMA SilentStatement ==
  ASSUME NEW k, NEW t, NEW cl, Silent(PyStatement(k, t, cl))
  PROVE  /\ k \notin {"p", "late()"}
         /\ \A b \in Parts(cl) : Silent(b) /\ ~b.narrow.binding
         /\ cl.body.narrow.looped => k \in {"for", "while"}
         /\ ~cl.else.narrow.looped /\ \A a \in cl.case : ~a.narrow.looped
         /\ t \in Walrus => WalrusGuards(k, t, cl)
         /\ k \in {"with", "try", "try*"} => \A b \in Parts(cl) : ~TakesOptional(b)
         /\ ~ReadOutside(k, t, cl)
<1>1. ~KeepsNone(k, t, cl) /\ ~Has(PyStatement(k, t, cl), {"late()"})
  BY NarrowFields DEF Silent
<1>2. k # "late()" /\ \A b \in Parts(cl) : ~Has(b, {"late()"})
  BY <1>1, WithinStatement
<1>3. QED
  BY <1>1, <1>2 DEF KeepsNone, Sensitive, Silent

LEMMA StatementCleanStays ==
  ASSUME NEW k \in PyKinds, NEW t, NEW cl, PyClauses(cl), \A b \in Parts(cl) : CleanStays(b)
  PROVE  CleanStays(PyStatement(k, t, cl))
<1> DEFINE S == PyStatement(k, t, cl)
<1>s. \A v \in Modes : S.run[v]["ok"] = Run(k, t, cl, v, "ok")
  BY StatementFields, ModesXs
<1> HIDE DEF S
<1> SUFFICES ASSUME ~TakesOptional(S), NEW v \in Modes, NEW o \in Outcomes,
                    NEW y \in Xs, <<o, y>> \in Run(k, t, cl, v, "ok")
             PROVE  o # "leak" /\ y = "ok"
  BY <1>s DEF CleanStays, S
<1>0. k \notin {"call", "p"} /\ t \notin Walrus /\ \A b \in Parts(cl) : ~TakesOptional(b)
  BY StatementWithin DEF S
<1>a. \A b \in Parts(cl), p \in Outcomes, z \in Xs : <<p, z>> \in b.run[v]["ok"] => p # "leak" /\ z = "ok"
  BY <1>0 DEF CleanStays
<1>b. /\ {cl.body, cl.else, cl.finally} \subseteq Parts(cl)
      /\ cl.case \subseteq Parts(cl) /\ cl.except \subseteq Parts(cl)
      /\ "ok" \in Xs /\ "raise" \in Outcomes /\ "next" \in Outcomes /\ "break" \in Outcomes
  BY PartsTyped DEF Xs, Outcomes
<1>1. CASE k \in Simple
  <2>1. <<o, y>> \in RunSimple(k, "ok")
    BY <1>1, RunOfSimple
  <2>2. QED
    BY <1>0, <1>1, <2>1 DEF RunSimple, Simple
<1>2. CASE k = "if"
  <2>1. \/ \E z \in Xs : <<o, y>> \in cl.body.run[v][z] /\ z = "ok"
        \/ \E z \in Xs : <<o, y>> \in cl.else.run[v][z] /\ z = "ok"
    BY <1>0, <1>2, <1>b, IfFrom
  <2>2. QED
    BY <1>a, <1>b, <2>1
<1>3. CASE k \in {"while", "for"}
  <2>1. <<o, y>> \in RunLoop(t, cl, v, "ok")
    BY <1>3 DEF Run, Simple
  <2>2. \A p \in {"next", "continue"} : <<p, "none">> \notin cl.body.run[v]["ok"]
    BY <1>a, <1>b DEF Outcomes, Xs
  <2>3. \/ <<o, y>> \in cl.body.run[v]["ok"]
        \/ o = "next" /\ <<"break", y>> \in cl.body.run[v]["ok"]
        \/ <<o, y>> \in cl.else.run[v]["ok"]
    BY <1>0, <2>1, <2>2, LoopFromOk
  <2>4. QED
    BY <1>a, <1>b, <2>3
<1>4. CASE k = "with"
  BY <1>4, <1>a, <1>b, WithFrom
<1>5. CASE k \in {"try", "try*"}
  <2>1. <<o, y>> \in RunTry(cl, v, "ok")
    BY <1>5 DEF Run, Simple
  <2>2. PICK p \in Outcomes, z \in Xs :
          /\ Comes(cl, v, "ok", p, z)
          /\ <<o, y>> \in cl.finally.run[v][z] \/ (o = p /\ <<"next", y>> \in cl.finally.run[v][z])
    BY <1>b, <2>1, TryFrom
  <2>3. p # "leak" /\ z = "ok"
    <3>1. \A w \in Xs : <<"next", w>> \in cl.body.run[v]["ok"] \/ <<"raise", w>> \in cl.body.run[v]["ok"] => w = "ok"
      BY <1>a, <1>b
    <3>2. QED
      BY <1>a, <1>b, <2>2, <3>1 DEF Comes
  <2>4. QED
    BY <1>a, <1>b, <2>2, <2>3
<1>6. CASE k = "match"
  <2>1. (o = "next" /\ y = "ok") \/ \E a \in cl.case : <<o, y>> \in a.run[v]["ok"]
    BY <1>6, <1>b, MatchFrom
  <2>2. QED
    BY <1>a, <1>b, <2>1
<1>7. QED
  BY <1>1, <1>2, <1>3, <1>4, <1>5, <1>6 DEF PyKinds

(* A leak comes from a clause, if it is not the statement.                 *)
LEMMA LeakOrigins ==
  ASSUME NEW k \in PyKinds, NEW t, NEW cl, PyClauses(cl), NEW v \in Modes, NEW x \in Xs,
         NEW o \in Outcomes, o = "leak", NEW y \in Xs, <<o, y>> \in Run(k, t, cl, v, x)
  PROVE  \/ k = "p" \/ (k \in {"x", "late()"} /\ x = "none")
         \/ \E b \in Parts(cl), z \in Xs : Leaks(b, v, z)
<1>0. o \notin {"raise", "next"} /\ {cl.body, cl.else, cl.finally} \cup cl.case \cup cl.except \subseteq Parts(cl)
  BY PartsTyped
<1>1. CASE k \in Simple
  <2>1. <<o, y>> \in RunSimple(k, x)
    BY <1>1, RunOfSimple
  <2>2. QED
    BY <1>1, <2>1 DEF RunSimple, Simple
<1>2. CASE k = "if"
  <2>1. <<o, y>> \in Run("if", t, cl, v, x)
    BY <1>2
  <2>2. \/ o = "raise"
        \/ \E z \in Xs : <<o, y>> \in cl.body.run[v][z]
        \/ \E z \in Xs : <<o, y>> \in cl.else.run[v][z]
    <3>1. \/ t \in Walrus /\ o = "raise"
          \/ \E z \in Xs :
               /\ <<o, y>> \in cl.body.run[v][z]
               /\ t \notin Walrus => z = x
               /\ t \in {"some", "wsome"} => z = "ok"
          \/ \E z \in Xs :
               /\ <<o, y>> \in cl.else.run[v][z]
               /\ t \notin Walrus => z = x
               /\ t \in {"none", "wnone"} => z = "ok"
      BY <2>1, IfFrom
    <3> QED
      BY <3>1
  <2>3. QED
    BY <1>0, <2>2 DEF Leaks
<1>3. CASE k \in {"while", "for"}
  <2>1. <<o, y>> \in RunLoop(t, cl, v, x)
    BY <1>3 DEF Run, Simple
  <2>2. \/ \E z \in Xs : <<o, y>> \in cl.body.run[v][z]
        \/ \E z \in Xs : <<o, y>> \in cl.else.run[v][z]
    BY <1>0, <2>1, LoopEnds
  <2>3. QED
    BY <1>0, <2>2 DEF Leaks
<1>4. CASE k = "with"
  <2>1. <<o, y>> \in cl.body.run[v][x]
    BY <1>0, <1>4, WithFrom
  <2>2. QED
    BY <1>0, <2>1 DEF Leaks
<1>5. CASE k \in {"try", "try*"}
  <2>1. <<o, y>> \in RunTry(cl, v, x)
    BY <1>5 DEF Run, Simple
  <2>2. PICK p \in Outcomes, z \in Xs :
          /\ Comes(cl, v, x, p, z)
          /\ <<o, y>> \in cl.finally.run[v][z] \/ (o = p /\ <<"next", y>> \in cl.finally.run[v][z])
    BY <2>1, TryFrom
  <2>3. CASE <<o, y>> \in cl.finally.run[v][z]
    BY <1>0, <2>3 DEF Leaks
  <2>4. CASE o = p
    BY <1>0, <2>2, <2>4 DEF Leaks, Comes
  <2>5. QED
    BY <2>2, <2>3, <2>4
<1>6. CASE k = "match"
  <2>1. \E a \in cl.case : <<o, y>> \in a.run[v][x]
    BY <1>0, <1>6, MatchFrom
  <2>2. QED
    BY <1>0, <2>1 DEF Leaks
<1>7. QED
  BY <1>1, <1>2, <1>3, <1>4, <1>5, <1>6 DEF PyKinds

LEMMA StatementUnreadSafe ==
  ASSUME NEW k \in PyKinds, NEW t, NEW cl, PyClauses(cl), \A b \in Parts(cl) : UnreadSafe(b)
  PROVE  UnreadSafe(PyStatement(k, t, cl))
<1> DEFINE S == PyStatement(k, t, cl)
<1>s. \A v \in Modes, x \in Xs : S.run[v][x] = Run(k, t, cl, v, x)
  BY StatementFields
<1> HIDE DEF S
<1> SUFFICES ASSUME ~NameLoads(S), ~Has(S, {"late()", "p"}), NEW v \in Modes, NEW x \in Xs, NEW y \in Xs,
                    <<"leak", y>> \in Run(k, t, cl, v, x)
             PROVE  FALSE
  BY <1>s DEF UnreadSafe, Leaks, S
<1>0. "leak" \in Outcomes
  BY DEF Outcomes
<1>1. k \notin {"p", "late()", "x"}
  BY WithinStatement, StatementWithin DEF Loads, S
<1>2. \A b \in Parts(cl) : ~NameLoads(b) /\ ~Has(b, {"late()", "p"})
  BY WithinStatement, StatementWithin DEF S
<1>3. \A b \in Parts(cl), z \in Xs : ~Leaks(b, v, z)
  BY <1>2 DEF UnreadSafe
<1>4. QED
  BY <1>0, <1>1, <1>3, LeakOrigins

LEMMA StatementKeepsTake ==
  ASSUME NEW k, NEW t, NEW cl, \A b \in Parts(cl) : KeepsTake(b)
  PROVE  KeepsTake(PyStatement(k, t, cl))
<1> DEFINE S == PyStatement(k, t, cl)
<1>1. Has(S, {"p"}) => S.narrow.kept
  <2>1. ASSUME Has(S, {"p"})
        PROVE  KeepsNone(k, t, cl)
    <3>1. k = "p" \/ \E b \in Parts(cl) : Has(b, {"p"})
      BY <2>1, WithinStatement
    <3>2. QED
      BY <3>1 DEF KeepsNone, KeepsTake
  <2>2. QED
    BY <2>1, NarrowFields
<1>2. S.narrow.binding \/ S.narrow.alone \/ S.narrow.looped => TakesOptional(S)
  <2>1. S.narrow.binding => k = "call"
    BY NarrowFields
  <2>2. ~S.narrow.looped
    BY NarrowFields
  <2>3. S.narrow.alone => t \in Walrus \/ \E b \in Parts(cl) : TakesOptional(b)
    <3>1. S.narrow.alone => BodyAlone(k, t, cl) \/ \E b \in {cl.else} \cup cl.case : b.narrow.alone
      BY NarrowFields
    <3>2. {cl.body, cl.else} \cup cl.case \subseteq Parts(cl)
      BY DEF Parts
    <3>3. BodyAlone(k, t, cl) => cl.body.narrow.alone \/ cl.body.narrow.looped \/ t \in Walrus
      BY DEF BodyAlone, Walrus
    <3>4. \A b \in Parts(cl) : b.narrow.alone \/ b.narrow.looped => TakesOptional(b)
      BY DEF KeepsTake
    <3>5. QED
      BY <3>1, <3>2, <3>3, <3>4
  <2>4. QED
    BY <2>1, <2>2, <2>3, StatementWithin
<1>3. QED
  BY <1>1, <1>2 DEF KeepsTake

(* A straight statement, one that leaves and one that rebinds x.           *)
LEMMA StatementLeaves ==
  ASSUME NEW k \in PyKinds, NEW t, NEW cl
  PROVE  LET S == PyStatement(k, t, cl) IN
         StraightOn(S) /\ PathEnds(S) /\ LoopExits(S) /\ RebindsSound(S)
<1> DEFINE S == PyStatement(k, t, cl)
<1>1. \A v \in Modes, x \in Xs : S.run[v][x] = Run(k, t, cl, v, x)
  BY StatementFields
<1>2. k \in Simple => \A v \in Modes, x \in Xs : S.run[v][x] = RunSimple(k, x)
  BY <1>1, RunOfSimple
<1>3. StraightOn(S)
  <2>1. ASSUME S.narrow.straight
        PROVE  k \in {"pass", "exit"} /\ k \in Simple
    BY <2>1, NarrowFields DEF Simple
  <2>2. \A x \in Xs, o \in Outcomes, y \in Xs :
          k \in {"pass", "exit"} /\ <<o, y>> \in RunSimple(k, x) => o \in {"next", "raise"} /\ y = x
    BY DEF RunSimple
  <2>3. QED
    BY <1>2, <2>1, <2>2 DEF StraightOn
<1>4. PathEnds(S)
  <2>1. ASSUME S.narrow.ends = "path", Silent(S)
        PROVE  k \in {"value", "none", "equals", "raise", "exit"} /\ k \in Simple
    <3>1. k \notin {"p", "late()"} /\ EndsOf(k) = "path"
      BY <2>1, SilentStatement, NarrowFields
    <3>2. QED
      BY <3>1 DEF EndsOf, Returns, Exits, Simple
  <2>2. k \in {"value", "none", "equals", "raise", "exit"} =>
          \A x \in Xs, o \in Outcomes, y \in Xs :
            <<o, y>> \in RunSimple(k, x) => o \notin Passing \cup {"leak"}
    BY DEF RunSimple, Passing
  <2>3. QED
    BY <1>2, <2>1, <2>2 DEF PathEnds
<1>5. LoopExits(S)
  <2>1. ASSUME S.narrow.ends = "loop"
        PROVE  k \in {"break", "continue"} /\ k \in Simple
    BY <2>1, NarrowFields DEF EndsOf, Simple
  <2>2. QED
    BY <1>2, <2>1 DEF LoopExits, RunSimple
<1>6. RebindsSound(S)
  <2>1. ASSUME Rebinds(S)
        PROVE  k = "literal" /\ k \in Simple
    <3>1. k \in {"call", "default", "literal"} /\ k \notin {"call", "default", "other"}
      BY <2>1, NarrowFields, WithinStatement DEF Rebinds
    <3>2. QED
      BY <3>1 DEF Simple
  <2>2. QED
    BY <1>2, <2>1 DEF RebindsSound, RunSimple, Passing
<1>7. QED
  BY <1>3, <1>4, <1>5, <1>6

(* A guard is one, from the None of the call before it.                    *)
LEMMA StatementGuardSafe ==
  ASSUME NEW k, NEW t, NEW cl, \A b \in Parts(cl) : NarrowSound(b)
  PROVE  GuardSafe(PyStatement(k, t, cl))
<1> DEFINE S == PyStatement(k, t, cl)
           g == Guards(k, t, cl)
<1> SUFFICES ASSUME Silent(S), g # "no", NEW v \in Modes, NEW o \in Outcomes, NEW y \in Xs,
                    <<o, y>> \in Run(k, t, cl, v, "none")
             PROVE  Handles(g, o, y)
  <2>1. \A v \in Modes : S.run[v]["none"] = Run(k, t, cl, v, "none")
    BY StatementFields, ModesXs
  <2>2. S.narrow.guard = g
    BY NarrowFields
  <2> HIDE DEF S, g
  <2>3. QED
    BY <2>1, <2>2 DEF GuardSafe, S, g
<1>1. k = "if" /\ t \in {"none", "some"}
  BY DEF Guards
<1>2. /\ cl.body \in Parts(cl) /\ cl.else \in Parts(cl)
      /\ Silent(cl.body) /\ Silent(cl.else)
  BY SilentStatement DEF Parts
<1>a. "none" \in Xs
  BY ModesXs
<1>3. CASE t = "none"
  <2>1. <<o, y>> \in cl.body.run[v]["none"]
    <3>1. <<o, y>> \in Run("if", t, cl, v, "none")
      BY <1>1
    <3>2. t \notin Walrus
      BY <1>3 DEF Walrus
    <3>3. QED
      BY <1>3, <1>a, <3>1, <3>2, IfFrom
  <2>2. \/ g = "always" /\ (cl.body.narrow.ends = "path" \/ Rebinds(cl.body))
        \/ g = "in loop" /\ cl.body.narrow.ends = "loop"
    BY <1>1, <1>3 DEF Guards
  <2>b. PathEnds(cl.body) /\ RebindsSound(cl.body) /\ LoopExits(cl.body)
    BY <1>2 DEF NarrowSound
  <2>3. CASE g = "always" /\ cl.body.narrow.ends = "path"
    BY <1>2, <1>a, <2>1, <2>3, <2>b DEF PathEnds, Handles
  <2>4. CASE g = "always" /\ Rebinds(cl.body)
    BY <1>2, <1>a, <2>1, <2>4, <2>b DEF RebindsSound, Handles
  <2>5. CASE g = "in loop" /\ cl.body.narrow.ends = "loop"
    BY <1>a, <2>1, <2>5, <2>b DEF LoopExits, Handles
  <2>6. QED
    BY <2>2, <2>3, <2>4, <2>5
<1>4. CASE t = "some"
  <2>1. <<o, y>> \in cl.else.run[v]["none"]
    <3>1. <<o, y>> \in Run("if", t, cl, v, "none")
      BY <1>1
    <3>2. t \notin Walrus /\ "none" # "ok"
      BY <1>4 DEF Walrus
    <3>3. QED
      BY <1>4, <1>a, <3>1, <3>2, IfFrom
  <2>2. g = "alone" /\ ~NameLoads(cl.else)
    BY <1>1, <1>4 DEF Guards
  <2>3. ~Has(cl.else, {"late()", "p"})
    BY <1>2 DEF NarrowSound, KeepsTake, Silent, Has
  <2>4. ~Leaks(cl.else, v, "none")
    BY <1>2, <1>a, <2>2, <2>3 DEF NarrowSound, UnreadSafe
  <2>5. QED
    BY <2>1, <2>2, <2>4 DEF Leaks, Handles
<1>5. QED
  BY <1>1, <1>3, <1>4

(* The clauses of a statement D11 is silent about.                         *)
LEMMA SilentParts ==
  ASSUME NEW k, NEW t, NEW cl, Silent(PyStatement(k, t, cl)), \A b \in Parts(cl) : NarrowSound(b),
         NEW b \in Parts(cl), NEW v \in Modes
  PROVE  /\ \A o \in Outcomes, y \in Xs :
              <<o, y>> \in b.run[v]["ok"] =>
                o # "leak" /\ (o \in Passing /\ y = "none" =>
                                 b.narrow.alone \/ (o # "next" /\ b.narrow.looped))
         /\ ~NameLoads(b) \/ b.narrow.alone \/ b.narrow.looped => \A x \in Xs : ~Leaks(b, v, x)
<1>1. Silent(b) /\ ~b.narrow.binding /\ NarrowSound(b)
  BY SilentStatement
<1>2. /\ \A o \in Outcomes, y \in Xs : <<o, y>> \in b.run[v]["ok"] => Lets(b, o, y)
      /\ b.narrow.alone \/ b.narrow.looped => ~Leaks(b, v, "none")
  BY <1>1 DEF NarrowSound, SilentSafe
<1>3. ~Has(b, {"late()", "p"})
  BY <1>1 DEF NarrowSound, KeepsTake, Silent, Has
<1>4. ~NameLoads(b) => \A x \in Xs : ~Leaks(b, v, x)
  BY <1>1, <1>3 DEF NarrowSound, UnreadSafe
<1>5. ~Leaks(b, v, "ok")
  BY <1>2 DEF Leaks, Lets, Outcomes
<1>6. b.narrow.alone \/ b.narrow.looped => \A x \in Xs : ~Leaks(b, v, x)
  BY <1>2, <1>5 DEF Xs
<1>7. \A o \in Outcomes, y \in Xs :
        <<o, y>> \in b.run[v]["ok"] =>
          o # "leak" /\ (o \in Passing /\ y = "none" =>
                           b.narrow.alone \/ (o # "next" /\ b.narrow.looped))
  BY <1>1, <1>2 DEF Lets
<1>8. QED
  BY <1>4, <1>6, <1>7

(* In a statement with a guard that counts only if nothing outside it      *)
(* reads x, nothing does.                                                  *)
LEMMA SilentAlone ==
  ASSUME NEW k \in PyKinds, NEW t, NEW cl, Formed(k, cl), Silent(PyStatement(k, t, cl)),
         \A b \in Parts(cl) : NarrowSound(b), k \notin {"with", "try", "try*"},
         BodyAlone(k, t, cl) \/ \E b \in {cl.else} \cup cl.case : b.narrow.alone,
         NEW v \in Modes, NEW x \in Xs
  PROVE  ~Leaks(PyStatement(k, t, cl), v, x)
<1> DEFINE S == PyStatement(k, t, cl)
<1>s. S.run[v][x] = Run(k, t, cl, v, x)
  BY StatementFields
<1> HIDE DEF S
<1> SUFFICES ASSUME NEW o \in Outcomes, o = "leak", NEW y \in Xs, <<o, y>> \in Run(k, t, cl, v, x)
             PROVE  FALSE
  BY <1>s DEF Leaks, S, Outcomes
<1>0. o # "raise" /\ o # "next" /\ "ok" \in Xs
  BY DEF Xs
<1>p. \A b \in Parts(cl) : ~NameLoads(b) \/ b.narrow.alone \/ b.narrow.looped =>
        \A w, z \in Xs : <<o, w>> \notin b.run[v][z]
  BY SilentParts DEF Leaks
<1>q. \A b \in Parts(cl), w \in Xs : <<o, w>> \notin b.run[v]["ok"]
  BY SilentParts
<1>r. cl.body \in Parts(cl) /\ cl.else \in Parts(cl) /\ cl.case \subseteq Parts(cl)
  BY DEF Parts
<1>t. /\ ~ReadOutside(k, t, cl)
      /\ cl.body.narrow.looped => k \in {"for", "while"}
      /\ t \in Walrus => k = "if"
  BY SilentStatement DEF WalrusGuards
<1>c. PyClauses(cl)
  BY DEF Formed
<1>1. CASE k \in Simple
  <2>1. k \notin {"if", "for", "while", "with", "try", "try*", "match"}
    BY <1>1 DEF Simple
  <2>2. \A b \in Parts(cl) : b = PyEmpty
    BY <2>1 DEF Formed, Walked
  <2>3. ~PyEmpty.narrow.alone
    BY DEF PyEmpty, NarrowNothing
  <2>4. QED
    BY <1>r, <2>1, <2>2, <2>3 DEF BodyAlone
<1>2. CASE k = "match"
  <2>1. cl.body = PyEmpty /\ cl.else = PyEmpty
    BY <1>2 DEF Formed
  <2>2. ~PyEmpty.narrow.alone
    BY DEF PyEmpty, NarrowNothing
  <2>3. PICK a \in cl.case : a.narrow.alone
    BY <1>2, <2>1, <2>2 DEF BodyAlone
  <2>4. \A b \in cl.case : b = a \/ ~NameLoads(b)
    BY <1>t, <2>3 DEF ReadOutside
  <2>5. PICK b \in cl.case : <<o, y>> \in b.run[v][x]
    BY <1>0, <1>2, MatchFrom
  <2>6. QED
    BY <1>p, <1>r, <2>3, <2>4, <2>5
<1>3. ASSUME k \in {"if", "while", "for"}
      PROVE  FALSE
  <2>1. \/ \E z \in Xs : <<o, y>> \in cl.body.run[v][z] /\ (t = "wsome" /\ k = "if" => z = "ok")
        \/ \E z \in Xs : <<o, y>> \in cl.else.run[v][z]
    <3>1. CASE k = "if"
      BY <1>0, <3>1, IfFrom
    <3>2. CASE k \in {"while", "for"}
      <4>1. <<o, y>> \in RunLoop(t, cl, v, x)
        BY <3>2 DEF Run, Simple
      <4>2. \/ \E z \in Xs : <<o, y>> \in cl.body.run[v][z]
            \/ \E z \in Xs : <<o, y>> \in cl.else.run[v][z]
        BY <1>0, <1>c, <4>1, LoopEnds
      <4>3. QED
        BY <3>2, <4>2
    <3>3. QED
      BY <1>3, <3>1, <3>2
  <2>2. CASE BodyAlone(k, t, cl)
    <3>1. ~NameLoads(cl.else)
      BY <1>t, <2>2 DEF ReadOutside
    <3>2. PICK z \in Xs : <<o, y>> \in cl.body.run[v][z] /\ (t = "wsome" /\ k = "if" => z = "ok")
      BY <1>p, <1>r, <2>1, <3>1
    <3>3. ~cl.body.narrow.alone /\ ~cl.body.narrow.looped
      BY <1>p, <1>r, <3>2
    <3>4. k = "if" /\ t = "wsome"
      BY <2>2, <3>3 DEF BodyAlone
    <3>5. QED
      BY <1>q, <1>r, <3>2, <3>4
  <2>3. CASE cl.else.narrow.alone
    <3>1. ~NameLoads(cl.body)
      BY <1>t, <2>3 DEF ReadOutside
    <3>2. QED
      BY <1>p, <1>r, <2>1, <2>3, <3>1
  <2>4. cl.case = {}
    BY <1>3 DEF Formed
  <2>5. QED
    BY <2>2, <2>3, <2>4
<1>4. QED
  BY <1>1, <1>2, <1>3 DEF PyKinds

(* With a value in x, nothing that D11 is silent about leaks, and it       *)
(* passes on no None but from a call or where a guard counts alone.        *)
LEMMA SilentOk ==
  ASSUME NEW k \in PyKinds, NEW t, NEW cl, Formed(k, cl), Silent(PyStatement(k, t, cl)),
         \A b \in Parts(cl) : NarrowSound(b), k \notin {"with", "try", "try*"},
         NEW v \in Modes, NEW o \in Outcomes, NEW y \in Xs, <<o, y>> \in Run(k, t, cl, v, "ok")
  PROVE  Lets(PyStatement(k, t, cl), o, y)
<1> DEFINE S == PyStatement(k, t, cl)
           A == BodyAlone(k, t, cl) \/ \E b \in {cl.else} \cup cl.case : b.narrow.alone
<1>s. S.run[v]["ok"] = Run(k, t, cl, v, "ok")
  BY StatementFields, ModesXs
<1>n. (S.narrow.alone <=> A) /\ (S.narrow.binding <=> k = "call")
  BY NarrowFields
<1> HIDE DEF S
<1> SUFFICES o # "leak" /\ (o \in Passing /\ y = "none" => A \/ (o = "next" /\ k = "call"))
  BY <1>n DEF Lets, S
<1>a. A => o # "leak"
  <2>1. ASSUME A
        PROVE  ~Leaks(S, v, "ok")
    <3>1. "ok" \in Xs
      BY ModesXs
    <3>2. QED
      BY <2>1, <3>1, SilentAlone DEF S
  <2>2. QED
    BY <1>s, <2>1 DEF Leaks
<1>q. \A b \in Parts(cl), p \in Outcomes, w \in Xs :
        <<p, w>> \in b.run[v]["ok"] =>
          p # "leak" /\ (p \in Passing /\ w = "none" =>
                           b.narrow.alone \/ (p # "next" /\ b.narrow.looped))
  BY SilentParts
<1>r. /\ cl.body \in Parts(cl) /\ cl.else \in Parts(cl) /\ cl.case \subseteq Parts(cl)
      /\ "ok" \in Xs /\ "none" \in Xs /\ "ok" # "none"
      /\ "next" \in Outcomes /\ "break" \in Outcomes /\ "continue" \in Outcomes
  BY DEF Parts, Xs, Outcomes
<1>t. /\ cl.body.narrow.looped => k \in {"for", "while"}
      /\ ~cl.else.narrow.looped /\ \A a \in cl.case : ~a.narrow.looped
      /\ t \in Walrus => WalrusGuards(k, t, cl)
      /\ Silent(cl.body) /\ Silent(cl.else)
      /\ k \notin {"p", "late()"}
  BY <1>r, SilentStatement
<1>c. PyClauses(cl)
  BY DEF Formed
<1>e. cl.else.narrow.alone => A
  OBVIOUS
<1>b. cl.body.narrow.alone => A
  BY DEF BodyAlone
<1>u. cl.body.narrow.looped => A
  BY <1>t DEF BodyAlone
<1> HIDE DEF A
<1>1. CASE k \in Simple
  <2>1. <<o, y>> \in RunSimple(k, "ok")
    BY <1>1, RunOfSimple
  <2>2. QED
    BY <1>1, <1>t, <2>1 DEF RunSimple, Simple, Passing
<1>2. CASE k = "if"
  <2>1. \/ t \in Walrus /\ o = "raise"
        \/ \E z \in Xs :
              /\ <<o, y>> \in cl.body.run[v][z]
              /\ t \notin Walrus => z = "ok"
              /\ t \in {"some", "wsome"} => z = "ok"
        \/ \E z \in Xs :
              /\ <<o, y>> \in cl.else.run[v][z]
              /\ t \notin Walrus => z = "ok"
              /\ t \in {"none", "wnone"} => z = "ok"
    BY <1>2, <1>r, IfFrom
  <2>2. CASE o = "raise"
    BY <2>2 DEF Passing
  <2>3. CASE <<o, y>> \in cl.body.run[v]["ok"]
    BY <1>2, <1>q, <1>r, <1>t, <1>b, <2>3
  <2>4. CASE <<o, y>> \in cl.else.run[v]["ok"]
    BY <1>q, <1>r, <1>t, <1>e, <2>4
  <2>5. ASSUME t = "wnone", NEW z \in Xs, <<o, y>> \in cl.body.run[v][z]
        PROVE  o \notin Passing \cup {"leak"}
    <3>1. cl.body.narrow.ends = "path"
      BY <1>t, <2>5 DEF WalrusGuards, Walrus
    <3>2. PathEnds(cl.body)
      BY <1>r DEF NarrowSound
    <3>3. QED
      BY <1>t, <2>5, <3>1, <3>2 DEF PathEnds
  <2>6. ASSUME t = "wsome"
        PROVE  A
    BY <1>2, <2>6 DEF A, BodyAlone
  <2>7. QED
    BY <1>a, <2>1, <2>2, <2>3, <2>4, <2>5, <2>6 DEF Walrus
<1>3. CASE k \in {"while", "for"}
  <2>1. CASE A
    BY <1>a, <2>1
  <2>2. CASE ~A
    <3>1. ~cl.body.narrow.alone /\ ~cl.body.narrow.looped
      BY <1>b, <1>u, <2>2
    <3>2. t \notin Walrus
      BY <1>3, <1>t DEF WalrusGuards
    <3>3. <<o, y>> \in RunLoop(t, cl, v, "ok")
      BY <1>3 DEF Run, Simple
    <3>4. \A p \in Outcomes, w \in Xs : <<p, w>> \in cl.body.run[v]["ok"] /\ p \in Passing => w = "ok"
      BY <1>q, <1>r, <3>1 DEF Xs
    <3>5. \A p \in {"next", "continue"} : <<p, "none">> \notin cl.body.run[v]["ok"]
      BY <1>r, <3>4 DEF Passing
    <3>6. \/ o \notin Passing /\ <<o, y>> \in cl.body.run[v]["ok"]
          \/ o = "next" /\ <<"break", y>> \in cl.body.run[v]["ok"]
          \/ <<o, y>> \in cl.else.run[v]["ok"]
      BY <1>c, <3>2, <3>3, <3>5, LoopFromOk
    <3>7. CASE o \notin Passing /\ <<o, y>> \in cl.body.run[v]["ok"]
      BY <1>q, <1>r, <3>7
    <3>8. CASE o = "next" /\ <<"break", y>> \in cl.body.run[v]["ok"]
      BY <1>r, <3>4, <3>8 DEF Passing
    <3>9. CASE <<o, y>> \in cl.else.run[v]["ok"]
      BY <1>q, <1>r, <1>t, <1>e, <3>9
    <3>10. QED
      BY <3>6, <3>7, <3>8, <3>9
  <2>3. QED
    BY <2>1, <2>2
<1>4. CASE k = "match"
  <2>1. (o = "next" /\ y = "ok") \/ \E a \in cl.case : <<o, y>> \in a.run[v]["ok"]
    BY <1>4, <1>r, MatchFrom
  <2>2. CASE o = "next" /\ y = "ok"
    BY <1>r, <2>2
  <2>3. ASSUME NEW a \in cl.case, <<o, y>> \in a.run[v]["ok"]
        PROVE  o # "leak" /\ (o \in Passing /\ y = "none" => A)
    <3>1. a.narrow.alone => A
      BY DEF A
    <3>2. QED
      BY <1>q, <1>r, <1>t, <2>3, <3>1
  <2>4. QED
    BY <2>1, <2>2, <2>3
<1>5. QED
  BY <1>1, <1>2, <1>3, <1>4 DEF PyKinds

LEMMA StatementSilentSafe ==
  ASSUME NEW k \in PyKinds, NEW t, NEW cl, Formed(k, cl), \A b \in Parts(cl) : NarrowSound(b),
         CleanStays(PyStatement(k, t, cl)), KeepsTake(PyStatement(k, t, cl))
  PROVE  SilentSafe(PyStatement(k, t, cl))
<1> DEFINE S == PyStatement(k, t, cl)
<1> SUFFICES ASSUME Silent(S), NEW v \in Modes
             PROVE  /\ \A o \in Outcomes, y \in Xs : <<o, y>> \in S.run[v]["ok"] => Lets(S, o, y)
                    /\ S.narrow.alone => ~Leaks(S, v, "none")
  <2>1. ~S.narrow.looped
    BY NarrowFields
  <2> HIDE DEF S
  <2>2. QED
    BY <2>1 DEF SilentSafe, S
<1>1. CASE k \in {"with", "try", "try*"}
  <2>1. k \notin {"call", "p"} /\ t \notin Walrus /\ \A b \in Parts(cl) : ~TakesOptional(b)
    BY <1>1, SilentStatement DEF WalrusGuards
  <2>2. ~TakesOptional(S)
    BY <2>1, StatementWithin
  <2> HIDE DEF S
  <2>3. \A o \in Outcomes, y \in Xs : <<o, y>> \in S.run[v]["ok"] => o # "leak" /\ y # "none"
    BY <2>2 DEF CleanStays, S
  <2>4. ~S.narrow.alone
    BY <2>2 DEF KeepsTake, S
  <2>5. QED
    BY <2>3, <2>4 DEF Lets
<1>2. CASE k \notin {"with", "try", "try*"}
  <2>1. S.run[v]["ok"] = Run(k, t, cl, v, "ok")
    BY StatementFields, ModesXs
  <2>2. S.narrow.alone => BodyAlone(k, t, cl) \/ \E b \in {cl.else} \cup cl.case : b.narrow.alone
    BY NarrowFields
  <2>3. \A o \in Outcomes, y \in Xs : <<o, y>> \in Run(k, t, cl, v, "ok") => Lets(S, o, y)
    BY <1>2, SilentOk
  <2>4. S.narrow.alone => ~Leaks(S, v, "none")
    BY <1>2, <2>2, SilentAlone, ModesXs
  <2>5. QED
    BY <2>1, <2>3, <2>4
<1>3. QED
  BY <1>1, <1>2

(* Narrowing is sound of a statement if it is of its clauses.              *)
LEMMA StatementNarrow ==
  ASSUME NEW k \in PyKinds, NEW t, NEW cl, Formed(k, cl), \A b \in Parts(cl) : NarrowSound(b)
  PROVE  NarrowSound(PyStatement(k, t, cl)) /\ ~PyStatement(k, t, cl).narrow.looped
<1> DEFINE S == PyStatement(k, t, cl)
<1>1. PyClauses(cl)
  BY DEF Formed
<1>2. \A b \in Parts(cl) : CleanStays(b)
  BY DEF NarrowSound
<1>3. CleanStays(S)
  BY <1>1, <1>2, StatementCleanStays
<1>4. \A b \in Parts(cl) : UnreadSafe(b)
  BY DEF NarrowSound
<1>5. UnreadSafe(S)
  BY <1>1, <1>4, StatementUnreadSafe
<1>6. \A b \in Parts(cl) : KeepsTake(b)
  BY DEF NarrowSound
<1>7. KeepsTake(S)
  BY <1>6, StatementKeepsTake
<1>8. StraightOn(S) /\ PathEnds(S) /\ LoopExits(S) /\ RebindsSound(S)
  BY StatementLeaves
<1>9. SilentSafe(S)
  BY <1>3, <1>7, StatementSilentSafe
<1>10. GuardSafe(S)
  BY StatementGuardSafe
<1>11. ~S.narrow.looped
  BY NarrowFields
<1> HIDE DEF S
<1>12. QED
  BY <1>3, <1>5, <1>7, <1>8, <1>9, <1>10, <1>11 DEF NarrowSound, S

LEMMA EmptyNarrow == NarrowSound(PyEmpty)
<1> DEFINE S == PyEmpty
<1>1. /\ \A v \in Modes, x \in Xs : S.run[v][x] = {<<"next", x>>}
      /\ \A v \in Modes : S.run[v]["ok"] = {<<"next", "ok">>}
      /\ \A v \in Modes : S.run[v]["none"] = {<<"next", "none">>}
      /\ S.within = {}
  BY EmptyFields, ModesXs
<1>2. /\ ~S.narrow.sets /\ ~S.narrow.binding /\ ~S.narrow.alone /\ ~S.narrow.looped
      /\ S.narrow.ends = "no" /\ S.narrow.guard = "no"
  BY DEF PyEmpty, NarrowNothing
<1>3. \A K : ~Has(S, K)
  BY <1>1 DEF Has
<1> HIDE DEF S
<1>4. CleanStays(S)
  BY <1>1 DEF CleanStays
<1>5. UnreadSafe(S)
  <2>1. \A x \in Xs, y \in Xs : <<"leak", y>> # <<"next", x>>
    OBVIOUS
  <2>2. ASSUME NEW v \in Modes, NEW x \in Xs, NEW y \in Xs, <<"leak", y>> \in S.run[v][x]
        PROVE  FALSE
    <3>1. <<"leak", y>> \in {<<"next", x>>}
      BY <1>1, <2>2
    <3>2. QED
      BY <2>1, <3>1
  <2>3. \A v \in Modes, x \in Xs : ~Leaks(S, v, x)
    BY <2>2 DEF Leaks
  <2>4. QED
    BY <2>3 DEF UnreadSafe
<1>6. KeepsTake(S)
  BY <1>2, <1>3 DEF KeepsTake
<1>7. StraightOn(S)
  BY <1>1 DEF StraightOn
<1>8. PathEnds(S) /\ LoopExits(S) /\ RebindsSound(S) /\ GuardSafe(S)
  BY <1>2 DEF PathEnds, LoopExits, RebindsSound, Rebinds, GuardSafe
<1>9. SilentSafe(S)
  BY <1>1, <1>2 DEF SilentSafe, Lets
<1>10. QED
  BY <1>4, <1>5, <1>6, <1>7, <1>8, <1>9 DEF NarrowSound, S

LEMMA ThenNarrowFields ==
  ASSUME NEW b, NEW s
  PROVE  LET n == PyThen(b, s).narrow IN
         /\ n.straight <=> b.narrow.straight /\ s.narrow.straight
         /\ n.ends = IF b.narrow.straight THEN s.narrow.ends ELSE "no"
         /\ n.sets <=> b.narrow.sets \/ (b.narrow.straight /\ s.narrow.sets)
         /\ n.binding = s.narrow.binding
         /\ n.guard = "no"
         /\ n.kept <=>
              \/ b.narrow.kept \/ s.narrow.kept
              \/ b.narrow.alone /\ NameLoads(s)
              \/ s.narrow.alone /\ NameLoads(b)
              \/ /\ b.narrow.binding
                 /\ s.narrow.guard = "no" \/ (s.narrow.guard # "always" /\ NameLoads(b))
         /\ n.alone <=>
              b.narrow.alone \/ s.narrow.alone \/ (b.narrow.binding /\ s.narrow.guard = "alone")
         /\ n.looped <=> b.narrow.looped \/ (b.narrow.binding /\ s.narrow.guard = "in loop")
<1> DEFINE n == NarrowOn(b, s)
<1>1. PyThen(b, s).narrow = n
  BY DEF PyThen
<1>2. n.straight <=> b.narrow.straight /\ s.narrow.straight
  BY DEF NarrowOn
<1>3. n.ends = (IF b.narrow.straight THEN s.narrow.ends ELSE "no")
  BY DEF NarrowOn
<1>4. n.sets <=> b.narrow.sets \/ (b.narrow.straight /\ s.narrow.sets)
  BY DEF NarrowOn
<1>5. n.binding = s.narrow.binding /\ n.guard = "no"
  BY DEF NarrowOn
<1>6. n.kept <=>
        \/ b.narrow.kept \/ s.narrow.kept
        \/ b.narrow.alone /\ NameLoads(s)
        \/ s.narrow.alone /\ NameLoads(b)
        \/ /\ b.narrow.binding
           /\ s.narrow.guard = "no" \/ (s.narrow.guard # "always" /\ NameLoads(b))
  BY DEF NarrowOn
<1>7. n.alone <=>
        b.narrow.alone \/ s.narrow.alone \/ (b.narrow.binding /\ s.narrow.guard = "alone")
  BY DEF NarrowOn
<1>8. n.looped <=> b.narrow.looped \/ (b.narrow.binding /\ s.narrow.guard = "in loop")
  BY DEF NarrowOn
<1> HIDE DEF n
<1>9. QED
  BY <1>1, <1>2, <1>3, <1>4, <1>5, <1>6, <1>7, <1>8

(* Where D11 is silent about a block, it is about what the block is of.    *)
LEMMA SilentThen ==
  ASSUME NEW b, NEW s, Silent(PyThen(b, s))
  PROVE  /\ Silent(b) /\ Silent(s)
         /\ b.narrow.alone => ~NameLoads(s)
         /\ s.narrow.alone => ~NameLoads(b)
         /\ b.narrow.binding =>
              s.narrow.guard # "no" /\ (s.narrow.guard # "always" => ~NameLoads(b))
<1>1. ~PyThen(b, s).narrow.kept /\ ~Has(PyThen(b, s), {"late()"})
  BY DEF Silent
<1>2. ~Has(b, {"late()"}) /\ ~Has(s, {"late()"})
  BY <1>1, WithinThen
<1>3. QED
  BY <1>1, <1>2, ThenNarrowFields DEF Silent

LEMMA ThenCleanStays ==
  ASSUME NEW b, NEW s, CleanStays(b), CleanStays(s)
  PROVE  CleanStays(PyThen(b, s))
<1> DEFINE S == PyThen(b, s)
<1>1. \A v \in Modes : S.run[v]["ok"] = RunOn(b, s, v, "ok")
  BY ThenFields, ModesXs
<1>2. ASSUME ~TakesOptional(S), NEW v \in Modes, NEW o \in Outcomes, NEW y \in Xs,
             <<o, y>> \in RunOn(b, s, v, "ok")
      PROVE  o # "leak" /\ y = "ok"
  <2>1. ~TakesOptional(b) /\ ~TakesOptional(s)
    BY <1>2, ThenWithin
  <2>2. \/ <<o, y>> \in b.run[v]["ok"]
        \/ \E z \in Xs : <<"next", z>> \in b.run[v]["ok"] /\ <<o, y>> \in s.run[v][z]
    BY <1>2, RunOnEnds
  <2>3. \A z \in Xs : <<"next", z>> \in b.run[v]["ok"] => z = "ok"
    BY <2>1 DEF CleanStays, Outcomes
  <2>4. QED
    BY <2>1, <2>2, <2>3 DEF CleanStays
<1> HIDE DEF S
<1>3. QED
  BY <1>1, <1>2 DEF CleanStays, S

(* A leak of a block is one of what it is of.                              *)
LEMMA ThenLeaks ==
  ASSUME NEW b, NEW s, NEW v \in Modes, NEW x \in Xs, Leaks(PyThen(b, s), v, x)
  PROVE  \/ Leaks(b, v, x)
         \/ \E z \in Xs : <<"next", z>> \in b.run[v][x] /\ Leaks(s, v, z)
<1>1. PyThen(b, s).run[v][x] = RunOn(b, s, v, x)
  BY ThenFields
<1>2. PICK y \in Xs : <<"leak", y>> \in RunOn(b, s, v, x)
  BY <1>1 DEF Leaks
<1>3. \/ <<"leak", y>> \in b.run[v][x]
      \/ \E z \in Xs : <<"next", z>> \in b.run[v][x] /\ <<"leak", y>> \in s.run[v][z]
  BY <1>2, RunOnEnds
<1>4. QED
  BY <1>3 DEF Leaks

LEMMA ThenUnreadSafe ==
  ASSUME NEW b, NEW s, UnreadSafe(b), UnreadSafe(s)
  PROVE  UnreadSafe(PyThen(b, s))
<1> DEFINE S == PyThen(b, s)
<1>1. ASSUME ~NameLoads(S), ~Has(S, {"late()", "p"}), NEW v \in Modes, NEW x \in Xs, Leaks(S, v, x)
      PROVE  FALSE
  <2>1. ~NameLoads(b) /\ ~NameLoads(s) /\ ~Has(b, {"late()", "p"}) /\ ~Has(s, {"late()", "p"})
    BY <1>1, ThenWithin, WithinThen
  <2>2. \A z \in Xs : ~Leaks(b, v, z) /\ ~Leaks(s, v, z)
    BY <2>1 DEF UnreadSafe
  <2>3. QED
    BY <1>1, <2>2, ThenLeaks
<1> HIDE DEF S
<1>2. QED
  BY <1>1 DEF UnreadSafe, S

LEMMA ThenKeepsTake ==
  ASSUME NEW b, NEW s, KeepsTake(b), KeepsTake(s)
  PROVE  KeepsTake(PyThen(b, s))
<1> DEFINE S == PyThen(b, s)
<1>1. Has(S, {"p"}) => Has(b, {"p"}) \/ Has(s, {"p"})
  BY WithinThen
<1>2. Has(S, {"p"}) => S.narrow.kept
  BY <1>1, ThenNarrowFields DEF KeepsTake
<1>3. S.narrow.binding \/ S.narrow.alone \/ S.narrow.looped => TakesOptional(b) \/ TakesOptional(s)
  BY ThenNarrowFields DEF KeepsTake
<1>4. S.narrow.binding \/ S.narrow.alone \/ S.narrow.looped => TakesOptional(S)
  BY <1>3, ThenWithin
<1> HIDE DEF S
<1>5. QED
  BY <1>2, <1>4 DEF KeepsTake, S

(* After a straight prefix, a block ends as the statement after it.        *)
LEMMA ThenLeaves ==
  ASSUME NEW b, NEW s, NarrowSound(b), NarrowSound(s)
  PROVE  LET S == PyThen(b, s) IN StraightOn(S) /\ PathEnds(S) /\ LoopExits(S)
<1> DEFINE S == PyThen(b, s)
<1>1. \A v \in Modes, x \in Xs : S.run[v][x] = RunOn(b, s, v, x)
  BY ThenFields
<1>2. ASSUME b.narrow.straight, NEW v \in Modes, NEW x \in Xs, NEW o \in Outcomes, NEW y \in Xs,
             <<o, y>> \in RunOn(b, s, v, x)
      PROVE  (o = "raise" /\ y = x) \/ <<o, y>> \in s.run[v][x]
  <2>1. \A p \in Outcomes, z \in Xs : <<p, z>> \in b.run[v][x] => p \in {"next", "raise"} /\ z = x
    BY <1>2 DEF NarrowSound, StraightOn
  <2>2. \/ o # "next" /\ <<o, y>> \in b.run[v][x]
        \/ \E z \in Xs : <<"next", z>> \in b.run[v][x] /\ <<o, y>> \in s.run[v][z]
    BY <1>2, RunOnEnds
  <2>3. "next" \in Outcomes
    BY DEF Outcomes
  <2>4. QED
    BY <2>1, <2>2, <2>3
<1>3. ASSUME S.narrow.straight, NEW v \in Modes, NEW x \in Xs, NEW o \in Outcomes, NEW y \in Xs,
             <<o, y>> \in RunOn(b, s, v, x)
      PROVE  o \in {"next", "raise"} /\ y = x
  <2>1. b.narrow.straight /\ s.narrow.straight
    BY <1>3, ThenNarrowFields
  <2>2. QED
    BY <1>2, <1>3, <2>1 DEF NarrowSound, StraightOn
<1>4. ASSUME S.narrow.ends = "path", Silent(S), NEW v \in Modes, NEW x \in Xs, NEW o \in Outcomes,
             NEW y \in Xs, <<o, y>> \in RunOn(b, s, v, x)
      PROVE  o \notin Passing \cup {"leak"}
  <2>1. b.narrow.straight /\ s.narrow.ends = "path" /\ Silent(s)
    BY <1>4, ThenNarrowFields, SilentThen
  <2>2. (o = "raise" /\ y = x) \/ <<o, y>> \in s.run[v][x]
    BY <1>2, <1>4, <2>1
  <2>3. PathEnds(s)
    BY DEF NarrowSound
  <2>4. <<o, y>> \in s.run[v][x] => o \notin Passing \cup {"leak"}
    BY <2>1, <2>3 DEF PathEnds
  <2>5. QED
    BY <2>2, <2>4 DEF Passing
<1>5. ASSUME S.narrow.ends = "loop", NEW v \in Modes, NEW x \in Xs, NEW o \in Outcomes,
             NEW y \in Xs, <<o, y>> \in RunOn(b, s, v, x)
      PROVE  o \notin {"next", "leak"}
  <2>1. b.narrow.straight /\ s.narrow.ends = "loop"
    <3>1. S.narrow.ends = (IF b.narrow.straight THEN s.narrow.ends ELSE "no")
      BY ThenNarrowFields
    <3>2. QED
      BY <1>5, <3>1
  <2>2. (o = "raise" /\ y = x) \/ <<o, y>> \in s.run[v][x]
    BY <1>2, <1>5, <2>1
  <2>3. LoopExits(s)
    BY DEF NarrowSound
  <2>4. <<o, y>> \in s.run[v][x] => o \notin {"next", "leak"}
    BY <2>1, <2>3 DEF LoopExits
  <2>5. QED
    BY <2>2, <2>4
<1> HIDE DEF S
<1>6. StraightOn(S)
  BY <1>1, <1>3 DEF StraightOn, S
<1>7. PathEnds(S)
  BY <1>1, <1>4 DEF PathEnds, S
<1>8. LoopExits(S)
  BY <1>1, <1>5 DEF LoopExits, S
<1>9. QED
  BY <1>6, <1>7, <1>8 DEF S

LEMMA ThenRebindsSound ==
  ASSUME NEW b, NEW s, NarrowSound(b), NarrowSound(s)
  PROVE  RebindsSound(PyThen(b, s))
<1> DEFINE S == PyThen(b, s)
<1>1. \A v \in Modes, x \in Xs : S.run[v][x] = RunOn(b, s, v, x)
  BY ThenFields
<1>2. ASSUME Rebinds(S), Silent(S), NEW v \in Modes, NEW x \in Xs, NEW o \in Outcomes, NEW y \in Xs,
             <<o, y>> \in RunOn(b, s, v, x)
      PROVE  o # "leak" /\ (o \in Passing => y = "ok")
  <2>1. /\ ~Has(b, {"call", "default", "other"}) /\ ~Has(s, {"call", "default", "other"})
        /\ \A h \in b.within \cup s.within : h.t \notin Walrus
        /\ S.narrow.sets
    <3>1. S.within = b.within \cup s.within
      BY ThenFields
    <3>2. QED
      BY <1>2, <3>1, WithinThen DEF Rebinds
  <2>2. Silent(b) /\ Silent(s)
    BY <1>2, SilentThen
  <2>3. ~TakesOptional(s)
    <3>1. ~Has(s, {"p"})
      BY <2>2 DEF NarrowSound, KeepsTake, Silent
    <3>2. QED
      BY <2>1, <3>1 DEF TakesOptional, Has
  <2>4. \/ o # "next" /\ <<o, y>> \in b.run[v][x]
        \/ \E z \in Xs : <<"next", z>> \in b.run[v][x] /\ <<o, y>> \in s.run[v][z]
    BY <1>2, RunOnEnds
  <2>5. CASE b.narrow.sets
    <3>1. Rebinds(b)
      BY <2>1, <2>5 DEF Rebinds
    <3>2. \A p \in Outcomes, z \in Xs :
            <<p, z>> \in b.run[v][x] => p # "leak" /\ (p \in Passing => z = "ok")
      BY <2>2, <3>1 DEF NarrowSound, RebindsSound
    <3>3. \A z \in Xs : <<"next", z>> \in b.run[v][x] => z = "ok"
      BY <3>2 DEF Passing, Outcomes
    <3>4. <<o, y>> \in s.run[v]["ok"] => o # "leak" /\ y = "ok"
      BY <2>3 DEF NarrowSound, CleanStays
    <3>5. QED
      BY <2>4, <3>2, <3>3, <3>4
  <2>6. CASE b.narrow.straight /\ s.narrow.sets
    <3>1. Rebinds(s)
      BY <2>1, <2>6 DEF Rebinds
    <3>2. \A p \in Outcomes, z \in Xs : <<p, z>> \in b.run[v][x] => p \in {"next", "raise"} /\ z = x
      BY <2>6 DEF NarrowSound, StraightOn
    <3>3. <<o, y>> \in s.run[v][x] => o # "leak" /\ (o \in Passing => y = "ok")
      BY <2>2, <3>1 DEF NarrowSound, RebindsSound
    <3>4. "next" \in Outcomes
      BY DEF Outcomes
    <3>5. (o = "raise" /\ y = x) \/ <<o, y>> \in s.run[v][x]
      BY <2>4, <3>2, <3>4
    <3>6. QED
      BY <3>3, <3>5 DEF Passing
  <2>7. QED
    BY <2>1, <2>5, <2>6, ThenNarrowFields
<1> HIDE DEF S
<1>3. QED
  BY <1>1, <1>2 DEF RebindsSound, S

(* What a None that a call leaves comes to in the statement after it.      *)
LEMMA NoneAfterCall ==
  ASSUME NEW b, NEW s, NarrowSound(b), NarrowSound(s), ~s.narrow.looped,
         Silent(PyThen(b, s)), NEW v \in Modes, b.narrow.binding,
         NEW o \in Outcomes, NEW y \in Xs, <<o, y>> \in s.run[v]["none"]
  PROVE  LET S == PyThen(b, s) IN
         /\ o # "leak"
         /\ o \in Passing /\ y = "none" => S.narrow.alone \/ (o # "next" /\ S.narrow.looped)
<1> DEFINE S == PyThen(b, s)
<1>1. Silent(s) /\ s.narrow.guard # "no"
  BY SilentThen
<1>2. Handles(s.narrow.guard, o, y)
  BY <1>1 DEF NarrowSound, GuardSafe
<1>3. /\ s.narrow.guard = "alone" => S.narrow.alone
      /\ s.narrow.guard = "in loop" => S.narrow.looped
  BY ThenNarrowFields
<1> HIDE DEF S
<1>4. QED
  BY <1>2, <1>3 DEF Handles, S

(* Where a guard counts only if nothing outside it reads x, a None that    *)
(* comes to the next statement does not leak.                              *)
LEMMA NoneGoesOn ==
  ASSUME NEW b, NEW s, NarrowSound(b), NarrowSound(s), ~s.narrow.looped,
         Silent(PyThen(b, s)), NEW v \in Modes, b.narrow.binding \/ b.narrow.alone,
         NEW o \in Outcomes, NEW y \in Xs, <<o, y>> \in s.run[v]["none"]
  PROVE  LET S == PyThen(b, s) IN
         /\ o # "leak"
         /\ o \in Passing /\ y = "none" => S.narrow.alone \/ (o # "next" /\ S.narrow.looped)
<1> DEFINE S == PyThen(b, s)
<1>1. CASE b.narrow.binding
  BY <1>1, NoneAfterCall
<1>2. CASE b.narrow.alone
  <2>1. ~NameLoads(s) /\ Silent(s)
    BY <1>2, SilentThen
  <2>2. ~Has(s, {"late()", "p"})
    BY <2>1 DEF NarrowSound, KeepsTake, Silent, Has
  <2>3. "none" \in Xs
    BY DEF Xs
  <2>4. ~Leaks(s, v, "none")
    BY <2>1, <2>2, <2>3 DEF NarrowSound, UnreadSafe
  <2>5. S.narrow.alone
    BY <1>2, ThenNarrowFields
  <2>6. QED
    BY <2>4, <2>5 DEF Leaks
<1>3. QED
  BY <1>1, <1>2

LEMMA ThenSilentSafe ==
  ASSUME NEW b, NEW s, NarrowSound(b), NarrowSound(s), ~s.narrow.looped
  PROVE  SilentSafe(PyThen(b, s))
<1> DEFINE S == PyThen(b, s)
<1>r. \A v \in Modes, x \in Xs : S.run[v][x] = RunOn(b, s, v, x)
  BY ThenFields
<1>x. "ok" \in Xs /\ "none" \in Xs /\ "next" \in Outcomes /\ "leak" \in Outcomes /\ "next" \in Passing
  BY DEF Xs, Outcomes, Passing
<1>g. S.narrow.binding = s.narrow.binding
  BY ThenNarrowFields
<1>f. /\ b.narrow.alone \/ s.narrow.alone => S.narrow.alone
      /\ b.narrow.looped => S.narrow.looped
      /\ S.narrow.looped <=> b.narrow.looped \/ (b.narrow.binding /\ s.narrow.guard = "in loop")
      /\ S.narrow.alone <=>
           b.narrow.alone \/ s.narrow.alone \/ (b.narrow.binding /\ s.narrow.guard = "alone")
  BY ThenNarrowFields
<1> HIDE DEF S
<1> SUFFICES ASSUME Silent(S), NEW v \in Modes
             PROVE  /\ \A o \in Outcomes, y \in Xs : <<o, y>> \in S.run[v]["ok"] => Lets(S, o, y)
                    /\ S.narrow.looped /\ <<"next", "none">> \in S.run[v]["none"]
                         => S.narrow.binding \/ S.narrow.alone
                    /\ S.narrow.alone \/ S.narrow.looped => ~Leaks(S, v, "none")
  BY DEF SilentSafe, S
<1>p. /\ Silent(b) /\ Silent(s)
      /\ b.narrow.alone => ~NameLoads(s)
      /\ s.narrow.alone => ~NameLoads(b)
      /\ b.narrow.binding =>
           s.narrow.guard # "no" /\ (s.narrow.guard # "always" => ~NameLoads(b))
  BY SilentThen DEF S
<1>b. /\ \A o \in Outcomes, y \in Xs : <<o, y>> \in b.run[v]["ok"] => Lets(b, o, y)
      /\ b.narrow.looped /\ <<"next", "none">> \in b.run[v]["none"]
           => b.narrow.binding \/ b.narrow.alone
      /\ b.narrow.alone \/ b.narrow.looped => ~Leaks(b, v, "none")
  BY <1>p DEF NarrowSound, SilentSafe
<1>s. /\ \A o \in Outcomes, y \in Xs : <<o, y>> \in s.run[v]["ok"] => Lets(s, o, y)
      /\ s.narrow.alone => ~Leaks(s, v, "none")
  BY <1>p DEF NarrowSound, SilentSafe
<1>so. \A o \in Outcomes, y \in Xs : <<o, y>> \in s.run[v]["ok"] => Lets(S, o, y)
  BY <1>s, <1>f, <1>g DEF Lets
<1>sn. ASSUME b.narrow.binding \/ b.narrow.alone,
              NEW o \in Outcomes, NEW y \in Xs, <<o, y>> \in s.run[v]["none"]
       PROVE  /\ o # "leak"
              /\ o \in Passing /\ y = "none" => S.narrow.alone \/ (o # "next" /\ S.narrow.looped)
  BY <1>sn, NoneGoesOn DEF S
<1>u. ~NameLoads(b) => \A x \in Xs : ~Leaks(b, v, x)
  <2>1. ~Has(b, {"late()", "p"})
    BY <1>p DEF NarrowSound, KeepsTake, Silent, Has
  <2>2. QED
    BY <2>1 DEF NarrowSound, UnreadSafe
<1>1. ASSUME NEW o \in Outcomes, NEW y \in Xs, <<o, y>> \in S.run[v]["ok"]
      PROVE  Lets(S, o, y)
  <2>1. \/ o # "next" /\ <<o, y>> \in b.run[v]["ok"]
        \/ \E z \in Xs : <<"next", z>> \in b.run[v]["ok"] /\ <<o, y>> \in s.run[v][z]
    BY <1>1, <1>r, <1>x, RunOnEnds
  <2>2. CASE o # "next" /\ <<o, y>> \in b.run[v]["ok"]
    <3>1. Lets(b, o, y)
      BY <1>b, <2>2
    <3>2. QED
      BY <1>f, <2>2, <3>1 DEF Lets
  <2>3. CASE <<o, y>> \in s.run[v]["ok"]
    BY <1>so, <2>3
  <2>4. CASE <<"next", "none">> \in b.run[v]["ok"] /\ <<o, y>> \in s.run[v]["none"]
    <3>1. Lets(b, "next", "none")
      BY <1>b, <1>x, <2>4
    <3>2. b.narrow.binding \/ b.narrow.alone
      BY <1>x, <3>1 DEF Lets
    <3>3. /\ o # "leak"
          /\ o \in Passing /\ y = "none" => S.narrow.alone \/ (o # "next" /\ S.narrow.looped)
      BY <1>sn, <2>4, <3>2
    <3>4. QED
      BY <3>3 DEF Lets
  <2>5. QED
    BY <2>1, <2>2, <2>3, <2>4 DEF Xs
<1>2. ASSUME S.narrow.looped, <<"next", "none">> \in S.run[v]["none"]
      PROVE  S.narrow.binding \/ S.narrow.alone
  <2>1. PICK z \in Xs : <<"next", z>> \in b.run[v]["none"] /\ <<"next", "none">> \in s.run[v][z]
    BY <1>2, <1>r, <1>x, RunOnEnds
  <2>2. CASE z = "ok"
    <3>1. Lets(S, "next", "none")
      BY <1>so, <1>x, <2>1, <2>2
    <3>2. QED
      BY <1>x, <3>1 DEF Lets
  <2>3. CASE z = "none"
    <3>1. b.narrow.binding \/ b.narrow.alone
      BY <1>2, <1>b, <1>f, <2>1, <2>3
    <3>2. QED
      BY <1>sn, <1>x, <2>1, <2>3, <3>1
  <2>4. QED
    BY <2>2, <2>3 DEF Xs
<1>3. ASSUME S.narrow.alone \/ S.narrow.looped, Leaks(S, v, "none")
      PROVE  FALSE
  <2>1. \/ Leaks(b, v, "none")
        \/ \E z \in Xs : <<"next", z>> \in b.run[v]["none"] /\ Leaks(s, v, z)
    BY <1>3, <1>x, ThenLeaks DEF S
  <2>2. ~Leaks(s, v, "ok")
    BY <1>s, <1>x DEF Leaks, Lets
  <2>3. ~Leaks(b, v, "none")
    <3>1. CASE b.narrow.alone \/ b.narrow.looped
      BY <1>b, <3>1
    <3>2. CASE s.narrow.alone
      BY <1>p, <1>u, <1>x, <3>2
    <3>3. CASE b.narrow.binding /\ s.narrow.guard \in {"alone", "in loop"}
      BY <1>p, <1>u, <1>x, <3>3
    <3>4. QED
      BY <1>3, <1>f, <3>1, <3>2, <3>3
  <2>4. <<"next", "none">> \in b.run[v]["none"] /\ Leaks(s, v, "none")
    BY <2>1, <2>2, <2>3 DEF Xs
  <2>5. ~(b.narrow.binding \/ b.narrow.alone)
    BY <1>sn, <1>x, <2>4 DEF Leaks
  <2>6. ~b.narrow.looped
    BY <1>b, <2>4, <2>5
  <2>7. ~s.narrow.alone
    BY <1>s, <2>4
  <2>8. QED
    BY <1>3, <1>f, <2>5, <2>6, <2>7
<1>4. QED
  BY <1>1, <1>2, <1>3

(* Narrowing is sound of a block that goes on.                             *)
LEMMA ThenNarrow ==
  ASSUME NEW b, NEW s, NarrowSound(b), NarrowSound(s), ~s.narrow.looped
  PROVE  NarrowSound(PyThen(b, s))
<1> DEFINE S == PyThen(b, s)
<1>1. CleanStays(S)
  BY ThenCleanStays DEF NarrowSound
<1>2. UnreadSafe(S)
  BY ThenUnreadSafe DEF NarrowSound
<1>3. KeepsTake(S)
  BY ThenKeepsTake DEF NarrowSound
<1>4. StraightOn(S) /\ PathEnds(S) /\ LoopExits(S)
  BY ThenLeaves
<1>5. RebindsSound(S)
  BY ThenRebindsSound
<1>6. SilentSafe(S)
  BY ThenSilentSafe
<1>7. S.narrow.guard = "no"
  BY DEF PyThen, NarrowOn
<1> HIDE DEF S
<1>8. GuardSafe(S)
  BY <1>7 DEF GuardSafe
<1>9. QED
  BY <1>1, <1>2, <1>3, <1>4, <1>5, <1>6, <1>8 DEF NarrowSound, S

-----------------------------------------------------------------------------
(* The three ways to make a block keep PySound.                            *)
LEMMA EmptySound == PySound(PyEmpty)
<1>1. PyEmpty \in PyBlocks
  <2>1. \A x \in Xs : {<<"next", x>>} \in SUBSET Ends
    BY EndPairs DEF Outcomes
  <2>2. [v \in Modes |-> [x \in Xs |-> {<<"next", x>>}]] \in [Modes -> [Xs -> SUBSET Ends]]
    BY <2>1
  <2>3. [e \in Readings |-> {}] \in [Readings -> SUBSET Answers]
    OBVIOUS
  <2>4. NarrowNothing \in Narrowings
    BY DEF NarrowNothing, Narrowings, EndKinds, GuardKinds
  <2>5. QED
    BY <2>2, <2>3, <2>4 DEF PyEmpty, PyBlocks
<1>2. \A K : ~Has(PyEmpty, K)
  BY EmptyFields DEF Has
<1>a. \A v \in Modes : \A x, y \in Xs :
        /\ <<"break", y>> \notin PyEmpty.run[v][x]
        /\ <<"return None", y>> \notin PyEmpty.run[v][x]
  <2>1. ASSUME NEW v \in Modes, NEW x \in Xs, NEW y \in Xs
        PROVE  /\ <<"break", y>> \notin PyEmpty.run[v][x]
               /\ <<"return None", y>> \notin PyEmpty.run[v][x]
    <3>1. PyEmpty.run[v][x] = {<<"next", x>>}
      BY EmptyFields
    <3>2. <<"break", y>> # <<"next", x>> /\ <<"return None", y>> # <<"next", x>>
      OBVIOUS
    <3>3. QED
      BY <3>1, <3>2
  <2>2. QED
    BY <2>1
<1>3. Written(PyEmpty)
  BY EmptyFields DEF Written, Filled
<1>4. CompletionSound(PyEmpty)
  BY EmptyFields DEF CompletionSound
<1>5. BreakTyped(PyEmpty)
  BY <1>a DEF BreakTyped
<1>6. ReturnTyped(PyEmpty) /\ AlwaysReturns(PyEmpty)
  BY EmptyFields DEF ReturnTyped, AlwaysReturns
<1>7. ReturnTranslated(PyEmpty)
  BY <1>2 DEF ReturnTranslated
<1>8. NoneTranslated(PyEmpty)
  BY <1>a DEF NoneTranslated
<1>9. CompletionReal(PyEmpty)
  BY EmptyFields DEF CompletionReal
<1>10. MissReal(PyEmpty)
  BY EmptyFields DEF MissReal, Passes
<1>11. QED
  BY <1>1, <1>3, <1>4, <1>5, <1>6, <1>7, <1>8, <1>9, <1>10, EmptyNarrow DEF PySound

LEMMA StatementSound ==
  ASSUME NEW k \in PyKinds, NEW t \in PyTests, NEW cl, Formed(k, cl),
         \A b \in Parts(cl) : PySound(b)
  PROVE  /\ PySound(PyStatement(k, t, cl)) /\ Filled(PyStatement(k, t, cl))
         /\ ~PyStatement(k, t, cl).narrow.looped
<1> DEFINE S == PyStatement(k, t, cl)
<1>1. PyClauses(cl)
  BY DEF Formed
<1>2. /\ \A b \in Parts(cl) : CompletionSound(b) /\ BreakTyped(b)
      /\ \A b \in Parts(cl) : ReturnTyped(b)
      /\ \A b \in Parts(cl) : ReturnTranslated(b)
      /\ \A b \in Parts(cl) : AlwaysReturns(b)
      /\ \A b \in Parts(cl) : NoneTranslated(b)
      /\ \A b \in Parts(cl) : CompletionReal(b)
      /\ \A b \in Parts(cl) : MissReal(b)
  BY DEF PySound
<1>a. \A b \in Parts(cl) : NarrowSound(b)
  BY DEF PySound
<1>3. S \in PyBlocks
  BY <1>1, StatementTyped
<1>4. Filled(S)
  BY StatementHeads DEF Filled
<1>5. Written(S)
  BY <1>4, StatementRaises DEF Written
<1>6. CompletionSound(S)
  BY <1>1, <1>2, StatementCompletionSound
<1>7. BreakTyped(S)
  <2>1. \A b \in Parts(cl) : BreakTyped(b)
    BY <1>2
  <2>2. QED
    BY <1>1, <2>1, StatementBreakTyped
<1>8. ReturnTyped(S)
  BY <1>1, <1>2, StatementReturnTyped
<1>9. ReturnTranslated(S)
  BY <1>2, StatementReturnTranslated
<1>10. AlwaysReturns(S)
  BY <1>1, <1>2, StatementAlwaysReturns
<1>11. NoneTranslated(S)
  BY <1>1, <1>2, StatementNoneTranslated
<1>12. CompletionReal(S)
  BY <1>2, StatementCompletionReal
<1>13. MissReal(S)
  BY <1>2, StatementMissReal
<1>14. NarrowSound(S) /\ ~S.narrow.looped
  BY <1>a, StatementNarrow
<1>15. QED
  BY <1>3, <1>4, <1>5, <1>6, <1>7, <1>8, <1>9, <1>10, <1>11, <1>12, <1>13, <1>14 DEF PySound

LEMMA ThenSound ==
  ASSUME NEW b, NEW s, PySound(b), PySound(s), Filled(s), ~s.narrow.looped
  PROVE  PySound(PyThen(b, s)) /\ Filled(PyThen(b, s))
<1> DEFINE S == PyThen(b, s)
<1>1. b \in PyBlocks /\ s \in PyBlocks
  BY DEF PySound
<1>2. S.within = b.within \cup s.within
  BY ThenFields
<1>3. Filled(S)
  BY <1>2 DEF Filled
<1>4. Written(S)
  <2>1. (b = PyEmpty \/ Raises(b)) /\ Raises(s)
    BY DEF PySound, Written
  <2>2. QED
    BY <1>3, <2>1, ThenRaises DEF Written
<1>a. CompletionSound(b) /\ CompletionSound(s) /\ BreakTyped(b) /\ BreakTyped(s)
  BY DEF PySound
<1>b. AlwaysReturns(b) /\ AlwaysReturns(s) /\ NoneTranslated(b) /\ NoneTranslated(s)
  BY DEF PySound
<1>5. CompletionSound(S) /\ BreakTyped(S)
  BY <1>1, <1>a, ThenCompletionSound, ThenBreakTyped
<1>6. ReturnTyped(S) /\ ReturnTranslated(S)
  BY ThenReturnTyped, ThenReturnTranslated DEF PySound
<1>7. AlwaysReturns(S) /\ NoneTranslated(S)
  BY <1>b, ThenAlwaysReturns, ThenNoneTranslated
<1>8. CompletionReal(S) /\ MissReal(S)
  BY ThenCompletionReal, ThenMissReal DEF PySound
<1>9. NarrowSound(S)
  BY ThenNarrow DEF PySound
<1>10. QED
  BY <1>1, <1>3, <1>4, <1>5, <1>6, <1>7, <1>8, <1>9, ThenTyped DEF PySound
=============================================================================
