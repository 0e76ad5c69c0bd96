------------------------- MODULE ManifestStoreProofs -------------------------
(***************************************************************************)
(* Proofs about ManifestStore, for every value of its constants.           *)
(***************************************************************************)
EXTENDS ManifestStore, TLAPS

(* A builder signs only after it has hashed the module: at "sign", and in  *)
(* the Go builder already at "surface", its draft holds a real hash.       *)
Hashed ==
  \A p \in Procs :
    (pc[p] = "sign" \/ (pc[p] = "surface" /\ Lang[mod[p]] = "go"))
      => draft[p].root \in Canonicals

TypeInv == TypeOK /\ Hashed

-----------------------------------------------------------------------------
(* The pure checks return verdicts only.                                   *)
LEMMA VerdictTypes ==
  /\ \A b, t, pol : Step6(b, t, pol) \in Verdicts \cup {"ok"}
  /\ \A b, c : Step7(b, c) \in Verdicts \cup {"ok"}
  /\ \A l, b, s : Step9(l, b, s) \subseteq Verdicts
<1>1. \A b, t, pol : Step6(b, t, pol) \in Verdicts \cup {"ok"}
  BY DEF Step6, Verdicts
<1>2. \A b, c : Step7(b, c) \in Verdicts \cup {"ok"}
  BY DEF Step7, Verdicts
<1>3. \A l, b, s : Step9(l, b, s) \subseteq Verdicts
  BY DEF Step9, Verdicts
<1> QED
  BY <1>1, <1>2, <1>3

(* What an extractor ends in, and what "ok" says of the file it read.      *)
LEMMA ExtractionsOf ==
  ASSUME NEW p, NEW lang, NEW m, NEW v \in Extractions(p, lang, m)
  PROVE  /\ v \in {"ok", "INDETERMINATE", "traceback"}
         /\ v = "ok" => Present(m) /\ Parse[source[m]] \in {"ok", "undecodable"}
         /\ v = "INDETERMINATE" => Present(m) /\ Parse[source[m]] = "dynamic"
         /\ v = "traceback" =>
              \/ ~Present(m) \/ lang \notin Extras[p] \cup {"python"} \/ lang = "go"
              \/ Parse[source[m]] \notin {"ok", "dynamic"}
<1>1. CASE Present(m) /\ lang \in Extras[p] \cup {"python"}
  <2>1. v \in Extraction(lang, source[m])
    BY <1>1 DEF Extractions
  <2>2. CASE Parse[source[m]] = "dynamic"
    BY <1>1, <2>1, <2>2 DEF Extraction
  <2>3. CASE Parse[source[m]] # "dynamic"
    BY <1>1, <2>1, <2>3 DEF Extraction
  <2> QED
    BY <2>2, <2>3
<1>2. CASE ~(Present(m) /\ lang \in Extras[p] \cup {"python"})
  BY <1>2 DEF Extractions
<1> QED
  BY <1>1, <1>2

(* A builder's read of the surface: it stores the surface of a file that   *)
(* is there, or it reports.                                                *)
LEMMA SurfaceTaken ==
  ASSUME NEW p \in Procs, ReadSurface(p)
  PROVE  \/ /\ Present(mod[p]) /\ Parse[source[mod[p]]] \in {"ok", "undecodable"}
            /\ draft' = [draft EXCEPT ![p].names = SurfaceOf[source[mod[p]]]]
            /\ Goto(p, AfterSurface(mod[p]))
         \/ /\ draft' = draft
            /\ \E v \in {"INDETERMINATE", "traceback", "Go manifest unavailable"} :
                 Report(p, v)
<1>1. PICK v \in Extractions(p, Lang[mod[p]], mod[p]) :
        IF v = "ok"
          THEN draft' = [draft EXCEPT ![p].names = SurfaceOf[source[mod[p]]]]
               /\ Goto(p, AfterSurface(mod[p]))
          ELSE Report(p, BuilderError(mod[p], v)) /\ UNCHANGED draft
  BY DEF ReadSurface
<1>2. CASE v = "ok"
  BY <1>1, <1>2, ExtractionsOf
<1>3. CASE v # "ok"
  <2>1. v \in {"INDETERMINATE", "traceback"}
    BY <1>1, <1>3, ExtractionsOf
  <2>2. BuilderError(mod[p], v)
          \in {"INDETERMINATE", "traceback", "Go manifest unavailable"}
    BY <2>1 DEF BuilderError
  <2> QED
    BY <1>1, <1>3, <2>2
<1> QED
  BY <1>2, <1>3

(* Step 8 passes a file whose surface has what the manifest attests, or it *)
(* reports.                                                                *)
LEMMA Step8Read ==
  ASSUME NEW p \in Procs, Step8Action(p)
  PROVE  \/ /\ Present(mod[p]) /\ Parse[source[mod[p]]] \in {"ok", "undecodable"}
            /\ CompareSurface(log[base[p]].names, SurfaceOf[source[mod[p]]]) = "ok"
            /\ Goto(p, "step9")
         \/ \E v \in {"INDETERMINATE", "traceback", "CASM-V-050", "CASM-V-051"} :
              /\ Report(p, v)
              /\ v = "traceback" =>
                   LET lang == Lang[log[base[p]].mod] IN
                   \/ ~Present(mod[p])
                   \/ lang \notin Extras[p] \cup {"python"} \/ lang = "go"
                   \/ Parse[source[mod[p]]] \notin {"ok", "dynamic"}
              /\ v # "traceback" =>
                   /\ Present(mod[p])
                   /\ Parse[source[mod[p]]] \in {"ok", "undecodable", "dynamic"}
                   /\ v = "INDETERMINATE" => Parse[source[mod[p]]] = "dynamic"
                   /\ v # "INDETERMINATE" =>
                        CompareSurface(log[base[p]].names,
                                       SurfaceOf[source[mod[p]]]) # "ok"
<1> DEFINE lang == Lang[log[base[p]].mod]
           c == source[mod[p]]
           compared == CompareSurface(log[base[p]].names, SurfaceOf[c])
<1>1. PICK v \in Extractions(p, lang, mod[p]) :
        IF Step8(log[base[p]], c, v) = "ok" THEN Goto(p, "step9")
                                            ELSE Report(p, Step8(log[base[p]], c, v))
  BY DEF Step8Action
<1>2. /\ v \in {"ok", "INDETERMINATE", "traceback"}
      /\ v = "ok" => Present(mod[p]) /\ Parse[c] \in {"ok", "undecodable"}
      /\ v = "INDETERMINATE" => Present(mod[p]) /\ Parse[c] = "dynamic"
      /\ v = "traceback" =>
           \/ ~Present(mod[p]) \/ lang \notin Extras[p] \cup {"python"} \/ lang = "go"
           \/ Parse[c] \notin {"ok", "dynamic"}
  BY <1>1, ExtractionsOf
<1>3. compared \in {"ok", "CASM-V-050", "CASM-V-051"}
  BY DEF CompareSurface
<1> HIDE DEF compared, c
<1>4. CASE v = "ok"
  <2>1. Step8(log[base[p]], c, v) = compared
    BY <1>4 DEF Step8, compared, c
  <2>2. CASE compared = "ok"
    BY <1>1, <1>2, <1>4, <2>1, <2>2 DEF compared, c
  <2>3. CASE compared # "ok"
    BY <1>1, <1>2, <1>3, <1>4, <2>1, <2>3 DEF compared, c
  <2> QED
    BY <2>2, <2>3
<1>5. CASE v # "ok"
  <2>1. Step8(log[base[p]], c, v) = v
    BY <1>5 DEF Step8
  <2> QED
    BY <1>1, <1>2, <1>5, <2>1 DEF c
<1> QED
  BY <1>4, <1>5

LEMMA Moved ==
  ASSUME TypeOK, NEW p \in Procs,
         \/ \E s \in Running : Goto(p, s)
         \/ \E v \in Verdicts : Report(p, v)
  PROVE  /\ pc' \in [Procs -> Running \cup {"idle", "done"}]
         /\ verdict' \in [Procs -> Verdicts]
  BY DEF TypeOK, Goto, Report

(* Storing a surface or a hash in a draft gives a draft with the other     *)
(* half unchanged.                                                         *)
LEMMA DraftNames ==
  ASSUME TypeOK, NEW p \in Procs, NEW s \in Surfaces,
         draft' = [draft EXCEPT ![p].names = s]
  PROVE  /\ draft' \in [Procs -> Drafts]
         /\ draft'[p].root = draft[p].root /\ draft'[p].names = s
         /\ \A q \in Procs \ {p} : draft'[q] = draft[q]
<1>1. draft \in [Procs -> [root: Canonicals \cup {"none"}, names: Surfaces]]
  BY DEF TypeOK, Drafts
<1>2. draft' = [draft EXCEPT ![p] = [draft[p] EXCEPT !.names = s]]
  OBVIOUS
<1>3. [draft[p] EXCEPT !.names = s] = [root |-> draft[p].root, names |-> s]
  BY <1>1
<1> QED
  BY <1>1, <1>2, <1>3 DEF Drafts

LEMMA DraftRoot ==
  ASSUME TypeOK, NEW p \in Procs, NEW r \in Canonicals,
         draft' = [draft EXCEPT ![p].root = r]
  PROVE  /\ draft' \in [Procs -> Drafts]
         /\ draft'[p].root = r /\ draft'[p].names = draft[p].names
         /\ \A q \in Procs \ {p} : draft'[q] = draft[q]
<1>1. draft \in [Procs -> [root: Canonicals \cup {"none"}, names: Surfaces]]
  BY DEF TypeOK, Drafts
<1>2. draft' = [draft EXCEPT ![p] = [draft[p] EXCEPT !.root = r]]
  OBVIOUS
<1>3. [draft[p] EXCEPT !.root = r] = [root |-> r, names |-> draft[p].names]
  BY <1>1
<1> QED
  BY <1>1, <1>2, <1>3 DEF Drafts

LEMMA ModuleOrArchive == AnyModule \in Modules /\ Modules \subseteq Paths
  BY StoreAssumption DEF AnyModule, Paths

(* What the builders sign is a bundle, and appending one keeps the log a   *)
(* sequence of bundles whose earlier entries are unchanged.                *)
LEMMA Appending ==
  ASSUME NEW l \in Seq(Bundles(Modules)), NEW b \in Bundles(Modules)
  PROVE  /\ Append(l, b) \in Seq(Bundles(Modules))
         /\ Len(Append(l, b)) = Len(l) + 1
         /\ Append(l, b)[Len(l) + 1] = b
         /\ \A i \in 1 .. Len(l) : Append(l, b)[i] = l[i]
  OBVIOUS

LEMMA Signed ==
  ASSUME TypeInv, NEW p \in Procs, pc[p] = "sign"
  PROVE  BuildManifest(p) \in Bundles(Modules)
<1>1. draft[p].root \in Canonicals /\ draft[p].names \in Surfaces
  BY DEF TypeInv, TypeOK, Hashed, Drafts
<1>2. base[p] \in Nat /\ NextPosition(base[p]) \in Nat
  <2>1. CASE base[p] = 0
    BY <2>1 DEF NextPosition
  <2>2. CASE base[p] # 0
    <3>1. base[p] \in 1 .. Len(log) /\ log \in Seq(Bundles(Modules))
      BY <2>2 DEF TypeInv, TypeOK
    <3>2. log[base[p]] \in Bundles(Modules)
      BY <3>1
    <3> QED
      BY <2>2, <3>1, <3>2 DEF NextPosition, Bundles
  <2> QED
    BY <2>1, <2>2
<1>3. mod[p] \in Modules /\ arg[p].trust \in TrustRoots /\ Signer[p] \in Identities
  BY StoreAssumption DEF TypeInv, TypeOK, Args
<1> QED
  BY <1>1, <1>2, <1>3, TrustAssumption DEF BuildManifest, Bundles

LEMMA ExitTypes == NoDraft \in Drafts /\ NoArg \in Args
<1>1. EmptySurface \in [{} -> Prints] /\ {} \in SUBSET Names
  BY DEF EmptySurface
<1>2. EmptySurface \in Surfaces
  BY <1>1 DEF Surfaces
<1> QED
  BY <1>2, TrustAssumption DEF NoDraft, Drafts, NoArg, Args, Policies

LEMMA TypeInit == Init => TypeInv
<1> SUFFICES ASSUME Init PROVE TypeInv
  OBVIOUS
<1>1. NoDraft \in Drafts /\ NoArg \in Args
  BY ExitTypes
<1>3. log = << >> /\ Len(log) = 0 /\ log \in Seq(Bundles(Modules))
  <2>1. << >> \in Seq(Bundles(Modules)) /\ Len(<< >>) = 0
    OBVIOUS
  <2> QED
    BY <2>1 DEF Init
<1>4. store \in [Paths -> -1 .. Len(log)]
  <2>1. Absent \in -1 .. Len(log)
    BY <1>3 DEF Absent
  <2>2. store = [a \in Paths |-> Absent]
    BY DEF Init
  <2> QED
    BY <2>1, <2>2
<1>5. pc \in [Procs -> Running \cup {"idle", "done"}]
  BY DEF Init
<1>6. path \in [Procs -> Paths] /\ mod \in [Procs -> Modules]
  BY ModuleOrArchive DEF Init
<1>7. /\ arg \in [Procs -> Args] /\ draft \in [Procs -> Drafts]
      /\ verdict \in [Procs -> Verdicts]
  BY <1>1 DEF Init, Verdicts
<1>8. /\ source \in [Modules -> Contents \cup {"missing"}]
      /\ base \in [Procs -> 0 .. Len(log)] /\ shared \in [Procs -> BOOLEAN]
  <2>1. /\ source \in [Modules -> Contents] /\ base = [p \in Procs |-> 0]
        /\ shared = [p \in Procs |-> FALSE]
    BY DEF Init
  <2>2. 0 \in 0 .. Len(log)
    BY <1>3
  <2>3. source \in [Modules -> Contents \cup {"missing"}]
    BY <2>1
  <2>4. base \in [Procs -> 0 .. Len(log)]
    BY <2>1, <2>2
  <2>5. shared \in [Procs -> BOOLEAN]
    BY <2>1
  <2> QED
    BY <2>3, <2>4, <2>5
<1>9. edits \in Nat /\ stale \in SUBSET Procs /\ raced \in SUBSET (1 .. Len(log))
  <2>1. edits = 0 /\ stale = {} /\ raced = {}
    BY DEF Init
  <2> QED
    BY <2>1
<1>10. Hashed
  BY DEF Init, Hashed
<1> QED
  BY <1>3, <1>4, <1>5, <1>6, <1>7, <1>8, <1>9, <1>10 DEF TypeInv, TypeOK

(* Every step preserves the types ...                                      *)
LEMMA TypeStep == TypeOK /\ Hashed /\ [Next]_vars => TypeOK'
<1> SUFFICES ASSUME TypeOK, Hashed, [Next]_vars PROVE TypeOK'
  OBVIOUS
<1> USE DEF TypeOK
<1>1. ASSUME NEW p \in Writers, NEW m \in Modules, NEW t \in Configs,
             StartInit(p, m, t)
      PROVE  TypeOK'
  <2>1. /\ pc' \in [Procs -> Running \cup {"idle", "done"}]
        /\ verdict' \in [Procs -> Verdicts]
    BY <1>1, StoreAssumption DEF StartInit, Goto, Report, FirstRead, Running,
        Building, Verdicts
  <2>2. path' \in [Procs -> Paths] /\ mod' \in [Procs -> Modules]
    BY <1>1, ModuleOrArchive DEF StartInit, Target
  <2>3. arg' \in [Procs -> Args]
    BY <1>1, StoreAssumption DEF StartInit, Target, Args, Policies
  <2> QED
    BY <1>1, <2>1, <2>2, <2>3 DEF StartInit, files, history
<1>2. ASSUME NEW p \in Writers, NEW m \in Modules, NEW t \in Configs,
             StartUpdate(p, m, t)
      PROVE  TypeOK'
  <2>1. /\ pc' \in [Procs -> Running \cup {"idle", "done"}]
        /\ verdict' \in [Procs -> Verdicts]
    BY <1>2, StoreAssumption DEF StartUpdate, Goto, Report, FirstRead,
        Running, Building, Verdicts
  <2>2. path' \in [Procs -> Paths] /\ mod' \in [Procs -> Modules]
    BY <1>2, ModuleOrArchive DEF StartUpdate, Target
  <2>3. arg' \in [Procs -> Args]
    BY <1>2, StoreAssumption DEF StartUpdate, Target, Args, Policies
  <2> QED
    BY <1>2, <2>1, <2>2, <2>3 DEF StartUpdate, files, history
<1>3. ASSUME NEW p \in Verifiers, NEW a \in Paths, NEW t \in Configs,
             NEW pol \in PolicyArgs,
             StartVerify(p, a, t, pol)
      PROVE  TypeOK'
  <2>1. /\ pc' \in [Procs -> Running \cup {"idle", "done"}]
        /\ verdict' \in [Procs -> Verdicts]
    BY <1>3 DEF StartVerify, Goto, Report, Running, Verifying, Verdicts
  <2>2. path' \in [Procs -> Paths]
    BY <1>3 DEF StartVerify
  <2>3. arg' \in [Procs -> Args]
    BY <1>3, StoreAssumption DEF StartVerify, Args
  <2> QED
    BY <1>3, <2>1, <2>2, <2>3 DEF StartVerify, files, history
<1>4. ASSUME NEW p \in Procs, ReadExisting(p)
      PROVE  TypeOK'
  <2>1. /\ pc' \in [Procs -> Running \cup {"idle", "done"}]
        /\ verdict' \in [Procs -> Verdicts]
    BY <1>4 DEF ReadExisting, Goto, Report, FirstRead, Running, Building,
        Verdicts
  <2>2. base' \in [Procs -> 0 .. Len(log)]
    <3>1. CASE Whole(path[p])
      <4>1. store[path[p]] \in 0 .. Len(log)
        BY <3>1 DEF Whole
      <4> QED
        BY <1>4, <3>1, <4>1 DEF ReadExisting
    <3>2. CASE ~Whole(path[p])
      BY <1>4, <3>2 DEF ReadExisting
    <3> QED
      BY <3>1, <3>2
  <2> QED
    BY <1>4, <2>1, <2>2 DEF ReadExisting, files, history
<1>5. ASSUME NEW p \in Procs, ReadSurface(p)
      PROVE  TypeOK'
  <2>1. /\ pc' \in [Procs -> Running \cup {"idle", "done"}]
        /\ verdict' \in [Procs -> Verdicts]
    <3>1. /\ AfterSurface(mod[p]) \in Running
          /\ {"INDETERMINATE", "traceback", "Go manifest unavailable"}
               \subseteq Verdicts
      BY DEF AfterSurface, Running, Building, Verdicts
    <3> QED
      BY <1>5, <3>1, SurfaceTaken, Moved
  <2>2. draft' \in [Procs -> Drafts]
    <3>1. Present(mod[p]) => SurfaceOf[source[mod[p]]] \in Surfaces
      BY ContentsAssumption DEF Present
    <3> QED
      BY <1>5, <3>1, SurfaceTaken, DraftNames
  <2>3. /\ stale' \in SUBSET Procs
        /\ edits' \in Nat
        /\ raced' \in SUBSET (1 .. Len(log))
    BY <1>5 DEF ReadSurface, Watch
  <2> QED
    BY <1>5, <2>1, <2>2, <2>3 DEF ReadSurface, files
<1>6. ASSUME NEW p \in Procs, ReadHash(p)
      PROVE  TypeOK'
  <2>1. /\ pc' \in [Procs -> Running \cup {"idle", "done"}]
        /\ verdict' \in [Procs -> Verdicts]
    BY <1>6 DEF ReadHash, Goto, Report, AfterHash, Running, Building, Verdicts
  <2>2. draft' \in [Procs -> Drafts]
    <3>1. CASE Present(mod[p]) /\ Parse[source[mod[p]]] # "undecodable"
      <4>1. Canon[source[mod[p]]] \in Canonicals
        BY <3>1 DEF Present, Canonicals
      <4> QED
        BY <1>6, <3>1, <4>1, DraftRoot DEF ReadHash
    <3>2. CASE ~(Present(mod[p]) /\ Parse[source[mod[p]]] # "undecodable")
      BY <1>6, <3>2 DEF ReadHash
    <3> QED
      BY <3>1, <3>2
  <2>3. /\ stale' \in SUBSET Procs
        /\ edits' \in Nat
        /\ raced' \in SUBSET (1 .. Len(log))
    BY <1>6 DEF ReadHash, Watch
  <2> QED
    BY <1>6, <2>1, <2>2, <2>3 DEF ReadHash, files
<1>7. ASSUME NEW p \in Procs, Sign(p)
      PROVE  TypeOK'
  <2>1. log' \in Seq(Bundles(Modules)) /\ Len(log') = Len(log) + 1
    <3>1. BuildManifest(p) \in Bundles(Modules)
      BY <1>7, Signed DEF Sign, TypeInv
    <3> QED
      BY <1>7, <3>1, Appending DEF Sign
  <2>2. /\ pc' \in [Procs -> Running \cup {"idle", "done"}]
        /\ verdict' \in [Procs -> Verdicts]
    BY <1>7 DEF Sign, Goto, Running, Building
  <2>3. /\ base' \in [Procs -> 0 .. Len(log')]
        /\ store' \in [Paths -> -1 .. Len(log')]
    BY <1>7, <2>1 DEF Sign
  <2>4. raced' \in SUBSET (1 .. Len(log'))
    <3>1. 1 .. Len(log) \subseteq 1 .. Len(log') /\ Len(log) + 1 \in 1 .. Len(log')
      BY <2>1
    <3> QED
      BY <1>7, <3>1 DEF Sign
  <2> QED
    BY <1>7, <2>1, <2>2, <2>3, <2>4 DEF Sign
<1>8. ASSUME NEW p \in Procs, SigningFails(p)
      PROVE  TypeOK'
  <2>1. /\ pc' \in [Procs -> Running \cup {"idle", "done"}]
        /\ verdict' \in [Procs -> Verdicts]
    BY <1>8 DEF SigningFails, Report, Verdicts
  <2> QED
    BY <1>8, <2>1 DEF SigningFails, files, history
<1>9. ASSUME NEW p \in Procs, OpenBundle(p)
      PROVE  TypeOK'
  <2>1. /\ pc' \in [Procs -> Running \cup {"idle", "done"}]
        /\ verdict' \in [Procs -> Verdicts]
    BY <1>9 DEF OpenBundle, Goto, Running, Building
  <2>2. store' \in [Paths -> -1 .. Len(log)]
    BY <1>9 DEF OpenBundle, Torn
  <2>3. shared' \in [Procs -> BOOLEAN]
    BY <1>9 DEF OpenBundle, Touched
  <2> QED
    BY <1>9, <2>1, <2>2, <2>3 DEF OpenBundle, history
<1>10. ASSUME NEW p \in Procs, WriteBundle(p)
      PROVE  TypeOK'
  <2>1. /\ pc' \in [Procs -> Running \cup {"idle", "done"}]
        /\ verdict' \in [Procs -> Verdicts]
    BY <1>10 DEF WriteBundle, Report, Running, Verdicts
  <2>2. store' \in [Paths -> -1 .. Len(log)]
    BY <1>10 DEF WriteBundle, Torn
  <2>3. shared' \in [Procs -> BOOLEAN]
    BY <1>10 DEF WriteBundle, Touched
  <2> QED
    BY <1>10, <2>1, <2>2, <2>3 DEF WriteBundle, history
<1>11. ASSUME NEW p \in Procs, Route(p)
      PROVE  TypeOK'
  <2>1. /\ pc' \in [Procs -> Running \cup {"idle", "done"}]
        /\ verdict' \in [Procs -> Verdicts]
    BY <1>11 DEF Route, Goto, Report, Running, Verifying, Verdicts
  <2>2. mod' \in [Procs -> Modules]
    BY <1>11 DEF Route, Resolved, Adjacent, Recorded
  <2> QED
    BY <1>11, <2>1, <2>2 DEF Route, files, history
<1>12. ASSUME NEW p \in Procs, Parsing(p)
      PROVE  TypeOK'
  <2>1. /\ pc' \in [Procs -> Running \cup {"idle", "done"}]
        /\ verdict' \in [Procs -> Verdicts]
    <3>1. /\ Step6(log[store[path[p]]], arg[p].trust, arg[p].policy)
               \in Verdicts \cup {"ok"}
          /\ "CASM-V-010" \in Verdicts /\ "CASM-V-021" \in Verdicts
          /\ "step7" \in Running
      BY VerdictTypes DEF Verdicts, Running, Verifying
    <3> QED
      BY <1>12, <3>1, Moved DEF Parsing
  <2>2. base' \in [Procs -> 0 .. Len(log)]
    BY <1>12 DEF Parsing
  <2> QED
    BY <1>12, <2>1, <2>2 DEF Parsing, files, history
<1>13. ASSUME NEW p \in Procs, Step7Action(p)
      PROVE  TypeOK'
  <2>1. /\ pc' \in [Procs -> Running \cup {"idle", "done"}]
        /\ verdict' \in [Procs -> Verdicts]
    <3>1. /\ Step7(log[base[p]], source[mod[p]]) \in Verdicts \cup {"ok"}
          /\ "traceback" \in Verdicts /\ "step8" \in Running
      BY VerdictTypes DEF Verdicts, Running, Verifying
    <3> QED
      BY <1>13, <3>1, Moved DEF Step7Action
  <2> QED
    BY <1>13, <2>1 DEF Step7Action, files
<1>14. ASSUME NEW p \in Procs, Step8Action(p)
      PROVE  TypeOK'
  <2>1. /\ pc' \in [Procs -> Running \cup {"idle", "done"}]
        /\ verdict' \in [Procs -> Verdicts]
    <3>1. /\ {"INDETERMINATE", "traceback", "CASM-V-050", "CASM-V-051"} \subseteq Verdicts
          /\ "step9" \in Running
      BY DEF Verdicts, Running, Verifying
    <3> QED
      BY <1>14, <3>1, Step8Read, Moved
  <2> QED
    BY <1>14, <2>1 DEF Step8Action, files, history
<1>15. ASSUME NEW p \in Procs, Step9Action(p)
      PROVE  TypeOK'
  <2>1. /\ pc' \in [Procs -> Running \cup {"idle", "done"}]
        /\ verdict' \in [Procs -> Verdicts]
    BY <1>15, VerdictTypes DEF Step9Action, Report, Running
  <2> QED
    BY <1>15, <2>1 DEF Step9Action, files, history
<1>16. ASSUME NEW p \in Procs, Exit(p)
      PROVE  TypeOK'
  <2>1. /\ pc' \in [Procs -> Running \cup {"idle", "done"}]
        /\ path' \in [Procs -> Paths]
    BY <1>16, ModuleOrArchive DEF Exit
  <2>2. mod' \in [Procs -> Modules] /\ arg' \in [Procs -> Args]
    BY <1>16, ModuleOrArchive, ExitTypes DEF Exit
  <2>3. draft' \in [Procs -> Drafts] /\ base' \in [Procs -> 0 .. Len(log)]
    <3>1. draft' \in [Procs -> Drafts]
      BY <1>16, ExitTypes DEF Exit
    <3>2. 0 \in 0 .. Len(log)
      OBVIOUS
    <3> QED
      BY <1>16, <3>1, <3>2 DEF Exit
  <2>4. verdict' \in [Procs -> Verdicts] /\ shared' \in [Procs -> BOOLEAN]
    BY <1>16 DEF Exit, Verdicts
  <2>5. stale' \in SUBSET Procs
    BY <1>16 DEF Exit
  <2> QED
    BY <1>16, <2>1, <2>2, <2>3, <2>4, <2>5 DEF Exit, files
<1>17. ASSUME NEW m \in Modules, NEW c \in Contents \cup {"missing"},
             Edit(m, c)
      PROVE  TypeOK'
  <2>1. source' \in [Modules -> Contents \cup {"missing"}]
    BY <1>17 DEF Edit
  <2>2. stale' \in SUBSET Procs /\ edits' \in Nat
    BY <1>17 DEF Edit
  <2> QED
    BY <1>17, <2>1, <2>2 DEF Edit
<1>18. ASSUME NEW a \in Paths, NEW b \in Paths, Copy(a, b)
      PROVE  TypeOK'
  <2>1. store' \in [Paths -> -1 .. Len(log)]
    BY <1>18 DEF Copy
  <2> QED
    BY <1>18, <2>1 DEF Copy, history
<1>19. CASE UNCHANGED vars
  BY <1>19 DEF vars
<1> QED
  BY <1>1, <1>2, <1>3, <1>4, <1>5, <1>6, <1>7, <1>8, <1>9, <1>10, <1>11,
      <1>12, <1>13, <1>14, <1>15, <1>16, <1>17, <1>18, <1>19 DEF Next,
      Builder, Verifier, Finish, Crash

(* ... and that a signer has hashed.                                       *)
LEMMA HashedStep == TypeOK /\ Hashed /\ [Next]_vars => Hashed'
<1> SUFFICES ASSUME TypeOK, Hashed, [Next]_vars PROVE Hashed'
  OBVIOUS
<1> USE DEF TypeOK, Hashed
<1>1. ASSUME NEW p \in Writers, NEW m \in Modules, NEW t \in Configs,
             StartInit(p, m, t)
      PROVE  Hashed'
  <2>1. /\ draft' = draft /\ mod' = [mod EXCEPT ![p] = m]
        /\ \/ pc' = [pc EXCEPT ![p] = FirstRead(m)]
           \/ pc' = [pc EXCEPT ![p] = "done"]
    BY <1>1 DEF StartInit, Target, Goto, Report
  <2>2. Lang[m] = "go" => FirstRead(m) = "hash"
    BY StoreAssumption DEF FirstRead
  <2> QED
    BY <1>1, <2>1, <2>2 DEF FirstRead
<1>2. ASSUME NEW p \in Writers, NEW m \in Modules, NEW t \in Configs,
             StartUpdate(p, m, t)
      PROVE  Hashed'
  BY <1>2, StoreAssumption DEF StartUpdate, Target, Goto, Report, FirstRead,
      files, history
<1>3. ASSUME NEW p \in Verifiers, NEW a \in Paths, NEW t \in Configs,
             NEW pol \in PolicyArgs,
             StartVerify(p, a, t, pol)
      PROVE  Hashed'
  BY <1>3, StoreAssumption DEF StartVerify, Goto, Report, files, history
<1>4. ASSUME NEW p \in Procs, ReadExisting(p)
      PROVE  Hashed'
  BY <1>4 DEF ReadExisting, Whole, Goto, Report, FirstRead, files, history
<1>5. ASSUME NEW p \in Procs, ReadSurface(p)
      PROVE  Hashed'
  <2>1. mod' = mod /\ pc[p] = "surface"
    BY <1>5 DEF ReadSurface
  <2>2. CASE Present(mod[p]) /\ Goto(p, AfterSurface(mod[p]))
             /\ draft' = [draft EXCEPT ![p].names = SurfaceOf[source[mod[p]]]]
    <3>1. SurfaceOf[source[mod[p]]] \in Surfaces
      BY <2>2, ContentsAssumption DEF Present
    <3>2. \A q \in Procs : draft'[q].root = draft[q].root
      BY <2>2, <3>1, DraftNames
    <3>3. pc' = [pc EXCEPT ![p] = AfterSurface(mod[p])]
      BY <2>2 DEF Goto
    <3> QED
      BY <2>1, <3>2, <3>3 DEF AfterSurface
  <2>3. CASE draft' = draft /\ \E v : Report(p, v)
    <3>1. pc' = [pc EXCEPT ![p] = "done"]
      BY <2>3 DEF Report
    <3> QED
      BY <2>1, <2>3, <3>1
  <2> QED
    BY <1>5, <2>2, <2>3, SurfaceTaken
<1>6. ASSUME NEW p \in Procs, ReadHash(p)
      PROVE  Hashed'
  <2>1. mod' = mod /\ pc[p] = "hash"
    BY <1>6 DEF ReadHash
  <2>2. CASE Present(mod[p]) /\ Parse[source[mod[p]]] # "undecodable"
    <3>1. Canon[source[mod[p]]] \in Canonicals
      BY <2>2 DEF Present, Canonicals
    <3>2. /\ draft'[p].root \in Canonicals
          /\ \A q \in Procs \ {p} : draft'[q] = draft[q]
      BY <1>6, <2>2, <3>1, DraftRoot DEF ReadHash
    <3>3. pc' = [pc EXCEPT ![p] = AfterHash(mod[p])]
      BY <1>6, <2>2 DEF ReadHash, Goto
    <3> QED
      BY <2>1, <3>2, <3>3
  <2>3. CASE ~(Present(mod[p]) /\ Parse[source[mod[p]]] # "undecodable")
    <3>1. pc' = [pc EXCEPT ![p] = "done"] /\ draft' = draft
      BY <1>6, <2>3 DEF ReadHash, Report
    <3> QED
      BY <2>1, <3>1
  <2> QED
    BY <2>2, <2>3
<1>7. ASSUME NEW p \in Procs, Sign(p)
      PROVE  Hashed'
  BY <1>7 DEF Sign, Goto
<1>8. ASSUME NEW p \in Procs, SigningFails(p)
      PROVE  Hashed'
  BY <1>8 DEF SigningFails, Report, files, history
<1>9. ASSUME NEW p \in Procs, OpenBundle(p)
      PROVE  Hashed'
  BY <1>9 DEF OpenBundle, Goto, history
<1>10. ASSUME NEW p \in Procs, WriteBundle(p)
      PROVE  Hashed'
  BY <1>10 DEF WriteBundle, Report, history
<1>11. ASSUME NEW p \in Procs, Route(p)
      PROVE  Hashed'
  BY <1>11 DEF Route, Resolved, Adjacent, Recorded, Goto, Report, files,
      history
<1>12. ASSUME NEW p \in Procs, Parsing(p)
      PROVE  Hashed'
  BY <1>12 DEF Parsing, Goto, Report, files, history
<1>13. ASSUME NEW p \in Procs, Step7Action(p)
      PROVE  Hashed'
  BY <1>13 DEF Step7Action, Goto, Report, files
<1>14. ASSUME NEW p \in Procs, Step8Action(p)
      PROVE  Hashed'
  <2>1. \E t \in {"step9", "done"} : pc' = [pc EXCEPT ![p] = t]
    BY <1>14, Step8Read DEF Goto, Report
  <2> QED
    BY <1>14, <2>1 DEF Step8Action, files, history
<1>15. ASSUME NEW p \in Procs, Step9Action(p)
      PROVE  Hashed'
  BY <1>15 DEF Step9Action, Goto, Report, files, history
<1>16. ASSUME NEW p \in Procs, Exit(p)
      PROVE  Hashed'
  BY <1>16 DEF Exit, files
<1>17. ASSUME NEW m \in Modules, NEW c \in Contents \cup {"missing"},
             Edit(m, c)
      PROVE  Hashed'
  BY <1>17 DEF Edit
<1>18. ASSUME NEW a \in Paths, NEW b \in Paths, Copy(a, b)
      PROVE  Hashed'
  BY <1>18 DEF Copy, history
<1>19. CASE UNCHANGED vars
  BY <1>19 DEF vars
<1> QED
  BY <1>1, <1>2, <1>3, <1>4, <1>5, <1>6, <1>7, <1>8, <1>9, <1>10, <1>11,
      <1>12, <1>13, <1>14, <1>15, <1>16, <1>17, <1>18, <1>19 DEF Next,
      Builder, Verifier, Finish, Crash

(* Every variable of the store keeps its type, whatever the module texts,  *)
(* the number of commands, edits, crashes and manifests.                   *)
THEOREM TypeCorrect == Spec => []TypeOK
<1>1. TypeOK /\ Hashed /\ [Next]_vars => (TypeOK /\ Hashed)'
  BY TypeStep, HashedStep
<1>2. Init => TypeOK /\ Hashed
  BY TypeInit DEF TypeInv
<1> QED
  BY <1>1, <1>2, PTL DEF Spec

=============================================================================
