--------------------------- MODULE CheckWalkProofs ---------------------------
(***************************************************************************)
(* The properties of CheckWalk, for every directory, any number of writers *)
(* beside the walk, and every order of their steps.                        *)
(***************************************************************************)
EXTENDS CheckWalk, ManifestChainProofs, WellFoundedInduction

(* Where the walk is: the walker runs the verifier's steps only in         *)
(* "verify", files are done before bundles, and a walk that was not cut    *)
(* short has done both.                                                    *)
Positions ==
  /\ pc[Walker] \in IF walk = "verify" THEN {"parse", "step7", "step8", "step9", "done"} ELSE {"idle"}
  /\ walk \notin {"files", "slice"} /\ ~crashed => todo = {}
  /\ walk \notin {"gate11", "reread", "verify"} /\ ~crashed => bundles = {}
  /\ crashed => walk = "ended"
  /\ walk \in {"gate11", "reread", "verify"} => gate11
  /\ walk \in {"reread", "verify"} => path[Walker] = ThisBundle
  /\ walk = "slice" => Lang[NextFile] = "rust" /\ "rust" \in Extras[Walker]

(* What may end a walk over files nobody changes with an exception.        *)
Misread(m, i) ==
  /\ log[i].root = Canon[source[m]]
  /\ \/ Parse[source[m]] = "syntax"
     \/ Lang[log[i].mod] \notin Extras[Walker] \cup {"python"}
     \/ Lang[log[i].mod] = "go"

Cause ==
  \E m \in Modules : Present(m) /\
    \/ Parse[source[m]] = "undecodable"
    \/ gate11 /\ \E i \in 1 .. Len(log) : Misread(m, i)

(* As long as no module file changes, the walk finds what it listed: every *)
(* file still there, a Rust file as it was parsed, and from step 8 on a    *)
(* module with the attested hash.                                          *)
FilesStill ==
  ~edited =>
    /\ walk \in {"files", "slice"} => \A m \in todo : Present(m)
    /\ walk = "slice" => half = source[NextFile]
    /\ walk \in {"reread", "verify"} => Present(mod[Walker])
    /\ walk = "verify" /\ pc[Walker] \in {"step7", "step8"} => base[Walker] \in 1 .. Len(log)
    /\ walk = "verify" /\ pc[Walker] = "step8" =>
         Step7(log[base[Walker]], source[mod[Walker]]) = "ok"
    /\ walk = "verify" /\ pc[Walker] = "done" /\ verdict[Walker] = "traceback" => Cause
    /\ crashed => Cause

(* The exit code answers for every file in scope that is no longer on the  *)
(* list, and for every bundle.                                             *)
InScope(m) == target = m \/ (target = "directory" /\ m \notin Excluded)
Answered(m) ==
  /\ source[m] \in Marads => exit >= 1
  /\ Parse[source[m]] = "syntax" /\ Lang[m] \in Extras[Walker] \cup {"python"} => exit = 2

FilesCovered ==
  walk # "idle" /\ ~crashed /\ Undisturbed =>
    \A m \in Modules : InScope(m) /\ Present(m) => m \in todo \/ Answered(m)

BundlesCovered ==
  walk \in {"gate11", "reread", "verify", "ended"} /\ ~crashed /\ Undisturbed /\ gate11 =>
    \A a \in Paths : Whole(a) /\ Blamed(a) => a \in bundles \/ exit >= 1

(* The bundle in hand: what the steps passed so far have shown of it.      *)
Accepted == pc[Walker] = "done" /\ verdict[Walker] \in Accepting
InHand ==
  walk \in {"reread", "verify"} /\ Undisturbed =>
    /\ mod[Walker] \in WalkModule(ThisBundle)
    /\ walk = "verify" /\ (pc[Walker] \in {"step7", "step8", "step9"} \/ Accepted) =>
         /\ Whole(ThisBundle) /\ base[Walker] = store[ThisBundle]
         /\ arg[Walker].policy \in {"any", log[base[Walker]].by}
    /\ walk = "verify" /\ (pc[Walker] \in {"step8", "step9"} \/ Accepted) =>
         Canon[source[mod[Walker]]] = log[base[Walker]].root

WalkInv ==
  /\ WalkTypeOK /\ Hashed
  /\ Positions /\ FilesStill /\ FilesCovered /\ BundlesCovered /\ InHand

-----------------------------------------------------------------------------
(* The next file and the next bundle are on their lists.                   *)
LEMMA FirstIn ==
  ASSUME NEW T, NEW order \in Seq(T), NEW S, S # {},
         \A x \in S : \E i \in DOMAIN order : order[i] = x
  PROVE  First(order, S) \in S
<1> DEFINE I == {i \in DOMAIN order : order[i] \in S}
           R == OpToRel(<, Nat)
<1>1. I \subseteq Nat /\ I # {}
  OBVIOUS
<1>2. \E i \in I : \A j \in I : <<j, i>> \notin R
  <2> HIDE DEF I, R
  <2>1. IsWellFoundedOn(R, Nat)
    BY NatLessThanWellFounded DEF R
  <2> QED
    BY <1>1, <2>1, WFMin
<1>3. PICK i \in I : \A j \in I : ~(j < i)
  BY <1>1, <1>2 DEF OpToRel
<1>4. i \in DOMAIN order /\ order[i] \in S
      /\ \A j \in DOMAIN order : j < i => order[j] \notin S
  BY <1>3
<1> QED
  BY <1>4 DEF First

LEMMA NextIn ==
  /\ todo \subseteq Modules /\ todo # {} => NextFile \in todo
  /\ bundles \subseteq Paths /\ bundles # {} => ThisBundle \in bundles
<1>1. ASSUME todo \subseteq Modules, todo # {} PROVE NextFile \in todo
  BY <1>1, FirstIn, WalkAssumption DEF NextFile
<1>2. ASSUME bundles \subseteq Paths, bundles # {} PROVE ThisBundle \in bundles
  BY <1>2, FirstIn, WalkAssumption DEF ThisBundle
<1> QED
  BY <1>1, <1>2

(* What runs beside the walk are steps of the store, and none of them is   *)
(* the walker's.                                                           *)
LEMMA BesideIsNext == Beside => Next
BY StoreAssumption DEF Beside, Next

WalkerKept ==
  /\ pc'[Walker] = pc[Walker] /\ path'[Walker] = path[Walker]
  /\ mod'[Walker] = mod[Walker] /\ arg'[Walker] = arg[Walker]
  /\ base'[Walker] = base[Walker] /\ verdict'[Walker] = verdict[Walker]

LEMMA BesideTheWalker ==
  ASSUME TypeInv, Beside
  PROVE  WalkerKept
<1>0. Walker \in Procs \ Writers /\ Writers \subseteq Procs
  BY WalkAssumption, StoreAssumption
<1>1. ASSUME NEW q \in Writers, NEW m \in Modules, NEW t \in Configs,
             StartInit(q, m, t) \/ StartUpdate(q, m, t)
      PROVE  WalkerKept
  <2>1. q # Walker /\ q \in Procs
    BY <1>0
  <2>2. /\ base' = base
        /\ \E v : verdict' = [verdict EXCEPT ![q] = v]
        /\ path' = [path EXCEPT ![q] = m] /\ mod' = [mod EXCEPT ![q] = m]
        /\ arg' = [arg EXCEPT ![q] = [trust |-> t, policy |-> "none"]]
        /\ \E s \in {"surface", "hash", "read", "done"} : pc' = [pc EXCEPT ![q] = s]
    BY <1>1, <2>1, Started
  <2> QED
    BY <1>0, <2>1, <2>2 DEF WalkerKept, TypeInv, TypeOK
<1> USE DEF WalkerKept, TypeInv, TypeOK
<1>2. ASSUME NEW q \in Writers, Builder(q)
      PROVE  WalkerKept
  <2>1. q # Walker /\ q \in Procs
    BY <1>0
  <2>2. CASE ReadSurface(q) \/ ReadHash(q)
    BY <1>0, <2>1, <2>2 DEF ReadSurface, ReadHash, Watch, Goto, Report, files
  <2>3. CASE ReadExisting(q) \/ Sign(q) \/ SigningFails(q)
    BY <1>0, <2>1, <2>3 DEF ReadExisting, Sign, SigningFails, Goto, Report, files, history
  <2>4. CASE OpenBundle(q) \/ WriteBundle(q)
    BY <1>0, <2>1, <2>4 DEF OpenBundle, WriteBundle, Goto, Report, history
  <2> QED
    BY <1>2, <2>2, <2>3, <2>4 DEF Builder
<1>3. ASSUME NEW q \in Writers, Exit(q)
      PROVE  WalkerKept
  BY <1>0, <1>3 DEF Exit
<1>4. ASSUME NEW m, NEW c, Edit(m, c) \/ Copy(m, c)
      PROVE  WalkerKept
  BY <1>4 DEF Edit, Copy, history
<1> HIDE DEF WalkerKept
<1> QED
  BY <1>1, <1>2, <1>3, <1>4 DEF Beside, Finish, Crash

-----------------------------------------------------------------------------
(* Types.                                                                  *)

(* A step of the walk is one of the store, or changes for the walker only  *)
(* what it points at, or its pc between idle and the verifier's.           *)
LEMMA WalkMoves ==
  ASSUME [WalkNext]_allVars
  PROVE  \/ [Next]_vars
         \/ \E t, flag, trust, policy : StartCheck(t, flag, trust, policy)
              /\ trust \in Configs /\ policy \in PolicyArgs
         \/ LocateModule \/ Reread \/ Collect \/ FinishCheck
<1>1. ASSUME VerifyStep PROVE Next
  BY <1>1, WalkAssumption DEF VerifyStep, Next, Verifier
<1>2. ASSUME CheckFile \/ SliceRust \/ ListBundles \/ EndWalk \/ UNCHANGED allVars
      PROVE  UNCHANGED vars
  BY <1>2 DEF CheckFile, SliceRust, ListBundles, EndWalk, allVars
<1> QED
  BY <1>1, <1>2, BesideIsNext DEF WalkNext

LEMMA StoreTypes ==
  ASSUME TypeInv, Positions, bundles \subseteq Paths, [WalkNext]_allVars
  PROVE  TypeInv'
<1>0. Walker \in Procs
  BY WalkAssumption
<1>1. CASE [Next]_vars
  BY <1>1, TypeStep, HashedStep DEF TypeInv
<1>2. ASSUME NEW t, NEW flag, NEW trust \in Configs, NEW policy \in PolicyArgs,
             StartCheck(t, flag, trust, policy)
      PROVE  TypeInv'
  <2>1. [trust |-> trust, policy |-> policy] \in Args
    BY StoreAssumption DEF Args
  <2>2. arg' \in [Procs -> Args]
    BY <1>2, <2>1 DEF StartCheck, TypeInv, TypeOK
  <2> QED
    BY <1>2, <2>2 DEF StartCheck, TypeInv, TypeOK, Hashed, files, history
<1>3. CASE LocateModule
  <2>1. UNCHANGED <<files, history, pc, arg, base, draft, shared, verdict>>
    BY <1>3 DEF LocateModule
  <2>2. path' \in [Procs -> Paths] /\ mod' \in [Procs -> Modules]
        /\ \A p \in Procs : p # Walker => mod'[p] = mod[p]
    <3>1. ThisBundle \in Paths
      BY <1>3, NextIn DEF LocateModule
    <3>2. path \in [Procs -> Paths] /\ mod \in [Procs -> Modules]
      BY DEF TypeInv, TypeOK
    <3>3. CASE UNCHANGED <<path, mod>>
      BY <3>2, <3>3
    <3>4. CASE /\ path' = [path EXCEPT ![Walker] = ThisBundle]
               /\ \E m \in WalkModule(ThisBundle) : mod' = [mod EXCEPT ![Walker] = m]
      BY <3>1, <3>2, <3>4 DEF WalkModule, AtStem, AtRecorded
    <3> QED
      BY <1>3, <3>3, <3>4 DEF LocateModule
  <2>3. pc[Walker] = "idle"
    BY <1>3 DEF LocateModule, Positions
  <2>4. TypeOK'
    BY <2>1, <2>2 DEF TypeInv, TypeOK, files, history
  <2>5. Hashed'
    BY <1>0, <2>1, <2>2, <2>3 DEF TypeInv, Hashed
  <2> QED
    BY <2>4, <2>5 DEF TypeInv
<1>4. CASE Reread \/ Collect
  <2>1. UNCHANGED <<files, history, path, mod, arg, base, draft, shared, verdict>>
    BY <1>4 DEF Reread, Collect
  <2>2. \E s \in {"parse", "idle", pc[Walker]} : pc' = [pc EXCEPT ![Walker] = s]
    BY <1>4 DEF Reread, Collect, TypeInv, TypeOK
  <2>3. TypeOK'
    BY <1>0, <2>1, <2>2 DEF TypeInv, TypeOK, files, history, Running, Verifying
  <2>4. Hashed'
    BY <1>0, <2>1, <2>2 DEF TypeInv, TypeOK, Hashed
  <2> QED
    BY <2>3, <2>4 DEF TypeInv
<1>5. CASE FinishCheck
  <2>1. Exit(Walker)
    BY <1>5 DEF FinishCheck
  <2>2. NoDraft \in Drafts /\ NoArg \in Args /\ AnyModule \in Modules /\ AnyModule \in Paths
    BY ExitTypes, ModuleOrArchive
  <2>3. TypeOK'
    <3>1. pc' \in [Procs -> Running \cup {"idle", "done"}] /\ path' \in [Procs -> Paths]
      BY <2>1, <2>2 DEF Exit, TypeInv, TypeOK
    <3>2. mod' \in [Procs -> Modules] /\ arg' \in [Procs -> Args]
      BY <2>1, <2>2 DEF Exit, TypeInv, TypeOK
    <3>3. draft' \in [Procs -> Drafts]
      BY <2>1, <2>2 DEF Exit, TypeInv, TypeOK
    <3>4. base' \in [Procs -> 0 .. Len(log)]
      <4>1. 0 \in 0 .. Len(log)
        BY DEF TypeInv, TypeOK
      <4> QED
        BY <2>1, <4>1 DEF Exit, TypeInv, TypeOK
    <3>5. verdict' \in [Procs -> Verdicts] /\ shared' \in [Procs -> BOOLEAN]
      BY <2>1 DEF Exit, TypeInv, TypeOK, Verdicts
    <3>6. stale' \in SUBSET Procs
      BY <2>1 DEF Exit, TypeInv, TypeOK
    <3> QED
      BY <2>1, <3>1, <3>2, <3>3, <3>4, <3>5, <3>6 DEF Exit, TypeInv, TypeOK, files
  <2>4. \A p \in Procs : p # Walker => pc'[p] = pc[p] /\ mod'[p] = mod[p] /\ draft'[p] = draft[p]
    BY <2>1 DEF Exit, TypeInv, TypeOK
  <2>5. pc'[Walker] = "idle"
    BY <1>0, <2>1 DEF Exit, TypeInv, TypeOK
  <2>6. Hashed'
    BY <2>4, <2>5 DEF TypeInv, Hashed
  <2> QED
    BY <2>3, <2>6 DEF TypeInv
<1> QED
  BY <1>1, <1>2, <1>3, <1>4, <1>5, WalkMoves

(* What one file or bundle gives, and how it is folded.                    *)
Codes == {0, 1, 2, Traceback}

CodesFor(m) ==
  IF walk = "slice" THEN RustCodes(m)
  ELSE IF Lang[m] # "python" /\ Lang[m] \notin Extras[Walker] THEN {1}
  ELSE IF Lang[m] = "go" THEN GoCodes(m) ELSE PythonCodes(m)

LEMMA CodeTypes ==
  /\ \A m : CodesFor(m) \subseteq Codes
  /\ \A v : VerdictCode(v) \in 0 .. 2
BY DEF CodesFor, PythonCodes, GoCodes, RustCodes, Finding, VerdictCode, Codes

LEMMA Folded ==
  ASSUME exit \in 0 .. 2, NEW code \in 0 .. 2
  PROVE  Worse(code) \in 0 .. 2 /\ Worse(code) >= exit /\ Worse(code) >= code
BY DEF Worse

LEMMA FileDone ==
  ASSUME WalkTypeOK, NEW code \in Codes, Checked(code)
  PROVE  /\ todo' = todo \ {NextFile} /\ exit' \in 0 .. 2
         /\ \/ code = Traceback /\ walk' = "ended" /\ crashed' = TRUE
            \/ /\ code \in 0 .. 2 /\ walk' = "files" /\ crashed' = crashed
               /\ exit' = Worse(code) /\ exit' >= exit /\ exit' >= code
<1>1. exit \in 0 .. 2
  BY DEF WalkTypeOK
<1>2. CASE code = Traceback
  BY <1>2 DEF Checked, Abort
<1>3. CASE code # Traceback
  <2>1. code \in 0 .. 2
    BY <1>3 DEF Codes
  <2> QED
    BY <1>1, <1>3, <2>1, Folded DEF Checked
<1> QED
  BY <1>2, <1>3

(* A file is checked at one blow, or, in Rust, with a second read.         *)
LEMMA CheckSteps ==
  ASSUME CheckFile \/ SliceRust
  PROVE  /\ UNCHANGED <<vars, target, gate11, bundles, walkHistory>>
         /\ todo # {} \/ walk = "slice"
         /\ \/ /\ walk = "files" /\ Lang[NextFile] = "rust" /\ "rust" \in Extras[Walker] /\ Present(NextFile)
               /\ walk' = "slice" /\ half' = source[NextFile] /\ UNCHANGED <<todo, exit, crashed>>
            \/ \E code \in Codes : code \in CodesFor(NextFile) /\ Checked(code)
                                  /\ half' \in {half, "missing"}
<1>1. CASE CheckFile
  <2>1. walk # "slice"
    BY <1>1 DEF CheckFile
  <2>2. CASE Lang[NextFile] # "python" /\ Lang[NextFile] \notin Extras[Walker]
    BY <1>1, <2>1, <2>2, CodeTypes DEF CheckFile, CodesFor
  <2>3. CASE Lang[NextFile] = "python" \/ Lang[NextFile] \in Extras[Walker]
    BY <1>1, <2>1, <2>3, CodeTypes DEF CheckFile, CodesFor
  <2> QED
    BY <2>2, <2>3
<1>2. CASE SliceRust
  BY <1>2, CodeTypes DEF SliceRust, CodesFor
<1> QED
  BY <1>1, <1>2

LEMMA WalkTypes ==
  ASSUME WalkTypeOK, Hashed, Positions, [WalkNext]_allVars
  PROVE  WalkTypeOK' /\ Hashed'
<1>0. TypeInv' /\ TypeInv
  BY StoreTypes DEF WalkTypeOK, TypeInv
<1>1. TypeOK' /\ Hashed'
  BY <1>0 DEF TypeInv
<1>2. /\ todo # {} => NextFile \in Modules
      /\ bundles # {} => ThisBundle \in Paths
  BY NextIn DEF WalkTypeOK
<1>3. ASSUME NEW t \in Modules \cup {"directory"}, NEW flag \in BOOLEAN, NEW trust, NEW policy,
             StartCheck(t, flag, trust, policy)
      PROVE  WalkTypeOK'
  BY <1>1, <1>3 DEF StartCheck, Listing, WalkTypeOK, walkHistory
<1>4. CASE CheckFile \/ SliceRust
  <2>1. UNCHANGED <<target, gate11, bundles, edited, rewritten>>
    BY <1>4, CheckSteps DEF walkHistory
  <2>2. CASE walk' = "slice" /\ half' = source[NextFile] /\ UNCHANGED <<todo, exit, crashed>>
    <3>1. walk = "files" /\ todo # {} /\ Present(NextFile)
      BY <1>4, <2>2 DEF CheckFile, SliceRust, Checked, Abort
    <3>2. half' \in Contents /\ half' # "missing"
      BY <1>2, <2>2, <3>1 DEF WalkTypeOK, TypeOK, Present
    <3> QED
      BY <1>1, <2>1, <2>2, <3>1, <3>2 DEF WalkTypeOK
  <2>3. ASSUME NEW code \in Codes, Checked(code), half' \in {half, "missing"}
        PROVE  WalkTypeOK'
    <3>1. todo' \subseteq Modules /\ exit' \in 0 .. 2 /\ walk' \in {"files", "ended"}
          /\ crashed' \in BOOLEAN
      BY <2>3, FileDone DEF WalkTypeOK
    <3>2. half' \in Contents \cup {"missing"}
      BY <2>3 DEF WalkTypeOK
    <3> QED
      BY <1>1, <2>1, <3>1, <3>2 DEF WalkTypeOK
  <2> QED
    BY <1>1, <1>4, <2>2, <2>3, CheckSteps
<1>5. CASE ListBundles \/ LocateModule \/ EndWalk
  BY <1>1, <1>5 DEF ListBundles, LocateModule, EndWalk, NextBundle, WalkTypeOK, walkHistory
<1>6. CASE Reread
  <2>1. Worse(1) \in 0 .. 2
    BY Folded DEF WalkTypeOK
  <2> QED
    BY <1>1, <1>6, <2>1 DEF Reread, NextBundle, WalkTypeOK, walkHistory
<1>7. CASE VerifyStep \/ UNCHANGED allVars
  BY <1>1, <1>7 DEF VerifyStep, WalkTypeOK, walkVars, allVars
<1>8. CASE Collect
  <2>1. VerdictCode(verdict[Walker]) \in 0 .. 2
    BY CodeTypes
  <2>2. Worse(VerdictCode(verdict[Walker])) \in 0 .. 2
    BY <2>1, Folded DEF WalkTypeOK
  <2>3. /\ UNCHANGED <<target, gate11, todo, half, edited, rewritten>>
        /\ \/ walk' = "ended" /\ exit' = 1 /\ crashed' = TRUE /\ bundles' = bundles
           \/ /\ bundles' = bundles \ {ThisBundle} /\ walk' = "gate11"
              /\ exit' = Worse(VerdictCode(verdict[Walker])) /\ crashed' = crashed
    BY <1>8 DEF Collect, NextBundle, Abort, walkHistory
  <2>4. crashed' \in BOOLEAN
    BY <2>3 DEF WalkTypeOK
  <2>5. exit' \in 0 .. 2
    BY <2>2, <2>3
  <2> QED
    BY <1>1, <2>3, <2>4, <2>5 DEF WalkTypeOK
<1>9. CASE FinishCheck
  <2>1. /\ walk' = "idle" /\ target' = "directory" /\ gate11' = FALSE
        /\ todo' = {} /\ bundles' = {} /\ half' = "missing"
        /\ exit' = 0 /\ crashed' = FALSE /\ edited' = FALSE /\ rewritten' = FALSE
    BY <1>9 DEF FinishCheck
  <2>2. {gate11', crashed', edited', rewritten'} \subseteq BOOLEAN
    BY <2>1
  <2>3. exit' \in 0 .. 2
    BY <2>1
  <2> QED
    BY <1>1, <2>1, <2>2, <2>3 DEF WalkTypeOK
<1>10. CASE /\ edited' = (walk # "idle" /\ (edited \/ source' # source))
            /\ rewritten' = (walk # "idle" /\ (rewritten \/ store' # store))
            /\ UNCHANGED <<walk, target, gate11, todo, bundles, half, exit, crashed>>
  BY <1>1, <1>10 DEF WalkTypeOK
<1> QED
  BY <1>1, <1>3, <1>4, <1>5, <1>6, <1>7, <1>8, <1>9, <1>10 DEF WalkNext

(* A step of the verifier.                                                 *)
LEMMA VerifyMoves ==
  ASSUME WalkTypeOK, Positions, VerifyStep
  PROVE  /\ walk = "verify" /\ UNCHANGED walkVars
         /\ UNCHANGED <<source, store, log, path, mod, arg>>
         /\ pc[Walker] # "done" /\ pc'[Walker] \in {"step7", "step8", "step9", "done"}
<1> USE WalkAssumption DEF WalkTypeOK, TypeOK
<1>1. CASE Parsing(Walker)
  BY <1>1 DEF VerifyStep, Parsing, Goto, Report, files
<1>2. CASE Step7Action(Walker)
  BY <1>2 DEF VerifyStep, Step7Action, Goto, Report, files
<1>3. CASE Step8Action(Walker)
  BY <1>3, Step8Read DEF VerifyStep, Step8Action, Goto, Report, files
<1>4. CASE Step9Action(Walker)
  BY <1>4 DEF VerifyStep, Step9Action, Goto, Report, files
<1> QED
  BY <1>1, <1>2, <1>3, <1>4 DEF VerifyStep

(* A step of another process leaves the walk where it is.                  *)
LEMMA BesideMoves ==
  ASSUME TypeInv, Beside
  PROVE  /\ WalkerKept
         /\ Len(log) <= Len(log')
         /\ \A i \in 1 .. Len(log) : i \in 1 .. Len(log') /\ log'[i] = log[i]
BY BesideTheWalker, BesideIsNext, LogGrows

LEMMA PositionsStep ==
  ASSUME WalkTypeOK, Hashed, Positions, [WalkNext]_allVars
  PROVE  Positions'
<1>0. pc \in [Procs -> Running \cup {"idle", "done"}] /\ path \in [Procs -> Paths] /\ Walker \in Procs
  BY WalkAssumption DEF WalkTypeOK, TypeOK
<1>1. ASSUME NEW t, NEW flag, NEW trust, NEW policy, StartCheck(t, flag, trust, policy)
      PROVE  Positions'
  BY <1>1 DEF StartCheck, Positions
<1>2. CASE CheckFile \/ SliceRust
  <2>1. UNCHANGED <<pc, path, bundles>> /\ walk \in {"files", "slice"}
    BY <1>2 DEF CheckFile, SliceRust, vars
  <2>2. CASE /\ walk = "files" /\ Lang[NextFile] = "rust" /\ "rust" \in Extras[Walker]
             /\ walk' = "slice" /\ UNCHANGED <<todo, crashed>>
    BY <2>1, <2>2 DEF Positions, NextFile
  <2>3. ASSUME NEW code \in Codes, Checked(code)
        PROVE  Positions'
    <3>0. ~crashed
      BY <2>1 DEF Positions
    <3>1. \/ walk' = "ended" /\ crashed' = TRUE
          \/ walk' = "files" /\ crashed' = crashed
      BY <2>3, FileDone
    <3>2. CASE walk' = "ended" /\ crashed' = TRUE
      BY <2>1, <3>2 DEF Positions
    <3>3. CASE walk' = "files" /\ crashed' = crashed
      BY <2>1, <3>0, <3>3 DEF Positions
    <3> QED
      BY <3>1, <3>2, <3>3
  <2> QED
    BY <1>2, <2>2, <2>3, CheckSteps
<1>3. CASE ListBundles \/ EndWalk
  BY <1>3 DEF ListBundles, EndWalk, Positions, vars
<1>4. CASE LocateModule
  BY <1>0, <1>4 DEF LocateModule, NextBundle, Positions, ThisBundle
<1>5. CASE Reread
  BY <1>0, <1>5 DEF Reread, NextBundle, Positions, ThisBundle
<1>6. CASE VerifyStep
  BY <1>6, VerifyMoves DEF Positions, ThisBundle, walkVars
<1>7. CASE Collect
  BY <1>0, <1>7 DEF Collect, NextBundle, Abort, Positions
<1>8. CASE FinishCheck
  BY <1>0, <1>8 DEF FinishCheck, Exit, Positions
<1>9. CASE Beside /\ UNCHANGED <<walk, target, gate11, todo, bundles, half, exit, crashed>>
  <2>1. WalkerKept
    BY <1>9, BesideMoves DEF TypeInv, WalkTypeOK
  <2> QED
    BY <1>9, <2>1 DEF WalkerKept, Positions, NextFile, ThisBundle
<1>10. CASE UNCHANGED allVars
  BY <1>10 DEF Positions, NextFile, ThisBundle, allVars, vars, walkVars
<1> QED
  BY <1>1, <1>2, <1>3, <1>4, <1>5, <1>6, <1>7, <1>8, <1>9, <1>10 DEF WalkNext

-----------------------------------------------------------------------------
(* Files.                                                                  *)

(* What checking a file that has not changed since it was listed gives.    *)
LEMMA CodeMeans ==
  ASSUME WalkTypeOK, Positions, FilesStill, ~edited, walk \in {"files", "slice"}, todo # {},
         NEW code \in CodesFor(NextFile)
  PROVE  /\ Present(NextFile)
         /\ code = Traceback => Parse[source[NextFile]] = "undecodable"
         /\ code # Traceback =>
              /\ source[NextFile] \in Marads => code >= 1
              /\ Parse[source[NextFile]] = "syntax" /\ Lang[NextFile] \in Extras[Walker] \cup {"python"}
                   => code = 2
<1> DEFINE m == NextFile
           c == source[m]
<1>1. m \in Modules /\ Present(m) /\ (walk = "slice" => half = c)
  BY NextIn DEF WalkTypeOK, FilesStill
<1>2. c \in Contents
  BY <1>1 DEF WalkTypeOK, TypeOK, Present
<1>3. c \in Marads => Parse[c] \in {"ok", "dynamic"}
  BY WalkAssumption
<1>4. CASE walk = "slice"
  BY <1>1, <1>3, <1>4 DEF CodesFor, RustCodes, Finding, Traceback
<1>5. CASE walk # "slice" /\ Lang[m] # "python" /\ Lang[m] \notin Extras[Walker]
  BY <1>1, <1>5 DEF CodesFor, Traceback
<1>6. CASE walk # "slice" /\ (Lang[m] = "python" \/ Lang[m] \in Extras[Walker]) /\ Lang[m] = "go"
  BY <1>1, <1>3, <1>6 DEF CodesFor, GoCodes, Finding, Traceback
<1>7. CASE walk # "slice" /\ (Lang[m] = "python" \/ Lang[m] \in Extras[Walker]) /\ Lang[m] # "go"
  BY <1>1, <1>3, <1>7 DEF CodesFor, PythonCodes, Finding, Traceback
<1> QED
  BY <1>1, <1>4, <1>5, <1>6, <1>7

LEMMA CauseKept ==
  ASSUME Cause, source' = source, gate11' = gate11,
         \A i \in 1 .. Len(log) : i \in 1 .. Len(log') /\ log'[i] = log[i]
  PROVE  Cause'
<1>1. PICK m \in Modules : Present(m) /\
        \/ Parse[source[m]] = "undecodable"
        \/ gate11 /\ \E i \in 1 .. Len(log) : Misread(m, i)
  BY DEF Cause
<1>2. Present(m)'
  BY <1>1 DEF Present
<1>3. CASE Parse[source[m]] = "undecodable"
  BY <1>2, <1>3 DEF Cause
<1>4. CASE gate11 /\ \E i \in 1 .. Len(log) : Misread(m, i)
  <2>1. PICK i \in 1 .. Len(log) : Misread(m, i)
    BY <1>4
  <2>2. Misread(m, i)'
    BY <2>1 DEF Misread
  <2> QED
    BY <1>2, <1>4, <2>2 DEF Cause
<1> QED
  BY <1>1, <1>3, <1>4

(* What a step of the verifier gives.                                      *)
LEMMA VerifyGives ==
  ASSUME WalkTypeOK, Positions, FilesStill, ~edited, VerifyStep
  PROVE  /\ pc'[Walker] \in {"step7", "step8"} => base'[Walker] \in 1 .. Len(log)
         /\ pc'[Walker] = "step8" =>
              Step7(log[base'[Walker]], source[mod[Walker]]) = "ok"
         /\ pc'[Walker] = "done" /\ verdict'[Walker] = "traceback" => Cause
<1> DEFINE p == Walker
           c == source[mod[Walker]]
           b == base[Walker]
<1>0. p \in Procs /\ mod[p] \in Modules /\ Present(mod[p]) /\ walk = "verify"
  BY WalkAssumption DEF WalkTypeOK, TypeOK, FilesStill, VerifyStep
<1> USE DEF WalkTypeOK, TypeOK
<1>1. CASE Parsing(p)
  <2> DEFINE s == store[path[p]]
             code == Step6(log[s], arg[p].trust, arg[p].policy)
  <2>1. s \in -1 .. Len(log)
    BY <1>0
  <2>2. code # "traceback"
    BY DEF Step6
  <2>3. CASE s >= 1
    <3>1. /\ base'[p] = s
          /\ \/ pc'[p] = "done" /\ verdict'[p] \in {"CASM-V-021", code}
             \/ pc'[p] = "step7"
      <4> HIDE DEF code
      <4> QED
        BY <1>0, <1>1, <2>3 DEF Parsing, Report, Goto, code
    <3> HIDE DEF code
    <3> QED
      BY <2>1, <2>2, <2>3, <3>1
  <2>4. CASE ~(s >= 1)
    BY <1>0, <1>1, <2>4 DEF Parsing, Report
  <2> QED
    BY <2>3, <2>4
<1>2. CASE Step7Action(p)
  <2> DEFINE code == Step7(log[b], c)
  <2>1. code # "traceback"
    BY DEF Step7
  <2>2. b \in 1 .. Len(log) /\ base' = base
    BY <1>0, <1>2 DEF FilesStill, Step7Action
  <2>3. CASE code = "ok"
    BY <1>0, <1>2, <2>2, <2>3 DEF Step7Action, Goto
  <2>4. CASE code # "ok"
    BY <1>0, <1>2, <2>1, <2>4 DEF Step7Action, Report
  <2> QED
    BY <2>3, <2>4
<1>3. CASE Step8Action(p)
  <2>1. b \in 1 .. Len(log) /\ Step7(log[b], c) = "ok" /\ c \in Contents
    BY <1>0, <1>3 DEF FilesStill, Step8Action, Present
  <2>2. Canon[c] = log[b].root /\ Parse[c] # "undecodable" /\ gate11
    BY <1>0, <2>1 DEF Step7, Positions
  <2>3. ASSUME Report(p, "traceback"),
               LET lang == Lang[log[base[p]].mod] IN
               \/ ~Present(mod[p])
               \/ lang \notin Extras[p] \cup {"python"} \/ lang = "go"
               \/ Parse[source[mod[p]]] \notin {"ok", "dynamic"}
        PROVE  Cause
    <3>1. \/ Lang[log[b].mod] \notin Extras[p] \cup {"python"}
          \/ Lang[log[b].mod] = "go" \/ Parse[c] = "syntax"
      BY <1>0, <2>1, <2>2, <2>3, ContentsAssumption DEF ParseKinds
    <3>2. Misread(mod[p], b)
      BY <2>2, <3>1 DEF Misread
    <3> QED
      BY <1>0, <2>1, <2>2, <3>2 DEF Cause
  <2>4. CASE Goto(p, "step9")
    BY <1>0, <2>4 DEF Goto
  <2>5. ASSUME NEW v, Report(p, v), v # "traceback" \/ Cause
        PROVE  pc'[p] = "done" /\ (verdict'[p] = "traceback" => Cause)
    BY <1>0, <2>5 DEF Report
  <2>6. Goto(p, "step9") \/ \E v : Report(p, v) /\ (v # "traceback" \/ Cause)
    <3>1. SUFFICES ASSUME ~Goto(p, "step9")
                   PROVE  \E v : Report(p, v) /\ (v # "traceback" \/ Cause)
      OBVIOUS
    <3>2. PICK v : /\ Report(p, v)
                   /\ v = "traceback" =>
                        LET lang == Lang[log[base[p]].mod] IN
                        \/ ~Present(mod[p])
                        \/ lang \notin Extras[p] \cup {"python"} \/ lang = "go"
                        \/ Parse[source[mod[p]]] \notin {"ok", "dynamic"}
      BY <1>0, <1>3, <3>1, Step8Read
    <3> QED
      BY <2>3, <3>2
  <2> QED
    BY <2>4, <2>5, <2>6
<1>4. CASE Step9Action(p)
  <2>1. \E v \in {"OK", "CASM-V-060", "OK CASM-V-061"} : Report(p, v)
    BY <1>4 DEF Step9Action, Step9
  <2> QED
    BY <1>0, <2>1 DEF Report
<1> QED
  BY <1>1, <1>2, <1>3, <1>4 DEF VerifyStep

LEMMA FilesStillStep ==
  ASSUME WalkTypeOK, Hashed, Positions, FilesStill, [WalkNext]_allVars
  PROVE  FilesStill'
<1>0. Walker \in Procs /\ pc \in [Procs -> Running \cup {"idle", "done"}]
      /\ mod \in [Procs -> Modules]
  BY WalkAssumption DEF WalkTypeOK, TypeOK
<1>1. ASSUME NEW t, NEW flag, NEW trust, NEW policy, StartCheck(t, flag, trust, policy)
      PROVE  FilesStill'
  <2>1. ~crashed' /\ source' = source /\ walk' \in {"files", "ended"}
    BY <1>1 DEF StartCheck, Positions, files
  <2>2. walk' = "files" => \A m \in todo' : Present(m)
    BY <1>1 DEF StartCheck, Listing
  <2> QED
    BY <2>1, <2>2 DEF FilesStill, Present
<1>2. CASE CheckFile \/ SliceRust
  <2>1. /\ UNCHANGED <<source, log, gate11, edited>> /\ walk \in {"files", "slice"} /\ ~crashed
        /\ todo # {}
    BY <1>2, CheckSteps DEF CheckFile, SliceRust, Positions, WalkTypeOK, vars, walkHistory
  <2>2. CASE walk' = "slice" /\ half' = source[NextFile] /\ UNCHANGED <<todo, crashed>>
    BY <2>1, <2>2 DEF FilesStill, NextFile, Present
  <2>3. ASSUME NEW code \in Codes, code \in CodesFor(NextFile), Checked(code)
        PROVE  FilesStill'
    <3>1. SUFFICES ASSUME ~edited PROVE FilesStill'
      BY <2>1 DEF FilesStill
    <3>2. NextFile \in Modules /\ Present(NextFile)
          /\ (code = Traceback => Parse[source[NextFile]] = "undecodable")
      BY <2>1, <2>3, <3>1, CodeMeans, NextIn DEF WalkTypeOK
    <3>3. CASE code = Traceback /\ walk' = "ended"
      <4>1. Cause
        BY <3>2, <3>3 DEF Cause
      <4>2. Cause'
        BY <2>1, <4>1 DEF Cause, Misread, Present
      <4> QED
        BY <3>3, <4>2 DEF FilesStill
    <3>4. CASE walk' = "files" /\ crashed' = crashed
      <4>1. \A m \in todo' : Present(m)
        BY <2>1, <2>3, <3>1, FileDone DEF FilesStill
      <4> QED
        BY <2>1, <3>4, <4>1 DEF FilesStill, Present
    <3> QED
      BY <2>3, <3>3, <3>4, FileDone
  <2> QED
    BY <1>2, <2>2, <2>3, CheckSteps
<1>3. CASE ListBundles \/ EndWalk
  BY <1>3 DEF ListBundles, EndWalk, FilesStill, Positions
<1>4. CASE LocateModule
  <2>1. ~crashed' /\ source' = source /\ walk' \in {"gate11", "reread"}
    BY <1>4 DEF LocateModule, NextBundle, Positions, files
  <2>2. walk' = "reread" => Present(mod'[Walker])
    BY <1>0, <1>4 DEF LocateModule, NextBundle, WalkModule, AtStem, AtRecorded
  <2> QED
    BY <2>1, <2>2 DEF FilesStill, Present
<1>5. CASE Reread
  <2>1. UNCHANGED <<source, mod, crashed, edited>> /\ walk = "reread"
    BY <1>5 DEF Reread, files, walkHistory
  <2>2. walk' = "gate11" \/ (walk' = "verify" /\ pc'[Walker] = "parse")
    BY <1>0, <1>5 DEF Reread, NextBundle
  <2> QED
    BY <2>1, <2>2 DEF FilesStill, Positions, Present
<1>6. CASE VerifyStep
  <2>1. /\ UNCHANGED <<source, log, mod, gate11, edited, crashed>> /\ walk = "verify" /\ walk' = "verify"
        /\ ~crashed
    BY <1>6, VerifyMoves DEF walkVars, Positions
  <2>2. SUFFICES ASSUME ~edited PROVE FilesStill'
    BY <2>1 DEF FilesStill
  <2>3. Present(mod[Walker])
    BY <2>1, <2>2 DEF FilesStill
  <2>4. Cause => Cause'
    BY <2>1 DEF Cause, Misread, Present
  <2> QED
    BY <1>6, <2>1, <2>2, <2>3, <2>4, VerifyGives DEF FilesStill, Present
<1>7. CASE Collect
  <2>1. /\ UNCHANGED <<source, log, gate11, edited>> /\ ~crashed /\ pc[Walker] = "done"
        /\ walk = "verify"
        /\ \/ walk' = "gate11" /\ crashed' = crashed
           \/ walk' = "ended" /\ verdict[Walker] = "traceback"
    BY <1>7 DEF Collect, NextBundle, Abort, Positions, files, walkHistory
  <2>2. ~edited /\ verdict[Walker] = "traceback" => Cause'
    BY <2>1 DEF FilesStill, Cause, Misread, Present
  <2> QED
    BY <2>1, <2>2 DEF FilesStill
<1>8. CASE FinishCheck
  BY <1>8 DEF FinishCheck, FilesStill
<1>9. CASE /\ Beside
           /\ edited' = (walk # "idle" /\ (edited \/ source' # source))
           /\ UNCHANGED <<walk, target, gate11, todo, bundles, half, exit, crashed>>
  <2>1. WalkerKept /\ \A i \in 1 .. Len(log) : i \in 1 .. Len(log') /\ log'[i] = log[i]
    BY <1>9, BesideMoves DEF TypeInv, WalkTypeOK
  <2>2. CASE walk = "idle"
    BY <1>9, <2>2 DEF FilesStill, Positions
  <2>3. CASE walk # "idle" /\ ~edited'
    <3>1. ~edited /\ source' = source /\ NextFile' = NextFile
      BY <1>9, <2>3 DEF NextFile
    <3>2. Cause => Cause'
      BY <1>9, <2>1, <3>1, CauseKept
    <3> QED
      BY <1>9, <2>1, <3>1, <3>2 DEF FilesStill, WalkerKept, Present
  <2> QED
    BY <2>2, <2>3 DEF FilesStill
<1>10. CASE UNCHANGED allVars
  BY <1>10 DEF FilesStill, NextFile, Cause, Misread, Present, allVars, vars, walkVars, walkHistory
<1> QED
  BY <1>1, <1>2, <1>3, <1>4, <1>5, <1>6, <1>7, <1>8, <1>9, <1>10 DEF WalkNext

(* What the exit code says of a file it goes on saying.                    *)
LEMMA AnsweredKept ==
  ASSUME NEW m, Answered(m), source' = source, exit \in 0 .. 2, exit' \in 0 .. 2, exit' >= exit
  PROVE  Answered(m)'
BY DEF Answered

(* The exit code never falls while a walk goes on, and a step that takes a *)
(* bundle off the list does so for a reason.                               *)
LEMMA WalkKeeps ==
  ASSUME WalkTypeOK, Hashed, Positions,
         ListBundles \/ LocateModule \/ Reread \/ VerifyStep \/ Collect \/ EndWalk
  PROVE  /\ UNCHANGED <<source, store, log, arg, target, gate11, todo, edited, rewritten>>
         /\ ~crashed /\ walk \in {"files", "gate11", "reread", "verify"}
         /\ ~crashed' => exit' >= exit
<1>0. exit \in 0 .. 2 /\ exit >= exit
  BY DEF WalkTypeOK
<1>1. CASE ListBundles \/ EndWalk
  BY <1>0, <1>1 DEF ListBundles, EndWalk, Positions, vars, walkHistory
<1>2. CASE LocateModule
  BY <1>0, <1>2 DEF LocateModule, Positions, files, walkHistory
<1>3. CASE Reread
  <2>1. exit' >= exit
    BY <1>0, <1>3, Folded DEF Reread
  <2> QED
    BY <1>3, <2>1 DEF Reread, Positions, files, walkHistory
<1>4. CASE VerifyStep
  BY <1>0, <1>4, VerifyMoves DEF walkVars, Positions
<1>5. CASE Collect
  <2>1. ~crashed' => exit' = Worse(VerdictCode(verdict[Walker]))
    BY <1>5 DEF Collect, Abort
  <2>2. Worse(VerdictCode(verdict[Walker])) >= exit
    BY <1>0, Folded, CodeTypes
  <2> QED
    BY <1>5, <2>1, <2>2 DEF Collect, Positions, files, walkHistory
<1> QED
  BY <1>1, <1>2, <1>3, <1>4, <1>5

LEMMA FilesCoveredStep ==
  ASSUME WalkTypeOK, Hashed, Positions, FilesStill, FilesCovered, [WalkNext]_allVars
  PROVE  FilesCovered'
<1>0. exit \in 0 .. 2 /\ exit' \in 0 .. 2
  BY WalkTypes DEF WalkTypeOK
<1> SUFFICES ASSUME walk' # "idle", ~crashed', Undisturbed',
                    NEW m \in Modules, InScope(m)', Present(m)'
             PROVE  m \in todo' \/ Answered(m)'
  BY DEF FilesCovered
<1>1. ASSUME UNCHANGED <<source, target, edited, rewritten>>, walk # "idle", ~crashed,
             exit' >= exit, m \in todo => m \in todo' \/ Answered(m)'
      PROVE  m \in todo' \/ Answered(m)'
  <2>1. Undisturbed /\ InScope(m) /\ Present(m)
    BY <1>1 DEF Undisturbed, InScope, Present
  <2>2. m \in todo \/ Answered(m)
    BY <1>1, <2>1 DEF FilesCovered
  <2> QED
    BY <1>0, <1>1, <2>2, AnsweredKept
<1>2. ASSUME NEW t \in Modules \cup {"directory"}, NEW flag, NEW trust, NEW policy,
             StartCheck(t, flag, trust, policy)
      PROVE  m \in todo'
  <2>1. source' = source /\ target' = t
    BY <1>2 DEF StartCheck, files
  <2>2. Present(m) /\ (t = m \/ (t = "directory" /\ m \notin Excluded))
    BY <2>1 DEF InScope, Present
  <2>3. m # "directory"
    BY WalkAssumption
  <2>4. todo' = Listing(t)
    BY <1>2, <2>2 DEF StartCheck
  <2> QED
    BY <2>2, <2>3, <2>4 DEF Listing
<1>3. CASE CheckFile \/ SliceRust
  <2>1. /\ UNCHANGED <<source, target, edited, rewritten>> /\ walk \in {"files", "slice"} /\ ~crashed
        /\ todo # {} /\ ~edited
    BY <1>3, CheckSteps DEF CheckFile, SliceRust, Positions, WalkTypeOK, vars, walkHistory, Undisturbed
  <2>2. CASE UNCHANGED <<todo, exit>>
    BY <1>0, <1>1, <2>1, <2>2
  <2>3. ASSUME NEW code \in Codes, code \in CodesFor(NextFile), Checked(code)
        PROVE  m \in todo' \/ Answered(m)'
    <3>1. /\ todo' = todo \ {NextFile} /\ code # Traceback
          /\ code \in 0 .. 2 /\ exit' >= exit /\ exit' >= code
      <4>1. CASE code = Traceback /\ crashed' = TRUE
        BY <4>1
      <4>2. todo' = todo \ {NextFile}
        BY <2>3, FileDone
      <4>3. CASE code \in 0 .. 2 /\ exit' >= exit /\ exit' >= code
        BY <4>2, <4>3 DEF Traceback
      <4> QED
        BY <2>3, <4>1, <4>3, FileDone
    <3>2. ASSUME m = NextFile PROVE Answered(m)'
      <4>1. /\ source[m] \in Marads => code >= 1
            /\ Parse[source[m]] = "syntax" /\ Lang[m] \in Extras[Walker] \cup {"python"} => code = 2
        BY <2>1, <2>3, <3>1, <3>2, CodeMeans
      <4> QED
        BY <1>0, <2>1, <3>1, <4>1 DEF Answered
    <3> QED
      BY <1>1, <2>1, <3>1, <3>2
  <2> QED
    BY <1>3, <2>2, <2>3, CheckSteps
<1>4. CASE ListBundles \/ LocateModule \/ Reread \/ VerifyStep \/ Collect \/ EndWalk
  BY <1>1, <1>4, WalkKeeps
<1>5. CASE /\ edited' = (walk # "idle" /\ (edited \/ source' # source))
           /\ rewritten' = (walk # "idle" /\ (rewritten \/ store' # store))
           /\ UNCHANGED <<walk, target, gate11, todo, bundles, half, exit, crashed>>
  <2>1. ~edited /\ ~rewritten /\ source' = source /\ walk # "idle" /\ ~crashed
    BY <1>5 DEF Undisturbed
  <2>2. UNCHANGED <<source, target, todo>> /\ exit' = exit
    BY <1>5, <2>1
  <2>3. Undisturbed /\ InScope(m) /\ Present(m)
    BY <2>1, <2>2 DEF Undisturbed, InScope, Present
  <2>4. m \in todo \/ Answered(m)
    BY <2>1, <2>3 DEF FilesCovered
  <2>5. exit' >= exit
    BY <1>0, <2>2
  <2> QED
    BY <1>0, <2>2, <2>4, <2>5, AnsweredKept
<1>6. CASE UNCHANGED allVars
  BY <1>0, <1>6 DEF FilesCovered, Undisturbed, InScope, Answered, Present, allVars, vars, walkVars, walkHistory
<1> QED
  BY <1>2, <1>3, <1>4, <1>5, <1>6 DEF WalkNext, FinishCheck

-----------------------------------------------------------------------------
(* Bundles.                                                                *)

(* There is one module at most that a bundle is placed beside.             *)
LEMMA OneModule ==
  ASSUME NEW a, NEW m \in WalkModule(a), NEW n \in WalkModule(a)
  PROVE  m = n
BY DEF WalkModule, AtStem, AtRecorded

(* Nothing else changing, a readable bundle's place and blame stay.        *)
SameLog ==
  /\ UNCHANGED <<source, store>>
  /\ \A i \in 1 .. Len(log) : log'[i] = log[i]

LEMMA PlaceKept ==
  ASSUME WalkTypeOK, SameLog, NEW a \in Paths
  PROVE  /\ Whole(a)' = Whole(a) /\ (Whole(a) => log'[store[a]] = log[store[a]])
         /\ WalkModule(a)' = WalkModule(a)
<1>1. Whole(a)' = Whole(a) /\ AtStem(a)' = AtStem(a)
  BY DEF SameLog, Whole, AtStem, Present
<1>2. Whole(a) => log'[store[a]] = log[store[a]]
  BY DEF SameLog, Whole, WalkTypeOK, TypeOK
<1>3. AtRecorded(a)' = AtRecorded(a)
  <2>1. CASE Whole(a)
    BY <1>1, <1>2, <2>1 DEF AtRecorded, SameLog, Present
  <2>2. CASE ~Whole(a)
    BY <1>1, <2>2 DEF AtRecorded
  <2> QED
    BY <2>1, <2>2
<1> QED
  BY <1>1, <1>2, <1>3 DEF WalkModule

LEMMA BlameKept ==
  ASSUME WalkTypeOK, SameLog, arg'[Walker] = arg[Walker], NEW a \in Paths, Whole(a)', Blamed(a)'
  PROVE  Whole(a) /\ Blamed(a)
<1>1. /\ Whole(a) /\ log'[store[a]] = log[store[a]]
      /\ WalkModule(a)' = WalkModule(a) /\ UNCHANGED <<source, store>>
  BY PlaceKept DEF SameLog
<1> QED
  BY <1>1 DEF Blamed

(* A bundle whose verdict accepts it has nothing to be blamed for.         *)
LEMMA AcceptedUnblamed ==
  ASSUME WalkTypeOK, Positions, InHand, Undisturbed, Collect, verdict[Walker] \in Accepting
  PROVE  ~Blamed(ThisBundle)
<1>1. /\ mod[Walker] \in WalkModule(ThisBundle)
      /\ base[Walker] = store[ThisBundle]
      /\ arg[Walker].policy \in {"any", log[base[Walker]].by}
      /\ Canon[source[mod[Walker]]] = log[base[Walker]].root
  BY DEF Collect, InHand, Accepted
<1> QED
  BY <1>1, OneModule DEF Blamed

(* What a step of the verifier has shown of the bundle in hand.            *)
HandSigned(b) ==
  /\ Whole(ThisBundle) /\ b = store[ThisBundle]
  /\ arg[Walker].policy \in {"any", log[b].by}
HandAttested(b) == Canon[source[mod[Walker]]] = log[b].root

LEMMA VerifyShows ==
  ASSUME WalkTypeOK, Positions, InHand, Undisturbed, VerifyStep,
         pc'[Walker] \in {"step7", "step8", "step9"} \/ Accepted'
  PROVE  /\ HandSigned(base'[Walker])
         /\ pc'[Walker] \in {"step8", "step9"} \/ Accepted' => HandAttested(base'[Walker])
<1> DEFINE p == Walker
           c == source[mod[Walker]]
           b == base[Walker]
<1>0. p \in Procs /\ walk = "verify" /\ path[p] = ThisBundle
  BY WalkAssumption DEF VerifyStep, Positions
<1>1. pc[p] \in {"step7", "step8", "step9"} => HandSigned(b)
  BY <1>0 DEF InHand, HandSigned
<1>2. pc[p] \in {"step8", "step9"} => HandAttested(b)
  BY <1>0 DEF InHand, HandAttested
<1> USE DEF WalkTypeOK, TypeOK
<1>3. CASE Parsing(p)
  <2> DEFINE s == store[path[p]]
             code == Step6(log[s], arg[p].trust, arg[p].policy)
  <2>1. code # "ok" => code \notin Accepting
    BY DEF Step6, Accepting
  <2>2. code = "ok" => arg[p].policy \in {"any", log[s].by}
    BY DEF Step6
  <2>3. CASE s >= 1 /\ code = "ok"
    <3>1. /\ base'[p] = s
          /\ \/ pc'[p] = "done" /\ verdict'[p] = "CASM-V-021"
             \/ pc'[p] = "step7"
      BY <1>0, <1>3, <2>3 DEF Parsing, Report, Goto
    <3>2. HandSigned(base'[p])
      BY <1>0, <2>2, <2>3, <3>1 DEF HandSigned, Whole
    <3>3. ~(pc'[p] \in {"step8", "step9"} \/ Accepted')
      BY <3>1 DEF Accepted, Accepting
    <3> QED
      BY <3>2, <3>3
  <2>4. CASE s >= 1 /\ code # "ok"
    <3>1. pc'[p] = "done" /\ verdict'[p] \in {"CASM-V-021", code}
      <4> HIDE DEF code
      <4> QED
        BY <1>0, <1>3, <2>4 DEF Parsing, Report, code
    <3> QED
      BY <2>1, <2>4, <3>1 DEF Accepted, Accepting
  <2>5. CASE ~(s >= 1)
    BY <1>0, <1>3, <2>5 DEF Parsing, Report, Accepted, Accepting
  <2> QED
    BY <2>3, <2>4, <2>5
<1>4. CASE Step7Action(p)
  <2> DEFINE code == Step7(log[b], c)
  <2>1. HandSigned(b) /\ base' = base
    BY <1>1, <1>4 DEF Step7Action
  <2>2. CASE code = "ok"
    <3>1. HandAttested(b)
      BY <2>2 DEF Step7, HandAttested
    <3> QED
      BY <2>1, <3>1
  <2>3. CASE code # "ok"
    <3>1. code \notin Accepting
      BY <2>3 DEF Step7, Accepting
    <3>2. pc'[p] = "done" /\ verdict'[p] \in {"traceback", code}
      BY <1>0, <1>4, <2>3 DEF Step7Action, Report
    <3> QED
      BY <3>1, <3>2 DEF Accepted, Accepting
  <2> QED
    BY <2>2, <2>3
<1>5. CASE Step8Action(p) \/ Step9Action(p)
  BY <1>1, <1>2, <1>5 DEF Step8Action, Step9Action
<1> QED
  BY <1>3, <1>4, <1>5 DEF VerifyStep

(* A step beside a walk that stays undisturbed changes nothing it reads.   *)
LEMMA BesideQuiet ==
  ASSUME WalkTypeOK, Hashed, Beside, walk # "idle", Undisturbed',
         edited' = (walk # "idle" /\ (edited \/ source' # source)),
         rewritten' = (walk # "idle" /\ (rewritten \/ store' # store))
  PROVE  Undisturbed /\ SameLog /\ WalkerKept
<1>1. ~edited /\ ~rewritten /\ source' = source /\ store' = store
  BY DEF Undisturbed
<1>2. WalkerKept /\ \A i \in 1 .. Len(log) : log'[i] = log[i]
  BY BesideMoves DEF TypeInv, WalkTypeOK
<1> QED
  BY <1>1, <1>2 DEF Undisturbed, SameLog

LEMMA InHandStep ==
  ASSUME WalkTypeOK, Hashed, Positions, InHand, [WalkNext]_allVars
  PROVE  InHand'
<1>0. Walker \in Procs /\ pc \in [Procs -> Running \cup {"idle", "done"}]
      /\ mod \in [Procs -> Modules]
  BY WalkAssumption DEF WalkTypeOK, TypeOK
<1> SUFFICES ASSUME walk' \in {"reread", "verify"}, Undisturbed'
             PROVE  /\ mod'[Walker] \in WalkModule(ThisBundle)'
                    /\ walk' = "verify" /\ (pc'[Walker] \in {"step7", "step8", "step9"} \/ Accepted') =>
                         HandSigned(base[Walker])'
                    /\ walk' = "verify" /\ (pc'[Walker] \in {"step8", "step9"} \/ Accepted') =>
                         HandAttested(base[Walker])'
  BY DEF InHand, HandSigned, HandAttested
<1>1. CASE LocateModule
  <2>1. /\ UNCHANGED <<source, store, log, bundles>> /\ walk' = "reread"
        /\ mod'[Walker] \in WalkModule(ThisBundle)
    BY <1>0, <1>1 DEF LocateModule, NextBundle, files
  <2>2. WalkModule(ThisBundle)' = WalkModule(ThisBundle)
    BY <2>1 DEF ThisBundle, WalkModule, AtStem, AtRecorded, Whole, Present
  <2> QED
    BY <2>1, <2>2
<1>2. CASE Reread
  <2>1. /\ UNCHANGED <<source, store, log, mod, bundles>> /\ walk' = "verify"
        /\ pc'[Walker] = "parse" /\ walk = "reread"
    BY <1>0, <1>2 DEF Reread, NextBundle, files
  <2>2. Undisturbed
    BY <1>2 DEF Reread, Undisturbed, walkHistory
  <2>3. WalkModule(ThisBundle)' = WalkModule(ThisBundle)
    BY <2>1 DEF ThisBundle, WalkModule, AtStem, AtRecorded, Whole, Present
  <2> QED
    BY <2>1, <2>2, <2>3 DEF InHand, Accepted
<1>3. CASE VerifyStep
  <2>1. UNCHANGED <<source, store, log, mod, arg, bundles, edited, rewritten>> /\ walk = "verify"
    BY <1>3, VerifyMoves DEF walkVars
  <2>2. Undisturbed
    BY <2>1 DEF Undisturbed
  <2>3. WalkModule(ThisBundle)' = WalkModule(ThisBundle)
    BY <2>1 DEF ThisBundle, WalkModule, AtStem, AtRecorded, Whole, Present
  <2>4. mod[Walker] \in WalkModule(ThisBundle)
    BY <2>1, <2>2 DEF InHand
  <2>5. /\ HandSigned(base'[Walker]) => HandSigned(base[Walker])'
        /\ HandAttested(base'[Walker]) => HandAttested(base[Walker])'
    BY <2>1 DEF HandSigned, HandAttested, ThisBundle, Whole
  <2> QED
    BY <1>3, <2>1, <2>2, <2>3, <2>4, <2>5, VerifyShows
<1>4. CASE /\ Beside
           /\ edited' = (walk # "idle" /\ (edited \/ source' # source))
           /\ rewritten' = (walk # "idle" /\ (rewritten \/ store' # store))
           /\ UNCHANGED <<walk, target, gate11, todo, bundles, half, exit, crashed>>
  <2>1. Undisturbed /\ SameLog /\ WalkerKept /\ walk \in {"reread", "verify"}
        /\ walk' = walk /\ ThisBundle' = ThisBundle
    BY <1>4, BesideQuiet DEF ThisBundle
  <2>2. ThisBundle \in Paths
    BY <2>1, NextIn DEF WalkTypeOK
  <2>3. /\ Whole(ThisBundle)' = Whole(ThisBundle)
        /\ Whole(ThisBundle) => log'[store[ThisBundle]] = log[store[ThisBundle]]
        /\ WalkModule(ThisBundle)' = WalkModule(ThisBundle)
    BY <2>1, <2>2, PlaceKept
  <2>4. Accepted' = Accepted
    BY <2>1 DEF WalkerKept, Accepted
  <2>5. HandSigned(base[Walker]) => HandSigned(base[Walker])'
    BY <2>1, <2>3 DEF HandSigned, SameLog, WalkerKept
  <2>6. HandSigned(base[Walker]) /\ HandAttested(base[Walker]) => HandAttested(base[Walker])'
    BY <2>1, <2>3 DEF HandSigned, HandAttested, SameLog, WalkerKept
  <2>7. /\ mod[Walker] \in WalkModule(ThisBundle)
        /\ walk = "verify" /\ (pc[Walker] \in {"step7", "step8", "step9"} \/ Accepted) =>
             HandSigned(base[Walker])
        /\ walk = "verify" /\ (pc[Walker] \in {"step8", "step9"} \/ Accepted) =>
             HandAttested(base[Walker])
    BY <2>1 DEF InHand, HandSigned, HandAttested
  <2> QED
    BY <2>1, <2>3, <2>4, <2>5, <2>6, <2>7 DEF WalkerKept
<1>5. CASE UNCHANGED allVars
  <2>1. InHand'
    BY <1>5 DEF InHand, Accepted, Undisturbed, ThisBundle, WalkModule, AtStem, AtRecorded,
       Whole, Present, allVars, vars, walkVars, walkHistory
  <2> QED
    BY <2>1 DEF InHand, HandSigned, HandAttested
<1>6. ~(\/ \E t, flag, trust, policy : StartCheck(t, flag, trust, policy)
        \/ ListBundles \/ Collect \/ EndWalk \/ FinishCheck)
  BY DEF StartCheck, ListBundles, Collect, NextBundle, Abort, EndWalk, FinishCheck
<1>7. CASE CheckFile \/ SliceRust
  <2>1. walk' \in {"slice", "files", "ended"}
    BY <1>7, CheckSteps DEF Checked, Abort
  <2> QED
    BY <2>1
<1> QED
  BY <1>1, <1>2, <1>3, <1>4, <1>5, <1>6, <1>7 DEF WalkNext

LEMMA BundlesCoveredStep ==
  ASSUME WalkTypeOK, Hashed, Positions, BundlesCovered, InHand, [WalkNext]_allVars
  PROVE  BundlesCovered'
<1>0. exit \in 0 .. 2 /\ exit' \in 0 .. 2
  BY WalkTypes DEF WalkTypeOK
<1> SUFFICES ASSUME walk' \in {"gate11", "reread", "verify", "ended"}, ~crashed', Undisturbed',
                    gate11', NEW a \in Paths, Whole(a)', Blamed(a)'
             PROVE  a \in bundles' \/ exit' >= 1
  BY DEF BundlesCovered
(* A step under which nothing changes for a walk already at its bundles.   *)
<1>1. ASSUME SameLog, arg'[Walker] = arg[Walker], Undisturbed, gate11, ~crashed,
             walk \in {"gate11", "reread", "verify", "ended"}, exit' >= exit,
             bundles \subseteq bundles' \/ exit' >= 1
      PROVE  a \in bundles' \/ exit' >= 1
  <2>1. Whole(a) /\ Blamed(a)
    BY <1>1, BlameKept
  <2>2. a \in bundles \/ exit >= 1
    BY <1>1, <2>1 DEF BundlesCovered
  <2> QED
    BY <1>0, <1>1, <2>2
<1>2. ASSUME NEW t, NEW flag, NEW trust, NEW policy, StartCheck(t, flag, trust, policy)
      PROVE  exit' >= 1
  BY <1>2 DEF StartCheck
<1>3. CASE CheckFile \/ SliceRust
  <2>1. walk' \in {"slice", "files"} \/ crashed' = TRUE
    BY <1>3, CheckSteps DEF Checked, Abort
  <2> QED
    BY <2>1
<1>4. ASSUME ListBundles \/ LocateModule \/ Reread \/ VerifyStep \/ Collect \/ EndWalk
      PROVE  /\ SameLog /\ arg' = arg /\ ~crashed /\ Undisturbed /\ gate11
             /\ exit' >= exit /\ Whole(a) /\ Blamed(a)
  <2>1. /\ UNCHANGED <<source, store, log, arg, target, gate11, todo, edited, rewritten>>
        /\ ~crashed /\ exit' >= exit
    BY <1>4, WalkKeeps
  <2>2. SameLog /\ Undisturbed /\ gate11
    BY <2>1 DEF SameLog, Undisturbed
  <2> QED
    BY <2>1, <2>2, BlameKept
<1>5. CASE ListBundles
  <2>1. bundles' = {b \in Paths : store[b] # Absent}
    BY <1>4, <1>5 DEF ListBundles
  <2>2. store[a] # Absent
    BY <1>4, <1>5 DEF Whole, Absent
  <2> QED
    BY <2>1, <2>2
<1>6. CASE LocateModule
  <2>1. CASE UNCHANGED bundles
    BY <1>1, <1>4, <1>6, <2>1 DEF LocateModule
  <2>2. CASE WalkModule(ThisBundle) = {} /\ bundles' = bundles \ {ThisBundle}
    <3>1. a # ThisBundle
      BY <1>4, <1>6, <2>2 DEF Blamed
    <3>2. a \in bundles \/ exit >= 1
      BY <1>4, <1>6 DEF BundlesCovered, LocateModule
    <3> QED
      BY <1>0, <1>4, <1>6, <2>2, <3>1, <3>2
  <2> QED
    BY <1>6, <2>1, <2>2 DEF LocateModule, NextBundle
<1>7. CASE Reread
  <2>1. CASE UNCHANGED bundles
    BY <1>1, <1>4, <1>7, <2>1 DEF Reread
  <2>2. CASE exit' = Worse(1)
    BY <1>0, <2>2, Folded
  <2> QED
    BY <1>7, <2>1, <2>2 DEF Reread
<1>8. CASE VerifyStep
  <2>1. UNCHANGED bundles /\ walk = "verify"
    BY <1>8, VerifyMoves DEF walkVars
  <2> QED
    BY <1>1, <1>4, <1>8, <2>1
<1>9. CASE Collect
  <2>1. /\ bundles' = bundles \ {ThisBundle} /\ walk = "verify"
        /\ exit' = Worse(VerdictCode(verdict[Walker]))
    BY <1>9 DEF Collect, NextBundle, Abort
  <2>2. CASE verdict[Walker] \in Accepting
    <3>1. a # ThisBundle
      BY <1>4, <1>9, <2>2, AcceptedUnblamed
    <3>2. a \in bundles \/ exit >= 1
      BY <1>4, <1>9, <2>1 DEF BundlesCovered
    <3> QED
      BY <1>0, <1>4, <1>9, <2>1, <3>1, <3>2
  <2>3. CASE verdict[Walker] \notin Accepting
    <3>1. VerdictCode(verdict[Walker]) \in 1 .. 2
      BY <2>3 DEF VerdictCode
    <3>2. Worse(VerdictCode(verdict[Walker])) >= VerdictCode(verdict[Walker])
      BY <1>0, <3>1, Folded
    <3> QED
      BY <1>0, <2>1, <3>1, <3>2
  <2> QED
    BY <2>2, <2>3
<1>10. CASE EndWalk
  BY <1>1, <1>4, <1>10 DEF EndWalk
<1>11. CASE /\ Beside
            /\ edited' = (walk # "idle" /\ (edited \/ source' # source))
            /\ rewritten' = (walk # "idle" /\ (rewritten \/ store' # store))
            /\ UNCHANGED <<walk, target, gate11, todo, bundles, half, exit, crashed>>
  <2>1. Undisturbed /\ SameLog /\ WalkerKept
    BY <1>11, BesideQuiet
  <2>2. exit' >= exit /\ gate11 /\ ~crashed /\ bundles' = bundles /\ walk' = walk
    BY <1>0, <1>11
  <2> QED
    BY <1>1, <2>1, <2>2 DEF WalkerKept
<1>12. CASE UNCHANGED allVars
  <2>1. BundlesCovered'
    BY <1>12 DEF BundlesCovered, Undisturbed, Blamed, WalkModule, AtStem, AtRecorded,
       Whole, Present, allVars, vars, walkVars, walkHistory
  <2> QED
    BY <2>1 DEF BundlesCovered
<1> QED
  BY <1>2, <1>3, <1>5, <1>6, <1>7, <1>8, <1>9, <1>10, <1>11, <1>12 DEF WalkNext, FinishCheck

-----------------------------------------------------------------------------
LEMMA WalkInvariant == WalkSpec => []WalkInv
<1>1. WalkInit => WalkInv
  <2> SUFFICES ASSUME WalkInit PROVE WalkInv
    OBVIOUS
  <2>1. TypeOK /\ Hashed
    BY TypeInit DEF WalkInit, TypeInv
  <2>2. WalkTypeOK
    <3>1. /\ walk = "idle" /\ target = "directory" /\ gate11 = FALSE
          /\ todo = {} /\ bundles = {} /\ half = "missing"
          /\ exit = 0 /\ crashed = FALSE /\ edited = FALSE /\ rewritten = FALSE
      BY DEF WalkInit
    <3>2. {gate11, crashed, edited, rewritten} \subseteq BOOLEAN
      BY <3>1
    <3>3. exit \in 0 .. 2
      BY <3>1
    <3> QED
      BY <2>1, <3>1, <3>2, <3>3 DEF WalkTypeOK
  <2>3. Positions
    BY WalkAssumption DEF WalkInit, Init, Positions
  <2>4. FilesStill /\ FilesCovered /\ BundlesCovered /\ InHand
    BY DEF WalkInit, FilesStill, FilesCovered, BundlesCovered, InHand
  <2> QED
    BY <2>1, <2>2, <2>3, <2>4 DEF WalkInv
<1>2. WalkInv /\ [WalkNext]_allVars => WalkInv'
  BY WalkTypes, PositionsStep, FilesStillStep, FilesCoveredStep, BundlesCoveredStep, InHandStep
  DEF WalkInv
<1> QED
  BY <1>1, <1>2, PTL DEF WalkSpec

(* The walk's variables stay in their types, whatever runs beside it: in   *)
(* particular every code that is folded into the exit code is 0, 1 or 2.   *)
THEOREM WalkTypeCorrect == WalkSpec => []WalkTypeOK
<1>1. WalkInv => WalkTypeOK
  BY DEF WalkInv
<1> QED
  BY <1>1, WalkInvariant, PTL

(* An exception that ends a walk over unchanged files has its cause in one *)
(* of them: bundles torn, replaced or lost under check never end it.       *)
THEOREM TracebackCorrect == WalkSpec => []TracebackHasCause
<1>1. WalkInv => TracebackHasCause
  BY DEF WalkInv, FilesStill, Cause, Misread, TracebackHasCause
<1> QED
  BY <1>1, WalkInvariant, PTL

(* The exit code of an undisturbed walk answers for every file in its      *)
(* scope and for every bundle it could place.                              *)
THEOREM ExitCorrect == WalkSpec => []ExitCoversAll
<1>1. WalkInv => ExitCoversAll
  <2> SUFFICES ASSUME WalkInv, walk = "ended", ~crashed, Undisturbed
               PROVE  /\ \A m \in Modules : InScope(m) /\ Present(m) => Answered(m)
                      /\ gate11 => \A a \in Paths : Whole(a) /\ Blamed(a) => exit >= 1
    BY DEF ExitCoversAll, InScope, Answered
  <2>1. todo = {} /\ bundles = {}
    BY DEF WalkInv, Positions
  <2> QED
    BY <2>1 DEF WalkInv, FilesCovered, BundlesCovered
<1> QED
  BY <1>1, WalkInvariant, PTL
=============================================================================
