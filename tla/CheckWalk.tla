------------------------------ MODULE CheckWalk ------------------------------
(***************************************************************************)
(* "furqan-lint check [--gate11] TARGET": one process walks the files of a *)
(* listing it took at the start, then the bundles of a second listing, and *)
(* folds what each of them gives into one exit code.  Files are edited and *)
(* bundles rewritten meanwhile by the developer and the writers of         *)
(* ManifestStore; a bundle is verified by the steps Parsing to Step9Action *)
(* of ManifestStore, which are the same code.                              *)
(***************************************************************************)
EXTENDS ManifestStore

CONSTANTS
  Walker,       (* the process that runs check; not a writer               *)
  FileOrder,    (* the module files in sorted order                        *)
  BundleOrder,  (* the bundle files in sorted order                        *)
  Excluded,     (* module files under a directory of EXCLUDED_DIRS         *)
  Marads,       (* the texts in which the checkers find a violation        *)
  StemPy,       (* bundle file -> the module file at its stem plus ".py",  *)
                (* or "missing"                                            *)
  FromCwd       (* module -> the file its recorded path names from the     *)
                (* directory check is started in, or "missing"             *)

ASSUME WalkAssumption ==
  /\ Walker \in Procs \ Writers
  /\ FileOrder \in Seq(Modules) /\ BundleOrder \in Seq(Paths)
  /\ \A m \in Modules : \E i \in DOMAIN FileOrder : FileOrder[i] = m
  /\ \A a \in Paths : \E i \in DOMAIN BundleOrder : BundleOrder[i] = a
  /\ "directory" \notin Modules
  /\ Excluded \subseteq Modules
  /\ Marads \subseteq {c \in Contents : Parse[c] \in {"ok", "dynamic"}}
  /\ StemPy \in [Paths -> Modules \cup {"missing"}]
  /\ FromCwd \in [Modules -> Modules \cup {"missing"}]

VARIABLES
  walk,         (* where the walk is                                       *)
  target,       (* "directory", or the single module file to check         *)
  gate11,       (* whether --gate11 was given                              *)
  todo,         (* module files still to check                             *)
  bundles,      (* bundle files still to verify                            *)
  half,         (* the text a Rust file was parsed from, until it is       *)
                (* sliced from a second read                               *)
  exit,         (* the exit code so far                                    *)
  crashed,      (* whether an exception nobody catches ended the walk      *)
  edited,       (* history: a module file changed since the walk began     *)
  rewritten     (* history: a bundle file changed since the walk began     *)

walkHistory == <<edited, rewritten>>
walkVars == <<walk, target, gate11, todo, bundles, half, exit, crashed,
              edited, rewritten>>
allVars == <<vars, walkVars>>

Traceback == -1
(* Mutant: the codes are added up.                                         *)
WorseSum(code) == exit + code

Worse(code) == IF code > exit THEN code ELSE exit
Listing(t) == IF t = "directory"
              THEN {m \in Modules \ Excluded : Present(m)}
              ELSE {t}

(* Files and bundles are taken in sorted order.                            *)
First(order, S) ==
  order[CHOOSE i \in DOMAIN order :
          order[i] \in S /\ \A j \in DOMAIN order : j < i => order[j] \notin S]
NextFile == First(FileOrder, todo)
ThisBundle == First(BundleOrder, bundles)

WalkInit ==
  /\ Init
  /\ walk = "idle" /\ target = "directory" /\ gate11 = FALSE
  /\ todo = {} /\ bundles = {} /\ half = "missing"
  /\ exit = 0 /\ crashed = FALSE
  /\ edited = FALSE /\ rewritten = FALSE

-----------------------------------------------------------------------------
(* main: the target must exist; a directory is listed at once.             *)
StartCheck(t, flag, trust, policy) ==
  /\ walk = "idle"
  /\ target' = t /\ gate11' = flag
  /\ arg' = [arg EXCEPT ![Walker] = [trust |-> trust, policy |-> policy]]
  /\ IF t = "directory" \/ Present(t)
       THEN walk' = "files" /\ todo' = Listing(t) /\ UNCHANGED exit
       ELSE walk' = "ended" /\ exit' = 1 /\ UNCHANGED todo
  /\ UNCHANGED <<files, history, pc, path, mod, base, draft, shared, verdict,
                 bundles, half, crashed, walkHistory>>

(* The exit codes one check may give for the file it has just read.  goast *)
(* reads the file itself: its every failure, a time-out included, is a     *)
(* parse error.                                                            *)
Finding(c) == IF c \in Marads THEN 1 ELSE 0

PythonCodes(m) ==
  IF ~Present(m) \/ Parse[source[m]] = "undecodable" THEN {Traceback}
  ELSE IF Parse[source[m]] = "syntax" THEN {2}
  ELSE {Finding(source[m])}

GoCodes(m) ==
  IF ~Present(m) \/ Parse[source[m]] \in {"syntax", "undecodable"} THEN {2}
  ELSE {Finding(source[m]), 2}

(* The Rust adapter parses one read and slices names out of the next; from *)
(* two different texts, or from bytes that are not UTF-8, anything comes.  *)
RustCodes(m) ==
  IF ~Present(m) THEN {Traceback}
  ELSE IF Parse[half] = "undecodable" THEN {0, 1, 2, Traceback}
  ELSE IF Parse[half] = "syntax" THEN {2}
  ELSE IF source[m] = half THEN {Finding(half)}
  ELSE {0, 1, Traceback}

Abort == walk' = "ended" /\ exit' = 1 /\ crashed' = TRUE

(* Mutant: the last file's code is the walk's.                             *)
CheckedLast(code) ==
  /\ IF code = Traceback THEN Abort
     ELSE walk' = "files" /\ exit' = code /\ UNCHANGED crashed
  /\ todo' = todo \ {NextFile}

Checked(code) ==
  /\ IF code = Traceback THEN Abort
     ELSE walk' = "files" /\ exit' = Worse(code) /\ UNCHANGED crashed
  /\ todo' = todo \ {NextFile}

CheckFile ==
  /\ walk = "files" /\ todo # {}
  /\ LET m == NextFile IN
     IF Lang[m] # "python" /\ Lang[m] \notin Extras[Walker]
     THEN Checked(1) /\ UNCHANGED half
     ELSE IF Lang[m] = "rust" /\ Present(m)
     THEN /\ half' = source[m] /\ walk' = "slice"
          /\ UNCHANGED <<todo, exit, crashed>>
     ELSE /\ \E code \in IF Lang[m] = "go" THEN GoCodes(m) ELSE PythonCodes(m) :
               Checked(code)
          /\ UNCHANGED half
  /\ UNCHANGED <<vars, target, gate11, bundles, walkHistory>>

SliceRust ==
  /\ walk = "slice"
  /\ \E code \in RustCodes(NextFile) : Checked(code)
  /\ half' = "missing"
  /\ UNCHANGED <<vars, target, gate11, bundles, walkHistory>>

-----------------------------------------------------------------------------
(* cmd_check_gate11 over the bundles of the target's directory.            *)
ListBundles ==
  /\ walk = "files" /\ todo = {}
  /\ IF gate11
       THEN /\ bundles' = {a \in Paths : store[a] # Absent}
            /\ walk' = "gate11"
       ELSE walk' = "ended" /\ UNCHANGED bundles
  /\ UNCHANGED <<vars, target, gate11, todo, half, exit, crashed, walkHistory>>

(* The module is the file at the stem plus ".py", whatever the language,   *)
(* else the file the recorded path names from the working directory.       *)
AtStem(a) == {m \in Modules : m = StemPy[a] /\ Present(m)}
AtRecorded(a) ==
  {m \in Modules : Whole(a) /\ m = FromCwd[log[store[a]].mod] /\ Present(m)}
WalkModule(a) == IF AtStem(a) # {} THEN AtStem(a) ELSE AtRecorded(a)

NextBundle == bundles' = bundles \ {ThisBundle} /\ walk' = "gate11"

LocateModule ==
  /\ walk = "gate11" /\ bundles # {}
  /\ LET a == ThisBundle IN
     IF WalkModule(a) = {}
     THEN NextBundle /\ UNCHANGED <<path, mod>>
     ELSE /\ path' = [path EXCEPT ![Walker] = a]
          /\ \E m \in WalkModule(a) : mod' = [mod EXCEPT ![Walker] = m]
          /\ walk' = "reread" /\ UNCHANGED bundles
  /\ UNCHANGED <<files, history, pc, arg, base, draft, shared, verdict, target,
                 gate11, todo, half, exit, crashed, walkHistory>>

(* Mutant: the second read of the bundle is outside the try.               *)
RereadUncaught ==
  /\ walk = "reread"
  /\ IF Whole(ThisBundle)
       THEN /\ pc' = [pc EXCEPT ![Walker] = "parse"]
            /\ walk' = "verify" /\ UNCHANGED <<bundles, exit, crashed>>
       ELSE /\ Abort
            /\ UNCHANGED <<pc, bundles>>
  /\ UNCHANGED <<files, history, path, mod, arg, base, draft, shared, verdict,
                 target, gate11, todo, half, walkHistory>>

Reread ==
  /\ walk = "reread"
  /\ IF Whole(ThisBundle)
       THEN /\ pc' = [pc EXCEPT ![Walker] = "parse"]
            /\ walk' = "verify" /\ UNCHANGED <<bundles, exit>>
       ELSE /\ NextBundle /\ exit' = Worse(1)
            /\ UNCHANGED pc
  /\ UNCHANGED <<files, history, path, mod, arg, base, draft, shared, verdict,
                 target, gate11, todo, half, crashed, walkHistory>>

(* Verifier.verify_bundle on the bundle in hand.                           *)
VerifyStep ==
  /\ walk = "verify"
  /\ \/ Parsing(Walker) \/ Step7Action(Walker) \/ Step8Action(Walker)
     \/ Step9Action(Walker)
  /\ UNCHANGED walkVars

VerdictCode(v) ==
  IF v \in Accepting THEN 0 ELSE IF v = "INDETERMINATE" THEN 2 ELSE 1

Collect ==
  /\ walk = "verify" /\ pc[Walker] = "done"
  /\ pc' = [pc EXCEPT ![Walker] = "idle"]
  /\ IF verdict[Walker] = "traceback"
       THEN Abort /\ UNCHANGED bundles
       ELSE /\ NextBundle /\ exit' = Worse(VerdictCode(verdict[Walker]))
            /\ UNCHANGED crashed
  /\ UNCHANGED <<files, history, path, mod, arg, base, draft, shared, verdict,
                 target, gate11, todo, half, walkHistory>>

EndWalk ==
  /\ walk = "gate11" /\ bundles = {}
  /\ walk' = "ended"
  /\ UNCHANGED <<vars, target, gate11, todo, bundles, half, exit, crashed,
                 walkHistory>>

FinishCheck ==
  /\ walk = "ended"
  /\ walk' = "idle" /\ target' = "directory" /\ gate11' = FALSE
  /\ todo' = {} /\ bundles' = {} /\ half' = "missing"
  /\ exit' = 0 /\ crashed' = FALSE /\ edited' = FALSE /\ rewritten' = FALSE
  /\ Exit(Walker)

-----------------------------------------------------------------------------
(* What goes on beside the walk.                                           *)
Beside ==
  \/ \E p \in Writers, m \in Modules, t \in Configs :
        StartInit(p, m, t) \/ StartUpdate(p, m, t)
  \/ \E p \in Writers : Builder(p) \/ Finish(p) \/ Crash(p)
  \/ \E m \in Modules, c \in Contents \cup {"missing"} : Edit(m, c)
  \/ \E a, b \in Paths : Copy(a, b)

WalkNext ==
  \/ \E t \in Modules \cup {"directory"}, flag \in BOOLEAN, trust \in Configs,
        policy \in PolicyArgs : StartCheck(t, flag, trust, policy)
  \/ CheckFile \/ SliceRust \/ ListBundles \/ LocateModule \/ Reread
  \/ VerifyStep \/ Collect \/ EndWalk \/ FinishCheck
  \/ /\ Beside
     /\ edited' = (walk # "idle" /\ (edited \/ source' # source))
     /\ rewritten' = (walk # "idle" /\ (rewritten \/ store' # store))
     /\ UNCHANGED <<walk, target, gate11, todo, bundles, half, exit, crashed>>

WalkSpec == WalkInit /\ [][WalkNext]_allVars

-----------------------------------------------------------------------------
(* Properties.                                                             *)

Undisturbed == ~edited /\ ~rewritten

(* The walk's variables stay in their types.                               *)
WalkTypeOK ==
  /\ TypeOK
  /\ walk \in {"idle", "files", "slice", "gate11", "reread", "verify", "ended"}
  /\ target \in Modules \cup {"directory"}
  /\ gate11 \in BOOLEAN /\ crashed \in BOOLEAN
  /\ edited \in BOOLEAN /\ rewritten \in BOOLEAN
  /\ todo \subseteq Modules /\ bundles \subseteq Paths
  /\ half \in Contents \cup {"missing"}
  /\ walk = "slice" => half # "missing" /\ todo # {}
  /\ walk \in {"reread", "verify"} => bundles # {}
  /\ exit \in 0 .. 2

(* The exit code of a walk that came to its end, with nothing changed      *)
(* meanwhile, answers for every listed file and every bundle it could      *)
(* place: 2 if a parser rejected a file, not 0 if a file has a violation,  *)
(* a module drifted from its bundle or the policy does not cover a signer. *)
Blamed(a) ==
  \E m \in WalkModule(a) :
    \/ Canon[source[m]] # log[store[a]].root
    \/ arg[Walker].policy \notin {"any", log[store[a]].by}

ExitCoversAll ==
  walk = "ended" /\ ~crashed /\ Undisturbed =>
    /\ \A m \in Modules : (target = m \/ (target = "directory" /\ m \notin Excluded))
                          /\ Present(m) =>
         /\ source[m] \in Marads => exit >= 1
         /\ Parse[source[m]] = "syntax" /\ Lang[m] \in Extras[Walker] \cup {"python"}
              => exit = 2
    /\ gate11 => \A a \in Paths : Whole(a) /\ Blamed(a) => exit >= 1

(* Bundles that are rewritten, torn or lost under the walk never end it    *)
(* with an exception: unless a module file changed during the walk, some   *)
(* file is not UTF-8, or, with --gate11, a file has the hash of a manifest *)
(* and yet no surface to be had: it differs from the signed text by a BOM, *)
(* the extra of the manifest's language is missing, or goast failed.       *)
TracebackHasCause ==
  crashed /\ ~edited =>
    \E m \in Modules : Present(m) /\
      \/ Parse[source[m]] = "undecodable"
      \/ gate11 /\ \E i \in 1 .. Len(log) :
           /\ log[i].root = Canon[source[m]]
           /\ \/ Parse[source[m]] = "syntax"
              \/ Lang[log[i].mod] \notin Extras[Walker] \cup {"python"}
              \/ Lang[log[i].mod] = "go"

(* README: "check --gate11 src/": "verify any adjacent bundle".  Exit 0 of *)
(* an undisturbed walk means that every module with an adjacent bundle has *)
(* the attested hash.                                                      *)
AdjacentBundlesVerified ==
  walk = "ended" /\ gate11 /\ exit = 0 /\ Undisturbed =>
    \A m \in Modules : Present(m) /\ Whole(m) =>
      Step7(log[store[m]], source[m]) = "ok"
=============================================================================
