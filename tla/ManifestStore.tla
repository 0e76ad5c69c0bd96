---------------------------- MODULE ManifestStore ----------------------------
(***************************************************************************)
(* The commands "manifest init", "manifest update" and "manifest verify"   *)
(* as processes over a shared directory: module files that a developer     *)
(* edits at any moment, bundle files that the commands read and overwrite  *)
(* in place, and the log of everything Sigstore ever signed.  One action   *)
(* is one access to the disk or to Sigstore, so that every interleaving of *)
(* two commands and an editor is a behaviour, and so is a command killed   *)
(* between any two of them.                                                *)
(***************************************************************************)
EXTENDS CasmManifest, Sequences, FiniteSets

(* Definitions whose comment begins with "Mutant" are not used: each is a  *)
(* wrong version of the definition below it, which some property refutes.  *)
CONSTANTS
  Modules,      (* module files; the adjacent bundle of m is bundle file m *)
  Archives,     (* other bundle file names in the directory, to which a    *)
                (* user may copy a bundle                                  *)
  Lang,         (* module -> "python", "rust" or "go"                      *)
  Procs,        (* command invocations that can run at the same time       *)
  Extras,       (* process -> the languages of {"rust", "go"} whose extra  *)
                (* is installed where it runs                              *)
  Writers,      (* those of Procs that run init and update                 *)
  Verifiers,    (* those of Procs that run verify                          *)
  Signer,       (* process -> the identity it signs as                     *)
  Configs,      (* the trust-config values commands are started with       *)
  PolicyArgs,   (* the identity policies verify is started with            *)
  MayCrash,     (* whether a command can be killed                         *)
  MaxSigned,    (* bound: manifests signed in a behaviour                  *)
  MaxEdits      (* bound: edits of module files                            *)

ASSUME StoreAssumption ==
  /\ Lang \in [Modules -> {"python", "rust", "go"}]
  /\ Extras \in [Procs -> SUBSET {"rust", "go"}]
  /\ Modules \cap Archives = {}
  /\ Modules # {} /\ "missing" \notin Contents
  /\ Writers \subseteq Procs /\ Verifiers \subseteq Procs
  /\ Writers \cap Verifiers = {}
  /\ Signer \in [Procs -> Identities]
  /\ Configs \subseteq TrustRoots
  /\ PolicyArgs \subseteq Policies
  /\ MaxSigned \in Nat
  /\ MaxEdits \in Nat
  /\ (\E m \in Modules : Lang[m] = "go")
       => \A c \in Contents : Parse[c] # "dynamic"

VARIABLES
  source,       (* module -> the text of its file, or "missing"            *)
  store,        (* bundle file -> Absent, Torn or the hash of the manifest *)
                (* in it (its index in log)                                *)
  log,          (* every bundle signed, in signing order                   *)
  pc,           (* process -> where its command is                         *)
  path,         (* process -> the bundle file it works on                  *)
  mod,          (* process -> the module file it works on                  *)
  arg,          (* process -> its trust-config and identity policy         *)
  base,         (* process -> hash of the manifest in hand: predecessor,   *)
                (* then the one it signed; or the one it verifies          *)
  draft,        (* process -> the module hash and surface it has read      *)
  shared,       (* process -> another command opened or wrote its bundle   *)
                (* file since it truncated it                              *)
  verdict,      (* process -> what it reported                             *)
  edits,        (* number of edits so far                                  *)
  stale,        (* history: processes whose module file changed since they *)
                (* first read it                                           *)
  raced         (* history: hashes of the manifests signed by such         *)

files == <<source, store, log>>
history == <<edits, stale, raced>>
vars == <<source, store, log, pc, path, mod, arg, base, draft, shared, verdict,
          edits, stale, raced>>

Absent == -1
Torn == 0
Paths == Modules \cup Archives
Whole(a) == store[a] >= 1
Present(m) == source[m] # "missing"

Building == {"read", "surface", "hash", "sign", "open", "write"}
Verifying == {"route", "parse", "step7", "step8", "step9"}
Running == Building \cup Verifying
AnyModule == CHOOSE m \in Modules : TRUE
NoDraft == [root |-> "none", names |-> EmptySurface]
NoArg == [trust |-> PublicRoot, policy |-> "none"]

Init ==
  /\ source \in [Modules -> Contents]
  /\ store = [a \in Paths |-> Absent]
  /\ log = << >>
  /\ pc = [p \in Procs |-> "idle"]
  /\ path = [p \in Procs |-> AnyModule] /\ mod = path
  /\ arg = [p \in Procs |-> NoArg]
  /\ base = [p \in Procs |-> 0]
  /\ draft = [p \in Procs |-> NoDraft]
  /\ shared = [p \in Procs |-> FALSE]
  /\ verdict = [p \in Procs |-> "not found"]
  /\ edits = 0 /\ stale = {} /\ raced = {}

-----------------------------------------------------------------------------
(* Process steps.  Goto and Report change pc and verdict.                  *)
Goto(p, s) == pc' = [pc EXCEPT ![p] = s] /\ UNCHANGED verdict
Report(p, v) ==
  pc' = [pc EXCEPT ![p] = "done"] /\ verdict' = [verdict EXCEPT ![p] = v]

(* Mutant: the Python builder signs without hashing the module.            *)
AfterSurfaceUnhashed(m) == "sign"

(* The Go builder hashes the module before it extracts the surface, the    *)
(* Python and Rust builders after.                                         *)
FirstRead(m) == IF Lang[m] = "go" THEN "hash" ELSE "surface"
AfterSurface(m) == IF Lang[m] = "go" THEN "sign" ELSE "hash"
AfterHash(m) == IF Lang[m] = "go" THEN "surface" ELSE "sign"

Target(p, a, m, t, pol) ==
  /\ path' = [path EXCEPT ![p] = a]
  /\ mod' = [mod EXCEPT ![p] = m]
  /\ arg' = [arg EXCEPT ![p] = [trust |-> t, policy |-> pol]]

(* Mutant: init discards the old bundle before it has built the new one.   *)
StartInitDiscarding(p, m, t) ==
  /\ pc[p] = "idle"
  /\ Target(p, m, m, t, "none")
  /\ IF Present(m) THEN Goto(p, FirstRead(m)) ELSE Report(p, "not found")
  /\ store' = [store EXCEPT ![m] = Torn]
  /\ UNCHANGED <<source, log, history, base, draft, shared>>

(* cmd_manifest_init: any bundle already there is not looked at.           *)
StartInit(p, m, t) ==
  /\ pc[p] = "idle"
  /\ Target(p, m, m, t, "none")
  /\ IF Present(m) THEN Goto(p, FirstRead(m)) ELSE Report(p, "not found")
  /\ UNCHANGED <<files, history, base, draft, shared>>

(* cmd_manifest_update up to its read of the existing bundle.              *)
StartUpdate(p, m, t) ==
  /\ pc[p] = "idle"
  /\ Target(p, m, m, t, "none")
  /\ IF Present(m) /\ store[m] # Absent THEN Goto(p, "read")
                                        ELSE Report(p, "not found")
  /\ UNCHANGED <<files, history, base, draft, shared>>

(* Mutant: the existing manifest's own previous hash is carried over.      *)
ReadExistingCarriesPrev(p) ==
  /\ pc[p] = "read"
  /\ Whole(path[p])
  /\ base' = [base EXCEPT ![p] =
                 IF log[store[path[p]]].prev = 0 THEN store[path[p]]
                                                 ELSE log[store[path[p]]].prev]
  /\ Goto(p, FirstRead(mod[p]))
  /\ UNCHANGED <<files, history, path, mod, arg, draft, shared>>

(* The existing bundle is parsed; its signature is not verified.           *)
ReadExisting(p) ==
  /\ pc[p] = "read"
  /\ IF Whole(path[p])
       THEN base' = [base EXCEPT ![p] = store[path[p]]]
            /\ Goto(p, FirstRead(mod[p]))
       ELSE Report(p, "CASM-V-010") /\ UNCHANGED base
  /\ UNCHANGED <<files, history, path, mod, arg, draft, shared>>

(* The first read of the module starts the window the history watches.     *)
Watch(p, s) ==
  /\ stale' = IF s = FirstRead(mod[p]) THEN stale \ {p} ELSE stale
  /\ UNCHANGED <<edits, raced>>

(* What the extractor of a language, started by p, ends in: without its    *)
(* extra or the file it raises.  The builders turn only the exceptions of  *)
(* the Go extractor into a message.                                        *)
Extractions(p, lang, m) ==
  IF Present(m) /\ lang \in Extras[p] \cup {"python"} THEN Extraction(lang, source[m])
                                                       ELSE {"traceback"}

BuilderError(m, v) ==
  IF Lang[m] = "go" /\ v = "traceback" THEN "Go manifest unavailable" ELSE v

ReadSurface(p) ==
  /\ pc[p] = "surface"
  /\ \E v \in Extractions(p, Lang[mod[p]], mod[p]) :
       IF v = "ok"
         THEN draft' = [draft EXCEPT ![p].names = SurfaceOf[source[mod[p]]]]
              /\ Goto(p, AfterSurface(mod[p]))
         ELSE Report(p, BuilderError(mod[p], v)) /\ UNCHANGED draft
  /\ Watch(p, "surface")
  /\ UNCHANGED <<files, path, mod, arg, base, shared>>

ReadHash(p) ==
  LET c == source[mod[p]] IN
  /\ pc[p] = "hash"
  /\ IF Present(mod[p]) /\ Parse[c] # "undecodable"
       THEN draft' = [draft EXCEPT ![p].root = Canon[c]]
            /\ Goto(p, AfterHash(mod[p]))
       ELSE Report(p, IF Present(mod[p]) THEN "CASM-V-002" ELSE "traceback")
            /\ UNCHANGED draft
  /\ Watch(p, "hash")
  /\ UNCHANGED <<files, path, mod, arg, base, shared>>

(* Mutant: a successor takes over its predecessor's position.              *)
NextPositionSame(b) == IF b = 0 THEN 1 ELSE log[b].pos

(* Mutant: a successor takes over its predecessor's surface.               *)
BuildManifestOldSurface(p) ==
  [mod |-> mod[p], root |-> draft[p].root,
   names |-> IF base[p] = 0 THEN draft[p].names ELSE log[base[p]].names,
   pos |-> IF base[p] = 0 THEN 1 ELSE log[base[p]].pos + 1, prev |-> base[p],
   trust |-> arg[p].trust, by |-> Signer[p], signedAt |-> PublicRoot]

(* The manifest of the builders: prev and pos extend the predecessor, and  *)
(* a first manifest has none.                                              *)
NextPosition(b) == IF b = 0 THEN 1 ELSE log[b].pos + 1

BuildManifest(p) ==
  [mod |-> mod[p], root |-> draft[p].root, names |-> draft[p].names,
   pos |-> NextPosition(base[p]), prev |-> base[p],
   trust |-> arg[p].trust, by |-> Signer[p], signedAt |-> PublicRoot]

(* sign_manifest: signs at the public deployment whatever the trust-config *)
(* names, and may fail.                                                    *)
Sign(p) ==
  /\ pc[p] = "sign"
  /\ Len(log) < MaxSigned
  /\ log' = Append(log, BuildManifest(p))
  /\ base' = [base EXCEPT ![p] = Len(log) + 1]
  /\ raced' = IF p \in stale THEN raced \cup {Len(log) + 1} ELSE raced
  /\ Goto(p, "open")
  /\ UNCHANGED <<source, store, path, mod, arg, draft, shared, edits, stale>>

SigningFails(p) ==
  /\ pc[p] = "sign"
  /\ Report(p, "signing failed")
  /\ UNCHANGED <<files, history, path, mod, arg, base, draft, shared>>

(* Bundle.write: open(..., "w") truncates the file, the dump fills it.  A  *)
(* descriptor another command has written beside leaves the tail of the    *)
(* longer of the two texts behind the shorter.                             *)
Touched(p) == [q \in Procs |->
  IF q = p THEN FALSE
  ELSE shared[q] \/ (pc[q] = "write" /\ path[q] = path[p])]

(* Mutant: the file is opened for exclusive creation.                      *)
OpenBundleExclusive(p) ==
  /\ pc[p] = "open"
  /\ IF store[path[p]] = Absent
       THEN store' = [store EXCEPT ![path[p]] = Torn] /\ Goto(p, "write")
       ELSE Report(p, "traceback") /\ UNCHANGED store
  /\ shared' = Touched(p)
  /\ UNCHANGED <<source, log, history, path, mod, arg, base, draft>>

OpenBundle(p) ==
  /\ pc[p] = "open"
  /\ store' = [store EXCEPT ![path[p]] = Torn]
  /\ shared' = Touched(p)
  /\ Goto(p, "write")
  /\ UNCHANGED <<source, log, history, path, mod, arg, base, draft>>

WriteBundle(p) ==
  /\ pc[p] = "write"
  /\ \E s \in {base[p], Torn} :
       /\ s = Torn => shared[p]
       /\ store' = [store EXCEPT ![path[p]] = s]
  /\ shared' = Touched(p)
  /\ Report(p, "written")
  /\ UNCHANGED <<source, log, history, path, mod, arg, base, draft>>

-----------------------------------------------------------------------------
(* cmd_manifest_verify.                                                    *)
StartVerify(p, a, t, pol) ==
  /\ pc[p] = "idle"
  /\ path' = [path EXCEPT ![p] = a]
  /\ arg' = [arg EXCEPT ![p] = [trust |-> t, policy |-> pol]]
  /\ IF store[a] # Absent THEN Goto(p, "route") ELSE Report(p, "not found")
  /\ UNCHANGED <<files, history, mod, base, draft, shared>>

(* The module is the adjacent file if there is one, else the file whose    *)
(* name the manifest records; the bundle is then read for its language.    *)
Adjacent(a) == {m \in Modules : m = a /\ Present(m)}
Recorded(a) == {m \in Modules : Whole(a) /\ m = log[store[a]].mod /\ Present(m)}
Resolved(a) == IF Adjacent(a) # {} THEN Adjacent(a) ELSE Recorded(a)

Route(p) ==
  /\ pc[p] = "route"
  /\ IF Resolved(path[p]) # {} /\ Whole(path[p])
       THEN /\ \E m \in Resolved(path[p]) : mod' = [mod EXCEPT ![p] = m]
            /\ Goto(p, "parse")
       ELSE /\ Report(p, IF Resolved(path[p]) = {} THEN "not found"
                                                   ELSE "bundle unreadable")
            /\ UNCHANGED mod
  /\ UNCHANGED <<files, history, path, arg, base, draft, shared>>

(* Mutant: the surface is compared first and the hash never.               *)
ParsingSkipsHash(p) ==
  LET b == store[path[p]]
      code == Step6(log[b], arg[p].trust, arg[p].policy) IN
  /\ pc[p] = "parse"
  /\ b >= 1
  /\ base' = [base EXCEPT ![p] = b]
  /\ IF code = "ok" THEN Goto(p, "step8") ELSE Report(p, code)
  /\ UNCHANGED <<files, history, path, mod, arg, draft, shared>>

(* verify_bundle, steps 1 to 6: the bundle is read once more.              *)
Parsing(p) ==
  LET b == store[path[p]]
      code == Step6(log[b], arg[p].trust, arg[p].policy) IN
  /\ pc[p] = "parse"
  /\ IF b >= 1
       THEN /\ base' = [base EXCEPT ![p] = b]
            /\ \/ Report(p, "CASM-V-021")
               \/ IF code = "ok" THEN Goto(p, "step7") ELSE Report(p, code)
       ELSE Report(p, "CASM-V-010") /\ UNCHANGED base
  /\ UNCHANGED <<files, history, path, mod, arg, draft, shared>>

Step7Action(p) ==
  LET c == source[mod[p]]
      code == Step7(log[base[p]], c) IN
  /\ pc[p] = "step7"
  /\ IF Present(mod[p]) /\ code = "ok"
       THEN Goto(p, "step8")
       ELSE Report(p, IF Present(mod[p]) THEN code ELSE "traceback")
  /\ stale' = stale \ {p}
  /\ UNCHANGED <<files, edits, raced, path, mod, arg, base, draft, shared>>

(* Step 8 takes the extractor of the manifest's language.                  *)
Step8Action(p) ==
  LET b == log[base[p]] IN
  /\ pc[p] = "step8"
  /\ \E v \in Extractions(p, Lang[b.mod], mod[p]) :
       LET code == Step8(b, source[mod[p]], v) IN
       IF code = "ok" THEN Goto(p, "step9") ELSE Report(p, code)
  /\ UNCHANGED <<files, history, path, mod, arg, base, draft, shared>>

Siblings(a) == {store[s] : s \in {t \in Paths \ {a} : Whole(t)}}

Step9Action(p) ==
  /\ pc[p] = "step9"
  /\ \E v \in Step9(log, log[base[p]], Siblings(path[p])) : Report(p, v)
  /\ UNCHANGED <<files, history, path, mod, arg, base, draft, shared>>

-----------------------------------------------------------------------------
(* The end of a command: it exits, or it is killed where it stands.        *)
Exit(p) ==
  /\ pc' = [pc EXCEPT ![p] = "idle"]
  /\ path' = [path EXCEPT ![p] = AnyModule]
  /\ mod' = [mod EXCEPT ![p] = AnyModule]
  /\ arg' = [arg EXCEPT ![p] = NoArg]
  /\ base' = [base EXCEPT ![p] = 0]
  /\ draft' = [draft EXCEPT ![p] = NoDraft]
  /\ shared' = [shared EXCEPT ![p] = FALSE]
  /\ verdict' = [verdict EXCEPT ![p] = "not found"]
  /\ stale' = stale \ {p}
  /\ UNCHANGED <<files, edits, raced>>

Finish(p) == pc[p] = "done" /\ Exit(p)
Crash(p) == MayCrash /\ pc[p] \in Running /\ Exit(p)

(* The developer: edits, removes or restores a module file; copies a       *)
(* bundle aside; brings an older one back (not under a running writer).    *)
Edit(m, c) ==
  /\ edits < MaxEdits
  /\ c # source[m]
  /\ source' = [source EXCEPT ![m] = c]
  /\ edits' = edits + 1
  /\ stale' = stale \cup {p \in Procs : pc[p] # "idle" /\ mod[p] = m}
  /\ UNCHANGED <<store, log, pc, path, mod, arg, base, draft, shared, verdict,
                 raced>>

Copy(a, b) ==
  /\ Whole(a)
  /\ b \in Archives \/ log[store[a]].mod = b
  /\ store[b] # store[a]
  /\ \A p \in Procs : path[p] = b => pc[p] \notin Building
  /\ store' = [store EXCEPT ![b] = store[a]]
  /\ UNCHANGED <<source, log, history, pc, path, mod, arg, base, draft, shared,
                 verdict>>

-----------------------------------------------------------------------------
Builder(p) ==
  \/ ReadExisting(p) \/ ReadSurface(p) \/ ReadHash(p)
  \/ Sign(p) \/ SigningFails(p) \/ OpenBundle(p) \/ WriteBundle(p)

Verifier(p) ==
  \/ Route(p) \/ Parsing(p)
  \/ Step7Action(p) \/ Step8Action(p) \/ Step9Action(p)

Next ==
  \/ \E p \in Writers, m \in Modules, t \in Configs :
        StartInit(p, m, t) \/ StartUpdate(p, m, t)
  \/ \E p \in Verifiers, a \in Paths, t \in Configs, pol \in PolicyArgs :
        StartVerify(p, a, t, pol)
  \/ \E p \in Procs : Builder(p) \/ Verifier(p) \/ Finish(p) \/ Crash(p)
  \/ \E m \in Modules, c \in Contents \cup {"missing"} : Edit(m, c)
  \/ \E a, b \in Paths : Copy(a, b)

Spec == Init /\ [][Next]_vars

(* A started command is scheduled until it ends; nothing makes a developer *)
(* start or edit anything.                                                 *)
FairSpec == Spec /\ \A p \in Procs : WF_vars(Builder(p) \/ Verifier(p))

-----------------------------------------------------------------------------
(* Properties.                                                             *)

Drafts == [root: Canonicals \cup {"none"}, names: Surfaces]
Args == [trust: TrustRoots, policy: Policies]

(* Every variable stays in its type; a bundle file, a process and the      *)
(* history only ever name manifests that were signed.                      *)
TypeOK ==
  /\ source \in [Modules -> Contents \cup {"missing"}]
  /\ log \in Seq(Bundles(Modules))
  /\ store \in [Paths -> -1 .. Len(log)]
  /\ pc \in [Procs -> Running \cup {"idle", "done"}]
  /\ path \in [Procs -> Paths]
  /\ mod \in [Procs -> Modules]
  /\ arg \in [Procs -> Args]
  /\ base \in [Procs -> 0 .. Len(log)]
  /\ draft \in [Procs -> Drafts]
  /\ shared \in [Procs -> BOOLEAN]
  /\ verdict \in [Procs -> Verdicts]
  /\ edits \in Nat
  /\ stale \in SUBSET Procs
  /\ raced \in SUBSET (1 .. Len(log))

(* The signed manifests form chains: whatever commands overlapped or were  *)
(* killed, a manifest with a predecessor extends an earlier manifest of    *)
(* the same module by one position, and the others are at position 1.      *)
ChainLinked ==
  \A i \in 1 .. Len(log) :
    IF log[i].prev = 0 THEN log[i].pos = 1
    ELSE /\ log[i].prev < i
         /\ log[log[i].prev].mod = log[i].mod
         /\ log[i].pos = log[log[i].prev].pos + 1

(* The builders read a module twice.  A signed manifest's hash and surface *)
(* belong to one and the same text unless the module changed on disk after *)
(* the first of the two reads.                                             *)
AttestsOneText ==
  \A i \in 1 .. Len(log) : i \notin raced => Coherent(log[i])

Ended(p, vs) == p \in Verifiers /\ pc[p] = "done" /\ verdict[p] \in vs

(* verify's CASM-OK: if the module did not change since verify read it,    *)
(* the file on disk has the attested hash and every attested name with the *)
(* attested fingerprint; and unless the manifest was raced, no other name. *)
AcceptedIsOnDisk ==
  \A p \in Procs : Ended(p, Accepting) /\ p \notin stale =>
    LET b == log[base[p]]
        c == source[mod[p]] IN
    /\ Present(mod[p]) /\ Parse[c] = "ok" /\ Canon[c] = b.root
    /\ CompareSurface(b.names, SurfaceOf[c]) = "ok"
    /\ base[p] \notin raced => SurfaceOf[c] = b.names

(* Step 8 speaks only of races: verify ends in CASM-V-050, CASM-V-051 or   *)
(* INDETERMINATE only when the module changed between its steps 7 and 8 or *)
(* under the builder of the manifest; any other change is CASM-V-040.      *)
SurfaceVerdictNeedsRace ==
  \A p \in Procs :
    Ended(p, {"CASM-V-050", "CASM-V-051", "INDETERMINATE"})
      => p \in stale \/ base[p] \in raced

(* verify accepts only a manifest whose signature its policy covers.       *)
AcceptedIsTrusted ==
  \A p \in Procs : Ended(p, Accepting) =>
    /\ log[base[p]].signedAt = arg[p].trust
    /\ arg[p].policy \in {"any", log[base[p]].by}

(* Without crashes or overlapping writers, a bundle file is unreadable     *)
(* only while the command that rewrites it runs.                           *)
TornOnlyWhileWritten ==
  \A a \in Paths : store[a] = Torn
    => \E p \in Procs : pc[p] = "write" /\ path[p] = a

(* Without crashes, overlapping writers or an older bundle brought back,   *)
(* the chain is a line: no two manifests have the same predecessor.        *)
NoFork ==
  \A i, j \in 1 .. Len(log) :
    log[i].prev = log[j].prev /\ log[i].prev # 0 => i = j

(* Under the same conditions nothing signed is lost: what a command signed *)
(* is later the manifest in its module's bundle file.                      *)
SignedReachesDisk ==
  \A p \in Procs, i \in 1 .. MaxSigned :
    pc[p] = "open" /\ base[p] = i ~> \E m \in Modules : store[m] = i

-----------------------------------------------------------------------------
(* Statements of the documentation that the code does not keep.            *)

(* README, "manifest update": a name removal or a signature change between *)
(* the previous and the proposed manifest is rejected.                     *)
UpdateIsAdditive ==
  \A i \in 1 .. Len(log) : log[i].prev # 0
    => CompareSurface(log[log[i].prev].names, log[i].names) = "ok"

(* step9_check_chain_integrity: CASM-V-060 when the previous bundle is     *)
(* found but its hash mismatches, so only if some manifest of this module  *)
(* sits at the previous position.                                          *)
BrokenChainIsOfThisModule ==
  \A p \in Procs : Ended(p, {"CASM-V-060"}) =>
    \E i \in 1 .. Len(log) :
      /\ i # log[base[p]].prev
      /\ log[i].mod = log[base[p]].mod
      /\ log[i].pos = log[base[p]].pos - 1
=============================================================================
