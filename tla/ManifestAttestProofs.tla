------------------------- MODULE ManifestAttestProofs -------------------------
(***************************************************************************)
(* What a signed manifest attests and what verify's verdicts mean: the     *)
(* proofs of AttestsOneText, AcceptedIsTrusted, AcceptedIsOnDisk and       *)
(* SurfaceVerdictNeedsRace for every value of the constants.               *)
(***************************************************************************)
EXTENDS ManifestChainProofs

(* What a builder has read so far still is on disk, unless it is stale.    *)
(* The Rust parser may have taken bytes that its read of the hash refuses. *)
HashRead(p) ==
  /\ Present(mod[p]) /\ Parse[source[mod[p]]] # "undecodable"
  /\ draft[p].root = Canon[source[mod[p]]]

SurfaceRead(p) ==
  /\ Present(mod[p]) /\ Parse[source[mod[p]]] \in {"ok", "undecodable"}
  /\ draft[p].names = SurfaceOf[source[mod[p]]]

FreshDraft(p) ==
  p \notin stale =>
    /\ pc[p] = "hash" /\ Lang[mod[p]] # "go" => SurfaceRead(p)
    /\ pc[p] = "surface" /\ Lang[mod[p]] = "go" => HashRead(p)
    /\ pc[p] = "sign" => SurfaceRead(p) /\ HashRead(p)

FreshDrafts == \A p \in Procs : FreshDraft(p)

AttestInv == ChainInv /\ FreshDrafts /\ AttestsOneText

-----------------------------------------------------------------------------
LEMMA DraftKept ==
  ASSUME NEW p \in Procs, FreshDraft(p), Untouched(p)
  PROVE  FreshDraft(p)'
BY DEF FreshDraft, Untouched, SurfaceRead, HashRead, Present

(* The steps of its own command keep what a builder has read fresh.        *)
LEMMA DraftSurface ==
  ASSUME TypeInv, NEW p \in Procs, FreshDraft(p), ReadSurface(p)
  PROVE  FreshDraft(p)'
<1> USE DEF TypeInv, TypeOK
<1> DEFINE c == source[mod[p]]
<1>1. CASE /\ Present(mod[p]) /\ Parse[c] \in {"ok", "undecodable"}
           /\ draft' = [draft EXCEPT ![p].names = SurfaceOf[c]]
           /\ Goto(p, AfterSurface(mod[p]))
  <2>2. /\ draft' = [draft EXCEPT ![p].names = SurfaceOf[c]]
        /\ pc' = [pc EXCEPT ![p] = AfterSurface(mod[p])]
        /\ source' = source /\ mod' = mod /\ pc[p] = "surface"
    BY <1>1 DEF ReadSurface, Goto, files
  <2>3. draft'[p].names = SurfaceOf[c] /\ draft'[p].root = draft[p].root
    BY <2>2 DEF Drafts
  <2>4. SurfaceRead(p)'
    BY <1>1, <2>2, <2>3 DEF SurfaceRead, Present
  <2>5. CASE Lang[mod[p]] = "go"
    <3>1. pc'[p] = "sign" /\ mod'[p] = mod[p]
      BY <2>2, <2>5 DEF AfterSurface
    <3>2. stale' = stale
      BY <2>5 DEF ReadSurface, Watch, FirstRead
    <3>3. p \notin stale => HashRead(p)'
      BY <2>2, <2>3, <2>5 DEF FreshDraft, HashRead, Present
    <3> QED
      BY <2>4, <3>1, <3>2, <3>3 DEF FreshDraft
  <2>6. CASE Lang[mod[p]] # "go"
    <3>1. pc'[p] = "hash" /\ mod'[p] = mod[p]
      BY <2>2, <2>6 DEF AfterSurface
    <3> QED
      BY <2>4, <3>1 DEF FreshDraft
  <2> QED
    BY <2>5, <2>6
<1>2. CASE \E v : Report(p, v)
  <2>1. pc'[p] = "done"
    BY <1>2 DEF Report
  <2> QED
    BY <2>1 DEF FreshDraft
<1> QED
  BY <1>1, <1>2, SurfaceTaken

LEMMA DraftHash ==
  ASSUME TypeInv, NEW p \in Procs, FreshDraft(p), ReadHash(p)
  PROVE  FreshDraft(p)'
<1> USE DEF TypeInv, TypeOK
<1> DEFINE c == source[mod[p]]
<1>1. CASE Present(mod[p]) /\ Parse[c] # "undecodable"
  <2>1. /\ draft' = [draft EXCEPT ![p].root = Canon[c]]
        /\ pc' = [pc EXCEPT ![p] = AfterHash(mod[p])]
        /\ source' = source /\ mod' = mod /\ pc[p] = "hash"
    BY <1>1 DEF ReadHash, Goto, files
  <2>2. draft'[p].root = Canon[c] /\ draft'[p].names = draft[p].names
    BY <2>1 DEF Drafts
  <2>3. HashRead(p)'
    BY <1>1, <2>1, <2>2 DEF HashRead, Present
  <2>4. CASE Lang[mod[p]] = "go"
    <3>1. pc'[p] = "surface" /\ mod'[p] = mod[p]
      BY <2>1, <2>4 DEF AfterHash
    <3> QED
      BY <2>3, <3>1 DEF FreshDraft
  <2>5. CASE Lang[mod[p]] # "go"
    <3>1. pc'[p] = "sign" /\ mod'[p] = mod[p]
      BY <2>1, <2>5 DEF AfterHash
    <3>2. stale' = stale
      BY <2>5 DEF ReadHash, Watch, FirstRead
    <3>3. p \notin stale => SurfaceRead(p)'
      BY <2>1, <2>2, <2>5 DEF FreshDraft, SurfaceRead, Present
    <3> QED
      BY <2>3, <3>1, <3>2, <3>3 DEF FreshDraft
  <2> QED
    BY <2>4, <2>5
<1>2. CASE ~(Present(mod[p]) /\ Parse[c] # "undecodable")
  <2>1. pc'[p] = "done"
    BY <1>2 DEF ReadHash, Report
  <2> QED
    BY <2>1 DEF FreshDraft
<1> QED
  BY <1>1, <1>2

(* A builder about to make its first read has nothing to keep.             *)
LEMMA NothingRead ==
  ASSUME NEW p \in Procs,
         \/ pc'[p] \notin {"hash", "surface", "sign"}
         \/ pc'[p] = FirstRead(mod'[p])
  PROVE  FreshDraft(p)'
BY DEF FreshDraft, FirstRead

LEMMA DraftStep ==
  ASSUME TypeInv, FreshDrafts, [Next]_vars
  PROVE  FreshDrafts'
<1> SUFFICES ASSUME NEW p \in Procs PROVE FreshDraft(p)'
  BY DEF FreshDrafts
<1>0. FreshDraft(p)
  BY DEF FreshDrafts
<1> USE DEF TypeInv, TypeOK
<1>1. CASE Untouched(p)
  BY <1>0, <1>1, DraftKept
<1>2. ASSUME NEW m \in Modules, NEW t \in Configs,
             StartInit(p, m, t) \/ StartUpdate(p, m, t)
      PROVE  FreshDraft(p)'
  <2>1. CASE StartInit(p, m, t)
    <3>1. mod'[p] = m /\ pc'[p] \in {FirstRead(m), "done"}
      BY <2>1 DEF StartInit, Target, Goto, Report
    <3> QED
      BY <3>1, NothingRead
  <2>2. CASE StartUpdate(p, m, t)
    <3>1. pc'[p] \in {"read", "done"}
      BY <2>2 DEF StartUpdate, Goto, Report
    <3> QED
      BY <3>1, NothingRead
  <2> QED
    BY <1>2, <2>1, <2>2
<1>3. ASSUME NEW a \in Paths, NEW t \in Configs, NEW pol \in PolicyArgs,
             StartVerify(p, a, t, pol)
      PROVE  FreshDraft(p)'
  <2>1. pc'[p] \in {"route", "done"}
    BY <1>3 DEF StartVerify, Goto, Report
  <2> QED
    BY <2>1, NothingRead
<1>4. CASE ReadExisting(p)
  <2>1. mod' = mod /\ pc'[p] \in {FirstRead(mod[p]), "done"}
    BY <1>4 DEF ReadExisting, Goto, Report
  <2> QED
    BY <2>1, NothingRead
<1>5. CASE Sign(p) \/ SigningFails(p) \/ OpenBundle(p) \/ WriteBundle(p)
  <2>1. pc'[p] \in {"open", "write", "done"}
    BY <1>5 DEF Sign, SigningFails, OpenBundle, WriteBundle, Goto, Report
  <2> QED
    BY <2>1, NothingRead
<1>6. CASE Verifier(p)
  <2>1. pc'[p] \in Verifying \cup {"done"}
    <3>1. CASE Route(p) \/ Parsing(p)
      BY <3>1 DEF Route, Parsing, Goto, Report, Verifying
    <3>2. CASE Step7Action(p)
      BY <3>2 DEF Step7Action, Goto, Report, Verifying
    <3>3. CASE Step8Action(p)
      <4>1. Goto(p, "step9") \/ \E v : Report(p, v)
        BY <3>3 DEF Step8Action
      <4> QED
        BY <4>1 DEF Goto, Report, Verifying
    <3>4. CASE Step9Action(p)
      BY <3>4 DEF Step9Action, Goto, Report, Verifying
    <3> QED
      BY <1>6, <3>1, <3>2, <3>3, <3>4 DEF Verifier
  <2> QED
    BY <2>1, NothingRead DEF Verifying
<1>7. CASE Exit(p)
  <2>1. pc'[p] = "idle"
    BY <1>7 DEF Exit
  <2> QED
    BY <2>1, NothingRead
<1> QED
  BY <1>0, <1>1, <1>2, <1>3, <1>4, <1>5, <1>6, <1>7, DraftSurface, DraftHash,
     OthersUntouched DEF Builder, Finish, Crash

(* Signing adds one manifest, which is coherent or marked as raced.        *)
LEMMA RacedStep ==
  ASSUME TypeInv, [Next]_vars
  PROVE  raced \subseteq raced'
BY DEF Next, Builder, Verifier, Finish, Crash, StartInit, StartUpdate,
   StartVerify, ReadExisting, ReadSurface, ReadHash, Sign, SigningFails,
   OpenBundle, WriteBundle, Route, Parsing, Step7Action, Step8Action,
   Step9Action, Exit, Edit, Copy, Watch, vars, history

LEMMA AttestStep ==
  ASSUME TypeInv, FreshDrafts, AttestsOneText, [Next]_vars
  PROVE  AttestsOneText'
<1>1. CASE \E p \in Procs : Sign(p)
  <2>1. PICK p \in Procs : Sign(p)
    BY <1>1
  <2> DEFINE b == BuildManifest(p)
             n == Len(log)
             c == source[mod[p]]
  <2>2. b \in Bundles(Modules) /\ log \in Seq(Bundles(Modules)) /\ n \in Nat
    BY <2>1, Signed DEF Sign, TypeInv, TypeOK
  <2>3. /\ Len(log') = n + 1 /\ log'[n + 1] = b
        /\ \A i \in 1 .. n : log'[i] = log[i]
    BY <2>1, <2>2, Appending DEF Sign
  <2>4. ASSUME p \notin stale PROVE Coherent(b)
    <3>1. SurfaceRead(p) /\ HashRead(p)
      BY <2>1, <2>4 DEF Sign, FreshDrafts, FreshDraft
    <3>2. c \in Contents /\ Parse[c] = "ok"
      BY <3>1 DEF SurfaceRead, HashRead, Present, TypeInv, TypeOK
    <3>3. Canon[c] = b.root /\ SurfaceOf[c] = b.names
      BY <3>1 DEF SurfaceRead, HashRead, BuildManifest
    <3> QED
      BY <3>2, <3>3 DEF Coherent
  <2>5. p \in stale => n + 1 \in raced'
    BY <2>1 DEF Sign
  <2> HIDE DEF b, c
  <2>6. ASSUME NEW i \in 1 .. Len(log'), i \notin raced'
        PROVE  Coherent(log'[i])
    <3>1. CASE i = n + 1
      BY <2>3, <2>4, <2>5, <2>6, <3>1
    <3>2. CASE i \in 1 .. n
      BY <2>3, <2>6, <3>2, RacedStep DEF AttestsOneText
    <3> QED
      BY <3>1, <3>2, <2>2, <2>3
  <2> QED
    BY <2>6 DEF AttestsOneText, Coherent
<1>2. CASE ~ \E p \in Procs : Sign(p)
  <2>1. log' = log
    BY <1>2, LogUntouched
  <2> QED
    BY <2>1, RacedStep DEF AttestsOneText, Coherent
<1> QED
  BY <1>1, <1>2

LEMMA AttestInvariant == Spec => []AttestInv
<1>1. Init => FreshDrafts /\ AttestsOneText
  <2> SUFFICES ASSUME Init PROVE FreshDrafts /\ AttestsOneText
    OBVIOUS
  <2>1. FreshDrafts
    BY DEF Init, FreshDrafts, FreshDraft
  <2>2. AttestsOneText
    <3>1. log = << >> /\ Len(<< >>) = 0
      BY DEF Init
    <3> QED
      BY <3>1 DEF AttestsOneText
  <2> QED
    BY <2>1, <2>2
<1>2. ChainInv /\ FreshDrafts /\ AttestsOneText /\ [Next]_vars
        => FreshDrafts' /\ AttestsOneText'
  BY DraftStep, AttestStep DEF ChainInv
<1> QED
  BY <1>1, <1>2, ChainInvariant, PTL DEF Spec, AttestInv

(* Whatever edits, commands and crashes there are, a manifest whose hash   *)
(* and surface belong to two texts was signed after its module changed     *)
(* between the two reads of its builder.                                   *)
THEOREM AttestationCorrect == Spec => []AttestsOneText
<1>1. AttestInv => AttestsOneText
  BY DEF AttestInv
<1> QED
  BY <1>1, AttestInvariant, PTL

-----------------------------------------------------------------------------
(* What a verification in progress has established.                        *)
Accepted(p) == pc[p] = "step9" \/ (pc[p] = "done" /\ verdict[p] \in Accepting)
SurfaceVerdicts == {"CASM-V-050", "CASM-V-051", "INDETERMINATE"}

(* From step 7 on the signature of the manifest in hand has been verified. *)
SignatureHolds(p) ==
  pc[p] \in {"step7", "step8"} \/ Accepted(p) =>
    /\ base[p] \in 1 .. Len(log)
    /\ Step6(log[base[p]], arg[p].trust, arg[p].policy) = "ok"

(* From step 8 on the module has the attested hash, from step 9 on the     *)
(* attested surface, unless it changed since step 7.                       *)
HashHolds(p) ==
  pc[p] = "step8" \/ Accepted(p) =>
    p \in stale \/ (Present(mod[p]) /\ Step7(log[base[p]], source[mod[p]]) = "ok")

SurfaceHolds(p) ==
  Accepted(p) =>
    \/ p \in stale
    \/ /\ Parse[source[mod[p]]] \in {"ok", "undecodable"}
       /\ CompareSurface(log[base[p]].names, SurfaceOf[source[mod[p]]]) = "ok"

(* A process that verifies does not build, and ends in a verdict of step 8 *)
(* only over a race.                                                       *)
ReadsOnly(p) == p \in Verifiers => pc[p] \notin Building

RaceBlamed(p) ==
  Ended(p, SurfaceVerdicts) => p \in stale \/ base[p] \in raced

Verified(p) ==
  SignatureHolds(p) /\ HashHolds(p) /\ SurfaceHolds(p)
    /\ ReadsOnly(p) /\ RaceBlamed(p)

VerifyInv == AttestInv /\ \A p \in Procs : Verified(p)

LEMMA VerifiedKept ==
  ASSUME TypeInv, [Next]_vars, NEW p \in Procs, Verified(p), Untouched(p)
  PROVE  Verified(p)'
<1>1. base[p] \in 1 .. Len(log) =>
        /\ log'[base[p]] = log[base[p]]
        /\ base[p] \in 1 .. Len(log')
  BY LogGrows
<1>2. Accepted(p)' = Accepted(p)
  BY DEF Accepted, Untouched
<1>3. SignatureHolds(p)'
  BY <1>1, <1>2 DEF Verified, SignatureHolds, Untouched
<1>4. HashHolds(p)'
  BY <1>1, <1>2 DEF Verified, SignatureHolds, HashHolds, Untouched, Present,
     Accepted
<1>5. SurfaceHolds(p)'
  BY <1>1, <1>2 DEF Verified, SignatureHolds, SurfaceHolds, Untouched, Accepted
<1>6. ReadsOnly(p)'
  BY DEF Verified, ReadsOnly, Untouched
<1>7. RaceBlamed(p)'
  BY RacedStep DEF Verified, RaceBlamed, Untouched, Ended
<1> QED
  BY <1>3, <1>4, <1>5, <1>6, <1>7 DEF Verified

(* Nothing is established by a process that is neither verifying from step *)
(* 7 on nor done with an accepting verdict or a verdict of step 8.         *)
LEMMA NothingVerified ==
  ASSUME NEW p \in Procs, ReadsOnly(p)',
         \/ pc'[p] \notin {"step7", "step8", "step9", "done"}
         \/ pc'[p] = "done" /\ verdict'[p] \notin Accepting \cup SurfaceVerdicts
  PROVE  Verified(p)'
BY DEF Verified, SignatureHolds, HashHolds, SurfaceHolds, RaceBlamed, Ended,
   Accepted

LEMMA ParsingStep ==
  ASSUME TypeInv, NEW p \in Procs, Verified(p), Parsing(p)
  PROVE  Verified(p)'
<1> USE DEF TypeInv, TypeOK
<1> DEFINE b == store[path[p]]
           code == Step6(log[b], arg[p].trust, arg[p].policy)
<1>1. ReadsOnly(p)'
  BY DEF Parsing, Goto, Report, Verified, ReadsOnly, Building
<1>2. CASE b >= 1 /\ code = "ok" /\ Goto(p, "step7")
  <2>1. base'[p] = b /\ log' = log /\ arg' = arg /\ pc'[p] = "step7"
    BY <1>2 DEF Parsing, Goto, files
  <2>2. b \in 1 .. Len(log)
    BY <1>2
  <2> QED
    BY <1>1, <1>2, <2>1, <2>2 DEF Verified, SignatureHolds, HashHolds,
       SurfaceHolds, RaceBlamed, Ended, Accepted
<1>3. ASSUME NEW v \in {"CASM-V-010", "CASM-V-021", "CASM-V-030", "CASM-V-032",
                       "CASM-V-035"}, Report(p, v)
      PROVE  Verified(p)'
  <2>1. pc'[p] = "done" /\ verdict'[p] = v
    BY <1>3 DEF Report
  <2> QED
    BY <1>1, <2>1, NothingVerified DEF Accepting, SurfaceVerdicts
<1>4. code \in {"ok", "CASM-V-030", "CASM-V-032", "CASM-V-035"}
  BY DEF Step6
<1> HIDE DEF code
<1>5. \/ b >= 1 /\ code = "ok" /\ Goto(p, "step7")
      \/ Report(p, "CASM-V-010") \/ Report(p, "CASM-V-021")
      \/ code # "ok" /\ Report(p, code)
  BY DEF Parsing, code
<1> QED
  BY <1>2, <1>3, <1>4, <1>5

LEMMA Step7Step ==
  ASSUME TypeInv, NEW p \in Procs, Verified(p), Step7Action(p)
  PROVE  Verified(p)'
<1> USE DEF TypeInv, TypeOK
<1> DEFINE code == Step7(log[base[p]], source[mod[p]])
<1>1. ReadsOnly(p)'
  BY DEF Step7Action, Goto, Report, Verified, ReadsOnly, Building
<1>2. CASE Present(mod[p]) /\ code = "ok"
  <2>1. /\ pc'[p] = "step8" /\ pc[p] = "step7" /\ mod' = mod /\ base' = base
        /\ source' = source /\ log' = log /\ arg' = arg
    BY <1>2 DEF Step7Action, Goto, files
  <2> QED
    BY <1>1, <1>2, <2>1 DEF Verified, SignatureHolds, HashHolds,
       SurfaceHolds, RaceBlamed, Ended, Accepted, Present
<1>3. CASE ~(Present(mod[p]) /\ code = "ok")
  <2>1. /\ pc'[p] = "done"
        /\ verdict'[p] \in {"CASM-V-002", "CASM-V-040", "traceback"}
    BY <1>3 DEF Step7Action, Report, Step7
  <2> QED
    BY <1>1, <2>1, NothingVerified DEF Accepting, SurfaceVerdicts
<1> QED
  BY <1>2, <1>3

(* A text with the hash of a coherent manifest that an extractor took has  *)
(* its surface too.                                                        *)
LEMMA SameSurface ==
  ASSUME NEW b, Coherent(b), NEW c \in Contents, Step7(b, c) = "ok",
         Parse[c] # "syntax"
  PROVE  /\ Parse[c] = "ok" /\ SurfaceOf[c] = b.names
         /\ CompareSurface(b.names, SurfaceOf[c]) = "ok"
<1>1. PICK d \in Contents :
        Parse[d] = "ok" /\ Canon[d] = b.root /\ SurfaceOf[d] = b.names
  BY DEF Coherent
<1>2. Canon[c] = Canon[d]
  BY <1>1 DEF Step7
<1>3. Parse[c] = "ok" /\ SurfaceOf[c] = b.names
  BY <1>1, <1>2, CanonAssumption
<1> QED
  BY <1>3 DEF CompareSurface

LEMMA Step8Step ==
  ASSUME TypeInv, AttestsOneText, NEW p \in Procs, Verified(p), Step8Action(p)
  PROVE  Verified(p)'
<1> USE DEF TypeInv, TypeOK
<1> DEFINE c == source[mod[p]]
           b == log[base[p]]
<1>2. /\ pc[p] = "step8" /\ mod' = mod /\ base' = base /\ source' = source
      /\ log' = log /\ arg' = arg /\ stale' = stale /\ raced' = raced
  BY DEF Step8Action, files, history
<1>1. ReadsOnly(p)'
  BY Step8Read DEF Goto, Report, Verified, ReadsOnly, Building
<1>3. CASE /\ Present(mod[p]) /\ Parse[c] \in {"ok", "undecodable"}
           /\ CompareSurface(b.names, SurfaceOf[c]) = "ok"
           /\ Goto(p, "step9")
  <2>1. pc'[p] = "step9"
    BY <1>3 DEF Goto
  <2> QED
    BY <1>1, <1>2, <1>3, <2>1 DEF Verified, SignatureHolds, HashHolds,
       SurfaceHolds, RaceBlamed, Ended, Accepted, Present
<1>4. ASSUME NEW v \in {"INDETERMINATE", "traceback", "CASM-V-050", "CASM-V-051"},
             Report(p, v),
             v # "traceback" =>
               /\ Present(mod[p])
               /\ Parse[c] \in {"ok", "undecodable", "dynamic"}
               /\ v = "INDETERMINATE" => Parse[c] = "dynamic"
               /\ v # "INDETERMINATE" =>
                    CompareSurface(b.names, SurfaceOf[c]) # "ok"
      PROVE  Verified(p)'
  <2>1. pc'[p] = "done" /\ verdict'[p] = v
    BY <1>4 DEF Report
  <2>2. v \notin Accepting
    BY DEF Accepting
  <2>3. ASSUME v # "traceback", p \notin stale, base[p] \notin raced
        PROVE  FALSE
    <3>1. Present(mod[p]) /\ c \in Contents /\ Parse[c] # "syntax"
      BY <1>4, <2>3 DEF Present
    <3>2. Step7(b, c) = "ok" /\ base[p] \in 1 .. Len(log)
      BY <1>2, <2>3 DEF Verified, HashHolds, SignatureHolds
    <3>3. Coherent(b)
      BY <2>3, <3>2 DEF AttestsOneText
    <3> HIDE DEF b, c
    <3>4. Parse[c] = "ok" /\ CompareSurface(b.names, SurfaceOf[c]) = "ok"
      BY <3>1, <3>2, <3>3, SameSurface
    <3> QED
      BY <1>4, <2>3, <3>4
  <2>4. ~Accepted(p)'
    BY <2>1, <2>2 DEF Accepted, Accepting
  <2> QED
    BY <1>1, <1>2, <2>1, <2>3, <2>4 DEF Verified, SignatureHolds, HashHolds,
       SurfaceHolds, RaceBlamed, Ended, SurfaceVerdicts
<1> QED
  BY <1>3, <1>4, Step8Read

LEMMA Step9Step ==
  ASSUME TypeInv, NEW p \in Procs, Verified(p), Step9Action(p)
  PROVE  Verified(p)'
<1> USE DEF TypeInv, TypeOK
<1>1. ReadsOnly(p)'
  BY DEF Step9Action, Report, Verified, ReadsOnly, Building
<1>2. /\ pc[p] = "step9" /\ mod' = mod /\ base' = base /\ source' = source
      /\ log' = log /\ arg' = arg /\ stale' = stale /\ pc'[p] = "done"
  BY DEF Step9Action, Report, files, history
<1>3. verdict'[p] \in {"OK", "OK CASM-V-061", "CASM-V-060"}
  BY DEF Step9Action, Report, Step9
<1>4. SignatureHolds(p)' /\ HashHolds(p)' /\ SurfaceHolds(p)'
  BY <1>2 DEF Verified, SignatureHolds, HashHolds, SurfaceHolds, Accepted,
     Present
<1>5. RaceBlamed(p)'
  BY <1>3 DEF RaceBlamed, Ended, SurfaceVerdicts
<1> QED
  BY <1>1, <1>4, <1>5 DEF Verified

LEMMA VerifyStep ==
  ASSUME TypeInv, AttestsOneText, \A p \in Procs : Verified(p), [Next]_vars
  PROVE  \A p \in Procs : Verified(p)'
<1> SUFFICES ASSUME NEW p \in Procs PROVE Verified(p)'
  OBVIOUS
<1>0. Verified(p) /\ ReadsOnly(p)
  BY DEF Verified
<1> USE DEF TypeInv, TypeOK
<1>1. CASE Untouched(p)
  BY <1>0, <1>1, VerifiedKept
<1>2. ASSUME p \in Writers, NEW m \in Modules, NEW t \in Configs,
             StartInit(p, m, t) \/ StartUpdate(p, m, t)
      PROVE  Verified(p)'
  <2>1. ReadsOnly(p)'
    BY <1>2, StoreAssumption DEF ReadsOnly
  <2>2. \/ pc'[p] \in {"surface", "hash", "read"}
        \/ pc'[p] = "done" /\ verdict'[p] = "not found"
    BY <1>2 DEF StartInit, StartUpdate, Goto, Report, FirstRead
  <2> QED
    BY <2>1, <2>2, NothingVerified DEF Accepting, SurfaceVerdicts
<1>3. ASSUME NEW a \in Paths, NEW t \in Configs, NEW pol \in PolicyArgs,
             StartVerify(p, a, t, pol)
      PROVE  Verified(p)'
  <2>1. pc'[p] = "route" \/ (pc'[p] = "done" /\ verdict'[p] = "not found")
    BY <1>3 DEF StartVerify, Goto, Report
  <2> QED
    BY <2>1, NothingVerified DEF Accepting, SurfaceVerdicts, ReadsOnly, Building
<1>4. CASE Builder(p)
  <2>1. pc[p] \in Building
    BY <1>4 DEF Builder, ReadExisting, ReadSurface, ReadHash, Sign,
       SigningFails, OpenBundle, WriteBundle, Building
  <2>2. p \notin Verifiers
    BY <1>0, <2>1 DEF ReadsOnly
  <2>3. pc'[p] \in Building \cup {"done"}
    BY <1>4, SurfaceTaken DEF Builder, ReadExisting, ReadHash, Sign,
       SigningFails, OpenBundle, WriteBundle, Goto, Report, FirstRead,
       AfterSurface, AfterHash, Building
  <2>4. pc'[p] = "done" => verdict'[p] \notin Accepting
    BY <1>4, SurfaceTaken DEF Builder, ReadExisting, ReadHash, Sign,
       SigningFails, OpenBundle, WriteBundle, Goto, Report, FirstRead,
       AfterSurface, AfterHash, Accepting
  <2> QED
    BY <2>2, <2>3, <2>4 DEF Verified, SignatureHolds, HashHolds, SurfaceHolds,
       ReadsOnly, RaceBlamed, Ended, Accepted, Building
<1>5. CASE Route(p)
  <2>1. \/ pc'[p] = "parse"
        \/ pc'[p] = "done" /\ verdict'[p] \in {"not found", "bundle unreadable"}
    BY <1>5 DEF Route, Goto, Report
  <2> QED
    BY <2>1, NothingVerified DEF Accepting, SurfaceVerdicts, ReadsOnly, Building
<1>6. CASE Exit(p)
  <2>1. pc'[p] = "idle"
    BY <1>6 DEF Exit
  <2> QED
    BY <2>1, NothingVerified DEF ReadsOnly, Building
<1> QED
  BY <1>0, <1>1, <1>2, <1>3, <1>4, <1>5, <1>6, ParsingStep, Step7Step,
     Step8Step, Step9Step, OthersUntouched DEF Verifier, Finish, Crash

LEMMA VerifyInvariant == Spec => []VerifyInv
<1>1. Init => \A p \in Procs : Verified(p)
  BY DEF Init, Verified, SignatureHolds, HashHolds, SurfaceHolds, ReadsOnly,
     RaceBlamed, Ended, Accepted, Building
<1>2. AttestInv /\ (\A p \in Procs : Verified(p)) /\ [Next]_vars
        => (\A p \in Procs : Verified(p))'
  BY VerifyStep DEF AttestInv, ChainInv
<1> QED
  BY <1>1, <1>2, AttestInvariant, PTL DEF Spec, VerifyInv

(* verify accepts only what its policy and its trust-config cover: the     *)
(* signature it checks and the manifest it goes on with are of one read.   *)
THEOREM TrustCorrect == Spec => []AcceptedIsTrusted
<1>1. VerifyInv => AcceptedIsTrusted
  <2> SUFFICES ASSUME VerifyInv, NEW p \in Procs, Ended(p, Accepting)
               PROVE  /\ log[base[p]].signedAt = arg[p].trust
                      /\ arg[p].policy \in {"any", log[base[p]].by}
    BY DEF AcceptedIsTrusted
  <2>1. Step6(log[base[p]], arg[p].trust, arg[p].policy) = "ok"
    BY DEF VerifyInv, Verified, SignatureHolds, Accepted, Ended
  <2> QED
    BY <2>1 DEF Step6
<1> QED
  BY <1>1, VerifyInvariant, PTL

(* CASM-OK means that the module on disk is the attested one, unless it    *)
(* changed under verify.                                                   *)
THEOREM AcceptanceCorrect == Spec => []AcceptedIsOnDisk
<1>1. VerifyInv => AcceptedIsOnDisk
  <2> SUFFICES ASSUME VerifyInv, NEW p \in Procs, Ended(p, Accepting),
                      p \notin stale
               PROVE  LET b == log[base[p]]
                          c == source[mod[p]] IN
                      /\ Present(mod[p]) /\ Parse[c] = "ok" /\ Canon[c] = b.root
                      /\ CompareSurface(b.names, SurfaceOf[c]) = "ok"
                      /\ base[p] \notin raced => SurfaceOf[c] = b.names
    BY DEF AcceptedIsOnDisk
  <2> DEFINE b == log[base[p]]
             c == source[mod[p]]
  <2>1. Accepted(p) /\ Verified(p)
    BY DEF Ended, Accepted, VerifyInv
  <2>2. /\ Present(mod[p]) /\ Step7(b, c) = "ok"
        /\ Parse[c] \in {"ok", "undecodable"}
        /\ CompareSurface(b.names, SurfaceOf[c]) = "ok"
    BY <2>1 DEF Verified, HashHolds, SurfaceHolds
  <2>3. c \in Contents /\ base[p] \in 1 .. Len(log)
    BY <2>1, <2>2 DEF Verified, SignatureHolds, Present, VerifyInv, AttestInv,
       ChainInv, TypeInv, TypeOK
  <2>4. Canon[c] = b.root /\ Parse[c] = "ok"
    BY <2>2 DEF Step7
  <2>5. base[p] \notin raced => SurfaceOf[c] = b.names
    <3>1. base[p] \notin raced => Coherent(b)
      BY <2>3 DEF VerifyInv, AttestInv, AttestsOneText
    <3> QED
      BY <2>2, <2>3, <2>4, <3>1, SameSurface
  <2> QED
    BY <2>2, <2>4, <2>5
<1> QED
  BY <1>1, VerifyInvariant, PTL

(* Step 8 never fails over a plain edit: CASM-V-050, CASM-V-051 and        *)
(* INDETERMINATE need a race with verify or with the manifest's builder.   *)
THEOREM SurfaceVerdictCorrect == Spec => []SurfaceVerdictNeedsRace
<1>1. VerifyInv => SurfaceVerdictNeedsRace
  BY DEF VerifyInv, Verified, RaceBlamed, SurfaceVerdicts,
     SurfaceVerdictNeedsRace
<1> QED
  BY <1>1, VerifyInvariant, PTL

=============================================================================
