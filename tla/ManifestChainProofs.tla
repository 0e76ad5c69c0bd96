------------------------- MODULE ManifestChainProofs -------------------------
(***************************************************************************)
(* The chain theorem: in every behaviour of ManifestStore, whatever        *)
(* commands overlap, crash or restore older bundles, the signed manifests  *)
(* are linked to earlier manifests of their own module.                    *)
(* And what a writer that is left alone keeps: no fork of a chain, and no  *)
(* unreadable bundle file but the one it is replacing.                     *)
(***************************************************************************)
EXTENDS ManifestStoreProofs

(* The readable bundle file of a module holds a manifest of that module.   *)
StoreOwned == \A m \in Modules : Whole(m) => log[store[m]].mod = m

(* A builder holds a manifest of the module it works on, and works on that *)
(* module's bundle file; an idle process holds none.                       *)
HandOwnedBy(p) ==
  /\ pc[p] = "idle" => base[p] = 0
  /\ pc[p] \in Building =>
       /\ path[p] = mod[p]
       /\ base[p] # 0 => log[base[p]].mod = mod[p]
  /\ pc[p] \in {"open", "write"} => base[p] # 0

HandOwned == \A p \in Procs : HandOwnedBy(p)

ChainInv == TypeInv /\ StoreOwned /\ HandOwned /\ ChainLinked

-----------------------------------------------------------------------------
LEMMA LogUntouched ==
  ASSUME [Next]_vars, ~ \E p \in Procs : Sign(p)
  PROVE  log' = log
  BY DEF Next, Builder, Verifier, Finish, Crash, StartInit, StartUpdate,
     StartVerify, ReadExisting, ReadSurface, ReadHash, SigningFails,
     OpenBundle, WriteBundle, Route, Parsing, Step7Action, Step8Action,
     Step9Action, Exit, Edit, Copy, vars, files

(* The log only grows at its end.                                          *)
LEMMA LogGrows ==
  ASSUME TypeInv, [Next]_vars
  PROVE  /\ Len(log) <= Len(log')
         /\ \A i \in 1 .. Len(log) : i \in 1 .. Len(log') /\ log'[i] = log[i]
<1>1. CASE \E p \in Procs : Sign(p)
  <2>1. PICK p \in Procs : Sign(p)
    BY <1>1
  <2>2. log' = Append(log, BuildManifest(p)) /\ pc[p] = "sign"
    BY <2>1 DEF Sign
  <2>3. BuildManifest(p) \in Bundles(Modules) /\ log \in Seq(Bundles(Modules))
    BY <2>2, Signed DEF TypeInv, TypeOK
  <2> QED
    BY <2>2, <2>3, Appending
<1>2. CASE ~ \E p \in Procs : Sign(p)
  <2>1. log' = log
    BY <1>2, LogUntouched
  <2>2. Len(log) \in Nat
    BY DEF TypeInv, TypeOK
  <2> QED
    BY <2>1, <2>2
<1> QED
  BY <1>1, <1>2

(* What a process holds and what a bundle file holds was signed already.   *)
LEMMA InRange ==
  ASSUME TypeInv
  PROVE  /\ \A p \in Procs : base[p] # 0 => base[p] \in 1 .. Len(log)
         /\ \A a \in Paths : Whole(a) => store[a] \in 1 .. Len(log)
         /\ \A p \in Procs : path[p] \in Paths /\ mod[p] \in Modules
         /\ Len(log) \in Nat
  BY DEF TypeInv, TypeOK, Whole

(* A bundle file changes when a builder opens or writes it, and when a     *)
(* user copies another bundle over it.                                     *)
LEMMA StoreStep ==
  ASSUME TypeInv, StoreOwned, HandOwned, [Next]_vars
  PROVE  StoreOwned'
<1>1. SUFFICES ASSUME NEW m \in Modules, Whole(m)'
               PROVE  log'[store'[m]].mod = m
  BY DEF StoreOwned
<1>2. m \in Paths
  BY DEF Paths
<1>3. CASE store'[m] = store[m]
  BY <1>1, <1>2, <1>3, InRange, LogGrows DEF StoreOwned, Whole
<1>4. ASSUME NEW p \in Procs, OpenBundle(p), store'[m] # store[m]
      PROVE  FALSE
  BY <1>1, <1>2, <1>4 DEF OpenBundle, Torn, Whole, TypeInv, TypeOK
<1>5. ASSUME NEW p \in Procs, WriteBundle(p), store'[m] # store[m]
      PROVE  log'[store'[m]].mod = m
  <2>1. pc[p] = "write" /\ path[p] = mod[p] /\ base[p] # 0 /\ log' = log
    BY <1>5 DEF WriteBundle, HandOwned, HandOwnedBy, Building
  <2>2. path[p] = m /\ store'[m] = base[p]
    BY <1>1, <1>2, <1>5 DEF WriteBundle, Torn, Whole, TypeInv, TypeOK
  <2> QED
    BY <2>1, <2>2 DEF HandOwned, HandOwnedBy, Building
<1>6. ASSUME NEW a \in Paths, NEW b \in Paths, Copy(a, b), store'[m] # store[m]
      PROVE  log'[store'[m]].mod = m
  <2>1. b = m /\ store'[m] = store[a] /\ log' = log
    BY <1>2, <1>6 DEF Copy, TypeInv, TypeOK
  <2> QED
    BY <1>6, <2>1, StoreAssumption DEF Copy
<1> QED
  BY <1>3, <1>4, <1>5, <1>6
     DEF Next, Builder, Verifier, Finish, Crash, StartInit, StartUpdate,
         StartVerify, ReadExisting, ReadSurface, ReadHash, Sign, SigningFails,
         Route, Parsing, Step7Action, Step8Action, Step9Action, Exit, Edit,
         vars, files

(* Only a command of its own changes what a process does and holds: the    *)
(* others leave its variables alone, and mark it stale when they change    *)
(* its module file.                                                        *)
Untouched(p) ==
  /\ pc'[p] = pc[p] /\ path'[p] = path[p] /\ mod'[p] = mod[p]
  /\ arg'[p] = arg[p] /\ base'[p] = base[p]
  /\ draft'[p] = draft[p] /\ verdict'[p] = verdict[p]
  /\ p \in stale => p \in stale'
  /\ pc[p] # "idle" /\ p \notin stale' => source'[mod[p]] = source[mod[p]]

LEMMA HandKept ==
  ASSUME TypeInv, HandOwned, [Next]_vars, NEW p \in Procs, Untouched(p)
  PROVE  HandOwnedBy(p)'
<1>1. base[p] # 0 => log'[base[p]] = log[base[p]]
  BY InRange, LogGrows
<1> QED
  BY <1>1 DEF Untouched, HandOwned, HandOwnedBy

LEMMA SameVerdict ==
  ASSUME TypeInv, NEW p \in Procs
  PROVE  verdict = [verdict EXCEPT ![p] = verdict[p]]
BY DEF TypeInv, TypeOK

LEMMA Started ==
  ASSUME TypeInv, NEW p \in Procs, NEW m \in Modules, NEW t \in Configs,
         StartInit(p, m, t) \/ StartUpdate(p, m, t)
  PROVE  /\ pc[p] = "idle" /\ base' = base /\ draft' = draft
         /\ stale' = stale /\ source' = source /\ log' = log
         /\ \E v : verdict' = [verdict EXCEPT ![p] = v]
         /\ path' = [path EXCEPT ![p] = m] /\ mod' = [mod EXCEPT ![p] = m]
         /\ arg' = [arg EXCEPT ![p] = [trust |-> t, policy |-> "none"]]
         /\ \E s \in {"surface", "hash", "read", "done"} :
              pc' = [pc EXCEPT ![p] = s]
<1>1. CASE StartInit(p, m, t)
  BY <1>1, SameVerdict DEF StartInit, Target, Goto, Report, FirstRead, files,
     history
<1>2. CASE StartUpdate(p, m, t)
  BY <1>2, SameVerdict DEF StartUpdate, Target, Goto, Report, files, history
<1> QED
  BY <1>1, <1>2

LEMMA OthersUntouched ==
  ASSUME TypeInv, [Next]_vars, NEW p \in Procs
  PROVE  \/ Untouched(p)
         \/ p \in Writers /\ \E m \in Modules, t \in Configs :
               StartInit(p, m, t) \/ StartUpdate(p, m, t)
         \/ \E a \in Paths, t \in Configs, pol \in PolicyArgs :
               StartVerify(p, a, t, pol)
         \/ Builder(p) \/ Verifier(p) \/ Finish(p) \/ Crash(p)
<1> USE DEF Untouched, TypeInv, TypeOK
<1>1. ASSUME NEW q \in Procs \ {p}, NEW m \in Modules, NEW t \in Configs,
             StartInit(q, m, t) \/ StartUpdate(q, m, t)
      PROVE  Untouched(p)
  <2>1. /\ base' = base /\ \E s : pc' = [pc EXCEPT ![q] = s]
        /\ draft' = draft /\ stale' = stale /\ source' = source
        /\ \E v : verdict' = [verdict EXCEPT ![q] = v]
    BY <1>1, Started
  <2>2. path' = [path EXCEPT ![q] = m] /\ mod' = [mod EXCEPT ![q] = m]
    BY <1>1, Started
  <2>3. arg' = [arg EXCEPT ![q] = [trust |-> t, policy |-> "none"]]
    BY <1>1, Started
  <2> QED
    BY <2>1, <2>2, <2>3
<1>2. ASSUME NEW q \in Procs \ {p}, NEW a \in Paths, NEW t \in Configs,
             NEW pol \in PolicyArgs, StartVerify(q, a, t, pol)
      PROVE  Untouched(p)
  BY <1>2 DEF StartVerify, Goto, Report, files, history
<1>3. ASSUME NEW q \in Procs \ {p}, Builder(q)
      PROVE  Untouched(p)
  <2>1. CASE ReadSurface(q) \/ ReadHash(q)
    BY <2>1, <1>3 DEF ReadSurface, ReadHash, Watch, Goto, Report, files
  <2>2. CASE ReadExisting(q) \/ Sign(q) \/ SigningFails(q)
    BY <2>2, <1>3 DEF ReadExisting, Sign, SigningFails, Goto, Report, files,
       history
  <2>3. CASE OpenBundle(q) \/ WriteBundle(q)
    BY <2>3, <1>3 DEF OpenBundle, WriteBundle, Goto, Report, history
  <2> QED
    BY <1>3, <2>1, <2>2, <2>3 DEF Builder
<1>4. ASSUME NEW q \in Procs \ {p}, Verifier(q)
      PROVE  Untouched(p)
  <2>1. CASE Route(q) \/ Parsing(q)
    BY <2>1, <1>4 DEF Route, Parsing, Goto, Report, files, history
  <2>2. CASE Step7Action(q)
    BY <2>2, <1>4 DEF Step7Action, Goto, Report, files
  <2>3. CASE Step8Action(q) \/ Step9Action(q)
    BY <2>3, <1>4 DEF Step8Action, Step9Action, Goto, Report, files, history
  <2> QED
    BY <1>4, <2>1, <2>2, <2>3 DEF Verifier
<1>5. ASSUME NEW q \in Procs \ {p}, Exit(q)
      PROVE  Untouched(p)
  BY <1>5 DEF Exit, files
<1>6. ASSUME \/ \E m \in Modules, c \in Contents \cup {"missing"} : Edit(m, c)
             \/ \E a, b \in Paths : Copy(a, b)
             \/ UNCHANGED vars
      PROVE  Untouched(p)
  <2>1. ASSUME NEW m \in Modules, NEW c, Edit(m, c)
        PROVE  Untouched(p)
    BY <2>1 DEF Edit
  <2>2. ASSUME NEW a, NEW b, Copy(a, b)
        PROVE  Untouched(p)
    BY <2>2 DEF Copy, history
  <2>3. ASSUME UNCHANGED vars
        PROVE  Untouched(p)
    BY <2>3 DEF vars, files, history
  <2> QED
    BY <1>6, <2>1, <2>2, <2>3
<1>7. CASE \E q \in Writers, m \in Modules, t \in Configs :
              StartInit(q, m, t) \/ StartUpdate(q, m, t)
  <2>1. PICK q \in Writers, m \in Modules, t \in Configs :
           StartInit(q, m, t) \/ StartUpdate(q, m, t)
    BY <1>7
  <2>2. CASE q = p
    BY <2>1, <2>2
  <2>3. CASE q # p
    BY <1>1, <2>1, <2>3, StoreAssumption
  <2> QED
    BY <2>2, <2>3
<1>8. CASE \E q \in Verifiers, a \in Paths, t \in Configs, pol \in PolicyArgs :
              StartVerify(q, a, t, pol)
  <2>1. PICK q \in Verifiers, a \in Paths, t \in Configs, pol \in PolicyArgs :
           StartVerify(q, a, t, pol)
    BY <1>8
  <2>2. CASE q = p
    BY <2>1, <2>2
  <2>3. CASE q # p
    BY <1>2, <2>1, <2>3, StoreAssumption
  <2> QED
    BY <2>2, <2>3
<1>9. CASE \E q \in Procs : Builder(q) \/ Verifier(q) \/ Finish(q) \/ Crash(q)
  BY <1>9, <1>3, <1>4, <1>5 DEF Finish, Crash
<1> QED
  BY <1>6, <1>7, <1>8, <1>9 DEF Next

LEMMA HandStep ==
  ASSUME TypeInv, StoreOwned, HandOwned, [Next]_vars
  PROVE  HandOwned'
<1> SUFFICES ASSUME NEW p \in Procs PROVE HandOwnedBy(p)'
  BY DEF HandOwned
<1> USE DEF TypeInv, TypeOK, HandOwned, HandOwnedBy, Building
<1>1. CASE Untouched(p)
  BY <1>1, HandKept
<1>2. ASSUME NEW m \in Modules, NEW t \in Configs,
             StartInit(p, m, t) \/ StartUpdate(p, m, t)
      PROVE  HandOwnedBy(p)'
  BY <1>2, Started
<1>3. ASSUME NEW a \in Paths, NEW t \in Configs, NEW pol \in PolicyArgs,
             StartVerify(p, a, t, pol)
      PROVE  HandOwnedBy(p)'
  BY <1>3 DEF StartVerify, Goto, Report
<1>4. CASE ReadExisting(p)
  <2>1. CASE Whole(path[p])
    <3>1. path[p] = mod[p] /\ mod[p] \in Modules /\ mod' = mod /\ path' = path
      BY <1>4 DEF ReadExisting
    <3>2. base'[p] = store[path[p]] /\ log[base'[p]].mod = mod[p] /\ log' = log
      BY <1>4, <2>1, <3>1 DEF ReadExisting, StoreOwned, files
    <3>3. pc'[p] \in {"surface", "hash"}
      BY <1>4, <2>1 DEF ReadExisting, Goto, FirstRead
    <3> QED
      BY <3>1, <3>2, <3>3
  <2>2. CASE ~Whole(path[p])
    BY <1>4, <2>2 DEF ReadExisting, Report
  <2> QED
    BY <2>1, <2>2
<1>5. CASE ReadSurface(p)
  <2>1. /\ pc'[p] \in {"hash", "sign", "done"} /\ pc[p] = "surface"
        /\ path' = path /\ mod' = mod /\ base' = base /\ log' = log
    BY <1>5 DEF ReadSurface, Goto, Report, AfterSurface, files
  <2> QED
    BY <2>1
<1>6. CASE ReadHash(p)
  <2>1. /\ pc'[p] \in {"surface", "sign", "done"} /\ pc[p] = "hash"
        /\ path' = path /\ mod' = mod /\ base' = base /\ log' = log
    BY <1>6 DEF ReadHash, Goto, Report, AfterHash, files
  <2> QED
    BY <2>1
<1>7. CASE Sign(p)
  <2>1. BuildManifest(p) \in Bundles(Modules) /\ log \in Seq(Bundles(Modules))
    BY <1>7, Signed DEF Sign
  <2>2. log'[Len(log) + 1] = BuildManifest(p)
    BY <1>7, <2>1, Appending DEF Sign
  <2>3. /\ pc'[p] = "open" /\ base'[p] = Len(log) + 1 /\ pc[p] = "sign"
        /\ path' = path /\ mod' = mod
    BY <1>7 DEF Sign, Goto
  <2>4. log'[base'[p]].mod = mod[p] /\ base'[p] # 0
    BY <2>2, <2>3 DEF BuildManifest
  <2> QED
    BY <2>3, <2>4
<1>8. CASE SigningFails(p) \/ OpenBundle(p) \/ WriteBundle(p)
  <2>1. /\ pc'[p] = "done" \/ (pc'[p] = "write" /\ pc[p] = "open")
        /\ path' = path /\ mod' = mod /\ base' = base /\ log' = log
    BY <1>8 DEF SigningFails, OpenBundle, WriteBundle, Goto, Report, files
  <2> QED
    BY <2>1
<1>9. CASE Verifier(p)
  BY <1>9 DEF Verifier, Route, Parsing, Step7Action, Step8Action, Step9Action,
     Goto, Report
<1>10. CASE Exit(p)
  BY <1>10 DEF Exit
<1> QED
  BY <1>1, <1>2, <1>3, <1>4, <1>5, <1>6, <1>7, <1>8, <1>9, <1>10,
     OthersUntouched DEF Builder, Finish, Crash

(* Only signing adds a link, and the manifest it signs extends the one its *)
(* builder holds.                                                          *)
LEMMA ChainStep ==
  ASSUME TypeInv, HandOwned, ChainLinked, [Next]_vars
  PROVE  ChainLinked'
<1>1. CASE \E p \in Procs : Sign(p)
  <2>1. PICK p \in Procs : Sign(p)
    BY <1>1
  <2> DEFINE b == BuildManifest(p)
             n == Len(log)
  <2>2. b \in Bundles(Modules) /\ log \in Seq(Bundles(Modules)) /\ n \in Nat
    BY <2>1, Signed DEF Sign, TypeInv, TypeOK
  <2>3. /\ Len(log') = n + 1 /\ log'[n + 1] = b
        /\ \A i \in 1 .. n : log'[i] = log[i]
    BY <2>1, <2>2, Appending DEF Sign
  <2>4. b.prev = base[p] /\ b.mod = mod[p] /\ b.pos = NextPosition(base[p])
    BY DEF BuildManifest
  <2>5. base[p] # 0 => base[p] \in 1 .. n /\ log[base[p]].mod = mod[p]
    BY <2>1, InRange DEF Sign, HandOwned, HandOwnedBy, Building
  <2>6. IF b.prev = 0 THEN b.pos = 1
        ELSE /\ b.prev \in 1 .. n
             /\ log'[b.prev].mod = b.mod
             /\ b.pos = log'[b.prev].pos + 1
    BY <2>3, <2>4, <2>5 DEF NextPosition
  <2>7. \A i \in 1 .. n : log[i].prev # 0 => log[i].prev \in 1 .. n
    <3>1. \A i \in 1 .. n : log[i] \in Bundles(Modules)
      BY <2>2
    <3>2. \A i \in 1 .. n : log[i].prev \in Nat
      BY <3>1 DEF Bundles
    <3> QED
      BY <3>2, <2>2 DEF ChainLinked
  <2> HIDE DEF b
  <2>8. ASSUME NEW i \in 1 .. Len(log')
        PROVE  IF log'[i].prev = 0 THEN log'[i].pos = 1
               ELSE /\ log'[i].prev < i
                    /\ log'[log'[i].prev].mod = log'[i].mod
                    /\ log'[i].pos = log'[log'[i].prev].pos + 1
    <3>1. CASE i = n + 1
      BY <3>1, <2>2, <2>3, <2>6
    <3>2. CASE i \in 1 .. n
      BY <3>2, <2>3, <2>7 DEF ChainLinked
    <3> QED
      BY <3>1, <3>2, <2>2, <2>3
  <2> QED
    BY <2>8 DEF ChainLinked
<1>2. CASE ~ \E p \in Procs : Sign(p)
  <2>1. log' = log
    BY <1>2, LogUntouched
  <2> QED
    BY <2>1 DEF ChainLinked
<1> QED
  BY <1>1, <1>2

(* The inductive invariant of the chain and refinement theorems.           *)
LEMMA ChainInvariant == Spec => []ChainInv
<1>1. Init => ChainInv
  <2> SUFFICES ASSUME Init PROVE ChainInv
    OBVIOUS
  <2>1. StoreOwned
    <3>1. \A m \in Modules : store[m] = -1
      BY ModuleOrArchive DEF Init, Absent
    <3> QED
      BY <3>1 DEF StoreOwned, Whole
  <2>2. HandOwned
    BY DEF Init, HandOwned, HandOwnedBy, Building
  <2>3. ChainLinked
    <3>1. log = << >>
      BY DEF Init
    <3>2. Len(<< >>) = 0
      OBVIOUS
    <3> QED
      BY <3>1, <3>2 DEF ChainLinked
  <2> QED
    BY <2>1, <2>2, <2>3, TypeInit DEF ChainInv
<1>2. TypeInv /\ [Next]_vars => TypeInv'
  BY TypeStep, HashedStep DEF TypeInv
<1>3. ChainInv /\ [Next]_vars => ChainInv'
  BY <1>2, StoreStep, HandStep, ChainStep DEF ChainInv
<1> QED
  BY <1>1, <1>3, PTL DEF Spec

(* Chains hold together for every number of modules, commands, edits and   *)
(* crashes: cmd_manifest_update takes position and previous hash from one  *)
(* read of the module's own bundle, and init starts at position 1.         *)
THEOREM ChainCorrect == Spec => []ChainLinked
<1>1. ChainInv => ChainLinked
  BY DEF ChainInv
<1> QED
  BY <1>1, ChainInvariant, PTL

-----------------------------------------------------------------------------
(* What one writer keeps when it is left alone: no other writer, no kill,  *)
(* no older bundle brought back.  Modules, edits, verifiers, and the       *)
(* number of commands the writer runs one after the other are arbitrary.   *)

Alone ==
  /\ \A p, q \in Writers : p = q
  /\ ~MayCrash
  /\ Archives = {}

(* Only the writer builds, and nobody shares its open bundle file.         *)
WritersBuild == \A p \in Procs : pc[p] \in Building => p \in Writers
Unshared == \A p \in Procs : ~shared[p]

(* A bundle file that nobody replaces holds the head of its chain, a       *)
(* builder extends the head it found, and what it signed is the new head.  *)
Replacing(m) == \E p \in Writers : pc[p] \in {"open", "write"} /\ path[p] = m
IsHead(i) == \A j \in 1 .. Len(log) : log[j].prev # i
HeadKept == \A m \in Modules : Whole(m) /\ ~Replacing(m) => IsHead(store[m])
ExtendsHead(p) ==
  /\ pc[p] \in {"surface", "hash", "sign"} /\ base[p] # 0 => base[p] = store[path[p]]
  /\ pc[p] \in {"open", "write"} => IsHead(base[p])
HeadExtended == \A p \in Writers : ExtendsHead(p)

SoloInv ==
  /\ Alone /\ WritersBuild /\ Unshared
  /\ HeadKept /\ HeadExtended
  /\ TornOnlyWhileWritten /\ NoFork

-----------------------------------------------------------------------------
(* A step of one process that leaves bundles and log alone, and does not   *)
(* leave a bundle file half replaced.                                      *)
Quiet(q) ==
  /\ UNCHANGED <<store, log>>
  /\ \A p \in Procs : ~shared'[p]
  /\ \A p \in Procs : p # q => pc'[p] = pc[p] /\ path'[p] = path[p] /\ base'[p] = base[p]
  /\ pc[q] \notin {"open", "write"} /\ pc'[q] \notin {"open", "write"}
  /\ pc'[q] \in Building => q \in Writers
  /\ pc'[q] \in {"surface", "hash", "sign"} /\ base'[q] # 0 => base'[q] = store[path'[q]]

LEMMA QuietKeeps ==
  ASSUME SoloInv, NEW q \in Procs, Quiet(q)
  PROVE  SoloInv'
<1>1. Writers \subseteq Procs
  BY StoreAssumption
<1>2. Alone' /\ WritersBuild' /\ Unshared' /\ NoFork'
  BY DEF SoloInv, Alone, WritersBuild, Unshared, NoFork, Quiet
<1>3. \A i : IsHead(i)' = IsHead(i)
  BY DEF IsHead, Quiet
<1>4. \A m : Replacing(m)' = Replacing(m)
  BY <1>1 DEF Replacing, Quiet
<1>5. HeadKept'
  BY <1>3, <1>4 DEF SoloInv, HeadKept, Quiet, Whole
<1>6. HeadExtended'
  <2> SUFFICES ASSUME NEW p \in Writers PROVE ExtendsHead(p)'
    BY DEF HeadExtended
  <2>1. CASE p = q
    BY <2>1 DEF ExtendsHead, Quiet
  <2>2. CASE p # q
    BY <1>1, <1>3, <2>2 DEF SoloInv, HeadExtended, ExtendsHead, Quiet
  <2> QED
    BY <2>1, <2>2
<1>7. TornOnlyWhileWritten'
  <2> SUFFICES ASSUME NEW a \in Paths, store'[a] = Torn
               PROVE  \E p \in Procs : pc'[p] = "write" /\ path'[p] = a
    BY DEF TornOnlyWhileWritten
  <2>1. PICK p \in Procs : pc[p] = "write" /\ path[p] = a
    BY DEF Quiet, SoloInv, TornOnlyWhileWritten
  <2> QED
    BY <2>1 DEF Quiet
<1> QED
  BY <1>2, <1>5, <1>6, <1>7 DEF SoloInv

(* All of a builder's and a verifier's steps are quiet but three.          *)
LEMMA QuietSteps ==
  ASSUME TypeInv, HandOwned, SoloInv, [Next]_vars
  PROVE  \/ \E q \in Procs : Quiet(q)
         \/ \E q \in Writers : Sign(q) \/ OpenBundle(q) \/ WriteBundle(q)
         \/ UNCHANGED <<store, log, shared, pc, path, base>>
         \/ \E a, b \in Paths : Copy(a, b)
<1> USE DEF TypeInv, TypeOK
<1>0. Writers \subseteq Procs /\ Verifiers \subseteq Procs
  BY StoreAssumption
<1>1. ASSUME NEW q \in Writers, NEW m \in Modules, NEW t \in Configs,
             StartInit(q, m, t) \/ StartUpdate(q, m, t)
      PROVE  Quiet(q)
  <2>1. /\ pc[q] = "idle" /\ base' = base /\ log' = log
        /\ path' = [path EXCEPT ![q] = m]
        /\ \E s \in {"surface", "hash", "read", "done"} : pc' = [pc EXCEPT ![q] = s]
    BY <1>0, <1>1, Started
  <2>2. store' = store /\ shared' = shared
    BY <1>1 DEF StartInit, StartUpdate, files
  <2>3. base[q] = 0
    BY <1>0, <2>1 DEF HandOwned, HandOwnedBy
  <2> QED
    BY <1>0, <2>1, <2>2, <2>3 DEF Quiet, SoloInv, Unshared
<1>2. ASSUME NEW q \in Verifiers, NEW a \in Paths, NEW t \in Configs, NEW pol \in PolicyArgs,
             StartVerify(q, a, t, pol)
      PROVE  Quiet(q)
  BY <1>0, <1>2 DEF StartVerify, Goto, Report, files, Quiet, SoloInv, Unshared, Building
<1>3. ASSUME NEW q \in Procs, Builder(q)
      PROVE  Quiet(q) \/ Sign(q) \/ OpenBundle(q) \/ WriteBundle(q)
  <2>1. CASE ReadExisting(q)
    <3>1. q \in Writers
      BY <2>1 DEF ReadExisting, SoloInv, WritersBuild, Building
    <3>2. UNCHANGED <<store, log, path, shared>> /\ pc[q] = "read"
      BY <2>1 DEF ReadExisting, files
    <3>3. \/ pc' = [pc EXCEPT ![q] = "done"] /\ base' = base
          \/ \E s \in {"hash", "surface"} :
               pc' = [pc EXCEPT ![q] = s] /\ base' = [base EXCEPT ![q] = store[path[q]]]
      BY <2>1 DEF ReadExisting, Goto, Report, FirstRead
    <3> QED
      BY <1>0, <3>1, <3>2, <3>3 DEF Quiet, SoloInv, Unshared, Building
  <2>2. CASE ReadSurface(q) \/ ReadHash(q)
    <3>1. q \in Writers /\ pc[q] \in {"surface", "hash"}
      BY <2>2 DEF ReadSurface, ReadHash, SoloInv, WritersBuild, Building
    <3>2. UNCHANGED <<store, log, path, base, shared>>
      BY <2>2 DEF ReadSurface, ReadHash, files
    <3>3. \E s \in {"hash", "surface", "sign", "done"} : pc' = [pc EXCEPT ![q] = s]
      BY <2>2 DEF ReadSurface, ReadHash, Goto, Report, AfterSurface, AfterHash
    <3>4. base[q] # 0 => base[q] = store[path[q]]
      BY <3>1 DEF SoloInv, HeadExtended, ExtendsHead
    <3> QED
      BY <1>0, <3>1, <3>2, <3>3, <3>4 DEF Quiet, SoloInv, Unshared
  <2>3. CASE SigningFails(q)
    BY <2>3 DEF SigningFails, Report, files, Quiet, SoloInv, Unshared, Building
  <2> QED
    BY <1>3, <2>1, <2>2, <2>3 DEF Builder
<1>4. ASSUME NEW q \in Procs, Sign(q) \/ OpenBundle(q) \/ WriteBundle(q)
      PROVE  q \in Writers
  BY <1>4 DEF Sign, OpenBundle, WriteBundle, SoloInv, WritersBuild, Building
<1>5. ASSUME NEW q \in Procs, Verifier(q)
      PROVE  Quiet(q)
  <2>1. UNCHANGED <<store, log, path, shared>> /\ pc[q] \in {"route", "parse", "step7", "step8", "step9"}
    BY <1>5 DEF Verifier, Route, Parsing, Step7Action, Step8Action, Step9Action, files
  <2>2. \E s \in {"parse", "step7", "step8", "step9", "done"} : pc' = [pc EXCEPT ![q] = s]
    BY <1>5 DEF Verifier, Route, Parsing, Step7Action, Step8Action, Step9Action, Goto, Report
  <2>3. \A p \in Procs : p # q => base'[p] = base[p]
    BY <1>5 DEF Verifier, Route, Parsing, Step7Action, Step8Action, Step9Action
  <2> QED
    BY <2>1, <2>2, <2>3 DEF Quiet, SoloInv, Unshared, Building
<1>6. ASSUME NEW q \in Procs, Finish(q) \/ Crash(q)
      PROVE  Quiet(q)
  <2>1. pc[q] = "done" /\ Exit(q)
    BY <1>6 DEF Finish, Crash, SoloInv, Alone
  <2> QED
    BY <2>1 DEF Exit, files, Quiet, SoloInv, Unshared, Building
<1>7. ASSUME NEW m, NEW c, Edit(m, c)
      PROVE  UNCHANGED <<store, log, shared, pc, path, base>>
  BY <1>7 DEF Edit
<1>8. ASSUME UNCHANGED vars
      PROVE  UNCHANGED <<store, log, shared, pc, path, base>>
  BY <1>8 DEF vars
<1> QED
  BY <1>0, <1>1, <1>2, <1>3, <1>4, <1>5, <1>6, <1>7, <1>8 DEF Next

-----------------------------------------------------------------------------
(* The three steps that replace a bundle.                                  *)
LEMMA SignKeeps ==
  ASSUME TypeInv, TypeInv', StoreOwned, HandOwned, ChainLinked, SoloInv, NEW q \in Writers, Sign(q)
  PROVE  SoloInv'
<1> DEFINE i == Len(log) + 1
<1>0. q \in Procs /\ Writers \subseteq Procs /\ Paths = Modules
  BY StoreAssumption DEF SoloInv, Alone, Paths
<1>1. /\ pc[q] = "sign" /\ pc' = [pc EXCEPT ![q] = "open"]
      /\ UNCHANGED <<store, path, shared>>
      /\ log' = Append(log, BuildManifest(q))
      /\ base' = [base EXCEPT ![q] = i]
  BY DEF Sign, Goto
<1>2. /\ Len(log) \in Nat /\ Len(log') = i /\ log'[i].prev = base[q]
      /\ \A j \in 1 .. Len(log) : log'[j] = log[j]
      /\ base[q] \in 0 .. Len(log) /\ path[q] \in Modules
  <2>1. BuildManifest(q).prev = base[q]
    BY DEF BuildManifest
  <2>2. BuildManifest(q) \in Bundles(Modules) /\ log \in Seq(Bundles(Modules))
    BY <1>0, <1>1, Signed DEF TypeInv, TypeOK
  <2>3. base[q] \in 0 .. Len(log) /\ path[q] \in Modules
    BY <1>0 DEF TypeInv, TypeOK
  <2> QED
    BY <1>1, <2>1, <2>2, <2>3
<1>3. \A j \in 1 .. Len(log) : log[j].prev \in Nat /\ log[j].prev < j
  <2> SUFFICES ASSUME NEW j \in 1 .. Len(log)
               PROVE  log[j].prev \in Nat /\ log[j].prev < j
    OBVIOUS
  <2>1. log[j] \in Bundles(Modules)
    BY <1>2 DEF TypeInv, TypeOK
  <2>2. log[j].prev \in Nat
    BY <2>1 DEF Bundles
  <2>3. log[j].prev = 0 \/ log[j].prev < j
    BY DEF ChainLinked
  <2> QED
    BY <2>2, <2>3
<1>4. ~Replacing(path[q])
  BY <1>1 DEF Replacing, SoloInv, Alone
<1>5. base[q] # 0 => base[q] = store[path[q]] /\ Whole(path[q]) /\ IsHead(base[q])
  <2>1. base[q] # 0 => base[q] = store[path[q]]
    BY <1>1 DEF SoloInv, HeadExtended, ExtendsHead
  <2>2. base[q] # 0 => Whole(path[q])
    BY <1>2, <2>1 DEF Whole
  <2> QED
    BY <1>2, <1>4, <2>1, <2>2 DEF SoloInv, HeadKept
<1>6. Alone' /\ WritersBuild' /\ Unshared'
  BY <1>0, <1>1 DEF SoloInv, Alone, WritersBuild, Unshared, Building, TypeInv, TypeOK
<1>7. NoFork'
  <2> SUFFICES ASSUME NEW j \in 1 .. i, NEW k \in 1 .. i,
                      log'[j].prev = log'[k].prev, log'[j].prev # 0
               PROVE  j = k
    BY <1>2 DEF NoFork
  <2>1. \A l \in 1 .. Len(log) : log'[l].prev = base[q] => base[q] = 0
    BY <1>2, <1>5 DEF IsHead
  <2>2. CASE j = i \/ k = i
    BY <1>2, <2>1, <2>2
  <2>3. CASE j # i /\ k # i
    BY <1>2, <2>3 DEF SoloInv, NoFork
  <2> QED
    BY <2>2, <2>3
<1>8. HeadKept'
  <2> SUFFICES ASSUME NEW m \in Modules, Whole(m)', ~Replacing(m)'
               PROVE  IsHead(store[m])'
    BY <1>1 DEF HeadKept
  <2>1. m # path[q]
    BY <1>0, <1>1 DEF Replacing, TypeInv, TypeOK
  <2>2. Whole(m) /\ ~Replacing(m)
    BY <1>0, <1>1 DEF Replacing, Whole, SoloInv, Alone
  <2>3. IsHead(store[m])
    BY <2>2 DEF SoloInv, HeadKept
  <2>4. store[m] # base[q]
    <3>1. store[m] # 0
      BY <2>2 DEF Whole
    <3>2. log[store[m]].mod = m
      BY <2>2 DEF StoreOwned
    <3>3. base[q] # 0 => log[base[q]].mod = path[q]
      BY <1>0, <1>2, <1>5 DEF StoreOwned
    <3> QED
      BY <2>1, <3>1, <3>2, <3>3
  <2> QED
    BY <1>1, <1>2, <2>3, <2>4 DEF IsHead
<1>9. HeadExtended'
  <2> SUFFICES ASSUME NEW p \in Writers PROVE ExtendsHead(p)'
    BY DEF HeadExtended
  <2>1. p = q
    BY DEF SoloInv, Alone
  <2>2. pc'[p] = "open" /\ base'[p] = i
    BY <1>0, <1>1, <2>1 DEF TypeInv, TypeOK
  <2>3. \A j \in 1 .. Len(log') : log'[j].prev # i
    BY <1>2, <1>3
  <2> QED
    BY <2>2, <2>3 DEF ExtendsHead, IsHead
<1>10. TornOnlyWhileWritten'
  BY <1>0, <1>1 DEF SoloInv, TornOnlyWhileWritten, TypeInv, TypeOK
<1> QED
  BY <1>6, <1>7, <1>8, <1>9, <1>10 DEF SoloInv

LEMMA ReplaceKeeps ==
  ASSUME TypeInv, HandOwned, SoloInv, NEW q \in Writers, OpenBundle(q) \/ WriteBundle(q)
  PROVE  SoloInv'
<1>0. q \in Procs /\ Writers \subseteq Procs /\ Paths = Modules
  BY StoreAssumption DEF SoloInv, Alone, Paths
<1>1. /\ UNCHANGED <<log, path, base>> /\ pc[q] \in {"open", "write"}
      /\ shared' = Touched(q)
  BY DEF OpenBundle, WriteBundle
<1>2. \/ /\ pc' = [pc EXCEPT ![q] = "write"]
         /\ store' = [store EXCEPT ![path[q]] = Torn]
      \/ /\ pc' = [pc EXCEPT ![q] = "done"]
         /\ store' = [store EXCEPT ![path[q]] = base[q]]
  <2>1. CASE OpenBundle(q)
    BY <2>1 DEF OpenBundle, Goto
  <2>2. CASE WriteBundle(q)
    BY <1>0, <2>2 DEF WriteBundle, Report, SoloInv, Unshared
  <2> QED
    BY <2>1, <2>2
<1>3. base[q] >= 1 /\ IsHead(base[q])
  BY <1>0, <1>1 DEF HandOwned, HandOwnedBy, SoloInv, HeadExtended, ExtendsHead, TypeInv, TypeOK
<1>4. \A p \in Procs : p # q => pc'[p] = pc[p] /\ pc[p] \notin Building
  BY <1>2 DEF SoloInv, Alone, WritersBuild, TypeInv, TypeOK
<1>5. Unshared'
  <2> SUFFICES ASSUME NEW p \in Procs PROVE ~shared'[p]
    BY DEF Unshared
  <2> QED
    BY <1>1, <1>4 DEF Touched, SoloInv, Unshared, Building
<1>6. Alone' /\ WritersBuild' /\ NoFork'
  BY <1>1, <1>4 DEF SoloInv, Alone, WritersBuild, NoFork
<1>7. HeadKept'
  <2> SUFFICES ASSUME NEW m \in Modules, Whole(m)', ~Replacing(m)'
               PROVE  IsHead(store'[m])
    BY <1>1 DEF HeadKept, IsHead
  <2>1. CASE m = path[q]
    <3>1. store'[m] \in {Torn, base[q]}
      BY <1>0, <1>2, <2>1 DEF TypeInv, TypeOK
    <3> QED
      BY <1>3, <3>1 DEF Whole, Torn
  <2>2. CASE m # path[q]
    <3>1. store'[m] = store[m]
      BY <1>0, <1>2, <2>2 DEF TypeInv, TypeOK
    <3>2. ~Replacing(m)
      BY <2>2 DEF Replacing, SoloInv, Alone
    <3> QED
      BY <3>1, <3>2 DEF SoloInv, HeadKept, Whole
  <2> QED
    BY <2>1, <2>2
<1>8. HeadExtended'
  <2> SUFFICES ASSUME NEW p \in Writers PROVE ExtendsHead(p)'
    BY DEF HeadExtended
  <2>1. p = q
    BY DEF SoloInv, Alone
  <2>2. pc'[p] \in {"write", "done"} /\ base'[p] = base[q]
    BY <1>0, <1>1, <1>2, <2>1 DEF TypeInv, TypeOK
  <2>3. IsHead(base[q])'
    BY <1>1, <1>3 DEF IsHead
  <2> QED
    BY <1>1, <2>1, <2>2, <2>3 DEF ExtendsHead
<1>9. TornOnlyWhileWritten'
  <2> SUFFICES ASSUME NEW a \in Paths, store'[a] = Torn
               PROVE  \E p \in Procs : pc'[p] = "write" /\ path'[p] = a
    BY DEF TornOnlyWhileWritten
  <2>1. CASE a = path[q]
    <3>1. pc'[q] = "write"
      BY <1>0, <1>2, <1>3, <2>1 DEF Torn, TypeInv, TypeOK
    <3> QED
      BY <1>0, <1>1, <2>1, <3>1
  <2>2. CASE a # path[q]
    <3>1. store[a] = Torn
      BY <1>2, <2>2 DEF TypeInv, TypeOK
    <3>2. PICK p \in Procs : pc[p] = "write" /\ path[p] = a
      BY <3>1 DEF SoloInv, TornOnlyWhileWritten
    <3> QED
      BY <1>4, <2>2, <3>2 DEF Building
  <2> QED
    BY <2>1, <2>2
<1> QED
  BY <1>5, <1>6, <1>7, <1>8, <1>9 DEF SoloInv

(* Without archives there is no older bundle to bring back.                *)
LEMMA NothingToCopy ==
  ASSUME StoreOwned, SoloInv, NEW a \in Paths, NEW b \in Paths
  PROVE  ~Copy(a, b)
BY DEF Copy, StoreOwned, SoloInv, Alone, Paths

LEMMA SoloStep ==
  ASSUME ChainInv, ChainInv', SoloInv, [Next]_vars
  PROVE  SoloInv'
<1>0. TypeInv /\ TypeInv' /\ StoreOwned /\ HandOwned /\ ChainLinked
  BY DEF ChainInv
<1>1. CASE \E q \in Procs : Quiet(q)
  BY <1>1, QuietKeeps
<1>2. CASE \E q \in Writers : Sign(q) \/ OpenBundle(q) \/ WriteBundle(q)
  BY <1>0, <1>2, SignKeeps, ReplaceKeeps
<1>3. CASE UNCHANGED <<store, log, shared, pc, path, base>>
  BY <1>3 DEF SoloInv, Alone, WritersBuild, Unshared, HeadKept, HeadExtended, ExtendsHead,
     Replacing, IsHead, Whole, TornOnlyWhileWritten, NoFork
<1>4. CASE \E a, b \in Paths : Copy(a, b)
  BY <1>0, <1>4, NothingToCopy
<1> QED
  BY <1>0, <1>1, <1>2, <1>3, <1>4, QuietSteps

LEMMA SoloInvariant == Alone /\ Spec => [](ChainInv /\ SoloInv)
<1>1. Alone /\ Init => SoloInv
  <2> SUFFICES ASSUME Alone, Init PROVE SoloInv
    OBVIOUS
  <2>1. /\ log = << >> /\ \A a \in Paths : store[a] = -1
        /\ \A p \in Procs : pc[p] = "idle" /\ shared[p] = FALSE
    BY DEF Init, Absent
  <2>2. WritersBuild /\ Unshared /\ HeadExtended
    BY <2>1, StoreAssumption DEF WritersBuild, Unshared, HeadExtended, ExtendsHead, Building
  <2>3. HeadKept /\ TornOnlyWhileWritten /\ NoFork
    BY <2>1 DEF HeadKept, Whole, TornOnlyWhileWritten, Torn, NoFork, Paths
  <2> QED
    BY <2>2, <2>3 DEF SoloInv
<1>2. ChainInv /\ ChainInv' /\ SoloInv /\ [Next]_vars => SoloInv'
  BY SoloStep
<1> QED
  BY <1>1, <1>2, ChainInvariant, PTL DEF Spec

(* A writer that is alone and never killed leaves a bundle file unreadable *)
(* only between its open and its write, however many commands it runs.     *)
THEOREM TornAlone == Alone /\ Spec => []TornOnlyWhileWritten
<1>1. SoloInv => TornOnlyWhileWritten
  BY DEF SoloInv
<1> QED
  BY <1>1, SoloInvariant, PTL

(* A writer that is alone, is never killed and gets no older bundle back   *)
(* never signs two successors of one manifest.                             *)
THEOREM NoForkAlone == Alone /\ Spec => []NoFork
<1>1. SoloInv => NoFork
  BY DEF SoloInv
<1> QED
  BY <1>1, SoloInvariant, PTL
=============================================================================
