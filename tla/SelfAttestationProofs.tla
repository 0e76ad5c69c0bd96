------------------------ MODULE SelfAttestationProofs ------------------------
(***************************************************************************)
(* The safety properties of SelfAttestation, for any number of releases,   *)
(* commits, workflow runs and installations.                               *)
(***************************************************************************)
EXTENDS SelfAttestation, TLAPS

(* The manifest that attests the wheel of a version, and the bundle the    *)
(* workflow makes of it.                                                   *)
Attest(v) == Bytes("indented", ReleasedManifest(v))
Endorsed(v) == [over |-> Attest(v), signer |-> WorkflowAt(v)]
IsManifest(v, x) == pypi[v] # None /\ x = Attest(v)
IsBundle(v, x) == pypi[v] # None /\ x = Endorsed(v)

(* A run that is past the publication finds the wheel on PyPI, and uploads *)
(* what attests it.                                                        *)
RunsInv ==
  \A r \in Runs :
    /\ run[r].pc \in {"release", "sign", "upload"} => pypi[r[1]] # None
    /\ run[r].pc = "upload" => IsManifest(r[1], run[r].manifest) /\ IsBundle(r[1], run[r].bundle)

SignedInv == \A b \in signed : \E v \in Versions : IsBundle(v, b)

UntouchedInv ==
  \A v \in Versions \ touched :
    /\ assets[v].manifest # None => IsManifest(v, assets[v].manifest)
    /\ assets[v].bundle # None => IsBundle(v, assets[v].bundle)

(* What a session holds: of an untouched release the manifest and the      *)
(* bundle of the workflow, after the signature check the manifest of the   *)
(* wheel, then the hash of the installation as it is.                      *)
SessionInv ==
  \A u \in Users :
    LET s == session[u] IN
    /\ s.verdict # None => s.pc = "ended"
    /\ s.verdict = "CASM-OK" => s.version \in Versions
    /\ s.pc = "signature" => s.bundle # None
    /\ s.pc \in {"bundle", "signature"} /\ s.version \notin touched => IsManifest(s.version, s.manifest)
    /\ s.pc = "signature" /\ s.version \notin touched => IsBundle(s.version, s.bundle)
    /\ s.pc \in {"hash", "drift"} => IsManifest(s.version, s.manifest)
    /\ s.pc = "drift" /\ u \notin changed => s.hash = installed[u].files

(* An alarm is about a version that is on PyPI.                            *)
AlarmInv ==
  \A u \in Users :
    session[u].verdict = "CASM-V-072b" /\ u \notin changed
    => installed[u].version \in Versions /\ pypi[installed[u].version] # None

-----------------------------------------------------------------------------
(* Types.                                                                  *)

LEMMA RunParts ==
  ASSUME NEW r \in Runs
  PROVE  r[1] \in Versions /\ r[2] \in Commits
BY TagsAreVersions DEF Runs

USE DEF published, local, server

LEMMA InitTypes == Init => SelfTypeOK
BY DEF Init, SelfTypeOK, Idle, NoSession, Installed, Steps, Bundled, Files

(* What the workflow signs is a bundle over a manifest.                    *)
LEMMA SignTypes ==
  ASSUME SelfTypeOK, RunsInv, NEW r \in Runs, Sign(r)
  PROVE  SelfTypeOK'
<1> DEFINE m == Bytes("indented", SelfManifest(r))
           b == [over |-> m, signer |-> WorkflowAt(r[1])]
<1>1. r[1] \in Versions /\ pypi[r[1]] \in Commits
  BY RunParts DEF SelfTypeOK, RunsInv, Sign, At
<1>2. SelfManifest(r) \in Manifests
  BY <1>1, CommitsHaveSources DEF SelfManifest, Manifests
<1>3. m \in AllBytes
  BY <1>2 DEF Bytes, AllBytes
<1>4. b \in Bundles /\ b.signer # Maintainer
  BY <1>1, <1>3, NoneIsNothing DEF Bundles, WorkflowAt, Maintainer
<1> HIDE DEF m, b
<1>5. signed' = signed \cup {b} /\ run' = [run EXCEPT ![r] = [pc |-> "upload", manifest |-> m, bundle |-> b]]
  BY DEF Sign, m, b
<1>6. UNCHANGED <<published, assets, local, touched>>
  BY DEF Sign
<1>7. run' \in [Runs -> [pc : Steps, manifest : AllBytes \cup {None}, bundle : signed' \cup {None}]]
  BY <1>3, <1>5 DEF SelfTypeOK, Steps
<1>8. Bundled \subseteq Bundled'
  BY <1>5 DEF Bundled
<1>9. assets' \in [Versions -> [manifest : {None, Junk} \cup AllBytes, bundle : Bundled']]
  BY <1>6, <1>8 DEF SelfTypeOK
<1>10. session' \in [Users ->
       [pc : {"idle", "manifest", "bundle", "signature", "hash", "drift", "ended"},
        version : Versions \cup {None}, manifest : {None, Junk} \cup AllBytes, bundle : Bundled',
        hash : Hashes \cup {None}, verdict : Verdicts \cup {None}]]
  BY <1>6, <1>8 DEF SelfTypeOK
<1> QED
  BY <1>4, <1>5, <1>6, <1>7, <1>9, <1>10 DEF SelfTypeOK

(* A run moves on.                                                         *)
LEMMA GoTypes ==
  ASSUME SelfTypeOK, NEW r \in Runs, NEW pc \in Steps, Go(r, pc)
  PROVE  /\ run' \in [Runs -> [pc : Steps, manifest : AllBytes \cup {None}, bundle : signed \cup {None}]]
         /\ run'[r].pc = pc
         /\ \A q \in Runs : /\ q # r => run'[q] = run[q]
                           /\ run'[q].manifest = run[q].manifest /\ run'[q].bundle = run[q].bundle
BY DEF SelfTypeOK, Go

LEMMA WorkflowTypes ==
  ASSUME SelfTypeOK, RunsInv, NEW r \in Runs, PushTag(r) \/ Step(r) \/ Fail(r) \/ Rerun(r)
  PROVE  SelfTypeOK'
<1> USE RunParts DEF SelfTypeOK, Bundled, Steps, At, Go, Idle
<1>1. CASE PushTag(r)
  <2>1. PICK pc \in Steps : Go(r, pc)
    BY <1>1 DEF PushTag
  <2>2. run' \in [Runs -> [pc : Steps, manifest : AllBytes \cup {None}, bundle : signed \cup {None}]]
    BY <2>1, GoTypes
  <2>3. tag' \in [Versions -> Commits \cup {None}]
    BY <1>1 DEF PushTag
  <2> QED
    BY <1>1, <2>2, <2>3 DEF PushTag
<1>2. CASE PublishWheel(r)
  BY <1>2 DEF PublishWheel
<1>3. CASE CreateRelease(r)
  <2>1. Go(r, "sign") /\ release' = release \cup {r[1]}
    BY <1>3 DEF CreateRelease
  <2>2. run' \in [Runs -> [pc : Steps, manifest : AllBytes \cup {None}, bundle : signed \cup {None}]]
    BY <2>1, GoTypes
  <2> QED
    BY <1>3, <2>1, <2>2 DEF CreateRelease
<1>4. CASE Sign(r)
  BY <1>4, SignTypes
<1>5. ASSUME NEW f \in Files, Upload(r, f) PROVE SelfTypeOK'
  <2>1. run[r].manifest \in AllBytes \cup {None} /\ run[r].bundle \in Bundled
    OBVIOUS
  <2>2. CASE f = "manifest"
    <3>1. assets' = [assets EXCEPT ![r[1]].manifest = IF @ = None THEN run[r].manifest ELSE None]
      BY <1>5, <2>2 DEF Upload
    <3>2. assets' \in [Versions -> [manifest : {None, Junk} \cup AllBytes, bundle : Bundled]]
      BY <2>1, <3>1
    <3> QED
      BY <1>5, <3>2 DEF Upload
  <2>3. CASE f = "bundle"
    <3>1. assets' = [assets EXCEPT ![r[1]].bundle = IF @ = None THEN run[r].bundle ELSE None]
      BY <1>5, <2>3 DEF Upload
    <3>2. assets' \in [Versions -> [manifest : {None, Junk} \cup AllBytes, bundle : Bundled]]
      BY <2>1, <3>1
    <3> QED
      BY <1>5, <3>2 DEF Upload
  <2> QED
    BY <2>2, <2>3 DEF Files
<1>6. CASE EndUpload(r)
  BY <1>6 DEF EndUpload
<1>7. CASE Fail(r)
  BY <1>7 DEF Fail
<1>8. CASE Rerun(r)
  BY <1>8 DEF Rerun
<1> QED
  BY <1>1, <1>2, <1>3, <1>4, <1>5, <1>6, <1>7, <1>8 DEF Step

LEMMA MaintainerTypes ==
  ASSUME SelfTypeOK, NEW t \in Versions, NEW f \in Files,
         PublishByHand(t) \/ ReleaseByHand(t) \/ UploadByHand(t, f)
  PROVE  SelfTypeOK'
<1>1. CASE PublishByHand(t)
  BY <1>1, CommitsHaveSources, NoneIsNothing DEF SelfTypeOK, Bundled, PublishByHand
<1>2. CASE ReleaseByHand(t)
  BY <1>2 DEF SelfTypeOK, Bundled, ReleaseByHand
<1>3. CASE UploadByHand(t, f)
  <2>1. PICK x : /\ x \in {Junk} \cup {assets[w][f] : w \in Versions}
                       \cup (IF f = "manifest" THEN {}
                             ELSE {[over |-> m, signer |-> Maintainer] : m \in {assets[t].manifest} \cap AllBytes})
                 /\ assets' = [assets EXCEPT ![t][f] = x]
    BY <1>3 DEF UploadByHand
  <2>2. touched' = touched \cup {t} /\ UNCHANGED <<published, run, signed, local>>
    BY <1>3 DEF UploadByHand
  <2>3. \A m \in AllBytes : [over |-> m, signer |-> Maintainer] \in Bundled
    BY DEF Bundled, Bundles, Maintainer
  <2>4. assets' \in [Versions -> [manifest : {None, Junk} \cup AllBytes, bundle : Bundled]]
    <3>1. CASE f = "manifest"
      <4>1. x \in {None, Junk} \cup AllBytes
        BY <2>1, <3>1 DEF SelfTypeOK
      <4> QED
        BY <2>1, <3>1, <4>1 DEF SelfTypeOK
    <3>2. CASE f = "bundle"
      <4>1. x \in Bundled
        BY <2>1, <2>3, <3>2 DEF SelfTypeOK, Bundled
      <4> QED
        BY <2>1, <3>2, <4>1 DEF SelfTypeOK
    <3> QED
      BY <3>1, <3>2 DEF Files
  <2> QED
    BY <2>2, <2>4 DEF SelfTypeOK, Bundled
<1> QED
  BY <1>1, <1>2, <1>3

(* What a session can be, as SelfTypeOK has it.                            *)
Sessions ==
  [pc : {"idle", "manifest", "bundle", "signature", "hash", "drift", "ended"},
   version : Versions \cup {None}, manifest : {None, Junk} \cup AllBytes, bundle : Bundled,
   hash : Hashes \cup {None}, verdict : Verdicts \cup {None}]

LEMMA SessionsAre == SelfTypeOK => session \in [Users -> Sessions]
BY DEF SelfTypeOK, Sessions

LEMMA EndIsSession ==
  ASSUME NEW s \in Sessions, NEW d \in Verdicts, NEW m \in {None, s.manifest}
  PROVE  [s EXCEPT !.pc = "ended", !.verdict = d, !.bundle = None, !.hash = None, !.manifest = m]
           \in Sessions
<1>1. None \in Bundled
  BY DEF Bundled
<1> QED
  BY <1>1 DEF Sessions

LEMMA EndTypes ==
  ASSUME SelfTypeOK, NEW u \in Users, NEW verdict \in Verdicts, End(u, verdict)
  PROVE  \E s \in Sessions : Proceed(u, s) /\ s.pc = "ended"
<1> DEFINE m == IF verdict = "CASM-OK" THEN session[u].manifest ELSE None
           s == [session[u] EXCEPT !.pc = "ended", !.verdict = verdict, !.bundle = None, !.hash = None,
                                   !.manifest = m]
<1>1. session[u] \in Sessions
  BY SessionsAre
<1>2. s \in Sessions
  BY <1>1, EndIsSession
<1>3. s.pc = "ended"
  BY <1>1 DEF Sessions
<1>4. Proceed(u, s)
  BY DEF End
<1> QED
  BY <1>2, <1>3, <1>4

LEMMA PipTypes ==
  ASSUME SelfTypeOK, NEW u \in Users,
         PipUninstall(u) \/ PipUnpack(u) \/ PipFinish(u) \/ \E h \in Hashes : EditInstalled(u, h)
  PROVE  SelfTypeOK' /\ \E now : Changes(u, now)
<1>1. PICK v \in Versions \cup {None}, k \in Hashes \cup {None} : Changes(u, Installed(v, k))
  <2>1. \A v \in Versions : pypi[v] # None => Pinned[pypi[v]] \in Hashes
    BY CommitsHaveSources DEF SelfTypeOK
  <2>2. installed[u].version \in Versions \cup {None} /\ installed[u].files \in Hashes \cup {None}
    BY DEF SelfTypeOK
  <2>3. CASE PipUninstall(u)
    BY <2>3 DEF PipUninstall
  <2>4. CASE PipUnpack(u)
    BY <2>1, <2>4 DEF PipUnpack
  <2>5. CASE PipFinish(u)
    BY <2>2, <2>5 DEF PipFinish
  <2>6. CASE \E h \in Hashes : EditInstalled(u, h)
    BY <2>2, <2>6 DEF EditInstalled
  <2> QED
    BY <2>3, <2>4, <2>5, <2>6
<1>2. installed' \in [Users -> [version : Versions \cup {None}, files : Hashes \cup {None}]]
  BY <1>1 DEF SelfTypeOK, Changes, Installed
<1> QED
  BY <1>1, <1>2 DEF SelfTypeOK, Changes, Bundled

LEMMA SessionTypes ==
  ASSUME SelfTypeOK, NEW u \in Users, NEW o \in Versions \cup {None},
         \/ StartVerifySelf(u, o) \/ DownloadManifest(u) \/ DownloadBundle(u)
         \/ VerifySelfSignature(u) \/ HashInstalled(u) \/ CompareHash(u)
  PROVE  SelfTypeOK'
<1>1. session \in [Users -> Sessions] /\ session[u] \in Sessions
  BY SessionsAre
<1>2. UNCHANGED <<server, installed>> /\ changed' \subseteq Users
  BY DEF SelfTypeOK, StartVerifySelf, DownloadManifest, DownloadBundle, Download,
         VerifySelfSignature, HashInstalled, CompareHash
<1>3. SUFFICES /\ session' \in [Users -> Sessions]
               /\ \A w \in Users : session'[w].pc \notin {"idle", "ended"} => session'[w].version # None
  BY <1>2 DEF SelfTypeOK, Sessions, Bundled
<1>4. SUFFICES \E s \in Sessions : Proceed(u, s) /\ (s.pc \in {"idle", "ended"} \/ s.version # None)
  BY <1>1 DEF SelfTypeOK, Proceed
<1>5. ASSUME NEW verdict \in Verdicts, End(u, verdict)
      PROVE  \E s \in Sessions : Proceed(u, s) /\ (s.pc \in {"idle", "ended"} \/ s.version # None)
  BY <1>5, EndTypes
<1>6. CASE StartVerifySelf(u, o)
  <2>1. Requested(u, o) \subseteq Versions /\ None \notin Requested(u, o)
    BY DEF Requested, SelfTypeOK
  <2>2. CASE Proceed(u, [NoSession EXCEPT !.pc = "ended", !.verdict = "no metadata"])
    <3>1. None \in Bundled
      BY DEF Bundled
    <3>2. [NoSession EXCEPT !.pc = "ended", !.verdict = "no metadata"] \in Sessions
      BY <3>1 DEF NoSession, Sessions, Verdicts
    <3> QED
      BY <2>2, <3>2 DEF NoSession
  <2>3. ASSUME NEW v \in Requested(u, o), Proceed(u, [NoSession EXCEPT !.pc = "manifest", !.version = v])
        PROVE  \E s \in Sessions : Proceed(u, s) /\ (s.pc \in {"idle", "ended"} \/ s.version # None)
    <3>1. None \in Bundled
      BY DEF Bundled
    <3>2. [NoSession EXCEPT !.pc = "manifest", !.version = v] \in Sessions
      BY <2>1, <3>1 DEF NoSession, Sessions
    <3> QED
      BY <2>1, <2>3, <3>2 DEF NoSession
  <2> QED
    BY <1>6, <2>2, <2>3 DEF StartVerifySelf
<1>7. CASE DownloadManifest(u)
  <2>1. session[u].pc = "manifest" /\ session[u].version \in Versions
    BY <1>1, <1>7 DEF DownloadManifest, Download, Asks, SelfTypeOK
  <2>2. assets[session[u].version].manifest \in {None, Junk} \cup AllBytes
    BY <2>1 DEF SelfTypeOK
  <2>3. \/ End(u, "CASM-V-072a")
        \/ Proceed(u, [session[u] EXCEPT !.pc = "bundle", !.manifest = assets[session[u].version].manifest])
    BY <1>7 DEF DownloadManifest, Download
  <2>4. [session[u] EXCEPT !.pc = "bundle", !.manifest = assets[session[u].version].manifest] \in Sessions
    BY <1>1, <2>2 DEF Sessions
  <2>5. session[u].version # None
    BY <2>1, NoneIsNothing
  <2> QED
    BY <1>1, <1>5, <2>3, <2>4, <2>5 DEF Verdicts, Sessions
<1>8. CASE DownloadBundle(u)
  <2>1. session[u].pc = "bundle" /\ session[u].version \in Versions
    BY <1>1, <1>8 DEF DownloadBundle, Download, Asks, SelfTypeOK
  <2>2. assets[session[u].version].bundle \in Bundled
    BY <2>1 DEF SelfTypeOK
  <2>3. \/ End(u, "CASM-V-072a")
        \/ Proceed(u, [session[u] EXCEPT !.pc = "signature", !.bundle = assets[session[u].version].bundle])
    BY <1>8 DEF DownloadBundle, Download
  <2>4. [session[u] EXCEPT !.pc = "signature", !.bundle = assets[session[u].version].bundle] \in Sessions
    BY <1>1, <2>2 DEF Sessions
  <2>5. session[u].version # None
    BY <2>1, NoneIsNothing
  <2> QED
    BY <1>1, <1>5, <2>3, <2>4, <2>5 DEF Verdicts, Sessions
<1>9. CASE VerifySelfSignature(u)
  <2>1. \/ \E verdict \in Verdicts : End(u, verdict)
        \/ Proceed(u, [session[u] EXCEPT !.pc = "hash"])
    BY <1>9 DEF VerifySelfSignature, Verdicts
  <2>2. session[u].version # None
    BY <1>9 DEF VerifySelfSignature, Asks, SelfTypeOK
  <2> QED
    BY <1>1, <1>5, <2>1, <2>2 DEF Sessions
<1>10. CASE HashInstalled(u)
  <2>1. session[u].version # None /\ installed[u].files \in Hashes \cup {None}
    BY <1>10 DEF HashInstalled, Asks, SelfTypeOK
  <2>2. CASE installed[u].files = None
    BY <1>5, <1>10, <2>2 DEF HashInstalled, Verdicts
  <2>3. CASE installed[u].files # None
    <3>1. [session[u] EXCEPT !.pc = "drift", !.hash = installed[u].files] \in Sessions
      BY <1>1, <2>1 DEF Sessions
    <3> QED
      BY <1>1, <1>10, <2>1, <2>3, <3>1 DEF HashInstalled, Sessions
  <2> QED
    BY <2>2, <2>3
<1>11. CASE CompareHash(u)
  <2>1. \E verdict \in Verdicts : End(u, verdict)
    BY <1>11 DEF CompareHash, Verdicts
  <2> QED
    BY <1>5, <2>1
<1> QED
  BY <1>6, <1>7, <1>8, <1>9, <1>10, <1>11

-----------------------------------------------------------------------------
(* The steps of the workflow and of the maintainers, and what they keep.   *)

WorkflowStep(r) == PushTag(r) \/ Step(r) \/ Fail(r) \/ Rerun(r)
HandStep(t, f) == PublishByHand(t) \/ ReleaseByHand(t) \/ UploadByHand(t, f)
ServerStep ==
  \/ \E r \in Runs : WorkflowStep(r)
  \/ \E t \in Versions, f \in Files : HandStep(t, f)

(* What is on PyPI stays, and so does the mark of an upload by hand.       *)
Grows ==
  /\ \A v \in Versions : pypi[v] # None => pypi'[v] = pypi[v]
  /\ touched \subseteq touched'

LEMMA WorkflowGrows ==
  ASSUME SelfTypeOK, NEW r \in Runs, WorkflowStep(r)
  PROVE  Grows /\ UNCHANGED <<local, touched>>
<1>1. CASE PublishWheel(r)
  BY <1>1, RunParts DEF PublishWheel, SelfTypeOK, Grows
<1>2. CASE UNCHANGED <<pypi, local, touched>>
  BY <1>2 DEF Grows
<1> QED
  BY <1>1, <1>2 DEF WorkflowStep, Step, PushTag, CreateRelease, Sign, Upload, EndUpload, Fail, Rerun

LEMMA HandGrows ==
  ASSUME SelfTypeOK, NEW t \in Versions, NEW f \in Files, HandStep(t, f)
  PROVE  Grows /\ UNCHANGED <<local, run, signed>>
<1>1. CASE PublishByHand(t)
  <2>1. pypi' = [pypi EXCEPT ![VersionOf[tag[t]]] = tag[t]] /\ pypi[VersionOf[tag[t]]] = None
    BY <1>1 DEF PublishByHand
  <2>2. \A v \in Versions : pypi[v] # None => pypi'[v] = pypi[v]
    BY <2>1 DEF SelfTypeOK
  <2> QED
    BY <1>1, <2>2 DEF PublishByHand, Grows
<1>2. CASE ReleaseByHand(t) \/ UploadByHand(t, f)
  BY <1>2 DEF ReleaseByHand, UploadByHand, Grows
<1> QED
  BY <1>1, <1>2 DEF HandStep

LEMMA ManifestStays ==
  ASSUME Grows, NEW v \in Versions, NEW x
  PROVE  /\ IsManifest(v, x) => pypi'[v] # None /\ x = Attest(v)'
         /\ IsBundle(v, x) => pypi'[v] # None /\ x = Endorsed(v)'
BY DEF Grows, IsManifest, IsBundle, Attest, Endorsed, ReleasedManifest, Bytes, WorkflowAt

(* The runs.                                                               *)
LEMMA OtherRuns ==
  ASSUME RunsInv, Grows, NEW q \in Runs, run'[q] = run[q]
  PROVE  /\ run'[q].pc \in {"release", "sign", "upload"} => pypi'[q[1]] # None
         /\ run'[q].pc = "upload" => IsManifest(q[1], run[q].manifest)' /\ IsBundle(q[1], run[q].bundle)'
<1>1. q[1] \in Versions
  BY RunParts
<1>2. run'[q].pc \in {"release", "sign", "upload"} => pypi'[q[1]] # None
  BY <1>1 DEF RunsInv, Grows
<1>3. CASE run'[q].pc = "upload"
  <2>1. IsManifest(q[1], run[q].manifest) /\ IsBundle(q[1], run[q].bundle)
    BY <1>3 DEF RunsInv
  <2> QED
    BY <1>1, <1>2, <2>1, ManifestStays DEF IsManifest, IsBundle
<1> QED
  BY <1>2, <1>3

(* Sign makes the manifest and the bundle of the wheel on PyPI.            *)
LEMMA SignEndorses ==
  ASSUME SelfTypeOK, RunsInv, NEW r \in Runs, Sign(r)
  PROVE  /\ run'[r].pc = "upload"
         /\ \A q \in Runs : q # r => run'[q] = run[q]
         /\ IsManifest(r[1], run[r].manifest)' /\ IsBundle(r[1], run[r].bundle)'
         /\ signed' = signed \cup {Endorsed(r[1])} /\ IsBundle(r[1], Endorsed(r[1]))
         /\ pypi' = pypi
<1> DEFINE m == Bytes("indented", SelfManifest(r))
           b == [over |-> m, signer |-> WorkflowAt(r[1])]
<1>1. pypi[r[1]] # None /\ pypi' = pypi
  BY DEF RunsInv, Sign, At
<1>2. m = Attest(r[1]) /\ b = Endorsed(r[1])
  BY DEF Attest, Endorsed, SelfManifest, ReleasedManifest
<1>3. Attest(r[1])' = Attest(r[1]) /\ Endorsed(r[1])' = Endorsed(r[1])
  BY <1>1 DEF Attest, Endorsed, ReleasedManifest, Bytes, WorkflowAt
<1> HIDE DEF m, b
<1>4. signed' = signed \cup {b} /\ run' = [run EXCEPT ![r] = [pc |-> "upload", manifest |-> m, bundle |-> b]]
  BY DEF Sign, m, b
<1>5. /\ run'[r].pc = "upload" /\ run'[r].manifest = m /\ run'[r].bundle = b
      /\ \A q \in Runs : q # r => run'[q] = run[q]
  BY <1>4 DEF SelfTypeOK
<1> QED
  BY <1>1, <1>2, <1>3, <1>4, <1>5 DEF IsManifest, IsBundle

LEMMA WorkflowRuns ==
  ASSUME SelfTypeOK, RunsInv, NEW r \in Runs, WorkflowStep(r)
  PROVE  RunsInv'
<1>1. Grows
  BY WorkflowGrows
<1>2. r[1] \in Versions /\ r[2] \in Commits
  BY RunParts
<1>3. SUFFICES /\ \A q \in Runs : q # r => run'[q] = run[q]
               /\ \/ run'[r] = run[r]
                  \/ run'[r].pc \notin {"release", "sign", "upload"}
                  \/ run'[r].pc \in {"release", "sign"} /\ pypi'[r[1]] # None
                  \/ /\ run'[r].pc = "upload" /\ pypi'[r[1]] # None
                     /\ IsManifest(r[1], run[r].manifest)' /\ IsBundle(r[1], run[r].bundle)'
  BY <1>1, OtherRuns DEF RunsInv
<1>4. CASE PushTag(r)
  BY <1>4, GoTypes DEF PushTag, Steps
<1>5. CASE PublishWheel(r)
  <2>1. pypi'[r[1]] # None
    BY <1>2, <1>5, NoneIsNothing DEF PublishWheel, SelfTypeOK
  <2> QED
    BY <1>5, <2>1, GoTypes DEF PublishWheel, Steps
<1>6. CASE CreateRelease(r)
  <2>1. pypi'[r[1]] # None
    BY <1>6 DEF CreateRelease, RunsInv, At
  <2> QED
    BY <1>6, <2>1, GoTypes DEF CreateRelease, Steps
<1>7. CASE Sign(r)
  BY <1>7, SignEndorses DEF IsManifest
<1>8. CASE \E f \in Files : Upload(r, f)
  BY <1>8 DEF Upload
<1>9. CASE EndUpload(r)
  BY <1>9 DEF EndUpload, Idle, SelfTypeOK
<1>10. CASE Fail(r)
  BY <1>10 DEF Fail, Idle, SelfTypeOK
<1>11. CASE Rerun(r)
  BY <1>11, GoTypes DEF Rerun, Steps
<1> QED
  BY <1>4, <1>5, <1>6, <1>7, <1>8, <1>9, <1>10, <1>11 DEF WorkflowStep, Step

(* The bundles signed.                                                     *)
LEMMA SignedStays ==
  ASSUME SignedInv, Grows, signed' = signed
  PROVE  SignedInv'
<1>1. SUFFICES ASSUME NEW b \in signed PROVE \E v \in Versions : pypi'[v] # None /\ b = Endorsed(v)'
  BY DEF SignedInv, IsBundle
<1> QED
  BY <1>1, ManifestStays DEF SignedInv

LEMMA WorkflowSigned ==
  ASSUME SelfTypeOK, RunsInv, SignedInv, NEW r \in Runs, WorkflowStep(r)
  PROVE  SignedInv'
<1>1. CASE Sign(r)
  <2>1. SUFFICES ASSUME NEW b \in signed' PROVE \E v \in Versions : pypi[v] # None /\ b = Endorsed(v)
    <3>1. pypi' = pypi
      BY <1>1 DEF Sign
    <3> QED
      BY <2>1, <3>1 DEF SignedInv, IsBundle, Endorsed, Attest, ReleasedManifest, Bytes, WorkflowAt
  <2> QED
    BY <1>1, SignEndorses, RunParts DEF SignedInv, IsBundle
<1>2. CASE signed' = signed
  BY <1>2, WorkflowGrows, SignedStays
<1> QED
  BY <1>1, <1>2 DEF WorkflowStep, Step, PushTag, PublishWheel, CreateRelease, Upload, EndUpload,
                    Fail, Rerun

(* The assets nobody uploaded by hand.                                     *)
LEMMA AssetStays ==
  ASSUME UntouchedInv, Grows, NEW v \in Versions, v \notin touched'
  PROVE  /\ assets[v].manifest # None => pypi'[v] # None /\ assets[v].manifest = Attest(v)'
         /\ assets[v].bundle # None => pypi'[v] # None /\ assets[v].bundle = Endorsed(v)'
BY ManifestStays DEF UntouchedInv, Grows

LEMMA UntouchedStays ==
  ASSUME UntouchedInv, Grows, assets' = assets
  PROVE  UntouchedInv'
BY AssetStays DEF UntouchedInv, IsManifest, IsBundle

LEMMA UploadKeepsAttested ==
  ASSUME SelfTypeOK, RunsInv, UntouchedInv, NEW r \in Runs, NEW f \in Files, Upload(r, f)
  PROVE  UntouchedInv'
<1>1. r[1] \in Versions /\ Grows /\ pypi' = pypi /\ touched' = touched
  BY RunParts DEF Grows, Upload
<1>2. IsManifest(r[1], run[r].manifest) /\ IsBundle(r[1], run[r].bundle)
  BY DEF Upload, At, RunsInv
<1>3. Attest(r[1])' = Attest(r[1]) /\ Endorsed(r[1])' = Endorsed(r[1])
  BY <1>1 DEF Attest, Endorsed, ReleasedManifest, Bytes, WorkflowAt
<1>4. \A v \in Versions : v # r[1] => assets'[v] = assets[v]
  BY DEF Upload, SelfTypeOK
<1>5. /\ assets'[r[1]].manifest \in {None, run[r].manifest, assets[r[1]].manifest}
      /\ assets'[r[1]].bundle \in {None, run[r].bundle, assets[r[1]].bundle}
  <2>1. CASE f = "manifest"
    <3>1. assets' = [assets EXCEPT ![r[1]].manifest = IF @ = None THEN run[r].manifest ELSE None]
      BY <2>1 DEF Upload
    <3> QED
      BY <1>1, <3>1 DEF SelfTypeOK
  <2>2. CASE f = "bundle"
    <3>1. assets' = [assets EXCEPT ![r[1]].bundle = IF @ = None THEN run[r].bundle ELSE None]
      BY <2>2 DEF Upload
    <3> QED
      BY <1>1, <3>1 DEF SelfTypeOK
  <2> QED
    BY <2>1, <2>2 DEF Files
<1>6. SUFFICES ASSUME NEW v \in Versions \ touched'
               PROVE  /\ assets'[v].manifest # None => pypi'[v] # None /\ assets'[v].manifest = Attest(v)'
                      /\ assets'[v].bundle # None => pypi'[v] # None /\ assets'[v].bundle = Endorsed(v)'
  BY DEF UntouchedInv, IsManifest, IsBundle
<1>7. /\ assets[v].manifest # None => pypi'[v] # None /\ assets[v].manifest = Attest(v)'
      /\ assets[v].bundle # None => pypi'[v] # None /\ assets[v].bundle = Endorsed(v)'
  BY <1>1, AssetStays
<1> QED
  BY <1>1, <1>2, <1>3, <1>4, <1>5, <1>7 DEF IsManifest, IsBundle

LEMMA WorkflowUntouched ==
  ASSUME SelfTypeOK, RunsInv, UntouchedInv, NEW r \in Runs, WorkflowStep(r)
  PROVE  UntouchedInv'
<1>1. CASE \E f \in Files : Upload(r, f)
  BY <1>1, UploadKeepsAttested
<1>2. CASE assets' = assets
  BY <1>2, WorkflowGrows, UntouchedStays
<1> QED
  BY <1>1, <1>2 DEF WorkflowStep, Step, PushTag, PublishWheel, CreateRelease, Sign, EndUpload,
                    Fail, Rerun

LEMMA HandUntouched ==
  ASSUME SelfTypeOK, UntouchedInv, NEW t \in Versions, NEW f \in Files, HandStep(t, f)
  PROVE  UntouchedInv'
<1>1. Grows
  BY HandGrows
<1>2. CASE UploadByHand(t, f)
  <2>1. t \in touched' /\ \A v \in Versions : v # t => assets'[v] = assets[v]
    BY <1>2 DEF UploadByHand, SelfTypeOK
  <2>2. SUFFICES ASSUME NEW v \in Versions \ touched'
                 PROVE  /\ assets'[v].manifest # None => pypi'[v] # None /\ assets'[v].manifest = Attest(v)'
                        /\ assets'[v].bundle # None => pypi'[v] # None /\ assets'[v].bundle = Endorsed(v)'
    BY DEF UntouchedInv, IsManifest, IsBundle
  <2> QED
    BY <1>1, <2>1, AssetStays
<1>3. CASE assets' = assets
  BY <1>1, <1>3, UntouchedStays
<1> QED
  BY <1>2, <1>3 DEF HandStep, PublishByHand, ReleaseByHand

ServerInv == SelfTypeOK /\ RunsInv /\ SignedInv /\ UntouchedInv

LEMMA RunsStay ==
  ASSUME RunsInv, Grows, run' = run
  PROVE  RunsInv'
BY OtherRuns DEF RunsInv

(* The invariant of the release side is inductive.                         *)
LEMMA ServerStepKeeps ==
  ASSUME ServerInv, ServerStep
  PROVE  ServerInv' /\ Grows /\ UNCHANGED local
<1> USE DEF ServerInv
<1>1. ASSUME NEW r \in Runs, WorkflowStep(r)
      PROVE  ServerInv' /\ Grows /\ UNCHANGED local
  BY <1>1, WorkflowTypes, WorkflowRuns, WorkflowSigned, WorkflowUntouched, WorkflowGrows DEF WorkflowStep
<1>2. ASSUME NEW t \in Versions, NEW f \in Files, HandStep(t, f)
      PROVE  ServerInv' /\ Grows /\ UNCHANGED local
  BY <1>2, MaintainerTypes, HandGrows, RunsStay, SignedStays, HandUntouched DEF HandStep
<1> QED
  BY <1>1, <1>2 DEF ServerStep

-----------------------------------------------------------------------------
(* The sessions of verify-self.                                            *)

SessionsInv ==
  SessionInv /\ AlarmInv /\ AcceptedIsReleased /\ DriftIsReal /\ FailedSignatureNeedsHand

(* A session is as it was while releases are made.                         *)
LEMMA ServerKeepsSessions ==
  ASSUME SelfTypeOK, SessionsInv, Grows, UNCHANGED local
  PROVE  SessionsInv'
<1> USE DEF SessionsInv
<1>1. SessionInv'
  <2>1. SUFFICES ASSUME NEW u \in Users PROVE
      LET s == session[u] IN
      /\ s.pc \in {"bundle", "signature"} /\ s.version \notin touched'
           => pypi'[s.version] # None /\ s.manifest = Attest(s.version)'
      /\ s.pc = "signature" /\ s.version \notin touched'
           => pypi'[s.version] # None /\ s.bundle = Endorsed(s.version)'
      /\ s.pc \in {"hash", "drift"} => pypi'[s.version] # None /\ s.manifest = Attest(s.version)'
    BY DEF SessionInv, IsManifest, IsBundle
  <2>2. session[u].pc \in {"bundle", "signature", "hash", "drift"} => session[u].version \in Versions
    BY DEF SelfTypeOK
  <2> QED
    BY <2>2, ManifestStays DEF SessionInv, Grows
<1>2. AlarmInv'
  BY DEF AlarmInv, Grows
<1>3. AcceptedIsReleased'
  BY DEF AcceptedIsReleased, SessionInv, Grows, ReleasedManifest
<1>4. DriftIsReal'
  BY DEF DriftIsReal, AlarmInv, Grows
<1>5. FailedSignatureNeedsHand'
  BY DEF FailedSignatureNeedsHand, Grows
<1> QED
  BY <1>1, <1>2, <1>3, <1>4, <1>5

(* pip and editors: the installation of one user changes.                  *)
LEMMA ChangeKeepsSessions ==
  ASSUME SelfTypeOK, SessionsInv, NEW u \in Users, NEW now, Changes(u, now)
  PROVE  SessionsInv'
<1>1. /\ UNCHANGED <<pypi, session, touched>> /\ changed' = changed \cup {u}
      /\ \A w \in Users : w # u => installed'[w] = installed[w]
  BY DEF Changes, SelfTypeOK
<1>2. SessionInv'
  BY <1>1 DEF SessionsInv, SessionInv, IsManifest, IsBundle, Attest, Endorsed, ReleasedManifest,
              Bytes, WorkflowAt
<1>3. AlarmInv'
  BY <1>1 DEF SessionsInv, AlarmInv
<1>4. AcceptedIsReleased'
  BY <1>1 DEF SessionsInv, AcceptedIsReleased, ReleasedManifest
<1>5. DriftIsReal'
  BY <1>1 DEF SessionsInv, DriftIsReal
<1>6. FailedSignatureNeedsHand'
  BY <1>1 DEF SessionsInv, FailedSignatureNeedsHand
<1> QED
  BY <1>2, <1>3, <1>4, <1>5, <1>6 DEF SessionsInv

(* What SessionsInv says of a session s of u, with the changes ch.         *)
Fits(u, s, ch) ==
  /\ s.verdict # None => s.pc = "ended"
  /\ s.verdict = "CASM-OK" => s.version \in Versions
  /\ s.pc = "signature" => s.bundle # None
  /\ s.pc \in {"bundle", "signature"} /\ s.version \notin touched => IsManifest(s.version, s.manifest)
  /\ s.pc = "signature" /\ s.version \notin touched => IsBundle(s.version, s.bundle)
  /\ s.pc \in {"hash", "drift"} => IsManifest(s.version, s.manifest)
  /\ s.pc = "drift" /\ u \notin ch => s.hash = installed[u].files
  /\ s.verdict = "CASM-OK" =>
       /\ pypi[s.version] # None /\ s.manifest.of = ReleasedManifest(s.version)
       /\ u \notin ch /\ installed[u].version = s.version
          => installed[u].files = Pinned[pypi[s.version]]
  /\ s.verdict = "CASM-V-072b" /\ u \notin ch =>
       /\ installed[u].version \in Versions /\ pypi[installed[u].version] # None
       /\ installed[u].files # Pinned[pypi[installed[u].version]]
  /\ s.verdict = "CASM-V-03x" => s.version \in touched

LEMMA SessionsFit ==
  SessionsInv <=> \A u \in Users : Fits(u, session[u], changed)
<1> USE DEF SessionsInv, Fits, SessionInv, AlarmInv, AcceptedIsReleased, DriftIsReal,
            FailedSignatureNeedsHand
<1>1. ASSUME SessionsInv PROVE \A u \in Users : Fits(u, session[u], changed)
  BY <1>1
<1>2. ASSUME \A u \in Users : Fits(u, session[u], changed) PROVE SessionsInv
  BY <1>2
<1> QED
  BY <1>1, <1>2

LEMMA SessionMoves ==
  ASSUME SelfTypeOK, SessionsInv, NEW u \in Users, NEW s, Proceed(u, s), UNCHANGED <<server, installed>>,
         changed' \in {changed, changed \ {u}}, Fits(u, s, changed')
  PROVE  SessionsInv'
<1>1. session'[u] = s /\ \A w \in Users : w # u => session'[w] = session[w]
  BY DEF Proceed, SelfTypeOK
<1>2. SUFFICES ASSUME NEW w \in Users PROVE Fits(w, session'[w], changed')
  <2>1. pypi' = pypi /\ touched' = touched /\ installed' = installed
    OBVIOUS
  <2>2. /\ \A v, x : IsManifest(v, x)' <=> pypi[v] # None /\ x = Attest(v)
        /\ \A v, x : IsBundle(v, x)' <=> pypi[v] # None /\ x = Endorsed(v)
    BY <2>1 DEF IsManifest, IsBundle, Attest, Endorsed, ReleasedManifest, Bytes, WorkflowAt
  <2>3. SessionInv'
    BY <1>2, <2>1, <2>2 DEF SessionInv, Fits, IsManifest, IsBundle, Attest, Endorsed,
       ReleasedManifest, Bytes, WorkflowAt
  <2>4. AlarmInv' /\ DriftIsReal' /\ FailedSignatureNeedsHand'
    BY <1>2, <2>1 DEF AlarmInv, DriftIsReal, FailedSignatureNeedsHand, Fits
  <2>5. AcceptedIsReleased'
    BY <1>2, <2>1 DEF AcceptedIsReleased, Fits, ReleasedManifest
  <2> QED
    BY <2>3, <2>4, <2>5 DEF SessionsInv
<1>3. CASE w = u
  BY <1>1, <1>3
<1>4. CASE w # u
  BY <1>1, <1>4, SessionsFit DEF Fits
<1> QED
  BY <1>3, <1>4

(* The end of a session: the three verdicts that say something need a      *)
(* reason.                                                                 *)
LEMMA EndKeeps ==
  ASSUME SelfTypeOK, SessionsInv, NEW u \in Users, NEW d \in Verdicts, End(u, d),
         UNCHANGED <<server, installed, changed>>,
         d = "CASM-OK" =>
           /\ session[u].version \in Versions /\ IsManifest(session[u].version, session[u].manifest)
           /\ u \notin changed /\ installed[u].version = session[u].version
              => installed[u].files = Pinned[pypi[session[u].version]],
         d = "CASM-V-072b" /\ u \notin changed =>
           /\ installed[u].version \in Versions /\ pypi[installed[u].version] # None
           /\ installed[u].files # Pinned[pypi[installed[u].version]],
         d = "CASM-V-03x" => session[u].version \in touched
  PROVE  SessionsInv'
<1> DEFINE m == IF d = "CASM-OK" THEN session[u].manifest ELSE None
           s == [session[u] EXCEPT !.pc = "ended", !.verdict = d, !.bundle = None, !.hash = None,
                                   !.manifest = m]
<1>1. /\ Proceed(u, s) /\ s.pc = "ended" /\ s.verdict = d /\ s.version = session[u].version
      /\ d = "CASM-OK" => s.manifest = session[u].manifest
  <2>1. session[u] \in Sessions
    BY SessionsAre
  <2>2. s.pc = "ended" /\ s.verdict = d /\ s.version = session[u].version /\ s.manifest = m
    BY <2>1 DEF Sessions
  <2>3. Proceed(u, s)
    BY DEF End
  <2> QED
    BY <2>2, <2>3
<1> HIDE DEF s, m
<1>2. d = "CASM-OK" => s.manifest.of = ReleasedManifest(s.version)
  <2>1. \A v, x : IsManifest(v, x) => x.of = ReleasedManifest(v)
    BY DEF IsManifest, Attest, Bytes
  <2> QED
    BY <1>1, <2>1
<1>3. s.pc \notin {"bundle", "signature", "hash", "drift"} /\ s.version = session[u].version
  BY <1>1
<1>4. s.verdict = "CASM-OK" =>
        /\ s.version \in Versions /\ pypi[s.version] # None /\ s.manifest.of = ReleasedManifest(s.version)
        /\ u \notin changed /\ installed[u].version = s.version
           => installed[u].files = Pinned[pypi[s.version]]
  BY <1>1, <1>2 DEF IsManifest
<1>5. s.verdict = "CASM-V-072b" /\ u \notin changed =>
        /\ installed[u].version \in Versions /\ pypi[installed[u].version] # None
        /\ installed[u].files # Pinned[pypi[installed[u].version]]
  BY <1>1
<1>6. s.verdict = "CASM-V-03x" => s.version \in touched
  BY <1>1
<1>7. Fits(u, s, changed)
  BY <1>1, <1>3, <1>4, <1>5, <1>6 DEF Fits
<1> QED
  BY <1>1, <1>7, SessionMoves

LEMMA StartKeeps ==
  ASSUME SelfTypeOK, SessionsInv, NEW u \in Users, NEW o \in Versions \cup {None}, StartVerifySelf(u, o)
  PROVE  SessionsInv'
<1>1. UNCHANGED <<server, installed>> /\ changed' = changed \ {u}
  BY DEF StartVerifySelf
<1>2. CASE Proceed(u, [NoSession EXCEPT !.pc = "ended", !.verdict = "no metadata"])
  <2>1. Fits(u, [NoSession EXCEPT !.pc = "ended", !.verdict = "no metadata"], changed')
    BY DEF NoSession, Fits
  <2> QED
    BY <1>1, <1>2, <2>1, SessionMoves
<1>3. ASSUME NEW v, Proceed(u, [NoSession EXCEPT !.pc = "manifest", !.version = v])
      PROVE  SessionsInv'
  <2>1. Fits(u, [NoSession EXCEPT !.pc = "manifest", !.version = v], changed')
    BY NoneIsNothing DEF NoSession, Fits, Verdicts
  <2> QED
    BY <1>1, <1>3, <2>1, SessionMoves
<1> QED
  BY <1>2, <1>3 DEF StartVerifySelf

(* What a session downloads from an untouched release is the workflow's.   *)
LEMMA DownloadKeeps ==
  ASSUME ServerInv, SessionsInv, NEW u \in Users, DownloadManifest(u) \/ DownloadBundle(u)
  PROVE  SessionsInv'
<1> DEFINE o == session[u]
           v == o.version
<1> USE DEF ServerInv
<1>1. UNCHANGED <<server, installed, changed>>
  BY DEF DownloadManifest, DownloadBundle, Download
<1>2. o \in Sessions /\ Fits(u, o, changed)
  BY SessionsAre, SessionsFit
<1>3. CASE End(u, "CASM-V-072a")
  BY <1>1, <1>3, EndKeeps DEF Verdicts
<1>4. CASE DownloadManifest(u) /\ ~End(u, "CASM-V-072a")
  <2> DEFINE got == assets[v].manifest
             s == [o EXCEPT !.pc = "bundle", !.manifest = got]
  <2>1. o.pc = "manifest" /\ v \in Versions /\ got # None /\ Proceed(u, s)
    BY <1>2, <1>4 DEF DownloadManifest, Download, Asks, SelfTypeOK, Sessions
  <2>2. v \notin touched => IsManifest(v, got)
    BY <2>1 DEF UntouchedInv
  <2>3. s.pc = "bundle" /\ s.version = v /\ s.manifest = got /\ s.verdict = o.verdict
    BY <1>2 DEF Sessions
  <2>4. o.verdict = None
    BY <1>2, <2>1 DEF Fits
  <2> HIDE DEF s, got
  <2>5. s.verdict \notin Verdicts
    BY <2>3, <2>4, NoneIsNothing
  <2>6. Fits(u, s, changed')
    BY <2>2, <2>3, <2>4, <2>5 DEF Fits, Verdicts
  <2> QED
    BY <1>1, <2>1, <2>6, SessionMoves
<1>5. CASE DownloadBundle(u) /\ ~End(u, "CASM-V-072a")
  <2> DEFINE got == assets[v].bundle
             s == [o EXCEPT !.pc = "signature", !.bundle = got]
  <2>1. o.pc = "bundle" /\ v \in Versions /\ got # None /\ Proceed(u, s)
    BY <1>2, <1>5 DEF DownloadBundle, Download, Asks, SelfTypeOK, Sessions
  <2>2. v \notin touched => IsBundle(v, got)
    BY <2>1 DEF UntouchedInv
  <2>3. s.pc = "signature" /\ s.version = v /\ s.manifest = o.manifest /\ s.bundle = got
        /\ s.verdict = o.verdict
    BY <1>2 DEF Sessions
  <2>4. o.verdict = None /\ (v \notin touched => IsManifest(v, o.manifest))
    BY <1>2, <2>1 DEF Fits
  <2> HIDE DEF s, got
  <2>5. s.verdict \notin Verdicts
    BY <2>3, <2>4, NoneIsNothing
  <2>6. Fits(u, s, changed')
    BY <2>1, <2>2, <2>3, <2>4, <2>5 DEF Fits, Verdicts
  <2> QED
    BY <1>1, <2>1, <2>6, SessionMoves
<1> QED
  BY <1>3, <1>4, <1>5

(* A bundle of the release workflow of a version, whoever uploaded it, was *)
(* signed by the workflow, and is over the manifest of the wheel.          *)
LEMMA BundleOfWorkflow ==
  ASSUME ServerInv, NEW v \in Versions, NEW b \in Bundled, b \notin {None, Junk}, b.signer = WorkflowAt(v)
  PROVE  IsBundle(v, b)
<1>1. b.signer # Maintainer
  BY NoneIsNothing DEF WorkflowAt, Maintainer
<1>2. b \in signed
  BY <1>1 DEF Bundled
<1>3. PICK w \in Versions : IsBundle(w, b)
  BY <1>2 DEF ServerInv, SignedInv
<1>4. w = v
  BY <1>3 DEF IsBundle, Endorsed, WorkflowAt
<1> QED
  BY <1>3, <1>4

LEMMA SignatureKeeps ==
  ASSUME ServerInv, SessionsInv, NEW u \in Users, VerifySelfSignature(u)
  PROVE  SessionsInv'
<1> DEFINE o == session[u]
           v == o.version
<1> USE DEF ServerInv
<1>1. UNCHANGED <<server, installed, changed>> /\ o.pc = "signature" /\ v \in Versions
  BY DEF VerifySelfSignature, Asks, SelfTypeOK
<1>2. o \in Sessions /\ Fits(u, o, changed)
  BY SessionsAre, SessionsFit
<1>3. o.bundle # None /\ o.verdict = None
      /\ (v \notin touched => IsManifest(v, o.manifest) /\ IsBundle(v, o.bundle))
  BY <1>1, <1>2 DEF Fits
<1>4. CASE End(u, "CASM-V-072a") \/ End(u, "CASM-V-072c")
  BY <1>1, <1>4, EndKeeps DEF Verdicts
<1>5. CASE End(u, "CASM-V-03x") /\ v \in touched
  BY <1>1, <1>5, EndKeeps DEF Verdicts
<1>6. CASE /\ o.manifest # Junk /\ o.bundle # Junk
           /\ o.bundle.over = o.manifest /\ o.bundle.signer = WorkflowAt(v)
           /\ Proceed(u, [o EXCEPT !.pc = "hash"])
  <2> DEFINE s == [o EXCEPT !.pc = "hash"]
  <2>1. IsBundle(v, o.bundle)
    BY <1>1, <1>2, <1>3, <1>6, BundleOfWorkflow DEF Sessions
  <2>2. IsManifest(v, o.manifest)
    BY <1>6, <2>1 DEF IsBundle, IsManifest, Endorsed
  <2>3. s.pc = "hash" /\ s.version = v /\ s.manifest = o.manifest /\ s.verdict = None
    BY <1>2, <1>3 DEF Sessions
  <2> HIDE DEF s
  <2>4. s.verdict \notin Verdicts
    BY <2>3, NoneIsNothing
  <2>5. Fits(u, s, changed')
    BY <2>2, <2>3, <2>4 DEF Fits, Verdicts
  <2> QED
    BY <1>1, <1>6, <2>5, SessionMoves DEF s
<1>7. v \notin touched => o.bundle.over = o.manifest /\ o.bundle.signer = WorkflowAt(v) /\ o.bundle # Junk
  BY <1>3 DEF IsBundle, IsManifest, Endorsed, Junk
<1> QED
  BY <1>4, <1>5, <1>6, <1>7 DEF VerifySelfSignature, SignedBytes, TrustsSigner

LEMMA HashKeeps ==
  ASSUME ServerInv, SessionsInv, NEW u \in Users, HashInstalled(u)
  PROVE  SessionsInv'
<1> DEFINE o == session[u]
           s == [o EXCEPT !.pc = "drift", !.hash = installed[u].files]
<1> USE DEF ServerInv
<1>1. UNCHANGED <<server, installed, changed>> /\ o.pc = "hash"
  BY DEF HashInstalled, Asks
<1>2. o \in Sessions /\ Fits(u, o, changed)
  BY SessionsAre, SessionsFit
<1>3. CASE End(u, "traceback")
  BY <1>1, <1>3, EndKeeps DEF Verdicts
<1>4. CASE Proceed(u, s)
  <2>1. o.verdict = None /\ IsManifest(o.version, o.manifest)
    BY <1>1, <1>2 DEF Fits
  <2>2. /\ s.pc = "drift" /\ s.version = o.version /\ s.manifest = o.manifest /\ s.verdict = None
        /\ s.hash = installed[u].files
    BY <1>2, <2>1 DEF Sessions
  <2>3. s.verdict \notin Verdicts
    BY <2>2, NoneIsNothing
  <2> HIDE DEF s
  <2>4. Fits(u, s, changed')
    BY <2>1, <2>2, <2>3 DEF Fits, Verdicts
  <2> QED
    BY <1>1, <1>4, <2>4, SessionMoves
<1> QED
  BY <1>3, <1>4 DEF HashInstalled

(* The verdict on the hash: the manifest attests the wheel, and the hash   *)
(* is that of the installation if it did not change.                       *)
LEMMA CompareKeeps ==
  ASSUME ServerInv, SessionsInv, NEW u \in Users, CompareHash(u)
  PROVE  SessionsInv'
<1> DEFINE o == session[u]
           v == o.version
<1> USE DEF ServerInv
<1>1. UNCHANGED <<server, installed, changed>> /\ o.pc = "drift" /\ v \in Versions
  BY DEF CompareHash, Asks, SelfTypeOK
<1>2. Fits(u, o, changed)
  BY SessionsFit
<1>3. IsManifest(v, o.manifest) /\ (u \notin changed => o.hash = installed[u].files)
  BY <1>1, <1>2 DEF Fits
<1>4. pypi[v] # None /\ o.manifest.of.hash = Pinned[pypi[v]]
  BY <1>3 DEF IsManifest, Attest, Bytes, ReleasedManifest
<1>5. CASE o.manifest.of.hash = o.hash
  <2>1. End(u, "CASM-OK")
    BY <1>5 DEF CompareHash
  <2> QED
    BY <1>1, <1>3, <1>4, <1>5, <2>1, EndKeeps DEF Verdicts
<1>6. CASE o.manifest.of.hash # o.hash /\ installed[u].version = None
  <2>1. End(u, "traceback")
    BY <1>6 DEF CompareHash
  <2> QED
    BY <1>1, <2>1, EndKeeps DEF Verdicts
<1>7. CASE o.manifest.of.hash # o.hash /\ installed[u].version # None /\ v = installed[u].version
  <2>1. End(u, "CASM-V-072b")
    BY <1>7 DEF CompareHash, SameVersion
  <2> QED
    BY <1>1, <1>3, <1>4, <1>7, <2>1, EndKeeps DEF Verdicts
<1>8. CASE o.manifest.of.hash # o.hash /\ installed[u].version # None /\ v # installed[u].version
  <2>1. End(u, "CASM-OK")
    BY <1>8 DEF CompareHash, SameVersion
  <2> QED
    BY <1>1, <1>3, <1>8, <2>1, EndKeeps DEF Verdicts
<1> QED
  BY <1>5, <1>6, <1>7, <1>8

-----------------------------------------------------------------------------
(* The invariant, and what follows from it.                                *)

Inv == ServerInv /\ SessionsInv

UserStep(u) ==
  \/ PipUninstall(u) \/ PipUnpack(u) \/ PipFinish(u)
  \/ \E h \in Hashes : EditInstalled(u, h)
  \/ \E v \in Versions \cup {None} : StartVerifySelf(u, v)
  \/ DownloadManifest(u) \/ DownloadBundle(u) \/ VerifySelfSignature(u)
  \/ HashInstalled(u) \/ CompareHash(u)

LEMMA NextSteps == Next => ServerStep \/ \E u \in Users : UserStep(u)
BY DEF Next, ServerStep, WorkflowStep, HandStep, UserStep, Files

(* The release side is as it was while users install and verify.           *)
LEMMA ServerStays ==
  ASSUME RunsInv, SignedInv, UntouchedInv, UNCHANGED <<pypi, run, signed, assets, touched>>
  PROVE  RunsInv' /\ SignedInv' /\ UntouchedInv'
<1>1. Grows
  BY DEF Grows
<1> QED
  BY <1>1, RunsStay, SignedStays, UntouchedStays

LEMMA UserStepKeeps ==
  ASSUME Inv, NEW u \in Users, UserStep(u)
  PROVE  Inv'
<1> USE DEF Inv, ServerInv
<1>1. ASSUME PipUninstall(u) \/ PipUnpack(u) \/ PipFinish(u) \/ \E h \in Hashes : EditInstalled(u, h)
      PROVE  Inv'
  <2>1. SelfTypeOK' /\ \E now : Changes(u, now)
    BY <1>1, PipTypes
  <2>2. SessionsInv' /\ UNCHANGED <<pypi, run, signed, assets, touched>>
    BY <2>1, ChangeKeepsSessions DEF Changes
  <2> QED
    BY <2>1, <2>2, ServerStays
<1>2. ASSUME NEW v \in Versions \cup {None},
             \/ StartVerifySelf(u, v) \/ DownloadManifest(u) \/ DownloadBundle(u)
             \/ VerifySelfSignature(u) \/ HashInstalled(u) \/ CompareHash(u)
      PROVE  Inv'
  <2>1. SelfTypeOK'
    BY <1>2, SessionTypes
  <2>2. SessionsInv'
    BY <1>2, StartKeeps, DownloadKeeps, SignatureKeeps, HashKeeps, CompareKeeps
  <2>3. UNCHANGED <<pypi, run, signed, assets, touched>>
    BY <1>2 DEF StartVerifySelf, DownloadManifest, DownloadBundle, Download, VerifySelfSignature,
                HashInstalled, CompareHash
  <2> QED
    BY <2>1, <2>2, <2>3, ServerStays
<1> QED
  BY <1>1, <1>2 DEF UserStep

LEMMA InitInv == Init => Inv
<1> SUFFICES ASSUME Init PROVE Inv
  OBVIOUS
<1>1. SelfTypeOK
  BY InitTypes
<1>2. RunsInv /\ SignedInv /\ UntouchedInv
  BY DEF Init, Idle, Files, RunsInv, SignedInv, UntouchedInv
<1>3. SessionsInv
  BY NoneIsNothing DEF Init, NoSession, SessionsInv, SessionInv, AlarmInv, AcceptedIsReleased,
     DriftIsReal, FailedSignatureNeedsHand, Verdicts
<1> QED
  BY <1>1, <1>2, <1>3 DEF Inv, ServerInv

LEMMA StepInv == Inv /\ [Next]_vars => Inv'
<1> SUFFICES ASSUME Inv, [Next]_vars PROVE Inv'
  OBVIOUS
<1>1. CASE ServerStep
  <2>1. ServerInv' /\ Grows /\ UNCHANGED local
    BY <1>1, ServerStepKeeps DEF Inv
  <2> QED
    BY <2>1, ServerKeepsSessions DEF Inv, ServerInv
<1>2. ASSUME NEW u \in Users, UserStep(u) PROVE Inv'
  BY <1>2, UserStepKeeps
<1>3. CASE UNCHANGED vars
  BY <1>3 DEF vars, Inv, ServerInv, SelfTypeOK, Bundled, RunsInv, SignedInv, UntouchedInv,
     SessionsInv, SessionInv, AlarmInv, AcceptedIsReleased, DriftIsReal, FailedSignatureNeedsHand,
     IsManifest, IsBundle, Attest, Endorsed, ReleasedManifest, Bytes, WorkflowAt
<1> QED
  BY <1>1, <1>2, <1>3, NextSteps

THEOREM Invariance == Spec => []Inv
BY InitInv, StepInv, PTL DEF Spec

(* Every variable keeps its type: whatever is taken for a bundle was       *)
(* signed by a workflow or a maintainer, or is no bundle.                  *)
THEOREM SelfTypeCorrect == Spec => []SelfTypeOK
<1>1. Inv => SelfTypeOK
  BY DEF Inv, ServerInv
<1> QED
  BY <1>1, Invariance, PTL

(* All the workflow ever signs attests the wheel on PyPI, however tags     *)
(* move, runs are repeated and wheels are published by hand.               *)
THEOREM SignedAttestsWheel == Spec => []ManifestAttestsWheel
<1>1. Inv => ManifestAttestsWheel
  <2> SUFFICES ASSUME SignedInv, NEW b \in signed, NEW v \in Versions, b.signer = WorkflowAt(v)
               PROVE  pypi[v] # None /\ b.over.of = ReleasedManifest(v)
    BY DEF Inv, ServerInv, ManifestAttestsWheel
  <2>1. PICK w \in Versions : IsBundle(w, b)
    BY DEF SignedInv
  <2>2. w = v
    BY <2>1 DEF IsBundle, Endorsed, WorkflowAt
  <2> QED
    BY <2>1, <2>2 DEF IsBundle, Endorsed, Attest, Bytes
<1> QED
  BY <1>1, Invariance, PTL

(* CASM-OK of verify-self means the manifest of the release asked for, and *)
(* for an installation of that version the checkers PyPI ships.            *)
THEOREM AcceptedReleased == Spec => []AcceptedIsReleased
<1>1. Inv => AcceptedIsReleased
  BY DEF Inv, SessionsInv
<1> QED
  BY <1>1, Invariance, PTL

(* verify-self raises no false alarm of drift.                             *)
THEOREM DriftReal == Spec => []DriftIsReal
<1>1. Inv => DriftIsReal
  BY DEF Inv, SessionsInv
<1> QED
  BY <1>1, Invariance, PTL

(* A signature fails only for a release somebody uploaded to by hand, at   *)
(* whatever moment of the workflow's uploads the two files are downloaded. *)
THEOREM FailedSignature == Spec => []FailedSignatureNeedsHand
<1>1. Inv => FailedSignatureNeedsHand
  BY DEF Inv, SessionsInv
<1> QED
  BY <1>1, Invariance, PTL
=============================================================================
