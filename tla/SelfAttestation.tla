--------------------------- MODULE SelfAttestation ---------------------------
(***************************************************************************)
(* furqan-lint attests its own releases.  release.yml builds a tagged      *)
(* commit, publishes the wheel on PyPI, creates the GitHub release, signs  *)
(* a manifest of the published wheel and uploads manifest and bundle.      *)
(* "manifest verify-self" downloads the two, checks the signature and      *)
(* compares the manifest with the files of the installation it runs in.    *)
(* Workflow runs, maintainers, pip and verify-self interleave.             *)
(***************************************************************************)
EXTENDS Naturals

CONSTANTS
  Versions,    (* version numbers: tags, wheels and releases have them     *)
  Commits,     (* commits somebody may tag                                 *)
  Hashes,      (* checker set hashes                                       *)
  VersionOf,   (* [Commits -> Versions], the version in pyproject.toml     *)
  Pinned,      (* [Commits -> Hashes], the hash of the pinned sources      *)
  OnMain,      (* commits of origin/main                                   *)
  Pushed,      (* the pairs of a tag and a commit somebody may push        *)
  Documented,  (* commits whose CHANGELOG.md has a section of the version  *)
  Users,       (* installations of furqan-lint                             *)
  None,        (* nothing                                                  *)
  ByHand       (* pairs of a tag and what a maintainer does by hand for    *)
               (* it: "publish", "release", "upload"                       *)

ASSUME CommitsHaveSources ==
  /\ VersionOf \in [Commits -> Versions]
  /\ Pinned \in [Commits -> Hashes]
ASSUME TagsAreVersions == Pushed \subseteq Versions \X Commits

Verdicts == {"CASM-OK", "CASM-V-072a", "CASM-V-072b", "CASM-V-072c", "CASM-V-03x",
             "no metadata", "traceback"}

ASSUME NoneIsNothing == None \notin Versions \cup Commits \cup Hashes \cup Verdicts

VARIABLES
  tag,        (* the commit a tag points to, on origin                     *)
  run,        (* the workflow run of a tag at a commit                     *)
  pypi,       (* the commit the wheel of a version was built from          *)
  release,    (* the versions with a release object                        *)
  assets,     (* the two assets of a release                               *)
  signed,     (* the bundles the workflow has signed                       *)
  installed,  (* what pip has put on a user's disk                         *)
  session,    (* the run of verify-self of a user                          *)
  changed,    (* users whose installation changed during the session       *)
  touched     (* releases with assets uploaded by hand                     *)

vars == <<tag, run, pypi, release, assets, signed, installed, session, changed, touched>>
published == <<tag, pypi, release>>
local == <<installed, session, changed>>

Runs == Pushed

(* generate_self_manifest gives equal bytes for equal releases: issued_at  *)
(* is fixed.  The file is the indented JSON text, not the canonical one.   *)
Manifests == [version : Versions, hash : Hashes]
Bytes(form, m) == [form |-> form, of |-> m]
AllBytes == [form : {"indented", "canonical"}, of : Manifests]

WorkflowAt(t) == [workflow |-> t]
Maintainer == [workflow |-> None]
Bundles == [over : AllBytes, signer : [workflow : Versions \cup {None}]]

Junk == [junk |-> TRUE]
Files == {"manifest", "bundle"}

Installed(v, h) == [version |-> v, files |-> h]

Idle(pc) == [pc |-> pc, manifest |-> None, bundle |-> None]
NoSession ==
  [pc |-> "idle", version |-> None, manifest |-> None, bundle |-> None,
   hash |-> None, verdict |-> None]

Init ==
  /\ tag = [t \in Versions |-> None]
  /\ run = [r \in Runs |-> Idle("idle")]
  /\ pypi = [v \in Versions |-> None]
  /\ release = {}
  /\ assets = [v \in Versions |-> [f \in Files |-> None]]
  /\ signed = {}
  /\ installed = [u \in Users |-> Installed(None, None)]
  /\ session = [u \in Users |-> NoSession]
  /\ changed = {}
  /\ touched = {}

-----------------------------------------------------------------------------
(* The release workflow.                                                   *)

At(r, pc) == run[r].pc = pc
Go(r, pc) == run' = [run EXCEPT ![r].pc = pc]

(* What the build job demands of a tag: it reads nothing that changes.     *)
Releasable(r) == r[2] \in OnMain \cap Documented /\ VersionOf[r[2]] = r[1]

(* A tag is pushed, or moved to another commit, and the commit is built.   *)
PushTag(r) ==
  /\ At(r, "idle")
  /\ tag' = [tag EXCEPT ![r[1]] = r[2]]
  /\ Go(r, IF Releasable(r) THEN "publish" ELSE "refused")
  /\ UNCHANGED <<pypi, release, assets, signed, local, touched>>

(* PyPI keeps the files it has.  The step may go on all the same: the      *)
(* workflow's comments count on it.  The next step polls until PyPI has    *)
(* the wheel, and changes nothing.                                         *)
PublishWheel(r) ==
  /\ At(r, "publish")
  /\ pypi' = [pypi EXCEPT ![r[1]] = IF @ = None THEN r[2] ELSE @]
  /\ Go(r, "release")
  /\ UNCHANGED <<tag, release, assets, signed, local, touched>>

(* gh release create fails when there is a release, or no tag.             *)
CreateRelease(r) ==
  /\ At(r, "release")
  /\ r[1] \notin release /\ tag[r[1]] # None
  /\ release' = release \cup {r[1]}
  /\ Go(r, "sign")
  /\ UNCHANGED <<tag, pypi, assets, signed, local, touched>>

(* Mutant: the manifest of the checkout, not of the wheel on PyPI.         *)
SelfManifestOfCheckout(r) == [version |-> r[1], hash |-> Pinned[r[2]]]
SelfManifest(r) == [version |-> r[1], hash |-> Pinned[pypi[r[1]]]]

(* The published wheel is installed, and its manifest written and signed.  *)
Sign(r) ==
  /\ At(r, "sign")
  /\ LET m == Bytes("indented", SelfManifest(r))
         b == [over |-> m, signer |-> WorkflowAt(r[1])] IN
     /\ run' = [run EXCEPT ![r] = [pc |-> "upload", manifest |-> m, bundle |-> b]]
     /\ signed' = signed \cup {b}
  /\ UNCHANGED <<published, assets, local, touched>>

(* gh release upload --clobber: an asset there is deleted first, and the   *)
(* two files are uploaded in any order.                                    *)
Upload(r, f) ==
  LET mine == run[r][f] IN
  /\ At(r, "upload")
  /\ assets[r[1]][f] # mine
  /\ assets' = [assets EXCEPT ![r[1]][f] = IF @ = None THEN mine ELSE None]
  /\ UNCHANGED <<published, run, signed, local, touched>>

EndUpload(r) ==
  /\ At(r, "upload")
  /\ \A f \in Files : assets[r[1]][f] = run[r][f]
  /\ run' = [run EXCEPT ![r] = Idle("done")]
  /\ UNCHANGED <<published, assets, signed, local, touched>>

(* Any step may fail, and a refusal of gh or PyPI ends here too.  What the *)
(* runner had on its disk is gone.                                         *)
Fail(r) ==
  /\ run[r].pc \in {"publish", "release", "sign", "upload"}
  /\ run' = [run EXCEPT ![r] = Idle("failed")]
  /\ UNCHANGED <<published, assets, signed, local, touched>>

(* An operator runs the failed job again.                                  *)
Rerun(r) ==
  /\ At(r, "failed")
  /\ Go(r, "publish")
  /\ UNCHANGED <<published, assets, signed, local, touched>>

Step(r) ==
  \/ PublishWheel(r) \/ CreateRelease(r) \/ Sign(r)
  \/ \E f \in Files : Upload(r, f)
  \/ EndUpload(r)

-----------------------------------------------------------------------------
(* Maintainers.                                                            *)

(* publish.sh, from a checkout of a tag.                                   *)
PublishByHand(t) ==
  /\ <<t, "publish">> \in ByHand /\ tag[t] # None
  /\ pypi[VersionOf[tag[t]]] = None
  /\ pypi' = [pypi EXCEPT ![VersionOf[tag[t]]] = tag[t]]
  /\ UNCHANGED <<tag, run, release, assets, signed, local, touched>>

(* release-checklist.md: the command of the workflow, run by hand.         *)
ReleaseByHand(t) ==
  /\ <<t, "release">> \in ByHand /\ tag[t] # None /\ t \notin release
  /\ release' = release \cup {t}
  /\ UNCHANGED <<tag, run, pypi, assets, signed, local, touched>>

(* An asset replaced by hand: by the one of another release, by anything,  *)
(* by the maintainer's own signature of the manifest there.                *)
UploadByHand(v, f) ==
  /\ <<v, "upload">> \in ByHand /\ v \in release
  /\ \E x \in {Junk} \cup {assets[w][f] : w \in Versions}
             \cup (IF f = "manifest" THEN {}
                   ELSE {[over |-> m, signer |-> Maintainer] : m \in {assets[v].manifest} \cap AllBytes}) :
       x # assets[v][f] /\ assets' = [assets EXCEPT ![v][f] = x]
  /\ touched' = touched \cup {v}
  /\ UNCHANGED <<published, run, signed, local>>

-----------------------------------------------------------------------------
(* Installations.  pip removes the old files before it has the new ones,   *)
(* and writes the metadata last.                                           *)

Changes(u, now) ==
  /\ installed' = [installed EXCEPT ![u] = now]
  /\ changed' = changed \cup {u}
  /\ UNCHANGED <<published, run, assets, signed, session, touched>>

PipUninstall(u) == installed[u].files # None /\ Changes(u, Installed(None, None))

PipUnpack(u) ==
  /\ installed[u].files = None
  /\ \E v \in Versions : pypi[v] # None /\ Changes(u, Installed(None, Pinned[pypi[v]]))

(* Wheels with the same files are the same wheel here.                     *)
PipFinish(u) ==
  /\ installed[u].version = None /\ installed[u].files # None
  /\ \E v \in Versions :
       pypi[v] # None /\ Pinned[pypi[v]] = installed[u].files
       /\ Changes(u, Installed(v, installed[u].files))

(* Somebody edits a checker under site-packages.                           *)
EditInstalled(u, h) ==
  /\ installed[u].version # None /\ h # installed[u].files
  /\ Changes(u, Installed(installed[u].version, h))

-----------------------------------------------------------------------------
(* verify-self.                                                            *)

Asks(u, pc) == session[u].pc = pc
Proceed(u, s) == session' = [session EXCEPT ![u] = s]
End(u, verdict) ==
  Proceed(u, [session[u] EXCEPT !.pc = "ended", !.verdict = verdict, !.bundle = None, !.hash = None,
                              !.manifest = IF verdict = "CASM-OK" THEN @ ELSE None])
server == <<published, run, assets, signed, touched>>

(* Mutant: the lack of metadata goes unnoticed.                            *)
RequestedUnchecked(u, option) == {IF option = None THEN installed[u].version ELSE option}
Requested(u, option) ==
  {v \in {IF option = None THEN installed[u].version ELSE option} : v # None}

StartVerifySelf(u, option) ==
  /\ session[u].pc \in {"idle", "ended"}
  /\ \/ \E v \in Requested(u, option) : Proceed(u, [NoSession EXCEPT !.pc = "manifest", !.version = v])
     \/ /\ Requested(u, option) = {}
        /\ Proceed(u, [NoSession EXCEPT !.pc = "ended", !.verdict = "no metadata"])
  /\ changed' = changed \ {u}
  /\ UNCHANGED <<server, installed>>

(* Two requests; whatever goes wrong with either is a missing manifest.    *)
Download(u, f, next) ==
  /\ Asks(u, f)
  /\ LET got == assets[session[u].version][f] IN
     \/ got # None /\ Proceed(u, [session[u] EXCEPT !.pc = next, ![f] = got])
     \/ End(u, "CASM-V-072a")
  /\ UNCHANGED <<server, installed, changed>>

DownloadManifest(u) == Download(u, "manifest", "bundle")
DownloadBundle(u) == Download(u, "bundle", "signature")

(* Mutant: the identity of the release workflow at any tag will do.        *)
TrustsSignerAnyTag(s, signer) == signer # Maintainer
(* The identity verify-self expects when the user names none.              *)
TrustsSigner(s, signer) == signer = WorkflowAt(s.version)

(* Mutant: the signature is checked on the canonical bytes.                *)
SignedBytesCanonical(m) == Bytes("canonical", m.of)
SignedBytes(m) == m

VerifySelfSignature(u) ==
  LET s == session[u] IN
  /\ Asks(u, "signature")
  /\ IF s.manifest = Junk THEN End(u, "CASM-V-072a")
     ELSE \/ End(u, "CASM-V-072c")  (* no trust root to be had             *)
          \/ s.bundle = Junk /\ \E verdict \in {"CASM-V-072c", "CASM-V-03x"} : End(u, verdict)
          \/ /\ s.bundle # Junk
             /\ IF s.bundle.over = SignedBytes(s.manifest) /\ TrustsSigner(s, s.bundle.signer)
                THEN Proceed(u, [s EXCEPT !.pc = "hash"])
                ELSE End(u, "CASM-V-03x")
  /\ UNCHANGED <<server, installed, changed>>

HashInstalled(u) ==
  /\ Asks(u, "hash")
  /\ IF installed[u].files = None THEN End(u, "traceback")
     ELSE Proceed(u, [session[u] EXCEPT !.pc = "drift", !.hash = installed[u].files])
  /\ UNCHANGED <<server, installed, changed>>

(* Mutant: every release is held against the installation.                 *)
SameVersionAlways(v, w) == TRUE
SameVersion(v, w) == v = w

CompareHash(u) ==
  LET s == session[u] IN
  /\ Asks(u, "drift")
  /\ IF s.manifest.of.hash = s.hash THEN End(u, "CASM-OK")
     ELSE IF installed[u].version = None THEN End(u, "traceback")
     ELSE End(u, IF SameVersion(s.version, installed[u].version)
                 THEN "CASM-V-072b" ELSE "CASM-OK")
  /\ UNCHANGED <<server, installed, changed>>

-----------------------------------------------------------------------------
Next ==
  \/ \E r \in Runs : PushTag(r) \/ Step(r) \/ Fail(r) \/ Rerun(r)
  \/ \E t \in Versions : PublishByHand(t) \/ ReleaseByHand(t)
  \/ \E v \in Versions, f \in Files : UploadByHand(v, f)
  \/ \E u \in Users :
       \/ PipUninstall(u) \/ PipUnpack(u) \/ PipFinish(u)
       \/ \E h \in Hashes : EditInstalled(u, h)
       \/ \E v \in Versions \cup {None} : StartVerifySelf(u, v)
       \/ DownloadManifest(u) \/ DownloadBundle(u) \/ VerifySelfSignature(u)
       \/ HashInstalled(u) \/ CompareHash(u)

Spec == Init /\ [][Next]_vars

(* A running workflow goes on or fails.  A step tried again and again      *)
(* succeeds if it can, and an operator runs a failed workflow again.       *)
Persistent(r) ==
  /\ WF_vars(Step(r) \/ Fail(r)) /\ WF_vars(Rerun(r))
  /\ SF_vars(PublishWheel(r)) /\ SF_vars(CreateRelease(r)) /\ SF_vars(Sign(r))
  /\ \A f \in Files : SF_vars(Upload(r, f))
  /\ SF_vars(EndUpload(r))

FairSpec == Spec /\ \A r \in Runs : Persistent(r)

-----------------------------------------------------------------------------
(* Types.  Only what was signed is ever taken for a bundle.                *)
Steps == {"idle", "refused", "publish", "release", "sign", "upload", "done", "failed"}

Bundled ==
  {None, Junk} \cup signed \cup {b \in Bundles : b.signer = Maintainer}

SelfTypeOK ==
  /\ tag \in [Versions -> Commits \cup {None}]
  /\ run \in [Runs -> [pc : Steps, manifest : AllBytes \cup {None}, bundle : signed \cup {None}]]
  /\ pypi \in [Versions -> Commits \cup {None}]
  /\ release \subseteq Versions /\ touched \subseteq Versions /\ changed \subseteq Users
  /\ assets \in [Versions -> [manifest : {None, Junk} \cup AllBytes, bundle : Bundled]]
  /\ signed \subseteq {b \in Bundles : b.signer # Maintainer}
  /\ installed \in [Users -> [version : Versions \cup {None}, files : Hashes \cup {None}]]
  /\ session \in [Users ->
       [pc : {"idle", "manifest", "bundle", "signature", "hash", "drift", "ended"},
        version : Versions \cup {None}, manifest : {None, Junk} \cup AllBytes, bundle : Bundled,
        hash : Hashes \cup {None}, verdict : Verdicts \cup {None}]]
  /\ \A u \in Users : session[u].pc \notin {"idle", "ended"} => session[u].version # None

(* The manifest of a version attests the wheel PyPI ships under it: all    *)
(* the workflow ever signed names the version of its tag and the hash of   *)
(* that wheel, however tags move, runs are repeated and wheels are         *)
(* published by hand.                                                      *)
ReleasedManifest(v) == [version |-> v, hash |-> Pinned[pypi[v]]]
ManifestAttestsWheel ==
  \A b \in signed : \A v \in Versions :
    b.signer = WorkflowAt(v) => pypi[v] # None /\ b.over.of = ReleasedManifest(v)

(* CASM-OK means that the manifest shown is the one of the version asked   *)
(* for, whatever was uploaded by hand, and, when that is the version       *)
(* installed and nobody touched the installation meanwhile, that its       *)
(* checkers are the ones PyPI ships.                                       *)
AcceptedIsReleased ==
  \A u \in Users :
    LET s == session[u] IN
    s.verdict = "CASM-OK" =>
      /\ pypi[s.version] # None /\ s.manifest.of = ReleasedManifest(s.version)
      /\ u \notin changed /\ installed[u].version = s.version
         => installed[u].files = Pinned[pypi[s.version]]

(* An alarm of drift is one: the files are not those of the wheel of the   *)
(* installed version, unless the installation changed meanwhile.           *)
DriftIsReal ==
  \A u \in Users :
    LET s == session[u] IN
    s.verdict = "CASM-V-072b" /\ u \notin changed
    => installed[u].files # Pinned[pypi[installed[u].version]]

(* What the workflow uploads passes the signature check at every moment:   *)
(* also between the two uploads and the two downloads, a failed signature  *)
(* takes an asset uploaded by hand.                                        *)
FailedSignatureNeedsHand ==
  \A u \in Users :
    session[u].verdict = "CASM-V-03x" => session[u].version \in touched

(* release-checklist.md: when the manifest of a release is missing,        *)
(* running the workflow again provides it.                                 *)
Attested(v) == \A f \in Files : assets[v][f] # None
RerunProvides ==
  \A r \in Runs : (At(r, "failed") /\ r[1] \in release) ~> Attested(r[1])
=============================================================================
