--------------------------- MODULE BuildToolsProofs ---------------------------
(***************************************************************************)
(* Proofs about ReleasePackage, for all contents of the inputs and any     *)
(* number of changes and attempts, about ProjectCache, for any builders,   *)
(* inputs and objects and any number of builds, edits and power failures,  *)
(* about FunctionCache, for any compilations, options and visitors that    *)
(* write what callers can see, and about RuntimeBlob, for any emitters     *)
(* that lay out their thunks alike and any number of labels and patches.   *)
(***************************************************************************)
EXTENDS ReleasePackage, ProjectCache, FunctionCache, RuntimeBlob, FiniteSetTheorems,
        SequenceTheorems, WellFoundedInduction, TLAPS

\* The steps in which the temporary directory holds ...
HasLicenses == {"archive", "pack"}
HasManifest == {"licenses"} \cup HasLicenses
HasDocs == {"manifest"} \cup HasManifest
HasBridge == {"documents"} \cup HasDocs
HasLibrary == {"bridge"} \cup HasBridge
HasExecutable == {"library"} \cup HasLibrary
Collecting == {"executable"} \cup HasExecutable
Writing == {"pack", "digest"}

Parts == {"binary", "bridge", "tree", "tag"}

InputsOK ==
  /\ binary \in Executables /\ bridge \in Builds \cup {None}
  /\ tree \in Trees /\ tag \in Revisions \cup {None}
  /\ changed \in SUBSET Parts

\* What was collected is what the input still is, unless the input changed since.
PackageOK ==
  /\ step \in {"idle", "digest"} \cup Collecting
  /\ step \in Collecting => package \in Packages
  /\ step \in Collecting /\ "binary" \notin changed => binary.made = Platform
  /\ step \in HasExecutable /\ "binary" \notin changed => package.exe = binary
  /\ step \in HasLibrary /\ "tree" \notin changed => package.std = tree
  /\ step \in HasBridge => package.bridge # None
  /\ step \in HasDocs => package.docs \in Releasable
  /\ step \in HasDocs /\ "tree" \notin changed => package.docs = tree
  /\ step \in HasManifest => package.manifest.bridge = package.bridge
  /\ step \in HasManifest /\ "binary" \notin changed => package.manifest.exe = binary

\* The part of ReleaseIsCoherent that is decided when the archive is opened.
Coherent(c, despite) ==
  /\ c.manifest.bridge = c.bridge /\ c.bridge # None
  /\ "binary" \notin despite => c.manifest.exe = c.exe /\ c.exe.made = Platform
  /\ "tree" \notin despite => c.std = c.docs
  /\ c.docs \in Releasable

Archives == [content : Packages, whole : BOOLEAN, despite : SUBSET Parts]

ArchiveOK ==
  archive # None \/ step \in Writing =>
    archive \in Archives /\ Coherent(archive.content, archive.despite)

\* A digest was taken of a whole archive, and of this one unless it is being replaced.
SidecarOK ==
  /\ step = "digest" => archive.whole = TRUE
  /\ broken \in BOOLEAN
  /\ sidecar \in Sidecars \cup {None}
  /\ sidecar # None => sidecar.whole = TRUE
  /\ archive # None /\ step \notin Writing /\ ~ broken => sidecar = Sha256(archive)

ReleaseInv == InputsOK /\ PackageOK /\ ArchiveOK /\ SidecarOK
-----------------------------------------------------------------------------
\* Nothing is packed yet.
LEMMA InitRelease == ReleaseInit => ReleaseInv
  BY NoneAssumption
  DEF ReleaseInit, ReleaseInv, InputsOK, PackageOK, ArchiveOK, SidecarOK, Parts, Collecting, Writing,
      HasExecutable, HasLibrary, HasBridge, HasDocs, HasManifest, HasLicenses

\* A change of an input takes away only what is claimed of an input that has not changed.
LEMMA ChangeStep ==
  ASSUME ReleaseInv, RebuildCompiler \/ RebuildBridge \/ EditTree \/ MoveTag
  PROVE  ReleaseInv'
  <1>1. InputsOK'
    BY DEF ReleaseInv, InputsOK, Parts, Change, RebuildCompiler, RebuildBridge, EditTree, MoveTag
  <1>2. PackageOK'
    BY DEF ReleaseInv, PackageOK, Change, RebuildCompiler, RebuildBridge, EditTree, MoveTag, outputs
  <1>3. ArchiveOK' /\ SidecarOK'
    BY DEF ReleaseInv, ArchiveOK, SidecarOK, Change, RebuildCompiler, RebuildBridge, EditTree,
           MoveTag, outputs, Sha256
  <1> QED
    BY <1>1, <1>2, <1>3 DEF ReleaseInv

\* The steps that fill the temporary directory leave the archive and the digest alone.
LEMMA CollectStep ==
  ASSUME ReleaseInv,
         \/ CheckInputs \/ CopyExecutable \/ CopyLibrary \/ CopyBridge \/ CopyDocuments
         \/ WriteManifest \/ AddLicenses
  PROVE  ReleaseInv'
PROOF
  <1> USE DEF HasExecutable, HasLibrary, HasBridge, HasDocs, HasManifest, HasLicenses, Collecting
  <1>1. InputsOK'
    <2>1. CASE CheckInputs
      BY <2>1 DEF CheckInputs, ReleaseInv, InputsOK
    <2>2. CASE UNCHANGED inputs
      BY <2>2 DEF inputs, ReleaseInv, InputsOK
    <2> QED
      BY <2>1, <2>2 DEF CopyExecutable, CopyLibrary, CopyBridge, CopyDocuments, WriteManifest,
                        AddLicenses
  <1>2. ArchiveOK' /\ SidecarOK'
    BY DEF ReleaseInv, ArchiveOK, SidecarOK, Writing, outputs, CheckInputs, CopyExecutable, CopyLibrary,
           CopyBridge, CopyDocuments, WriteManifest, AddLicenses, Fail, Sha256
  <1>3. PackageOK'
    <2>1. CASE CheckInputs
      BY <2>1 DEF CheckInputs, ReleaseInv, InputsOK, PackageOK, Packages
    <2>2. CASE CopyExecutable
      BY <2>2
      DEF CopyExecutable, Add, inputs, ReleaseInv, InputsOK, PackageOK, Packages
    <2>3. CASE CopyLibrary
      BY <2>3 DEF CopyLibrary, Add, inputs, ReleaseInv, InputsOK, PackageOK, Packages
    <2>4. CASE CopyBridge
      BY <2>4 DEF CopyBridge, Add, Fail, inputs, ReleaseInv, InputsOK, PackageOK, Packages
    <2>5. CASE CopyDocuments
      BY <2>5, ReleasableAssumption
      DEF CopyDocuments, Add, Fail, inputs, ReleaseInv, InputsOK, PackageOK, Packages
    <2>6. CASE WriteManifest
      BY <2>6 DEF WriteManifest, Manifest, Manifests, Add, inputs, ReleaseInv, InputsOK, PackageOK,
                  Packages
    <2>7. CASE AddLicenses
      BY <2>7 DEF AddLicenses, Fail, inputs, ReleaseInv, PackageOK
    <2> QED
      BY <2>1, <2>2, <2>3, <2>4, <2>5, <2>6, <2>7
  <1> QED
    BY <1>1, <1>2, <1>3 DEF ReleaseInv

\* The archive takes what was collected; the digest is taken of a whole one; dying with
\* the archive open is remembered.
LEMMA WriteStep ==
  ASSUME ReleaseInv, OpenArchive \/ Pack \/ WriteSidecar \/ Die
  PROVE  ReleaseInv'
PROOF
  <1> USE DEF HasExecutable, HasLibrary, HasBridge, HasDocs, HasManifest, HasLicenses, Collecting,
              Writing
  <1>1. InputsOK'
    BY DEF ReleaseInv, InputsOK, OpenArchive, Pack, WriteSidecar, Die, inputs
  <1>2. PackageOK'
    BY DEF ReleaseInv, PackageOK, OpenArchive, Pack, WriteSidecar, Die, Fail, inputs
  <1>3. CASE OpenArchive
    <2>1. Coherent(package, changed)
      BY <1>3 DEF OpenArchive, ReleaseInv, InputsOK, PackageOK, Coherent
    <2>2. archive' \in Archives /\ archive'.content = package /\ archive'.despite = changed
      BY <1>3 DEF OpenArchive, Opened, ReleaseInv, InputsOK, PackageOK, Archives
    <2>3. ArchiveOK' /\ SidecarOK'
      BY <1>3, <2>1, <2>2 DEF OpenArchive, ReleaseInv, ArchiveOK, SidecarOK
    <2> QED
      BY <1>1, <1>2, <2>3 DEF ReleaseInv
  <1>4. CASE Pack
    <2>1. ArchiveOK'
      BY <1>4 DEF Pack, ReleaseInv, ArchiveOK, Archives
    <2>2. SidecarOK'
      BY <1>4 DEF Pack, ReleaseInv, ArchiveOK, SidecarOK, Archives
    <2> QED
      BY <1>1, <1>2, <2>1, <2>2 DEF ReleaseInv
  <1>5. CASE WriteSidecar
    <2>1. ArchiveOK'
      BY <1>5 DEF WriteSidecar, ReleaseInv, ArchiveOK
    <2>2. sidecar' \in Sidecars /\ sidecar'.whole = TRUE
      BY <1>5 DEF WriteSidecar, Sha256, Sidecars, ReleaseInv, ArchiveOK, SidecarOK, Archives
    <2>3. SidecarOK'
      BY <1>5, <2>2 DEF WriteSidecar, Sha256, ReleaseInv, SidecarOK
    <2> QED
      BY <1>1, <1>2, <2>1, <2>3 DEF ReleaseInv
  <1>6. CASE Die
    <2>1. ArchiveOK'
      BY <1>6 DEF Die, Fail, ReleaseInv, ArchiveOK
    <2>2. SidecarOK'
      BY <1>6 DEF Die, Fail, ReleaseInv, SidecarOK, Sha256
    <2> QED
      BY <1>1, <1>2, <2>1, <2>2 DEF ReleaseInv
  <1> QED
    BY <1>3, <1>4, <1>5, <1>6
-----------------------------------------------------------------------------
\* The inductive invariant.
THEOREM ReleaseInvariance == ReleaseSpec => []ReleaseInv
PROOF
  <1>1. ReleaseInv /\ [ReleaseNext]_releaseVars => ReleaseInv'
    <2> SUFFICES ASSUME ReleaseInv, [ReleaseNext]_releaseVars PROVE ReleaseInv'
      OBVIOUS
    <2>1. CASE ReleaseNext
      BY <2>1, ChangeStep, CollectStep, WriteStep DEF ReleaseNext, Packager
    <2>2. CASE UNCHANGED releaseVars
      BY <2>2 DEF releaseVars, inputs, outputs, ReleaseInv, InputsOK, PackageOK, ArchiveOK, SidecarOK,
                  Sha256
    <2> QED
      BY <2>1, <2>2
  <1> QED
    BY InitRelease, <1>1, PTL DEF ReleaseSpec

\* No sequence of attempts, however they end, leaves a truncated archive next to a digest
\* that matches it, and an attempt that stops at a check leaves the pair matching.
THEOREM DigestVouches == ReleaseSpec => []SidecarVouches
PROOF
  <1>1. ReleaseInv => SidecarVouches
    <2> SUFFICES ASSUME ReleaseInv, archive # None PROVE SidecarVouches
      BY DEF SidecarVouches
    <2>1. CASE sidecar # None /\ sidecar = Sha256(archive)
      BY <2>1 DEF ReleaseInv, SidecarOK, Sha256, SidecarVouches
    <2>2. CASE step \notin Writing /\ ~ broken
      <3>1. sidecar = Sha256(archive) /\ archive \in Archives
        BY <2>2 DEF ReleaseInv, SidecarOK, ArchiveOK
      <3>2. Sha256(archive) \in Sidecars
        BY <3>1 DEF Sha256, Sidecars, Archives
      <3> QED
        BY <2>1, <3>1, <3>2, NoneAssumption
    <2> QED
      BY <2>1, <2>2 DEF SidecarVouches, Writing
  <1> QED
    BY ReleaseInvariance, <1>1, PTL

\* Whatever is rebuilt, edited or tagged meanwhile, what a whole archive says of itself is
\* true, except about an input that changed while it was collected.
THEOREM ArchiveIsCoherent == ReleaseSpec => []ReleaseIsCoherent
PROOF
  <1>1. ReleaseInv => ReleaseIsCoherent
    BY DEF ReleaseInv, ArchiveOK, Coherent, ReleaseIsCoherent
  <1> QED
    BY ReleaseInvariance, <1>1, PTL
-----------------------------------------------------------------------------
(* ProjectCache.                                                           *)

Places == {"idle", "fingerprint", "restore", "check", "copy", "objects", "emit", "compare",
           "clear", "copyObjects", "mark", "recheck", "keep", "artifact", "pointer", "drop"}
Looping == {"fingerprint", "emit", "compare", "recheck"}

\* A whole program compiled for d.
Made(x, d) == x \in Compiled /\ x.by = d.by /\ (x.flipped \/ x.of = d.of)
Whole(image, d) == DOMAIN image = Objects /\ \A o \in Objects : Made(image[o], d)

ProjectTypes ==
  /\ disk \in [InputSet -> Versions]
  /\ at \in [Builders -> Places]
  /\ digest \in [Builders -> [InputSet -> Versions]]
  /\ emitted \in [Builders -> [InputSet -> Versions]]
  /\ touched \in [Builders -> [InputSet -> 0 .. 2]]
  /\ round \in [Builders -> Nat]
  /\ hit \in [Builders -> BOOLEAN]
  /\ DOMAIN seen = Builders /\ DOMAIN output = Builders
  /\ DOMAIN artifacts = Digests /\ DOMAIN markers = Digests
  /\ objects \in [Digests -> [Objects -> Compiled \cup {Absent, Lost}]]

LoopsOK ==
  \A b \in Builders :
    /\ at[b] \in Looping => round[b] \in DOMAIN Inputs
    /\ at[b] \notin Looping \cup {"copyObjects"} => round[b] = 1

\* The inputs behind b's place in the emitter, or in the comparison that follows it.
Passed(b, f) == \E n \in DOMAIN Inputs : n < round[b] /\ Inputs[n] = f
AfterEmit == {"compare", "clear", "copyObjects", "mark"}
AfterCompare == {"clear", "copyObjects", "mark"}

\* An input read with two contents was edited, and twice if it has the first one again.
ReadsOK ==
  \A b \in Builders : at[b] # "idle" => \A f \in InputSet :
    /\ digest[b][f] # disk[f] => touched[b][f] >= 1
    /\ at[b] \in AfterEmit \/ (at[b] = "emit" /\ Passed(b, f)) =>
         /\ emitted[b][f] # digest[b][f] => touched[b][f] >= 1
         /\ emitted[b][f] # digest[b][f] /\ emitted[b][f] # disk[f] => touched[b][f] >= 2
    /\ at[b] \in AfterCompare \/ (at[b] = "compare" /\ Passed(b, f)) =>
         (emitted[b][f] # digest[b][f] => touched[b][f] >= 2)

\* The markers and the pointer describe whole programs.
PublishedOK ==
  /\ pointer \notin {Absent, Lost} =>
       pointer.digest \in Digests /\ Whole(pointer.image, pointer.digest)
  /\ \A d \in Digests : markers[d] # Absent => Whole(markers[d], d)

Present(b) == {o \in Objects : objects[Digest(b)][o] # Absent}

\* While objects are copied there is no marker, and they are all this builder's.
StoreOK ==
  \A b \in Builders :
    /\ at[b] \in {"copyObjects", "mark"} =>
         /\ markers[Digest(b)] = Absent
         /\ \A o \in Present(b) : Made(objects[Digest(b)][o], Digest(b))
    /\ at[b] = "copyObjects" => Cardinality(Present(b)) = round[b] - 1
    /\ at[b] = "mark" => Present(b) = Objects

\* What a build has in its hands.
OutputOK ==
  \A b \in Builders :
    /\ at[b] = "check" => Whole(seen[b], Digest(b))
    /\ at[b] = "copy" /\ artifacts[Digest(b)] # Absent => Whole(artifacts[Digest(b)], Digest(b))
    /\ hit[b] \/ at[b] \in {"recheck", "keep", "artifact", "pointer"} => Whole(output[b], Digest(b))
    /\ at[b] = "fingerprint" => ~ hit[b]

ProjectInv == ProjectTypes /\ LoopsOK /\ ReadsOK /\ PublishedOK /\ StoreOK /\ OutputOK
-----------------------------------------------------------------------------
LEMMA InitProject == ProjectInit => ProjectInv
PROOF
  <1> SUFFICES ASSUME ProjectInit
               PROVE  ProjectInv
    OBVIOUS
  <1>1. ProjectTypes
    <2>1. /\ objects \in [Digests -> [Objects -> Compiled \cup {Absent, Lost}]]
          /\ DOMAIN artifacts = Digests /\ DOMAIN markers = Digests
      <3>1. CASE EmptyCache
        BY <3>1 DEF EmptyCache, Nothing
      <3>2. ASSUME NEW b \in Builders, FilledCache(b)
            PROVE  /\ objects \in [Digests -> [Objects -> Compiled \cup {Absent, Lost}]]
                   /\ DOMAIN artifacts = Digests /\ DOMAIN markers = Digests
        <4>1. [by |-> b, of |-> disk, flipped |-> FALSE] \in Compiled
          BY DEF ProjectInit, Compiled
        <4> QED
          BY <3>2, <4>1 DEF FilledCache, Nothing
      <3> QED
        BY <3>1, <3>2 DEF ProjectInit
    <2>2. /\ disk \in [InputSet -> Versions] /\ at \in [Builders -> Places]
          /\ round \in [Builders -> Nat] /\ hit \in [Builders -> BOOLEAN]
          /\ DOMAIN seen = Builders /\ DOMAIN output = Builders
          /\ touched \in [Builders -> [InputSet -> 0 .. 2]]
      BY DEF ProjectInit, Places
    <2>3. /\ digest \in [Builders -> [InputSet -> Versions]]
          /\ emitted \in [Builders -> [InputSet -> Versions]]
      BY DEF ProjectInit
    <2> QED
      BY <2>1, <2>2, <2>3 DEF ProjectTypes
  <1>2. LoopsOK /\ ReadsOK /\ StoreOK
    BY DEF ProjectInit, LoopsOK, ReadsOK, StoreOK, Looping
  <1>3. PublishedOK
    <2>1. CASE EmptyCache
      BY <2>1 DEF EmptyCache, PublishedOK
    <2>2. ASSUME NEW b \in Builders, FilledCache(b)
          PROVE  PublishedOK
      <3> DEFINE mine == [by |-> b, of |-> disk]
                 image == [o \in Objects |-> [by |-> b, of |-> disk, flipped |-> FALSE]]
      <3>1. mine \in Digests /\ Whole(image, mine)
        BY DEF ProjectInit, Digests, Whole, Made, Compiled
      <3>2. /\ pointer = [digest |-> mine, image |-> image]
            /\ markers = [d \in Digests |-> IF d = mine THEN image ELSE Absent]
        BY <2>2 DEF FilledCache
      <3> HIDE DEF mine, image
      <3> QED
        BY <3>1, <3>2 DEF PublishedOK
    <2> QED
      BY <2>1, <2>2 DEF ProjectInit
  <1>4. OutputOK
    BY DEF ProjectInit, OutputOK
  <1> QED
    BY <1>1, <1>2, <1>3, <1>4 DEF ProjectInv

LEMMA LoopFacts ==
  ASSUME ProjectTypes, NEW b \in Builders, NEW n, NEW next, Loop(b, n, next)
  PROVE  \/ /\ round[b] < n /\ round' = [round EXCEPT ![b] = round[b] + 1] /\ round'[b] = round[b] + 1
            /\ at' = at
         \/ /\ ~ (round[b] < n) /\ round' = [round EXCEPT ![b] = 1] /\ round'[b] = 1
            /\ at' = [at EXCEPT ![b] = next] /\ at'[b] = next
BY DEF Loop, Jump, ProjectTypes

\* A builder leaves the other builders alone, and of the cache all but its own entries;
\* it may only delete an artifact of another.
LEMMA ProjectFrame ==
  ASSUME ProjectTypes, NEW b \in Builders, Builder(b)
  PROVE  /\ UNCHANGED disk
         /\ \A c \in Builders \ {b} :
              /\ at'[c] = at[c] /\ round'[c] = round[c] /\ digest'[c] = digest[c]
              /\ emitted'[c] = emitted[c] /\ seen'[c] = seen[c] /\ output'[c] = output[c]
              /\ hit'[c] = hit[c] /\ touched'[c] = touched[c]
         /\ \A d \in Digests : d # Digest(b) =>
              /\ objects'[d] = objects[d] /\ markers'[d] = markers[d]
              /\ artifacts'[d] \in {artifacts[d], Absent}
PROOF
  <1> USE DEF ProjectTypes, cache, environment, result, Loop, Jump, Leave
  <1>1. CASE BeginBuild(b) \/ Fingerprint(b)
    BY <1>1 DEF BeginBuild, Fingerprint
  <1>2. CASE Restore(b) \/ CheckArtifact(b) \/ CopyArtifact(b) \/ RestoreObjects(b)
    BY <1>2 DEF Restore, CheckArtifact, CopyArtifact, RestoreObjects
  <1>3. CASE Emit(b) \/ Compare(b)
    BY <1>3 DEF Emit, Compare
  <1>4. CASE Clear(b)
    BY <1>4 DEF Clear
  <1>5. CASE CopyObject(b)
    BY <1>5 DEF CopyObject
  <1>6. CASE MarkObjects(b) \/ Recheck(b)
    BY <1>6 DEF MarkObjects, Recheck
  <1>7. CASE NoteOld(b) \/ PublishArtifact(b) \/ PublishPointer(b)
    BY <1>7 DEF NoteOld, PublishArtifact, PublishPointer
  <1>8. CASE DropOld(b) \/ Kill(b)
    BY <1>8 DEF DropOld, Kill
  <1> QED
    BY <1>1, <1>2, <1>3, <1>4, <1>5, <1>6, <1>7, <1>8 DEF Builder

LEMMA DigestFacts ==
  ASSUME ProjectTypes, NEW b \in Builders
  PROVE  /\ Digest(b) \in Digests /\ Digest(b).by = b /\ Digest(b).of = digest[b]
         /\ \A c \in Builders \ {b} : Digest(c) # Digest(b)
BY DEF ProjectTypes, Digest, Digests

LEMMA EmittedType ==
  ASSUME ProjectTypes, NEW b \in Builders
  PROVE  Emitted(b) \in Compiled /\ Emitted(b) \notin {Absent, Lost}
PROOF
  <1>1. Emitted(b) \in Compiled
    BY DEF ProjectTypes, Emitted, Compiled
  <1> QED
    BY <1>1, CompiledAssumption

LEMMA LoopTypes ==
  ASSUME ProjectTypes, NEW b \in Builders, NEW n, NEW next \in Places, Loop(b, n, next)
  PROVE  at' \in [Builders -> Places] /\ round' \in [Builders -> Nat]
PROOF
  <1>1. at \in [Builders -> Places] /\ round \in [Builders -> Nat]
    BY DEF ProjectTypes
  <1> QED
    BY <1>1 DEF Loop, Jump

\* Where it is in run_cli, and in its loops.
LEMMA PlaceTypes ==
  ASSUME ProjectTypes, NEW b \in Builders, Builder(b)
  PROVE  at' \in [Builders -> Places] /\ round' \in [Builders -> Nat]
PROOF
  <1>1. at \in [Builders -> Places] /\ round \in [Builders -> Nat]
    BY DEF ProjectTypes
  <1>2. CASE Fingerprint(b) \/ Emit(b) \/ CopyObject(b) \/ Recheck(b) \/ Compare(b)
    <2>1. {"restore", "compare", "clear", "mark", "keep", "idle"} \subseteq Places
      BY DEF Places
    <2>2. CASE \E n : \E next \in {"restore", "compare", "clear", "mark", "keep"} : Loop(b, n, next)
      BY <2>1, <2>2, LoopTypes
    <2>3. CASE round' = [round EXCEPT ![b] = 1] /\ Jump(b, "idle")
      BY <1>1, <2>1, <2>3 DEF Jump
    <2> QED
      BY <1>2, <2>2, <2>3 DEF Fingerprint, Emit, CopyObject, Recheck, Compare
  <1>3. CASE BeginBuild(b) \/ MarkObjects(b) \/ NoteOld(b) \/ PublishArtifact(b)
    BY <1>1, <1>3 DEF BeginBuild, MarkObjects, NoteOld, PublishArtifact, Places, Jump
  <1>4. CASE Restore(b) \/ CheckArtifact(b) \/ CopyArtifact(b) \/ RestoreObjects(b)
    BY <1>1, <1>4 DEF Restore, CheckArtifact, CopyArtifact, RestoreObjects, Places, Jump
  <1>5. CASE PublishPointer(b) \/ DropOld(b)
    BY <1>1, <1>5 DEF PublishPointer, DropOld, Places, Jump
  <1>6. CASE Clear(b)
    BY <1>1, <1>6 DEF Clear, Places, Jump
  <1>7. CASE Kill(b)
    BY <1>1, <1>7 DEF Kill, Places, Jump
  <1> QED
    BY <1>2, <1>3, <1>4, <1>5, <1>6, <1>7 DEF Builder

\* Which steps write which variables.
LEMMA Writers ==
  ASSUME NEW b \in Builders, Builder(b)
  PROVE  /\ disk' = disk
         /\ touched' = touched \/ BeginBuild(b)
         /\ digest' = digest \/ BeginBuild(b) \/ Fingerprint(b)
         /\ emitted' = emitted \/ BeginBuild(b) \/ Emit(b)
         /\ objects' = objects \/ Clear(b) \/ CopyObject(b)
         /\ markers' = markers \/ Clear(b) \/ MarkObjects(b)
         /\ artifacts' = artifacts \/ PublishArtifact(b) \/ DropOld(b)
         /\ pointer' = pointer \/ PublishPointer(b)
         /\ seen' = seen \/ Restore(b) \/ CheckArtifact(b) \/ NoteOld(b) \/ DropOld(b) \/ Kill(b)
         /\ UNCHANGED result \/ BeginBuild(b) \/ CopyArtifact(b) \/ RestoreObjects(b)
              \/ Compare(b) \/ MarkObjects(b) \/ Kill(b)
PROOF
  <1> USE DEF cache, environment
  <1>1. CASE BeginBuild(b) \/ Fingerprint(b) \/ Restore(b) \/ CheckArtifact(b) \/ CopyArtifact(b)
    BY <1>1 DEF BeginBuild, Fingerprint, Restore, CheckArtifact, CopyArtifact
  <1>2. CASE RestoreObjects(b) \/ Emit(b) \/ Compare(b)
    BY <1>2 DEF RestoreObjects, Emit, Compare
  <1>3. CASE Clear(b) \/ CopyObject(b) \/ MarkObjects(b)
    BY <1>3 DEF Clear, CopyObject, MarkObjects
  <1>4. CASE Recheck(b) \/ NoteOld(b) \/ PublishArtifact(b) \/ PublishPointer(b)
    BY <1>4 DEF Recheck, NoteOld, PublishArtifact, PublishPointer
  <1>5. CASE DropOld(b) \/ Kill(b)
    BY <1>5 DEF DropOld, Kill
  <1> QED
    BY <1>1, <1>2, <1>3, <1>4, <1>5 DEF Builder

LEMMA BuilderTypes ==
  ASSUME ProjectTypes, LoopsOK, NEW b \in Builders, Builder(b)
  PROVE  ProjectTypes'
PROOF
  <1>1. /\ Digest(b) \in Digests /\ Emitted(b) \in Compiled
        /\ \A n \in DOMAIN Inputs : Inputs[n] \in InputSet
    BY DigestFacts, EmittedType DEF InputSet
  <1>2. disk' \in [InputSet -> Versions]
    BY Writers DEF ProjectTypes
  <1>3. touched' \in [Builders -> [InputSet -> 0 .. 2]]
    <2>1. touched \in [Builders -> [InputSet -> 0 .. 2]]
      BY DEF ProjectTypes
    <2>2. touched' = touched \/ touched' = [touched EXCEPT ![b] = [f \in InputSet |-> 0]]
      BY Writers DEF BeginBuild
    <2>3. [f \in InputSet |-> 0] \in [InputSet -> 0 .. 2]
      OBVIOUS
    <2> QED
      BY <2>1, <2>2, <2>3
  <1>4. digest' \in [Builders -> [InputSet -> Versions]]
    <2>1. digest \in [Builders -> [InputSet -> Versions]] /\ disk \in [InputSet -> Versions]
      BY DEF ProjectTypes
    <2>2. CASE Fingerprint(b)
      <3>1. Inputs[round[b]] \in InputSet
        BY <1>1, <2>2 DEF Fingerprint, LoopsOK, Looping
      <3> QED
        BY <2>1, <2>2, <3>1 DEF Fingerprint
    <2> QED
      BY <2>1, <2>2, Writers DEF BeginBuild
  <1>5. emitted' \in [Builders -> [InputSet -> Versions]]
    <2>1. emitted \in [Builders -> [InputSet -> Versions]] /\ disk \in [InputSet -> Versions]
      BY DEF ProjectTypes
    <2>2. CASE Emit(b)
      <3>1. Inputs[round[b]] \in InputSet
        BY <1>1, <2>2 DEF Emit, LoopsOK, Looping
      <3> QED
        BY <2>1, <2>2, <3>1 DEF Emit
    <2> QED
      BY <2>1, <2>2, Writers DEF BeginBuild
  <1>6. objects' \in [Digests -> [Objects -> Compiled \cup {Absent, Lost}]]
    <2>1. objects \in [Digests -> [Objects -> Compiled \cup {Absent, Lost}]]
      BY DEF ProjectTypes
    <2>2. \A d \in Digests, o \in Objects, x \in Compiled \cup {Absent, Lost} :
            [objects EXCEPT ![d][o] = x] \in [Digests -> [Objects -> Compiled \cup {Absent, Lost}]]
      BY <2>1
    <2>3. CASE Clear(b)
      BY <1>1, <2>1, <2>2, <2>3 DEF Clear
    <2>4. CASE CopyObject(b)
      BY <1>1, <2>1, <2>2, <2>4 DEF CopyObject
    <2> QED
      BY <2>1, <2>3, <2>4, Writers
  <1>7. DOMAIN artifacts' = Digests /\ DOMAIN markers' = Digests
    BY Writers DEF ProjectTypes, Clear, MarkObjects, PublishArtifact, DropOld
  <1>8. DOMAIN seen' = Builders
    BY Writers DEF ProjectTypes, Restore, CheckArtifact, NoteOld, DropOld, Kill
  <1>9. DOMAIN output' = Builders /\ hit' \in [Builders -> BOOLEAN]
    <2>1. DOMAIN output = Builders /\ hit \in [Builders -> BOOLEAN]
      BY DEF ProjectTypes
    <2>2. UNCHANGED result \/ \E image : \E cached \in BOOLEAN : Leave(b, image, cached)
      BY Writers DEF BeginBuild, CopyArtifact, RestoreObjects, Compare, MarkObjects, Kill, result
    <2> QED
      BY <2>1, <2>2 DEF Leave, result
  <1> QED
    BY <1>2, <1>3, <1>4, <1>5, <1>6, <1>7, <1>8, <1>9, PlaceTypes DEF ProjectTypes
-----------------------------------------------------------------------------
\* Where a step of b takes b, and with which round.
LEMMA Moves ==
  ASSUME ProjectTypes, NEW b \in Builders, Builder(b)
  PROVE  /\ BeginBuild(b) => at'[b] = "fingerprint"
         /\ Restore(b) => at'[b] \in {"check", "objects"}
         /\ CheckArtifact(b) => at'[b] \in {"copy", "objects"}
         /\ CopyArtifact(b) => at'[b] \in {"idle", "objects"}
         /\ RestoreObjects(b) => at'[b] \in {"recheck", "emit"}
         /\ Clear(b) => at'[b] \in {"clear", "copyObjects"}
         /\ MarkObjects(b) => at'[b] = "recheck"
         /\ NoteOld(b) => at'[b] = "artifact"
         /\ PublishArtifact(b) => at'[b] = "pointer"
         /\ PublishPointer(b) => at'[b] = "drop"
         /\ DropOld(b) => at'[b] = "idle"
         /\ Kill(b) => at'[b] = "idle" /\ round'[b] = 1
         /\ \/ round' = round /\ at[b] \notin Looping \cup {"copyObjects"}
            \/ Fingerprint(b) \/ Emit(b) \/ Compare(b) \/ CopyObject(b) \/ Recheck(b) \/ Kill(b)
PROOF
  <1>1. at \in [Builders -> Places] /\ round \in [Builders -> Nat]
    BY DEF ProjectTypes
  <1>2. \/ round' = round /\ at[b] \notin Looping \cup {"copyObjects"}
        \/ Fingerprint(b) \/ Emit(b) \/ Compare(b) \/ CopyObject(b) \/ Recheck(b) \/ Kill(b)
    BY DEF Builder, BeginBuild, Restore, CheckArtifact, CopyArtifact, RestoreObjects, Clear, MarkObjects,
           NoteOld, PublishArtifact, PublishPointer, DropOld, Looping
  <1>3. /\ BeginBuild(b) => at'[b] = "fingerprint"
        /\ Restore(b) => at'[b] \in {"check", "objects"}
        /\ CheckArtifact(b) => at'[b] \in {"copy", "objects"}
        /\ CopyArtifact(b) => at'[b] \in {"idle", "objects"}
        /\ RestoreObjects(b) => at'[b] \in {"recheck", "emit"}
    BY <1>1 DEF BeginBuild, Restore, CheckArtifact, CopyArtifact, RestoreObjects, Jump
  <1>4. /\ Clear(b) => at'[b] \in {"clear", "copyObjects"}
        /\ MarkObjects(b) => at'[b] = "recheck"
        /\ NoteOld(b) => at'[b] = "artifact"
        /\ PublishArtifact(b) => at'[b] = "pointer"
        /\ PublishPointer(b) => at'[b] = "drop"
        /\ DropOld(b) => at'[b] = "idle"
    BY <1>1 DEF Clear, MarkObjects, NoteOld, PublishArtifact, PublishPointer, DropOld, Jump
  <1>5. Kill(b) => at'[b] = "idle" /\ round'[b] = 1
    BY <1>1 DEF Kill, Jump
  <1> QED
    BY <1>2, <1>3, <1>4, <1>5

LEMMA LoopsStep ==
  ASSUME ProjectTypes, LoopsOK, NEW b \in Builders, Builder(b)
  PROVE  LoopsOK'
PROOF
  <1>1. /\ Len(Inputs) \in Nat /\ DOMAIN Inputs = 1 .. Len(Inputs) /\ 1 \in DOMAIN Inputs
        /\ round[b] \in Nat
    BY InputsAssumption DEF ProjectTypes
  <1>2. ASSUME NEW c \in Builders \ {b}
        PROVE  /\ at'[c] \in Looping => round'[c] \in DOMAIN Inputs
               /\ at'[c] \notin Looping \cup {"copyObjects"} => round'[c] = 1
    BY ProjectFrame DEF LoopsOK
  <1>3. /\ at'[b] \in Looping => round'[b] \in DOMAIN Inputs
        /\ at'[b] \notin Looping \cup {"copyObjects"} => round'[b] = 1
    <2>1. CASE Fingerprint(b) \/ Emit(b) \/ Recheck(b) \/ Compare(b)
      <3>1. at[b] \in Looping /\ round[b] \in DOMAIN Inputs
        BY <2>1 DEF Fingerprint, Emit, Recheck, Compare, LoopsOK, Looping
      <3>2. CASE \E next : Loop(b, Len(Inputs), next)
        <4>1. PICK next : Loop(b, Len(Inputs), next)
          BY <3>2
        <4> QED
          BY <1>1, <3>1, <4>1, LoopFacts
      <3>3. CASE round' = [round EXCEPT ![b] = 1]
        BY <1>1, <3>3 DEF ProjectTypes
      <3> QED
        BY <2>1, <3>2, <3>3 DEF Fingerprint, Emit, Recheck, Compare
    <2>2. CASE CopyObject(b)
      <3>1. Loop(b, Cardinality(Objects), "mark") /\ at[b] = "copyObjects"
        BY <2>2 DEF CopyObject
      <3> QED
        BY <3>1, LoopFacts DEF Looping
    <2>3. CASE Kill(b)
      BY <2>3, Moves DEF Looping
    <2>4. CASE round' = round /\ at[b] \notin Looping \cup {"copyObjects"}
      BY <1>1, <2>4 DEF LoopsOK
    <2> QED
      BY <2>1, <2>2, <2>3, <2>4, Moves
  <1> QED
    BY <1>2, <1>3 DEF LoopsOK

\* One more input is passed with every turn, and after the last turn all of them are.
LEMMA PassedFacts ==
  ASSUME ProjectTypes, NEW b \in Builders, round[b] \in DOMAIN Inputs
  PROVE  /\ round'[b] = round[b] + 1 =>
              \A f \in InputSet : Passed(b, f)' => Passed(b, f) \/ f = Inputs[round[b]]
         /\ ~ (round[b] < Len(Inputs)) =>
              \A f \in InputSet : Passed(b, f) \/ f = Inputs[round[b]]
         /\ round'[b] = 1 => \A f \in InputSet : ~ Passed(b, f)'
         /\ round[b] = 1 => \A f \in InputSet : ~ Passed(b, f)
PROOF
  <1>1. Len(Inputs) \in Nat /\ DOMAIN Inputs = 1 .. Len(Inputs)
    BY InputsAssumption
  <1>2. round'[b] = round[b] + 1 =>
          \A f \in InputSet : Passed(b, f)' => Passed(b, f) \/ f = Inputs[round[b]]
    BY <1>1 DEF Passed
  <1>3. ASSUME ~ (round[b] < Len(Inputs)), NEW f \in InputSet
        PROVE  Passed(b, f) \/ f = Inputs[round[b]]
    <2>1. PICK n \in DOMAIN Inputs : Inputs[n] = f
      BY DEF InputSet
    <2>2. n < round[b] \/ n = round[b]
      BY <1>1, <1>3
    <2> QED
      BY <2>1, <2>2 DEF Passed
  <1>4. round'[b] = 1 => \A f \in InputSet : ~ Passed(b, f)'
    BY <1>1 DEF Passed
  <1>5. round[b] = 1 => \A f \in InputSet : ~ Passed(b, f)
    BY <1>1 DEF Passed
  <1> QED
    BY <1>2, <1>3, <1>4, <1>5

LEMMA ReadsStep ==
  ASSUME ProjectTypes, LoopsOK, ReadsOK, NEW b \in Builders, Builder(b)
  PROVE  ReadsOK'
PROOF
  <1>1. ASSUME NEW c \in Builders \ {b}, at'[c] # "idle", NEW f \in InputSet
        PROVE  /\ digest'[c][f] # disk'[f] => touched'[c][f] >= 1
               /\ at'[c] \in AfterEmit \/ (at'[c] = "emit" /\ Passed(c, f)') =>
                   /\ emitted'[c][f] # digest'[c][f] => touched'[c][f] >= 1
                   /\ emitted'[c][f] # digest'[c][f] /\ emitted'[c][f] # disk'[f] => touched'[c][f] >= 2
               /\ at'[c] \in AfterCompare \/ (at'[c] = "compare" /\ Passed(c, f)') =>
                   (emitted'[c][f] # digest'[c][f] => touched'[c][f] >= 2)
    <2>1. Passed(c, f)' <=> Passed(c, f)
      BY ProjectFrame DEF Passed
    <2> QED
      BY <1>1, <2>1, ProjectFrame DEF ReadsOK
  <1>2. ASSUME at'[b] # "idle", NEW f \in InputSet
        PROVE  /\ digest'[b][f] # disk'[f] => touched'[b][f] >= 1
               /\ at'[b] \in AfterEmit \/ (at'[b] = "emit" /\ Passed(b, f)') =>
                   /\ emitted'[b][f] # digest'[b][f] => touched'[b][f] >= 1
                   /\ emitted'[b][f] # digest'[b][f] /\ emitted'[b][f] # disk'[f] => touched'[b][f] >= 2
               /\ at'[b] \in AfterCompare \/ (at'[b] = "compare" /\ Passed(b, f)') =>
                   (emitted'[b][f] # digest'[b][f] => touched'[b][f] >= 2)
    <2>1. /\ digest \in [Builders -> [InputSet -> Versions]]
          /\ emitted \in [Builders -> [InputSet -> Versions]] /\ round[b] \in Nat
      BY DEF ProjectTypes
    <2>2. disk' = disk /\ (touched' = touched \/ BeginBuild(b))
      BY Writers
    <2>3. CASE BeginBuild(b)
      BY <2>1, <2>2, <2>3, Moves DEF BeginBuild, AfterEmit, AfterCompare
    <2>4. CASE Fingerprint(b)
      <3>1. at[b] = "fingerprint" /\ touched' = touched /\ at'[b] \in {"fingerprint", "restore"}
        BY <2>4, LoopFacts DEF Fingerprint, environment
      <3>2. digest'[b][f] = digest[b][f] \/ digest'[b][f] = disk[f]
        BY <2>1, <2>4 DEF Fingerprint
      <3> QED
        BY <2>2, <3>1, <3>2 DEF ReadsOK, AfterEmit, AfterCompare
    <2>5. CASE Emit(b)
      <3>1. /\ at[b] = "emit" /\ touched' = touched /\ digest' = digest
            /\ round[b] \in DOMAIN Inputs
        BY <2>5 DEF Emit, environment, LoopsOK, Looping
      <3>2. /\ at'[b] \in {"emit", "compare"}
            /\ at'[b] = "compare" => round'[b] = 1 /\ ~ (round[b] < Len(Inputs))
            /\ at'[b] = "emit" => round'[b] = round[b] + 1
        BY <2>5, <3>1, LoopFacts DEF Emit
      <3>3. at'[b] = "compare" => ~ Passed(b, f)' /\ (Passed(b, f) \/ f = Inputs[round[b]])
        BY <3>1, <3>2, PassedFacts
      <3>4. at'[b] = "emit" /\ Passed(b, f)' => Passed(b, f) \/ f = Inputs[round[b]]
        BY <3>1, <3>2, PassedFacts
      <3>5. IF f = Inputs[round[b]] THEN emitted'[b][f] = disk[f]
                                   ELSE emitted'[b][f] = emitted[b][f]
        BY <2>1, <2>5 DEF Emit
      <3> QED
        BY <2>2, <3>1, <3>2, <3>3, <3>4, <3>5 DEF ReadsOK, AfterEmit, AfterCompare
    <2>6. CASE Compare(b)
      <3>1. /\ at[b] = "compare" /\ touched' = touched /\ digest' = digest /\ emitted' = emitted
            /\ round[b] \in DOMAIN Inputs
        BY <2>6 DEF Compare, environment, LoopsOK, Looping
      <3>2. /\ disk[Inputs[round[b]]] = digest[b][Inputs[round[b]]]
            /\ Loop(b, Len(Inputs), "clear")
        BY <1>2, <2>6 DEF Compare, Jump, ProjectTypes
      <3>3. /\ at'[b] \in {"compare", "clear"}
            /\ at'[b] = "clear" => ~ (round[b] < Len(Inputs))
            /\ at'[b] = "compare" => round'[b] = round[b] + 1
        BY <3>1, <3>2, LoopFacts
      <3>4. at'[b] = "clear" \/ Passed(b, f)' => Passed(b, f) \/ f = Inputs[round[b]]
        BY <3>1, <3>3, PassedFacts
      <3> QED
        BY <2>2, <3>1, <3>2, <3>3, <3>4 DEF ReadsOK, AfterEmit, AfterCompare
    <2>7. CASE Clear(b) \/ CopyObject(b)
      <3>1. /\ at[b] \in {"clear", "copyObjects"} /\ touched' = touched /\ digest' = digest
            /\ emitted' = emitted
        BY <2>7 DEF Clear, CopyObject, environment
      <3>2. at'[b] \in {"clear", "copyObjects", "mark"}
        BY <2>7, <3>1, Moves, LoopFacts DEF CopyObject
      <3> QED
        BY <2>2, <3>1, <3>2 DEF ReadsOK, AfterEmit, AfterCompare
    <2>8. CASE RestoreObjects(b)
      <3>1. /\ at[b] = "objects" /\ touched' = touched /\ digest' = digest /\ emitted' = emitted
            /\ round' = round /\ round[b] = 1
        BY <2>8 DEF RestoreObjects, environment, LoopsOK, Looping
      <3>2. ~ Passed(b, f)'
        BY <3>1, InputsAssumption DEF Passed
      <3> QED
        BY <2>2, <2>8, <3>1, <3>2, Moves DEF ReadsOK, AfterEmit, AfterCompare
    <2>9. CASE Restore(b) \/ CheckArtifact(b) \/ CopyArtifact(b) \/ MarkObjects(b) \/ Recheck(b)
               \/ NoteOld(b) \/ PublishArtifact(b) \/ PublishPointer(b) \/ DropOld(b) \/ Kill(b)
      <3>1. /\ at[b] # "idle" /\ touched' = touched /\ digest' = digest
        BY <2>9 DEF Restore, CheckArtifact, CopyArtifact, MarkObjects, Recheck, NoteOld, PublishArtifact,
                    PublishPointer, DropOld, Kill, environment
      <3>2. at'[b] \notin AfterEmit \cup AfterCompare \cup {"emit"}
        <4>1. CASE Recheck(b)
          BY <1>2, <4>1, LoopFacts DEF Recheck, Jump, ProjectTypes, AfterEmit, AfterCompare
        <4> QED
          BY <2>9, <4>1, Moves DEF AfterEmit, AfterCompare
      <3> QED
        BY <1>2, <2>2, <3>1, <3>2 DEF ReadsOK, AfterEmit, AfterCompare
    <2> QED
      BY <2>3, <2>4, <2>5, <2>6, <2>7, <2>8, <2>9 DEF Builder
  <1> QED
    BY <1>1, <1>2 DEF ReadsOK
-----------------------------------------------------------------------------
\* What is written into the object cache was compiled for the digest it is filed under.
LEMMA WhatIsStored ==
  ASSUME ProjectTypes, ReadsOK, NEW b \in Builders, at[b] \in AfterCompare
  PROVE  Made(Emitted(b), Digest(b))
PROOF
  <1>1. Emitted(b) \in Compiled /\ Emitted(b).by = b /\ Emitted(b).of = emitted[b]
    BY EmittedType DEF Emitted
  <1>2. ASSUME emitted[b] # digest[b]
        PROVE  Emitted(b).flipped
    <2>1. emitted[b] \in [InputSet -> Versions] /\ digest[b] \in [InputSet -> Versions]
      BY DEF ProjectTypes
    <2>2. PICK f \in InputSet : emitted[b][f] # digest[b][f]
      BY <1>2, <2>1
    <2>3. touched[b][f] >= 2
      BY <2>2 DEF ReadsOK, AfterCompare
    <2> QED
      BY <2>3 DEF Emitted
  <1> QED
    BY <1>1, <1>2, DigestFacts DEF Made

\* Digests of other builders, and those a step does not change.
LEMMA DigestFrame ==
  ASSUME ProjectTypes, NEW b \in Builders, Builder(b)
  PROVE  /\ \A c \in Builders \ {b} : Digest(c)' = Digest(c) /\ Digest(c) \in Digests
                                      /\ Digest(c) # Digest(b)
         /\ BeginBuild(b) \/ Fingerprint(b) \/ Digest(b)' = Digest(b)
PROOF
  <1>1. \A c \in Builders \ {b} : Digest(c)' = Digest(c)
    BY ProjectFrame DEF Digest
  <1>2. BeginBuild(b) \/ Fingerprint(b) \/ Digest(b)' = Digest(b)
    BY Writers DEF Digest
  <1> QED
    BY <1>1, <1>2, DigestFacts

LEMMA PublishedStep ==
  ASSUME ProjectInv, NEW b \in Builders, Builder(b)
  PROVE  PublishedOK'
PROOF
  <1> USE DEF ProjectInv
  <1>1. Digest(b) \in Digests
    BY DigestFacts
  <1>2. pointer' \notin {Absent, Lost} =>
          pointer'.digest \in Digests /\ Whole(pointer'.image, pointer'.digest)
    <2>1. CASE PublishPointer(b)
      BY <1>1, <2>1 DEF PublishPointer, OutputOK
    <2> QED
      BY <2>1, Writers DEF PublishedOK
  <1>3. ASSUME NEW d \in Digests, markers'[d] # Absent
        PROVE  Whole(markers'[d], d)
    <2>1. CASE d # Digest(b)
      BY <1>3, <2>1, ProjectFrame DEF PublishedOK
    <2>2. CASE d = Digest(b) /\ Clear(b)
      BY <1>3, <2>2 DEF Clear, PublishedOK, ProjectTypes
    <2>3. CASE d = Digest(b) /\ MarkObjects(b)
      <3>1. markers'[d] = objects[d]
        BY <2>3 DEF MarkObjects, ProjectTypes
      <3>2. objects[d] \in [Objects -> Compiled \cup {Absent, Lost}]
        BY DEF ProjectTypes
      <3>3. \A o \in Objects : Made(objects[d][o], d)
        BY <2>3 DEF MarkObjects, StoreOK
      <3> QED
        BY <3>1, <3>2, <3>3 DEF Whole
    <2> QED
      BY <1>3, <2>1, <2>2, <2>3, Writers DEF PublishedOK
  <1> QED
    BY <1>2, <1>3 DEF PublishedOK

LEMMA OutputStep ==
  ASSUME ProjectInv, NEW b \in Builders, Builder(b)
  PROVE  OutputOK'
PROOF
  <1> USE DEF ProjectInv
  <1>1. /\ Digest(b) \in Digests
        /\ DOMAIN seen = Builders /\ DOMAIN output = Builders /\ hit \in [Builders -> BOOLEAN]
        /\ at \in [Builders -> Places] /\ DOMAIN artifacts = Digests
    BY DigestFacts DEF ProjectTypes
  <1>2. ASSUME NEW c \in Builders \ {b}
        PROVE  /\ at'[c] = "check" => Whole(seen'[c], Digest(c)')
               /\ at'[c] = "copy" /\ artifacts'[Digest(c)'] # Absent =>
                    Whole(artifacts'[Digest(c)'], Digest(c)')
               /\ hit'[c] \/ at'[c] \in {"recheck", "keep", "artifact", "pointer"} =>
                    Whole(output'[c], Digest(c)')
               /\ at'[c] = "fingerprint" => ~ hit'[c]
    <2>1. /\ at'[c] = at[c] /\ seen'[c] = seen[c] /\ output'[c] = output[c] /\ hit'[c] = hit[c]
          /\ Digest(c)' = Digest(c) /\ Digest(c) \in Digests /\ Digest(c) # Digest(b)
      BY ProjectFrame, DigestFrame
    <2>2. artifacts'[Digest(c)] \in {artifacts[Digest(c)], Absent}
      BY <2>1, ProjectFrame
    <2> QED
      BY <2>1, <2>2 DEF OutputOK
  <1>3. /\ at'[b] = "check" => Whole(seen'[b], Digest(b)')
        /\ at'[b] = "copy" /\ artifacts'[Digest(b)'] # Absent =>
             Whole(artifacts'[Digest(b)'], Digest(b)')
        /\ hit'[b] \/ at'[b] \in {"recheck", "keep", "artifact", "pointer"} =>
             Whole(output'[b], Digest(b)')
        /\ at'[b] = "fingerprint" => ~ hit'[b]
    <2>1. CASE BeginBuild(b)
      BY <1>1, <2>1, Moves DEF BeginBuild, Leave
    <2>2. CASE Fingerprint(b)
      <3>1. ~ hit'[b] /\ at'[b] \in {"fingerprint", "restore"}
        BY <2>2, LoopFacts DEF Fingerprint, OutputOK, result
      <3> QED
        BY <3>1
    <2>3. CASE Restore(b)
      <3>1. Digest(b)' = Digest(b) /\ UNCHANGED result /\ at[b] = "restore"
        BY <2>3 DEF Restore, Digest
      <3>2. at'[b] = "check" => seen'[b] = pointer.image /\ Whole(pointer.image, Digest(b))
        BY <1>1, <2>3 DEF Restore, Jump, PublishedOK
      <3> QED
        BY <2>3, <3>1, <3>2, Moves DEF OutputOK, result
    <2>4. CASE CheckArtifact(b)
      <3>1. /\ Digest(b)' = Digest(b) /\ UNCHANGED <<result, artifacts>> /\ at[b] = "check"
        BY <2>4 DEF CheckArtifact, Digest, cache
      <3>2. at'[b] = "copy" => artifacts[Digest(b)] = seen[b]
        BY <1>1, <2>4 DEF CheckArtifact, Jump
      <3> QED
        BY <2>4, <3>1, <3>2, Moves DEF OutputOK, result
    <2>5. CASE CopyArtifact(b)
      <3>1. Digest(b)' = Digest(b) /\ at[b] = "copy"
        BY <2>5 DEF CopyArtifact, Digest
      <3>2. \/ output'[b] = artifacts[Digest(b)] /\ artifacts[Digest(b)] # Absent
            \/ UNCHANGED result
        BY <1>1, <2>5 DEF CopyArtifact, Leave
      <3> QED
        BY <2>5, <3>1, <3>2, Moves DEF OutputOK, result
    <2>6. CASE RestoreObjects(b)
      <3>1. Digest(b)' = Digest(b) /\ at[b] = "objects"
        BY <2>6 DEF RestoreObjects, Digest
      <3>2. \/ output'[b] = objects[Digest(b)] /\ Complete(Digest(b))
            \/ UNCHANGED result /\ at'[b] = "emit"
        BY <1>1, <2>6 DEF RestoreObjects, Leave, Jump
      <3>3. Complete(Digest(b)) => Whole(objects[Digest(b)], Digest(b))
        BY <1>1 DEF Complete, PublishedOK
      <3> QED
        BY <2>6, <3>1, <3>2, <3>3, Moves DEF OutputOK, result
    <2>7. CASE MarkObjects(b)
      <3>1. Digest(b)' = Digest(b) /\ Whole([o \in Objects |-> Emitted(b)], Digest(b))
        BY <2>7, WhatIsStored DEF MarkObjects, Digest, AfterCompare, Whole
      <3> QED
        BY <1>1, <2>7, <3>1, Moves DEF MarkObjects, Leave
    <2>8. CASE Kill(b)
      BY <1>1, <2>8, Moves DEF Kill, Leave
    <2>9. CASE Emit(b)
      <3>1. Digest(b)' = Digest(b) /\ UNCHANGED result /\ at'[b] \in {"emit", "compare"}
        BY <2>9, LoopFacts DEF Emit, Digest
      <3> QED
        BY <3>1 DEF OutputOK, result
    <2>10. CASE Compare(b)
      <3>1. CASE Loop(b, Len(Inputs), "clear") /\ UNCHANGED result
        <4>1. Digest(b)' = Digest(b) /\ at'[b] \in {"compare", "clear"}
          BY <2>10, <3>1, LoopFacts DEF Compare, Digest
        <4> QED
          BY <3>1, <4>1 DEF OutputOK, result
      <3>2. CASE Leave(b, [o \in Objects |-> Emitted(b)], FALSE) /\ Jump(b, "idle")
        BY <1>1, <3>2 DEF Leave, Jump
      <3> QED
        BY <2>10, <3>1, <3>2 DEF Compare
    <2>11. CASE Recheck(b)
      <3>1. /\ Digest(b)' = Digest(b) /\ UNCHANGED result /\ at[b] = "recheck"
        BY <2>11 DEF Recheck, Digest
      <3>2. at'[b] \in {"recheck", "keep", "idle"}
        BY <1>1, <2>11, LoopFacts DEF Recheck, Jump
      <3> QED
        BY <3>1, <3>2 DEF OutputOK, result
    <2>12. CASE NoteOld(b) \/ PublishArtifact(b)
      <3>1. /\ Digest(b)' = Digest(b) /\ UNCHANGED result /\ at[b] \in {"keep", "artifact"}
            /\ at'[b] \in {"artifact", "pointer"}
        BY <2>12, Moves DEF NoteOld, PublishArtifact, Digest
      <3> QED
        BY <3>1 DEF OutputOK, result
    <2>13. CASE Clear(b) \/ CopyObject(b) \/ PublishPointer(b) \/ DropOld(b)
      <3>1. /\ Digest(b)' = Digest(b) /\ UNCHANGED result
        BY <2>13 DEF Clear, CopyObject, PublishPointer, DropOld, Digest
      <3>2. at'[b] \in {"clear", "copyObjects", "mark", "drop", "idle"}
        BY <2>13, Moves, LoopFacts DEF CopyObject
      <3> QED
        BY <3>1, <3>2 DEF OutputOK, result
    <2> QED
      BY <2>1, <2>2, <2>3, <2>4, <2>5, <2>6, <2>7, <2>8, <2>9, <2>10, <2>11, <2>12, <2>13 DEF Builder
  <1> QED
    BY <1>2, <1>3 DEF OutputOK

LEMMA StoreStep ==
  ASSUME ProjectInv, NEW b \in Builders, Builder(b)
  PROVE  StoreOK'
PROOF
  <1> USE DEF ProjectInv
  <1>1. /\ Digest(b) \in Digests /\ round[b] \in Nat /\ at \in [Builders -> Places]
        /\ DOMAIN markers = Digests
    BY DigestFacts DEF ProjectTypes
  <1>2. \A d \in Digests : objects[d] \in [Objects -> Compiled \cup {Absent, Lost}]
    BY DEF ProjectTypes
  <1>3. ASSUME NEW c \in Builders \ {b}
        PROVE  /\ at'[c] \in {"copyObjects", "mark"} =>
                    /\ markers'[Digest(c)'] = Absent
                    /\ \A o \in Present(c)' : Made(objects'[Digest(c)'][o], Digest(c)')
               /\ at'[c] = "copyObjects" => Cardinality(Present(c)') = round'[c] - 1
               /\ at'[c] = "mark" => Present(c)' = Objects
    <2>1. /\ at'[c] = at[c] /\ round'[c] = round[c]
          /\ Digest(c)' = Digest(c) /\ Digest(c) \in Digests /\ Digest(c) # Digest(b)
      BY ProjectFrame, DigestFrame
    <2>2. objects'[Digest(c)] = objects[Digest(c)] /\ markers'[Digest(c)] = markers[Digest(c)]
      BY <2>1, ProjectFrame
    <2>3. Present(c)' = Present(c)
      BY <2>1, <2>2 DEF Present
    <2> QED
      BY <2>1, <2>2, <2>3 DEF StoreOK
  <1>4. /\ at'[b] \in {"copyObjects", "mark"} =>
             /\ markers'[Digest(b)'] = Absent
             /\ \A o \in Present(b)' : Made(objects'[Digest(b)'][o], Digest(b)')
        /\ at'[b] = "copyObjects" => Cardinality(Present(b)') = round'[b] - 1
        /\ at'[b] = "mark" => Present(b)' = Objects
    <2>1. CASE Clear(b)
      <3>1. Digest(b)' = Digest(b) /\ round' = round /\ round[b] = 1
        BY <2>1 DEF Clear, Digest, LoopsOK, Looping
      <3>2. CASE at' = at
        BY <2>1, <3>2 DEF Clear
      <3>3. CASE /\ markers[Digest(b)] = Absent /\ objects[Digest(b)] = Nothing
                 /\ Jump(b, "copyObjects") /\ UNCHANGED <<objects, markers>>
        <4>1. Present(b)' = {}
          BY <3>1, <3>3 DEF Present, Nothing
        <4> QED
          BY <1>1, <3>1, <3>3, <4>1, FS_EmptySet DEF Jump
      <3> QED
        BY <2>1, <3>2, <3>3 DEF Clear
    <2>2. CASE CopyObject(b)
      <3>1. PICK o \in Objects : /\ objects[Digest(b)][o] = Absent
                                 /\ objects' = [objects EXCEPT ![Digest(b)][o] = Emitted(b)]
        BY <2>2 DEF CopyObject
      <3>2. /\ at[b] = "copyObjects" /\ markers' = markers /\ Digest(b)' = Digest(b)
            /\ Loop(b, Cardinality(Objects), "mark")
        BY <2>2 DEF CopyObject, Digest
      <3>3. Made(Emitted(b), Digest(b)) /\ Emitted(b) # Absent
        BY <3>2, WhatIsStored, EmittedType DEF AfterCompare
      <3>4. /\ objects'[Digest(b)][o] = Emitted(b)
            /\ \A p \in Objects \ {o} : objects'[Digest(b)][p] = objects[Digest(b)][p]
        BY <1>1, <1>2, <3>1 DEF ProjectTypes
      <3>5. Present(b)' = Present(b) \cup {o} /\ o \notin Present(b)
        BY <3>1, <3>2, <3>3, <3>4 DEF Present
      <3>6. \A p \in Present(b)' : Made(objects'[Digest(b)][p], Digest(b))
        BY <3>2, <3>3, <3>4, <3>5 DEF StoreOK, Present
      <3>7. IsFiniteSet(Objects) /\ Present(b)' \subseteq Objects /\ Present(b) \subseteq Objects
        BY ProjectAssumption DEF Present
      <3>8. Cardinality(Present(b)') = round[b]
        <4>1. IsFiniteSet(Present(b)) /\ Cardinality(Present(b)) = round[b] - 1
          BY <3>2, <3>7, FS_Subset DEF StoreOK
        <4>2. Cardinality(Present(b) \cup {o}) = Cardinality(Present(b)) + 1
          BY <3>5, <4>1, FS_AddElement
        <4> QED
          BY <1>1, <3>5, <4>1, <4>2
      <3>9. ~ (round[b] < Cardinality(Objects)) => Present(b)' = Objects
        <4>1. /\ Cardinality(Objects) \in Nat /\ Cardinality(Present(b)') <= Cardinality(Objects)
              /\ Cardinality(Present(b)') = Cardinality(Objects) => Present(b)' = Objects
          BY <3>7, FS_Subset, FS_CardinalityType
        <4> QED
          BY <1>1, <3>8, <4>1
      <3>10. \/ at'[b] = "copyObjects" /\ round'[b] = round[b] + 1
             \/ at'[b] = "mark" /\ ~ (round[b] < Cardinality(Objects))
        BY <3>2, LoopFacts
      <3> QED
        BY <1>1, <3>2, <3>6, <3>8, <3>9, <3>10 DEF StoreOK
    <2>3. CASE ~ Clear(b) /\ ~ CopyObject(b)
      <3>1. at'[b] \notin {"copyObjects", "mark"}
        <4>1. CASE Fingerprint(b)
          BY <4>1, LoopFacts DEF Fingerprint
        <4>2. CASE Emit(b)
          BY <4>2, LoopFacts DEF Emit
        <4>3. CASE Compare(b)
          <5>1. at[b] = "compare"
            BY <4>3 DEF Compare
          <5>2. at'[b] \in {"compare", "clear", "idle"}
            BY <1>1, <4>3, <5>1, LoopFacts DEF Compare, Jump
          <5> QED
            BY <5>2
        <4>4. CASE Recheck(b)
          BY <1>1, <4>4, LoopFacts DEF Recheck, Jump
        <4>5. CASE RestoreObjects(b)
          BY <1>1, <4>5 DEF RestoreObjects, Jump
        <4> QED
          BY <2>3, <4>1, <4>2, <4>3, <4>4, <4>5, Moves DEF Builder
      <3> QED
        BY <3>1
    <2> QED
      BY <2>1, <2>2, <2>3
  <1> QED
    BY <1>3, <1>4 DEF StoreOK
-----------------------------------------------------------------------------
\* An edit is counted; a power failure can damage a file but no marker, and stops everybody.
LEMMA EnvironmentStep ==
  ASSUME ProjectInv, PowerCut \/ \E f \in InputSet : Edit(f)
  PROVE  ProjectInv'
PROOF
  <1>1. ASSUME NEW e \in InputSet, Edit(e)
        PROVE  ProjectInv'
    <2>1. UNCHANGED <<pointer, artifacts, objects, markers, at, digest, emitted, round, seen, output, hit>>
      BY <1>1 DEF Edit, cache, result
    <2>2. PICK v \in Versions : disk' = [disk EXCEPT ![e] = v]
      BY <1>1 DEF Edit
    <2>3. \A c \in Builders : at[c] # "idle" => \A f \in InputSet :
            /\ touched'[c][f] >= touched[c][f]
            /\ f # e => disk'[f] = disk[f]
            /\ f = e => touched'[c][f] >= 1 /\ (touched[c][f] >= 1 => touched'[c][f] >= 2)
      <3> SUFFICES ASSUME NEW c \in Builders, at[c] # "idle", NEW f \in InputSet
                   PROVE  /\ touched'[c][f] >= touched[c][f]
                          /\ f # e => disk'[f] = disk[f]
                          /\ f = e => touched'[c][f] >= 1 /\ (touched[c][f] >= 1 => touched'[c][f] >= 2)
        OBVIOUS
      <3>1. touched'[c] = IF touched[c][e] = 2 THEN touched[c]
                          ELSE [touched[c] EXCEPT ![e] = touched[c][e] + 1]
        BY <1>1 DEF Edit
      <3>2. touched[c] \in [InputSet -> 0 .. 2] /\ disk \in [InputSet -> Versions]
        BY DEF ProjectInv, ProjectTypes
      <3>3. f # e => disk'[f] = disk[f]
        BY <2>2, <3>2
      <3> QED
        BY <3>1, <3>2, <3>3
    <2>4. ProjectTypes'
      <3>1. disk' \in [InputSet -> Versions]
        BY <2>2 DEF ProjectInv, ProjectTypes
      <3>2. touched' \in [Builders -> [InputSet -> 0 .. 2]]
        <4>1. touched \in [Builders -> [InputSet -> 0 .. 2]]
          BY DEF ProjectInv, ProjectTypes
        <4>2. \A c \in Builders : touched[c][e] # 2 =>
                [touched[c] EXCEPT ![e] = touched[c][e] + 1] \in [InputSet -> 0 .. 2]
          BY <4>1
        <4>3. touched' = [c \in Builders |-> IF at[c] = "idle" \/ touched[c][e] = 2 THEN touched[c]
                                             ELSE [touched[c] EXCEPT ![e] = touched[c][e] + 1]]
          BY <1>1 DEF Edit
        <4> QED
          BY <4>1, <4>2, <4>3
      <3> QED
        BY <2>1, <3>1, <3>2 DEF ProjectInv, ProjectTypes
    <2>5. ReadsOK'
      <3> SUFFICES ASSUME NEW c \in Builders, at[c] # "idle", NEW f \in InputSet
                   PROVE  /\ digest[c][f] # disk'[f] => touched'[c][f] >= 1
                          /\ at[c] \in AfterEmit \/ (at[c] = "emit" /\ Passed(c, f)) =>
                               /\ emitted[c][f] # digest[c][f] => touched'[c][f] >= 1
                               /\ emitted[c][f] # digest[c][f] /\ emitted[c][f] # disk'[f] =>
                                    touched'[c][f] >= 2
                          /\ at[c] \in AfterCompare \/ (at[c] = "compare" /\ Passed(c, f)) =>
                               (emitted[c][f] # digest[c][f] => touched'[c][f] >= 2)
        BY <2>1 DEF ReadsOK, Passed
      <3>1. touched[c][f] \in 0 .. 2 /\ touched'[c][f] \in 0 .. 2
        BY <2>4 DEF ProjectInv, ProjectTypes
      <3> QED
        BY <2>3, <3>1 DEF ProjectInv, ReadsOK
    <2>6. LoopsOK' /\ PublishedOK'
      BY <2>1 DEF ProjectInv, LoopsOK, PublishedOK
    <2>7. StoreOK' /\ OutputOK'
      BY <2>1 DEF ProjectInv, StoreOK, OutputOK, Complete, Digest, Present
    <2> QED
      BY <2>4, <2>5, <2>6, <2>7 DEF ProjectInv
  <1>2. ASSUME PowerCut
        PROVE  ProjectInv'
    <2>1. /\ at' = [b \in Builders |-> "idle"] /\ round' = [b \in Builders |-> 1]
          /\ seen' = [b \in Builders |-> Absent] /\ output' = [b \in Builders |-> Nothing]
          /\ hit' = [b \in Builders |-> FALSE]
          /\ UNCHANGED <<markers, disk, touched, digest, emitted>>
      BY <1>2 DEF PowerCut
    <2>2. LoopsOK' /\ ReadsOK' /\ StoreOK' /\ OutputOK'
      BY <2>1 DEF LoopsOK, ReadsOK, StoreOK, OutputOK, Looping
    <2>3. pointer' \in {pointer, Lost}
      BY <1>2 DEF PowerCut
    <2>4. PublishedOK'
      BY <2>1, <2>3 DEF ProjectInv, PublishedOK
    <2>5. objects' \in [Digests -> [Objects -> Compiled \cup {Absent, Lost}]]
      <3>1. objects \in [Digests -> [Objects -> Compiled \cup {Absent, Lost}]]
        BY DEF ProjectInv, ProjectTypes
      <3>2. objects' = objects \/ \E d \in Digests, o \in Objects :
                                    objects' = [objects EXCEPT ![d][o] = Lost]
        BY <1>2 DEF PowerCut
      <3> QED
        BY <3>1, <3>2
    <2>6. DOMAIN artifacts' = Digests
      BY <1>2 DEF PowerCut, ProjectInv, ProjectTypes
    <2>7. ProjectTypes'
      <3>1. /\ at' \in [Builders -> Places] /\ round' \in [Builders -> Nat]
            /\ hit' \in [Builders -> BOOLEAN]
        BY <2>1 DEF Places
      <3> QED
        BY <2>1, <2>5, <2>6, <3>1 DEF ProjectInv, ProjectTypes
    <2> QED
      BY <2>2, <2>4, <2>7 DEF ProjectInv
  <1> QED
    BY <1>1, <1>2

\* The inductive invariant.
THEOREM ProjectInvariance == ProjectSpec => []ProjectInv
PROOF
  <1>1. ProjectInv /\ [ProjectNext]_projectVars => ProjectInv'
    <2> SUFFICES ASSUME ProjectInv, [ProjectNext]_projectVars PROVE ProjectInv'
      OBVIOUS
    <2>1. ASSUME NEW b \in Builders, Builder(b)
          PROVE  ProjectInv'
      <3>1. ProjectTypes' /\ LoopsOK' /\ ReadsOK'
        BY <2>1, BuilderTypes, LoopsStep, ReadsStep DEF ProjectInv
      <3>2. PublishedOK' /\ StoreOK' /\ OutputOK'
        BY <2>1, PublishedStep, StoreStep, OutputStep
      <3> QED
        BY <3>1, <3>2 DEF ProjectInv
    <2>2. CASE UNCHANGED projectVars
      <3>1. UNCHANGED <<disk, pointer, artifacts, objects, markers, at, digest, emitted, round, seen,
                        output, hit, touched>>
        BY <2>2 DEF projectVars, cache, environment, result
      <3> QED
        BY <3>1 DEF ProjectInv, ProjectTypes, LoopsOK, ReadsOK, PublishedOK, StoreOK, OutputOK, Passed,
                    Complete, Digest, Present
    <2> QED
      BY <2>1, <2>2, EnvironmentStep DEF ProjectNext
  <1> QED
    BY InitProject, <1>1, PTL DEF ProjectSpec

\* What a build takes from a cache is a whole program compiled with its arguments from
\* inputs with the contents it fingerprinted, whoever stored it and whatever happened since.
THEOREM DeliveryIsClean == ProjectSpec => []DeliveredIsClean
PROOF
  <1>1. ProjectInv => DeliveredIsClean
    <2> SUFFICES ASSUME ProjectInv, NEW b \in Builders, hit[b], NEW o \in Objects
                 PROVE  /\ output[b][o] \notin {Absent, Lost}
                        /\ output[b][o].by = b
                        /\ output[b][o].flipped \/ output[b][o].of = digest[b]
      BY DEF DeliveredIsClean
    <2>1. Made(output[b][o], Digest(b))
      BY DEF ProjectInv, OutputOK, Whole
    <2> QED
      BY <2>1, CompiledAssumption, DigestFacts DEF Made, ProjectInv
  <1> QED
    BY ProjectInvariance, <1>1, PTL

-----------------------------------------------------------------------------
(* FunctionCache.                                                          *)

RepositoryOK ==
  /\ repo \in Compilers /\ compiler \in Compilers /\ (Gated => CheckPasses(compiler))
  /\ lib \in LibTexts /\ app \in AppTexts

\* Declarations were computed from the texts their key identifies.
InterfacesOK ==
  \A e \in interfaces :
    /\ e.declarations # <<>>
    /\ e.declarations = Declarations(e.key.by.visitor, e.key.files[2], e.key.files[1])

\* A fragment is what its function compiles to in some build its key stands for.
Filed(fn, s) ==
  \E l \in LibTexts, a \in AppTexts :
    LET c == s.key.context.by
    IN /\ c \in Compilers /\ (Gated => CheckPasses(c)) /\ Parses(c, l)
       /\ s.key.context.declarations = Declarations(c.visitor, l, a)
       /\ s.key.context.declarations # <<>>
       /\ s.key.context.contracts = IF WantsInline(l) THEN <<l>> ELSE <<>>
       /\ s.key.file = IF fn = "f" THEN <<l>> ELSE <<a>>
       /\ fn = "main" => a # "wrong"
       /\ s.fragment = Lower(fn, c, s.key.context.option, l, a, s.key.stream)
FragmentsOK ==
  /\ DOMAIN slots = {"f", "main"}
  /\ \A fn \in {"f", "main"} : \A s \in slots[fn] : Filed(fn, s)

JobFields == {"at", "by", "l", "a", "declarations", "code", "ok"}

\* A build has lowered, or replayed as if lowered, what it parsed.
OnItsWay(b, j) ==
  /\ DOMAIN j = JobFields
  /\ j.at \in {"idle", "parse", "f", "main", "done"}
  /\ j.by \in Compilers /\ (Gated => CheckPasses(j.by))
  /\ j.l \in LibTexts /\ j.a \in AppTexts
  /\ j.at # "done" => j.ok = FALSE
  /\ j.at \in {"idle", "parse", "f"} => j.code = <<>>
  /\ j.at = "main" => j.code = <<Lower("f", j.by, OptionOf[b], j.l, j.a, <<>>)>>
  /\ j.at \in {"f", "main"} =>
       Parses(j.by, j.l) /\ j.declarations \in {<<>>, Declarations(j.by.visitor, j.l, j.a)}
  /\ j.at = "done" => [ok |-> j.ok, code |-> j.code] = Clean(j.by, OptionOf[b], j.l, j.a)
JobsOK == DOMAIN job = Compilations /\ \A b \in Compilations : OnItsWay(b, job[b])

FunctionInv == RepositoryOK /\ InterfacesOK /\ FragmentsOK /\ JobsOK
-----------------------------------------------------------------------------
LEMMA FreshFacts ==
  ASSUME RepositoryOK, NEW b \in Compilations
  PROVE  OnItsWay(b, Fresh) /\ OnItsWay(b, [Fresh EXCEPT !.at = "parse"])
PROOF
  <1>1. [f |-> "plain", body |-> "0", line |-> 1, base |-> ""] \in FirstLibs
    BY DEF FirstLibs, LibTexts
  <1>2. (CHOOSE l \in FirstLibs : TRUE) \in LibTexts
    BY <1>1 DEF FirstLibs
  <1> DEFINE first == CHOOSE l \in FirstLibs : TRUE
  <1> HIDE DEF first
  <1>3. Fresh = [at |-> "idle", by |-> compiler, l |-> first, a |-> app,
                 declarations |-> <<>>, code |-> <<>>, ok |-> FALSE]
    BY DEF Fresh, first
  <1>4. first \in LibTexts
    BY <1>2 DEF first
  <1> QED
    BY <1>3, <1>4 DEF OnItsWay, RepositoryOK, JobFields

LEMMA InitFunction == FunctionInit => FunctionInv
PROOF
  <1> SUFFICES ASSUME FunctionInit
               PROVE  FunctionInv
    OBVIOUS
  <1>1. RepositoryOK
    BY DEF FunctionInit, RepositoryOK, Compilers, CheckPasses, FirstLibs, AppTexts
  <1>2. InterfacesOK /\ FragmentsOK
    BY DEF FunctionInit, InterfacesOK, FragmentsOK
  <1>3. JobsOK
    BY <1>1, FreshFacts DEF FunctionInit, JobsOK
  <1> QED
    BY <1>1, <1>2, <1>3 DEF FunctionInv

\* The code of main depends on lib through what a caller can see and what it expands.
LEMMA MainDepends ==
  ASSUME NEW c, NEW option, NEW l \in LibTexts, NEW m \in LibTexts, NEW a, NEW stream,
         Facts(l) = Facts(m),
         (IF WantsInline(l) THEN <<l>> ELSE <<>>) = (IF WantsInline(m) THEN <<m>> ELSE <<>>)
  PROVE  Lower("main", c, option, l, a, stream) = Lower("main", c, option, m, a, stream)
BY DEF Lower

LEMMA FDepends ==
  ASSUME NEW c, NEW option, NEW l, NEW a, NEW e, NEW stream
  PROVE  Lower("f", c, option, l, a, stream) = Lower("f", c, option, l, e, stream)
BY DEF Lower

\* What is found for a function is what lowering it would give.
LEMMA WhatIsFound ==
  ASSUME FunctionInv, Gated, NEW b \in Compilations, NEW fn \in {"f", "main"}, job[b].at = fn,
         NEW s \in Found(b, fn)
  PROVE  /\ s.fragment = Lower(fn, job[b].by, OptionOf[b], job[b].l, job[b].a, Stream(job[b].code))
         /\ fn = "main" => job[b].a # "wrong"
PROOF
  <1> DEFINE j == job[b]
  <1>1. s \in slots[fn] /\ s.key = FragmentKey(b, fn) /\ j.declarations # <<>>
    BY DEF Found
  <1>2. /\ j.by \in Compilers /\ CheckPasses(j.by) /\ j.l \in LibTexts /\ j.a \in AppTexts
        /\ Parses(j.by, j.l) /\ j.declarations = Declarations(j.by.visitor, j.l, j.a)
    BY <1>1 DEF FunctionInv, JobsOK, OnItsWay
  <1>3. PICK l \in LibTexts, a \in AppTexts :
          LET c == s.key.context.by
          IN /\ c \in Compilers /\ (Gated => CheckPasses(c)) /\ Parses(c, l)
             /\ s.key.context.declarations = Declarations(c.visitor, l, a)
             /\ s.key.context.declarations # <<>>
             /\ s.key.context.contracts = IF WantsInline(l) THEN <<l>> ELSE <<>>
             /\ s.key.file = IF fn = "f" THEN <<l>> ELSE <<a>>
             /\ fn = "main" => a # "wrong"
             /\ s.fragment = Lower(fn, c, s.key.context.option, l, a, s.key.stream)
    BY <1>1 DEF FunctionInv, FragmentsOK, Filed
  <1>4. /\ s.key.context.by = j.by /\ s.key.context.option = OptionOf[b]
        /\ s.key.context.declarations = j.declarations
        /\ s.key.context.contracts = IF WantsInline(j.l) THEN <<j.l>> ELSE <<>>
        /\ s.key.file = IF fn = "f" THEN <<j.l>> ELSE <<j.a>>
        /\ s.key.stream = Stream(j.code)
    BY <1>1 DEF FragmentKey, Context, Contracts
  <1>5. CASE fn = "f"
    <2>1. l = j.l
      BY <1>3, <1>4, <1>5
    <2> QED
      BY <1>3, <1>4, <1>5, <2>1, FDepends
  <1>6. CASE fn = "main"
    <2>1. a = j.a
      BY <1>3, <1>4, <1>6
    <2>2. Facts(l) = Facts(j.l)
      BY <1>1, <1>2, <1>3, <1>4, DeclarationsAssumption
    <2>3. (IF WantsInline(l) THEN <<l>> ELSE <<>>) = (IF WantsInline(j.l) THEN <<j.l>> ELSE <<>>)
      BY <1>3, <1>4
    <2> HIDE DEF j
    <2>4. Lower("main", j.by, OptionOf[b], l, j.a, Stream(j.code))
            = Lower("main", j.by, OptionOf[b], j.l, j.a, Stream(j.code))
      BY <1>2, <2>2, <2>3, MainDepends
    <2> QED
      BY <1>3, <1>4, <1>6, <2>1, <2>4 DEF j
  <1> QED
    BY <1>5, <1>6

\* With f and main lowered, or main an error, a build has what a clean one has.
LEMMA BuildEnds ==
  ASSUME NEW c, NEW option, NEW l, NEW a, Parses(c, l)
  PROVE  /\ a = "wrong" => Clean(c, option, l, a) = [ok |-> FALSE, code |-> <<>>]
         /\ a # "wrong" =>
              LET f == Lower("f", c, option, l, a, <<>>)
              IN Clean(c, option, l, a)
                   = [ok |-> TRUE, code |-> <<f, Lower("main", c, option, l, a, Stream(<<f>>))>>]
BY DEF Clean, Failed

\* The other builds, the files and the sources are as a step of b finds them.
LEMMA OneJob ==
  ASSUME FunctionInv, NEW b \in Compilations, NEW record, job' = [job EXCEPT ![b] = record],
         OnItsWay(b, record), UNCHANGED <<repo, compiler, lib, app>>
  PROVE  RepositoryOK' /\ JobsOK'
PROOF
  <1>1. RepositoryOK'
    BY DEF FunctionInv, RepositoryOK
  <1>2. \A c \in Compilations \ {b} : job'[c] = job[c]
    BY DEF FunctionInv, JobsOK
  <1>3. DOMAIN job' = Compilations /\ job'[b] = record
    BY DEF FunctionInv, JobsOK
  <1>4. ASSUME NEW c \in Compilations
        PROVE  OnItsWay(c, job'[c])
    BY <1>2, <1>3 DEF FunctionInv, JobsOK
  <1> QED
    BY <1>1, <1>3, <1>4 DEF JobsOK, OnItsWay

LEMMA StartStep ==
  ASSUME FunctionInv, NEW b \in Compilations, Start(b)
  PROVE  FunctionInv'
PROOF
  <1>1. job' = [job EXCEPT ![b] = [Fresh EXCEPT !.at = "parse"]]
    BY DEF Start, Advance
  <1>2. OnItsWay(b, [Fresh EXCEPT !.at = "parse"])
    BY FreshFacts DEF FunctionInv
  <1>3. UNCHANGED <<repo, compiler, lib, app, slots, interfaces>>
    BY DEF Start, sources, cacheFiles
  <1>4. RepositoryOK' /\ JobsOK'
    BY <1>1, <1>2, <1>3, OneJob
  <1> QED
    BY <1>3, <1>4 DEF FunctionInv, InterfacesOK, FragmentsOK

LEMMA ParseLibStep ==
  ASSUME FunctionInv, NEW b \in Compilations, ParseLib(b)
  PROVE  FunctionInv'
PROOF
  <1> DEFINE j == job[b]
             key == InterfaceKeyOf(b, lib)
             computed == Declarations(j.by.visitor, lib, j.a)
             parsed(d) == [j EXCEPT !.l = lib, !.declarations = d]
  <1>1. OnItsWay(b, j) /\ j.at = "parse" /\ lib \in LibTexts
    BY DEF FunctionInv, JobsOK, RepositoryOK, ParseLib
  <1>2. UNCHANGED <<repo, compiler, lib, app, slots>>
    BY DEF ParseLib
  <1>3. key.by = j.by /\ key.files[1] = j.a /\ key.files[2] = lib
    BY DEF InterfaceKeyOf
  <1>4. \/ /\ ~ Parses(j.by, lib) /\ Advance(b, "done", parsed(<<>>)) /\ interfaces' = interfaces
        \/ /\ Parses(j.by, lib) /\ interfaces' = interfaces
           /\ \E e \in interfaces : e.key = key /\ Advance(b, "f", parsed(e.declarations))
        \/ /\ Parses(j.by, lib) /\ Advance(b, "f", parsed(computed))
           /\ \/ interfaces' = interfaces
              \/ /\ computed # <<>>
                 /\ interfaces' = interfaces \cup {[key |-> key, declarations |-> computed]}
    BY DEF ParseLib
  <1>5. InterfacesOK'
    <2>1. interfaces' \subseteq interfaces \/
            (computed # <<>> /\ interfaces' = interfaces \cup {[key |-> key, declarations |-> computed]})
      BY <1>4
    <2> HIDE DEF key
    <2> QED
      BY <1>3, <2>1 DEF FunctionInv, InterfacesOK
  <1>6. FragmentsOK'
    BY <1>2 DEF FunctionInv, FragmentsOK
  <1>7. \A d : /\ DOMAIN parsed(d) = JobFields /\ parsed(d).l = lib /\ parsed(d).declarations = d
               /\ parsed(d).at = "parse" /\ parsed(d).by = j.by /\ parsed(d).a = j.a
               /\ parsed(d).code = <<>> /\ parsed(d).ok = FALSE
    BY <1>1 DEF OnItsWay, JobFields
  <1> HIDE DEF key, computed, parsed
  <1>8. CASE ~ Parses(j.by, lib) /\ Advance(b, "done", parsed(<<>>))
    <2> DEFINE record == [parsed(<<>>) EXCEPT !.at = "done"]
    <2>1. /\ DOMAIN record = JobFields /\ record.l = lib /\ record.at = "done" /\ record.by = j.by
          /\ record.a = j.a /\ record.code = <<>> /\ record.ok = FALSE
      BY <1>7 DEF JobFields
    <2>2. job' = [job EXCEPT ![b] = record]
      BY <1>8 DEF Advance
    <2> HIDE DEF record, j
    <2>3. Clean(record.by, OptionOf[b], record.l, record.a) = [ok |-> FALSE, code |-> <<>>]
      BY <1>8, <2>1 DEF Clean, Failed
    <2>4. OnItsWay(b, record)
      BY <1>1, <2>1, <2>3 DEF OnItsWay
    <2>5. RepositoryOK' /\ JobsOK'
      BY <1>2, <2>2, <2>4, OneJob
    <2> QED
      BY <1>5, <1>6, <2>5 DEF FunctionInv
  <1>9. ASSUME Parses(j.by, lib), NEW d \in {<<>>, computed}, Advance(b, "f", parsed(d))
        PROVE  FunctionInv'
    <2> DEFINE record == [parsed(d) EXCEPT !.at = "f"]
    <2>1. /\ DOMAIN record = JobFields /\ record.l = lib /\ record.at = "f" /\ record.by = j.by
          /\ record.a = j.a /\ record.code = <<>> /\ record.ok = FALSE /\ record.declarations = d
      BY <1>7 DEF JobFields
    <2>2. job' = [job EXCEPT ![b] = record]
      BY <1>9 DEF Advance
    <2> HIDE DEF record, j
    <2>3. OnItsWay(b, record)
      BY <1>1, <1>9, <2>1 DEF OnItsWay, computed
    <2>4. RepositoryOK' /\ JobsOK'
      BY <1>2, <2>2, <2>3, OneJob
    <2> QED
      BY <1>5, <1>6, <2>4 DEF FunctionInv
  <1>10. \A e \in interfaces : e.key = key => e.declarations = computed
    BY <1>3 DEF FunctionInv, InterfacesOK, computed
  <1> QED
    BY <1>4, <1>8, <1>9, <1>10

LEMMA AppendToOne ==
  ASSUME NEW S, NEW x \in S, NEW y \in S
  PROVE  Append(<<x>>, y) = <<x, y>>
PROOF
  <1>1. <<x>> \in Seq(S) /\ Len(<<x>>) = 1 /\ <<x, y>> \in Seq(S) /\ Len(<<x, y>>) = 2
    OBVIOUS
  <1>2. Append(<<x>>, y) \in Seq(S) /\ Len(Append(<<x>>, y)) = 2
    BY <1>1
  <1>3. \A i \in 1 .. 2 : Append(<<x>>, y)[i] = <<x, y>>[i]
    <2>1. Append(<<x>>, y)[1] = x /\ Append(<<x>>, y)[2] = y
      BY <1>1
    <2> QED
      BY <2>1
  <1> DEFINE s == Append(<<x>>, y)
             t == <<x, y>>
  <1> HIDE DEF s, t
  <1>4. s \in Seq(S) /\ t \in Seq(S) /\ Len(s) = Len(t) /\ \A i \in 1 .. Len(s) : s[i] = t[i]
    BY <1>1, <1>2, <1>3 DEF s, t
  <1>5. s = t
    BY <1>4, SeqEqual
  <1> QED
    BY <1>5 DEF s, t

\* A function that was replayed or lowered: the next one follows.
LEMMA AttachStep ==
  ASSUME FunctionInv, NEW b \in Compilations, NEW fn \in {"f", "main"}, job[b].at = fn,
         fn = "main" => job[b].a # "wrong",
         Attach(b, fn, Lower(fn, job[b].by, OptionOf[b], job[b].l, job[b].a, Stream(job[b].code))),
         UNCHANGED <<repo, compiler, lib, app>>
  PROVE  RepositoryOK' /\ JobsOK'
PROOF
  <1> DEFINE j == job[b]
             fragment == Lower(fn, j.by, OptionOf[b], j.l, j.a, Stream(j.code))
             longer == [j EXCEPT !.code = Append(@, fragment), !.ok = fn = "main"]
             record == [longer EXCEPT !.at = After(fn)]
  <1>1. OnItsWay(b, j) /\ j.at = fn
    BY DEF FunctionInv, JobsOK
  <1>2. job' = [job EXCEPT ![b] = record]
    BY DEF Attach, Advance
  <1> HIDE DEF fragment, j
  <1>3. /\ DOMAIN longer = JobFields /\ longer.l = j.l /\ longer.by = j.by /\ longer.a = j.a
        /\ longer.declarations = j.declarations
        /\ longer.code = Append(j.code, fragment) /\ longer.ok = (fn = "main")
    BY <1>1 DEF OnItsWay, JobFields
  <1> HIDE DEF longer
  <1>4. /\ DOMAIN record = JobFields /\ record.l = j.l /\ record.by = j.by /\ record.a = j.a
        /\ record.declarations = j.declarations /\ record.at = After(fn)
        /\ record.code = Append(j.code, fragment) /\ record.ok = (fn = "main")
    BY <1>3 DEF JobFields
  <1> HIDE DEF record
  <1>5. CASE fn = "f"
    <2>1. j.code = <<>> /\ Stream(<<>>) = <<>>
      BY <1>1, <1>5 DEF OnItsWay, Stream
    <2>2. record.code = <<Lower("f", j.by, OptionOf[b], j.l, j.a, <<>>)>>
      BY <1>4, <1>5, <2>1 DEF fragment
    <2>3. OnItsWay(b, record)
      BY <1>1, <1>4, <1>5, <2>2 DEF OnItsWay, After
    <2> QED
      BY <1>2, <2>3, OneJob
  <1>6. CASE fn = "main"
    <2> DEFINE f == Lower("f", j.by, OptionOf[b], j.l, j.a, <<>>)
    <2>1. j.code = <<f>> /\ Parses(j.by, j.l)
      BY <1>1, <1>6 DEF OnItsWay
    <2>2. j.a # "wrong"
      BY <1>6 DEF j
    <2>3. Clean(j.by, OptionOf[b], j.l, j.a)
            = [ok |-> TRUE, code |-> <<f, Lower("main", j.by, OptionOf[b], j.l, j.a, Stream(<<f>>))>>]
      BY <2>1, <2>2, BuildEnds
    <2> HIDE DEF f
    <2>4. record.code = <<f, Lower("main", j.by, OptionOf[b], j.l, j.a, Stream(<<f>>))>>
      <3>1. fragment = Lower("main", j.by, OptionOf[b], j.l, j.a, Stream(<<f>>))
        BY <1>6, <2>1 DEF fragment
      <3>2. Append(<<f>>, fragment) = <<f, fragment>>
        <4>1. f \in {f, fragment} /\ fragment \in {f, fragment}
          OBVIOUS
        <4> QED
          BY <4>1, AppendToOne
      <3> QED
        BY <1>4, <2>1, <3>1, <3>2
    <2>5. OnItsWay(b, record)
      BY <1>1, <1>4, <1>6, <2>3, <2>4 DEF OnItsWay, After
    <2> QED
      BY <1>2, <2>5, OneJob
  <1> QED
    BY <1>5, <1>6

LEMMA DiagnoseStep ==
  ASSUME FunctionInv, NEW b \in Compilations, Diagnose(b)
  PROVE  FunctionInv'
PROOF
  <1> DEFINE j == job[b]
             record == [[j EXCEPT !.code = <<>>] EXCEPT !.at = "done"]
  <1>1. OnItsWay(b, j) /\ j.at = "main" /\ j.a = "wrong"
    BY DEF FunctionInv, JobsOK, Diagnose
  <1>2. /\ job' = [job EXCEPT ![b] = record]
        /\ UNCHANGED <<repo, compiler, lib, app, slots, interfaces>>
    BY DEF Diagnose, Advance, sources, cacheFiles
  <1>3. /\ DOMAIN record = JobFields /\ record.l = j.l /\ record.by = j.by /\ record.a = j.a
        /\ record.at = "done" /\ record.code = <<>> /\ record.ok = FALSE
    BY <1>1 DEF OnItsWay, JobFields
  <1>4. Clean(j.by, OptionOf[b], j.l, j.a) = [ok |-> FALSE, code |-> <<>>]
    BY <1>1, BuildEnds DEF OnItsWay
  <1> HIDE DEF j, record
  <1>5. OnItsWay(b, record)
    BY <1>1, <1>3, <1>4 DEF OnItsWay
  <1>6. RepositoryOK' /\ JobsOK'
    BY <1>2, <1>5, OneJob
  <1> QED
    BY <1>2, <1>6 DEF FunctionInv, InterfacesOK, FragmentsOK

LEMMA CompileStep ==
  ASSUME FunctionInv, NEW b \in Compilations, NEW fn \in {"f", "main"}, Compile(b, fn)
  PROVE  FunctionInv'
PROOF
  <1> DEFINE j == job[b]
             fragment == Lower(fn, j.by, OptionOf[b], j.l, j.a, Stream(j.code))
             entry == [key |-> FragmentKey(b, fn), fragment |-> fragment]
  <1>1. /\ j.at = fn /\ (fn = "main" => j.a # "wrong") /\ Attach(b, fn, fragment)
        /\ UNCHANGED <<repo, compiler, lib, app, interfaces>>
        /\ slots' = slots \/ (j.declarations # <<>> /\ slots' = [slots EXCEPT ![fn] = {entry}])
    BY DEF Compile
  <1>2. RepositoryOK' /\ JobsOK'
    BY <1>1, AttachStep
  <1>3. ASSUME j.declarations # <<>>
        PROVE  Filed(fn, entry)
    <2>1. /\ j.by \in Compilers /\ (Gated => CheckPasses(j.by)) /\ j.l \in LibTexts /\ j.a \in AppTexts
          /\ Parses(j.by, j.l) /\ j.declarations = Declarations(j.by.visitor, j.l, j.a)
      BY <1>1, <1>3 DEF FunctionInv, JobsOK, OnItsWay
    <2>2. /\ entry.key.context.by = j.by /\ entry.key.context.option = OptionOf[b]
          /\ entry.key.context.declarations = j.declarations
          /\ entry.key.context.contracts = IF WantsInline(j.l) THEN <<j.l>> ELSE <<>>
          /\ entry.key.file = IF fn = "f" THEN <<j.l>> ELSE <<j.a>>
          /\ entry.key.stream = Stream(j.code) /\ entry.fragment = fragment
      BY DEF FragmentKey, Context, Contracts
    <2> HIDE DEF entry, j
    <2> QED
      BY <1>1, <1>3, <2>1, <2>2 DEF Filed
  <1> HIDE DEF entry
  <1>4. FragmentsOK'
    BY <1>1, <1>3 DEF FunctionInv, FragmentsOK
  <1>5. InterfacesOK'
    BY <1>1 DEF FunctionInv, InterfacesOK
  <1> QED
    BY <1>2, <1>4, <1>5 DEF FunctionInv

LEMMA ReplayStep ==
  ASSUME FunctionInv, Gated, NEW b \in Compilations, NEW fn \in {"f", "main"}, Replay(b, fn)
  PROVE  FunctionInv'
PROOF
  <1>1. PICK s \in Found(b, fn) : Attach(b, fn, s.fragment)
    BY DEF Replay
  <1>2. job[b].at = fn /\ UNCHANGED <<repo, compiler, lib, app, slots, interfaces>>
    BY DEF Replay, sources, cacheFiles
  <1>3. RepositoryOK' /\ JobsOK'
    BY <1>1, <1>2, WhatIsFound, AttachStep
  <1> QED
    BY <1>2, <1>3 DEF FunctionInv, InterfacesOK, FragmentsOK

\* Whatever the sources, the compiler and the cache files go through, builds keep what they read.
LEMMA OthersStep ==
  ASSUME FunctionInv, EditLib \/ EditApp \/ Damage \/ ChangeParser \/ Regenerate \/ Install
  PROVE  FunctionInv'
PROOF
  <1>1. JobsOK'
    BY DEF FunctionInv, JobsOK, EditLib, EditApp, Damage, ChangeParser, Regenerate, Install, OnItsWay
  <1>2. RepositoryOK'
    BY DEF FunctionInv, RepositoryOK, EditLib, EditApp, Damage, ChangeParser, Regenerate, Install, Compilers
  <1>3. interfaces' \subseteq interfaces
    BY DEF EditLib, EditApp, Damage, ChangeParser, Regenerate, Install, cacheFiles
  <1>4. DOMAIN slots' = DOMAIN slots /\ \A fn \in {"f", "main"} : slots'[fn] \subseteq slots[fn]
    BY DEF FunctionInv, FragmentsOK, EditLib, EditApp, Damage, ChangeParser, Regenerate, Install, cacheFiles
  <1>5. InterfacesOK' /\ FragmentsOK'
    BY <1>3, <1>4 DEF FunctionInv, InterfacesOK, FragmentsOK
  <1> QED
    BY <1>1, <1>2, <1>5 DEF FunctionInv

\* The inductive invariant, with a compiler that is installed only when its visitor is current.
THEOREM FunctionInvariance == ASSUME Gated PROVE FunctionSpec => []FunctionInv
PROOF
  <1>1. FunctionInv /\ [FunctionNext]_functionVars => FunctionInv'
    <2> SUFFICES ASSUME FunctionInv, [FunctionNext]_functionVars PROVE FunctionInv'
      OBVIOUS
    <2>1. ASSUME NEW b \in Compilations, Compilation(b)
          PROVE  FunctionInv'
      BY <2>1, StartStep, ParseLibStep, DiagnoseStep, CompileStep, ReplayStep DEF Compilation
    <2>2. CASE UNCHANGED functionVars
      BY <2>2 DEF functionVars, FunctionInv, RepositoryOK, InterfacesOK, FragmentsOK, JobsOK
    <2> QED
      BY <2>1, <2>2, OthersStep DEF FunctionNext
  <1> QED
    BY InitFunction, <1>1, PTL DEF FunctionSpec

\* A build with the function cache yields what a clean build yields, and an error where that
\* is one.
THEOREM FunctionsAreClean == ASSUME Gated PROVE FunctionSpec => []OutputIsClean
PROOF
  <1>1. FunctionInv => OutputIsClean
    BY DEF FunctionInv, JobsOK, OnItsWay, OutputIsClean
  <1> QED
    BY FunctionInvariance, <1>1, PTL

\* The declarations of one build, and what it takes for them to stay right.
Sighted(j) ==
  /\ DOMAIN j = JobFields
  /\ j.declarations # <<>> => j.declarations = Declarations(j.by.visitor, j.l, j.a)
SightedInv ==
  InterfacesOK /\ DOMAIN job = Compilations /\ \A b \in Compilations : Sighted(job[b])

LEMMA SightedParse ==
  ASSUME SightedInv, NEW b \in Compilations, ParseLib(b)
  PROVE  SightedInv'
PROOF
  <1> DEFINE j == job[b]
             key == InterfaceKeyOf(b, lib)
             computed == Declarations(j.by.visitor, lib, j.a)
             parsed(d) == [j EXCEPT !.l = lib, !.declarations = d]
  <1>1. key.by = j.by /\ key.files[1] = j.a /\ key.files[2] = lib
    BY DEF InterfaceKeyOf
  <1>2. InterfacesOK'
    <2>1. interfaces' = interfaces \/
            (computed # <<>> /\ interfaces' = interfaces \cup {[key |-> key, declarations |-> computed]})
      BY DEF ParseLib
    <2>2. InterfacesOK
      BY DEF SightedInv
    <2> HIDE DEF key
    <2> QED
      BY <1>1, <2>1, <2>2 DEF InterfacesOK
  <1>3. PICK d \in {<<>>, computed}, to \in {"done", "f"} : Advance(b, to, parsed(d))
    <2>1. \A e \in interfaces : e.key = key => e.declarations = computed
      BY <1>1 DEF SightedInv, InterfacesOK
    <2>2. \/ Advance(b, "done", parsed(<<>>))
          \/ \E e \in interfaces : e.key = key /\ Advance(b, "f", parsed(e.declarations))
          \/ Advance(b, "f", parsed(computed))
      BY DEF ParseLib
    <2> QED
      BY <2>1, <2>2
  <1> DEFINE record == [parsed(d) EXCEPT !.at = to]
  <1>4. /\ DOMAIN record = JobFields /\ record.by = j.by /\ record.a = j.a
        /\ record.l = lib /\ record.declarations = d
    BY DEF SightedInv, Sighted, JobFields
  <1>5. job' = [job EXCEPT ![b] = record]
    BY <1>3 DEF Advance
  <1> HIDE DEF record, j
  <1>6. Sighted(record)
    BY <1>4 DEF Sighted
  <1> QED
    BY <1>2, <1>5, <1>6 DEF SightedInv, Sighted

LEMMA SightedCompile ==
  ASSUME SightedInv, NEW b \in Compilations,
         Diagnose(b) \/ \E fn \in {"f", "main"} : Replay(b, fn) \/ Compile(b, fn)
  PROVE  SightedInv'
PROOF
  <1> DEFINE j == job[b]
  <1>1. DOMAIN j = JobFields /\ DOMAIN job = Compilations
    BY DEF SightedInv, Sighted
  <1>2. PICK code, ok, to :
          job' = [job EXCEPT ![b] = [[j EXCEPT !.code = code, !.ok = ok] EXCEPT !.at = to]]
    <2>1. CASE Diagnose(b)
      <3>1. job' = [job EXCEPT ![b] = [[j EXCEPT !.code = <<>>] EXCEPT !.at = "done"]]
        BY <2>1 DEF Diagnose, Advance
      <3>2. [j EXCEPT !.code = <<>>] = [j EXCEPT !.code = <<>>, !.ok = j.ok]
        BY <1>1 DEF JobFields
      <3> QED
        BY <3>1, <3>2
    <2>2. CASE \E fn \in {"f", "main"} : Replay(b, fn) \/ Compile(b, fn)
      <3>1. PICK fn, fragment : Attach(b, fn, fragment)
        BY <2>2 DEF Replay, Compile
      <3> QED
        BY <3>1 DEF Attach, Advance
    <2> QED
      BY <2>1, <2>2
  <1> DEFINE record == [[j EXCEPT !.code = code, !.ok = ok] EXCEPT !.at = to]
  <1>3. /\ DOMAIN record = JobFields /\ record.l = j.l /\ record.by = j.by
        /\ record.a = j.a /\ record.declarations = j.declarations
    BY <1>1 DEF JobFields
  <1>4. interfaces' = interfaces
    BY DEF Diagnose, Replay, Compile, cacheFiles
  <1>5. Sighted(j)
    BY DEF SightedInv
  <1> HIDE DEF record, j
  <1>6. Sighted(record)
    BY <1>3, <1>5 DEF Sighted
  <1>7. job' = [job EXCEPT ![b] = record]
    BY <1>2 DEF record
  <1> QED
    BY <1>4, <1>6, <1>7 DEF SightedInv, Sighted, InterfacesOK

\* For any compilers, visitors and options, with the generator's check in force or not: what
\* a build finds in an interface file is what it would have computed.
THEOREM DeclarationsStayFresh == FunctionSpec => []DeclarationsAreFresh
PROOF
  <1>1. FunctionInit => SightedInv
    <2> SUFFICES ASSUME FunctionInit PROVE SightedInv
      OBVIOUS
    <2>1. \A b \in Compilations : job[b] = Fresh
      BY DEF FunctionInit
    <2>2. DOMAIN Fresh = JobFields /\ Fresh.declarations = <<>>
      BY DEF Fresh, JobFields
    <2>3. InterfacesOK /\ DOMAIN job = Compilations
      BY DEF FunctionInit, InterfacesOK
    <2> QED
      BY <2>1, <2>2, <2>3 DEF SightedInv, Sighted
  <1>2. SightedInv /\ [FunctionNext]_functionVars => SightedInv'
    <2> SUFFICES ASSUME SightedInv, [FunctionNext]_functionVars PROVE SightedInv'
      OBVIOUS
    <2>1. ASSUME NEW b \in Compilations, Start(b)
          PROVE  SightedInv'
      <3> DEFINE record == [Fresh EXCEPT !.at = "parse"]
      <3>1. DOMAIN record = JobFields /\ record.declarations = <<>>
        BY DEF Fresh, JobFields
      <3>2. job' = [job EXCEPT ![b] = record] /\ interfaces' = interfaces
        BY <2>1 DEF Start, Advance, cacheFiles
      <3> HIDE DEF record
      <3> QED
        BY <3>1, <3>2 DEF SightedInv, Sighted, InterfacesOK
    <2>2. ASSUME NEW b \in Compilations, Compilation(b)
          PROVE  SightedInv'
      BY <2>1, <2>2, SightedParse, SightedCompile DEF Compilation
    <2>3. CASE UNCHANGED job /\ interfaces' \subseteq interfaces
      BY <2>3 DEF SightedInv, InterfacesOK
    <2>4. CASE EditLib \/ EditApp \/ Damage \/ ChangeParser \/ Regenerate \/ Install
      BY <2>3, <2>4 DEF EditLib, EditApp, Damage, ChangeParser, Regenerate, Install, cacheFiles
    <2>5. CASE UNCHANGED functionVars
      BY <2>3, <2>5 DEF functionVars, cacheFiles
    <2> QED
      BY <2>2, <2>4, <2>5 DEF FunctionNext
  <1>3. SightedInv => DeclarationsAreFresh
    BY DEF SightedInv, Sighted, DeclarationsAreFresh
  <1> QED
    BY <1>1, <1>2, <1>3, PTL DEF FunctionSpec
-----------------------------------------------------------------------------
(***************************************************************************)
(* RuntimeBlob.  emit_runtime walks along the labels, so what it writes is *)
(* proved by induction on how many it has passed; that the legacy range    *)
(* stays rests on LineOK, which stale patches keep because the container   *)
(* itself says where the range is.                                         *)
(***************************************************************************)

\* Induction on the natural numbers, for a set of them in place of a predicate.
LEMMA InductionOverNat ==
  ASSUME NEW T, 0 \in T, \A n \in Nat : n \in T => n + 1 \in T
  PROVE  Nat \subseteq T
PROOF
  <1> DEFINE less == OpToRel(<, Nat)
             rest == Nat \ T
  <1>1. IsWellFoundedOn(less, Nat)
    BY NatLessThanWellFounded
  <1>2. \A x, y \in Nat : <<x, y>> \in less <=> x < y
    BY DEF OpToRel
  <1> HIDE DEF less
  <1> SUFFICES ASSUME rest # {} PROVE FALSE
    OBVIOUS
  <1>3. PICK x \in rest : \A y \in rest : <<y, x>> \notin less
    BY <1>1, WFMin, rest \subseteq Nat
  <1>4. x # 0 /\ x - 1 \in Nat /\ x - 1 < x /\ x = (x - 1) + 1
    OBVIOUS
  <1>5. x - 1 \notin rest
    BY <1>2, <1>3, <1>4
  <1> QED
    BY <1>4, <1>5

\* What emit_runtime has written at each label is defined by what it had at the last.
LEMMA MarkedStepByStep ==
  ASSUME NEW s, Len(s.declared) \in Nat
  PROVE  Marked(s) = [i \in 0 .. Len(s.declared) |->
                        IF i = 0 THEN AtStart
                        ELSE Mark(Marked(s)[i - 1], Blob(s), s.declared[i],
                                  s.line[s.declared[i]])]
PROOF
  <1> DEFINE next(p, i) == Mark(p, Blob(s), s.declared[i], s.line[s.declared[i]])
             upTo(f, n) == f = [i \in 0 .. n |-> IF i = 0 THEN AtStart ELSE next(f[i - 1], i)]
             T == {n \in Nat : \E f : upTo(f, n)}
  <1> HIDE DEF next
  <1>1. 0 \in T
    <2>1. upTo([i \in 0 .. 0 |-> AtStart], 0)
      OBVIOUS
    <2> QED BY <2>1
  <1>2. ASSUME NEW n \in Nat, n \in T PROVE n + 1 \in T
    <2>1. PICK f : upTo(f, n)
      BY <1>2
    <2> DEFINE g == [i \in 0 .. n + 1 |-> IF i = n + 1 THEN next(f[n], n + 1) ELSE f[i]]
    <2>2. ASSUME NEW i \in 0 .. n + 1
          PROVE  g[i] = IF i = 0 THEN AtStart ELSE next(g[i - 1], i)
      <3>1. CASE i = n + 1
        BY <3>1
      <3>2. CASE i \in 0 .. n /\ i # 0
        <4>1. i - 1 \in 0 .. n /\ g[i - 1] = f[i - 1] /\ g[i] = f[i]
          BY <3>2
        <4> QED BY <2>1, <3>2, <4>1
      <3>3. CASE i = 0
        BY <2>1, <3>3
      <3> QED BY <3>1, <3>2, <3>3
    <2>3. upTo(g, n + 1)
      BY <2>2, Zenon
    <2>4. \E h : upTo(h, n + 1)
      <3> HIDE DEF g, upTo
      <3> QED BY <2>3
    <2> QED BY <2>4
  <1>3. \E f : upTo(f, Len(s.declared))
    BY <1>1, <1>2, InductionOverNat
  <1>4. Marked(s) = CHOOSE f : upTo(f, Len(s.declared))
    BY DEF Marked, next
  <1>5. upTo(Marked(s), Len(s.declared))
    BY <1>3, <1>4, Zenon
  <1> QED BY <1>5 DEF next
-----------------------------------------------------------------------------
(* Bytes.                                                                  *)

LEMMA SliceIs ==
  ASSUME NEW S, NEW s \in Seq(S), NEW from \in Nat, NEW to \in from .. Len(s)
  PROVE  /\ Slice(s, from, to) \in Seq(S)
         /\ Len(Slice(s, from, to)) = to - from
         /\ \A i \in 1 .. to - from : Slice(s, from, to)[i] = s[from + i]
PROOF
  <1>1. \A i \in from + 1 .. to : s[i] \in S
    OBVIOUS
  <1>2. \A i \in 1 .. to - (from + 1) + 1 : SubSeq(s, from + 1, to)[i] = s[from + 1 + i - 1]
    BY <1>1, SubSeqProperties, from + 1 \in Int, to \in Int
  <1>3. /\ SubSeq(s, from + 1, to) \in Seq(S)
        /\ Len(SubSeq(s, from + 1, to)) = IF from + 1 <= to THEN to - (from + 1) + 1 ELSE 0
    BY <1>1, SubSeqProperties, from + 1 \in Int, to \in Int
  <1> QED
    BY <1>2, <1>3 DEF Slice

LEMMA SlicesJoin ==
  ASSUME NEW S, NEW s \in Seq(S), NEW from \in Nat, NEW mid \in from .. Len(s),
         NEW to \in mid .. Len(s)
  PROVE  Slice(s, from, mid) \o Slice(s, mid, to) = Slice(s, from, to)
PROOF
  <1>1. /\ from + 1 \in 1 .. Len(s) + 1 /\ mid \in (from + 1) - 1 .. Len(s)
        /\ to \in mid .. Len(s)
    OBVIOUS
  <1> QED
    BY <1>1, ConcatAdjacentSubSeq DEF Slice

LEMMA SliceOfSlice ==
  ASSUME NEW S, NEW s \in Seq(S), NEW n \in 0 .. Len(s), NEW from \in Nat, NEW to \in from .. n
  PROVE  Slice(Slice(s, 0, n), from, to) = Slice(s, from, to)
PROOF
  <1>1. Len(s) \in Nat
    OBVIOUS
  <1>2. PICK p \in Seq(S) : /\ p = Slice(s, 0, n) /\ Len(p) = n - 0
                           /\ \A i \in 1 .. n - 0 : p[i] = s[0 + i]
    <2>1. /\ Slice(s, 0, n) \in Seq(S) /\ Len(Slice(s, 0, n)) = n - 0
          /\ \A i \in 1 .. n - 0 : Slice(s, 0, n)[i] = s[0 + i]
      BY SliceIs, 0 \in Nat
    <2> QED BY <2>1
  <1>3. PICK q \in Seq(S) : /\ q = Slice(p, from, to) /\ Len(q) = to - from
                           /\ \A i \in 1 .. to - from : q[i] = p[from + i]
    <2>1. /\ Slice(p, from, to) \in Seq(S) /\ Len(Slice(p, from, to)) = to - from
          /\ \A i \in 1 .. to - from : Slice(p, from, to)[i] = p[from + i]
      BY <1>2, SliceIs, to \in from .. Len(p)
    <2> QED BY <2>1
  <1>4. PICK r \in Seq(S) : /\ r = Slice(s, from, to) /\ Len(r) = to - from
                           /\ \A i \in 1 .. to - from : r[i] = s[from + i]
    <2>1. /\ Slice(s, from, to) \in Seq(S) /\ Len(Slice(s, from, to)) = to - from
          /\ \A i \in 1 .. to - from : Slice(s, from, to)[i] = s[from + i]
      BY <1>1, SliceIs, to \in from .. Len(s)
    <2> QED BY <2>1
  <1>5. ASSUME NEW i \in 1 .. Len(q) PROVE q[i] = r[i]
    BY <1>2, <1>3, <1>4
  <1> QED
    BY <1>2, <1>3, <1>4, <1>5, SeqEqual

LEMMA SliceWhole == ASSUME NEW S, NEW s \in Seq(S) PROVE Slice(s, 0, Len(s)) = s
  BY SubSeqFull DEF Slice

LEMMA SlicesOfThree ==
  ASSUME NEW S, NEW p \in Seq(S), NEW m \in Seq(S), NEW t \in Seq(S)
  PROVE  /\ p \o m \o t \in Seq(S)
         /\ Len(p \o m \o t) = Len(p) + Len(m) + Len(t)
         /\ Slice(p \o m \o t, 0, Len(p)) = p
         /\ Slice(p \o m \o t, Len(p), Len(p) + Len(m)) = m
         /\ Slice(p \o m \o t, Len(p) + Len(m), Len(p \o m \o t)) = t
PROOF
  <1> DEFINE w == p \o m \o t
  <1>1. Len(p) \in Nat /\ Len(m) \in Nat /\ Len(t) \in Nat
    OBVIOUS
  <1>2. /\ p \o m \in Seq(S) /\ Len(p \o m) = Len(p) + Len(m)
        /\ \A i \in 1 .. Len(p) + Len(m) : (p \o m)[i] = IF i <= Len(p) THEN p[i] ELSE m[i - Len(p)]
    BY ConcatProperties
  <1>3. /\ w \in Seq(S) /\ Len(w) = Len(p) + Len(m) + Len(t)
        /\ \A i \in 1 .. Len(p) + Len(m) + Len(t) :
             w[i] = IF i <= Len(p) + Len(m) THEN (p \o m)[i] ELSE t[i - (Len(p) + Len(m))]
    BY <1>2, ConcatProperties
  <1> HIDE DEF w
  <1>4. Slice(w, 0, Len(p)) = p
    <2> DEFINE v == Slice(w, 0, Len(p))
    <2>1. 0 \in Nat /\ Len(p) \in 0 .. Len(w)
      BY <1>1, <1>3
    <2>2. /\ v \in Seq(S) /\ Len(v) = Len(p) - 0
          /\ \A i \in 1 .. Len(p) - 0 : v[i] = w[0 + i]
      BY <1>3, <2>1, SliceIs
    <2> HIDE DEF v
    <2>3. ASSUME NEW i \in 1 .. Len(p) PROVE v[i] = p[i]
      <3>1. i \in 1 .. Len(p) + Len(m) /\ i \in 1 .. Len(p) + Len(m) + Len(t)
        BY <1>1
      <3>2. w[i] = (p \o m)[i] /\ (p \o m)[i] = p[i]
        BY <1>1, <1>2, <1>3, <3>1
      <3> QED BY <1>1, <2>2, <3>2
    <2>4. v = p
      BY <1>1, <2>2, <2>3, SeqEqual
    <2> QED BY <2>4 DEF v
  <1>5. Slice(w, Len(p), Len(p) + Len(m)) = m
    <2> DEFINE n == Len(p) + Len(m)
               v == Slice(w, Len(p), n)
    <2>1. n \in Len(p) .. Len(w) /\ n - Len(p) = Len(m)
      BY <1>1, <1>3
    <2> HIDE DEF n
    <2>2. /\ v \in Seq(S) /\ Len(v) = n - Len(p)
          /\ \A i \in 1 .. n - Len(p) : v[i] = w[Len(p) + i]
      BY <1>1, <1>3, <2>1, SliceIs
    <2>3. \A i \in 1 .. Len(m) : w[Len(p) + i] = m[i]
      BY <1>1, <1>2, <1>3
    <2> HIDE DEF v
    <2>4. Len(v) = Len(m) /\ \A i \in 1 .. Len(v) : v[i] = m[i]
      BY <1>1, <2>1, <2>2, <2>3
    <2>5. v = m
      BY <2>2, <2>4, SeqEqual
    <2> QED BY <2>5 DEF v, n
  <1>6. Slice(w, Len(p) + Len(m), Len(w)) = t
    <2> DEFINE n == Len(p) + Len(m)
               v == Slice(w, n, Len(w))
    <2>1. /\ v \in Seq(S) /\ Len(v) = Len(w) - n
          /\ \A i \in 1 .. Len(w) - n : v[i] = w[n + i]
      BY <1>1, <1>3, SliceIs, n \in Nat, Len(w) \in n .. Len(w)
    <2>2. ASSUME NEW i \in 1 .. Len(t) PROVE w[n + i] = t[i]
      <3>1. n + i \in 1 .. Len(p) + Len(m) + Len(t) /\ ~ (n + i <= n) /\ (n + i) - n = i
        BY <1>1
      <3> QED BY <1>3, <3>1
    <2> HIDE DEF v
    <2>3. Len(v) = Len(t) /\ \A i \in 1 .. Len(v) : v[i] = t[i]
      BY <1>1, <1>3, <2>1, <2>2
    <2>4. v = t
      BY <2>1, <2>3, SeqEqual
    <2> QED BY <2>4 DEF v
  <1> QED
    BY <1>3, <1>4, <1>5, <1>6 DEF w

\* A word written over bytes leaves those around it; writing over it again undoes it.
LEMMA OverwriteIs ==
  ASSUME NEW S, NEW s \in Seq(S), NEW w \in Seq(S), NEW pos \in Nat, pos + Len(w) <= Len(s)
  PROVE  /\ Overwrite(s, pos, w) \in Seq(S)
         /\ Len(Overwrite(s, pos, w)) = Len(s)
         /\ Slice(Overwrite(s, pos, w), 0, pos) = Slice(s, 0, pos)
         /\ Slice(Overwrite(s, pos, w), pos + Len(w), Len(s)) = Slice(s, pos + Len(w), Len(s))
PROOF
  <1>1. Len(w) \in Nat /\ Len(s) \in Nat
    OBVIOUS
  <1>2. PICK p \in Seq(S) : p = Slice(s, 0, pos) /\ Len(p) = pos
    BY <1>1, SliceIs, 0 \in Nat, pos \in 0 .. Len(s)
  <1>3. PICK t \in Seq(S) : /\ t = Slice(s, pos + Len(w), Len(s))
                            /\ Len(t) = Len(s) - (pos + Len(w))
    <2>1. pos + Len(w) \in Nat /\ Len(s) \in pos + Len(w) .. Len(s)
      BY <1>1
    <2>2. /\ Slice(s, pos + Len(w), Len(s)) \in Seq(S)
          /\ Len(Slice(s, pos + Len(w), Len(s))) = Len(s) - (pos + Len(w))
      BY <2>1, SliceIs
    <2> QED BY <2>2
  <1>4. PICK o : o = Overwrite(s, pos, w)
    OBVIOUS
  <1>5. o = p \o w \o t
    BY <1>2, <1>3, <1>4 DEF Overwrite
  <1>6. /\ o \in Seq(S) /\ Len(o) = Len(p) + Len(w) + Len(t)
        /\ Slice(o, 0, Len(p)) = p /\ Slice(o, Len(p) + Len(w), Len(o)) = t
    BY <1>5, SlicesOfThree
  <1>7. Len(p) + Len(w) = pos + Len(w) /\ Len(p) + Len(w) + Len(t) = Len(s)
    <2>1. Len(p) = pos /\ Len(t) = Len(s) - (pos + Len(w))
      BY <1>2, <1>3
    <2>2. PICK x \in Nat, y \in Nat : x = Len(w) /\ y = Len(s)
      BY <1>1
    <2>3. pos + x + (y - (pos + x)) = y
      BY <2>2
    <2> QED
      BY <2>1, <2>2, <2>3
  <1>8. Len(o) = Len(s)
    BY <1>6, <1>7
  <1> QED
    BY <1>2, <1>3, <1>4, <1>6, <1>7, <1>8, Zenon

LEMMA OverwriteTwice ==
  ASSUME NEW S, NEW s \in Seq(S), NEW w \in Seq(S), NEW v \in Seq(S), NEW pos \in Nat,
         Len(v) = Len(w), pos + Len(w) <= Len(s)
  PROVE  Overwrite(Overwrite(s, pos, w), pos, v) = Overwrite(s, pos, v)
PROOF
  <1> DEFINE o == Overwrite(s, pos, w)
  <1>1. /\ Len(o) = Len(s) /\ Slice(o, 0, pos) = Slice(s, 0, pos)
        /\ Slice(o, pos + Len(w), Len(s)) = Slice(s, pos + Len(w), Len(s))
    BY OverwriteIs
  <1> HIDE DEF o
  <1>2. Overwrite(o, pos, v) = Overwrite(s, pos, v)
    BY <1>1 DEF Overwrite
  <1> QED BY <1>2 DEF o

LEMMA OverwriteBySame ==
  ASSUME NEW S, NEW s \in Seq(S), NEW pos \in Nat, NEW n \in Nat, pos + n <= Len(s)
  PROVE  Overwrite(s, pos, Slice(s, pos, pos + n)) = s
PROOF
  <1>1. PICK to \in Nat : to = pos + n
    OBVIOUS
  <1>2. /\ 0 \in Nat /\ pos \in 0 .. Len(s) /\ to \in pos .. Len(s) /\ to \in 0 .. Len(s)
        /\ Len(s) \in to .. Len(s) /\ to - pos = n
    BY <1>1
  <1>3. Len(Slice(s, pos, to)) = n
    BY <1>2, SliceIs
  <1>4. Slice(s, 0, pos) \o Slice(s, pos, to) = Slice(s, 0, to)
    BY <1>2, SlicesJoin
  <1>5. Slice(s, 0, to) \o Slice(s, to, Len(s)) = Slice(s, 0, Len(s))
    BY <1>2, SlicesJoin
  <1> QED
    BY <1>1, <1>3, <1>4, <1>5, SliceWhole DEF Overwrite
-----------------------------------------------------------------------------
(* The file and the patches.                                               *)

LegacyBytes == Legacy(Committed)
LineOK(line) ==
  /\ Literals \cup Offsets \subseteq DOMAIN line
  /\ line.raw \in Seq(Nat)
  /\ line.LEGACY_START \in Nat
  /\ line.LEGACY_END = line.LEGACY_START + Len(LegacyBytes)
  /\ StandsOnce(LegacyBytes, line.raw, line.LEGACY_START)

\* In the file, and before and after every patch, the three values that name the legacy
\* range belong together and name the same bytes.
BlobInv ==
  /\ asm \in Assemblers
  /\ DOMAIN source = {"declared", "line"}
  /\ source.declared \in Seq(RangeOf(source.declared))
  /\ RangeOf(source.declared) \subseteq DOMAIN source.line
  /\ LineOK(source.line)
  /\ \A p \in patches : LineOK(p.before) /\ LineOK(p.after) /\ DOMAIN p.after = DOMAIN p.before

LEMMA LegacyBytesIs ==
  /\ LegacyBytes \in Seq(Nat)
  /\ Committed.line.LEGACY_END = Committed.line.LEGACY_START + Len(LegacyBytes)
PROOF
  <1>1. /\ LegacyBytes \in Seq(Nat)
        /\ Len(LegacyBytes) = Committed.line.LEGACY_END - Committed.line.LEGACY_START
    <2>1. /\ Committed.line.raw \in Seq(Nat) /\ Committed.line.LEGACY_START \in Nat
          /\ Committed.line.LEGACY_END \in
               Committed.line.LEGACY_START .. Len(Committed.line.raw)
      BY CommittedAssumption
    <2> QED BY <2>1, SliceIs DEF LegacyBytes, Legacy
  <1> QED
    BY <1>1, CommittedAssumption

LEMMA LegacyIs ==
  ASSUME NEW s, LineOK(s.line)
  PROVE  Legacy(s) = LegacyBytes
PROOF
  <1> DEFINE start == s.line.LEGACY_START
  <1>1. Len(LegacyBytes) \in Nat /\ Len(s.line.raw) \in Nat
    BY LegacyBytesIs DEF LineOK
  <1>2. start \in 0 .. Len(s.line.raw) - Len(LegacyBytes)
    BY <1>1 DEF LineOK, StandsOnce
  <1>3. Slice(s.line.raw, start, start + Len(LegacyBytes)) = LegacyBytes
    BY <1>2 DEF LineOK, StandsOnce
  <1> QED
    BY <1>3 DEF LineOK, Legacy

\* The container says where the legacy range is.
LEMMA StartIsUnique ==
  ASSUME NEW x, NEW y, LineOK(x), LineOK(y), x.raw = y.raw
  PROVE  x.LEGACY_START = y.LEGACY_START /\ x.LEGACY_END = y.LEGACY_END
PROOF
  <1>1. Len(LegacyBytes) \in Nat /\ Len(x.raw) \in Nat
    BY LegacyBytesIs DEF LineOK
  <1>2. x.LEGACY_START \in 0 .. Len(x.raw) - Len(LegacyBytes)
    BY <1>1 DEF LineOK, StandsOnce
  <1>3. Slice(x.raw, x.LEGACY_START, x.LEGACY_START + Len(LegacyBytes)) = LegacyBytes
    BY <1>2 DEF LineOK, StandsOnce
  <1>4. x.LEGACY_START = y.LEGACY_START
    BY <1>2, <1>3 DEF LineOK, StandsOnce
  <1> QED
    BY <1>4 DEF LineOK

LEMMA EmitterIs ==
  ASSUME NEW a \in Assemblers
  PROVE  /\ a.code \in Seq(Nat) /\ Len(a.code) \in Nat
         /\ a.labels \in [DOMAIN a.labels -> 0 .. Len(a.code)]
         /\ DOMAIN a.labels \cap (Literals \cup Offsets) = {}
         /\ ThreadStart(a) \in 0 .. Len(a.code) /\ ThreadEnd(a) \in ThreadStart(a) .. Len(a.code)
         /\ ExitOffset(a) \in Nat /\ ExitOffset(a) + 2 <= ThreadStart(a)
         /\ Slice(a.code, ExitOffset(a), ExitOffset(a) + 2) = <<231, 0>>
         /\ StandsOnce(LegacyBytes, Container(a, LegacyBytes), ThreadStart(a))
PROOF
  <1>1. IsEmitter(a) /\ StandsOnce(LegacyBytes, Container(a, LegacyBytes), ThreadStart(a))
    BY EmitterAssumption DEF LegacyBytes
  <1>2. a.code \in Seq(Nat) /\ Len(a.code) \in Nat
    BY <1>1 DEF IsEmitter
  <1>3. Len(ExitGroup) = 2
    BY DEF ExitGroup
  <1>4. \A l \in {"ExitProcess", "CreateThread", "fmod"} : a.labels[l] \in 0 .. Len(a.code)
    BY <1>1 DEF IsEmitter
  <1>5. ThreadStart(a) \in 0 .. Len(a.code) /\ ThreadEnd(a) \in 0 .. Len(a.code)
        /\ ExitOffset(a) \in Nat
    BY <1>2, <1>4 DEF ThreadStart, ThreadEnd, ExitOffset
  <1>6. ExitOffset(a) + 2 <= ThreadStart(a) /\ ThreadStart(a) <= ThreadEnd(a)
    BY <1>1, <1>3 DEF IsEmitter
  <1>7. Slice(a.code, ExitOffset(a), ExitOffset(a) + 2) = <<231, 0>>
    BY <1>1, <1>3 DEF IsEmitter, ExitGroup
  <1>8. /\ a.labels \in [DOMAIN a.labels -> 0 .. Len(a.code)]
        /\ DOMAIN a.labels \cap (Literals \cup Offsets) = {}
    BY <1>1 DEF IsEmitter
  <1> QED
    BY <1>1, <1>2, <1>5, <1>6, <1>7, <1>8

LEMMA ContainerIs ==
  ASSUME NEW a \in Assemblers
  PROVE  LET raw == Container(a, LegacyBytes)
             start == ThreadStart(a)
             to == start + Len(LegacyBytes)
         IN /\ raw \in Seq(Nat)
            /\ Slice(raw, 0, start) =
                 Overwrite(Slice(a.code, 0, start), ExitOffset(a), ExitThread)
            /\ Slice(raw, to, Len(raw)) = Slice(a.code, ThreadEnd(a), Len(a.code))
PROOF
  <1>1. /\ Slice(a.code, 0, ThreadStart(a)) \in Seq(Nat)
        /\ Len(Slice(a.code, 0, ThreadStart(a))) = ThreadStart(a)
    BY EmitterIs, SliceIs, 0 \in Nat
  <1>2. ExitThread \in Seq(Nat) /\ Len(ExitThread) = 2
    BY DEF ExitThread
  <1>3. PICK p \in Seq(Nat) :
          /\ p = Overwrite(Slice(a.code, 0, ThreadStart(a)), ExitOffset(a), ExitThread)
          /\ Len(p) = ThreadStart(a)
    <2>1. PICK q \in Seq(Nat) :
            q = Slice(a.code, 0, ThreadStart(a)) /\ Len(q) = ThreadStart(a)
      BY <1>1
    <2>2. ExitOffset(a) \in Nat /\ ExitOffset(a) + Len(ExitThread) <= Len(q)
      BY <1>2, <2>1, EmitterIs
    <2>3. /\ Overwrite(q, ExitOffset(a), ExitThread) \in Seq(Nat)
          /\ Len(Overwrite(q, ExitOffset(a), ExitThread)) = Len(q)
      BY <1>2, <2>2, OverwriteIs
    <2> QED
      BY <2>1, <2>3
  <1>4. PICK t \in Seq(Nat) : t = Slice(a.code, ThreadEnd(a), Len(a.code))
    <2>1. /\ a.code \in Seq(Nat) /\ ThreadEnd(a) \in Nat
          /\ Len(a.code) \in ThreadEnd(a) .. Len(a.code)
      BY EmitterIs
    <2> QED BY <2>1, SliceIs
  <1>5. PICK m \in Seq(Nat) : m = LegacyBytes
    BY LegacyBytesIs
  <1>6. PICK raw : raw = Container(a, LegacyBytes)
    OBVIOUS
  <1>7. raw = p \o m \o t
    BY <1>3, <1>4, <1>5, <1>6 DEF Container
  <1>8. /\ raw \in Seq(Nat) /\ Slice(raw, 0, Len(p)) = p
        /\ Slice(raw, Len(p) + Len(m), Len(raw)) = t
    BY <1>7, SlicesOfThree
  <1> QED
    BY <1>3, <1>4, <1>5, <1>6, <1>8, Zenon

LEMMA ExpectedIs ==
  ASSUME NEW a \in Assemblers, NEW s, DOMAIN s = {"declared", "line"}, LineOK(s.line),
         NEW e, e = Expected(a, s)
  PROVE  /\ DOMAIN e = DOMAIN s /\ e.declared = s.declared
         /\ DOMAIN e.line = DOMAIN s.line
         /\ e.line.raw = Container(a, LegacyBytes)
         /\ e.line.pthread = Slice(a.code, ThreadStart(a), ThreadEnd(a))
         /\ e.line.EXIT_OFFSET = ExitOffset(a)
         /\ e.line.LEGACY_START = ThreadStart(a)
         /\ e.line.LEGACY_END = ThreadStart(a) + Len(LegacyBytes)
         /\ e.line.CREATE_PATCH = a.patches[1].pos
         /\ e.line.WAIT_PATCH = a.patches[2].pos
         /\ e.line.CLOSE_PATCH = a.patches[3].pos
         /\ \A l \in DOMAIN s.line \ (Literals \cup Offsets) : e.line[l] = a.labels[l]
         /\ LineOK(e.line)
         /\ Expected(a, e) = e
PROOF
  <1> DEFINE new == Refreshed(a, s)
             line == [l \in DOMAIN s.line |-> IF l \in DOMAIN new THEN new[l] ELSE a.labels[l]]
  <1>1. DOMAIN new = Literals \cup Offsets
    BY DEF Refreshed, Literals, Offsets
  <1>2. /\ new.raw = Container(a, LegacyBytes)
        /\ new.pthread = Slice(a.code, ThreadStart(a), ThreadEnd(a))
        /\ new.EXIT_OFFSET = ExitOffset(a)
        /\ new.LEGACY_START = ThreadStart(a)
        /\ new.LEGACY_END = ThreadStart(a) + Len(LegacyBytes)
        /\ new.CREATE_PATCH = a.patches[1].pos
        /\ new.WAIT_PATCH = a.patches[2].pos
        /\ new.CLOSE_PATCH = a.patches[3].pos
    BY LegacyIs DEF Refreshed, LegacyEnd
  <1>3. e = [s EXCEPT !.line = line]
    BY DEF Expected
  <1> HIDE DEF new
  <1>4. e.line = line /\ e.declared = s.declared /\ DOMAIN e = DOMAIN s
    BY <1>3
  <1>5. \A l \in Literals \cup Offsets : l \in DOMAIN s.line
    BY DEF LineOK
  <1>6. /\ DOMAIN e.line = DOMAIN s.line
        /\ \A l \in Literals \cup Offsets : e.line[l] = new[l]
        /\ \A l \in DOMAIN s.line \ (Literals \cup Offsets) : e.line[l] = a.labels[l]
    BY <1>1, <1>4, <1>5
  <1>7. LineOK(e.line)
    <2>1. Container(a, LegacyBytes) \in Seq(Nat)
      BY ContainerIs
    <2>2. /\ e.line.raw = Container(a, LegacyBytes) /\ e.line.LEGACY_START = ThreadStart(a)
          /\ e.line.LEGACY_END = ThreadStart(a) + Len(LegacyBytes)
      BY <1>2, <1>6 DEF Literals, Offsets
    <2>3. ThreadStart(a) \in Nat /\ StandsOnce(LegacyBytes, Container(a, LegacyBytes), ThreadStart(a))
      BY EmitterIs
    <2> QED
      BY <1>5, <1>6, <2>1, <2>2, <2>3 DEF LineOK
  <1>8. Expected(a, e) = e
    <2>1. Refreshed(a, e) = new
      BY <1>7, LegacyIs DEF Refreshed, LegacyEnd, new
    <2>2. Expected(a, e) = [e EXCEPT !.line = line]
      BY <1>6, <2>1 DEF Expected
    <2> QED
      BY <1>3, <1>4, <2>2
  <1> QED
    BY <1>2, <1>4, <1>6, <1>7, <1>8 DEF Literals, Offsets

\* The container, patched, and the thread literal make up the emitted code again.
LEMMA BlobIsCode ==
  ASSUME NEW a \in Assemblers, NEW s, DOMAIN s = {"declared", "line"}, LineOK(s.line)
  PROVE  Blob(Expected(a, s)) = a.code
PROOF
  <1>1. PICK e : e = Expected(a, s)
    OBVIOUS
  <1>2. /\ e.line.raw = Container(a, LegacyBytes)
        /\ e.line.pthread = Slice(a.code, ThreadStart(a), ThreadEnd(a))
        /\ e.line.EXIT_OFFSET = ExitOffset(a)
        /\ e.line.LEGACY_START = ThreadStart(a)
        /\ e.line.LEGACY_END = ThreadStart(a) + Len(LegacyBytes)
    BY <1>1, ExpectedIs
  <1>3. PICK p \in Seq(Nat) : p = Slice(a.code, 0, ThreadStart(a)) /\ Len(p) = ThreadStart(a)
    <2>1. /\ Slice(a.code, 0, ThreadStart(a)) \in Seq(Nat)
          /\ Len(Slice(a.code, 0, ThreadStart(a))) = ThreadStart(a)
      BY EmitterIs, SliceIs, 0 \in Nat
    <2> QED BY <2>1
  <1>4. PICK x \in Nat : /\ x = ExitOffset(a) /\ x + 2 <= Len(p)
                        /\ Slice(a.code, x, x + 2) = <<231, 0>>
    BY <1>3, EmitterIs
  <1>5. Overwrite(Overwrite(p, x, ExitThread), x, ExitGroup) = Overwrite(p, x, ExitGroup)
    <2>1. /\ ExitThread \in Seq(Nat) /\ ExitGroup \in Seq(Nat)
          /\ Len(ExitThread) = 2 /\ Len(ExitGroup) = 2
      BY DEF ExitThread, ExitGroup
    <2>2. x + Len(ExitThread) <= Len(p)
      BY <1>4, <2>1
    <2>3. \A w, v \in Seq(Nat) : Len(v) = Len(w) /\ x + Len(w) <= Len(p) =>
            Overwrite(Overwrite(p, x, w), x, v) = Overwrite(p, x, v)
      BY OverwriteTwice
    <2> QED BY <2>1, <2>2, <2>3
  <1>6. Overwrite(p, x, ExitGroup) = p
    <2>1. Slice(p, x, x + 2) = ExitGroup
      <3>1. Slice(p, x, x + 2) = Slice(a.code, x, x + 2)
        <4>1. a.code \in Seq(Nat) /\ ThreadStart(a) \in 0 .. Len(a.code)
          BY EmitterIs
        <4>2. x + 2 \in x .. ThreadStart(a)
          BY <1>3, <1>4, <4>1
        <4> QED BY <1>3, <4>1, <4>2, SliceOfSlice
      <3> QED BY <1>4, <3>1 DEF ExitGroup
    <2>2. Overwrite(p, x, Slice(p, x, x + 2)) = p
      BY <1>4, OverwriteBySame, 2 \in Nat
    <2> QED BY <2>1, <2>2
  <1>7. /\ Slice(e.line.raw, 0, e.line.LEGACY_START) = Overwrite(p, x, ExitThread)
        /\ Slice(e.line.raw, e.line.LEGACY_END, Len(e.line.raw)) =
             Slice(a.code, ThreadEnd(a), Len(a.code))
    BY <1>2, <1>3, <1>4, ContainerIs
  <1>8. Blob(e) = p \o Slice(a.code, ThreadStart(a), ThreadEnd(a))
                   \o Slice(a.code, ThreadEnd(a), Len(a.code))
    BY <1>2, <1>4, <1>5, <1>6, <1>7 DEF Blob
  <1>9. p \o Slice(a.code, ThreadStart(a), ThreadEnd(a)) = Slice(a.code, 0, ThreadEnd(a))
    BY <1>3, SlicesJoin, EmitterIs, 0 \in Nat
  <1>10. Slice(a.code, 0, ThreadEnd(a)) \o Slice(a.code, ThreadEnd(a), Len(a.code)) = a.code
    <2>1. /\ a.code \in Seq(Nat) /\ ThreadEnd(a) \in 0 .. Len(a.code)
          /\ Len(a.code) \in ThreadEnd(a) .. Len(a.code)
      BY EmitterIs
    <2>2. Slice(a.code, 0, ThreadEnd(a)) \o Slice(a.code, ThreadEnd(a), Len(a.code))
            = Slice(a.code, 0, Len(a.code))
      BY <2>1, SlicesJoin, 0 \in Nat
    <2> QED BY <2>1, <2>2, SliceWhole
  <1> QED
    BY <1>1, <1>8, <1>9, <1>10

\* At every label emit_runtime has written what precedes it and nothing else.
LEMMA MarkedIs ==
  ASSUME NEW a \in Assemblers, NEW s, DOMAIN s = {"declared", "line"}, LineOK(s.line),
         s.declared \in Seq(DOMAIN a.labels), DOMAIN a.labels \subseteq DOMAIN s.line,
         InEmissionOrder(a, s.declared),
         NEW e, e = Expected(a, s),
         NEW n \in 0 .. Len(s.declared)
  PROVE  LET offset == IF n = 0 THEN 0 ELSE a.labels[s.declared[n]]
         IN Marked(e)[n] =
              [out |-> Slice(a.code, 0, offset), cursor |-> offset,
               marks |-> {<<s.declared[j], a.labels[s.declared[j]]>> : j \in 1 .. n}]
PROOF
  <1> DEFINE d == s.declared
             c(i) == IF i = 0 THEN 0 ELSE a.labels[d[i]]
             upTo(i) == [out |-> Slice(a.code, 0, c(i)), cursor |-> c(i),
                       marks |-> {<<d[j], a.labels[d[j]]>> : j \in 1 .. i}]
             T == {i \in Nat : i <= Len(d) => Marked(e)[i] = upTo(i)}
  <1>1. Len(d) \in Nat /\ \A i \in 1 .. Len(d) : d[i] \in DOMAIN a.labels
    OBVIOUS
  <1>2. e.declared = d /\ \A i \in 1 .. Len(d) : e.line[d[i]] = a.labels[d[i]]
    <2>1. e.declared = d /\ \A l \in DOMAIN s.line \ (Literals \cup Offsets) : e.line[l] = a.labels[l]
      BY ExpectedIs
    <2>2. DOMAIN a.labels \cap (Literals \cup Offsets) = {}
      BY EmitterIs
    <2> QED BY <1>1, <2>1, <2>2
  <1>3. \A i \in 0 .. Len(d) : c(i) \in 0 .. Len(a.code)
    BY <1>1, EmitterIs
  <1>4. Marked(e) = [i \in 0 .. Len(d) |->
                       IF i = 0 THEN AtStart
                       ELSE Mark(Marked(e)[i - 1], Blob(e), d[i], e.line[d[i]])]
    BY <1>1, <1>2, MarkedStepByStep
  <1>5. Blob(e) = a.code
    BY BlobIsCode
  <1>6. 0 \in T
    <2>1. Marked(e)[0] = AtStart
      BY <1>1, <1>4
    <2>2. Slice(a.code, 0, 0) = <<>>
      BY SubSeqEmpty DEF Slice
    <2>3. {<<d[j], a.labels[d[j]]>> : j \in 1 .. 0} = {}
      OBVIOUS
    <2> QED BY <2>1, <2>2, <2>3 DEF AtStart
  <1>7. ASSUME NEW i \in Nat, i \in T PROVE i + 1 \in T
    <2> SUFFICES ASSUME i + 1 <= Len(d) PROVE Marked(e)[i + 1] = upTo(i + 1)
      OBVIOUS
    <2>1. i \in 0 .. Len(d) /\ i + 1 \in 0 .. Len(d) /\ i + 1 \in 1 .. Len(d) /\ i + 1 # 0
          /\ (i + 1) - 1 = i
      BY <1>1
    <2>2. Marked(e)[i] = upTo(i)
      BY <1>7, <2>1
    <2>3. Marked(e)[i + 1] = Mark(upTo(i), a.code, d[i + 1], c(i + 1))
      BY <1>2, <1>4, <1>5, <2>1, <2>2
    <2>4. c(i) \in 0 .. Len(a.code) /\ c(i + 1) \in c(i) .. Len(a.code)
      <3>1. CASE i = 0
        BY <1>3, <2>1, <3>1, EmitterIs
      <3>2. CASE i # 0
        <4>1. c(i) <= c(i + 1)
          BY <2>1, <3>2 DEF InEmissionOrder
        <4>2. c(i) \in 0 .. Len(a.code) /\ c(i + 1) \in 0 .. Len(a.code) /\ Len(a.code) \in Nat
          BY <1>3, <2>1, EmitterIs
        <4> HIDE DEF c
        <4> QED BY <4>1, <4>2
      <3> QED BY <3>1, <3>2
    <2> HIDE DEF c
    <2>5. Slice(a.code, 0, c(i)) \o Slice(a.code, c(i), c(i + 1)) = Slice(a.code, 0, c(i + 1))
      BY <2>4, SlicesJoin, EmitterIs, 0 \in Nat
    <2>6. Len(Slice(a.code, 0, c(i + 1))) = c(i + 1)
      <3>1. a.code \in Seq(Nat) /\ Len(a.code) \in Nat
        BY EmitterIs
      <3>2. c(i + 1) \in 0 .. Len(a.code)
        <4>1. \A p, q, l \in Int : p \in 0 .. l /\ q \in p .. l => q \in 0 .. l
          OBVIOUS
        <4> QED BY <2>4, <3>1, <4>1
      <3>3. \A k \in 0 .. Len(a.code) : Len(Slice(a.code, 0, k)) = k
        BY <3>1, SliceIs, 0 \in Nat
      <3> QED BY <3>2, <3>3
    <2>7. upTo(i).marks \cup {<<d[i + 1], c(i + 1)>>} = upTo(i + 1).marks
      <3>1. c(i + 1) = a.labels[d[i + 1]]
        BY <2>1 DEF c
      <3>2. 1 .. i + 1 = (1 .. i) \cup {i + 1}
        OBVIOUS
      <3> QED BY <3>1, <3>2
    <2> QED BY <2>3, <2>5, <2>6, <2>7 DEF Mark
  <1>8. n \in T
    <2>1. n \in Nat
      BY <1>1
    <2> HIDE DEF T
    <2> QED BY <1>6, <1>7, <2>1, InductionOverNat
  <1> QED BY <1>1, <1>8

LEMMA LinkedIsAssembled ==
  ASSUME NEW a \in Assemblers, NEW s, DOMAIN s = {"declared", "line"}, LineOK(s.line),
         s.declared \in Seq(RangeOf(s.declared)), RangeOf(s.declared) \subseteq DOMAIN s.line,
         Comparable(a, s)
  PROVE  Linked(Expected(a, s)) = Assembled(a)
PROOF
  <1> DEFINE d == s.declared
             n == Len(d)
             cursor == IF n = 0 THEN 0 ELSE a.labels[d[n]]
  <1>1. PICK e : e = Expected(a, s)
    OBVIOUS
  <1>2. RangeOf(d) = DOMAIN a.labels /\ InEmissionOrder(a, d) /\ AssemblerFits(a)
    BY DEF Comparable, InventoryAgrees
  <1>3. n \in Nat /\ DOMAIN d = 1 .. n
    OBVIOUS
  <1>4. Marked(e)[n] = [out |-> Slice(a.code, 0, cursor), cursor |-> cursor,
                        marks |-> {<<d[j], a.labels[d[j]]>> : j \in 1 .. n}]
    <2>1. d \in Seq(DOMAIN a.labels) /\ DOMAIN a.labels \subseteq DOMAIN s.line
      BY <1>2
    <2> QED BY <1>1, <1>2, <1>3, <2>1, MarkedIs
  <1>5. e.declared = d /\ Blob(e) = a.code
    BY <1>1, ExpectedIs, BlobIsCode
  <1>6. cursor \in 0 .. Len(a.code)
    <2>1. CASE n = 0
      BY <2>1, EmitterIs
    <2>2. CASE n # 0
      <3>1. d[n] \in DOMAIN a.labels
        BY <1>2, <1>3, <2>2 DEF RangeOf
      <3> QED BY <2>2, <3>1, EmitterIs
    <2> QED BY <2>1, <2>2
  <1>7. Linked(e).code = a.code
    <2>1. Linked(e).code = Slice(a.code, 0, cursor) \o Slice(a.code, cursor, Len(a.code))
      <3>1. /\ Marked(e)[Len(e.declared)].out = Slice(a.code, 0, cursor)
            /\ Marked(e)[Len(e.declared)].cursor = cursor
        BY <1>4, <1>5
      <3> HIDE DEF cursor
      <3> QED BY <1>5, <3>1 DEF Linked
    <2>2. a.code \in Seq(Nat) /\ Len(a.code) \in cursor .. Len(a.code)
      BY <1>6, EmitterIs
    <2> HIDE DEF cursor
    <2>3. Slice(a.code, 0, cursor) \o Slice(a.code, cursor, Len(a.code)) = Slice(a.code, 0, Len(a.code))
      BY <1>6, <2>2, SlicesJoin, 0 \in Nat
    <2> QED BY <2>1, <2>2, <2>3, SliceWhole
  <1>8. Linked(e).labels = {<<l, a.labels[l]>> : l \in DOMAIN a.labels}
    <2>1. Linked(e).labels = {<<d[j], a.labels[d[j]]>> : j \in 1 .. n}
      BY <1>4, <1>5 DEF Linked
    <2>2. DOMAIN a.labels = {d[j] : j \in 1 .. n}
      BY <1>2, <1>3 DEF RangeOf
    <2> QED BY <2>1, <2>2
  <1>9. Linked(e).patches = [i \in DOMAIN a.patches |-> a.patches[i].pos]
    <2>1. e.line.CREATE_PATCH = a.patches[1].pos /\ e.line.WAIT_PATCH = a.patches[2].pos
          /\ e.line.CLOSE_PATCH = a.patches[3].pos
      BY <1>1, ExpectedIs
    <2>2. DOMAIN a.patches = 1 .. 3
      BY <1>2 DEF AssemblerFits, Relocations
    <2>3. Linked(e).patches = <<a.patches[1].pos, a.patches[2].pos, a.patches[3].pos>>
      BY <2>1 DEF Linked
    <2> QED BY <2>2, <2>3
  <1>10. /\ DOMAIN Linked(e) = {"code", "labels", "patches"}
         /\ Linked(e) = [code |-> Linked(e).code, labels |-> Linked(e).labels,
                         patches |-> Linked(e).patches]
    BY DEF Linked
  <1> QED
    BY <1>1, <1>7, <1>8, <1>9, <1>10 DEF Assembled
-----------------------------------------------------------------------------
(* The steps.                                                              *)

LEMMA BlobStarts == BlobInit => BlobInv
PROOF
  <1> SUFFICES ASSUME BlobInit PROVE BlobInv
    OBVIOUS
  <1>1. LineOK(Committed.line)
    BY CommittedAssumption, LegacyBytesIs DEF LineOK, LegacyBytes
  <1> QED
    BY <1>1, CommittedAssumption DEF BlobInit, BlobInv

LEMMA DeclareStep == BlobInv /\ DeclareLabels => BlobInv'
PROOF
  <1> SUFFICES ASSUME BlobInv, DeclareLabels PROVE BlobInv'
    OBVIOUS
  <1> DEFINE labels == DOMAIN asm.labels
             new == Refreshed(asm, source)
  <1>1. IsFiniteSet(labels) /\ Cardinality(labels) \in Nat
    BY EmitterAssumption, FS_CardinalityType DEF BlobInv, IsEmitter
  <1>2. DOMAIN new = Literals \cup Offsets
    BY DEF Refreshed, Literals, Offsets
  <1> HIDE DEF new
  <1>3. PICK order \in [1 .. Cardinality(labels) -> labels] :
          /\ RangeOf(order) = labels
          /\ source' = [declared |-> order,
                        line |-> [l \in DOMAIN new \cup labels |->
                                    IF l \in DOMAIN source.line THEN source.line[l] ELSE 0]]
    BY DEF DeclareLabels, new
  <1>4. order \in Seq(labels)
    BY <1>1
  <1>5. /\ DOMAIN source'.line = Literals \cup Offsets \cup labels
        /\ \A l \in Literals \cup Offsets : source'.line[l] = source.line[l]
    BY <1>2, <1>3 DEF BlobInv, LineOK
  <1>6. LineOK(source'.line)
    BY <1>5 DEF BlobInv, LineOK, Literals, Offsets
  <1> QED
    BY <1>3, <1>4, <1>5, <1>6 DEF BlobInv, DeclareLabels

LEMMA PrintStep == BlobInv /\ PrintPatch => BlobInv'
PROOF
  <1> SUFFICES ASSUME BlobInv, PrintPatch PROVE BlobInv'
    OBVIOUS
  <1>1. PICK e : e = Expected(asm, source)
    OBVIOUS
  <1>2. LineOK(e.line) /\ DOMAIN e.line = DOMAIN source.line
    BY <1>1, ExpectedIs DEF BlobInv
  <1>3. patches' = patches \cup {[before |-> source.line, after |-> e.line]}
    BY <1>1 DEF PrintPatch
  <1>4. \A p \in patches' : LineOK(p.before) /\ LineOK(p.after) /\ DOMAIN p.after = DOMAIN p.before
    BY <1>2, <1>3 DEF BlobInv
  <1> QED
    BY <1>4 DEF BlobInv, PrintPatch

\* A patch that changes the container fits only the container it was made for, and the
\* container says where the range is; one that does not leaves the range alone.
LEMMA ApplyStep == BlobInv /\ ApplyPatch => BlobInv'
PROOF
  <1> SUFFICES ASSUME BlobInv, ApplyPatch PROVE BlobInv'
    OBVIOUS
  <1> DEFINE now == source.line
  <1>1. PICK p \in patches :
          /\ \A l \in Touched(p) : l \in DOMAIN now /\ now[l] = p.before[l]
          /\ source' = [source EXCEPT !.line =
                          [l \in DOMAIN now |-> IF l \in Touched(p) THEN p.after[l] ELSE now[l]]]
          /\ patches' = patches \ {p} /\ UNCHANGED asm
    BY DEF ApplyPatch
  <1>2. LineOK(p.before) /\ LineOK(p.after) /\ LineOK(now)
    BY DEF BlobInv
  <1>3. PICK new : new = source'.line
    OBVIOUS
  <1>4. /\ DOMAIN source' = DOMAIN source /\ source'.declared = source.declared
        /\ new = [l \in DOMAIN now |-> IF l \in Touched(p) THEN p.after[l] ELSE now[l]]
    BY <1>1, <1>3 DEF BlobInv
  <1>5. \A l \in Literals \cup Offsets :
          /\ p.before[l] # p.after[l] => now[l] = p.before[l]
          /\ new[l] = IF p.before[l] # p.after[l] THEN p.after[l] ELSE now[l]
    BY <1>1, <1>2, <1>4 DEF Touched, LineOK
  <1>6. \A l \in {"raw", "LEGACY_START", "LEGACY_END"} :
          /\ p.before[l] # p.after[l] => now[l] = p.before[l]
          /\ new[l] = IF p.before[l] # p.after[l] THEN p.after[l] ELSE now[l]
    BY <1>5 DEF Literals, Offsets
  <1>7. \/ /\ new.raw = p.after.raw /\ new.LEGACY_START = p.after.LEGACY_START
           /\ new.LEGACY_END = p.after.LEGACY_END
        \/ /\ new.raw = now.raw /\ new.LEGACY_START = now.LEGACY_START
           /\ new.LEGACY_END = now.LEGACY_END
    <2>1. CASE p.before.raw = p.after.raw
      <3>1. /\ p.before.LEGACY_START = p.after.LEGACY_START
            /\ p.before.LEGACY_END = p.after.LEGACY_END
        BY <1>2, <2>1, StartIsUnique
      <3> QED BY <1>6, <2>1, <3>1
    <2>2. CASE p.before.raw # p.after.raw
      <3>1. now.raw = p.before.raw /\ new.raw = p.after.raw
        BY <1>6, <2>2
      <3>2. /\ now.LEGACY_START = p.before.LEGACY_START
            /\ now.LEGACY_END = p.before.LEGACY_END
        BY <1>2, <3>1, StartIsUnique
      <3> QED BY <1>6, <3>1, <3>2
    <2> QED BY <2>1, <2>2
  <1>8. LineOK(new)
    BY <1>2, <1>4, <1>7 DEF LineOK
  <1> QED
    BY <1>1, <1>3, <1>4, <1>8 DEF BlobInv

THEOREM BlobInvariance == BlobSpec => []BlobInv
PROOF
  <1>1. BlobInv /\ [BlobNext]_blobVars => BlobInv'
    <2> SUFFICES ASSUME BlobInv, [BlobNext]_blobVars PROVE BlobInv'
      OBVIOUS
    <2>1. CASE Develop
      BY <2>1 DEF Develop, BlobInv
    <2>2. CASE UNCHANGED blobVars
      BY <2>2 DEF blobVars, BlobInv
    <2> QED
      BY <2>1, <2>2, DeclareStep, PrintStep, ApplyStep DEF BlobNext
  <1> QED
    BY BlobStarts, <1>1, PTL DEF BlobSpec

\* CheckedEmitsTheSame for every emitter that lays its thunks out as described, any number
\* and order of labels, and any file and patches a sequence of refreshes leads to.
THEOREM BlobIsFaithful == BlobSpec => []CheckedEmitsTheSame
PROOF
  <1>1. BlobInv => CheckedEmitsTheSame
    <2> SUFFICES ASSUME BlobInv, Comparable(asm, source),
                        NEW fresh, fresh = Expected(asm, source)
                 PROVE  CheckOk(asm, fresh) /\ Linked(fresh) = Assembled(asm)
      BY DEF CheckedEmitsTheSame
    <2>1. fresh.declared = source.declared /\ Expected(asm, fresh) = fresh
      BY ExpectedIs DEF BlobInv
    <2>2. Comparable(asm, fresh)
      BY <2>1 DEF Comparable, InventoryAgrees
    <2>3. Linked(fresh) = Assembled(asm)
      BY LinkedIsAssembled DEF BlobInv
    <2> QED
      BY <2>1, <2>2, <2>3 DEF CheckOk
  <1> QED
    BY BlobInvariance, <1>1, PTL

\* LegacyKept for any number of refreshes printed and not yet applied.
THEOREM LegacyStays == BlobSpec => LegacyKept
PROOF
  <1>1. BlobInv /\ BlobInv' => Legacy(source') = Legacy(source)
    BY LegacyIs DEF BlobInv
  <1> QED
    BY BlobInvariance, <1>1, PTL DEF BlobSpec, LegacyKept
=============================================================================
