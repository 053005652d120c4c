--------------------------- MODULE ReleasePackage ---------------------------
(***************************************************************************)
(* scripts/package_binary.py: a process checks a compiler executable,      *)
(* collects it with the standard library, the native bridge and the        *)
(* documents in a temporary directory, writes a manifest, packs the        *)
(* directory into an archive and writes the archive's SHA-256 next to it.  *)
(* Meanwhile the executable may be rebuilt, the bridge rebuilt, the        *)
(* working tree edited and the release tag moved; the process may fail or  *)
(* be killed anywhere, and is then simply started again.                   *)
(*                                                                         *)
(* This is one of the two platforms; they share nothing they write.  A     *)
(* digest is the thing it is the digest of.  The temporary directory has a *)
(* fresh name: what a killed process leaves of it is never read.           *)
(***************************************************************************)
EXTENDS Naturals

CONSTANTS
    Platform,    \* the platform that is packaged
    Platforms,   \* those an executable can be for
    Builds,      \* contents an executable or a bridge can have
    Trees,       \* states of the working tree
    Releasable,  \* those that have every document the release needs
    Revisions,   \* commits the release tag can name
    None,        \* no such file, no such tag
    MaxChanges   \* bound: changes of what the script reads

Executables == [made : Platforms, build : Builds]

\* The temporary directory and the manifest in it, as far as they are filled; a digest.
Manifests == [revision : Revisions, exe : Executables, bridge : Builds \cup {None}]
Packages ==
  [revision : Revisions, exe : Executables \cup {None}, std : Trees \cup {None},
   bridge : Builds \cup {None}, docs : Trees \cup {None}, manifest : Manifests \cup {None}]
Sidecars == [content : Packages, whole : BOOLEAN]

ASSUME PlatformAssumption == Platform \in Platforms
ASSUME NoneAssumption == None \notin Builds \cup Trees \cup Revisions \cup Sidecars
ASSUME ReleasableAssumption == Releasable \subseteq Trees

VARIABLES
    binary, bridge, tree, tag, \* what the script reads
    step,     \* what the process does next, or "idle"
    package,  \* the temporary directory and what the process noted
    archive,  \* its contents, whether all was written, and (ghost) the inputs that
              \* changed while they were collected
    sidecar,  \* the digest in the .sha256 file
    broken,   \* the last attempt died with the archive open
    changed,  \* inputs changed since the process began (ghost)
    changes   \* how many changes there were (bound)

inputs == <<binary, bridge, tree, tag, changed, changes>>
outputs == <<archive, sidecar, broken>>
releaseVars == <<step, package, inputs, outputs>>

ReleaseInit ==
  /\ binary \in Executables /\ bridge = None
  /\ tree \in Trees /\ tag = None
  /\ step = "idle" /\ package = None
  /\ archive = None /\ sidecar = None /\ broken = FALSE
  /\ changed = {} /\ changes = 0
-----------------------------------------------------------------------------
(* The process, in the order of the script.                                *)

Sha256(a) == [content |-> a.content, whole |-> a.whole]
Add(part, value) == package' = [package EXCEPT ![part] = value]

\* An exception: the temporary directory is removed, nothing else is undone.
Fail == step' = "idle" /\ package' = None

\* The executable is for the platform and the release is tagged, or it stops here.
CheckInputs ==
  /\ step = "idle" /\ binary.made = Platform /\ tag # None
  /\ step' = "executable" /\ changed' = {}
  /\ package' = [revision |-> tag, exe |-> None, std |-> None, bridge |-> None,
                 docs |-> None, manifest |-> None]
  /\ UNCHANGED <<binary, bridge, tree, tag, changes, outputs>>

CopyExecutable ==
  /\ step = "executable" /\ step' = "library" /\ Add("exe", binary)
  /\ UNCHANGED <<inputs, outputs>>

CopyLibrary ==
  /\ step = "library" /\ step' = "bridge" /\ Add("std", tree)
  /\ UNCHANGED <<inputs, outputs>>

CopyBridge ==
  /\ step = "bridge"
  /\ IF bridge = None THEN Fail ELSE step' = "documents" /\ Add("bridge", bridge)
  /\ UNCHANGED <<inputs, outputs>>

CopyDocuments ==
  /\ step = "documents"
  /\ IF tree \notin Releasable THEN Fail ELSE step' = "manifest" /\ Add("docs", tree)
  /\ UNCHANGED <<inputs, outputs>>

\* Mutant of Manifest: the bridge is hashed where it was built, too.
ManifestOfBuildTree == [revision |-> package.revision, exe |-> binary, bridge |-> bridge]

\* The executable is hashed where it was built, the bridge where it was copied to.
Manifest == [revision |-> package.revision, exe |-> binary, bridge |-> package.bridge]

WriteManifest ==
  /\ step = "manifest" /\ step' = "licenses" /\ Add("manifest", Manifest)
  /\ UNCHANGED <<inputs, outputs>>

\* The archive of an earlier run is overwritten in place.
Opened == archive' = [content |-> package, whole |-> FALSE, despite |-> changed]

\* Files named on the command line; one of them may be missing.
AddLicenses ==
  /\ step = "licenses"
  /\ Fail \/ (step' = "archive" /\ UNCHANGED package)
  /\ UNCHANGED <<inputs, outputs>>

OpenArchive ==
  /\ step = "archive" /\ step' = "pack" /\ Opened
  /\ UNCHANGED <<package, inputs, sidecar, broken>>

\* The archive is closed and the temporary directory removed.
Pack ==
  /\ step = "pack" /\ step' = "digest" /\ package' = None
  /\ archive' = [archive EXCEPT !.whole = TRUE]
  /\ UNCHANGED <<inputs, sidecar, broken>>

\* Mutant of WriteSidecar: the digest may be taken before the archive is closed.
SidecarInsideWith ==
  /\ step \in {"pack", "digest"} /\ step' = IF step = "pack" THEN "pack" ELSE "idle"
  /\ sidecar' = Sha256(archive) /\ broken' = FALSE
  /\ UNCHANGED <<package, inputs, archive>>

WriteSidecar ==
  /\ step = "digest" /\ step' = "idle"
  /\ sidecar' = Sha256(archive) /\ broken' = FALSE
  /\ UNCHANGED <<package, inputs, archive>>

\* A full disk, a kill, a power failure.
Die ==
  /\ step # "idle" /\ Fail
  /\ broken' = (broken \/ step \in {"pack", "digest"})
  /\ UNCHANGED <<inputs, archive, sidecar>>

Packager ==
  \/ CheckInputs \/ CopyExecutable \/ CopyLibrary \/ CopyBridge \/ CopyDocuments
  \/ WriteManifest \/ AddLicenses \/ OpenArchive \/ Pack \/ WriteSidecar \/ Die
-----------------------------------------------------------------------------
(* Everybody else.                                                         *)

Change(what) ==
  /\ changed' = changed \cup {what}
  /\ changes < MaxChanges /\ changes' = changes + 1
  /\ UNCHANGED <<step, package, outputs>>

RebuildCompiler ==
  /\ Change("binary") /\ UNCHANGED <<bridge, tree, tag>>
  /\ binary' \in Executables \ {binary}
RebuildBridge ==
  /\ Change("bridge") /\ UNCHANGED <<binary, tree, tag>>
  /\ bridge' \in (Builds \cup {None}) \ {bridge}
EditTree ==
  /\ Change("tree") /\ UNCHANGED <<binary, bridge, tag>>
  /\ tree' \in Trees \ {tree}
MoveTag ==
  /\ Change("tag") /\ UNCHANGED <<binary, bridge, tree>>
  /\ tag' \in Revisions \ {tag}

ReleaseNext == Packager \/ RebuildCompiler \/ RebuildBridge \/ EditTree \/ MoveTag
ReleaseSpec == ReleaseInit /\ [][ReleaseNext]_releaseVars
-----------------------------------------------------------------------------
(* Properties.                                                             *)

\* A sidecar that matches the archive next to it vouches for a whole archive: no
\* sequence of attempts, however they end, leaves a truncated one that verifies.  And
\* an attempt that stops at a check (no tag, a wrong executable, a missing bridge,
\* document or license) leaves the pair of an earlier release matching: they differ
\* only while an attempt writes them, or once one died doing so.
SidecarVouches ==
  archive # None =>
    IF sidecar # None /\ sidecar = Sha256(archive) THEN archive.whole
    ELSE step \in {"pack", "digest"} \/ broken

\* What a whole archive says of itself is true: the bridge is the one its manifest
\* hashes whatever was rebuilt meanwhile; the executable is, and is one for the
\* platform, and library and documents are of one state of the tree, unless just that
\* input changed while it was being collected.
ReleaseIsCoherent ==
  archive # None /\ archive.whole =>
    LET c == archive.content
        stable(what) == what \notin archive.despite
    IN /\ c.manifest.bridge = c.bridge /\ c.bridge # None
       /\ stable("binary") => c.manifest.exe = c.exe /\ c.exe.made = Platform
       /\ stable("tree") => c.std = c.docs
       /\ c.docs \in Releasable
=============================================================================
