---------------------------- MODULE ProjectCache ----------------------------
(***************************************************************************)
(* The artifact and object caches of a project build: fingerprint,         *)
(* restore, restoreObjects, store and storeObjects of mlc/project.ml, in   *)
(* the order in which run_cli of mlc/compiler.ml calls them.  Builders     *)
(* share one cache directory: the pointer build.state and one artifact and *)
(* one object directory per digest.  Sources are edited while builds run;  *)
(* a builder can be killed anywhere, and a power failure loses files that  *)
(* were written but not flushed.                                           *)
(*                                                                         *)
(* Restriction: two builders differ in their arguments and in the output   *)
(* they write, so a digest is one builder's, which begins a build when its *)
(* last one ended, and so is a directory of temporary objects.  The code   *)
(* does not see to that.  Two processes with one output share those and the*)
(* output file; with equal arguments they share the digest's objects, too, *)
(* which storeObjects deletes without looking again: such a process may    *)
(* clear a set the other has just completed.  Nothing here is said of them.*)
(*                                                                         *)
(* A digest is what it is computed from, and the identity of a file its    *)
(* content.  An object stands for all its bytes: what it was compiled from.*)
(* The files with a process id in their name are in the builder's state.   *)
(***************************************************************************)
EXTENDS Naturals, Sequences, FiniteSets

CONSTANTS
    Builders,    \* sets of arguments: each builds again and again, once at a time
    Inputs,      \* what fingerprint reads, in that order: sources and compiler
    Versions,    \* contents of an input
    Objects,     \* the .mlo files of a program
    Absent,      \* no such file
    Lost,        \* the content of a file a power failure took
    MaxBuilds,   \* bound: builds begun
    MaxEvents    \* bound: edits and power cuts

ASSUME ProjectAssumption == IsFiniteSet(Objects) /\ Absent # Lost

VARIABLES
    disk,      \* the inputs
    pointer,   \* build.state: a digest and the image it stands for
    artifacts, \* per digest: an image
    objects,   \* per digest: the .mlo files of its directory
    markers,   \* per digest: objects.state, what those files should be
    at,        \* per builder: where it is in run_cli
    digest,    \* per builder: the inputs as fingerprint read them
    emitted,   \* per builder: the inputs as the emitter read them
    round,     \* per builder: the counter of the loop it is in
    seen,      \* per builder: what it read of build.state
    output,    \* per builder: the program this build leaves behind
    hit,       \* per builder: it comes from a cache
    touched,   \* per builder and input: edits since it began, up to 2 (ghost)
    builds, events \* how many there were (bounds)

cache == <<pointer, artifacts, objects, markers>>
environment == <<disk, touched, builds, events>>
result == <<output, hit>>
projectVars == <<cache, environment, at, digest, emitted, round, seen, result>>

InputSet == {Inputs[n] : n \in DOMAIN Inputs}
ASSUME InputsAssumption ==   \* the entry file and the compiler at least
    Inputs \in Seq(InputSet) /\ Inputs # <<>>

\* What an object can be compiled from.
Compiled == [by : Builders, of : [InputSet -> Versions], flipped : BOOLEAN]
ASSUME CompiledAssumption == Absent \notin Compiled /\ Lost \notin Compiled

Digests == [by : Builders, of : [InputSet -> Versions]]
Digest(b) == [by |-> b, of |-> digest[b]]
Nothing == [o \in Objects |-> Absent]

\* An object the emitter of b made; flipped says that an input was changed twice meanwhile.
Emitted(b) == [by |-> b, of |-> emitted[b],
               flipped |-> \E f \in InputSet : touched[b][f] >= 2]

\* The cache is empty, or one undisturbed build of b has filled it.
EmptyCache ==
  /\ pointer = Absent
  /\ artifacts = [d \in Digests |-> Absent]
  /\ objects = [d \in Digests |-> Nothing]
  /\ markers = [d \in Digests |-> Absent]
FilledCache(b) ==
  LET mine == [by |-> b, of |-> disk]
      image == [o \in Objects |-> [by |-> b, of |-> disk, flipped |-> FALSE]]
  IN /\ pointer = [digest |-> mine, image |-> image]
     /\ artifacts = [d \in Digests |-> IF d = mine THEN image ELSE Absent]
     /\ objects = [d \in Digests |-> IF d = mine THEN image ELSE Nothing]
     /\ markers = artifacts

ProjectInit ==
  /\ disk \in [InputSet -> Versions]
  /\ EmptyCache \/ \E b \in Builders : FilledCache(b)
  /\ at = [b \in Builders |-> "idle"]
  /\ digest = [b \in Builders |-> disk]
  /\ emitted = [b \in Builders |-> disk]
  /\ round = [b \in Builders |-> 1]
  /\ seen = [b \in Builders |-> Absent]
  /\ output = [b \in Builders |-> Nothing]
  /\ hit = [b \in Builders |-> FALSE]
  /\ touched = [b \in Builders |-> [f \in InputSet |-> 0]]
  /\ builds = 0 /\ events = 0
-----------------------------------------------------------------------------
Jump(b, place) == at' = [at EXCEPT ![b] = place]
Leave(b, image, cached) ==
  /\ output' = [output EXCEPT ![b] = image]
  /\ hit' = [hit EXCEPT ![b] = cached]

\* A loop over the inputs, or over the objects, then on to the next place.
Loop(b, n, next) ==
  IF round[b] < n THEN round' = [round EXCEPT ![b] = @ + 1] /\ UNCHANGED at
              ELSE round' = [round EXCEPT ![b] = 1] /\ Jump(b, next)

BeginBuild(b) ==
  /\ at[b] = "idle" /\ Jump(b, "fingerprint")
  /\ builds < MaxBuilds /\ builds' = builds + 1
  /\ touched' = [touched EXCEPT ![b] = [f \in InputSet |-> 0]]
  /\ Leave(b, Nothing, FALSE)
  /\ digest' = [digest EXCEPT ![b] = disk] /\ emitted' = [emitted EXCEPT ![b] = disk]
  /\ UNCHANGED <<cache, disk, events, round, seen>>

\* The inputs are read one after the other, and edited in between.
Fingerprint(b) ==
  /\ at[b] = "fingerprint"
  /\ digest' = [digest EXCEPT ![b][Inputs[round[b]]] = disk[Inputs[round[b]]]]
  /\ Loop(b, Len(Inputs), "restore")
  /\ UNCHANGED <<cache, environment, emitted, seen, result>>

\* restore: the pointer names this digest and its artifact is there ...
Restore(b) ==
  /\ at[b] = "restore"
  /\ IF pointer # Absent /\ pointer # Lost /\ artifacts[Digest(b)] # Absent
          /\ pointer.digest = Digest(b)
       THEN seen' = [seen EXCEPT ![b] = pointer.image] /\ Jump(b, "check")
       ELSE Jump(b, "objects") /\ UNCHANGED seen
  /\ UNCHANGED <<cache, environment, digest, emitted, round, result>>

\* ... its content is the one the pointer was published with ...
CheckArtifact(b) ==
  /\ at[b] = "check"
  /\ Jump(b, IF artifacts[Digest(b)] = seen[b] THEN "copy" ELSE "objects")
  /\ seen' = [seen EXCEPT ![b] = Absent]
  /\ UNCHANGED <<cache, environment, digest, emitted, round, result>>

\* ... and it is copied, if nobody has dropped it since.
CopyArtifact(b) ==
  /\ at[b] = "copy"
  /\ IF artifacts[Digest(b)] # Absent
       THEN Leave(b, artifacts[Digest(b)], TRUE) /\ Jump(b, "idle")
       ELSE Jump(b, "objects") /\ UNCHANGED result
  /\ UNCHANGED <<cache, environment, digest, emitted, round, seen>>

Complete(d) == markers[d] # Absent /\ markers[d] = objects[d]

\* restoreObjects and the linking of what it found: one step, because a process that
\* could change the directory in between has the same arguments, and there is none.
RestoreObjects(b) ==
  /\ at[b] = "objects"
  /\ IF Complete(Digest(b))
       THEN Leave(b, objects[Digest(b)], TRUE) /\ Jump(b, "recheck")
       ELSE Jump(b, "emit") /\ UNCHANGED result
  /\ UNCHANGED <<cache, environment, digest, emitted, round, seen>>

\* The child process parses the inputs and writes a fresh temporary object directory.
Emit(b) ==
  /\ at[b] = "emit"
  /\ emitted' = [emitted EXCEPT ![b][Inputs[round[b]]] = disk[Inputs[round[b]]]]
  /\ Loop(b, Len(Inputs), "compare")
  /\ UNCHANGED <<cache, environment, digest, seen, result>>

\* Mutant of Compare: what was emitted is published under the first fingerprint.
PublishUnchecked(b) ==
  /\ at[b] = "compare" /\ Jump(b, "clear")
  /\ UNCHANGED <<cache, environment, digest, emitted, round, seen, result>>

\* The inputs are fingerprinted again; when they differ only the linking is left.
Compare(b) ==
  /\ at[b] = "compare"
  /\ IF disk[Inputs[round[b]]] = digest[b][Inputs[round[b]]]
       THEN Loop(b, Len(Inputs), "clear") /\ UNCHANGED result
       ELSE /\ Leave(b, [o \in Objects |-> Emitted(b)], FALSE)
            /\ round' = [round EXCEPT ![b] = 1] /\ Jump(b, "idle")
  /\ UNCHANGED <<cache, environment, digest, emitted, seen>>

\* storeObjects: what an earlier attempt left is deleted, file by file; ...
Clear(b) ==
  LET d == Digest(b)
  IN /\ at[b] = "clear"
     /\ \/ /\ markers[d] # Absent
           /\ markers' = [markers EXCEPT ![d] = Absent] /\ UNCHANGED <<objects, at>>
        \/ \E o \in Objects :
             /\ objects[d][o] # Absent
             /\ objects' = [objects EXCEPT ![d][o] = Absent] /\ UNCHANGED <<markers, at>>
        \/ /\ markers[d] = Absent /\ objects[d] = Nothing
           /\ Jump(b, "copyObjects") /\ UNCHANGED <<objects, markers>>
     /\ UNCHANGED <<pointer, artifacts, environment, digest, emitted, round, seen, result>>

\* ... the objects are copied one by one ...
CopyObject(b) ==
  /\ at[b] = "copyObjects"
  /\ \E o \in Objects :
       /\ objects[Digest(b)][o] = Absent
       /\ objects' = [objects EXCEPT ![Digest(b)][o] = Emitted(b)]
  /\ Loop(b, Cardinality(Objects), "mark")
  /\ UNCHANGED <<pointer, artifacts, markers, environment, digest, emitted, seen, result>>

\* ... and the marker is published.  Then the temporary directory is linked.
MarkObjects(b) ==
  /\ at[b] = "mark" /\ Jump(b, "recheck")
  /\ markers' = [markers EXCEPT ![Digest(b)] = objects[Digest(b)]]
  /\ Leave(b, [o \in Objects |-> Emitted(b)], FALSE)
  /\ UNCHANGED <<pointer, artifacts, objects, environment, digest, emitted, round, seen>>

\* A third fingerprint decides whether the program is kept.
Recheck(b) ==
  /\ at[b] = "recheck"
  /\ IF disk[Inputs[round[b]]] = digest[b][Inputs[round[b]]] THEN Loop(b, Len(Inputs), "keep")
     ELSE round' = [round EXCEPT ![b] = 1] /\ Jump(b, "idle")
  /\ UNCHANGED <<cache, environment, digest, emitted, seen, result>>

\* store: the digest the pointer has is noted, the output copied aside; ...
NoteOld(b) ==
  /\ at[b] = "keep" /\ Jump(b, "artifact")
  /\ seen' = [seen EXCEPT ![b] = IF pointer \in {Absent, Lost} THEN Absent ELSE pointer.digest]
  /\ UNCHANGED <<cache, environment, digest, emitted, round, result>>

\* ... the artifact is published, then the pointer to it, ...
PublishArtifact(b) ==
  /\ at[b] = "artifact" /\ Jump(b, "pointer")
  /\ artifacts' = [artifacts EXCEPT ![Digest(b)] = output[b]]
  /\ UNCHANGED <<pointer, objects, markers, environment, digest, emitted, round, seen, result>>

PublishPointer(b) ==
  /\ at[b] = "pointer" /\ Jump(b, "drop")
  /\ pointer' = [digest |-> Digest(b), image |-> output[b]]
  /\ UNCHANGED <<artifacts, objects, markers, environment, digest, emitted, round, seen, result>>

\* ... and the artifact the pointer had before is deleted.
DropOld(b) ==
  /\ at[b] = "drop" /\ Jump(b, "idle")
  /\ artifacts' = IF seen[b] \in {Absent, Digest(b)} THEN artifacts
                  ELSE [artifacts EXCEPT ![seen[b]] = Absent]
  /\ seen' = [seen EXCEPT ![b] = Absent]
  /\ UNCHANGED <<pointer, objects, markers, environment, digest, emitted, round, result>>

\* The process is killed while it writes; killed before, it might as well not have begun.
Kill(b) ==
  /\ at[b] \in {"clear", "copyObjects", "mark", "artifact", "pointer", "drop"}
  /\ Jump(b, "idle")
  /\ round' = [round EXCEPT ![b] = 1] /\ seen' = [seen EXCEPT ![b] = Absent]
  /\ Leave(b, Nothing, FALSE)
  /\ UNCHANGED <<cache, environment, digest, emitted>>

Builder(b) ==
  \/ BeginBuild(b) \/ Fingerprint(b) \/ Restore(b) \/ CheckArtifact(b) \/ CopyArtifact(b)
  \/ RestoreObjects(b) \/ Emit(b) \/ Compare(b) \/ Clear(b) \/ CopyObject(b)
  \/ MarkObjects(b) \/ Recheck(b) \/ NoteOld(b) \/ PublishArtifact(b)
  \/ PublishPointer(b) \/ DropOld(b) \/ Kill(b)
-----------------------------------------------------------------------------
Edit(f) ==
  /\ events < MaxEvents /\ events' = events + 1
  /\ \E v \in Versions \ {disk[f]} : disk' = [disk EXCEPT ![f] = v]
  /\ touched' = [b \in Builders |->
                   IF at[b] = "idle" \/ touched[b][f] = 2 THEN touched[b]
                   ELSE [touched[b] EXCEPT ![f] = @ + 1]]
  /\ UNCHANGED <<cache, builds, at, digest, emitted, round, seen, result>>

\* Everybody stops, and one of the files written is found damaged.
PowerCut ==
  /\ events < MaxEvents /\ events' = events + 1
  /\ \/ \E d \in Digests, o \in Objects :
          /\ objects[d][o] # Absent
          /\ objects' = [objects EXCEPT ![d][o] = Lost] /\ UNCHANGED <<artifacts, pointer>>
     \/ \E d \in Digests :
          /\ artifacts[d] # Absent
          /\ artifacts' = [artifacts EXCEPT ![d] = Lost] /\ UNCHANGED <<objects, pointer>>
     \/ /\ pointer # Absent
        /\ pointer' = Lost /\ UNCHANGED <<objects, artifacts>>
  /\ at' = [b \in Builders |-> "idle"] /\ round' = [b \in Builders |-> 1]
  /\ seen' = [b \in Builders |-> Absent]
  /\ output' = [b \in Builders |-> Nothing] /\ hit' = [b \in Builders |-> FALSE]
  /\ UNCHANGED <<markers, disk, touched, builds, digest, emitted>>

ProjectNext ==
  \/ \E b \in Builders : Builder(b)
  \/ \E f \in InputSet : Edit(f)
  \/ PowerCut
ProjectSpec == ProjectInit /\ [][ProjectNext]_projectVars
-----------------------------------------------------------------------------
(* Properties.                                                             *)

\* What a build takes from a cache is a whole program, compiled with this build's
\* arguments from inputs with exactly the contents it fingerprinted, whoever stored
\* it, was killed while storing it or lost power since, if no two builds with the same
\* arguments or of the same output run at once.  Excepted is a program whose inputs were
\* changed and changed again while it was compiled: two fingerprints cannot tell.
DeliveredIsClean ==
  \A b \in Builders : hit[b] =>
    \A o \in Objects :
      /\ output[b][o] \notin {Absent, Lost}
      /\ output[b][o].by = b
      /\ output[b][o].flipped \/ output[b][o].of = digest[b]
=============================================================================
