---------------------------- MODULE MCBuildTools ----------------------------
(* The scripts and caches of a build for TLC.  They share no state: a run is *)
(* of one of them, and the others stay as they are.                          *)
EXTENDS RuntimeBlob, ReleasePackage, ProjectCache, ProgramView, TLC

VARIABLE tool

\* An emitter: thunks up to and with exit, the thread thunk, the thunks after it.
Emitter(head, thread, rest, targets, mov, extra) ==
  LET start == Len(head) + 6
      offset == [ExitProcess |-> Len(head), CreateThread |-> start,
                 fmod |-> start + Len(thread), gcvt |-> start + Len(thread) + 1]
  IN [code |-> head \o <<249, 231, mov, 231, 0, 15>> \o thread \o rest,
      labels |-> [l \in {"ExitProcess", "CreateThread", "fmod"} \cup extra |-> offset[l]],
      patches |-> [n \in 1 .. 3 |-> [pos |-> start + n - 1, target |-> targets[n]]]]
Head1 == <<131>>
Thread1 == <<83, 65, 66>>
Rest1 == <<221, 195>>
Swapped == <<"pthread_join", "pthread_create", "pthread_join">>
Base == Emitter(Head1, Thread1, Rest1, Relocations, MovEax, {})
Unfit == Emitter(Head1, Thread1, Rest1, Relocations, MovEax + 1, {})
TheAssemblers ==
  {Base,
   Emitter(<<131, 133>>, Append(Thread1, 67), Rest1, Relocations, MovEax, {}),
   Emitter(<<131, 133>>, Thread1, <<221, 196>>, Relocations, MovEax, {"gcvt"}),
   Emitter(Head1, Thread1, Rest1, Swapped, MovEax, {}),
   Unfit}
Before ==
  [declared |-> <<"ExitProcess", "CreateThread", "fmod">>,
   line |-> [l \in {"raw", "pthread", "EXIT_OFFSET", "LEGACY_START", "LEGACY_END",
                    "CREATE_PATCH", "WAIT_PATCH", "CLOSE_PATCH",
                    "ExitProcess", "CreateThread", "fmod"} |->
               CASE l = "raw" -> <<90, 91>> [] l = "pthread" -> <<>>
                 [] l = "LEGACY_END" -> 2 [] OTHER -> 0]]
TheCommitted == Expected(Base, Before)

TheInputs == <<"main.ml", "lib.ml">>
TheOptions == [b \in Compilations |-> IF b = "p" THEN "debug" ELSE "release"]
Symmetry == Permutations(Builders) \cup Permutations(Objects) \cup Permutations(Versions)
-----------------------------------------------------------------------------
Init ==
  /\ tool \in {"blob", "release", "project", "function"}
  /\ IF tool = "blob" THEN BlobInit ELSE asm = Unfit /\ source = Committed /\ patches = {}
  /\ ReleaseInit
  /\ tool # "release" =>
       /\ binary = CHOOSE e \in Executables : e.made = Platform
       /\ bridge = None /\ tree \in Releasable /\ tag = None
  /\ ProjectInit /\ (tool # "project" => EmptyCache /\ Cardinality({disk[f] : f \in InputSet}) = 1)
  /\ FunctionInit

Next ==
  /\ UNCHANGED tool
  /\ \/ tool = "blob" /\ BlobNext /\ UNCHANGED <<releaseVars, projectVars, functionVars>>
     \/ tool = "release" /\ ReleaseNext /\ UNCHANGED <<blobVars, projectVars, functionVars>>
     \/ tool = "project" /\ ProjectNext /\ UNCHANGED <<blobVars, releaseVars, functionVars>>
     \/ tool = "function" /\ FunctionNext /\ UNCHANGED <<blobVars, releaseVars, projectVars>>
Spec == Init /\ [][Next]_<<tool, blobVars, releaseVars, projectVars, functionVars>>
=============================================================================
