---------------------------- MODULE RuntimeBlob ----------------------------
(***************************************************************************)
(* The Linux runtime thunks exist twice: as the Python assembler emits     *)
(* them, and in mlc/linux_runtime.ml as hexadecimal literals, relocation   *)
(* constants and label offsets.  The first literal is a container: thunks, *)
(* a superseded thread implementation, thunks.  The compiler cuts that     *)
(* range out, puts the pthread literal in its place and turns exit into    *)
(* exit_group.  scripts/check_linux_runtime_blob.py compares the two       *)
(* copies and prints a patch that refreshes the second, line by line.      *)
(* Offsets count from 0, as in the code; a byte is a number, a word is two *)
(* of them.                                                                *)
(***************************************************************************)
EXTENDS Naturals, Sequences, FiniteSets

CONSTANTS Assemblers,   \* versions of the emitter: [code, labels, patches]
          Committed,    \* linux_runtime.ml to begin with: [line, declared]
          MaxPatches    \* bound on the patches printed and not yet applied

ASSUME MaxPatchesAssumption == MaxPatches \in Nat

VARIABLES asm,          \* the Python emitter
          source,       \* linux_runtime.ml
          patches       \* printed patches: the file before and after
blobVars == <<asm, source, patches>>

ExitThread == <<60, 0>>
ExitGroup == <<231, 0>>
MovEax == 184
Relocations == <<"pthread_create", "pthread_join", "pthread_join">>

Slice(s, from, to) == SubSeq(s, from + 1, to)
Overwrite(s, at, word) == Slice(s, 0, at) \o word \o Slice(s, at + Len(word), Len(s))
RangeOf(f) == {f[x] : x \in DOMAIN f}

ThreadStart(a) == a.labels["CreateThread"]
ThreadEnd(a) == a.labels["fmod"]
ExitOffset(a) == a.labels["ExitProcess"] + 3
Legacy(s) == Slice(s.line.raw, s.line.LEGACY_START, s.line.LEGACY_END)

\* The assertions the script makes of the emitted code before it reads the file.
AssemblerFits(a) ==
  /\ [i \in DOMAIN a.patches |-> a.patches[i].target] = Relocations
  /\ a.code[ExitOffset(a)] = MovEax

\* Mutant of LegacyEnd: the legacy range ends where the emitted one does.
EmittedEnd(a, s) == ThreadEnd(a)

\* The literals and constants the emitted code calls for; the legacy range is kept.
Container(a, legacy) ==
  Overwrite(Slice(a.code, 0, ThreadStart(a)), ExitOffset(a), ExitThread)
    \o legacy \o Slice(a.code, ThreadEnd(a), Len(a.code))
LegacyEnd(a, s) == ThreadStart(a) + Len(Legacy(s))
Refreshed(a, s) ==
  [raw |-> Container(a, Legacy(s)),
   pthread |-> Slice(a.code, ThreadStart(a), ThreadEnd(a)),
   EXIT_OFFSET |-> ExitOffset(a),
   LEGACY_START |-> ThreadStart(a),
   LEGACY_END |-> LegacyEnd(a, s),
   CREATE_PATCH |-> a.patches[1].pos,
   WAIT_PATCH |-> a.patches[2].pos,
   CLOSE_PATCH |-> a.patches[3].pos]

\* The file with those and with the offset of every label it declares.
Expected(a, s) ==
  LET new == Refreshed(a, s)
  IN [s EXCEPT !.line = [l \in DOMAIN s.line |->
                           IF l \in DOMAIN new THEN new[l] ELSE a.labels[l]]]

InventoryAgrees(a, s) == RangeOf(s.declared) = DOMAIN a.labels

\* Mutant of InEmissionOrder: the order of the declared labels is not looked at.
InAnyOrder(a, declared) == TRUE

InEmissionOrder(a, declared) ==
  \A i, j \in DOMAIN declared : i < j => a.labels[declared[i]] <= a.labels[declared[j]]

\* The script reaches its comparison: none of its assertions fails.
Comparable(a, s) ==
  /\ AssemblerFits(a)
  /\ InventoryAgrees(a, s)
  /\ InEmissionOrder(a, s.declared)
CheckOk(a, s) == Comparable(a, s) /\ Expected(a, s) = s
-----------------------------------------------------------------------------
(* What the script takes for granted.                                      *)

Literals == {"raw", "pthread"}
Offsets == {"EXIT_OFFSET", "LEGACY_START", "LEGACY_END",
            "CREATE_PATCH", "WAIT_PATCH", "CLOSE_PATCH"}

\* Labels are marked within the code; exit comes before the thread thunk, and that before
\* fmod; exit leaves by exit_group.
IsEmitter(a) ==
  /\ a.code \in Seq(Nat)
  /\ a.labels \in [DOMAIN a.labels -> 0 .. Len(a.code)]
  /\ IsFiniteSet(DOMAIN a.labels) /\ DOMAIN a.labels \cap (Literals \cup Offsets) = {}
  /\ {"ExitProcess", "CreateThread", "fmod"} \subseteq DOMAIN a.labels
  /\ ExitOffset(a) + Len(ExitGroup) <= ThreadStart(a) /\ ThreadStart(a) <= ThreadEnd(a)
  /\ Slice(a.code, ExitOffset(a), ExitOffset(a) + Len(ExitGroup)) = ExitGroup

\* The legacy implementation is in a container once: at start.
StandsOnce(legacy, raw, start) ==
  /\ start + Len(legacy) <= Len(raw)
  /\ \A at \in 0 .. Len(raw) - Len(legacy) :
       Slice(raw, at, at + Len(legacy)) = legacy <=> at = start

ASSUME EmitterAssumption ==
  \A a \in Assemblers :
    /\ IsEmitter(a)
    /\ StandsOnce(Legacy(Committed), Container(a, Legacy(Committed)), ThreadStart(a))

ASSUME CommittedAssumption ==
  /\ DOMAIN Committed = {"declared", "line"}
  /\ Committed.declared \in Seq(RangeOf(Committed.declared))
  /\ Literals \cup Offsets \cup RangeOf(Committed.declared) \subseteq DOMAIN Committed.line
  /\ Committed.line.raw \in Seq(Nat)
  /\ Committed.line.LEGACY_START \in Nat
  /\ Committed.line.LEGACY_END \in Committed.line.LEGACY_START .. Len(Committed.line.raw)
  /\ StandsOnce(Legacy(Committed), Committed.line.raw, Committed.line.LEGACY_START)
-----------------------------------------------------------------------------
(* What the two compilers link.                                            *)

Blob(s) ==
  LET prefix == Slice(s.line.raw, 0, s.line.LEGACY_START)
      suffix == Slice(s.line.raw, s.line.LEGACY_END, Len(s.line.raw))
  IN Overwrite(prefix, s.line.EXIT_OFFSET, ExitGroup) \o s.line.pthread \o suffix

\* emit_runtime: up to every label the bytes since the one before, then the label, in the
\* order declared; then what is left.
AtStart == [out |-> <<>>, cursor |-> 0, marks |-> {}]
Mark(p, blob, label, offset) ==
  LET out == p.out \o Slice(blob, p.cursor, offset)
  IN [out |-> out, cursor |-> offset, marks |-> p.marks \cup {<<label, Len(out)>>}]
Marked(s) ==
  LET after[i \in 0 .. Len(s.declared)] ==
        IF i = 0 THEN AtStart
        ELSE Mark(after[i - 1], Blob(s), s.declared[i], s.line[s.declared[i]])
  IN after
Linked(s) ==
  LET last == Marked(s)[Len(s.declared)]
  IN [code |-> last.out \o Slice(Blob(s), last.cursor, Len(Blob(s))),
      labels |-> last.marks,
      patches |-> <<s.line.CREATE_PATCH, s.line.WAIT_PATCH, s.line.CLOSE_PATCH>>]

Assembled(a) ==
  [code |-> a.code,
   labels |-> {<<l, a.labels[l]>> : l \in DOMAIN a.labels},
   patches |-> [i \in DOMAIN a.patches |-> a.patches[i].pos]]
-----------------------------------------------------------------------------
(* What is done to the two copies.                                          *)

BlobInit ==
  /\ asm \in Assemblers    \* it may have changed since the last refresh
  /\ source = Committed
  /\ patches = {}

\* Somebody changes the Python emitter.
Develop ==
  /\ asm' \in Assemblers \ {asm}
  /\ UNCHANGED <<source, patches>>

\* A label the emitter has and the file has not is declared by hand, somewhere
\* in the list; so is a list in another order.  The script only asserts.
DeclareLabels ==
  /\ ~ (InventoryAgrees(asm, source) /\ InEmissionOrder(asm, source.declared))
  /\ \E order \in [1 .. Cardinality(DOMAIN asm.labels) -> DOMAIN asm.labels] :
       /\ RangeOf(order) = DOMAIN asm.labels
       /\ source' = [declared |-> order,
                     line |-> [l \in DOMAIN Refreshed(asm, source) \cup DOMAIN asm.labels |->
                                 IF l \in DOMAIN source.line THEN source.line[l] ELSE 0]]
  /\ UNCHANGED <<asm, patches>>

\* --patch prints every line that differs, with its old and its new text.
PrintPatch ==
  /\ Comparable(asm, source) /\ ~ CheckOk(asm, source)
  /\ patches' = patches \cup {[before |-> source.line, after |-> Expected(asm, source).line]}
  /\ Cardinality(patches') <= MaxPatches
  /\ UNCHANGED <<asm, source>>

\* A patch is applied as a whole, when every line it replaces is as it was.
Touched(p) == {l \in DOMAIN p.before : p.before[l] # p.after[l]}
ApplyPatch ==
  \E p \in patches :
    /\ \A l \in Touched(p) : l \in DOMAIN source.line /\ source.line[l] = p.before[l]
    /\ source' = [source EXCEPT !.line =
                    [l \in DOMAIN source.line |->
                       IF l \in Touched(p) THEN p.after[l] ELSE source.line[l]]]
    /\ patches' = patches \ {p}
    /\ UNCHANGED asm

BlobNext == Develop \/ DeclareLabels \/ PrintPatch \/ ApplyPatch
BlobSpec == BlobInit /\ [][BlobNext]_blobVars
-----------------------------------------------------------------------------
(* Properties.                                                             *)

\* Whenever the script gets as far as its comparison, applying what it prints leaves
\* nothing to print; and a compiler that reads such a file links exactly the bytes, labels
\* and relocations that the Python compiler links, although it builds them another way:
\* by cutting, patching and interleaving with labels.
CheckedEmitsTheSame ==
  Comparable(asm, source) =>
    LET fresh == Expected(asm, source)
    IN CheckOk(asm, fresh) /\ Linked(fresh) = Assembled(asm)

\* No refresh and no combination of refreshes printed earlier, in whatever order they
\* are applied, moves a byte into or out of the legacy range: the literal and the two
\* constants that bound the range change together or not at all.
LegacyKept == [][Legacy(source') = Legacy(source)]_blobVars
=============================================================================
