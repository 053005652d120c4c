---------------------------- MODULE FunctionCache ----------------------------
(***************************************************************************)
(* The persistent cache of native functions (mlc/incremental.ml) as the    *)
(* compiler uses it: every build identifies its compiler, options, sources *)
(* and declarations, and then replays or lowers the functions one after    *)
(* the other into one stream.  Builds run while the sources are edited,    *)
(* while the compiler itself is developed, regenerated and installed, and  *)
(* next to each other in one cache directory, which has one file per       *)
(* function.                                                               *)
(*                                                                         *)
(* What visitors the generator makes and what they write of a program are  *)
(* constants here; ProgramView computes them.                              *)
(*                                                                         *)
(* The program has two modules.  lib defines a class B, perhaps derived    *)
(* from a class A, and a function f; main, in app, calls f and asks        *)
(* whether an object is an A.  A digest is what it is the digest of.  The  *)
(* token cache is left out.  A build that dies leaves nothing but cache    *)
(* files that were replaced as a whole: it is one that goes on no more.    *)
(***************************************************************************)
EXTENDS Naturals, Sequences, FiniteSets

CONSTANTS
    Generated(_), \* the visitor the generator makes of a parser's node types
    Declarations(_, _, _), \* the digest of what a visitor writes of a program
    Compilations, \* compiler processes
    OptionOf,     \* the options each is started with
    Gated,        \* a compiler is installed only when the generator's --check passes
    MaxEdits,     \* bound: edits of program or parser, lost cache files
    MaxStarts     \* bound: compilations begun

VARIABLES
    repo,       \* the compiler's sources: the parser's node types and the visitor
    compiler,   \* the same of the installed compiler, which identifies it
    lib, app,   \* the program's sources
    slots,      \* per function, the fragment in its .mfc file, if any
    interfaces, \* the .mif files: key and declarations
    job,        \* the compilations
    edits, begun \* how many there were (bounds)
functionVars == <<repo, compiler, lib, app, slots, interfaces, job, edits, begun>>
-----------------------------------------------------------------------------
(* The program and the code it compiles to.                                *)

LibTexts == [f : {"plain", "inline", "typed", "lambda"}, body : {"0", "pi", "deep"},
             line : {1, 2}, base : {"", "A"}]
AppTexts == {"calls", "wrong"}

\* _function_wants_inline: f is expanded in its callers, with the lines of its file.
WantsInline(l) == l.f # "plain"

\* What code in another file may depend on: how f is called, what is expanded there,
\* which classes derive from A.
Facts(l) == [f |-> l.f, base |-> l.base, expands |-> IF WantsInline(l) THEN l.body ELSE "none"]

\* What the code of a function leaves in the stream: positions, labels, pooled constants.
Leaves(text) == IF text = "pi" THEN "pool entry" ELSE "nothing"

\* A fragment is what it was compiled from; stream is what came before it.
Lower(fn, c, option, l, a, stream) ==
  [fn |-> fn, by |-> c, option |-> option, stream |-> stream,
   own |-> IF fn = "f" THEN <<l>> ELSE <<a>>,
   others |-> IF fn = "f" THEN <<>>
              ELSE <<Facts(l), IF WantsInline(l) THEN <<l>> ELSE <<>>>>,
   leaves |-> IF fn = "f" THEN Leaves(l.body) ELSE "nothing"]
Stream(code) == [n \in DOMAIN code |-> code[n].leaves]

\* An old parser rejects inheritance; a wrong call is an error found while lowering main.
Parses(c, l) == l.base = "" \/ c.parser = "new"
Failed == [ok |-> FALSE, code |-> <<>>]
Clean(c, option, l, a) ==
  IF ~ Parses(c, l) \/ a = "wrong" THEN Failed
  ELSE LET f == Lower("f", c, option, l, a, <<>>)
       IN [ok |-> TRUE,
           code |-> <<f, Lower("main", c, option, l, a, Stream(<<f>>))>>]

\* The generator's --check: a compiler's visitor is the one generated from its parser.
Compilers == [parser : {"old", "new"}, visitor : {"old", "new"}]
CheckPasses(c) == Generated(c.visitor) = Generated(c.parser)

\* Such a visitor writes whatever callers can see of the programs its parser accepts.
ASSUME DeclarationsAssumption ==
  \A c \in Compilers, l, m \in LibTexts, a, e \in AppTexts :
    /\ CheckPasses(c) /\ Parses(c, l) /\ Parses(c, m)
    /\ Declarations(c.visitor, l, a) # <<>>
    /\ Declarations(c.visitor, l, a) = Declarations(c.visitor, m, e)
    => Facts(l) = Facts(m)
-----------------------------------------------------------------------------
(* The cache.  An entry is used when its key is the one looked for.        *)

\* Mutant of InterfaceKeyOf: the compiler is whichever is installed by then.
InterfaceKeyOfInstalled(b, l) ==
  [by |-> compiler, option |-> OptionOf[b], files |-> <<job[b].a, l>>]

\* prepare: declarations are looked up by the digests of the sources as they were parsed.
InterfaceKeyOf(b, l) == [by |-> job[b].by, option |-> OptionOf[b], files |-> <<job[b].a, l>>]

\* seal: for a function that callers expand, the digest of its file.
Contracts(b) == IF WantsInline(job[b].l) THEN <<job[b].l>> ELSE <<>>
Context(b) ==
  [by |-> job[b].by, option |-> OptionOf[b], declarations |-> job[b].declarations,
   contracts |-> Contracts(b)]

\* Mutant of FragmentKey: the file is read again when the function is lowered.
FragmentKeyOfDisk(b, fn) ==
  [context |-> Context(b), file |-> IF fn = "f" THEN <<lib>> ELSE <<app>>,
   stream |-> Stream(job[b].code)]

\* begin: the key of a fragment has its file and all that was emitted before it, too.
FragmentKey(b, fn) ==
  [context |-> Context(b), file |-> IF fn = "f" THEN <<job[b].l>> ELSE <<job[b].a>>,
   stream |-> Stream(job[b].code)]

\* The name of its file has neither, so every function has one fragment at a time.
Found(b, fn) ==
  IF job[b].declarations = <<>> THEN {}
  ELSE {s \in slots[fn] : s.key = FragmentKey(b, fn)}
-----------------------------------------------------------------------------
FirstLibs == {l \in LibTexts : l.f = "plain" /\ l.body = "0" /\ l.line = 1 /\ l.base = ""}
Fresh == [at |-> "idle", by |-> compiler, l |-> CHOOSE l \in FirstLibs : TRUE, a |-> app,
          declarations |-> <<>>, code |-> <<>>, ok |-> FALSE]

FunctionInit ==
  /\ repo = [parser |-> "old", visitor |-> "old"]
  /\ compiler = repo
  /\ lib \in FirstLibs /\ app = "calls"
  /\ slots = [fn \in {"f", "main"} |-> {}] /\ interfaces = {}
  /\ job = [b \in Compilations |-> Fresh]
  /\ edits = 0 /\ begun = 0

(* A compilation.  Every file is read once; lib may be edited after app was read. *)
Count == edits < MaxEdits /\ edits' = edits + 1
Lose == Count    \* a cache file is busy and is not replaced
sources == <<repo, compiler, lib, app, edits>>
cacheFiles == <<slots, interfaces>>
Advance(b, to, change) == job' = [job EXCEPT ![b] = [change EXCEPT !.at = to]]

\* configure, and the entry file is parsed.
Start(b) ==
  /\ job[b].at \in {"idle", "done"} /\ Advance(b, "parse", Fresh)
  /\ begun < MaxStarts /\ begun' = begun + 1
  /\ UNCHANGED <<sources, cacheFiles>>

\* lib is parsed, and prepare finds its declarations or computes and writes them.
ParseLib(b) ==
  LET j == job[b]
      key == InterfaceKeyOf(b, lib)
      found == {e \in interfaces : e.key = key}
      computed == Declarations(j.by.visitor, lib, j.a)
      parsed(d) == [j EXCEPT !.l = lib, !.declarations = d]
  IN /\ j.at = "parse"
     /\ \/ /\ ~ Parses(j.by, lib)
           /\ Advance(b, "done", parsed(<<>>)) /\ UNCHANGED <<interfaces, edits>>
        \/ /\ Parses(j.by, lib)
           /\ \E e \in found : Advance(b, "f", parsed(e.declarations))
           /\ UNCHANGED <<interfaces, edits>>
        \/ /\ Parses(j.by, lib) /\ found = {} /\ Advance(b, "f", parsed(computed))
           /\ \/ computed = <<>> /\ UNCHANGED <<interfaces, edits>>
              \/ /\ computed # <<>> /\ UNCHANGED edits
                 /\ interfaces' = interfaces \cup {[key |-> key, declarations |-> computed]}
              \/ computed # <<>> /\ Lose /\ UNCHANGED interfaces
     /\ UNCHANGED <<repo, compiler, lib, app, slots, begun>>

After(fn) == IF fn = "f" THEN "main" ELSE "done"
Attach(b, fn, fragment) ==
  Advance(b, After(fn), [job[b] EXCEPT !.code = Append(@, fragment), !.ok = fn = "main"])

Replay(b, fn) ==
  /\ job[b].at = fn
  /\ \E s \in Found(b, fn) : Attach(b, fn, s.fragment)
  /\ UNCHANGED <<sources, cacheFiles, begun>>

\* The function is lowered and published, unless the cache is off or its file is busy.
Compile(b, fn) ==
  LET j == job[b]
      fragment == Lower(fn, j.by, OptionOf[b], j.l, j.a, Stream(j.code))
      entry == [key |-> FragmentKey(b, fn), fragment |-> fragment]
  IN /\ j.at = fn /\ Found(b, fn) = {}
     /\ fn = "f" \/ j.a # "wrong"
     /\ Attach(b, fn, fragment)
     /\ \/ j.declarations = <<>> /\ UNCHANGED <<slots, edits>>
        \/ /\ j.declarations # <<>> /\ UNCHANGED edits
           /\ slots' = [slots EXCEPT ![fn] = {entry}]
        \/ j.declarations # <<>> /\ Lose /\ UNCHANGED slots
     /\ UNCHANGED <<repo, compiler, lib, app, interfaces, begun>>

\* An error in main: nothing of it is published and there is no program.
Diagnose(b) ==
  /\ job[b].at = "main" /\ job[b].a = "wrong" /\ Found(b, "main") = {}
  /\ Advance(b, "done", [job[b] EXCEPT !.code = <<>>])
  /\ UNCHANGED <<sources, cacheFiles, begun>>

Compilation(b) ==
  \/ Start(b) \/ ParseLib(b) \/ Diagnose(b)
  \/ \E fn \in {"f", "main"} : Replay(b, fn) \/ Compile(b, fn)
-----------------------------------------------------------------------------
(* Everybody else.                                                         *)

EditLib ==
  /\ Count
  /\ \E l \in LibTexts :
       /\ \E x \in DOMAIN l : \A y \in DOMAIN l : lib[y] = l[y] <=> y # x
       /\ lib' = l
  /\ UNCHANGED <<repo, compiler, app, cacheFiles, job, begun>>
EditApp ==
  /\ Count /\ app' \in AppTexts \ {app}
  /\ UNCHANGED <<repo, compiler, lib, cacheFiles, job, begun>>

\* A cache file is damaged or deleted; both are a miss.
Damage ==
  /\ Count
  /\ \/ \E fn \in DOMAIN slots : /\ slots[fn] # {} /\ slots' = [slots EXCEPT ![fn] = {}]
                               /\ UNCHANGED interfaces
     \/ \E e \in interfaces : interfaces' = interfaces \ {e} /\ UNCHANGED slots
  /\ UNCHANGED <<repo, compiler, lib, app, job, begun>>

\* The parser gets another field, the generator is run, the compiler is installed.
ChangeParser ==
  /\ Count /\ repo.parser = "old" /\ repo' = [repo EXCEPT !.parser = "new"]
  /\ UNCHANGED <<compiler, lib, app, cacheFiles, job, begun>>
Regenerate ==
  /\ ~ CheckPasses(repo) /\ repo' = [repo EXCEPT !.visitor = repo.parser]
  /\ UNCHANGED <<compiler, lib, app, cacheFiles, job, edits, begun>>
Install ==
  /\ Gated => CheckPasses(repo)
  /\ compiler # repo /\ compiler' = repo
  /\ UNCHANGED <<repo, lib, app, cacheFiles, job, edits, begun>>

FunctionNext ==
  \/ \E b \in Compilations : Compilation(b)
  \/ EditLib \/ EditApp \/ Damage \/ ChangeParser \/ Regenerate \/ Install
FunctionSpec == FunctionInit /\ [][FunctionNext]_functionVars
-----------------------------------------------------------------------------
(* Properties.                                                             *)

\* docs/INCREMENTAL_BUILDS.md promises the output of a clean build: whatever was edited,
\* before or during this build, replayed from or lost by the cache, written by other
\* compilers or with other options, a build yields what its compiler makes of the texts
\* it parsed without a cache, and an error where that is an error.
OutputIsClean ==
  \A b \in Compilations : job[b].at = "done" =>
    LET j == job[b] IN
      [ok |-> j.ok, code |-> j.code] = Clean(j.by, OptionOf[b], j.l, j.a)

\* An interface file gives a build just the declarations that computing them anew would,
\* with the visitor of the compiler it runs, of the texts it parsed: whichever build wrote
\* the file, from texts and with a compiler that may have been replaced since.  That holds
\* of a stale visitor, too: it is the visitor, not the file, that overlooks something.
DeclarationsAreFresh ==
  \A b \in Compilations :
    LET j == job[b] IN
      j.declarations # <<>> => j.declarations = Declarations(j.by.visitor, j.l, j.a)

\* The generated visitor tells apart just what callers can see: two builds by one compiler
\* that have declarations have the same ones if and only if code in another file compiles
\* to the same under the texts of lib they parsed.  The body of an ordinary function makes
\* no difference; a class's base, or a body that is expanded elsewhere, does.
ViewIsExact ==
  \A b, c \in Compilations :
    LET j == job[b]
        k == job[c]
    IN j.by = k.by /\ <<>> \notin {j.declarations, k.declarations}
         => (j.declarations = k.declarations <=> Facts(j.l) = Facts(k.l))
=============================================================================
