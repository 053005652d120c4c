----------------------------- MODULE AstVisitor -----------------------------
(***************************************************************************)
(* mlc/incremental_ast.ml and the script that generates it from the node   *)
(* types of the parser, tools/generate_incremental_ast.py.  The visitor    *)
(* writes the declarations of a program, without the bodies of ordinary    *)
(* functions, as a stream of primitive values; its digest is the           *)
(* interface key of the function cache.  What it cannot write makes the    *)
(* stream invalid and the key empty.                                       *)
(*                                                                         *)
(* An AST value is a primitive, an array or a node; a digest is the stream *)
(* itself.  A file name stands for the position: lines are not written.    *)
(***************************************************************************)
EXTENDS Naturals, Sequences, FiniteSets, SequencesExt

CONSTANT MaxDepth    \* 128 in the code

Primitive(v) == [is |-> "primitive", value |-> v]
Items(s) == [is |-> "array", items |-> s]
Node(kind, file, fields) == [is |-> "node", kind |-> kind, file |-> file, fields |-> fields]

\* The lists of the script, as far as the node types below use them.
Children == {"items", "left", "right", "expr", "callee", "args", "body", "methods",
             "field_defaults", "param_defaults"}
Internal == {"node_kind", "_pos", "_filename", "_ml_locals"}

\* Mutant of Rule: the body of every function is written.
RuleWithBodies(kind, field) ==
  CASE field \in Internal -> "skip"
    [] field \in Children \cup {"params"} -> "write"
    [] OTHER -> "codec"

\* How the visitor writes a field of a node.
Rule(kind, field) ==
  CASE field \in Internal -> "skip"
    [] kind = "FunctionDef" /\ field = "body" -> "body"
    [] field \in Children \cup {"params"} /\ <<kind, field>> # <<"FunctionDef", "body">> -> "write"
    [] OTHER -> "codec"

\* The node types the template handles itself; every other one gets a branch that
\* writes its fields in the order of the parser's struct.
InTemplate == {"Num", "Var", "Bin"}
Generate(schema) ==
  [kind \in DOMAIN schema \ InTemplate |->
     LET written == SelectSeq(schema[kind], LAMBDA f : Rule(kind, f) # "skip")
     IN [i \in DOMAIN written |-> [field |-> written[i], how |-> Rule(kind, written[i])]]]

Unsupported == <<"unsupported", 0>>

\* cache_codec.write: primitives and arrays of them.
RECURSIVE Codec(_)
Codec(v) ==
  CASE v.is = "primitive" -> <<<<"value", v.value>>>>
    [] v.is = "array" -> <<<<"array", Len(v.items)>>>>
                           \o FlattenSeq([i \in DOMAIN v.items |-> Codec(v.items[i])])
    [] v.is = "node" -> <<Unsupported>>

\* Callers depend on the bodies of these functions, too.
CallersSeeBody(fn) ==
  \/ fn.is_inline.value = "true"
  \/ fn.return_type.value # ""
  \/ fn.name.value = "__ml_lambda_0"

\* write and writeNode of the generated file; a node of an unknown type is unsupported.
RECURSIVE Write(_, _, _, _)
Write(visitor, v, headersOnly, depth) ==
  LET child(c) == Write(visitor, c, headersOnly, depth + 1)
      part(r) ==
        CASE r.how = "write" -> child(v.fields[r.field])
          [] r.how = "codec" -> Codec(v.fields[r.field])
          [] r.how = "body" -> IF ~ headersOnly \/ CallersSeeBody(v.fields)
                                 THEN Write(visitor, v.fields.body, FALSE, depth + 1)
                                 ELSE <<>>
      content ==
        CASE v.kind = "Num" -> Codec(v.fields.value)
          [] v.kind = "Var" -> Codec(v.fields.name)
          [] v.kind = "Bin" -> child(v.fields.left) \o Codec(v.fields.op) \o child(v.fields.right)
          [] v.kind \in DOMAIN visitor ->
               FlattenSeq([i \in DOMAIN visitor[v.kind] |-> part(visitor[v.kind][i])])
          [] OTHER -> <<Unsupported>>
  IN IF depth >= MaxDepth THEN <<Unsupported>>
     ELSE CASE v.is = "primitive" -> Codec(v)
            [] v.is = "array" -> <<<<"array", Len(v.items)>>>>
                                   \o FlattenSeq([i \in DOMAIN v.items |-> child(v.items[i])])
            [] v.is = "node" -> <<<<"kind", v.kind>>, <<"file", v.file>>>> \o content

\* interfaceKey: the stream, or NoKey when there was something it could not write.
NoKey == <<>>
InterfaceKey(visitor, program) ==
  LET w == Write(visitor, program, TRUE, 0)
  IN IF Contains(w, Unsupported) THEN NoKey ELSE w
=============================================================================
