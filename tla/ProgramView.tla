----------------------------- MODULE ProgramView -----------------------------
(***************************************************************************)
(* What the generated visitors of AstVisitor write of the programs of      *)
(* FunctionCache: the values of its constants Generated and Declarations.  *)
(***************************************************************************)
EXTENDS FunctionCache, AstVisitor

\* Node types before and after inheritance.
StructFields == <<"node_kind", "name", "methods", "_filename">>
Schema ==
  [version \in {"old", "new"} |->
     [StructDef |-> IF version = "old" THEN StructFields ELSE Append(StructFields, "base"),
      Return |-> <<"node_kind", "expr">>,
      FunctionDef |-> <<"node_kind", "name", "params", "body", "is_inline", "return_type",
                        "_ml_locals">>]]
Visitor == [version \in DOMAIN Schema |-> Generate(Schema[version])]
GeneratedVisitor(version) == Visitor[version]

Number(n) == Node("Num", "lib.ml", [value |-> Primitive(n)])
Twice(e) == Node("Bin", "lib.ml", [left |-> e, op |-> Primitive("+"), right |-> e])
Value(body) == IF body = "deep" THEN Twice(Twice(Number("0"))) ELSE Number(body)
Function(name, file, mode, body) ==
  Node("FunctionDef", file,
       [node_kind |-> Primitive("FunctionDef"), _ml_locals |-> Primitive("scratch"),
        name |-> Primitive(IF mode = "lambda" THEN "__ml_lambda_0" ELSE name),
        params |-> Items(<<Primitive("x")>>), body |-> Items(<<body>>),
        is_inline |-> Primitive(IF mode = "inline" THEN "true" ELSE "false"),
        return_type |-> Primitive(IF mode = "typed" THEN "int" ELSE "")])
Program(l, a) ==
  Items(<<Node("StructDef", "lib.ml",
               [node_kind |-> Primitive("StructDef"), _filename |-> Primitive("lib.ml"),
                name |-> Primitive("B"), base |-> Primitive(l.base),
                methods |-> Items(<<Function("m", "lib.ml", "plain", Number("0"))>>)]),
          Function("f", "lib.ml", l.f,
                   Node("Return", "lib.ml", [expr |-> Value(l.body)])),
          Function("main", "app.ml", "plain", Node("Var", "app.ml", [name |-> Primitive(a)]))>>)

\* What each visitor writes of each program; a digest is one of those it is a digest of,
\* the same for all, and <<>> when the visitor cannot write the program.
Views ==
  {[by |-> v, of |-> <<l, a>>, key |-> InterfaceKey(Visitor[v], Program(l, a))]
     : v \in DOMAIN Schema, l \in LibTexts, a \in AppTexts}
ViewDigests ==
  [v \in DOMAIN Schema, l \in LibTexts, a \in AppTexts |->
     LET key == (CHOOSE x \in Views : x.by = v /\ x.of = <<l, a>>).key
         first == CHOOSE x \in Views : x.key = key
     IN IF key = NoKey THEN <<>> ELSE <<first.by, first.of>>]
ViewDigest(v, l, a) == ViewDigests[v, l, a]
=============================================================================
