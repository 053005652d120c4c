--------------------------- MODULE MCFunctionCache ---------------------------
(* FunctionCache for TLC when nobody runs the generator's --check.           *)
EXTENDS ProgramView, TLC

TheOptions == [b \in Compilations |-> IF b = "p" THEN "debug" ELSE "release"]
=============================================================================
