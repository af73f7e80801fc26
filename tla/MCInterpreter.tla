--------------------------- MODULE MCInterpreter ---------------------------
(* Small instances of the python binding.                                  *)
EXTENDS Interpreter
=============================================================================
