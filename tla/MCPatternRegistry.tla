------------------------- MODULE MCPatternRegistry -------------------------
EXTENDS PatternRegistry

(* Two of the ten built-in patterns, so that a table of three fills up.    *)
MCBuiltIn == <<10, 20>>

=============================================================================
