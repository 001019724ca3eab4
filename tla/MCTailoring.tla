---------------------------- MODULE MCTailoring -----------------------------
(* A small instance of Tailoring for TLC: a body may change the text, add a *)
(* structure to the same text, or send the text alone.                     *)
EXTENDS Tailoring, TLC

CONSTANTS x1, x2, s1

MCText == {x1, x2}

MCBody == {[raw_text |-> x1, structured_json |-> NoStructure],
           [raw_text |-> x1, structured_json |-> s1],
           [raw_text |-> x2, structured_json |-> NoStructure]}
=============================================================================
