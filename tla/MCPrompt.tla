------------------------------ MODULE MCPrompt ------------------------------
(* Lines of at most two characters and a history of two lines.             *)
EXTENDS Prompt

MCLetters == {"a"}
MCShifted(letter) == "A"
=============================================================================
