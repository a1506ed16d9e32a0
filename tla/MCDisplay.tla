----------------------------- MODULE MCDisplay -----------------------------
(* A screen of 7 by 5 cells with a pane of 3 by 3. *)
EXTENDS Display

MCShifted(letter) == letter
MCBanner == <<"out", "newline", "newline", "out", "out", "out", "newline">>
MCOutputs == {<< >>, <<"out", "out", "out", "newline">>}
MCCodes == {"extend", "left", "home", "up", "down", "delete", "enter", "backspace"} \cup Letters
MCGlyphs == {" ", "frame", ">", "newline", "out"} \cup Letters
=============================================================================
