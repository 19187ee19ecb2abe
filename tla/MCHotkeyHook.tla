-------------------------- MODULE MCHotkeyHook --------------------------
(* Win, Shift, a letter and Escape; chords of the letter with and without  *)
(* Win.  With a second Win key in the runs that need one.                  *)
EXTENDS HotkeyHook

CONSTANTS lwin, rwin, shift, r, esc

KindOf  == [k \in Modifiers |-> IF k = shift THEN "shift" ELSE "win"]
WinAndPlain == {[mods |-> {"win"}, key |-> r], [mods |-> {}, key |-> r]}
WinOnly == {[mods |-> {"win"}, key |-> r]}
=============================================================================
