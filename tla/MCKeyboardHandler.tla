--------------------------- MODULE MCKeyboardHandler ---------------------------
(* Instances of KeyboardHandler for TLC: see the .cfg files. *)
EXTENDS KeyboardHandler

\* A letter, and an arrow whose last byte is that of another letter.
Terminal   == {"W", "ARROW_UP"}
WithEscape == {"ARROW_UP", "ESCAPE"}

\* One driving key, both Ctrl keys and C.
Keyboard   == {"W", "LEFTCTRL", "RIGHTCTRL", "C"}
OneKey     == {"W"}
=============================================================================
