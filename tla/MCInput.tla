------------------------------ MODULE MCInput ------------------------------
EXTENDS Input

\* Parts of the DOOM preset: two directions of the pad, the stick, that fires, and
\* the button to use, which has its key for itself, or to fire, which has not
MCPad == [up |-> "Up", right |-> "Right"]
UseButton == [use |-> "Space"]
MCTap == {"Ctrl"}
=============================================================================
