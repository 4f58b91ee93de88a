----------------------------- MODULE MCJoystick -----------------------------
EXTENDS Joystick

\* No contact, and a finger on either side of the two places where it passes
\* from one port to the other: pads 5 and 6 of the vertical slider, 7 and 8 of
\* the horizontal one.
SomeTouches == {{}, {5}, {5, 6}, {6}, {7}, {7, 8}, {8}}
=============================================================================
