------------------------------- MODULE MCNvm -------------------------------
EXTENDS Nvm

OneBit == {0}
\* A byte, a page, and more than a page, of mixed values.
MCBuffers == {<<{}>>, <<{0}, {}>>, <<{}, {}, {0}>>}
=============================================================================
