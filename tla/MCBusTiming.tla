---------------------------- MODULE MCBusTiming ----------------------------
EXTENDS BusTiming

\* The times of USB 2.0 in milliseconds: a suspend is 3 ms of silence; a resume
\* is driven for 20 ms, a reset for 10.
SpecSuspendTime == 3
SpecResumeTime == 20
SpecResetTime == 10
=============================================================================
