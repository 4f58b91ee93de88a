---------------------------- MODULE MCHidDevice ----------------------------
EXTENDS HidDevice

Req(k, v) == [kind |-> k, wValue |-> v]

\* Every request that changes the device, accepted and refused in each way the
\* code refuses it.  The rate of SET_IDLE is the high byte; SET_PROTOCOL goes the
\* same way and is left to the proofs.
AllRequests ==
  {Req("SET_ADDRESS", 2),
   Req("SET_CONFIGURATION", 0), Req("SET_CONFIGURATION", 1), Req("SET_CONFIGURATION", 2),
   Req("SET_INTERFACE", 0), Req("SET_INTERFACE", 1),
   Req("SET_FEATURE_HALT", 0), Req("CLEAR_FEATURE_HALT", 0),
   Req("SET_FEATURE_WAKEUP", 0), Req("CLEAR_FEATURE_WAKEUP", 0),
   Req("SET_IDLE", 256), Req("UNSUPPORTED", 0)}

\* Enough to configure the device.
PlainRequests == {Req("SET_ADDRESS", 2), Req("SET_CONFIGURATION", 1)}
=============================================================================
