--------------------------- MODULE MCEpTransfers ---------------------------
EXTENDS EpTransfers, EndpointTable

Endpoints == (0..MaxEp) \cup {n + 128 : n \in 0..MaxEp}
Jobs == {e \in Endpoints : IsValid(e)}

\* Each endpoint has an entry, and each but endpoint 0 a job, of its own, within
\* the arrays; the transaction FIFO leads back to the endpoint whose entry the
\* hardware names, and its words do not overlap the entries; and a job is cut
\* by the size that was asked for when the endpoint was allocated
\* (udd_ep_get_ctrl, udd_ep_get_job, ISR(USB_TRNCOMPL_vect), udd_ep_get_size).
ASSUME EndpointsHaveTheirOwn ==
  /\ {CtrlIndex(e) : e \in Endpoints} = 0..(2 * (MaxEp + 1) - 1)
  /\ {JobIndex(e) : e \in Jobs} = 0..(2 * MaxEp - 1)
  /\ \A a, b \in Endpoints : CtrlIndex(a) = CtrlIndex(b) => a = b
  /\ \A e \in Endpoints : EndpointOf(CtrlAddress(e)) = e
  /\ {FifoAddress(-i) : i \in 1..FifoWords} = {TableAt - 2 * i : i \in 1..FifoWords}
  /\ \A i \in DOMAIN BufSize : EpGetSize(SizeField(BufSize[i])) = BufSize[i]
  /\ \A i \in DOMAIN BufSize :
       Multipacket(EpType(1), SizeField(BufSize[i])) <=> BufSize[i] < 1023
=============================================================================
