------------------------- MODULE MCRequestDispatch -------------------------
EXTENDS RequestDispatch

CONSTANTS r1, r2, r3, b1, p1, self

AnyHost == [r \in Requests |-> "any"]
PreferPeer == [r \in Requests |-> IF r = r1 THEN <<p1, self>> ELSE <<>>]
NoPreference == [r \in Requests |-> <<>>]
OneSlot == [t \in Backends \cup Peers |-> 1]
ImageOnly == {r2}
PinSecond == [r \in Requests |-> IF r = r2 THEN p1 ELSE "any"]
First == {r1}
Third == {r3}

\* The code's steps go on; the mutex is fair, so whoever waits for it gets it.
Fairness ==
    /\ WF_vars(ScanWaiter) /\ WF_vars(ScanEnd) /\ WF_vars(Tick)
    /\ \A r \in Requests : WF_vars(Receive(r)) /\ WF_vars(EndLocal(r)) /\ SF_vars(Dispatch(r))

FairSpec == Spec /\ Fairness
=============================================================================
