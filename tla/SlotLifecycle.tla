--------------------------- MODULE SlotLifecycle ---------------------------
(***************************************************************************)
(* What the application of a RakPeer may rely on: an index of the remote   *)
(* system list is handed to a new player only after the application was    *)
(* told that the player before it is gone, and no player has two indices.  *)
(* Nothing is promised about a goodbye without a welcome: a peer that      *)
(* leaves during the handshake may be reported gone and never as new.      *)
(***************************************************************************)
EXTENDS Integers, Sequences

CONSTANTS Peers, Slots

VARIABLE notices  \* notices[i]: the packets about index i, oldest first

Nobody == "Nobody"

\* The player the application takes to be at index i.
Present(i) ==
  IF notices[i] = <<>> \/ notices[i][Len(notices[i])][1] # "arrived"
  THEN Nobody
  ELSE notices[i][Len(notices[i])][2]

Init == notices = [i \in Slots |-> <<>>]

Arrive(i, p) ==
  /\ Present(i) = Nobody
  /\ \A j \in Slots : Present(j) # p
  /\ notices' = [notices EXCEPT ![i] = Append(@, <<"arrived", p>>)]

Leave(i, p) ==
  /\ Present(i) \in {Nobody, p}
  /\ notices' = [notices EXCEPT ![i] = Append(@, <<"gone", p>>)]

Next == \E i \in Slots, p \in Peers : Arrive(i, p) \/ Leave(i, p)

Spec == Init /\ [][Next]_notices
=============================================================================
