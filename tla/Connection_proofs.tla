-------------------------- MODULE Connection_proofs --------------------------
(***************************************************************************)
(* Proofs about Connection for any clients, any number of slots and any    *)
(* number of open requests.                                                *)
(***************************************************************************)
EXTENDS Connection, FiniteSetTheorems, SequenceTheorems,
        WellFoundedInduction, TLAPS

\* The peer's connection request was sent and has arrived.
Requested(p) ==
  /\ "CONNECTION_REQUEST" \notin toServer[p]
  /\ stage[p] \notin {"idle", "asking"}

(***************************************************************************)
(* What the client knows of its connection before it says so.              *)
(***************************************************************************)
ClientInv ==
  \A p \in Peers :
    /\ clientMode[p] # "INACTIVE" \/ toServer[p] # {} =>
         stage[p] \notin {"idle", "asking"}
    /\ stage[p] = "leaving" => clientMode[p] # "REQUESTED_CONNECTION"
    /\ "NEW_INCOMING_CONNECTION" \in toServer[p] =>
         "CONNECTION_REQUEST_ACCEPTED" \in heard[p]

\* No two active slots have one peer.
Unambiguous ==
  \A i, j \in Slots :
    remote[i].active /\ remote[j].active /\ remote[i].peer = remote[j].peer =>
      i = j

\* A handshake is in progress only with a peer that gave the password.
HandshakeInv ==
  \A i \in Slots :
    remote[i].active /\ remote[i].mode = "HANDLING_CONNECTION_REQUEST" =>
      remote[i].peer \in Invited /\ Requested(remote[i].peer)

\* The modes whose end the application is told of, REQUESTED_CONNECTION apart.
ReportedModes == {"CONNECTED", "DISCONNECT_ASAP", "DISCONNECT_ON_NO_ACK"}

\* The player the application takes to be at an index is the slot's, and its
\* end will be reported.
PresentInv ==
  \A i \in Slots : Lifecycle!Present(i) # Nobody =>
    /\ remote[i].active
    /\ remote[i].peer = Lifecycle!Present(i)
    /\ remote[i].mode \in ReportedModes
    /\ Requested(remote[i].peer)

SlotInv == Unambiguous /\ HandshakeInv /\ PresentInv /\ ArrivalsAreAgreed

ConnectionInv == TypeOK /\ ClientInv /\ SlotInv
-----------------------------------------------------------------------------
\* Every non-empty set of naturals has a least element.
LEMMA LeastNat ==
  ASSUME NEW T \in SUBSET Nat, T # {}
  PROVE  \E x \in T : \A y \in T : x <= y
<1> DEFINE R == {ss \in Nat \X Nat : ss[1] < ss[2]}
<1>1. IsWellFoundedOn(R, Nat)
  BY NatLessThanWellFounded DEF OpToRel
<1>2. PICK x \in T : \A y \in T : ~ (<<y, x>> \in R)
  <2> HIDE DEF R
  <2> QED BY <1>1, WFMin
<1>3. \A y \in T : ~ (y < x)
  BY <1>2
<1> QED BY <1>2, <1>3

\* The slot that is assigned is a free one.
LEMMA FirstFree ==
  ASSUME FreeSlots # {}
  PROVE  (CHOOSE i \in FreeSlots : \A j \in FreeSlots : i <= j) \in FreeSlots
<1>1. FreeSlots \subseteq Nat
  BY ConnectionAssumption DEF FreeSlots, Slots
<1>2. \E i \in FreeSlots : \A j \in FreeSlots : i <= j
  BY <1>1, LeastNat
<1> QED BY <1>2

\* What every step of either side keeps about every peer.
GoesOn ==
  \A p \in Peers : /\ Requested(p) => Requested(p)'
                   /\ heard[p] \subseteq heard'[p]

\* A step of a client leaves the server alone and keeps what the server has
\* concluded about the clients.
LEMMA ClientSteps ==
  ASSUME TypeOK, ClientInv, NEW p \in Peers, ClientStep(p)
  PROVE  TypeOK' /\ ClientInv' /\ GoesOn /\ UNCHANGED serverVars
<1> USE DEF TypeOK, ClientInv, GoesOn, Requested, serverVars, clientVars,
            Modes, Messages, Refusals
<1>1. CASE Connect(p)
  BY <1>1 DEF Connect
<1>2. CASE SendOpenRequest(p)
  BY <1>2, ConnectionAssumption DEF SendOpenRequest
<1>3. CASE RequestsExhausted(p)
  BY <1>3 DEF RequestsExhausted, EndAttempt
<1>4. CASE ReceiveRefusal(p)
  BY <1>4 DEF ReceiveRefusal, EndAttempt
<1>5. CASE ReceiveOpenReply(p)
  BY <1>5 DEF ReceiveOpenReply
<1>6. CASE ReceiveAccepted(p)
  <2>1. UNCHANGED <<stage, requestsMade, serverVars, offline>>
    BY <1>6 DEF ReceiveAccepted, ClientReceives
  <2>2. toClient' \in [Peers -> SUBSET Messages]
    BY <1>6 DEF ReceiveAccepted, ClientReceives
  <2>3. CASE clientMode[p] = "REQUESTED_CONNECTION"
    <3>1. stage[p] # "leaving"
      BY <2>3
    <3>2. /\ clientMode' = [clientMode EXCEPT ![p] = "CONNECTED"]
          /\ heard' = [heard EXCEPT
                         ![p] = @ \cup {"CONNECTION_REQUEST_ACCEPTED"}]
          /\ toServer' = [toServer EXCEPT
                            ![p] = @ \cup {"NEW_INCOMING_CONNECTION"}]
      BY <1>6, <2>3, <3>1 DEF ReceiveAccepted, Tell
    <3>3. TypeOK'
      BY <2>1, <2>2, <3>2
    <3>4. ClientInv' /\ GoesOn
      BY <2>1, <2>3, <3>1, <3>2
    <3> QED BY <2>1, <3>3, <3>4
  <2>4. CASE clientMode[p] # "REQUESTED_CONNECTION"
    <3>1. /\ clientMode' = [clientMode EXCEPT ![p] = "DISCONNECT_ASAP"]
          /\ UNCHANGED <<heard, toServer>>
      BY <1>6, <2>4 DEF ReceiveAccepted
    <3>2. stage[p] \notin {"idle", "asking"}
      BY <1>6 DEF ReceiveAccepted, ClientReceives
    <3> QED BY <2>1, <2>2, <3>1, <3>2
  <2> QED BY <2>3, <2>4
<1>7. CASE ReceiveInvalidPassword(p)
  BY <1>7 DEF ReceiveInvalidPassword, ClientReceives, Tell
<1>8. CASE ReceiveFarewell(p)
  BY <1>8 DEF ReceiveFarewell, ClientReceives
<1>9. CASE Disconnect(p)
  <2>1. /\ stage' = [stage EXCEPT ![p] = "leaving"]
        /\ UNCHANGED <<requestsMade, heard, serverVars, offline, toClient>>
        /\ stage[p] \in {"asking", "asked"}
    BY <1>9 DEF Disconnect
  <2>2. CASE clientMode[p] = "INACTIVE"
    <3>1. UNCHANGED <<clientMode, toServer>>
      BY <1>9, <2>2 DEF Disconnect
    <3> QED BY <2>1, <2>2, <3>1
  <2>3. CASE clientMode[p] # "INACTIVE"
    <3>1. /\ clientMode' = [clientMode EXCEPT ![p] = "DISCONNECT_ASAP"]
          /\ \/ toServer' = toServer
             \/ toServer' = [toServer EXCEPT
                               ![p] = @ \cup {"DISCONNECTION_NOTIFICATION"}]
      BY <1>9, <2>3 DEF Disconnect
    <3>2. toServer' \in [Peers -> SUBSET Messages]
      <4>1. CASE toServer' = toServer
        BY <4>1
      <4>2. CASE toServer' # toServer
        <5>1. /\ toServer \in [Peers -> SUBSET Messages]
              /\ "DISCONNECTION_NOTIFICATION" \in Messages
          OBVIOUS
        <5>2. toServer' = [toServer EXCEPT
                             ![p] = @ \cup {"DISCONNECTION_NOTIFICATION"}]
          BY <3>1, <4>2
        <5> HIDE DEF Messages, TypeOK, ClientInv
        <5> QED BY <5>1, <5>2
      <4> QED BY <4>1, <4>2
    <3>3. \A q \in Peers :
            /\ toServer'[q] \subseteq
                 toServer[q] \cup {"DISCONNECTION_NOTIFICATION"}
            /\ q # p => toServer'[q] = toServer[q]
      BY <3>1
    <3> HIDE DEF Messages
    <3>4. TypeOK'
      BY <2>1, <3>1, <3>2
    <3>5. ClientInv'
      BY <2>1, <2>3, <3>1, <3>3
    <3>6. GoesOn
      BY <2>1, <3>3
    <3> QED BY <2>1, <3>4, <3>5, <3>6
  <2> QED BY <2>2, <2>3
<1>10. CASE Stop(p)
  BY <1>10 DEF Stop
<1>11. CASE ClientFinishes(p) \/ ClientExpires(p) \/ ClientLoses(p)
  <2>1. ClientDrops(p)
    BY <1>11 DEF ClientFinishes, ClientExpires, ClientLoses
  <2>2. /\ clientMode' = [clientMode EXCEPT ![p] = "INACTIVE"]
        /\ toServer' = [toServer EXCEPT ![p] = {}]
        /\ UNCHANGED <<stage, requestsMade, serverVars, offline, toClient>>
        /\ clientMode[p] # "INACTIVE"
    BY <2>1 DEF ClientDrops
  <2>3. PICK told : /\ told \in SUBSET { "CONNECTION_ATTEMPT_FAILED",
                        "CONNECTION_LOST", "DISCONNECTION_NOTIFICATION" }
                   /\ heard' = [heard EXCEPT ![p] = @ \cup told]
    <3>1. Farewell(clientMode[p]) \in SUBSET { "CONNECTION_ATTEMPT_FAILED",
            "CONNECTION_LOST", "DISCONNECTION_NOTIFICATION" }
      BY DEF Farewell
    <3>2. \/ heard' = [heard EXCEPT ![p] = @ \cup {}]
          \/ heard' = [heard EXCEPT ![p] = @ \cup Farewell(clientMode[p])]
      BY <2>1 DEF ClientDrops, Tell
    <3> QED BY <3>1, <3>2
  <2>4. TypeOK'
    BY <2>2, <2>3
  <2>5. ClientInv' /\ GoesOn
    BY <2>2, <2>3
  <2> QED BY <2>2, <2>4, <2>5
<1> QED
  BY <1>1, <1>2, <1>3, <1>4, <1>5, <1>6, <1>7, <1>8, <1>9, <1>10, <1>11
     DEF ClientStep
-----------------------------------------------------------------------------
(* The steps of the server.                                                *)

SlotRecord == [peer : Peers \cup {Nobody}, mode : Modes,
               active : BOOLEAN, holding : BOOLEAN]

\* An active slot has a peer.
LEMMA ActivePeer ==
  ASSUME TypeOK, NEW i \in Slots, remote[i].active
  PROVE  remote[i].peer \in Peers
<1>1. /\ remote[i] \in SlotRecord
      /\ remote[i].peer = Nobody => ~remote[i].active
  BY DEF TypeOK, SlotRecord
<1> QED BY <1>1 DEF SlotRecord

\* A step that only takes messages from the clients leaves what is known of
\* the clients.
LEMMA ServerKeepsClients ==
  ASSUME TypeOK, ClientInv, UNCHANGED clientVars,
         \A p \in Peers : toServer'[p] \subseteq toServer[p]
  PROVE  ClientInv' /\ GoesOn
BY DEF ClientInv, GoesOn, Requested, clientVars

\* What SetMode does to the slots.
LEMMA ModeSet ==
  ASSUME TypeOK, NEW i \in Slots, NEW m \in Modes, SetMode(i, m)
  PROVE  /\ remote' \in [Slots -> SlotRecord]
         /\ \A j \in Slots : /\ remote'[j].peer = remote[j].peer
                             /\ remote'[j].active = remote[j].active
                             /\ j # i => remote'[j].mode = remote[j].mode
         /\ remote'[i].mode = m
<1>1. remote \in [Slots -> SlotRecord]
  BY DEF TypeOK, SlotRecord
<1>2. remote' = [remote EXCEPT ![i] = [remote[i] EXCEPT !.mode = m]]
  BY DEF SetMode
<1>3. /\ [remote[i] EXCEPT !.mode = m] \in SlotRecord
      /\ [remote[i] EXCEPT !.mode = m].mode = m
      /\ [remote[i] EXCEPT !.mode = m].peer = remote[i].peer
      /\ [remote[i] EXCEPT !.mode = m].active = remote[i].active
  BY <1>1 DEF SlotRecord
<1> QED BY <1>1, <1>2, <1>3

\* The slot is closed: the rest of it stays.
Closes(i) ==
  remote' = [remote EXCEPT ![i].active = FALSE, ![i].holding = FALSE]

\* What closing a slot does to the slots.
LEMMA SlotClosed ==
  ASSUME TypeOK, NEW i \in Slots, Closes(i)
  PROVE  /\ remote' \in [Slots -> SlotRecord]
         /\ \A j \in Slots : j # i => remote'[j] = remote[j]
         /\ ~remote'[i].active
<1>1. remote \in [Slots -> SlotRecord]
  BY DEF TypeOK, SlotRecord
<1>2. remote' = [remote EXCEPT ![i] = [[remote[i] EXCEPT !.active = FALSE]
                                         EXCEPT !.holding = FALSE]]
  BY <1>1 DEF Closes, SlotRecord
<1>3. /\ [[remote[i] EXCEPT !.active = FALSE]
            EXCEPT !.holding = FALSE] \in SlotRecord
      /\ [[remote[i] EXCEPT !.active = FALSE] EXCEPT !.holding = FALSE].active
           = FALSE
  BY <1>1 DEF SlotRecord
<1> QED BY <1>1, <1>2, <1>3

\* A slot's handshake goes on, or its connection does.
Continues(j) ==
  /\ remote'[j].peer = remote[j].peer
  /\ remote'[j].active = remote[j].active
  /\ Lifecycle!Present(j) # Nobody /\ remote[j].mode \in ReportedModes =>
       remote'[j].mode \in ReportedModes
  /\ remote'[j].mode = "HANDLING_CONNECTION_REQUEST" =>
       \/ remote[j].mode = "HANDLING_CONNECTION_REQUEST"
       \/ remote[j].peer \in Invited /\ Requested(remote[j].peer)'

\* A slot is closed of which the application was told nothing.
ClosesUnseen(j) == remote[j].mode \notin ReportedModes /\ ~remote'[j].active

\* Steps in which nobody arrives and the application is told nothing.
LEMMA QuietStep ==
  ASSUME ConnectionInv, GoesOn, UNCHANGED notices,
         \A j \in Slots : Continues(j) \/ ClosesUnseen(j)
  PROVE  SlotInv'
<1> USE DEF ConnectionInv, SlotInv
<1>1. Unambiguous'
  BY DEF Unambiguous, Continues, ClosesUnseen
<1>2. HandshakeInv'
  <2> SUFFICES ASSUME NEW i \in Slots, remote'[i].active,
                      remote'[i].mode = "HANDLING_CONNECTION_REQUEST"
               PROVE  remote'[i].peer \in Invited /\ Requested(remote[i].peer)'
    BY DEF HandshakeInv
  <2>1. Continues(i) /\ remote'[i].peer = remote[i].peer
    BY DEF Continues, ClosesUnseen
  <2>2. remote[i].active /\ remote[i].peer \in Peers
    BY <2>1, ActivePeer DEF Continues
  <2>3. CASE remote[i].mode = "HANDLING_CONNECTION_REQUEST"
    <3>1. remote[i].peer \in Invited /\ Requested(remote[i].peer)
      BY <2>2, <2>3 DEF HandshakeInv
    <3> QED BY <2>1, <2>2, <3>1 DEF GoesOn, Requested
  <2>4. CASE remote[i].mode # "HANDLING_CONNECTION_REQUEST"
    BY <2>1, <2>4 DEF Continues
  <2> QED BY <2>3, <2>4
<1>3. PresentInv'
  <2> SUFFICES ASSUME NEW i \in Slots, Lifecycle!Present(i)' # Nobody
               PROVE  /\ remote'[i].active
                      /\ remote'[i].peer = Lifecycle!Present(i)'
                      /\ remote'[i].mode \in ReportedModes
                      /\ Requested(remote[i].peer)'
    BY DEF PresentInv, Nobody
  <2>1. Lifecycle!Present(i)' = Lifecycle!Present(i)
    BY DEF Lifecycle!Present, Lifecycle!Nobody
  <2>2. /\ remote[i].active
        /\ remote[i].peer = Lifecycle!Present(i)
        /\ remote[i].mode \in ReportedModes
        /\ Requested(remote[i].peer)
    BY <2>1 DEF PresentInv
  <2>3. Continues(i) /\ remote[i].peer \in Peers
    BY <2>2, ActivePeer DEF ClosesUnseen
  <2> QED BY <2>1, <2>2, <2>3 DEF Continues, GoesOn, Requested
<1>4. ArrivalsAreAgreed'
  <2> SUFFICES ASSUME NEW i \in Slots, NEW k \in DOMAIN notices[i],
                      notices[i][k][1] = "arrived"
               PROVE  /\ notices[i][k][2] \in Invited
                      /\ "CONNECTION_REQUEST_ACCEPTED"
                           \in heard'[notices[i][k][2]]
    BY DEF ArrivalsAreAgreed
  <2>1. /\ notices[i][k][2] \in Invited
        /\ "CONNECTION_REQUEST_ACCEPTED" \in heard[notices[i][k][2]]
    BY DEF ArrivalsAreAgreed
  <2>2. notices[i][k][2] \in Peers
    BY <2>1, ConnectionAssumption
  <2> QED BY <2>1, <2>2 DEF GoesOn
<1> QED BY <1>1, <1>2, <1>3, <1>4

\* What the application is told about a slot.
LEMMA Notified ==
  ASSUME TypeOK, NEW i \in Slots, remote[i].active,
         NEW what \in {"arrived", "gone"}, Notify(i, what)
  PROVE  /\ notices' \in [Slots -> Seq({"arrived", "gone"} \X Peers)]
         /\ \A j \in Slots : j # i =>
              /\ notices'[j] = notices[j]
              /\ Lifecycle!Present(j)' = Lifecycle!Present(j)
         /\ Lifecycle!Present(i)' =
              IF what = "arrived" THEN remote[i].peer ELSE Nobody
         /\ \A k \in DOMAIN notices'[i] :
              \/ k \in DOMAIN notices[i] /\ notices'[i][k] = notices[i][k]
              \/ notices'[i][k] = <<what, remote[i].peer>>
<1> DEFINE Notice == {"arrived", "gone"} \X Peers
           e == <<what, remote[i].peer>>
<1>1. notices \in [Slots -> Seq(Notice)] /\ notices[i] \in Seq(Notice)
  BY DEF TypeOK
<1>2. e \in Notice
  BY ActivePeer
<1>3. notices' = [notices EXCEPT ![i] = Append(notices[i], e)]
  BY DEF Notify
<1>4. e[1] = what /\ e[2] = remote[i].peer
  OBVIOUS
<1> HIDE DEF Notice, e
<1>5. /\ Append(notices[i], e) \in Seq(Notice)
      /\ Len(Append(notices[i], e)) = Len(notices[i]) + 1
      /\ Append(notices[i], e) # <<>>
      /\ Append(notices[i], e)[Len(notices[i]) + 1] = e
      /\ DOMAIN Append(notices[i], e) = 1..(Len(notices[i]) + 1)
      /\ DOMAIN notices[i] = 1..Len(notices[i]) /\ Len(notices[i]) \in Nat
      /\ \A k \in 1..Len(notices[i]) : Append(notices[i], e)[k] = notices[i][k]
  BY <1>1, <1>2
<1>6. notices' \in [Slots -> Seq(Notice)]
  BY <1>1, <1>3, <1>5
<1>7. notices'[i] = Append(notices[i], e)
  BY <1>1, <1>3
<1>8. \A j \in Slots : j # i => notices'[j] = notices[j]
  BY <1>1, <1>3
<1>9. \A j \in Slots : j # i => Lifecycle!Present(j)' = Lifecycle!Present(j)
  BY <1>8 DEF Lifecycle!Present, Lifecycle!Nobody
<1>10. Lifecycle!Present(i)' =
         IF what = "arrived" THEN remote[i].peer ELSE Nobody
  BY <1>4, <1>5, <1>7 DEF Lifecycle!Present, Lifecycle!Nobody, Nobody
<1>11. ASSUME NEW k \in DOMAIN notices'[i]
       PROVE  \/ k \in DOMAIN notices[i] /\ notices'[i][k] = notices[i][k]
              \/ notices'[i][k] = e
  <2>1. k \in 1..(Len(notices[i]) + 1)
    BY <1>5, <1>7
  <2>2. CASE k \in 1..Len(notices[i])
    BY <1>5, <1>7, <2>2
  <2>3. CASE k = Len(notices[i]) + 1
    BY <1>5, <1>7, <2>3
  <2> QED BY <1>5, <2>1, <2>2, <2>3
<1> QED BY <1>6, <1>8, <1>9, <1>10, <1>11 DEF Notice, e

\* What SlotLifecycle makes of a step.
LifecycleStep == [Lifecycle!Next]_notices

\* Nobody hears of a slot that is assigned.
LEMMA AssignStep ==
  ASSUME ConnectionInv, GoesOn, UNCHANGED notices, NEW p \in Peers,
         ~IsKnown(p), FreeSlots # {}, AssignSlot(p)
  PROVE  remote' \in [Slots -> SlotRecord] /\ SlotInv'
<1> DEFINE i == CHOOSE k \in FreeSlots : \A j \in FreeSlots : k <= j
<1>1. i \in Slots /\ ~remote[i].active
  BY FirstFree DEF FreeSlots
<1>2. /\ remote \in [Slots -> SlotRecord]
      /\ [peer |-> p, mode |-> "UNVERIFIED_SENDER", active |-> TRUE,
          holding |-> FALSE] \in SlotRecord
  BY DEF ConnectionInv, TypeOK, SlotRecord, Modes
<1>3. remote' = [remote EXCEPT
                   ![i] = [peer |-> p, mode |-> "UNVERIFIED_SENDER",
                           active |-> TRUE, holding |-> FALSE]]
  BY DEF AssignSlot
<1> HIDE DEF i
<1>4. /\ remote'[i].peer = p /\ remote'[i].mode = "UNVERIFIED_SENDER"
      /\ \A j \in Slots : j # i => remote'[j] = remote[j]
  BY <1>1, <1>2, <1>3
<1>5. \A j \in Slots : remote[j].active => remote[j].peer # p
  BY DEF IsKnown, SlotsOf
<1>6. Unambiguous'
  BY <1>1, <1>4, <1>5 DEF ConnectionInv, SlotInv, Unambiguous
<1>7. HandshakeInv'
  <2> SUFFICES ASSUME NEW j \in Slots, remote'[j].active,
                      remote'[j].mode = "HANDLING_CONNECTION_REQUEST"
               PROVE  remote'[j].peer \in Invited /\ Requested(remote[j].peer)'
    BY DEF HandshakeInv
  <2>1. remote'[j] = remote[j]
    BY <1>4
  <2>2. /\ remote[j].peer \in Invited /\ Requested(remote[j].peer)
        /\ remote[j].peer \in Peers
    BY <2>1, ConnectionAssumption DEF ConnectionInv, SlotInv, HandshakeInv
  <2> QED BY <2>1, <2>2 DEF GoesOn, Requested
<1>8. PresentInv'
  <2> SUFFICES ASSUME NEW j \in Slots, Lifecycle!Present(j)' # Nobody
               PROVE  /\ remote'[j].active
                      /\ remote'[j].peer = Lifecycle!Present(j)'
                      /\ remote'[j].mode \in ReportedModes
                      /\ Requested(remote[j].peer)'
    BY DEF PresentInv, Nobody
  <2>1. Lifecycle!Present(j)' = Lifecycle!Present(j)
    BY DEF Lifecycle!Present, Lifecycle!Nobody
  <2>2. /\ remote[j].active
        /\ remote[j].peer = Lifecycle!Present(j)
        /\ remote[j].mode \in ReportedModes
        /\ Requested(remote[j].peer)
    BY <2>1 DEF ConnectionInv, SlotInv, PresentInv
  <2>3. remote'[j] = remote[j] /\ remote[j].peer \in Peers
    BY <1>1, <1>4, <2>2, ActivePeer DEF ConnectionInv
  <2> QED BY <2>1, <2>2, <2>3 DEF GoesOn, Requested
<1>9. ArrivalsAreAgreed'
  <2> SUFFICES ASSUME NEW j \in Slots, NEW k \in DOMAIN notices[j],
                      notices[j][k][1] = "arrived"
               PROVE  /\ notices[j][k][2] \in Invited
                      /\ "CONNECTION_REQUEST_ACCEPTED"
                           \in heard'[notices[j][k][2]]
    BY DEF ArrivalsAreAgreed
  <2>1. /\ notices[j][k][2] \in Invited
        /\ "CONNECTION_REQUEST_ACCEPTED" \in heard[notices[j][k][2]]
    BY DEF ConnectionInv, SlotInv, ArrivalsAreAgreed
  <2>2. notices[j][k][2] \in Peers
    BY <2>1, ConnectionAssumption
  <2> QED BY <2>1, <2>2 DEF GoesOn
<1> QED BY <1>2, <1>3, <1>6, <1>7, <1>8, <1>9 DEF SlotInv

\* A player that is told of in a step joins those the application was told of.
LEMMA ArrivalsStep ==
  ASSUME ConnectionInv, GoesOn, NEW i \in Slots, remote[i].active,
         NEW what \in {"arrived", "gone"}, Notify(i, what),
         what = "arrived" =>
           /\ remote[i].peer \in Invited
           /\ "CONNECTION_REQUEST_ACCEPTED" \in heard[remote[i].peer]
  PROVE  ArrivalsAreAgreed'
<1> SUFFICES ASSUME NEW j \in Slots, NEW k \in DOMAIN notices'[j],
                    notices'[j][k][1] = "arrived"
             PROVE  /\ notices'[j][k][2] \in Invited
                    /\ "CONNECTION_REQUEST_ACCEPTED"
                         \in heard'[notices'[j][k][2]]
  BY DEF ArrivalsAreAgreed
<1>1. \/ k \in DOMAIN notices[j] /\ notices'[j][k] = notices[j][k]
      \/ j = i /\ notices'[j][k] = <<what, remote[i].peer>>
  <2>1. CASE j = i
    BY <2>1, Notified DEF ConnectionInv
  <2>2. CASE j # i
    BY <2>2, Notified DEF ConnectionInv
  <2> QED BY <2>1, <2>2
<1>2. CASE k \in DOMAIN notices[j] /\ notices'[j][k] = notices[j][k]
  <2>1. /\ notices[j][k][2] \in Invited
        /\ "CONNECTION_REQUEST_ACCEPTED" \in heard[notices[j][k][2]]
    BY <1>2 DEF ConnectionInv, SlotInv, ArrivalsAreAgreed
  <2>2. notices[j][k][2] \in Peers
    BY <2>1, ConnectionAssumption
  <2> QED BY <1>2, <2>1, <2>2 DEF GoesOn
<1>3. CASE j = i /\ notices'[j][k] = <<what, remote[i].peer>>
  <2>1. notices'[j][k][1] = what /\ notices'[j][k][2] = remote[i].peer
    BY <1>3
  <2>2. /\ remote[i].peer \in Invited
        /\ "CONNECTION_REQUEST_ACCEPTED" \in heard[remote[i].peer]
    BY <2>1
  <2>3. remote[i].peer \in Peers
    BY ActivePeer DEF ConnectionInv
  <2> QED BY <2>1, <2>2, <2>3 DEF GoesOn
<1> QED BY <1>1, <1>2, <1>3

\* A player is announced: it gave the password, and knows.
LEMMA WelcomeStep ==
  ASSUME ConnectionInv, GoesOn, NEW i \in Slots, remote[i].active,
         remote[i].mode = "HANDLING_CONNECTION_REQUEST",
         "NEW_INCOMING_CONNECTION" \in toServer[remote[i].peer],
         SetMode(i, "CONNECTED"), Notify(i, "arrived")
  PROVE  /\ remote' \in [Slots -> SlotRecord]
         /\ notices' \in [Slots -> Seq({"arrived", "gone"} \X Peers)]
         /\ SlotInv' /\ LifecycleStep
<1> DEFINE p == remote[i].peer
<1>1. /\ p \in Peers /\ p \in Invited /\ Requested(p)
      /\ "CONNECTION_REQUEST_ACCEPTED" \in heard[p]
  BY ActivePeer DEF ConnectionInv, SlotInv, HandshakeInv, ClientInv
<1>2. p # Nobody
  BY <1>1, ConnectionAssumption DEF Nobody
<1>3. /\ remote' \in [Slots -> SlotRecord]
      /\ \A j \in Slots : /\ remote'[j].peer = remote[j].peer
                          /\ remote'[j].active = remote[j].active
                          /\ j # i => remote'[j].mode = remote[j].mode
      /\ remote'[i].mode = "CONNECTED"
  BY ModeSet DEF ConnectionInv, Modes
<1>4. /\ notices' \in [Slots -> Seq({"arrived", "gone"} \X Peers)]
      /\ \A j \in Slots : j # i =>
              Lifecycle!Present(j)' = Lifecycle!Present(j)
      /\ Lifecycle!Present(i)' = p
  BY Notified DEF ConnectionInv
<1>5. Lifecycle!Present(i) = Nobody
  BY DEF ConnectionInv, SlotInv, PresentInv, ReportedModes
<1>6. \A j \in Slots : Lifecycle!Present(j) # p
  <2> SUFFICES ASSUME NEW j \in Slots, Lifecycle!Present(j) = p
               PROVE  FALSE
    OBVIOUS
  <2>1. remote[j].active /\ remote[j].peer = p
    BY <1>2 DEF ConnectionInv, SlotInv, PresentInv
  <2>2. j = i
    BY <2>1 DEF ConnectionInv, SlotInv, Unambiguous
  <2> QED BY <1>2, <1>5, <2>2
<1>7. LifecycleStep
  <2>1. Lifecycle!Arrive(i, p)
    BY <1>5, <1>6
       DEF Lifecycle!Arrive, Lifecycle!Nobody, Nobody, Notify
  <2> QED BY <1>1, <2>1 DEF LifecycleStep, Lifecycle!Next
<1>8. Unambiguous'
  BY <1>3 DEF ConnectionInv, SlotInv, Unambiguous
<1>9. HandshakeInv'
  <2> SUFFICES ASSUME NEW j \in Slots, remote'[j].active,
                      remote'[j].mode = "HANDLING_CONNECTION_REQUEST"
               PROVE  remote'[j].peer \in Invited /\ Requested(remote[j].peer)'
    BY DEF HandshakeInv
  <2>1. j # i /\ remote[j].active /\ remote'[j].peer = remote[j].peer
    BY <1>3
  <2>2. /\ remote[j].peer \in Invited /\ Requested(remote[j].peer)
        /\ remote[j].peer \in Peers
    BY <1>3, <2>1, ConnectionAssumption
       DEF ConnectionInv, SlotInv, HandshakeInv
  <2> QED BY <2>1, <2>2 DEF GoesOn, Requested
<1>10. PresentInv'
  <2> SUFFICES ASSUME NEW j \in Slots, Lifecycle!Present(j)' # Nobody
               PROVE  /\ remote'[j].active
                      /\ remote'[j].peer = Lifecycle!Present(j)'
                      /\ remote'[j].mode \in ReportedModes
                      /\ Requested(remote[j].peer)'
    BY DEF PresentInv, Nobody
  <2>1. CASE j = i
    BY <1>1, <1>3, <1>4, <2>1 DEF ReportedModes, GoesOn, Requested
  <2>2. CASE j # i
    <3>1. /\ remote[j].active
          /\ remote[j].peer = Lifecycle!Present(j)
          /\ remote[j].mode \in ReportedModes
          /\ Requested(remote[j].peer)
      BY <1>4, <2>2 DEF ConnectionInv, SlotInv, PresentInv
    <3>2. remote[j].peer \in Peers
      BY <3>1, ActivePeer DEF ConnectionInv
    <3> QED BY <1>3, <1>4, <2>2, <3>1, <3>2 DEF GoesOn, Requested
  <2> QED BY <2>1, <2>2
<1>11. ArrivalsAreAgreed'
  BY <1>1, ArrivalsStep
<1> QED BY <1>3, <1>4, <1>7, <1>8, <1>9, <1>10, <1>11 DEF SlotInv

\* A connection is dropped: the player the application knows of is reported
\* gone, whoever ended it.
LEMMA DropStep ==
  ASSUME ConnectionInv, GoesOn, NEW i \in Slots, remote[i].active,
         Closes(i), Goodbye(i)
  PROVE  /\ remote' \in [Slots -> SlotRecord]
         /\ notices' \in [Slots -> Seq({"arrived", "gone"} \X Peers)]
         /\ SlotInv' /\ LifecycleStep
<1>1. /\ remote' \in [Slots -> SlotRecord]
      /\ \A j \in Slots : j # i => remote'[j] = remote[j]
      /\ ~remote'[i].active
  BY SlotClosed DEF ConnectionInv
<1>2. CASE Farewell(remote[i].mode) = {}
  <2>1. UNCHANGED notices
    BY <1>2 DEF Goodbye
  <2>2. ClosesUnseen(i)
    BY <1>1, <1>2 DEF ClosesUnseen, ReportedModes, Farewell
  <2>3. \A j \in Slots : j # i => Continues(j)
    BY <1>1 DEF Continues
  <2>4. SlotInv'
    BY <2>1, <2>2, <2>3, QuietStep
  <2> QED BY <1>1, <2>1, <2>4 DEF ConnectionInv, TypeOK, LifecycleStep
<1>3. CASE Farewell(remote[i].mode) # {}
  <2>1. Notify(i, "gone")
    BY <1>3 DEF Goodbye
  <2>2. /\ notices' \in [Slots -> Seq({"arrived", "gone"} \X Peers)]
        /\ \A j \in Slots : j # i =>
              Lifecycle!Present(j)' = Lifecycle!Present(j)
        /\ Lifecycle!Present(i)' = Nobody
    BY <2>1, Notified DEF ConnectionInv
  <2>3. LifecycleStep
    <3>1. Lifecycle!Present(i) \in {Nobody, remote[i].peer}
      BY DEF ConnectionInv, SlotInv, PresentInv
    <3>2. Lifecycle!Leave(i, remote[i].peer)
      BY <2>1, <3>1 DEF Lifecycle!Leave, Lifecycle!Nobody, Nobody, Notify
    <3>3. remote[i].peer \in Peers
      BY ActivePeer DEF ConnectionInv
    <3> QED BY <3>2, <3>3 DEF LifecycleStep, Lifecycle!Next
  <2>4. Unambiguous'
    BY <1>1 DEF ConnectionInv, SlotInv, Unambiguous
  <2>5. HandshakeInv'
    <3> SUFFICES ASSUME NEW j \in Slots, remote'[j].active,
                        remote'[j].mode = "HANDLING_CONNECTION_REQUEST"
                 PROVE  /\ remote'[j].peer \in Invited
                        /\ Requested(remote[j].peer)'
      BY DEF HandshakeInv
    <3>1. remote'[j] = remote[j]
      BY <1>1
    <3>2. /\ remote[j].peer \in Invited /\ Requested(remote[j].peer)
          /\ remote[j].peer \in Peers
      BY <3>1, ConnectionAssumption DEF ConnectionInv, SlotInv, HandshakeInv
    <3> QED BY <3>1, <3>2 DEF GoesOn, Requested
  <2>6. PresentInv'
    <3> SUFFICES ASSUME NEW j \in Slots, Lifecycle!Present(j)' # Nobody
                 PROVE  /\ remote'[j].active
                        /\ remote'[j].peer = Lifecycle!Present(j)'
                        /\ remote'[j].mode \in ReportedModes
                        /\ Requested(remote[j].peer)'
      BY DEF PresentInv, Nobody
    <3>1. j # i /\ Lifecycle!Present(j) # Nobody
          /\ Lifecycle!Present(j)' = Lifecycle!Present(j)
      BY <2>2
    <3>2. /\ remote[j].active
          /\ remote[j].peer = Lifecycle!Present(j)
          /\ remote[j].mode \in ReportedModes
          /\ Requested(remote[j].peer)
      BY <3>1 DEF ConnectionInv, SlotInv, PresentInv
    <3>3. remote'[j] = remote[j] /\ remote[j].peer \in Peers
      BY <1>1, <3>1, <3>2, ActivePeer DEF ConnectionInv
    <3> QED BY <3>1, <3>2, <3>3 DEF GoesOn, Requested
  <2>7. ArrivalsAreAgreed'
    BY <2>1, ArrivalsStep
  <2> QED BY <1>1, <2>2, <2>3, <2>4, <2>5, <2>6, <2>7 DEF SlotInv
<1> QED BY <1>2, <1>3

\* The step keeps what is known, and is one that SlotLifecycle has.
Preserved == TypeOK' /\ ClientInv' /\ SlotInv' /\ LifecycleStep

\* An answer to an open request, and the slot that goes with it.
LEMMA OpenRequestStep ==
  ASSUME ConnectionInv, NEW p \in Peers, ReceiveOpenRequest(p)
  PROVE  Preserved
<1>1. UNCHANGED <<clientVars, banned, notices, toServer, toClient>>
  BY DEF ReceiveOpenRequest
<1>2. ClientInv' /\ GoesOn
  BY <1>1, ServerKeepsClients DEF ConnectionInv
<1>3. offline' \subseteq Peers \X (Refusals \cup
                 {"OPEN_CONNECTION_REQUEST", "OPEN_CONNECTION_REPLY"})
  <2>1. PICK r \in Refusals \cup {"OPEN_CONNECTION_REPLY"} :
               offline' = offline \cup {<<p, r>>}
    BY DEF ReceiveOpenRequest, Reply, Refusals
  <2>2. offline \subseteq Peers \X (Refusals \cup
                 {"OPEN_CONNECTION_REQUEST", "OPEN_CONNECTION_REPLY"})
    BY DEF ConnectionInv, TypeOK
  <2> QED BY <2>1, <2>2
<1>4. remote' \in [Slots -> SlotRecord] /\ SlotInv'
  <2>1. CASE AssignSlot(p) /\ ~IsKnown(p) /\ FreeSlots # {}
    BY <1>1, <1>2, <2>1, AssignStep
  <2>2. CASE UNCHANGED remote
    <3>1. \A j \in Slots : Continues(j)
      BY <2>2 DEF Continues
    <3>2. SlotInv'
      BY <1>1, <1>2, <3>1, QuietStep
    <3> QED BY <2>2, <3>2 DEF ConnectionInv, TypeOK, SlotRecord
  <2> QED BY <2>1, <2>2 DEF ReceiveOpenRequest
<1>5. \A i \in Slots : remote'[i].peer = Nobody => ~remote'[i].active
  <2>1. CASE AssignSlot(p) /\ FreeSlots # {}
    <3>1. p # Nobody
      BY ConnectionAssumption DEF Nobody
    <3> DEFINE k == CHOOSE i \in FreeSlots : \A j \in FreeSlots : i <= j
    <3>2. k \in Slots
      BY <2>1, FirstFree DEF FreeSlots
    <3>3. remote' = [remote EXCEPT
                       ![k] = [peer |-> p, mode |-> "UNVERIFIED_SENDER",
                               active |-> TRUE, holding |-> FALSE]]
      BY <2>1 DEF AssignSlot
    <3> HIDE DEF k
    <3>4. /\ remote'[k].peer = p
          /\ \A j \in Slots : j # k => remote'[j] = remote[j]
      BY <3>2, <3>3 DEF ConnectionInv, TypeOK
    <3> QED BY <3>1, <3>4 DEF ConnectionInv, TypeOK
  <2>2. CASE UNCHANGED remote
    BY <2>2 DEF ConnectionInv, TypeOK
  <2> QED BY <2>1, <2>2 DEF ReceiveOpenRequest
<1>6. TypeOK'
  BY <1>1, <1>3, <1>4, <1>5
     DEF ConnectionInv, TypeOK, clientVars, SlotRecord
<1> QED BY <1>1, <1>2, <1>4, <1>6 DEF Preserved, LifecycleStep

\* What a step of the server at a slot takes and leaves.
ServerFrame ==
  /\ UNCHANGED <<clientVars, offline>>
  /\ banned' \subseteq Peers
  /\ toServer' \in [Peers -> SUBSET Messages]
  /\ \A p \in Peers : toServer'[p] \subseteq toServer[p]
  /\ toClient' \in [Peers -> SUBSET Messages]

\* With what is known of the slots, that is enough.
LEMMA Framed ==
  ASSUME ConnectionInv, ServerFrame,
         remote' \in [Slots -> SlotRecord],
         \A j \in Slots : remote'[j].active =>
           remote[j].active /\ remote'[j].peer = remote[j].peer,
         notices' \in [Slots -> Seq({"arrived", "gone"} \X Peers)],
         SlotInv', LifecycleStep
  PROVE  Preserved
<1>1. ClientInv'
  BY ServerKeepsClients DEF ConnectionInv, ServerFrame
<1>2. \A i \in Slots : remote'[i].peer = Nobody => ~remote'[i].active
  BY DEF ConnectionInv, TypeOK
<1>3. TypeOK'
  BY <1>2 DEF ConnectionInv, TypeOK, ServerFrame, clientVars, SlotRecord
<1> QED BY <1>1, <1>3 DEF Preserved

\* A message the server takes is not sent again.
LEMMA Received ==
  ASSUME TypeOK, NEW i \in Slots, NEW m, ServerReceives(i, m)
  PROVE  /\ UNCHANGED <<clientVars, offline>>
         /\ remote[i].active /\ remote[i].peer \in Peers
         /\ m \in toServer[remote[i].peer]
         /\ m \notin toServer'[remote[i].peer]
         /\ toServer' \in [Peers -> SUBSET Messages]
         /\ \A p \in Peers : toServer'[p] \subseteq toServer[p]
<1>1. remote[i].active /\ remote[i].peer \in Peers
  BY ActivePeer DEF ServerReceives
<1>2. toServer \in [Peers -> SUBSET Messages]
  BY DEF TypeOK
<1>3. toServer' = [toServer EXCEPT ![remote[i].peer] = @ \ {m}]
  BY DEF ServerReceives
<1>4. /\ toServer' \in [Peers -> SUBSET Messages]
      /\ \A p \in Peers : toServer'[p] \subseteq toServer[p]
      /\ m \notin toServer'[remote[i].peer]
  BY <1>1, <1>2, <1>3
<1> QED BY <1>1, <1>4 DEF ServerReceives

\* A step in which every slot continues and nobody is told anything.
LEMMA QuietFramed ==
  ASSUME ConnectionInv, ServerFrame, UNCHANGED notices,
         remote' \in [Slots -> SlotRecord],
         \A j \in Slots : Continues(j)
  PROVE  Preserved
<1>1. GoesOn
  BY ServerKeepsClients DEF ConnectionInv, ServerFrame
<1>2. SlotInv'
  BY <1>1, QuietStep
<1>3. \A j \in Slots : /\ remote'[j].active => remote[j].active
                       /\ remote'[j].active => remote'[j].peer = remote[j].peer
  BY DEF Continues
<1>4. notices' \in [Slots -> Seq({"arrived", "gone"} \X Peers)]
  BY DEF ConnectionInv, TypeOK
<1> QED BY <1>2, <1>3, <1>4, Framed DEF LifecycleStep

\* The password is checked before the handshake of a slot begins.
LEMMA ConnectionRequestStep ==
  ASSUME ConnectionInv, NEW i \in Slots, ReceiveConnectionRequest(i)
  PROVE  Preserved
<1> DEFINE p == remote[i].peer
<1>1. /\ UNCHANGED <<clientVars, offline, banned, notices>>
      /\ remote[i].active /\ p \in Peers
      /\ "CONNECTION_REQUEST" \in toServer[p]
      /\ "CONNECTION_REQUEST" \notin toServer'[p]
      /\ toServer' \in [Peers -> SUBSET Messages]
      /\ \A q \in Peers : toServer'[q] \subseteq toServer[q]
  BY Received DEF ReceiveConnectionRequest, ConnectionInv
<1>2. toClient \in [Peers -> SUBSET Messages] /\ banned \subseteq Peers
  BY DEF ConnectionInv, TypeOK
<1>3. CASE remote[i].mode = "CONNECTED"
  <2>1. UNCHANGED <<remote, toClient>>
    BY <1>3 DEF ReceiveConnectionRequest
  <2>2. \A j \in Slots : Continues(j)
    BY <2>1 DEF Continues
  <2>3. remote' \in [Slots -> SlotRecord]
    BY <2>1 DEF ConnectionInv, TypeOK, SlotRecord
  <2> QED BY <1>1, <1>2, <2>1, <2>2, <2>3, QuietFramed DEF ServerFrame
<1>4. CASE remote[i].mode # "CONNECTED"
  <2> DEFINE m == IF IsAllowed(p) THEN "HANDLING_CONNECTION_REQUEST"
                                  ELSE "DISCONNECT_ASAP_SILENTLY"
             a == IF IsAllowed(p) THEN "CONNECTION_REQUEST_ACCEPTED"
                                  ELSE "INVALID_PASSWORD"
  <2>1. SetMode(i, m) /\ m \in Modes
    BY <1>4 DEF ReceiveConnectionRequest, Modes
  <2>2. /\ a \in Messages
        /\ \/ toClient' = toClient
           \/ toClient' = [toClient EXCEPT ![p] = @ \cup {a}]
    BY <1>4 DEF ReceiveConnectionRequest, Messages
  <2>3. toClient' \in [Peers -> SUBSET Messages]
    <3> HIDE DEF a, p
    <3> QED BY <1>1, <1>2, <2>2
  <2>4. /\ remote' \in [Slots -> SlotRecord]
        /\ \A j \in Slots : /\ remote'[j].peer = remote[j].peer
                            /\ remote'[j].active = remote[j].active
                            /\ j # i => remote'[j].mode = remote[j].mode
        /\ remote'[i].mode = m
    BY <2>1, ModeSet DEF ConnectionInv
  <2>5. Lifecycle!Present(i) = Nobody
    BY <1>1 DEF ConnectionInv, SlotInv, PresentInv, Requested
  <2>6. stage[p] \notin {"idle", "asking"}
    BY <1>1 DEF ConnectionInv, ClientInv
  <2>7. IsAllowed(p) => p \in Invited /\ Requested(p)'
    BY <1>1, <2>4, <2>6 DEF IsAllowed, Requested, clientVars
  <2>8. Continues(i)
    BY <2>4, <2>5, <2>7 DEF Continues
  <2>9. \A j \in Slots : j # i => Continues(j)
    BY <2>4 DEF Continues
  <2> QED BY <1>1, <1>2, <2>3, <2>4, <2>8, <2>9, QuietFramed DEF ServerFrame
<1> QED BY <1>3, <1>4

\* The client's word that it is connected may announce a player.
LEMMA NewIncomingStep ==
  ASSUME ConnectionInv, NEW i \in Slots, ReceiveNewIncoming(i)
  PROVE  Preserved
<1>1. /\ UNCHANGED <<clientVars, offline, banned, toClient>>
      /\ remote[i].active /\ remote[i].peer \in Peers
      /\ "NEW_INCOMING_CONNECTION" \in toServer[remote[i].peer]
      /\ toServer' \in [Peers -> SUBSET Messages]
      /\ \A q \in Peers : toServer'[q] \subseteq toServer[q]
  BY Received DEF ReceiveNewIncoming, ConnectionInv
<1>2. ServerFrame
  BY <1>1 DEF ServerFrame, ConnectionInv, TypeOK
<1>3. GoesOn
  BY <1>1, ServerKeepsClients DEF ConnectionInv
<1>4. CASE remote[i].mode = "HANDLING_CONNECTION_REQUEST"
  <2>1. SetMode(i, "CONNECTED") /\ Notify(i, "arrived")
    BY <1>4 DEF ReceiveNewIncoming, Welcome
  <2>2. /\ remote' \in [Slots -> SlotRecord]
        /\ notices' \in [Slots -> Seq({"arrived", "gone"} \X Peers)]
        /\ SlotInv' /\ LifecycleStep
    BY <1>1, <1>3, <1>4, <2>1, WelcomeStep
  <2>3. \A j \in Slots : /\ remote'[j].active = remote[j].active
                         /\ remote'[j].peer = remote[j].peer
    BY <2>1, ModeSet DEF ConnectionInv, Modes
  <2> QED BY <1>2, <2>2, <2>3, Framed
<1>5. CASE remote[i].mode # "HANDLING_CONNECTION_REQUEST"
  <2>1. UNCHANGED <<remote, notices>>
    BY <1>5 DEF ReceiveNewIncoming, Welcome
  <2>2. \A j \in Slots : Continues(j)
    BY <2>1 DEF Continues
  <2>3. remote' \in [Slots -> SlotRecord]
    BY <2>1 DEF ConnectionInv, TypeOK, SlotRecord
  <2> QED BY <1>2, <2>1, <2>2, <2>3, QuietFramed
<1> QED BY <1>4, <1>5

\* A goodbye is acknowledged before the slot is closed.
LEMMA NotificationStep ==
  ASSUME ConnectionInv, NEW i \in Slots, ReceiveNotification(i)
  PROVE  Preserved
<1>1. /\ UNCHANGED <<clientVars, offline, banned, toClient, notices>>
      /\ toServer' \in [Peers -> SUBSET Messages]
      /\ \A q \in Peers : toServer'[q] \subseteq toServer[q]
  BY Received DEF ReceiveNotification, ConnectionInv
<1>2. ServerFrame
  BY <1>1 DEF ServerFrame, ConnectionInv, TypeOK
<1>3. SetMode(i, "DISCONNECT_ON_NO_ACK")
  BY DEF ReceiveNotification
<1>4. /\ remote' \in [Slots -> SlotRecord]
      /\ \A j \in Slots : /\ remote'[j].peer = remote[j].peer
                          /\ remote'[j].active = remote[j].active
                          /\ j # i => remote'[j].mode = remote[j].mode
      /\ remote'[i].mode = "DISCONNECT_ON_NO_ACK"
  BY <1>3, ModeSet DEF ConnectionInv, Modes
<1>5. \A j \in Slots : Continues(j)
  BY <1>4 DEF Continues, ReportedModes
<1> QED BY <1>1, <1>2, <1>4, <1>5, QuietFramed

\* Emptying what is sent to one peer.
LEMMA Emptied ==
  ASSUME TypeOK, NEW p, toClient' = [toClient EXCEPT ![p] = {}]
  PROVE  toClient' \in [Peers -> SUBSET Messages]
BY DEF TypeOK

\* A slot that is closed on a wrong message was never announced.
LEMMA NonsenseStep ==
  ASSUME ConnectionInv, NEW i \in Slots, ReceiveNonsense(i)
  PROVE  Preserved
<1>1. PICK m \in {"NEW_INCOMING_CONNECTION", "DISCONNECTION_NOTIFICATION"} :
        /\ ServerReceives(i, m)
        /\ remote[i].mode = "UNVERIFIED_SENDER"
        /\ Closes(i)
        /\ AddToBanList(remote[i].peer)
        /\ toClient' = [toClient EXCEPT ![remote[i].peer] = {}]
        /\ UNCHANGED notices
  BY DEF ReceiveNonsense, Closes
<1>2. /\ UNCHANGED <<clientVars, offline>>
      /\ remote[i].active /\ remote[i].peer \in Peers
      /\ toServer' \in [Peers -> SUBSET Messages]
      /\ \A q \in Peers : toServer'[q] \subseteq toServer[q]
  BY <1>1, Received DEF ConnectionInv
<1>3. toClient' \in [Peers -> SUBSET Messages]
  BY <1>1, Emptied DEF ConnectionInv
<1>4. banned' \subseteq Peers
  BY <1>1, <1>2 DEF AddToBanList, ConnectionInv, TypeOK
<1>5. ServerFrame
  BY <1>2, <1>3, <1>4 DEF ServerFrame
<1>6. GoesOn
  BY <1>2, ServerKeepsClients DEF ConnectionInv
<1>7. /\ remote' \in [Slots -> SlotRecord]
      /\ \A j \in Slots : j # i => remote'[j] = remote[j]
      /\ ~remote'[i].active
  BY <1>1, SlotClosed DEF ConnectionInv
<1>8. ClosesUnseen(i)
  BY <1>1, <1>7 DEF ClosesUnseen, ReportedModes
<1>9. \A j \in Slots : j # i => Continues(j)
  BY <1>7 DEF Continues
<1>10. SlotInv'
  BY <1>1, <1>6, <1>8, <1>9, QuietStep
<1>11. notices' \in [Slots -> Seq({"arrived", "gone"} \X Peers)]
  BY <1>1 DEF ConnectionInv, TypeOK
<1>12. \A j \in Slots : /\ remote'[j].active => remote[j].active
                        /\ remote'[j].active => remote'[j].peer = remote[j].peer
  BY <1>7
<1> QED BY <1>1, <1>5, <1>7, <1>10, <1>11, <1>12, Framed DEF LifecycleStep

\* What the slot's layer holds back changes nothing else.
LEMMA HoldStep ==
  ASSUME ConnectionInv, NEW i \in Slots, Hold(i)
  PROVE  Preserved
<1>1. UNCHANGED <<clientVars, banned, notices, offline, toServer, toClient>>
  BY DEF Hold
<1>2. ServerFrame
  BY <1>1 DEF ServerFrame, ConnectionInv, TypeOK
<1>3. remote \in [Slots -> SlotRecord]
  BY DEF ConnectionInv, TypeOK, SlotRecord
<1>4. remote' = [remote EXCEPT ![i] = [remote[i] EXCEPT !.holding = TRUE]]
  BY DEF Hold
<1>5. /\ [remote[i] EXCEPT !.holding = TRUE] \in SlotRecord
      /\ [remote[i] EXCEPT !.holding = TRUE].peer = remote[i].peer
      /\ [remote[i] EXCEPT !.holding = TRUE].mode = remote[i].mode
      /\ [remote[i] EXCEPT !.holding = TRUE].active = remote[i].active
  BY <1>3 DEF SlotRecord
<1>6. /\ remote' \in [Slots -> SlotRecord]
      /\ \A j \in Slots : /\ remote'[j].peer = remote[j].peer
                          /\ remote'[j].mode = remote[j].mode
                          /\ remote'[j].active = remote[j].active
  BY <1>3, <1>4, <1>5
<1>7. \A j \in Slots : Continues(j)
  BY <1>6 DEF Continues
<1> QED BY <1>1, <1>2, <1>6, <1>7, QuietFramed

\* A player that is kicked stays known until the slot is closed.
LEMMA KickStep ==
  ASSUME ConnectionInv, NEW i \in Slots, Kick(i)
  PROVE  Preserved
<1>1. /\ UNCHANGED <<clientVars, banned, notices, offline, toServer>>
      /\ remote[i].active /\ SetMode(i, "DISCONNECT_ASAP")
  BY DEF Kick, NotifyAndFlagForDisconnect
<1>2. toClient' \in [Peers -> SUBSET Messages]
  <2> DEFINE p == remote[i].peer
             m == "DISCONNECTION_NOTIFICATION"
  <2>1. p \in Peers
    BY <1>1, ActivePeer DEF ConnectionInv
  <2>2. toClient \in [Peers -> SUBSET Messages] /\ m \in Messages
    BY DEF ConnectionInv, TypeOK, Messages
  <2>3. toClient' = toClient \/ toClient' = [toClient EXCEPT ![p] = @ \cup {m}]
    BY DEF Kick, NotifyAndFlagForDisconnect
  <2> HIDE DEF p, m
  <2> QED BY <2>1, <2>2, <2>3
<1>3. ServerFrame
  BY <1>1, <1>2 DEF ServerFrame, ConnectionInv, TypeOK
<1>4. /\ remote' \in [Slots -> SlotRecord]
      /\ \A j \in Slots : /\ remote'[j].peer = remote[j].peer
                          /\ remote'[j].active = remote[j].active
                          /\ j # i => remote'[j].mode = remote[j].mode
      /\ remote'[i].mode = "DISCONNECT_ASAP"
  BY <1>1, ModeSet DEF ConnectionInv, Modes
<1>5. \A j \in Slots : Continues(j)
  BY <1>4 DEF Continues, ReportedModes
<1> QED BY <1>1, <1>3, <1>4, <1>5, QuietFramed

\* However a connection ends, its slot is closed in the same way.
LEMMA ServerDropsStep ==
  ASSUME ConnectionInv, NEW i \in Slots, ServerDrops(i)
  PROVE  Preserved
<1>1. /\ UNCHANGED <<clientVars, banned, offline, toServer>>
      /\ remote[i].active /\ Closes(i) /\ Goodbye(i)
      /\ toClient' = [toClient EXCEPT ![remote[i].peer] = {}]
  BY DEF ServerDrops, Closes
<1>2. toClient' \in [Peers -> SUBSET Messages]
  BY <1>1, Emptied DEF ConnectionInv
<1>3. ServerFrame
  BY <1>1, <1>2 DEF ServerFrame, ConnectionInv, TypeOK
<1>4. GoesOn
  BY <1>1, ServerKeepsClients DEF ConnectionInv
<1>5. /\ remote' \in [Slots -> SlotRecord]
      /\ notices' \in [Slots -> Seq({"arrived", "gone"} \X Peers)]
      /\ SlotInv' /\ LifecycleStep
  BY <1>1, <1>4, DropStep
<1>6. \A j \in Slots : /\ remote'[j].active => remote[j].active
                       /\ remote'[j].active => remote'[j].peer = remote[j].peer
  BY <1>1, SlotClosed DEF ConnectionInv
<1> QED BY <1>3, <1>5, <1>6, Framed

\* A ban that ends concerns no slot.
LEMMA BanExpiresStep ==
  ASSUME ConnectionInv, NEW p \in Peers, BanExpires(p)
  PROVE  Preserved
<1>1. UNCHANGED <<clientVars, remote, notices, offline, toServer, toClient>>
  BY DEF BanExpires
<1>2. banned' \subseteq Peers
  BY DEF BanExpires, ConnectionInv, TypeOK
<1>3. ServerFrame
  BY <1>1, <1>2 DEF ServerFrame, ConnectionInv, TypeOK
<1>4. \A j \in Slots : Continues(j)
  BY <1>1 DEF Continues
<1>5. remote' \in [Slots -> SlotRecord]
  BY <1>1 DEF ConnectionInv, TypeOK, SlotRecord
<1> QED BY <1>1, <1>3, <1>4, <1>5, QuietFramed
-----------------------------------------------------------------------------
(* The invariant.                                                          *)

\* Nothing has happened yet.
LEMMA ConnectionInit ==
  ASSUME Init
  PROVE  ConnectionInv
<1>1. TypeOK
  BY ConnectionAssumption DEF Init, TypeOK, Modes, Nobody, Slots
<1>2. ClientInv
  BY DEF Init, ClientInv
<1>3. Unambiguous /\ HandshakeInv
  BY DEF Init, Unambiguous, HandshakeInv
<1>4. PresentInv
  BY DEF Init, PresentInv, Lifecycle!Present, Lifecycle!Nobody, Nobody
<1>5. ArrivalsAreAgreed
  BY DEF Init, ArrivalsAreAgreed
<1> QED BY <1>1, <1>2, <1>3, <1>4, <1>5 DEF ConnectionInv, SlotInv

\* Every step, of either side, keeps what is known.
LEMMA ConnectionStep ==
  ASSUME ConnectionInv, [Next]_vars
  PROVE  ConnectionInv' /\ LifecycleStep
<1> SUFFICES Preserved
  BY DEF Preserved, ConnectionInv
<1>1. ASSUME NEW p \in Peers, ClientStep(p)
      PROVE  Preserved
  <2>1. TypeOK' /\ ClientInv' /\ GoesOn /\ UNCHANGED serverVars
    BY <1>1, ClientSteps DEF ConnectionInv
  <2>2. \A j \in Slots : Continues(j)
    BY <2>1 DEF Continues, serverVars
  <2>3. SlotInv'
    BY <2>1, <2>2, QuietStep DEF serverVars
  <2> QED BY <2>1, <2>3 DEF Preserved, LifecycleStep, serverVars
<1>2. ASSUME NEW i \in Slots, ServerStep(i)
      PROVE  Preserved
  <2>1. CASE ServerFinishes(i) \/ ServerExpires(i) \/ ServerLoses(i)
    BY <2>1, ServerDropsStep
       DEF ServerFinishes, ServerExpires, ServerLoses
  <2> QED BY <1>2, <2>1, ConnectionRequestStep, NewIncomingStep,
             NotificationStep, NonsenseStep, HoldStep, KickStep DEF ServerStep
<1>3. CASE UNCHANGED vars
  <2>1. \A j \in Slots : Continues(j)
    BY <1>3 DEF Continues, vars, serverVars
  <2>2. ServerFrame
    BY <1>3
       DEF ServerFrame, vars, clientVars, serverVars, ConnectionInv, TypeOK
  <2>3. remote' \in [Slots -> SlotRecord] /\ UNCHANGED notices
    BY <1>3 DEF vars, serverVars, ConnectionInv, TypeOK, SlotRecord
  <2> QED BY <2>1, <2>2, <2>3, QuietFramed
<1> QED BY <1>1, <1>2, <1>3, OpenRequestStep, BanExpiresStep DEF Next

(***************************************************************************)
(* What is known of both sides holds in every state.                       *)
(***************************************************************************)
THEOREM ConnectionInvariant == Spec => []ConnectionInv
<1>1. Init => ConnectionInv
  BY ConnectionInit
<1>2. ConnectionInv /\ [Next]_vars => ConnectionInv'
  BY ConnectionStep
<1> QED BY <1>1, <1>2, PTL DEF Spec

(***************************************************************************)
(* Variables keep their types, whatever the two sides do and the network   *)
(* repeats.                                                                *)
(***************************************************************************)
THEOREM Types == Spec => []TypeOK
<1>1. ConnectionInv => TypeOK
  BY DEF ConnectionInv
<1> QED BY <1>1, ConnectionInvariant, PTL

(***************************************************************************)
(* AssignPlayerIDToRemoteSystemList gives no address a second slot, for    *)
(* any number of clients, slots and repeated open requests.                *)
(***************************************************************************)
THEOREM OneSlot == Spec => []OneSlotPerPeer
<1>1. ConnectionInv => OneSlotPerPeer
  <2> SUFFICES ASSUME ConnectionInv, NEW p \in Peers
               PROVE  Cardinality(SlotsOf(p)) <= 1
    BY DEF OneSlotPerPeer
  <2>1. \A i, j \in SlotsOf(p) : i = j
    BY DEF ConnectionInv, SlotInv, Unambiguous, SlotsOf
  <2>2. CASE SlotsOf(p) = {}
    BY <2>2, FS_EmptySet
  <2>3. CASE SlotsOf(p) # {}
    <3>1. PICK i : SlotsOf(p) = {i}
      BY <2>1, <2>3
    <3>2. Cardinality({i}) = 1
      BY FS_Singleton
    <3> QED BY <3>1, <3>2
  <2> QED BY <2>2, <2>3
<1> QED BY <1>1, ConnectionInvariant, PTL

(***************************************************************************)
(* A player is announced to the server's application only if it gave the   *)
(* password and its own application knows that it is connected.            *)
(***************************************************************************)
THEOREM Arrivals == Spec => []ArrivalsAreAgreed
<1>1. ConnectionInv => ArrivalsAreAgreed
  BY DEF ConnectionInv, SlotInv
<1> QED BY <1>1, ConnectionInvariant, PTL

(***************************************************************************)
(* The server's indices live as SlotLifecycle says: one is given to a new  *)
(* player only after the application was told that the last one is gone.   *)
(***************************************************************************)
THEOREM Refinement == Spec => ImplementsLifecycle
<1>1. Init => Lifecycle!Init
  BY DEF Init, Lifecycle!Init
<1>2. ConnectionInv /\ [Next]_vars => [Lifecycle!Next]_notices
  BY ConnectionStep DEF LifecycleStep
<1> QED BY <1>1, <1>2, ConnectionInvariant, PTL
     DEF Spec, ImplementsLifecycle, Lifecycle!Spec
=============================================================================
