----------------------------- MODULE Connection -----------------------------
(***************************************************************************)
(* raknet/RakPeer.cpp: how clients connect to one server and how the       *)
(* connection ends.  A peer is the address of one connection attempt:      *)
(* RakClient::Connect opens a new socket, so no address is used twice.     *)
(*                                                                         *)
(* Two kinds of messages travel.  The one-datagram messages that precede a *)
(* connection (offline) may be lost, repeated and reordered: they are      *)
(* never removed, and nothing makes a receiver take one.  The others go    *)
(* through ReliabilityLayer: each arrives at most once and, being sent     *)
(* RELIABLE, in any order.  toServer[p] and toClient[p] are the ones not   *)
(* yet acknowledged.                                                       *)
(*                                                                         *)
(* The server may have one connection per slot of remoteSystemList.  It    *)
(* sets maximumIncomingConnections to the number of slots, so a sender     *)
(* that holds a slot is never refused by AllowIncomingConnections.         *)
(***************************************************************************)
EXTENDS Integers, Sequences, FiniteSets

CONSTANTS
  Peers,        \* the client addresses
  Invited,      \* those that know the server's password
  NumSlots,     \* maximumNumberOfPeers of the server
  MaxRequests   \* ID_OPEN_CONNECTION_REQUESTs of an attempt, 6 in the code

ASSUME ConnectionAssumption ==
  /\ Invited \subseteq Peers
  /\ NumSlots \in Nat \ {0}
  /\ MaxRequests \in Nat \ {0}
  /\ "Nobody" \notin Peers

VARIABLES
  stage,         \* stage[p]: how far the client's application is
  requestsMade,  \* requestsMade[p]: open requests sent by the attempt
  clientMode,    \* clientMode[p]: connectMode of the client's only slot
  heard,         \* heard[p]: the identifiers the client's application got
  remote,        \* remote[i]: slot i of the server's remoteSystemList
  banned,        \* the addresses on the server's ban list
  offline,       \* <<p, identifier>>: datagrams outside a connection
  toServer, toClient,
  notices        \* notices[i]: what the server's application got about slot i

clientVars == <<stage, requestsMade, clientMode, heard>>
serverVars == <<remote, banned, notices>>
vars == <<clientVars, serverVars, offline, toServer, toClient>>

Slots == 0..(NumSlots - 1)

Nobody == "Nobody"

\* ConnectMode, and INACTIVE for a client whose slot is not active.
Modes == { "NO_ACTION", "DISCONNECT_ASAP", "DISCONNECT_ASAP_SILENTLY",
           "DISCONNECT_ON_NO_ACK", "REQUESTED_CONNECTION",
           "HANDLING_CONNECTION_REQUEST", "UNVERIFIED_SENDER", "CONNECTED" }

Disconnecting == { "DISCONNECT_ASAP", "DISCONNECT_ASAP_SILENTLY",
                   "DISCONNECT_ON_NO_ACK" }

Refusals == { "CONNECTION_BANNED", "NO_FREE_INCOMING_CONNECTIONS",
              "CONNECTION_ATTEMPT_FAILED" }

\* What travels in toServer and toClient.
Messages == { "CONNECTION_REQUEST", "CONNECTION_REQUEST_ACCEPTED",
              "INVALID_PASSWORD", "NEW_INCOMING_CONNECTION",
              "DISCONNECTION_NOTIFICATION" }

\* The active slots whose playerId is p, and the ones free to be assigned.
SlotsOf(p) == {i \in Slots : remote[i].active /\ remote[i].peer = p}

FreeSlots == {i \in Slots : ~remote[i].active}

Init ==
  /\ stage = [p \in Peers |-> "idle"]
  /\ requestsMade = [p \in Peers |-> 0]
  /\ clientMode = [p \in Peers |-> "INACTIVE"]
  /\ heard = [p \in Peers |-> {}]
  /\ remote = [i \in Slots |->
                 [peer |-> Nobody, mode |-> "NO_ACTION", active |-> FALSE,
                  holding |-> FALSE]]
  /\ banned = {}
  /\ offline = {}
  /\ toServer = [p \in Peers |-> {}]
  /\ toClient = [p \in Peers |-> {}]
  /\ notices = [i \in Slots |-> <<>>]
-----------------------------------------------------------------------------
(***************************************************************************)
(* What the owner of a slot is told when the connection in it is dropped.  *)
(***************************************************************************)
Farewell(mode) ==
  CASE mode = "CONNECTED" -> {"CONNECTION_LOST"}
    [] mode = "REQUESTED_CONNECTION" -> {"CONNECTION_ATTEMPT_FAILED"}
    [] mode \in {"DISCONNECT_ASAP", "DISCONNECT_ON_NO_ACK"} ->
         {"DISCONNECTION_NOTIFICATION"}
    [] OTHER -> {}

MayExpire_mutant(mode) == mode = "HANDLING_CONNECTION_REQUEST"

\* The connection is dropped: everything it has to say has been said, and
\* IsDataWaiting finds nothing held for the application either.
IsFinished(mode, unacknowledged, holding) ==
  \/ /\ mode \in {"DISCONNECT_ASAP", "DISCONNECT_ASAP_SILENTLY"}
     /\ unacknowledged = {} /\ ~holding
  \/ mode = "DISCONNECT_ON_NO_ACK"

\* Ten seconds have passed and the handshake is not over.
MayExpire(mode) ==
  mode \in { "REQUESTED_CONNECTION", "HANDLING_CONNECTION_REQUEST",
             "UNVERIFIED_SENDER" }

\* Something waits for an acknowledgement, so the reliability layer may
\* declare the connection dead; a connected pair sends keepalives.
MayDie(mode, unacknowledged) == mode = "CONNECTED" \/ unacknowledged # {}
-----------------------------------------------------------------------------
(***************************************************************************)
(* The client.                                                             *)
(***************************************************************************)
\* RakClient::Connect to SendConnectionRequest: the attempt is listed.
Connect(p) ==
  /\ stage[p] = "idle"
  /\ stage' = [stage EXCEPT ![p] = "asking"]
  /\ UNCHANGED <<requestsMade, clientMode, heard, serverVars, offline,
                 toServer, toClient>>

SendOpenRequest(p) ==
  /\ stage[p] = "asking" /\ requestsMade[p] < MaxRequests
  /\ requestsMade' = [requestsMade EXCEPT ![p] = @ + 1]
  /\ offline' = offline \cup {<<p, "OPEN_CONNECTION_REQUEST">>}
  /\ UNCHANGED <<stage, clientMode, heard, serverVars, toServer, toClient>>

\* The attempt leaves the request list and the application is told why.
EndAttempt(p, identifier) ==
  /\ stage[p] = "asking"
  /\ stage' = [stage EXCEPT ![p] = "asked"]
  /\ heard' = [heard EXCEPT ![p] = @ \cup {identifier}]
  /\ UNCHANGED <<requestsMade, clientMode, serverVars, offline, toServer,
                 toClient>>

RequestsExhausted(p) ==
  requestsMade[p] = MaxRequests /\ EndAttempt(p, "CONNECTION_ATTEMPT_FAILED")

ReceiveRefusal(p) ==
  \E r \in Refusals : <<p, r>> \in offline /\ EndAttempt(p, r)

ReceiveOpenReply(p) ==
  /\ <<p, "OPEN_CONNECTION_REPLY">> \in offline
  /\ stage[p] = "asking"
  /\ stage' = [stage EXCEPT ![p] = "asked"]
  /\ clientMode' = [clientMode EXCEPT ![p] = "REQUESTED_CONNECTION"]
  /\ toServer' = [toServer EXCEPT ![p] = @ \cup {"CONNECTION_REQUEST"}]
  /\ UNCHANGED <<requestsMade, heard, serverVars, offline, toClient>>

\* What the application hears once it has called Disconnect is flushed.
Tell(p, identifiers) ==
  heard' = [heard EXCEPT ![p] = IF stage[p] = "leaving" THEN @
                                ELSE @ \cup identifiers]

ClientReceives(p, m) ==
  /\ clientMode[p] # "INACTIVE"
  /\ m \in toClient[p]
  /\ toClient' = [toClient EXCEPT ![p] = @ \ {m}]
  /\ UNCHANGED <<stage, requestsMade, serverVars, offline>>

\* An acceptance nobody asked for any more: NotifyAndFlagForDisconnect, whose
\* message is not sent because the client is disconnecting already.
ReceiveAccepted(p) ==
  /\ ClientReceives(p, "CONNECTION_REQUEST_ACCEPTED")
  /\ IF clientMode[p] = "REQUESTED_CONNECTION"
     THEN /\ clientMode' = [clientMode EXCEPT ![p] = "CONNECTED"]
          /\ Tell(p, {"CONNECTION_REQUEST_ACCEPTED"})
          /\ toServer' = [toServer EXCEPT
                            ![p] = @ \cup {"NEW_INCOMING_CONNECTION"}]
     ELSE /\ clientMode' = [clientMode EXCEPT ![p] = "DISCONNECT_ASAP"]
          /\ UNCHANGED <<heard, toServer>>

ReceiveInvalidPassword(p) ==
  /\ ClientReceives(p, "INVALID_PASSWORD")
  /\ Tell(p, {"INVALID_PASSWORD"})
  /\ UNCHANGED <<clientMode, toServer>>

\* Stay until the notification is acknowledged.
ReceiveFarewell(p) ==
  /\ ClientReceives(p, "DISCONNECTION_NOTIFICATION")
  /\ clientMode' = [clientMode EXCEPT ![p] = "DISCONNECT_ON_NO_ACK"]
  /\ UNCHANGED <<heard, toServer>>

\* RakPeer::Disconnect: say goodbye, then wait for a bounded time.
Disconnect(p) ==
  /\ stage[p] \in {"asking", "asked"}
  /\ stage' = [stage EXCEPT ![p] = "leaving"]
  /\ IF clientMode[p] = "INACTIVE"
     THEN UNCHANGED <<clientMode, toServer>>
     ELSE /\ clientMode' = [clientMode EXCEPT ![p] = "DISCONNECT_ASAP"]
          /\ toServer' =
               IF clientMode[p] \in Disconnecting THEN toServer
               ELSE [toServer EXCEPT
                       ![p] = @ \cup {"DISCONNECTION_NOTIFICATION"}]
  /\ UNCHANGED <<requestsMade, heard, serverVars, offline, toClient>>

\* The rest of it: the threads stop, whatever has become of the goodbye.
Stop(p) ==
  /\ stage[p] = "leaving"
  /\ stage' = [stage EXCEPT ![p] = "stopped"]
  /\ clientMode' = [clientMode EXCEPT ![p] = "INACTIVE"]
  /\ toServer' = [toServer EXCEPT ![p] = {}]
  /\ UNCHANGED <<requestsMade, heard, serverVars, offline, toClient>>

\* RunUpdateCycle drops the connection and resets the reliability layer.
ClientDrops(p) ==
  /\ clientMode[p] # "INACTIVE"
  /\ clientMode' = [clientMode EXCEPT ![p] = "INACTIVE"]
  /\ toServer' = [toServer EXCEPT ![p] = {}]
  /\ Tell(p, Farewell(clientMode[p]))
  /\ UNCHANGED <<stage, requestsMade, serverVars, offline, toClient>>

\* What the client's layer holds does not matter: Stop does not wait for it.
ClientFinishes(p) ==
  IsFinished(clientMode[p], toServer[p], FALSE) /\ ClientDrops(p)

ClientExpires(p) == MayExpire(clientMode[p]) /\ ClientDrops(p)

ClientLoses(p) == MayDie(clientMode[p], toServer[p]) /\ ClientDrops(p)
-----------------------------------------------------------------------------
(***************************************************************************)
(* The server.                                                             *)
(***************************************************************************)
Reply(p, identifier) == offline' = offline \cup {<<p, identifier>>}

AssignSlot_mutant(p) ==
  remote' = [remote EXCEPT
               ![CHOOSE i \in FreeSlots : \A j \in FreeSlots : i <= j] =
                 [@ EXCEPT !.mode = "UNVERIFIED_SENDER", !.active = TRUE]]

\* AssignPlayerIDToRemoteSystemList takes the first slot that is free.
AssignSlot(p) ==
  remote' = [remote EXCEPT
               ![CHOOSE i \in FreeSlots : \A j \in FreeSlots : i <= j] =
                 [peer |-> p, mode |-> "UNVERIFIED_SENDER", active |-> TRUE,
                  holding |-> FALSE]]

IsKnown_mutant(p) ==
  \E i \in SlotsOf(p) : remote[i].mode # "UNVERIFIED_SENDER"

IsKnown(p) == SlotsOf(p) # {}

\* ProcessNetworkPacket on an ID_OPEN_CONNECTION_REQUEST.  A peer whose
\* handshake is in progress is left to it without an answer.
ReceiveOpenRequest(p) ==
  /\ <<p, "OPEN_CONNECTION_REQUEST">> \in offline
  /\ \/ /\ p \in banned
        /\ Reply(p, "CONNECTION_BANNED")
        /\ UNCHANGED remote
     \/ /\ p \notin banned /\ ~IsKnown(p) /\ FreeSlots # {}
        /\ AssignSlot(p)
        /\ Reply(p, "OPEN_CONNECTION_REPLY")
     \/ /\ p \notin banned /\ ~IsKnown(p) /\ FreeSlots = {}
        /\ Reply(p, "NO_FREE_INCOMING_CONNECTIONS")
        /\ UNCHANGED remote
     \/ /\ p \notin banned
        /\ \E i \in SlotsOf(p) :
             remote[i].mode \in { "CONNECTED", "DISCONNECT_ASAP",
                                  "DISCONNECT_ASAP_SILENTLY" }
        /\ Reply(p, "CONNECTION_ATTEMPT_FAILED")
        /\ UNCHANGED remote
  /\ UNCHANGED <<clientVars, banned, notices, toServer, toClient>>

SetMode(i, mode) == remote' = [remote EXCEPT ![i].mode = mode]

Notify(i, what) ==
  notices' = [notices EXCEPT ![i] = Append(@, <<what, remote[i].peer>>)]

\* A message from the peer at slot i leaves the server's reliability layer.
ServerReceives(i, m) ==
  LET p == remote[i].peer
  IN  /\ remote[i].active /\ p \notin banned
      /\ m \in toServer[p]
      /\ toServer' = [toServer EXCEPT ![p] = @ \ {m}]
      /\ UNCHANGED <<clientVars, offline>>

IsAllowed_mutant(p) == TRUE

IsAllowed(p) == p \in Invited

\* ParseConnectionRequestPacket and OnConnectionRequest.
ReceiveConnectionRequest(i) ==
  LET p == remote[i].peer
      answer == IF IsAllowed(p) THEN "CONNECTION_REQUEST_ACCEPTED"
                                ELSE "INVALID_PASSWORD"
  IN  /\ ServerReceives(i, "CONNECTION_REQUEST")
      /\ IF remote[i].mode = "CONNECTED"
         THEN UNCHANGED <<remote, toClient>>
         ELSE /\ SetMode(i, IF IsAllowed(p) THEN "HANDLING_CONNECTION_REQUEST"
                            ELSE "DISCONNECT_ASAP_SILENTLY")
              /\ toClient' =
                   IF ~IsAllowed(p) /\ remote[i].mode \in Disconnecting
                   THEN toClient
                   ELSE [toClient EXCEPT ![p] = @ \cup {answer}]
      /\ UNCHANGED <<banned, notices>>

\* The peer knows that it is connected: so does the application now.
Welcome(i) ==
  IF remote[i].mode = "HANDLING_CONNECTION_REQUEST"
  THEN SetMode(i, "CONNECTED") /\ Notify(i, "arrived")
  ELSE UNCHANGED <<remote, notices>>

ReceiveNewIncoming(i) ==
  /\ ServerReceives(i, "NEW_INCOMING_CONNECTION")
  /\ remote[i].mode # "UNVERIFIED_SENDER"
  /\ Welcome(i)
  /\ UNCHANGED <<banned, toClient>>

ReceiveNotification(i) ==
  /\ ServerReceives(i, "DISCONNECTION_NOTIFICATION")
  /\ remote[i].mode # "UNVERIFIED_SENDER"
  /\ SetMode(i, "DISCONNECT_ON_NO_ACK")
  /\ UNCHANGED <<banned, notices, toClient>>

\* For the reliability layer's timeout; see BanExpires.
AddToBanList(p) == banned' = banned \cup {p}

\* Anything else from an unverified sender: close the slot and ban the sender.
ReceiveNonsense(i) ==
  \E m \in {"NEW_INCOMING_CONNECTION", "DISCONNECTION_NOTIFICATION"} :
    /\ ServerReceives(i, m)
    /\ remote[i].mode = "UNVERIFIED_SENDER"
    /\ remote' = [remote EXCEPT ![i].active = FALSE, ![i].holding = FALSE]
    /\ AddToBanList(remote[i].peer)
    /\ toClient' = [toClient EXCEPT ![remote[i].peer] = {}]
    /\ UNCHANGED notices

BanExpires(p) ==
  /\ p \in banned
  /\ banned' = banned \ {p}
  /\ UNCHANGED <<clientVars, remote, notices, offline, toServer, toClient>>

\* An ordered message of the player's application arrives before an earlier
\* one of its channel, or a part of a long message that is never completed.
\* The list it is put on outlives it: orderingList keeps its length until the
\* layer is reset, and parts of a message that stays incomplete stay too.
Hold(i) ==
  /\ remote[i].active /\ ~remote[i].holding
  /\ remote[i].peer \notin banned
  /\ clientMode[remote[i].peer] = "CONNECTED"
  /\ remote' = [remote EXCEPT ![i].holding = TRUE]
  /\ UNCHANGED <<clientVars, banned, notices, offline, toServer, toClient>>

\* Nothing is sent to a peer that is disconnecting already.
NotifyAndFlagForDisconnect(i) ==
  /\ SetMode(i, "DISCONNECT_ASAP")
  /\ toClient' = IF remote[i].mode \in Disconnecting THEN toClient
                 ELSE [toClient EXCEPT
                         ![remote[i].peer] =
                           @ \cup {"DISCONNECTION_NOTIFICATION"}]

\* RakServer::Kick of a player the application was told of.  The network
\* thread carries it out later, when the connection may be ending already.
Kick(i) ==
  /\ remote[i].active /\ remote[i].mode \in Disconnecting \cup {"CONNECTED"}
  /\ <<"arrived", remote[i].peer>> \in
       { notices[i][k] : k \in DOMAIN notices[i] }
  /\ NotifyAndFlagForDisconnect(i)
  /\ UNCHANGED <<clientVars, banned, notices, offline, toServer>>

Goodbye_mutant(i) ==
  IF remote[i].mode = "CONNECTED" THEN Notify(i, "gone")
                                  ELSE UNCHANGED notices

\* The server's application is told of the end by one packet of either kind.
Goodbye(i) ==
  IF Farewell(remote[i].mode) # {} THEN Notify(i, "gone")
                                   ELSE UNCHANGED notices

\* RunUpdateCycle and CloseConnectionInternal: peer and connectMode stay.
ServerDrops(i) ==
  /\ remote[i].active
  /\ remote' = [remote EXCEPT ![i].active = FALSE, ![i].holding = FALSE]
  /\ toClient' = [toClient EXCEPT ![remote[i].peer] = {}]
  /\ Goodbye(i)
  /\ UNCHANGED <<clientVars, banned, offline, toServer>>

ServerFinishes(i) ==
  /\ remote[i].active
  /\ IsFinished(remote[i].mode, toClient[remote[i].peer], remote[i].holding)
  /\ ServerDrops(i)

ServerExpires(i) == MayExpire(remote[i].mode) /\ ServerDrops(i)

ServerLoses(i) ==
  /\ remote[i].active
  /\ MayDie(remote[i].mode, toClient[remote[i].peer])
  /\ ServerDrops(i)
-----------------------------------------------------------------------------
ClientStep(p) ==
  \/ Connect(p) \/ SendOpenRequest(p) \/ RequestsExhausted(p)
  \/ ReceiveRefusal(p) \/ ReceiveOpenReply(p)
  \/ ReceiveAccepted(p) \/ ReceiveInvalidPassword(p) \/ ReceiveFarewell(p)
  \/ Disconnect(p) \/ Stop(p)
  \/ ClientFinishes(p) \/ ClientExpires(p) \/ ClientLoses(p)

ServerStep(i) ==
  \/ ReceiveConnectionRequest(i) \/ ReceiveNewIncoming(i)
  \/ ReceiveNotification(i) \/ ReceiveNonsense(i)
  \/ Hold(i) \/ Kick(i)
  \/ ServerFinishes(i) \/ ServerExpires(i) \/ ServerLoses(i)

Next ==
  \/ \E p \in Peers : ClientStep(p) \/ ReceiveOpenRequest(p) \/ BanExpires(p)
  \/ \E i \in Slots : ServerStep(i)

Spec == Init /\ [][Next]_vars

\* The client is no longer there to acknowledge anything from slot i.
Deserted(i) == remote[i].active /\ clientMode[remote[i].peer] = "INACTIVE"

(***************************************************************************)
(* The clock and the update cycle of both sides run on their own: open     *)
(* requests are repeated and given up, handshakes expire, finished         *)
(* connections are dropped, and a connection whose other side is gone is   *)
(* found dead.  A cycle that carries out a deferred send looks at no timer *)
(* of RakPeer (timeMS stays 0): such sends are assumed to leave pauses.    *)
(* Nothing is assumed of the network.                                      *)
(***************************************************************************)
Fairness ==
  /\ \A p \in Peers :
       /\ WF_vars(SendOpenRequest(p)) /\ WF_vars(RequestsExhausted(p))
       /\ WF_vars(ClientFinishes(p)) /\ WF_vars(ClientExpires(p))
  /\ \A i \in Slots :
       /\ WF_vars(ServerFinishes(i)) /\ WF_vars(ServerExpires(i))
       /\ WF_vars(Deserted(i) /\ ServerLoses(i))

FairSpec == Spec /\ Fairness
-----------------------------------------------------------------------------
(***************************************************************************)
(* Every variable has its type; a slot that was never used has no peer.    *)
(***************************************************************************)
TypeOK ==
  /\ stage \in [Peers -> {"idle", "asking", "asked", "leaving", "stopped"}]
  /\ requestsMade \in [Peers -> 0..MaxRequests]
  /\ clientMode \in [Peers -> Modes \cup {"INACTIVE"}]
  /\ heard \in [Peers -> SUBSET (Refusals \cup
                  { "CONNECTION_REQUEST_ACCEPTED", "INVALID_PASSWORD",
                    "CONNECTION_LOST", "DISCONNECTION_NOTIFICATION" })]
  /\ remote \in [Slots -> [peer : Peers \cup {Nobody}, mode : Modes,
                           active : BOOLEAN, holding : BOOLEAN]]
  /\ \A i \in Slots : remote[i].peer = Nobody => ~remote[i].active
  /\ banned \subseteq Peers
  /\ offline \subseteq Peers \X (Refusals \cup
                 {"OPEN_CONNECTION_REQUEST", "OPEN_CONNECTION_REPLY"})
  /\ toServer \in [Peers -> SUBSET Messages]
  /\ toClient \in [Peers -> SUBSET Messages]
  /\ notices \in [Slots -> Seq({"arrived", "gone"} \X Peers)]

(***************************************************************************)
(* One address never has two slots, whatever becomes of repeated and late  *)
(* open requests: remoteSystemLookup could not tell the slots apart.       *)
(***************************************************************************)
OneSlotPerPeer == \A p \in Peers : Cardinality(SlotsOf(p)) <= 1

(***************************************************************************)
(* The server's application is told of a new player only when that player  *)
(* gave the password and its own application knows that it is connected.   *)
(***************************************************************************)
ArrivalsAreAgreed ==
  \A i \in Slots : \A k \in DOMAIN notices[i] :
    notices[i][k][1] = "arrived" =>
      /\ notices[i][k][2] \in Invited
      /\ "CONNECTION_REQUEST_ACCEPTED" \in heard[notices[i][k][2]]

(***************************************************************************)
(* An index is given to a new player only after the application was told   *)
(* that the one before is gone: this module implements SlotLifecycle.      *)
(***************************************************************************)
Lifecycle == INSTANCE SlotLifecycle

ImplementsLifecycle == Lifecycle!Spec

(***************************************************************************)
(* Every call of Connect has an outcome that the application hears, unless *)
(* it calls Disconnect first: the client's main loop waits for it.         *)
(***************************************************************************)
AttemptEnds ==
  \A p \in Peers :
    stage[p] = "asking" ~> (heard[p] # {} \/ stage[p] \in {"leaving", "stopped"})

(***************************************************************************)
(* A slot whose client is gone does not stay occupied, however far the     *)
(* handshake had come and whoever ended it: without this the server fills  *)
(* up.  The exception is a player that was kicked while the slot's         *)
(* reliability layer held something.                                       *)
(***************************************************************************)
IsStuck(i) ==
  remote[i].active /\ remote[i].mode = "DISCONNECT_ASAP" /\ remote[i].holding

SlotsAreFreed == \A i \in Slots : Deserted(i) ~> ~Deserted(i) \/ IsStuck(i)

(***************************************************************************)
(* The same without the exception: what IsDataWaiting asks for, data "to   *)
(* be sent out or be processed by the player", comes to an end once the    *)
(* player is gone, and with it the connection of a player that was kicked. *)
(***************************************************************************)
KickEnds == \A i \in Slots : Deserted(i) ~> ~Deserted(i)
=============================================================================
