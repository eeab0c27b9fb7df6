------------------------------- MODULE Roster -------------------------------
(***************************************************************************)
(* Who plays: the server's playerPool (server/src/players.cpp, RPCs.cpp,   *)
(* netgame.cpp) and what each client knows of it (client/src/netrpc.cpp,   *)
(* netgame.cpp).                                                           *)
(*                                                                         *)
(* Connection shows how a slot of remoteSystemList is taken and freed;     *)
(* here that is one step of the server's network thread.  Its main thread  *)
(* handles what was received in order, and may read remoteSystemList at    *)
(* any moment between two steps of the network thread.  RakPeer::RPC picks *)
(* the receivers of a broadcast when it is called.  All of these calls are *)
(* RELIABLE, not RELIABLE_ORDERED: InOrder says that the network does not  *)
(* reorder them all the same.                                              *)
(***************************************************************************)
EXTENDS Integers, Sequences, FiniteSets, SequencesExt

CONSTANTS
  Clients,     \* processes, each of which connects once
  MayLeave,    \* those that may leave the game
  NumSlots,    \* slots of the server's remoteSystemList
  MAX_PLAYERS, \* entries of playerPool, 500 in the code
  InOrder      \* whether calls from one process happen to arrive in order

\* A pool that cannot overflow: addPlayerToPool does not test playerCount.
ASSUME RosterAssumption ==
  /\ MayLeave \subseteq Clients
  /\ NumSlots \in Nat \ {0}
  /\ MAX_PLAYERS \in Nat /\ NumSlots <= MAX_PLAYERS
  /\ IsFiniteSet(Clients) /\ Cardinality(Clients) <= MAX_PLAYERS
  /\ InOrder \in BOOLEAN
  /\ "Nobody" \notin Clients

VARIABLES
  session,      \* session[c]: whether the client is "new", "connected", "left"
  remote,       \* remote[i]: slot i of the server's remoteSystemList
  received,     \* what the network thread has for the server's main thread
  joining,      \* <<client, index>> of the join being handled, or <<>>
  playerPool,   \* playerPool[p]: whose name the entry holds, or Nobody
  playerCount,
  toServer,     \* toServer[c]: messages on their way from c
  toClient,     \* toClient[c]: calls on their way to c
  iGameInited,  \* iGameInited[c] of the client
  g_myPlayerID, \* g_myPlayerID[c] of the client
  playerInfo    \* playerInfo[c][i]: whom the client believes to be player i

serverVars == <<remote, received, joining, playerPool, playerCount>>
clientVars == <<iGameInited, g_myPlayerID, playerInfo>>
vars == <<session, serverVars, toServer, toClient, clientVars>>

Nobody == "Nobody"

Slots == 0..(NumSlots - 1)

Entries == 0..(MAX_PLAYERS - 1)

InitGame(i) == [call |-> "InitGame", index |-> i, name |-> Nobody]

ServerJoin(i, name) == [call |-> "ServerJoin", index |-> i, name |-> name]

ServerQuit(i) == [call |-> "ServerQuit", index |-> i, name |-> Nobody]

\* The packets of the server's main thread: a call of ClientJoin by a client,
\* and the end of the connection at an index.
Join(c) == <<"join", c>>

Gone(i) == <<"gone", i>>

IsPlaying(c) == session[c] = "connected"

\* The slot of a client that is connected.
SlotOf(c) == CHOOSE i \in Slots : remote[i].active /\ remote[i].client = c

\* RakPeer::GetPlayerIDFromIndex, which does not test isActive.
GetPlayerIDFromIndex(i) ==
  IF remote[i].mode = "CONNECTED" THEN remote[i].client ELSE Nobody

Connected == { remote[i].client : i \in {j \in Slots : remote[j].active} }

\* Nothing is on its way and nothing is left to handle.
Quiet ==
  /\ received = <<>> /\ joining = <<>>
  /\ \A c \in Clients : toServer[c] = <<>> /\ toClient[c] = <<>>

Init ==
  /\ session = [c \in Clients |-> "new"]
  /\ remote = [i \in Slots |->
                 [client |-> Nobody, mode |-> "NO_ACTION", active |-> FALSE]]
  /\ received = <<>> /\ joining = <<>>
  /\ playerPool = [p \in Entries |-> Nobody] /\ playerCount = 0
  /\ toServer = [c \in Clients |-> <<>>]
  /\ toClient = [c \in Clients |-> <<>>]
  /\ iGameInited = [c \in Clients |-> FALSE]
  /\ g_myPlayerID = [c \in Clients |-> 0]
  /\ playerInfo = [c \in Clients |-> [i \in Entries |-> Nobody]]
-----------------------------------------------------------------------------
(***************************************************************************)
(* The network thread of the server.                                       *)
(***************************************************************************)
\* The first free slot is assigned and the client accepted: at the client
\* Packet_ConnectionSucceeded enters its own name and calls ClientJoin, after
\* the network thread has confirmed the connection.
ConnectAt(c, i) ==
  /\ ~remote[i].active /\ \A j \in Slots : j < i => remote[j].active
  /\ session[c] = "new"
  /\ session' = [session EXCEPT ![c] = "connected"]
  /\ remote' = [remote EXCEPT
       ![i] = [client |-> c, mode |-> "HANDLING_CONNECTION_REQUEST",
               active |-> TRUE]]
  /\ toServer' = [toServer EXCEPT
       ![c] = <<"NEW_INCOMING_CONNECTION", "ClientJoin">>]
  /\ g_myPlayerID' = [g_myPlayerID EXCEPT ![c] = i]
  /\ playerInfo' = [playerInfo EXCEPT ![c][i] = c]
  /\ UNCHANGED <<received, joining, playerPool, playerCount, toClient,
                 iGameInited>>

Connect(c) == \E i \in Slots : ConnectAt(c, i)

\* Message k of those on their way is the next to arrive.
Arrives(k, mail) == k \in DOMAIN mail /\ (InOrder => k = 1)

ServerReceives(c) ==
  \E k \in DOMAIN toServer[c] :
    /\ Arrives(k, toServer[c])
    /\ toServer' = [toServer EXCEPT ![c] = RemoveAt(@, k)]
    /\ IF toServer[c][k] = "NEW_INCOMING_CONNECTION"
       THEN /\ remote' = [remote EXCEPT ![SlotOf(c)].mode = "CONNECTED"]
            /\ UNCHANGED received
       ELSE /\ received' = Append(received, Join(c))
            /\ UNCHANGED remote
    /\ UNCHANGED <<session, joining, playerPool, playerCount, toClient,
                   clientVars>>

\* The connection ends, by a goodbye or a loss; one that ends before it was
\* confirmed need not be reported.
Leave(c) ==
  /\ c \in MayLeave /\ IsPlaying(c)
  /\ session' = [session EXCEPT ![c] = "left"]
  /\ remote' = [remote EXCEPT ![SlotOf(c)].active = FALSE]
  /\ \/ received' = Append(received, Gone(SlotOf(c)))
     \/ remote[SlotOf(c)].mode # "CONNECTED" /\ UNCHANGED received
  /\ toServer' = [toServer EXCEPT ![c] = <<>>]
  /\ toClient' = [toClient EXCEPT ![c] = <<>>]
  /\ UNCHANGED <<joining, playerPool, playerCount, clientVars>>
-----------------------------------------------------------------------------
(***************************************************************************)
(* The main thread of the server.                                          *)
(***************************************************************************)
\* calls[d] is what a handler sends to client d, if d has a slot.
Sends(calls) ==
  toClient' = [d \in Clients |->
                 IF d \in Connected THEN toClient[d] \o calls[d]
                                    ELSE toClient[d]]

IsWelcome_mutant(c) == c \in Connected /\ playerPool[SlotOf(c)] = Nobody

\* A sender without a confirmed connection is taken for a bot.
IsWelcome(c) == c \in Connected /\ remote[SlotOf(c)].mode = "CONNECTED"

\* RPC_ClientJoins, up to the calls of the scripts: the index is computed.
BeginJoin ==
  /\ joining = <<>> /\ received # <<>> /\ Head(received)[1] = "join"
  /\ received' = Tail(received)
  /\ LET c == Head(received)[2]
     IN  joining' = IF IsWelcome(c) THEN <<c, SlotOf(c)>> ELSE joining
  /\ UNCHANGED <<session, remote, playerPool, playerCount, toServer, toClient,
                 clientVars>>

\* The entries that SendPlayerPoolToPlayer tells the player at index i of, and
\* the one way to go through them in ascending order.
OtherEntries(pool, i) == {p \in Entries : pool[p] # Nobody /\ p # i}

Ascending(S) ==
  {f \in [1..Cardinality(S) -> S] : \A j, k \in DOMAIN f : j < k => f[j] < f[k]}

WelcomeIndex_mutant(i) == playerCount

\* The playerID that InitGameForPlayer writes.
WelcomeIndex(i) == i

\* SendPlayerPoolToPlayer.
PoolCalls(pool, order) ==
  [k \in DOMAIN order |-> ServerJoin(order[k], pool[order[k]])]

\* InitGameForPlayer, then SendPlayerPoolToPlayer.
Welcome(i, pool, order) ==
  <<InitGame(WelcomeIndex(i))>> \o PoolCalls(pool, order)

JoinCalls_mutant(d, c, i, pool, order) ==
  (IF d # c THEN <<ServerJoin(playerCount, c)>> ELSE <<>>) \o
  (IF d = GetPlayerIDFromIndex(i) THEN Welcome(i, pool, order) ELSE <<>>)

\* What FinishJoin sends to d about the player c that joined at index i.
JoinCalls(d, c, i, pool, order) ==
  (IF d # c THEN <<ServerJoin(i, c)>> ELSE <<>>) \o
  (IF d = GetPlayerIDFromIndex(i) THEN Welcome(i, pool, order) ELSE <<>>)

AddPlayerToPool_mutant(c, i) ==
  /\ playerPool' = [playerPool EXCEPT ![playerCount] = c]
  /\ UNCHANGED playerCount

\* addPlayerToPool fills the entry playerCount, not the entry i.
AddPlayerToPool(c, i) ==
  /\ playerPool' = [playerPool EXCEPT ![playerCount] = c]
  /\ playerCount' = playerCount + 1

\* The rest of RPC_ClientJoins.  The others are told of the new player; what
\* is meant for it goes to whoever is at its index by now.
FinishJoin ==
  /\ joining # <<>>
  /\ joining' = <<>>
  /\ LET c == joining[1]
         i == joining[2]
     IN  /\ AddPlayerToPool(c, i)
         /\ \E order \in Ascending(OtherEntries(playerPool', i)) :
              Sends([d \in Clients |-> JoinCalls(d, c, i, playerPool', order)])
  /\ UNCHANGED <<session, remote, received, toServer, clientVars>>

QuitHearers_mutant(i) == Clients

\* All but the player that GetPlayerIDFromIndex finds at the index.
QuitHearers(i) == Clients \ {GetPlayerIDFromIndex(i)}

IsInPool_mutant(i) == TRUE

IsInPool(i) == playerPool[i] # Nobody

\* removePlayerFromPool.
HandleGone ==
  /\ joining = <<>> /\ received # <<>> /\ Head(received)[1] = "gone"
  /\ received' = Tail(received)
  /\ LET i == Head(received)[2]
         calls == [d \in Clients |-> IF d \in QuitHearers(i)
                                     THEN <<ServerQuit(i)>> ELSE <<>>]
     IN  IF IsInPool(i)
         THEN /\ playerPool' = [playerPool EXCEPT ![i] = Nobody]
              /\ playerCount' = playerCount - 1
              /\ Sends(calls)
         ELSE UNCHANGED <<playerPool, playerCount, toClient>>
  /\ UNCHANGED <<session, remote, joining, toServer, clientVars>>
-----------------------------------------------------------------------------
(***************************************************************************)
(* A client.                                                               *)
(***************************************************************************)
\* ServerJoin and ServerQuit are dropped until InitGame was handled.
IsAccepted(c, m) == m.call = "InitGame" \/ iGameInited[c]

\* netrpc.cpp: InitGame, ServerJoin and ServerQuit.
Handle(c, m) ==
  /\ iGameInited' = [iGameInited EXCEPT ![c] = @ \/ m.call = "InitGame"]
  /\ g_myPlayerID' = [g_myPlayerID EXCEPT
                        ![c] = IF m.call = "InitGame" THEN m.index ELSE @]
  /\ playerInfo' = [playerInfo EXCEPT
                      ![c][m.index] = IF m.call = "InitGame" THEN @ ELSE m.name]

ClientReceives(c) ==
  \E k \in DOMAIN toClient[c] :
    /\ Arrives(k, toClient[c])
    /\ toClient' = [toClient EXCEPT ![c] = RemoveAt(@, k)]
    /\ IF IsAccepted(c, toClient[c][k])
       THEN Handle(c, toClient[c][k])
       ELSE UNCHANGED clientVars
    /\ UNCHANGED <<session, serverVars, toServer>>
-----------------------------------------------------------------------------
Next ==
  \/ \E c \in Clients : Connect(c) \/ ServerReceives(c) \/ Leave(c)
  \/ BeginJoin \/ FinishJoin \/ HandleGone
  \/ \E c \in Clients : ClientReceives(c)

Spec == Init /\ [][Next]_vars

(***************************************************************************)
(* The server's main loop runs, and what is sent RELIABLE arrives, as      *)
(* ReliabilityLayer shows of connections that last.                        *)
(***************************************************************************)
Fairness ==
  /\ WF_vars(BeginJoin) /\ WF_vars(FinishJoin) /\ WF_vars(HandleGone)
  /\ \A c \in Clients : WF_vars(ServerReceives(c)) /\ WF_vars(ClientReceives(c))

FairSpec == Spec /\ Fairness
-----------------------------------------------------------------------------
RemoteSystems ==
  [ client : Clients \cup {Nobody},
    mode : {"NO_ACTION", "CONNECTED", "HANDLING_CONNECTION_REQUEST"},
    active : BOOLEAN ]

Packets == ({"join"} \X Clients) \cup ({"gone"} \X Slots)

Calls == [ call : {"InitGame", "ServerJoin", "ServerQuit"}, index : Entries,
           name : Clients \cup {Nobody} ]

(***************************************************************************)
(* Every variable has its type.                                            *)
(***************************************************************************)
TypeOK ==
  /\ session \in [Clients -> {"new", "connected", "left"}]
  /\ remote \in [Slots -> RemoteSystems]
  /\ received \in Seq(Packets)
  /\ joining \in (Clients \X Slots) \cup {<<>>}
  /\ playerPool \in [Entries -> Clients \cup {Nobody}]
  /\ playerCount \in Nat
  /\ toServer \in
       [Clients -> Seq({"NEW_INCOMING_CONNECTION", "ClientJoin"})]
  /\ toClient \in [Clients -> Seq(Calls)]
  /\ iGameInited \in [Clients -> BOOLEAN]
  /\ g_myPlayerID \in [Clients -> Entries]
  /\ playerInfo \in [Clients -> [Entries -> Clients \cup {Nobody}]]

Taken == {p \in Entries : playerPool[p] # Nobody}

(***************************************************************************)
(* playerCount is at least the number of entries in use, although the      *)
(* entry that addPlayerToPool fills is not the one removePlayerFromPool    *)
(* clears and a full entry may be overwritten: so the count, an unsigned   *)
(* short, never goes below zero.                                           *)
(***************************************************************************)
CountCovers == Cardinality(Taken) <= playerCount

(***************************************************************************)
(* The player number a client was given by InitGame is the index of its    *)
(* own connection, even when the join that was answered was that of an     *)
(* earlier client at the same index.                                       *)
(***************************************************************************)
MyIndexIsMine ==
  \A c \in Clients : IsPlaying(c) => g_myPlayerID[c] = SlotOf(c)

(***************************************************************************)
(* A client that plays has its own name at its own index: no late news     *)
(* about the player who had the index before takes it away.                *)
(***************************************************************************)
OwnEntryIntact ==
  \A c \in Clients : IsPlaying(c) => playerInfo[c][SlotOf(c)] = c

InGame == {c \in Clients : IsPlaying(c) /\ iGameInited[c]}

(***************************************************************************)
(* When all has arrived, of two players in the game at least one, the one  *)
(* that joined first, knows the other by its index.  (That both do is more *)
(* than the pool can give: see PoolHoldsPlayers.)                          *)
(***************************************************************************)
FirstKnowsSecond ==
  Quiet => \A c, d \in InGame : \/ playerInfo[c][SlotOf(d)] = d
                                \/ playerInfo[d][SlotOf(c)] = c

(***************************************************************************)
(* The pool holds every player that is in the game, so that whoever joins  *)
(* next is told of all of them.                                            *)
(***************************************************************************)
PoolHoldsPlayers ==
  Quiet => \A c \in InGame : \E p \in Entries : playerPool[p] = c

(***************************************************************************)
(* A client that connects and stays gets into the game.                    *)
(***************************************************************************)
EntersGame ==
  \A c \in Clients : IsPlaying(c) ~> (iGameInited[c] \/ session[c] = "left")
=============================================================================
