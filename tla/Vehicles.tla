------------------------------ MODULE Vehicles ------------------------------
(***************************************************************************)
(* The vehicles of the game: the server's vehiclePool                      *)
(* (server/src/vehicles.cpp), the script functions that change it          *)
(* (ScrFunctions.cpp), what a player is sent when it joins (RPCs.cpp) and  *)
(* the table each client keeps (client/src/netrpc.cpp).                    *)
(*                                                                         *)
(* Two threads of the server use the pool, and no lock protects it.  The   *)
(* main thread runs the packet handlers and the scripts they call.         *)
(* RakNet's network thread answers queries, and runs the onNewQuery of     *)
(* every script in between (SocketLayer.cpp:417, query.cpp:47).  A call of *)
(* a vehicle function is therefore a sequence of steps, one per access to  *)
(* memory or to the network that the other thread may come before.  The    *)
(* stores into one entry are one step, and so is one RPC: the queue behind *)
(* it is taken to have one producer at a time.                             *)
(*                                                                         *)
(* A client gets the calls of its connection in order: Roster shows what   *)
(* reordering does.  How connections begin and end is left to Connection   *)
(* and Roster; here they only begin.                                       *)
(***************************************************************************)
EXTENDS Integers, Sequences, FiniteSets

CONSTANTS
  Clients,
  Models,          \* the values of iModelID in use
  MAX_VEHICLES,    \* 2000 in the code
  VehicleNumbers,  \* the values of VEHICLEID: 0..65535 in the code
  MaxCalls         \* bound: calls on their way to one client

VehicleIds == 0..(MAX_VEHICLES - 1)

ASSUME VehiclesAssumption ==
  /\ MAX_VEHICLES \in Nat \ {0}
  /\ VehicleNumbers \subseteq Nat /\ VehicleIds \subseteq VehicleNumbers
  /\ MaxCalls \in Nat
  /\ "NoVehicle" \notin Models

VARIABLES
  vehiclePool,    \* vehiclePool[v]: iModelID, or NoVehicle if not bExists
  static,         \* the entries with bIsStatic
  iVehicleCount,
  script,         \* script[t]: the vehicle function thread t is in
  nextVehicle,    \* the main thread's v in SpawnAllVehiclesForPlayer
  newVeh,         \* its newVeh.iVehicleType, or NoVehicle if none is filled in
  session,        \* session[c]: "new", "connected", "joining" or "joined"
  toClient,       \* toClient[c]: calls on their way to c
  iGameInited,    \* iGameInited[c] of the client
  seen,           \* seen[c]: the client's vehiclePool
  unsafe,         \* history: scripts did what the code does not survive
  raced           \* history: raced[c]: entries a script was changing while c
                  \* was being told of them, and has not announced since

poolVars == <<vehiclePool, static, iVehicleCount>>
spawnVars == <<nextVehicle, newVeh>>
clientVars == <<iGameInited, seen>>
historyVars == <<unsafe, raced>>
vars == <<poolVars, script, spawnVars, session, toClient, clientVars, historyVars>>

NoVehicle == "NoVehicle"

Existing == {v \in VehicleIds : vehiclePool[v] # NoVehicle}

Threads == {"main", "network"}

\* No function of a thread: what a thread is in has the step it takes next, the
\* entry and model it is about (NoVehicle when it is removed) and the count it
\* has read.
NoCall == [step |-> "none", id |-> 0, model |-> NoVehicle, count |-> 0]

\* The calls InitGame, WorldVehicleAdd and WorldVehicleRemove.
InitGame == [call |-> "InitGame", id |-> 0, model |-> NoVehicle]

VehicleAdd(v, m) == [call |-> "WorldVehicleAdd", id |-> v, model |-> m]

VehicleRemove(v) == [call |-> "WorldVehicleRemove", id |-> v, model |-> NoVehicle]

Init ==
  /\ vehiclePool = [v \in VehicleIds |-> NoVehicle]
  /\ static = {} /\ iVehicleCount = 0
  /\ script = [t \in Threads |-> NoCall]
  /\ nextVehicle = 0 /\ newVeh = NoVehicle
  /\ session = [c \in Clients |-> "new"]
  /\ toClient = [c \in Clients |-> <<>>]
  /\ iGameInited = [c \in Clients |-> FALSE]
  /\ seen = [c \in Clients |-> [v \in VehicleIds |-> NoVehicle]]
  /\ unsafe = FALSE /\ raced = [c \in Clients |-> {}]
-----------------------------------------------------------------------------
(* The script functions, on either thread.                                 *)

IsJoining(c) == session[c] = "joining"

\* A handler of the main thread ends before the next begins.
IsFree(t) ==
  /\ script[t] = NoCall
  /\ t = "main" => \A c \in Clients : ~IsJoining(c)

\* Bound: scripts are not followed any further once they did what is unsafe.
MayCall(t) == IsFree(t) /\ ~unsafe

\* c is about to be told of entry v as it was when the loop looked at it.
IsBeingTold(c, v) == IsJoining(c) /\ nextVehicle = v /\ newVeh # NoVehicle

\* Thread t has entry v still to change, or still to tell of.
IsChanging(t, v) ==
  script[t].id = v /\ script[t].step \in {"fill", "fillStatic", "announce", "clear"}

Enter(t, step, v, m) ==
  /\ script' = [script EXCEPT ![t] =
                  [step |-> step, id |-> v, model |-> m, count |-> 0]]
  /\ raced' = [c \in Clients |-> IF IsBeingTold(c, v) THEN raced[c] \cup {v}
                                                      ELSE raced[c]]

\* Unsafe is a call while the other thread is in one, and one about an entry the
\* pool does not have.
Overlaps(t) == \E u \in Threads \ {t} : script[u] # NoCall

\* Thread t goes on to the given step.
GoOn(t, step) == script' = [script EXCEPT ![t].step = step]

HasRoom_mutant == iVehicleCount <= MAX_VEHICLES

HasRoom == iVehicleCount # MAX_VEHICLES

\* vehicleIDRet is the count as it is now.
AddStaticVehicle(t, m) ==
  /\ MayCall(t) /\ HasRoom
  /\ Enter(t, "fillStatic", iVehicleCount, m)
  /\ unsafe' = Overlaps(t)
  /\ UNCHANGED <<poolVars, spawnVars, session, toClient, clientVars>>

CreateVehicle(t, m) ==
  /\ MayCall(t) /\ HasRoom
  /\ Enter(t, "fill", iVehicleCount, m)
  /\ unsafe' = Overlaps(t)
  /\ UNCHANGED <<poolVars, spawnVars, session, toClient, clientVars>>

DoesVehicleExist_mutant(v) == TRUE

\* What lies beyond the pool may look like a vehicle.
DoesVehicleExist(v) == v \in VehicleIds => vehiclePool[v] # NoVehicle

RemoveVehicle(t, v) ==
  /\ MayCall(t) /\ DoesVehicleExist(v)
  /\ Enter(t, "announce", v, NoVehicle)
  /\ unsafe' = (Overlaps(t) \/ v \notin VehicleIds)
  /\ UNCHANGED <<poolVars, spawnVars, session, toClient, clientVars>>

\* Entry i becomes m; beyond the pool something else does.
Assign(i, m) ==
  vehiclePool' = [v \in VehicleIds |-> IF v = i THEN m ELSE vehiclePool[v]]

\* iVehicleCount is read again for the stores, unless the compiler kept it.
Fill(t) ==
  /\ \E i \in {script[t].id, iVehicleCount} :
       /\ Assign(i, script[t].model)
       /\ \/ /\ script[t].step = "fillStatic"
             /\ static' = static \cup ({i} \cap VehicleIds)
             /\ GoOn(t, "load")
          \/ /\ script[t].step = "fill"
             /\ static' = static \ {i}
             /\ GoOn(t, "announce")
  /\ UNCHANGED <<iVehicleCount, spawnVars, session, toClient, clientVars, historyVars>>

Hearers_mutant == {c \in Clients : session[c] = "joined"}

\* A broadcast goes to every connection, joined or not.
Hearers == {c \in Clients : session[c] # "new"}

Announce(t) ==
  /\ script[t].step = "announce"
  /\ \A c \in Clients : Len(toClient[c]) < MaxCalls
  /\ LET v == script[t].id
         m == script[t].model
     IN  /\ toClient' = [c \in Clients |->
              IF c \notin Hearers THEN toClient[c]
              ELSE Append(toClient[c],
                     IF m = NoVehicle THEN VehicleRemove(v) ELSE VehicleAdd(v, m))]
         /\ raced' = [c \in Clients |-> IF IsBeingTold(c, v) THEN raced[c]
                                                             ELSE raced[c] \ {v}]
         /\ GoOn(t, IF m = NoVehicle THEN "clear" ELSE "load")
  /\ UNCHANGED <<poolVars, spawnVars, session, clientVars, unsafe>>

Clear(t) ==
  /\ script[t].step = "clear"
  /\ Assign(script[t].id, NoVehicle)
  /\ static' = static \ {script[t].id}
  /\ GoOn(t, "load")
  /\ UNCHANGED <<iVehicleCount, spawnVars, session, toClient, clientVars, historyVars>>

\* iVehicleCount++ and iVehicleCount-- read the count and write it.
LoadCount(t) ==
  /\ script[t].step = "load"
  /\ script' = [script EXCEPT ![t] = [@ EXCEPT !.step = "store", !.count = iVehicleCount]]
  /\ UNCHANGED <<poolVars, spawnVars, session, toClient, clientVars, historyVars>>

StoreCount(t) ==
  /\ script[t].step = "store"
  /\ iVehicleCount' = IF script[t].model = NoVehicle THEN script[t].count - 1
                                                     ELSE script[t].count + 1
  /\ script' = [script EXCEPT ![t] = NoCall]
  /\ UNCHANGED <<vehiclePool, static, spawnVars, session, toClient, clientVars, historyVars>>
-----------------------------------------------------------------------------
(* A client's way into the game.                                           *)

Connect(c) ==
  /\ session[c] = "new"
  /\ session' = [session EXCEPT ![c] = "connected"]
  /\ UNCHANGED <<poolVars, script, spawnVars, toClient, clientVars, historyVars>>

\* RPC_ClientJoins up to SpawnAllVehiclesForPlayer: InitGameForPlayer.
BeginJoin(c) ==
  /\ session[c] = "connected" /\ IsFree("main")
  /\ Len(toClient[c]) < MaxCalls
  /\ session' = [session EXCEPT ![c] = "joining"]
  /\ toClient' = [toClient EXCEPT ![c] = Append(@, InitGame)]
  /\ nextVehicle' = 0 /\ newVeh' = NoVehicle
  /\ UNCHANGED <<poolVars, script, clientVars, historyVars>>

SkipVehicle(c) ==
  /\ IsJoining(c) /\ nextVehicle \in VehicleIds /\ newVeh = NoVehicle
  /\ vehiclePool[nextVehicle] = NoVehicle
  /\ nextVehicle' = nextVehicle + 1
  /\ UNCHANGED <<poolVars, script, newVeh, session, toClient, clientVars, historyVars>>

\* The loop has found a vehicle and copies it.
CopyVehicle(c) ==
  /\ IsJoining(c) /\ nextVehicle \in VehicleIds /\ newVeh = NoVehicle
  /\ vehiclePool[nextVehicle] # NoVehicle
  /\ newVeh' = vehiclePool[nextVehicle]
  /\ raced' = [raced EXCEPT ![c] = IF \E t \in Threads : IsChanging(t, nextVehicle)
                                   THEN @ \cup {nextVehicle} ELSE @]
  /\ UNCHANGED <<poolVars, script, nextVehicle, session, toClient, clientVars, unsafe>>

\* It sends the copy, and sleeps before the next.
SpawnVehicle(c) ==
  /\ IsJoining(c) /\ newVeh # NoVehicle
  /\ Len(toClient[c]) < MaxCalls
  /\ toClient' = [toClient EXCEPT ![c] = Append(@, VehicleAdd(nextVehicle, newVeh))]
  /\ nextVehicle' = nextVehicle + 1 /\ newVeh' = NoVehicle
  /\ UNCHANGED <<poolVars, script, session, clientVars, historyVars>>

FinishJoin(c) ==
  /\ IsJoining(c) /\ nextVehicle = MAX_VEHICLES
  /\ session' = [session EXCEPT ![c] = "joined"]
  /\ UNCHANGED <<poolVars, script, spawnVars, toClient, clientVars, historyVars>>

\* The client's handler of the next call: calls before InitGame are dropped.
\* An entry beyond the table is beyond the model.
ClientReceives(c) ==
  /\ toClient[c] # <<>>
  /\ toClient' = [toClient EXCEPT ![c] = Tail(@)]
  /\ LET m == Head(toClient[c])
     IN  \/ /\ m.call = "InitGame"
            /\ iGameInited' = [iGameInited EXCEPT ![c] = TRUE]
            /\ UNCHANGED seen
         \/ /\ m.call # "InitGame" /\ iGameInited[c] /\ m.id \in VehicleIds
            /\ seen' = [seen EXCEPT ![c][m.id] = m.model]
            /\ UNCHANGED iGameInited
         \/ /\ m.call # "InitGame" /\ ~(iGameInited[c] /\ m.id \in VehicleIds)
            /\ UNCHANGED clientVars
  /\ UNCHANGED <<poolVars, script, spawnVars, session, historyVars>>

Next ==
  \/ \E t \in Threads :
       \/ \E m \in Models : AddStaticVehicle(t, m) \/ CreateVehicle(t, m)
       \/ \E v \in VehicleNumbers : RemoveVehicle(t, v)
       \/ Fill(t) \/ Announce(t) \/ Clear(t) \/ LoadCount(t) \/ StoreCount(t)
  \/ \E c \in Clients :
       \/ Connect(c) \/ BeginJoin(c) \/ SkipVehicle(c) \/ CopyVehicle(c)
       \/ SpawnVehicle(c) \/ FinishJoin(c) \/ ClientReceives(c)

Spec == Init /\ [][Next]_vars
-----------------------------------------------------------------------------
Calls ==
  [ call : {"InitGame", "WorldVehicleAdd", "WorldVehicleRemove"},
    id : VehicleNumbers, model : Models \cup {NoVehicle} ]

Steps == {"none", "fill", "fillStatic", "announce", "clear", "load", "store"}

(***************************************************************************)
(* Every variable has its type.                                            *)
(***************************************************************************)
TypeOK ==
  /\ vehiclePool \in [VehicleIds -> Models \cup {NoVehicle}]
  /\ static \subseteq VehicleIds
  /\ iVehicleCount \in Int
  /\ script \in [Threads -> [ step : Steps, id : VehicleNumbers,
                              model : Models \cup {NoVehicle}, count : Int ]]
  /\ nextVehicle \in 0..MAX_VEHICLES /\ newVeh \in Models \cup {NoVehicle}
  /\ session \in [Clients -> {"new", "connected", "joining", "joined"}]
  /\ toClient \in [Clients -> Seq(Calls)]
  /\ iGameInited \in [Clients -> BOOLEAN]
  /\ seen \in [Clients -> [VehicleIds -> Models \cup {NoVehicle}]]
  /\ unsafe \in BOOLEAN /\ raced \in [Clients -> SUBSET VehicleIds]

(***************************************************************************)
(* No store goes beyond the pool, and the count stays between its ends:    *)
(* at any moment of any call, on either thread, as long as scripts name    *)
(* entries the pool has and no two of their calls overlap.  The code has   *)
(* one test for this, at the beginning of a call.                          *)
(***************************************************************************)
InsidePool ==
  ~unsafe =>
    /\ iVehicleCount \in 0..MAX_VEHICLES
    /\ \A t \in Threads :
         /\ script[t].step \in {"fill", "fillStatic"} =>
              {script[t].id, iVehicleCount} \subseteq VehicleIds
         /\ script[t].step = "clear" => script[t].id \in VehicleIds

(***************************************************************************)
(* Between such calls, iVehicleCount is at least the number of vehicles,   *)
(* although removing a vehicle that is not the last one makes the next     *)
(* fill an entry in use.                                                   *)
(***************************************************************************)
CountCovers ==
  ~unsafe /\ (\A t \in Threads : script[t] = NoCall) =>
    Cardinality(Existing) <= iVehicleCount

\* Thread t has changed entry v and not told of it yet, or the other way round.
IsHalfDone(t, v) ==
  /\ script[t].id = v
  /\ \/ script[t].step = "announce" /\ script[t].model # NoVehicle
     \/ script[t].step = "clear"

(***************************************************************************)
(* Once a client in the game has handled what was sent to it, its table    *)
(* agrees with the server's on all but the static vehicles, of which it is *)
(* told only when it joins: whatever scripts did between its connection    *)
(* and its join, during the sleeps of the join, and since.  The one        *)
(* exception is an entry that a script was changing just when the join     *)
(* told the client of it: the client may then keep a vehicle that was      *)
(* removed or replaced, but it still misses none.                          *)
(***************************************************************************)
VehiclesAgree ==
  ~unsafe =>
    \A c \in Clients : session[c] = "joined" /\ toClient[c] = <<>> =>
      \A v \in VehicleIds \ static :
        \/ seen[c][v] = vehiclePool[v]
        \/ v \in raced[c] /\ seen[c][v] # NoVehicle
        \/ \E t \in Threads : IsHalfDone(t, v)
=============================================================================
