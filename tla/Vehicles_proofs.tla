--------------------------- MODULE Vehicles_proofs ---------------------------
(***************************************************************************)
(* Proofs about Vehicles for every set of clients and models and every     *)
(* size of the pool.                                                       *)
(***************************************************************************)
EXTENDS Vehicles, FiniteSetTheorems, SequenceTheorems, TLAPS

Busy(t) == script[t].step # "none"

\* The thread has filled an entry, or cleared one, and not counted it.
Filled(t) ==
  script[t].step \in {"announce", "load", "store"} /\ script[t].model # NoVehicle

Cleared(t) ==
  script[t].step \in {"load", "store"} /\ script[t].model = NoVehicle

(***************************************************************************)
(* What the code that a thread has behind it in a call has made sure of.   *)
(***************************************************************************)
CallOK(t) ==
  /\ ~Busy(t) => script[t] = NoCall
  /\ script[t].step \in {"fill", "fillStatic"} =>
       script[t].id = iVehicleCount /\ script[t].model # NoVehicle
  /\ Busy(t) /\ script[t].model # NoVehicle => iVehicleCount # MAX_VEHICLES
  /\ script[t].step \in {"fill", "fillStatic", "announce", "clear"} =>
       script[t].id \in VehicleIds
  /\ script[t].step = "announce" /\ script[t].model # NoVehicle =>
       /\ vehiclePool[script[t].id] = script[t].model
       /\ script[t].id \notin static
  /\ script[t].step = "announce" /\ script[t].model = NoVehicle =>
       vehiclePool[script[t].id] # NoVehicle
  /\ script[t].step = "clear" =>
       vehiclePool[script[t].id] # NoVehicle /\ script[t].model = NoVehicle
  /\ script[t].step = "store" => script[t].count = iVehicleCount

\* At most this many entries are in use.
AtMost(n) == Cardinality(Existing) <= n

(***************************************************************************)
(* While no calls overlap, one thread at most is in one, and the count is  *)
(* what it will be once that thread has counted what it did.               *)
(***************************************************************************)
CallInv ==
  /\ iVehicleCount \in 0..MAX_VEHICLES
  /\ \A t, u \in Threads : Busy(t) /\ Busy(u) => t = u
  /\ \A t \in Threads :
       /\ CallOK(t)
       /\ Filled(t) => AtMost(iVehicleCount + 1)
       /\ Cleared(t) => AtMost(iVehicleCount - 1)
       /\ Busy(t) /\ ~Filled(t) /\ ~Cleared(t) => AtMost(iVehicleCount)
  /\ (\A t \in Threads : ~Busy(t)) => AtMost(iVehicleCount)

\* The copy that the join sends is of an entry of the pool.
CopyInPool == newVeh # NoVehicle => nextVehicle \in VehicleIds

VehiclesInv == TypeOK /\ CopyInPool /\ (~unsafe => CallInv)

\* The pool is finite, and has an entry 0.
LEMMA PoolFacts ==
  /\ IsFiniteSet(VehicleIds) /\ VehicleIds \subseteq Nat /\ 0 \in VehicleIds
  /\ IsFiniteSet(Existing) /\ Cardinality(Existing) \in Nat
<1>1. IsFiniteSet(VehicleIds)
  BY FS_Interval, VehiclesAssumption DEF VehicleIds
<1>2. IsFiniteSet(Existing) /\ Cardinality(Existing) \in Nat
  BY <1>1, FS_Subset, FS_CardinalityType DEF Existing
<1> QED BY <1>1, <1>2, VehiclesAssumption DEF VehicleIds

\* Calls about entries of the pool, and InitGame, are calls.
LEMMA CallTypes ==
  ASSUME NEW v \in VehicleNumbers, NEW m \in Models \cup {NoVehicle}
  PROVE  InitGame \in Calls /\ VehicleAdd(v, m) \in Calls /\ VehicleRemove(v) \in Calls
BY PoolFacts, VehiclesAssumption DEF InitGame, VehicleAdd, VehicleRemove, Calls

\* A call more is a sequence of calls.
LEMMA AppendType ==
  ASSUME NEW q \in Seq(Calls), NEW call \in Calls
  PROVE  Append(q, call) \in Seq(Calls)
BY AppendProperties

\* A call of a vehicle function that begins leaves every variable its type.
LEMMA EnterType ==
  ASSUME TypeOK, CopyInPool, NEW t \in Threads, NEW step \in Steps,
         NEW v \in VehicleNumbers, NEW m \in Models \cup {NoVehicle},
         Enter(t, step, v, m), unsafe' \in BOOLEAN,
         UNCHANGED <<poolVars, spawnVars, session, toClient, clientVars>>
  PROVE  TypeOK' /\ CopyInPool'
<1>1. raced' \in [Clients -> SUBSET VehicleIds]
  BY DEF Enter, TypeOK, IsBeingTold, CopyInPool
<1>2. script' \in [Threads -> [ step : Steps, id : VehicleNumbers,
                                model : Models \cup {NoVehicle}, count : Int ]]
  BY DEF Enter, TypeOK
<1> QED BY <1>1, <1>2 DEF TypeOK, CopyInPool, poolVars, spawnVars, clientVars

\* In a safe state, the next entry is one of the pool if there is room.
LEMMA RoomIsInPool ==
  ASSUME VehiclesInv, ~unsafe, HasRoom
  PROVE  iVehicleCount \in VehicleIds /\ iVehicleCount \in VehicleNumbers
BY VehiclesAssumption DEF VehiclesInv, CallInv, HasRoom, VehicleIds

\* The calls of scripts begin within the types.
LEMMA EntryTypes ==
  ASSUME VehiclesInv, NEW t \in Threads,
         \/ \E m \in Models : AddStaticVehicle(t, m) \/ CreateVehicle(t, m)
         \/ \E v \in VehicleNumbers : RemoveVehicle(t, v)
  PROVE  TypeOK' /\ CopyInPool'
<1>1. TypeOK /\ CopyInPool /\ ~unsafe
  BY DEF VehiclesInv, AddStaticVehicle, CreateVehicle, RemoveVehicle, MayCall
<1>2. ASSUME NEW m \in Models, AddStaticVehicle(t, m) PROVE TypeOK' /\ CopyInPool'
  <2>1. HasRoom /\ unsafe' \in BOOLEAN
    BY <1>2 DEF AddStaticVehicle, Overlaps
  <2> QED BY <1>1, <1>2, <2>1, RoomIsInPool, EnterType DEF AddStaticVehicle, Steps
<1>3. ASSUME NEW m \in Models, CreateVehicle(t, m) PROVE TypeOK' /\ CopyInPool'
  <2>1. HasRoom /\ unsafe' \in BOOLEAN
    BY <1>3 DEF CreateVehicle, Overlaps
  <2> QED BY <1>1, <1>3, <2>1, RoomIsInPool, EnterType DEF CreateVehicle, Steps
<1>4. ASSUME NEW v \in VehicleNumbers, RemoveVehicle(t, v) PROVE TypeOK' /\ CopyInPool'
  <2>1. unsafe' \in BOOLEAN
    BY <1>4 DEF RemoveVehicle, Overlaps
  <2> QED BY <1>1, <1>4, <2>1, EnterType DEF RemoveVehicle, Steps
<1> QED BY <1>2, <1>3, <1>4

\* The steps of a call that has begun keep the types, whatever came between.
LEMMA StepTypes ==
  ASSUME TypeOK, CopyInPool, NEW t \in Threads,
         Fill(t) \/ Announce(t) \/ Clear(t) \/ LoadCount(t) \/ StoreCount(t)
  PROVE  TypeOK' /\ CopyInPool'
<1>1. /\ script[t].id \in VehicleNumbers
      /\ script[t].model \in Models \cup {NoVehicle} /\ script[t].count \in Int
  BY DEF TypeOK
<1>2. ASSUME NEW step \in Steps, GoOn(t, step)
      PROVE  script' \in [Threads -> [ step : Steps, id : VehicleNumbers,
                                       model : Models \cup {NoVehicle}, count : Int ]]
  BY <1>2 DEF GoOn, TypeOK
<1>3. ASSUME NEW i, NEW m \in Models \cup {NoVehicle}, Assign(i, m)
      PROVE  vehiclePool' \in [VehicleIds -> Models \cup {NoVehicle}]
  BY <1>3 DEF Assign, TypeOK
<1>4. CASE Fill(t)
  <2>1. static' \subseteq VehicleIds
    BY <1>4 DEF Fill, TypeOK
  <2>2. \E step \in Steps : GoOn(t, step)
    BY <1>4 DEF Fill, Steps
  <2>3. vehiclePool' \in [VehicleIds -> Models \cup {NoVehicle}]
    BY <1>1, <1>3, <1>4 DEF Fill
  <2> QED BY <1>2, <1>4, <2>1, <2>2, <2>3
          DEF Fill, TypeOK, CopyInPool, spawnVars, clientVars, historyVars
<1>5. CASE Announce(t)
  <2> DEFINE v == script[t].id
             call == IF script[t].model = NoVehicle THEN VehicleRemove(v)
                                                    ELSE VehicleAdd(v, script[t].model)
  <2>1. call \in Calls
    BY <1>1, CallTypes
  <2> HIDE DEF call
  <2>2. \A c \in Clients : Append(toClient[c], call) \in Seq(Calls)
    BY <2>1, AppendType DEF TypeOK
  <2>3. toClient' = [c \in Clients |-> IF c \notin Hearers THEN toClient[c]
                                       ELSE Append(toClient[c], call)]
    BY <1>5 DEF Announce, call
  <2>4. toClient' \in [Clients -> Seq(Calls)]
    BY <2>2, <2>3 DEF TypeOK
  <2>5. \E step \in Steps : GoOn(t, step)
    BY <1>5 DEF Announce, Steps
  <2>6. raced' \in [Clients -> SUBSET VehicleIds]
    BY <1>5 DEF Announce, TypeOK
  <2> QED BY <1>2, <1>5, <2>4, <2>5, <2>6
          DEF Announce, TypeOK, CopyInPool, poolVars, spawnVars, clientVars
<1>6. CASE Clear(t)
  <2>1. \E step \in Steps : GoOn(t, step)
    BY <1>6 DEF Clear, Steps
  <2>2. vehiclePool' \in [VehicleIds -> Models \cup {NoVehicle}]
    BY <1>3, <1>6 DEF Clear
  <2> QED BY <1>2, <1>6, <2>1, <2>2
          DEF Clear, TypeOK, CopyInPool, spawnVars, clientVars, historyVars
<1>7. CASE LoadCount(t)
  <2>1. script' \in [Threads -> [ step : Steps, id : VehicleNumbers,
                                  model : Models \cup {NoVehicle}, count : Int ]]
    BY <1>7 DEF LoadCount, TypeOK, Steps
  <2> QED BY <1>7, <2>1
          DEF LoadCount, TypeOK, CopyInPool, poolVars, spawnVars, clientVars, historyVars
<1>8. CASE StoreCount(t)
  <2> DEFINE R == [ step : Steps, id : VehicleNumbers,
                    model : Models \cup {NoVehicle}, count : Int ]
  <2>1. NoCall \in R
    BY PoolFacts, VehiclesAssumption DEF NoCall, Steps
  <2>2. script \in [Threads -> R] /\ script' = [script EXCEPT ![t] = NoCall]
    BY <1>8 DEF StoreCount, TypeOK
  <2> HIDE DEF R
  <2>3. script' \in [Threads -> R]
    BY <2>1, <2>2
  <2>4. iVehicleCount' \in Int
    BY <1>1, <1>8 DEF StoreCount
  <2> QED BY <1>8, <2>3, <2>4
          DEF R, StoreCount, TypeOK, CopyInPool, spawnVars, clientVars, historyVars
<1> QED BY <1>4, <1>5, <1>6, <1>7, <1>8

\* The steps of a client's way into the game keep the types.
LEMMA ClientTypes ==
  ASSUME TypeOK, CopyInPool, NEW c \in Clients,
         \/ Connect(c) \/ BeginJoin(c) \/ SkipVehicle(c) \/ CopyVehicle(c)
         \/ SpawnVehicle(c) \/ FinishJoin(c) \/ ClientReceives(c)
  PROVE  TypeOK' /\ CopyInPool'
<1> USE DEF poolVars, spawnVars, clientVars, historyVars
<1>1. toClient[c] \in Seq(Calls)
  BY DEF TypeOK
<1>2. nextVehicle \in VehicleIds => nextVehicle + 1 \in 0..MAX_VEHICLES
  BY VehiclesAssumption DEF VehicleIds
<1>3. CASE Connect(c)
  BY <1>3 DEF Connect, TypeOK, CopyInPool
<1>4. CASE BeginJoin(c)
  <2>1. Append(toClient[c], InitGame) \in Seq(Calls)
    BY <1>1, PoolFacts, VehiclesAssumption, CallTypes, AppendType
  <2>2. toClient' \in [Clients -> Seq(Calls)]
    BY <1>4, <2>1 DEF BeginJoin, TypeOK
  <2>3. 0 \in 0..MAX_VEHICLES
    BY VehiclesAssumption
  <2> QED BY <1>4, <2>2, <2>3 DEF BeginJoin, TypeOK, CopyInPool
<1>5. CASE SkipVehicle(c)
  BY <1>2, <1>5 DEF SkipVehicle, TypeOK, CopyInPool
<1>6. CASE CopyVehicle(c)
  <2>1. raced' \in [Clients -> SUBSET VehicleIds]
    BY <1>6 DEF CopyVehicle, TypeOK
  <2> QED BY <1>6, <2>1 DEF CopyVehicle, TypeOK, CopyInPool
<1>7. CASE SpawnVehicle(c)
  <2>1. nextVehicle \in VehicleIds
    BY <1>7 DEF SpawnVehicle, CopyInPool
  <2>2. Append(toClient[c], VehicleAdd(nextVehicle, newVeh)) \in Seq(Calls)
    <3>1. nextVehicle \in VehicleNumbers /\ newVeh \in Models \cup {NoVehicle}
      BY <2>1, VehiclesAssumption DEF TypeOK
    <3> QED BY <1>1, <3>1, CallTypes, AppendType
  <2>3. toClient' \in [Clients -> Seq(Calls)]
    BY <1>7, <2>2 DEF SpawnVehicle, TypeOK
  <2> QED BY <1>2, <1>7, <2>1, <2>3 DEF SpawnVehicle, TypeOK, CopyInPool
<1>8. CASE FinishJoin(c)
  BY <1>8 DEF FinishJoin, TypeOK, CopyInPool
<1>9. CASE ClientReceives(c)
  <2>1. Head(toClient[c]) \in Calls /\ Tail(toClient[c]) \in Seq(Calls)
    BY <1>1, <1>9, HeadTailProperties DEF ClientReceives
  <2>2. toClient' \in [Clients -> Seq(Calls)]
    BY <1>9, <2>1 DEF ClientReceives, TypeOK
  <2> DEFINE m == Head(toClient[c])
  <2>3. m.model \in Models \cup {NoVehicle}
    BY <2>1 DEF Calls
  <2>4. /\ iGameInited' = iGameInited \/ iGameInited' = [iGameInited EXCEPT ![c] = TRUE]
        /\ \/ seen' = seen
           \/ m.id \in VehicleIds /\ seen' = [seen EXCEPT ![c][m.id] = m.model]
    BY <1>9 DEF ClientReceives
  <2> HIDE DEF m
  <2>5. iGameInited' \in [Clients -> BOOLEAN]
    BY <2>4 DEF TypeOK
  <2>6. seen' \in [Clients -> [VehicleIds -> Models \cup {NoVehicle}]]
    <3> DEFINE R == [VehicleIds -> Models \cup {NoVehicle}]
               row == [seen[c] EXCEPT ![m.id] = m.model]
    <3>1. seen \in [Clients -> R] /\ (m.id \in VehicleIds => row \in R)
      BY <2>3 DEF TypeOK
    <3>2. seen' = seen \/ (m.id \in VehicleIds /\ seen' = [seen EXCEPT ![c] = row])
      BY <2>4, <3>1
    <3> HIDE DEF R, row
    <3>3. seen' \in [Clients -> R]
      BY <3>1, <3>2
    <3> QED BY <3>3 DEF R
  <2> QED BY <1>9, <2>2, <2>5, <2>6 DEF ClientReceives, TypeOK, CopyInPool
<1> QED BY <1>3, <1>4, <1>5, <1>6, <1>7, <1>8, <1>9

\* A call in progress is the only one.
LEMMA OthersIdle ==
  ASSUME VehiclesInv, ~unsafe, NEW t \in Threads, Busy(t)
  PROVE  \A u \in Threads \ {t} : script[u] = NoCall
BY DEF VehiclesInv, CallInv, CallOK

\* If a thread has left the others without a call, only its own call matters.
LEMMA OneCall ==
  ASSUME NEW t \in Threads, \A u \in Threads \ {t} : script'[u] = NoCall,
         iVehicleCount' \in 0..MAX_VEHICLES, CallOK(t)',
         Filled(t)' => AtMost(iVehicleCount + 1)',
         Cleared(t)' => AtMost(iVehicleCount - 1)',
         ~Filled(t)' /\ ~Cleared(t)' => AtMost(iVehicleCount)'
  PROVE  CallInv'
<1>1. ASSUME NEW u \in Threads \ {t}
      PROVE  script'[u].step = "none" /\ script'[u].model = NoVehicle /\ CallOK(u)'
  BY <1>1 DEF NoCall, CallOK, Busy
<1>2. \A u \in Threads \ {t} : ~Busy(u)' /\ ~Filled(u)' /\ ~Cleared(u)'
  BY <1>1 DEF Busy, Filled, Cleared
<1>3. ~Busy(t)' => ~Filled(t)' /\ ~Cleared(t)'
  BY DEF Busy, Filled, Cleared
<1>4. \A u \in Threads : u = t \/ u \in Threads \ {t}
  OBVIOUS
<1> QED BY <1>1, <1>2, <1>3, <1>4 DEF CallInv

\* What a step of the call makes of the thread, the entry and the model stay.
LEMMA GoneOn ==
  ASSUME TypeOK, NEW t \in Threads, NEW step, GoOn(t, step)
  PROVE  /\ script'[t].step = step /\ script'[t].id = script[t].id
         /\ script'[t].model = script[t].model /\ script'[t].count = script[t].count
         /\ \A u \in Threads \ {t} : script'[u] = script[u]
BY DEF GoOn, TypeOK

\* A safe call finds no other call, and has entered the pool.
LEMMA EntryCalls ==
  ASSUME VehiclesInv, NEW t \in Threads, ~unsafe',
         \/ \E m \in Models : AddStaticVehicle(t, m) \/ CreateVehicle(t, m)
         \/ \E v \in VehicleNumbers : RemoveVehicle(t, v)
  PROVE  CallInv'
<1>1. ~unsafe /\ ~Overlaps(t) /\ UNCHANGED poolVars /\ script[t] = NoCall
  BY DEF AddStaticVehicle, CreateVehicle, RemoveVehicle, MayCall, IsFree
<1>2. \A u \in Threads : script[u] = NoCall /\ ~Busy(u)
  BY <1>1 DEF Overlaps, NoCall, Busy
<1>3. /\ TypeOK /\ iVehicleCount \in 0..MAX_VEHICLES /\ AtMost(iVehicleCount)
      /\ AtMost(iVehicleCount)'
  BY <1>1, <1>2 DEF VehiclesInv, CallInv, AtMost, Existing, poolVars
<1>4. ASSUME NEW step, NEW v, NEW m, Enter(t, step, v, m)
      PROVE  /\ \A u \in Threads \ {t} : script'[u] = NoCall
             /\ script'[t].step = step /\ script'[t].id = v /\ script'[t].model = m
  BY <1>2, <1>3, <1>4 DEF Enter, TypeOK
<1>5. ASSUME NEW step \in {"fill", "fillStatic"}, NEW m \in Models,
             Enter(t, step, iVehicleCount, m), HasRoom
      PROVE  CallInv'
  <2>1. /\ \A u \in Threads \ {t} : script'[u] = NoCall
        /\ script'[t].step = step /\ script'[t].id = iVehicleCount
        /\ script'[t].model = m
    BY <1>4, <1>5
  <2>2. iVehicleCount \in VehicleIds /\ iVehicleCount' = iVehicleCount
        /\ iVehicleCount # MAX_VEHICLES /\ m # NoVehicle
    BY <1>1, <1>5, RoomIsInPool, VehiclesAssumption DEF poolVars, HasRoom, NoVehicle
  <2>3. CallOK(t)' /\ ~Filled(t)' /\ ~Cleared(t)'
    BY <1>5, <2>1, <2>2 DEF CallOK, Busy, Filled, Cleared
  <2> QED BY <1>3, <2>1, <2>2, <2>3, OneCall
<1>6. ASSUME NEW v \in VehicleNumbers, RemoveVehicle(t, v)
      PROVE  CallInv'
  <2>1. v \in VehicleIds /\ vehiclePool'[v] # NoVehicle /\ iVehicleCount' = iVehicleCount
    BY <1>1, <1>6 DEF RemoveVehicle, DoesVehicleExist, poolVars
  <2>2. /\ \A u \in Threads \ {t} : script'[u] = NoCall
        /\ script'[t].step = "announce" /\ script'[t].id = v
        /\ script'[t].model = NoVehicle
    BY <1>4, <1>6 DEF RemoveVehicle
  <2>3. CallOK(t)' /\ ~Filled(t)' /\ ~Cleared(t)'
    BY <2>1, <2>2 DEF CallOK, Busy, Filled, Cleared
  <2> QED BY <1>3, <2>1, <2>2, <2>3, OneCall
<1> QED BY <1>5, <1>6 DEF AddStaticVehicle, CreateVehicle

\* A fill, which may overwrite an entry in use, adds one vehicle at most, and the
\* count goes no lower than a removal leaves it.
LEMMA StepCalls ==
  ASSUME VehiclesInv, ~unsafe, NEW t \in Threads,
         Fill(t) \/ Announce(t) \/ Clear(t) \/ LoadCount(t) \/ StoreCount(t)
  PROVE  CallInv'
<1>1. /\ TypeOK /\ CallInv /\ CallOK(t) /\ Busy(t)
      /\ iVehicleCount \in 0..MAX_VEHICLES /\ MAX_VEHICLES \in Nat
      /\ script[t].model \in Models \cup {NoVehicle} /\ NoVehicle \notin Models
      /\ Filled(t) => AtMost(iVehicleCount + 1)
      /\ Cleared(t) => AtMost(iVehicleCount - 1)
      /\ ~Filled(t) /\ ~Cleared(t) => AtMost(iVehicleCount)
  BY VehiclesAssumption DEF VehiclesInv, CallInv, Busy, TypeOK, NoVehicle,
     Fill, Announce, Clear, LoadCount, StoreCount
<1>2. \A u \in Threads \ {t} : script[u] = NoCall
  BY <1>1, OthersIdle
<1>3. ASSUME NEW step, GoOn(t, step)
      PROVE  /\ script'[t].step = step /\ script'[t].id = script[t].id
             /\ script'[t].model = script[t].model
             /\ \A u \in Threads \ {t} : script'[u] = NoCall
  BY <1>1, <1>2, <1>3, GoneOn
<1>4. CASE Fill(t)
  <2> DEFINE i == script[t].id
             m == script[t].model
  <2>1. /\ i = iVehicleCount /\ i \in VehicleIds /\ m # NoVehicle
        /\ iVehicleCount # MAX_VEHICLES /\ iVehicleCount' = iVehicleCount
    BY <1>1, <1>4 DEF Fill, CallOK
  <2>2. vehiclePool' = [v \in VehicleIds |-> IF v = i THEN m ELSE vehiclePool[v]]
    BY <1>4, <2>1 DEF Fill, Assign
  <2>3. PICK step \in {"load", "announce"} :
          GoOn(t, step) /\ (step = "announce" => i \notin static')
    BY <1>4, <2>1 DEF Fill
  <2>4. /\ script'[t].step = step /\ script'[t].id = i /\ script'[t].model = m
        /\ \A u \in Threads \ {t} : script'[u] = NoCall
    BY <1>3, <2>3
  <2>5. CallOK(t)' /\ Filled(t)' /\ ~Cleared(t)'
    BY <2>1, <2>2, <2>3, <2>4 DEF CallOK, Busy, Filled, Cleared
  <2>6. AtMost(iVehicleCount)
    BY <1>1, <1>4 DEF Fill, Filled, Cleared
  <2>7. AtMost(iVehicleCount + 1)'
    <3>1. Existing' \subseteq Existing \cup {i}
      BY <2>2 DEF Existing
    <3>2. /\ IsFiniteSet(Existing \cup {i})
          /\ \/ Cardinality(Existing \cup {i}) = Cardinality(Existing)
             \/ Cardinality(Existing \cup {i}) = Cardinality(Existing) + 1
      BY PoolFacts, FS_AddElement, Zenon
    <3>3. Cardinality(Existing') <= Cardinality(Existing \cup {i})
      BY <3>1, <3>2, FS_Subset
    <3>4. Cardinality(Existing') \in Nat
      BY <3>1, <3>2, FS_Subset, FS_CardinalityType
    <3> QED BY <1>1, <2>1, <2>6, <3>2, <3>3, <3>4, PoolFacts DEF AtMost
  <2> QED BY <1>1, <2>1, <2>4, <2>5, <2>7, OneCall
<1>5. CASE Announce(t)
  <2>1. /\ GoOn(t, IF script[t].model = NoVehicle THEN "clear" ELSE "load")
        /\ script[t].step = "announce" /\ UNCHANGED poolVars
    BY <1>5 DEF Announce
  <2>2. /\ script'[t].step = IF script[t].model = NoVehicle THEN "clear" ELSE "load"
        /\ script'[t].id = script[t].id /\ script'[t].model = script[t].model
        /\ \A u \in Threads \ {t} : script'[u] = NoCall
    BY <1>3, <2>1
  <2>3. CallOK(t)'
    BY <1>1, <2>1, <2>2 DEF CallOK, Busy, poolVars
  <2>4. (Filled(t)' <=> Filled(t)) /\ ~Cleared(t)' /\ ~Cleared(t)
    BY <2>1, <2>2 DEF Filled, Cleared
  <2>5. \A n : AtMost(n)' <=> AtMost(n)
    BY <2>1 DEF AtMost, Existing, poolVars
  <2> QED BY <1>1, <2>1, <2>2, <2>3, <2>4, <2>5, OneCall DEF poolVars, AtMost
<1>6. CASE Clear(t)
  <2> DEFINE i == script[t].id
  <2>1. /\ GoOn(t, "load") /\ script[t].step = "clear"
        /\ iVehicleCount' = iVehicleCount
        /\ vehiclePool' = [v \in VehicleIds |-> IF v = i THEN NoVehicle ELSE vehiclePool[v]]
    BY <1>6 DEF Clear, Assign
  <2>2. script[t].model = NoVehicle /\ i \in VehicleIds /\ i \in Existing
    BY <1>1, <2>1 DEF CallOK, Existing
  <2>3. /\ script'[t].step = "load" /\ script'[t].model = NoVehicle
        /\ \A u \in Threads \ {t} : script'[u] = NoCall
    BY <1>3, <2>1, <2>2
  <2>4. CallOK(t)' /\ Cleared(t)' /\ ~Filled(t)'
    BY <2>3 DEF CallOK, Busy, Cleared, Filled
  <2>5. AtMost(iVehicleCount)
    BY <1>1, <2>1 DEF Filled, Cleared
  <2>6. Existing' = Existing \ {i}
    BY <2>1 DEF Existing
  <2>7. Cardinality(Existing \ {i}) = Cardinality(Existing) - 1
    BY <2>2, PoolFacts, FS_RemoveElement
  <2>8. AtMost(iVehicleCount - 1)'
    BY <1>1, <2>1, <2>5, <2>6, <2>7, PoolFacts DEF AtMost
  <2> QED BY <1>1, <2>1, <2>3, <2>4, <2>8, OneCall
<1>7. CASE LoadCount(t)
  <2>1. /\ script[t].step = "load" /\ UNCHANGED poolVars
        /\ script' = [script EXCEPT ![t] = [@ EXCEPT !.step = "store", !.count = iVehicleCount]]
    BY <1>7 DEF LoadCount
  <2>2. /\ script'[t].step = "store" /\ script'[t].count = iVehicleCount
        /\ script'[t].id = script[t].id /\ script'[t].model = script[t].model
        /\ \A u \in Threads \ {t} : script'[u] = NoCall
    BY <1>1, <1>2, <2>1 DEF TypeOK
  <2>3. CallOK(t)'
    BY <1>1, <2>1, <2>2 DEF CallOK, Busy, poolVars
  <2>4. (Filled(t)' <=> Filled(t)) /\ (Cleared(t)' <=> Cleared(t))
    BY <2>1, <2>2 DEF Filled, Cleared
  <2>5. \A n : AtMost(n)' <=> AtMost(n)
    BY <2>1 DEF AtMost, Existing, poolVars
  <2> QED BY <1>1, <2>1, <2>2, <2>3, <2>4, <2>5, OneCall DEF poolVars, AtMost
<1>8. CASE StoreCount(t)
  <2>1. /\ script[t].step = "store" /\ script[t].count = iVehicleCount
        /\ iVehicleCount' = IF script[t].model = NoVehicle THEN iVehicleCount - 1
                                                           ELSE iVehicleCount + 1
        /\ script' = [script EXCEPT ![t] = NoCall] /\ vehiclePool' = vehiclePool
    BY <1>1, <1>8 DEF StoreCount, CallOK
  <2>2. /\ script'[t] = NoCall
        /\ \A u \in Threads \ {t} : script'[u] = NoCall
    BY <1>1, <1>2, <2>1 DEF TypeOK
  <2>3. script'[t].step = "none"
    BY <2>2 DEF NoCall
  <2>4. CallOK(t)' /\ ~Filled(t)' /\ ~Cleared(t)'
    BY <2>2, <2>3 DEF CallOK, Busy, Filled, Cleared
  <2>5. Existing' = Existing
    BY <2>1 DEF Existing
  <2>6. CASE script[t].model = NoVehicle
    <3>1. AtMost(iVehicleCount - 1)
      BY <1>1, <2>1, <2>6 DEF Cleared
    <3> QED BY <1>1, <2>1, <2>2, <2>4, <2>5, <2>6, <3>1, PoolFacts, OneCall DEF AtMost
  <2>7. CASE script[t].model # NoVehicle
    <3>1. AtMost(iVehicleCount + 1) /\ iVehicleCount # MAX_VEHICLES
      BY <1>1, <2>1, <2>7 DEF Filled, CallOK
    <3> QED BY <1>1, <2>1, <2>2, <2>4, <2>5, <2>7, <3>1, OneCall DEF AtMost
  <2> QED BY <2>6, <2>7
<1> QED BY <1>4, <1>5, <1>6, <1>7, <1>8

(***************************************************************************)
(* As long as scripts name entries the pool has and no two of their calls  *)
(* overlap, the one call in progress, on whichever thread, owes the count  *)
(* what it did to the pool, and nothing else is owed.                      *)
(***************************************************************************)
THEOREM VehiclesInvariant == Spec => []VehiclesInv
<1>1. Init => VehiclesInv
  <2> SUFFICES ASSUME Init PROVE VehiclesInv
    OBVIOUS
  <2> DEFINE R == [ step : Steps, id : VehicleNumbers,
                    model : Models \cup {NoVehicle}, count : Int ]
  <2>1. NoCall \in R
    BY PoolFacts, VehiclesAssumption DEF NoCall, Steps
  <2>2. TypeOK
    <3> HIDE DEF R
    <3>1. script \in [Threads -> R]
      BY <2>1 DEF Init
    <3>2. seen \in [Clients -> [VehicleIds -> Models \cup {NoVehicle}]]
      BY DEF Init
    <3>3. toClient \in [Clients -> Seq(Calls)] /\ raced \in [Clients -> SUBSET VehicleIds]
      BY DEF Init
    <3>4. vehiclePool \in [VehicleIds -> Models \cup {NoVehicle}] /\ 0 \in 0..MAX_VEHICLES
      BY VehiclesAssumption DEF Init
    <3>5. /\ session \in [Clients -> {"new", "connected", "joining", "joined"}]
          /\ iGameInited \in [Clients -> BOOLEAN]
          /\ static \subseteq VehicleIds /\ iVehicleCount \in Int
      BY DEF Init
    <3>6. nextVehicle \in 0..MAX_VEHICLES /\ newVeh \in Models \cup {NoVehicle}
      BY <3>4 DEF Init
    <3> QED BY <3>1, <3>2, <3>3, <3>4, <3>5, <3>6 DEF Init, TypeOK, R
  <2>3. \A t \in Threads : script[t] = NoCall /\ script[t].step = "none"
    BY DEF Init, NoCall
  <2>4. Existing = {}
    BY DEF Init, Existing
  <2>5. AtMost(iVehicleCount) /\ iVehicleCount \in 0..MAX_VEHICLES
    BY <2>4, FS_EmptySet, VehiclesAssumption DEF Init, AtMost
  <2>6. CallInv
    BY <2>3, <2>5 DEF CallInv, CallOK, Busy, Filled, Cleared
  <2> QED BY <2>2, <2>6 DEF Init, VehiclesInv, CopyInPool
<1>2. VehiclesInv /\ [Next]_vars => VehiclesInv'
  <2> SUFFICES ASSUME VehiclesInv, [Next]_vars PROVE VehiclesInv'
    OBVIOUS
  <2>1. ASSUME NEW t \in Threads,
               \/ \E m \in Models : AddStaticVehicle(t, m) \/ CreateVehicle(t, m)
               \/ \E v \in VehicleNumbers : RemoveVehicle(t, v)
        PROVE  VehiclesInv'
    BY <2>1, EntryTypes, EntryCalls DEF VehiclesInv
  <2>2. ASSUME NEW t \in Threads,
               Fill(t) \/ Announce(t) \/ Clear(t) \/ LoadCount(t) \/ StoreCount(t)
        PROVE  VehiclesInv'
    <3>1. unsafe' = unsafe
      BY <2>2 DEF Fill, Announce, Clear, LoadCount, StoreCount, historyVars
    <3> QED BY <2>2, <3>1, StepTypes, StepCalls DEF VehiclesInv
  <2>3. ASSUME UNCHANGED <<poolVars, script, unsafe>>
        PROVE  CallInv' = CallInv /\ unsafe' = unsafe
    BY <2>3 DEF CallInv, CallOK, Busy, Filled, Cleared, AtMost, Existing, poolVars
  <2>4. ASSUME NEW c \in Clients,
               \/ Connect(c) \/ BeginJoin(c) \/ SkipVehicle(c) \/ CopyVehicle(c)
               \/ SpawnVehicle(c) \/ FinishJoin(c) \/ ClientReceives(c)
        PROVE  VehiclesInv'
    <3>1. UNCHANGED <<poolVars, script, unsafe>>
      BY <2>4 DEF Connect, BeginJoin, SkipVehicle, CopyVehicle, SpawnVehicle,
                  FinishJoin, ClientReceives, historyVars
    <3> QED BY <2>3, <2>4, <3>1, ClientTypes DEF VehiclesInv
  <2>5. CASE UNCHANGED vars
    <3>1. TypeOK' /\ CopyInPool'
      BY <2>5 DEF vars, VehiclesInv, TypeOK, CopyInPool, poolVars, spawnVars,
                  clientVars, historyVars
    <3> QED BY <2>3, <2>5, <3>1 DEF VehiclesInv, vars, historyVars
  <2> QED BY <2>1, <2>2, <2>4, <2>5 DEF Next
<1> QED BY <1>1, <1>2, PTL DEF Spec

\* As long as scripts name entries the pool has and no two of their calls overlap,
\* every store is inside the pool and the count within its ends, at every moment.
THEOREM StaysInside == Spec => []InsidePool
<1>1. VehiclesInv => InsidePool
  BY DEF VehiclesInv, CallInv, CallOK, InsidePool
<1> QED BY <1>1, VehiclesInvariant, PTL

\* As long as scripts name entries the pool has and no two of their calls overlap,
\* iVehicleCount is not less than the number of vehicles between the calls.
THEOREM CountNeverShort == Spec => []CountCovers
<1>1. VehiclesInv => CountCovers
  <2> SUFFICES ASSUME VehiclesInv, ~unsafe, \A t \in Threads : script[t] = NoCall
               PROVE  Cardinality(Existing) <= iVehicleCount
    BY DEF CountCovers
  <2>1. \A t \in Threads : ~Busy(t)
    BY DEF Busy, NoCall
  <2> QED BY <2>1 DEF VehiclesInv, CallInv, AtMost
<1> QED BY <1>1, VehiclesInvariant, PTL
-----------------------------------------------------------------------------
(* What a client's table will say once it has handled its mail.            *)

IsInit(call) == call.call = "InitGame"

IsAbout(call, v) == call.call # "InitGame" /\ call.id = v

\* The client will not drop the call at place k of its mail q.
Counts(inited, q, k) ==
  inited \/ \E i \in 1..Len(q) : i < k /\ IsInit(q[i])

(***************************************************************************)
(* A client that has x in its entry v ends up with m there when it has     *)
(* handled q.                                                              *)
(***************************************************************************)
EndsWith(inited, q, x, v, m) ==
  \/ /\ x = m
     /\ \A k \in 1..Len(q) : IsAbout(q[k], v) => ~Counts(inited, q, k)
  \/ \E k \in 1..Len(q) :
       /\ IsAbout(q[k], v) /\ Counts(inited, q, k) /\ q[k].model = m
       /\ \A j \in 1..Len(q) : j > k => ~IsAbout(q[j], v)

\* So does client c, with the mail and the table it has.
Ends(c, v, m) == EndsWith(iGameInited[c], toClient[c], seen[c][v], v, m)

\* A thread has filled entry v and not told of it yet.
Filling(v) ==
  \E t \in Threads :
    /\ script[t].step = "announce" /\ script[t].model # NoVehicle
    /\ script[t].id = v

\* A thread has told that entry v is cleared, and not cleared it yet.
Clearing(v) == \E t \in Threads : script[t].step = "clear" /\ script[t].id = v

\* What clients have been told of entry v last.
Said(v) == IF Clearing(v) THEN NoVehicle ELSE vehiclePool[v]

\* Something was said of the entry as it is: it is not static, nor just filled.
IsSaid(v) == (v \notin static \/ Clearing(v)) /\ ~Filling(v)

\* c is one of the clients that have been told to begin.
Begun(c) == session[c] \in {"joining", "joined"}

\* c has been told what the pool holds in entry v.
Told(c, v) == session[c] = "joined" \/ (IsJoining(c) /\ v < nextVehicle)

\* InitGame is on its way to c.
InitComing(c) == \E k \in 1..Len(toClient[c]) : IsInit(toClient[c][k])

\* A client takes calls from its InitGame on, which the join sends; joins come one
\* at a time.
BegunInv ==
  /\ \A c \in Clients :
       /\ ~Begun(c) => ~iGameInited[c] /\ ~InitComing(c)
       /\ Begun(c) => iGameInited[c] \/ InitComing(c)
       /\ ~iGameInited[c] => \A v \in VehicleIds : seen[c][v] = NoVehicle
  /\ \A c, d \in Clients : IsJoining(c) /\ IsJoining(d) => c = d

\* The copy the join is about to send is the entry, unless a script came between.
CopyInv ==
  \A c \in Clients, v \in VehicleIds :
    IsBeingTold(c, v) /\ v \notin raced[c] =>
      newVeh = vehiclePool[v] /\ \A t \in Threads : ~IsChanging(t, v)

(***************************************************************************)
(* A client that has been told of an entry ends up with what was said of   *)
(* it last, or with a vehicle after a race; one that has not been told     *)
(* yet ends up with that or with nothing.                                  *)
(***************************************************************************)
MailOK(c, v) ==
  \/ Ends(c, v, Said(v))
  \/ Told(c, v) /\ v \in raced[c] /\ \E m \in Models : Ends(c, v, m)
  \/ ~Told(c, v) /\ Ends(c, v, NoVehicle)

ToldInv ==
  /\ BegunInv /\ CopyInv
  /\ \A c \in Clients, v \in VehicleIds : IsSaid(v) => MailOK(c, v)

MailInv == ~unsafe => ToldInv

\* A call about another vehicle changes nothing about this one.
LEMMA OtherCall ==
  ASSUME NEW q \in Seq(Calls), NEW call \in Calls,
         NEW inited \in BOOLEAN, NEW x, NEW v, NEW m,
         ~IsAbout(call, v), EndsWith(inited, q, x, v, m)
  PROVE  EndsWith(inited, Append(q, call), x, v, m)
<1> DEFINE a == Append(q, call)
<1>1. /\ Len(a) = Len(q) + 1 /\ Len(q) \in Nat
      /\ \A k \in 1..Len(q) : a[k] = q[k]
      /\ a[Len(q) + 1] = call
  BY AppendProperties, LenProperties
<1> HIDE DEF a
<1>2. \A k \in 1..Len(q) : Counts(inited, a, k) <=> Counts(inited, q, k)
  BY <1>1 DEF Counts
<1>3. \A k \in 1..Len(a) : IsAbout(a[k], v) => k \in 1..Len(q)
  BY <1>1
<1>4. CASE /\ x = m
           /\ \A k \in 1..Len(q) : IsAbout(q[k], v) => ~Counts(inited, q, k)
  <2>1. \A k \in 1..Len(a) : IsAbout(a[k], v) => ~Counts(inited, a, k)
    BY <1>1, <1>2, <1>3, <1>4
  <2>2. EndsWith(inited, a, x, v, m)
    BY <1>4, <2>1 DEF EndsWith
  <2> QED BY <2>2 DEF a
<1>5. ASSUME NEW k \in 1..Len(q),
             IsAbout(q[k], v), Counts(inited, q, k), q[k].model = m,
             \A j \in 1..Len(q) : j > k => ~IsAbout(q[j], v)
      PROVE  EndsWith(inited, Append(q, call), x, v, m)
  <2>1. \A j \in 1..Len(a) : j > k => ~IsAbout(a[j], v)
    BY <1>1, <1>3, <1>5
  <2>2. k \in 1..Len(a) /\ a[k] = q[k] /\ Counts(inited, a, k)
    BY <1>1, <1>2, <1>5
  <2>3. EndsWith(inited, a, x, v, m)
    BY <1>5, <2>1, <2>2 DEF EndsWith
  <2> QED BY <2>3 DEF a
<1> QED BY <1>4, <1>5 DEF EndsWith

\* The last call about a vehicle is what the client ends up with.
LEMMA LastCall ==
  ASSUME NEW q \in Seq(Calls), NEW call \in Calls,
         NEW inited \in BOOLEAN, NEW x, NEW v, IsAbout(call, v),
         inited \/ \E k \in 1..Len(q) : IsInit(q[k])
  PROVE  EndsWith(inited, Append(q, call), x, v, call.model)
<1> DEFINE a == Append(q, call)
           n == Len(q) + 1
<1>1. /\ Len(a) = n /\ Len(q) \in Nat
      /\ \A k \in 1..Len(q) : a[k] = q[k]
      /\ a[n] = call
  BY AppendProperties, LenProperties
<1> HIDE DEF a
<1>2. Counts(inited, a, n)
  BY <1>1 DEF Counts
<1>3. n \in 1..Len(a) /\ \A j \in 1..Len(a) : ~(j > n)
  BY <1>1
<1>4. EndsWith(inited, a, x, v, call.model)
  BY <1>1, <1>2, <1>3 DEF EndsWith
<1> QED BY <1>4 DEF a

\* The table of the client after it has handled a call, and its mail, agree
\* with what they were before.
LEMMA HandledCall ==
  ASSUME NEW q \in Seq(Calls), q # <<>>, NEW inited \in BOOLEAN,
         NEW x, NEW v, NEW m, EndsWith(inited, q, x, v, m)
  PROVE  EndsWith(inited \/ IsInit(Head(q)), Tail(q),
                  IF inited /\ IsAbout(Head(q), v) THEN Head(q).model ELSE x,
                  v, m)
<1> DEFINE t == Tail(q)
           h == Head(q)
           begun == inited \/ IsInit(h)
           y == IF inited /\ IsAbout(h, v) THEN h.model ELSE x
<1>1. /\ Len(q) \in Nat /\ Len(q) >= 1 /\ Len(t) = Len(q) - 1
      /\ h = q[1] /\ \A k \in 1..Len(t) : t[k] = q[k + 1]
  BY HeadTailProperties, LenProperties, EmptySeq
<1> HIDE DEF t, h
<1>2. \A k \in 1..Len(t) : k + 1 \in 1..Len(q)
  BY <1>1
<1>3. ASSUME NEW k \in 1..Len(t)
      PROVE  Counts(begun, t, k) <=> Counts(inited, q, k + 1)
  <2>1. ASSUME NEW i \in 1..Len(t), i < k, IsInit(t[i])
        PROVE  Counts(inited, q, k + 1)
    <3>1. i + 1 \in 1..Len(q) /\ i + 1 < k + 1 /\ IsInit(q[i + 1])
      BY <1>1, <1>2, <2>1
    <3> QED BY <3>1 DEF Counts
  <2>2. ASSUME IsInit(h)
        PROVE  Counts(inited, q, k + 1)
    <3>1. 1 \in 1..Len(q) /\ 1 < k + 1 /\ IsInit(q[1])
      BY <1>1, <2>2
    <3> QED BY <3>1 DEF Counts
  <2>3. ASSUME NEW i \in 1..Len(q), i < k + 1, IsInit(q[i])
        PROVE  Counts(begun, t, k)
    <3>1. CASE i = 1
      BY <1>1, <2>3, <3>1 DEF Counts
    <3>2. CASE i # 1
      <4>1. /\ i - 1 \in 1..Len(t) /\ i - 1 < k
            /\ t[i - 1] = q[(i - 1) + 1] /\ (i - 1) + 1 = i
        BY <1>1, <2>3, <3>2
      <4> QED BY <2>3, <4>1 DEF Counts
    <3> QED BY <3>1, <3>2
  <2>4. inited => Counts(begun, t, k) /\ Counts(inited, q, k + 1)
    BY DEF Counts
  <2> QED BY <2>1, <2>2, <2>3, <2>4 DEF Counts
<1> HIDE DEF begun, y
<1>4. ASSUME x = m,
             \A k \in 1..Len(q) : IsAbout(q[k], v) => ~Counts(inited, q, k)
      PROVE  EndsWith(begun, t, y, v, m)
  <2>1. ~(inited /\ IsAbout(h, v))
    BY <1>1, <1>4 DEF Counts
  <2>2. y = m
    BY <1>4, <2>1 DEF y
  <2>3. \A k \in 1..Len(t) : IsAbout(t[k], v) => ~Counts(begun, t, k)
    BY <1>1, <1>2, <1>3, <1>4
  <2> QED BY <2>2, <2>3 DEF EndsWith
<1>5. ASSUME NEW k \in 1..Len(q),
             IsAbout(q[k], v), Counts(inited, q, k), q[k].model = m,
             \A j \in 1..Len(q) : j > k => ~IsAbout(q[j], v)
      PROVE  EndsWith(begun, t, y, v, m)
  <2>1. CASE k = 1
    <3>1. inited /\ IsAbout(h, v) /\ h.model = m
      BY <1>1, <1>5, <2>1 DEF Counts
    <3>2. y = m
      BY <3>1 DEF y
    <3>3. \A j \in 1..Len(t) : ~IsAbout(t[j], v)
      BY <1>1, <1>2, <1>5, <2>1
    <3> QED BY <3>2, <3>3 DEF EndsWith
  <2>2. CASE k # 1
    <3>1. k - 1 \in 1..Len(t) /\ (k - 1) + 1 = k
      BY <1>1, <2>2
    <3>2. t[k - 1] = q[k] /\ Counts(begun, t, k - 1)
      BY <1>1, <1>3, <1>5, <3>1
    <3>3. \A j \in 1..Len(t) : j > k - 1 => ~IsAbout(t[j], v)
      BY <1>1, <1>2, <1>5
    <3> QED BY <1>5, <3>1, <3>2, <3>3 DEF EndsWith
  <2> QED BY <2>1, <2>2
<1>6. EndsWith(begun, t, y, v, m)
  BY <1>4, <1>5 DEF EndsWith
<1> QED BY <1>6 DEF begun, t, y, h

\* Whoever is not to begin drops all that is on its way.
LEMMA NotBegun ==
  ASSUME BegunInv, TypeOK, NEW c \in Clients, ~Begun(c), NEW v \in VehicleIds
  PROVE  Ends(c, v, NoVehicle)
<1>1. ~iGameInited[c] /\ ~InitComing(c) /\ seen[c][v] = NoVehicle
  BY DEF BegunInv
<1> QED BY <1>1 DEF Ends, EndsWith, Counts, InitComing

\* A call more for the client, and its table unchanged.
LEMMA OneMore ==
  ASSUME TypeOK, NEW c \in Clients, NEW v \in VehicleIds, NEW call \in Calls,
         toClient'[c] = Append(toClient[c], call), UNCHANGED clientVars
  PROVE  /\ ~IsAbout(call, v) =>
              \A m : Ends(c, v, m) =>
                EndsWith(iGameInited'[c], toClient'[c], seen'[c][v], v, m)
         /\ IsAbout(call, v) /\ (iGameInited[c] \/ InitComing(c)) =>
              EndsWith(iGameInited'[c], toClient'[c], seen'[c][v], v, call.model)
<1>1. toClient[c] \in Seq(Calls) /\ iGameInited[c] \in BOOLEAN
  BY DEF TypeOK
<1>2. iGameInited' = iGameInited /\ seen' = seen
  BY DEF clientVars
<1>3. ASSUME ~IsAbout(call, v), NEW m, Ends(c, v, m)
      PROVE  EndsWith(iGameInited'[c], toClient'[c], seen'[c][v], v, m)
  BY <1>1, <1>2, <1>3, OtherCall DEF Ends
<1>4. ASSUME IsAbout(call, v), iGameInited[c] \/ InitComing(c)
      PROVE  EndsWith(iGameInited'[c], toClient'[c], seen'[c][v], v, call.model)
  BY <1>1, <1>2, <1>4, LastCall DEF InitComing
<1> QED BY <1>3, <1>4

\* More calls other than InitGame change nothing about who takes calls.
LEMMA BegunStays ==
  ASSUME TypeOK, BegunInv, NEW call \in Calls, ~IsInit(call),
         UNCHANGED <<session, clientVars>>,
         \A c \in Clients :
           toClient'[c] = toClient[c] \/ toClient'[c] = Append(toClient[c], call)
  PROVE  BegunInv'
<1>1. ASSUME NEW c \in Clients
      PROVE  InitComing(c)' <=> InitComing(c)
  <2> DEFINE q == toClient[c]
  <2>1. q \in Seq(Calls)
    BY DEF TypeOK
  <2>2. CASE toClient'[c] = q
    BY <2>2 DEF InitComing
  <2>3. CASE toClient'[c] = Append(q, call)
    <3> HIDE DEF q
    <3>1. /\ Len(Append(q, call)) = Len(q) + 1 /\ Len(q) \in Nat
          /\ \A k \in 1..Len(q) : Append(q, call)[k] = q[k]
          /\ Append(q, call)[Len(q) + 1] = call
      BY <2>1, AppendProperties, LenProperties
    <3>2. \A k \in 1..(Len(q) + 1) : k \in 1..Len(q) \/ k = Len(q) + 1
      BY <3>1
    <3>3. (\E k \in 1..Len(Append(q, call)) : IsInit(Append(q, call)[k]))
            <=> \E k \in 1..Len(q) : IsInit(q[k])
      BY <3>1, <3>2
    <3> QED BY <2>3, <3>3 DEF InitComing, q
  <2> QED BY <2>2, <2>3
<1> QED BY <1>1 DEF BegunInv, Begun, IsJoining, clientVars

\* What one client ends up with, when neither it nor what it was told changes.
LEMMA MailStays ==
  ASSUME NEW c \in Clients, NEW v \in VehicleIds, MailOK(c, v),
         UNCHANGED <<toClient, clientVars>>, Told(c, v)' <=> Told(c, v),
         Said(v)' = Said(v), v \in raced[c] /\ Told(c, v) => v \in raced'[c]
  PROVE  MailOK(c, v)'
<1>1. \A m : Ends(c, v, m) <=>
               EndsWith(iGameInited'[c], toClient'[c], seen'[c][v], v, m)
  BY DEF Ends, clientVars
<1>2. CASE Ends(c, v, Said(v))
  <2>1. EndsWith(iGameInited'[c], toClient'[c], seen'[c][v], v, Said(v)')
    BY <1>1, <1>2
  <2> QED BY <2>1 DEF MailOK, Ends
<1>3. CASE Told(c, v) /\ v \in raced[c] /\ \E m \in Models : Ends(c, v, m)
  <2>1. PICK m \in Models : Ends(c, v, m)
    BY <1>3
  <2>2. EndsWith(iGameInited'[c], toClient'[c], seen'[c][v], v, m)
    BY <1>1, <2>1
  <2> QED BY <1>3, <2>2 DEF MailOK, Ends
<1>4. CASE ~Told(c, v) /\ Ends(c, v, NoVehicle)
  <2>1. EndsWith(iGameInited'[c], toClient'[c], seen'[c][v], v, NoVehicle)
    BY <1>1, <1>4
  <2> QED BY <1>4, <2>1 DEF MailOK, Ends, NoVehicle
<1> QED BY <1>2, <1>3, <1>4 DEF MailOK

\* No client hears of a step that only touches the pool, the count or the script.
LEMMA ServerOnly ==
  ASSUME VehiclesInv, ToldInv,
         UNCHANGED <<session, toClient, clientVars, spawnVars>>,
         \A v \in VehicleIds : IsSaid(v)' => IsSaid(v) /\ Said(v)' = Said(v),
         \A c \in Clients : raced[c] \subseteq raced'[c],
         CopyInv'
  PROVE  ToldInv'
<1>1. BegunInv'
  BY DEF ToldInv, BegunInv, Begun, InitComing, IsJoining, clientVars
<1>2. \A c \in Clients, v \in VehicleIds : Told(c, v)' <=> Told(c, v)
  BY DEF Told, IsJoining, spawnVars
<1>3. \A c \in Clients, v \in VehicleIds : IsSaid(v)' => MailOK(c, v)'
  BY <1>2, MailStays DEF ToldInv
<1> QED BY <1>1, <1>3 DEF ToldInv

\* A call that begins has changed nothing yet; the join it comes between is noted.
LEMMA EntryMail ==
  ASSUME VehiclesInv, ToldInv, NEW t \in Threads, ~unsafe',
         \/ \E m \in Models : AddStaticVehicle(t, m) \/ CreateVehicle(t, m)
         \/ \E v \in VehicleNumbers : RemoveVehicle(t, v)
  PROVE  ToldInv'
<1>1. /\ TypeOK /\ ~Overlaps(t) /\ script[t] = NoCall
      /\ UNCHANGED <<poolVars, session, toClient, clientVars, spawnVars>>
  BY DEF VehiclesInv, AddStaticVehicle, CreateVehicle, RemoveVehicle, MayCall, IsFree
<1>2. \A u \in Threads : script[u] = NoCall /\ script[u].step = "none"
  BY <1>1 DEF Overlaps, NoCall
<1>3. PICK step \in {"fill", "fillStatic", "announce"}, v \in VehicleNumbers \cup {iVehicleCount},
           m \in Models \cup {NoVehicle} :
        Enter(t, step, v, m) /\ (step = "announce" => m = NoVehicle)
  BY DEF AddStaticVehicle, CreateVehicle, RemoveVehicle
<1>4. /\ script'[t].step = step /\ script'[t].id = v /\ script'[t].model = m
      /\ \A u \in Threads : u = t \/ script'[u].step = "none"
  BY <1>1, <1>2, <1>3 DEF Enter, TypeOK
<1>5. \A w \in VehicleIds : ~Filling(w)' /\ ~Clearing(w)' /\ ~Filling(w) /\ ~Clearing(w)
  BY <1>2, <1>3, <1>4 DEF Filling, Clearing
<1>6. \A w \in VehicleIds : IsSaid(w)' => IsSaid(w) /\ Said(w)' = Said(w)
  BY <1>1, <1>5 DEF IsSaid, Said, poolVars
<1>7. \A c \in Clients : raced'[c] = IF IsBeingTold(c, v) THEN raced[c] \cup {v} ELSE raced[c]
  BY <1>3 DEF Enter
<1>8. CopyInv'
  <2> SUFFICES ASSUME NEW c \in Clients, NEW w \in VehicleIds,
                      IsBeingTold(c, w), w \notin raced'[c]
               PROVE  newVeh' = vehiclePool'[w] /\ \A u \in Threads : ~IsChanging(u, w)'
    BY <1>1 DEF CopyInv, IsBeingTold, IsJoining, spawnVars
  <2>1. w \notin raced[c] /\ w # v
    BY <1>7
  <2>2. \A u \in Threads : ~IsChanging(u, w)'
    BY <1>4, <2>1 DEF IsChanging
  <2> QED BY <1>1, <2>1, <2>2 DEF ToldInv, CopyInv, poolVars, spawnVars
<1>9. \A c \in Clients : raced[c] \subseteq raced'[c]
  BY <1>7
<1> QED BY <1>1, <1>6, <1>8, <1>9, ServerOnly

\* A step in the pool is behind what clients were told, or ahead of it: the entry
\* is then one that is not settled.
LEMMA PoolStepMail ==
  ASSUME VehiclesInv, ToldInv, ~unsafe, NEW t \in Threads,
         Fill(t) \/ Clear(t) \/ LoadCount(t) \/ StoreCount(t)
  PROVE  ToldInv'
<1> DEFINE i == script[t].id
<1>1. /\ TypeOK /\ CallOK(t) /\ Busy(t) /\ CopyInv
      /\ UNCHANGED <<session, toClient, clientVars, spawnVars, raced>>
  BY DEF VehiclesInv, CallInv, Busy, ToldInv, Fill, Clear, LoadCount, StoreCount, historyVars
<1>2. \A u \in Threads : u = t \/ script[u] = NoCall
  BY <1>1, OthersIdle
<1>3. \A u \in Threads : u = t \/ script[u].step = "none"
  BY <1>2 DEF NoCall
<1>4. ASSUME NEW step, GoOn(t, step)
      PROVE  /\ script'[t].step = step /\ script'[t].id = i
             /\ script'[t].model = script[t].model
             /\ \A u \in Threads : u = t \/ script'[u].step = "none"
  BY <1>1, <1>3, <1>4, GoneOn
<1>5. ASSUME \A w \in VehicleIds : w # i \/ ~IsChanging(t, w) => vehiclePool'[w] = vehiclePool[w],
             \A u \in Threads, w \in VehicleIds : IsChanging(u, w)' => IsChanging(t, w)
      PROVE  CopyInv'
  <2> SUFFICES ASSUME NEW c \in Clients, NEW w \in VehicleIds,
                      IsBeingTold(c, w), w \notin raced[c]
               PROVE  newVeh' = vehiclePool'[w] /\ \A u \in Threads : ~IsChanging(u, w)'
    BY <1>1 DEF CopyInv, IsBeingTold, IsJoining, spawnVars
  <2>1. newVeh = vehiclePool[w] /\ ~IsChanging(t, w)
    BY <1>1 DEF CopyInv
  <2> QED BY <1>1, <1>5, <2>1 DEF spawnVars
<1>6. CASE Fill(t)
  <2>1. /\ i = iVehicleCount /\ script[t].model # NoVehicle
        /\ script[t].step \in {"fill", "fillStatic"}
    BY <1>1, <1>6 DEF Fill, CallOK
  <2>2. /\ \A w \in VehicleIds : w # i => vehiclePool'[w] = vehiclePool[w]
        /\ \/ static' = static \cup ({i} \cap VehicleIds) /\ GoOn(t, "load")
           \/ static' = static \ {i} /\ GoOn(t, "announce")
    BY <1>6, <2>1 DEF Fill, Assign
  <2>3. \A w \in VehicleIds : ~Clearing(w) /\ ~Filling(w)
    BY <1>3, <2>1 DEF Clearing, Filling
  <2>4. ASSUME NEW w \in VehicleIds, IsSaid(w)'
        PROVE  IsSaid(w) /\ Said(w)' = Said(w)
    <3>1. ~Clearing(w)'
      BY <1>4, <2>2 DEF Clearing
    <3>2. w # i
      <4>1. CASE static' = static \cup ({i} \cap VehicleIds)
        BY <2>4, <3>1, <4>1 DEF IsSaid
      <4>2. CASE static' = static \ {i} /\ GoOn(t, "announce")
        BY <1>4, <2>1, <2>4, <4>2 DEF IsSaid, Filling
      <4> QED BY <2>2, <4>1, <4>2
    <3>3. w \notin static
      BY <2>2, <2>4, <3>1, <3>2 DEF IsSaid
    <3> QED BY <2>2, <2>3, <3>1, <3>2, <3>3 DEF IsSaid, Said
  <2>5. CopyInv'
    <3>1. \A w \in VehicleIds : w = i => IsChanging(t, w)
      BY <2>1 DEF IsChanging
    <3>2. \A u \in Threads, w \in VehicleIds : IsChanging(u, w)' => IsChanging(t, w)
      BY <1>4, <2>2, <3>1 DEF IsChanging
    <3> QED BY <1>5, <2>2, <3>1, <3>2
  <2> QED BY <1>1, <2>4, <2>5, ServerOnly
<1>7. CASE Clear(t)
  <2>1. /\ script[t].step = "clear" /\ script[t].model = NoVehicle /\ GoOn(t, "load")
        /\ static' = static \ {i}
        /\ \A w \in VehicleIds :
             vehiclePool'[w] = IF w = i THEN NoVehicle ELSE vehiclePool[w]
    BY <1>1, <1>7 DEF Clear, Assign, CallOK
  <2>2. \A w \in VehicleIds : /\ Clearing(w) <=> w = i
                              /\ ~Filling(w) /\ ~Clearing(w)' /\ ~Filling(w)'
    BY <1>3, <1>4, <2>1 DEF Clearing, Filling
  <2>3. \A w \in VehicleIds : IsSaid(w)' => IsSaid(w) /\ Said(w)' = Said(w)
    BY <2>1, <2>2 DEF IsSaid, Said
  <2>4. CopyInv'
    <3>1. \A w \in VehicleIds : w = i => IsChanging(t, w)
      BY <2>1 DEF IsChanging
    <3>2. \A u \in Threads, w \in VehicleIds : IsChanging(u, w)' => IsChanging(t, w)
      BY <1>4, <2>1, <3>1 DEF IsChanging
    <3> QED BY <1>5, <2>1, <3>1, <3>2
  <2> QED BY <1>1, <2>3, <2>4, ServerOnly
<1>8. CASE LoadCount(t) \/ StoreCount(t)
  <2>1. /\ script[t].step \in {"load", "store"} /\ UNCHANGED <<vehiclePool, static>>
        /\ \/ script' = [script EXCEPT ![t] = [@ EXCEPT !.step = "store", !.count = iVehicleCount]]
           \/ script' = [script EXCEPT ![t] = NoCall]
    BY <1>8 DEF LoadCount, StoreCount, poolVars
  <2>2. \A u \in Threads : script'[u].step \in {"none", "store"}
    <3>1. script'[t].step \in {"none", "store"}
      <4>1. NoCall.step = "none"
        BY DEF NoCall
      <4>2. CASE script' = [script EXCEPT ![t] = NoCall]
        BY <1>1, <4>1, <4>2 DEF TypeOK
      <4>3. CASE script' = [script EXCEPT ![t] = [@ EXCEPT !.step = "store", !.count = iVehicleCount]]
        BY <1>1, <4>3 DEF TypeOK
      <4> QED BY <2>1, <4>2, <4>3
    <3>2. \A u \in Threads : u = t \/ script'[u] = script[u]
      BY <1>1, <2>1 DEF TypeOK
    <3> QED BY <1>3, <3>1, <3>2
  <2>3. \A w \in VehicleIds : ~Clearing(w) /\ ~Filling(w) /\ ~Clearing(w)' /\ ~Filling(w)'
    BY <1>3, <2>1, <2>2 DEF Clearing, Filling
  <2>4. \A w \in VehicleIds : IsSaid(w)' => IsSaid(w) /\ Said(w)' = Said(w)
    BY <2>1, <2>3 DEF IsSaid, Said
  <2>5. CopyInv'
    BY <1>5, <2>1, <2>2 DEF IsChanging
  <2> QED BY <1>1, <2>4, <2>5, ServerOnly
<1> QED BY <1>6, <1>7, <1>8

\* Every client that is to begin hears of the change; the others drop it.
LEMMA AnnounceMail ==
  ASSUME VehiclesInv, ToldInv, ~unsafe, NEW t \in Threads, Announce(t)
  PROVE  ToldInv'
<1>1. PICK i, m : i = script[t].id /\ m = script[t].model
  OBVIOUS
<1>2. /\ TypeOK /\ CallOK(t) /\ Busy(t) /\ BegunInv /\ CopyInv
      /\ UNCHANGED <<poolVars, session, clientVars, spawnVars>>
      /\ script[t].step = "announce"
  BY DEF VehiclesInv, CallInv, Busy, ToldInv, Announce
<1>3. PICK call : call = IF m = NoVehicle THEN VehicleRemove(i) ELSE VehicleAdd(i, m)
  OBVIOUS
<1>4. /\ call \in Calls /\ ~IsInit(call) /\ call.model = m
      /\ \A w : IsAbout(call, w) <=> w = i
  <2>1. i \in VehicleNumbers /\ m \in Models \cup {NoVehicle}
    BY <1>1, <1>2 DEF TypeOK
  <2> QED BY <1>3, <2>1, CallTypes DEF IsInit, IsAbout, VehicleAdd, VehicleRemove
<1>5. \A c \in Clients :
        /\ toClient'[c] = IF session[c] = "new" THEN toClient[c] ELSE Append(toClient[c], call)
        /\ raced'[c] = IF IsBeingTold(c, i) THEN raced[c] ELSE raced[c] \ {i}
  BY <1>1, <1>3 DEF Announce, Hearers
<1>6. \A u \in Threads : u = t \/ script[u] = NoCall
  BY <1>2, OthersIdle
<1>7. \A u \in Threads : u = t \/ script[u].step = "none"
  BY <1>6 DEF NoCall
<1>8. /\ script'[t].step = IF m = NoVehicle THEN "clear" ELSE "load"
      /\ script'[t].id = i
      /\ \A u \in Threads : u = t \/ script'[u].step = "none"
  <2>1. GoOn(t, IF m = NoVehicle THEN "clear" ELSE "load")
    BY <1>1 DEF Announce
  <2> QED BY <1>1, <1>2, <1>7, <2>1, GoneOn
<1>9. BegunInv'
  <2>1. \A c \in Clients :
          toClient'[c] = toClient[c] \/ toClient'[c] = Append(toClient[c], call)
    BY <1>5
  <2> QED BY <1>2, <1>4, <2>1, BegunStays
<1>10. CopyInv'
  <2> SUFFICES ASSUME NEW c \in Clients, NEW w \in VehicleIds,
                      IsBeingTold(c, w), w \notin raced'[c]
               PROVE  newVeh' = vehiclePool'[w] /\ \A u \in Threads : ~IsChanging(u, w)'
    BY <1>2 DEF CopyInv, IsBeingTold, IsJoining, spawnVars
  <2>1. IsChanging(t, i)
    BY <1>1, <1>2 DEF IsChanging
  <2>2. w # i /\ w \notin raced[c]
    BY <1>2, <1>5, <2>1 DEF CopyInv
  <2>3. \A u \in Threads : ~IsChanging(u, w)'
    BY <1>8, <2>2 DEF IsChanging
  <2> QED BY <1>2, <2>2, <2>3 DEF CopyInv, poolVars, spawnVars
<1>11. ASSUME NEW c \in Clients, NEW w \in VehicleIds
       PROVE  Told(c, w)' <=> Told(c, w)
  BY <1>2 DEF Told, IsJoining, spawnVars
<1>12. ASSUME NEW c \in Clients, NEW w \in VehicleIds, IsSaid(w)', w # i
       PROVE  MailOK(c, w)'
  <2>1. /\ ~Filling(w) /\ ~Clearing(w) /\ ~Clearing(w)' /\ IsSaid(w)
        /\ Said(w) = vehiclePool[w] /\ Said(w)' = vehiclePool[w]
    BY <1>1, <1>2, <1>7, <1>8, <1>12 DEF Filling, Clearing, IsSaid, Said, poolVars
  <2>2. MailOK(c, w)
    BY <2>1 DEF ToldInv
  <2>3. w \in raced[c] <=> w \in raced'[c]
    BY <1>5, <1>12
  <2>4. \A x : Ends(c, w, x) =>
                 EndsWith(iGameInited'[c], toClient'[c], seen'[c][w], w, x)
    <3>1. CASE session[c] = "new"
      BY <1>2, <1>5, <3>1 DEF Ends, clientVars
    <3>2. CASE session[c] # "new"
      BY <1>2, <1>4, <1>5, <1>12, <3>2, OneMore
    <3> QED BY <3>1, <3>2
  <2>5. CASE Ends(c, w, Said(w))
    BY <2>1, <2>4, <2>5 DEF MailOK, Ends
  <2>6. CASE Told(c, w) /\ w \in raced[c] /\ \E x \in Models : Ends(c, w, x)
    BY <1>11, <2>3, <2>4, <2>6 DEF MailOK, Ends
  <2>7. CASE ~Told(c, w) /\ Ends(c, w, NoVehicle)
    BY <1>11, <2>4, <2>7 DEF MailOK, Ends, NoVehicle
  <2> QED BY <2>2, <2>5, <2>6, <2>7 DEF MailOK
<1>13. ASSUME NEW c \in Clients, i \in VehicleIds
       PROVE  MailOK(c, i)'
  <2>1. CASE Begun(c)
    <3>1. iGameInited[c] \/ InitComing(c)
      BY <1>2, <2>1 DEF BegunInv
    <3>2. toClient'[c] = Append(toClient[c], call)
      BY <1>5, <2>1 DEF Begun
    <3>3. EndsWith(iGameInited'[c], toClient'[c], seen'[c][i], i, m)
      BY <1>2, <1>4, <1>13, <3>1, <3>2, OneMore
    <3>4. Said(i)' = m
      <4>1. CASE m = NoVehicle
        BY <1>8, <4>1 DEF Said, Clearing
      <4>2. CASE m # NoVehicle
        <5>1. ~Clearing(i)' /\ vehiclePool'[i] = m
          BY <1>1, <1>2, <1>8, <4>2 DEF Clearing, CallOK, poolVars
        <5> QED BY <5>1 DEF Said
      <4> QED BY <4>1, <4>2
    <3> QED BY <3>3, <3>4 DEF MailOK, Ends
  <2>2. CASE ~Begun(c)
    <3>1. ~Begun(c)' /\ ~Told(c, i)'
      BY <1>2, <2>2 DEF Begun, Told, IsJoining
    <3>2. ~iGameInited'[c] /\ ~InitComing(c)' /\ seen'[c][i] = NoVehicle
      BY <1>9, <1>13, <3>1 DEF BegunInv, NoVehicle
    <3>3. Ends(c, i, NoVehicle)'
      BY <3>2 DEF Ends, EndsWith, Counts, InitComing, NoVehicle
    <3> QED BY <3>1, <3>3 DEF MailOK
  <2> QED BY <2>1, <2>2
<1> QED BY <1>9, <1>10, <1>12, <1>13 DEF ToldInv

\* A client that connects has heard nothing.
LEMMA ConnectMail ==
  ASSUME VehiclesInv, ToldInv, NEW c \in Clients, Connect(c)
  PROVE  ToldInv'
<1>1. /\ TypeOK /\ UNCHANGED <<poolVars, script, spawnVars, toClient, clientVars, raced>>
      /\ session' = [session EXCEPT ![c] = "connected"] /\ session[c] = "new"
  BY DEF VehiclesInv, Connect, historyVars
<1>2. \A d \in Clients : /\ Begun(d)' <=> Begun(d)
                         /\ IsJoining(d)' <=> IsJoining(d)
                         /\ \A v \in VehicleIds : Told(d, v)' <=> Told(d, v)
  BY <1>1 DEF TypeOK, Begun, IsJoining, Told, spawnVars
<1>3. BegunInv'
  BY <1>1, <1>2 DEF ToldInv, BegunInv, InitComing, clientVars
<1>4. CopyInv'
  BY <1>1, <1>2 DEF ToldInv, CopyInv, IsBeingTold, IsChanging, poolVars, spawnVars
<1>5. \A v \in VehicleIds : (IsSaid(v)' <=> IsSaid(v)) /\ Said(v)' = Said(v)
  BY <1>1 DEF IsSaid, Said, Filling, Clearing, poolVars
<1>6. \A d \in Clients, v \in VehicleIds : IsSaid(v)' => MailOK(d, v)'
  BY <1>1, <1>2, <1>5, MailStays DEF ToldInv
<1> QED BY <1>3, <1>4, <1>6 DEF ToldInv

\* A client that begins to join is told to begin, and of no entry yet.
LEMMA BeginJoinMail ==
  ASSUME VehiclesInv, ToldInv, NEW c \in Clients, BeginJoin(c)
  PROVE  ToldInv'
<1> DEFINE q == toClient[c]
<1>1. /\ TypeOK /\ UNCHANGED <<poolVars, script, clientVars, raced>>
      /\ session[c] = "connected" /\ \A d \in Clients : ~IsJoining(d)
      /\ session' = [session EXCEPT ![c] = "joining"]
      /\ toClient' = [toClient EXCEPT ![c] = Append(q, InitGame)]
      /\ nextVehicle' = 0 /\ newVeh' = NoVehicle
  BY DEF VehiclesInv, BeginJoin, IsFree, historyVars
<1>2. /\ session'[c] = "joining" /\ toClient'[c] = Append(q, InitGame)
      /\ \A d \in Clients : d # c => session'[d] = session[d] /\ toClient'[d] = toClient[d]
  BY <1>1 DEF TypeOK
<1>3. InitGame \in Calls /\ IsInit(InitGame) /\ \A v : ~IsAbout(InitGame, v)
  BY PoolFacts, VehiclesAssumption, CallTypes DEF InitGame, IsInit, IsAbout
<1>4. InitComing(c)'
  <2>1. /\ Len(Append(q, InitGame)) = Len(q) + 1 /\ Len(q) \in Nat
        /\ Append(q, InitGame)[Len(q) + 1] = InitGame
    BY <1>1, <1>3, AppendProperties, LenProperties DEF TypeOK
  <2> QED BY <1>2, <1>3, <2>1 DEF InitComing
<1>5. BegunInv'
  <2>1. \A d \in Clients : d # c => /\ Begun(d)' <=> Begun(d)
                                    /\ InitComing(d)' <=> InitComing(d)
                                    /\ ~IsJoining(d)'
    BY <1>1, <1>2 DEF Begun, InitComing, IsJoining
  <2>2. Begun(c)'
    BY <1>2 DEF Begun
  <2> QED BY <1>1, <1>4, <2>1, <2>2 DEF ToldInv, BegunInv, clientVars
<1>6. CopyInv'
  BY <1>1 DEF CopyInv, IsBeingTold, NoVehicle
<1>7. \A v \in VehicleIds : (IsSaid(v)' <=> IsSaid(v)) /\ Said(v)' = Said(v)
  BY <1>1 DEF IsSaid, Said, Filling, Clearing, poolVars
<1>8. ASSUME NEW d \in Clients, d # c, NEW v \in VehicleIds, MailOK(d, v)
      PROVE  MailOK(d, v)'
  <2>1. Told(d, v)' <=> Told(d, v)
    BY <1>1, <1>2, <1>8 DEF Told, IsJoining
  <2>2. \A m : Ends(d, v, m) <=>
                 EndsWith(iGameInited'[d], toClient'[d], seen'[d][v], v, m)
    BY <1>1, <1>2, <1>8 DEF Ends, clientVars
  <2>3. CASE Ends(d, v, Said(v))
    BY <1>7, <2>2, <2>3 DEF MailOK, Ends
  <2>4. CASE Told(d, v) /\ v \in raced[d] /\ \E m \in Models : Ends(d, v, m)
    BY <1>1, <2>1, <2>2, <2>4 DEF MailOK, Ends
  <2>5. CASE ~Told(d, v) /\ Ends(d, v, NoVehicle)
    BY <2>1, <2>2, <2>5 DEF MailOK, Ends, NoVehicle
  <2> QED BY <1>8, <2>3, <2>4, <2>5 DEF MailOK
<1>9. ASSUME NEW v \in VehicleIds
      PROVE  MailOK(c, v)'
  <2>1. Ends(c, v, NoVehicle)
    BY <1>1, NotBegun DEF ToldInv, Begun
  <2>2. EndsWith(iGameInited'[c], toClient'[c], seen'[c][v], v, NoVehicle)
    BY <1>1, <1>2, <1>3, <2>1, OneMore
  <2>3. ~Told(c, v)'
    BY <1>1, <1>2, PoolFacts DEF Told, IsJoining
  <2> QED BY <2>2, <2>3 DEF MailOK, Ends, NoVehicle
<1> QED BY <1>5, <1>6, <1>7, <1>8, <1>9 DEF ToldInv

\* An entry the join finds empty is one the client has nothing of.
LEMMA SkipVehicleMail ==
  ASSUME VehiclesInv, ToldInv, NEW c \in Clients, SkipVehicle(c)
  PROVE  ToldInv'
<1>1. /\ TypeOK /\ UNCHANGED <<poolVars, script, newVeh, session, toClient, clientVars, raced>>
      /\ IsJoining(c) /\ nextVehicle \in VehicleIds /\ newVeh = NoVehicle
      /\ vehiclePool[nextVehicle] = NoVehicle /\ nextVehicle' = nextVehicle + 1
  BY DEF VehiclesInv, SkipVehicle, historyVars
<1>2. BegunInv'
  BY <1>1 DEF ToldInv, BegunInv, Begun, InitComing, IsJoining, clientVars
<1>3. CopyInv'
  BY <1>1 DEF CopyInv, IsBeingTold, NoVehicle
<1>4. \A v \in VehicleIds : (IsSaid(v)' <=> IsSaid(v)) /\ Said(v)' = Said(v)
  BY <1>1 DEF IsSaid, Said, Filling, Clearing, poolVars
<1>5. \A d \in Clients : IsJoining(d) => d = c
  BY <1>1 DEF ToldInv, BegunInv
<1>6. ASSUME NEW d \in Clients, NEW v \in VehicleIds, MailOK(d, v)
      PROVE  MailOK(d, v)'
  <2>1. CASE v # nextVehicle \/ d # c
    <3>1. Told(d, v)' <=> Told(d, v)
      BY <1>1, <1>5, <2>1, PoolFacts DEF Told, IsJoining
    <3> QED BY <1>1, <1>4, <1>6, <3>1, MailStays
  <2>2. CASE v = nextVehicle /\ d = c
    <3>1. ~Told(c, v) /\ Said(v) = NoVehicle
      BY <1>1, <2>2, PoolFacts DEF Told, IsJoining, Said
    <3>2. Ends(c, v, NoVehicle)
      BY <1>6, <2>2, <3>1 DEF MailOK
    <3>3. Ends(d, v, Said(v))'
      BY <1>1, <1>4, <2>2, <3>1, <3>2 DEF Ends, clientVars
    <3> QED BY <3>3 DEF MailOK
  <2> QED BY <2>1, <2>2
<1> QED BY <1>2, <1>3, <1>4, <1>6 DEF ToldInv

\* A copy of an entry that no script is changing is a copy of what was said of it.
LEMMA CopyVehicleMail ==
  ASSUME VehiclesInv, ToldInv, NEW c \in Clients, CopyVehicle(c)
  PROVE  ToldInv'
<1>1. /\ TypeOK
      /\ UNCHANGED <<poolVars, script, nextVehicle, session, toClient, clientVars>>
      /\ IsJoining(c) /\ nextVehicle \in VehicleIds
      /\ newVeh' = vehiclePool[nextVehicle]
      /\ raced' = [raced EXCEPT ![c] = IF \E t \in Threads : IsChanging(t, nextVehicle)
                                       THEN @ \cup {nextVehicle} ELSE @]
  BY DEF VehiclesInv, CopyVehicle
<1>2. /\ \A d \in Clients : raced[d] \subseteq raced'[d]
      /\ nextVehicle \notin raced'[c] => \A t \in Threads : ~IsChanging(t, nextVehicle)
  BY <1>1 DEF TypeOK
<1>3. BegunInv'
  BY <1>1 DEF ToldInv, BegunInv, Begun, InitComing, IsJoining, clientVars
<1>4. \A d \in Clients : IsJoining(d) => d = c
  BY <1>1 DEF ToldInv, BegunInv
<1>5. CopyInv'
  <2> SUFFICES ASSUME NEW d \in Clients, NEW v \in VehicleIds,
                      IsBeingTold(d, v)', v \notin raced'[d]
               PROVE  newVeh' = vehiclePool'[v] /\ \A t \in Threads : ~IsChanging(t, v)'
    BY DEF CopyInv
  <2>1. d = c /\ v = nextVehicle
    BY <1>1, <1>4 DEF IsBeingTold, IsJoining
  <2> QED BY <1>1, <1>2, <2>1 DEF IsChanging, poolVars
<1>6. \A v \in VehicleIds : (IsSaid(v)' <=> IsSaid(v)) /\ Said(v)' = Said(v)
  BY <1>1 DEF IsSaid, Said, Filling, Clearing, poolVars
<1>7. \A d \in Clients, v \in VehicleIds : Told(d, v)' <=> Told(d, v)
  BY <1>1 DEF Told, IsJoining
<1>8. \A d \in Clients, v \in VehicleIds : IsSaid(v)' => MailOK(d, v)'
  BY <1>1, <1>2, <1>6, <1>7, MailStays DEF ToldInv
<1> QED BY <1>3, <1>5, <1>8 DEF ToldInv

\* The client is sent the entry as it is, or a race is noted.
LEMMA SpawnVehicleMail ==
  ASSUME VehiclesInv, ToldInv, NEW c \in Clients, SpawnVehicle(c)
  PROVE  ToldInv'
<1>1. PICK n, m : n = nextVehicle /\ m = newVeh
  OBVIOUS
<1>2. PICK call : call = VehicleAdd(n, m)
  OBVIOUS
<1>3. /\ TypeOK /\ UNCHANGED <<poolVars, script, session, clientVars, raced>>
      /\ IsJoining(c) /\ m # NoVehicle /\ n \in VehicleIds /\ m \in Models
      /\ toClient' = [toClient EXCEPT ![c] = Append(@, call)]
      /\ nextVehicle' = n + 1 /\ newVeh' = NoVehicle
  BY <1>1, <1>2 DEF VehiclesInv, CopyInPool, TypeOK, SpawnVehicle, historyVars
<1>4. /\ call \in Calls /\ ~IsInit(call) /\ call.model = m
      /\ \A w : IsAbout(call, w) <=> w = n
  <2>1. n \in VehicleNumbers
    BY <1>3, VehiclesAssumption
  <2> QED BY <1>2, <1>3, <2>1, CallTypes DEF IsInit, IsAbout, VehicleAdd
<1>5. /\ toClient'[c] = Append(toClient[c], call)
      /\ \A d \in Clients : d # c => toClient'[d] = toClient[d]
  BY <1>3 DEF TypeOK
<1>6. BegunInv'
  BY <1>3, <1>4, <1>5, BegunStays DEF ToldInv
<1>7. CopyInv'
  BY <1>3 DEF CopyInv, IsBeingTold, NoVehicle
<1>8. \A v \in VehicleIds : (IsSaid(v)' <=> IsSaid(v)) /\ Said(v)' = Said(v)
  BY <1>3 DEF IsSaid, Said, Filling, Clearing, poolVars
<1>9. \A d \in Clients : IsJoining(d) => d = c
  BY <1>3 DEF ToldInv, BegunInv
<1>10. ASSUME NEW d \in Clients, NEW v \in VehicleIds, v # n \/ d # c, MailOK(d, v)
       PROVE  MailOK(d, v)'
  <2>1. Told(d, v)' <=> Told(d, v)
    BY <1>1, <1>3, <1>9, <1>10, PoolFacts DEF Told, IsJoining
  <2>2. \A x : Ends(d, v, x) =>
                 EndsWith(iGameInited'[d], toClient'[d], seen'[d][v], v, x)
    <3>1. CASE d # c
      BY <1>3, <1>5, <3>1 DEF Ends, clientVars
    <3>2. CASE d = c
      BY <1>3, <1>4, <1>5, <1>10, <3>2, OneMore
    <3> QED BY <3>1, <3>2
  <2>3. CASE Ends(d, v, Said(v))
    BY <1>8, <2>2, <2>3 DEF MailOK, Ends
  <2>4. CASE Told(d, v) /\ v \in raced[d] /\ \E x \in Models : Ends(d, v, x)
    BY <1>3, <2>1, <2>2, <2>4 DEF MailOK, Ends
  <2>5. CASE ~Told(d, v) /\ Ends(d, v, NoVehicle)
    BY <2>1, <2>2, <2>5 DEF MailOK, Ends, NoVehicle
  <2> QED BY <1>10, <2>3, <2>4, <2>5 DEF MailOK
<1>11. MailOK(c, n)'
  <2>1. iGameInited[c] \/ InitComing(c)
    BY <1>3 DEF ToldInv, BegunInv, Begun, IsJoining
  <2>2. EndsWith(iGameInited'[c], toClient'[c], seen'[c][n], n, m)
    BY <1>3, <1>4, <1>5, <2>1, OneMore
  <2>3. CASE n \in raced[c]
    <3>1. Told(c, n)'
      BY <1>3, PoolFacts DEF Told, IsJoining
    <3> QED BY <1>3, <2>2, <2>3, <3>1 DEF MailOK, Ends
  <2>4. CASE n \notin raced[c]
    <3>1. m = vehiclePool[n] /\ \A t \in Threads : ~IsChanging(t, n)
      BY <1>1, <1>3, <2>4 DEF ToldInv, CopyInv, IsBeingTold
    <3>2. Said(n) = m
      BY <3>1 DEF Said, Clearing, IsChanging
    <3> QED BY <1>3, <1>8, <2>2, <3>2 DEF MailOK, Ends
  <2> QED BY <2>3, <2>4
<1> QED BY <1>6, <1>7, <1>8, <1>10, <1>11 DEF ToldInv

\* At the end of the join the client has been told of every entry.
LEMMA FinishJoinMail ==
  ASSUME VehiclesInv, ToldInv, NEW c \in Clients, FinishJoin(c)
  PROVE  ToldInv'
<1>1. /\ TypeOK /\ UNCHANGED <<poolVars, script, spawnVars, toClient, clientVars, raced>>
      /\ IsJoining(c) /\ nextVehicle = MAX_VEHICLES
      /\ session'[c] = "joined"
      /\ \A d \in Clients : d # c => session'[d] = session[d]
  BY DEF VehiclesInv, TypeOK, FinishJoin, historyVars
<1>2. \A d \in Clients : IsJoining(d) => d = c
  BY <1>1 DEF ToldInv, BegunInv
<1>3. \A d \in Clients : ~IsJoining(d)' /\ (Begun(d)' <=> Begun(d))
  BY <1>1, <1>2 DEF IsJoining, Begun
<1>4. \A v \in VehicleIds : v < nextVehicle
  BY <1>1, VehiclesAssumption DEF VehicleIds
<1>5. \A d \in Clients, v \in VehicleIds : Told(d, v)' <=> Told(d, v)
  BY <1>1, <1>2, <1>3, <1>4 DEF Told, IsJoining
<1>6. BegunInv'
  BY <1>1, <1>3 DEF ToldInv, BegunInv, InitComing, clientVars
<1>7. CopyInv'
  BY <1>3 DEF CopyInv, IsBeingTold
<1>8. \A v \in VehicleIds : (IsSaid(v)' <=> IsSaid(v)) /\ Said(v)' = Said(v)
  BY <1>1 DEF IsSaid, Said, Filling, Clearing, poolVars
<1>9. \A d \in Clients, v \in VehicleIds : IsSaid(v)' => MailOK(d, v)'
  BY <1>1, <1>5, <1>8, MailStays DEF ToldInv
<1> QED BY <1>6, <1>7, <1>9 DEF ToldInv

\* The client's table and the rest of its mail say what they said together.
LEMMA ClientReceivesMail ==
  ASSUME VehiclesInv, ToldInv, NEW c \in Clients, ClientReceives(c)
  PROVE  ToldInv'
<1> DEFINE q == toClient[c]
           h == Head(q)
           t == Tail(q)
<1>1. /\ TypeOK /\ UNCHANGED <<poolVars, script, spawnVars, session, raced>>
      /\ q \in Seq(Calls) /\ q # <<>> /\ iGameInited[c] \in BOOLEAN
      /\ seen \in [Clients -> [VehicleIds -> Models \cup {NoVehicle}]]
      /\ iGameInited \in [Clients -> BOOLEAN]
  BY DEF VehiclesInv, TypeOK, ClientReceives, historyVars
<1>2. /\ h \in Calls /\ Len(t) = Len(q) - 1 /\ Len(q) \in Nat /\ Len(q) >= 1
      /\ h = q[1] /\ \A k \in 1..Len(t) : t[k] = q[k + 1]
  BY <1>1, HeadTailProperties, LenProperties, EmptySeq
<1>3. /\ toClient'[c] = t
      /\ \A d \in Clients : d # c => toClient'[d] = toClient[d]
  BY <1>1 DEF ClientReceives, TypeOK
<1>4. /\ iGameInited'[c] = (iGameInited[c] \/ IsInit(h))
      /\ \A v \in VehicleIds : seen'[c][v] =
           IF iGameInited[c] /\ IsAbout(h, v) THEN h.model ELSE seen[c][v]
      /\ \A d \in Clients : d # c =>
           iGameInited'[d] = iGameInited[d] /\ seen'[d] = seen[d]
  <2> HIDE DEF h
  <2>1. CASE IsInit(h)
    <3>1. iGameInited' = [iGameInited EXCEPT ![c] = TRUE] /\ UNCHANGED seen
      BY <2>1 DEF ClientReceives, IsInit, h
    <3> QED BY <1>1, <2>1, <3>1 DEF IsInit, IsAbout
  <2>2. CASE ~IsInit(h) /\ iGameInited[c] /\ h.id \in VehicleIds
    <3>1. /\ seen' = [seen EXCEPT ![c][h.id] = h.model]
          /\ UNCHANGED iGameInited
      BY <2>2 DEF ClientReceives, IsInit, h
    <3> QED BY <1>1, <2>2, <3>1 DEF IsInit, IsAbout
  <2>3. CASE ~IsInit(h) /\ ~(iGameInited[c] /\ h.id \in VehicleIds)
    <3>1. UNCHANGED clientVars
      BY <2>3 DEF ClientReceives, IsInit, h
    <3> QED BY <1>1, <2>3, <3>1 DEF clientVars, IsAbout
  <2> QED BY <2>1, <2>2, <2>3
<1> HIDE DEF q, h, t
<1>5. \A k \in 1..Len(t) : k + 1 \in 1..Len(q)
  BY <1>2
<1>6. InitComing(c) => IsInit(h) \/ InitComing(c)'
  <2> SUFFICES ASSUME NEW k \in 1..Len(q), IsInit(q[k]), ~IsInit(h)
               PROVE  \E j \in 1..Len(t) : IsInit(t[j])
    BY <1>3 DEF InitComing, q
  <2>1. k - 1 \in 1..Len(t) /\ (k - 1) + 1 = k
    BY <1>2
  <2> QED BY <1>2, <2>1
<1>7. InitComing(c)' \/ IsInit(h) => InitComing(c)
  <2>1. ASSUME NEW k \in 1..Len(t), IsInit(t[k])
        PROVE  \E j \in 1..Len(q) : IsInit(q[j])
    BY <1>2, <1>5, <2>1
  <2>2. IsInit(h) => \E j \in 1..Len(q) : IsInit(q[j])
    BY <1>2
  <2> QED BY <1>3, <2>1, <2>2 DEF InitComing, q
<1>8. BegunInv'
  <2>1. \A d \in Clients : /\ Begun(d)' <=> Begun(d)
                           /\ IsJoining(d)' <=> IsJoining(d)
                           /\ d # c => (InitComing(d)' <=> InitComing(d))
    BY <1>1, <1>3 DEF Begun, IsJoining, InitComing
  <2>2. /\ ~Begun(c) => ~iGameInited'[c] /\ ~InitComing(c)'
        /\ Begun(c) => iGameInited'[c] \/ InitComing(c)'
        /\ ~iGameInited'[c] => \A v \in VehicleIds : seen'[c][v] = NoVehicle
    BY <1>4, <1>6, <1>7 DEF ToldInv, BegunInv
  <2>3. \A d \in Clients : d = c \/ d # c
    OBVIOUS
  <2> QED BY <1>4, <2>1, <2>2, <2>3 DEF ToldInv, BegunInv, NoVehicle
<1>9. CopyInv'
  BY <1>1 DEF ToldInv, CopyInv, IsBeingTold, IsJoining, IsChanging, poolVars, spawnVars
<1>10. \A v \in VehicleIds : (IsSaid(v)' <=> IsSaid(v)) /\ Said(v)' = Said(v)
  BY <1>1 DEF IsSaid, Said, Filling, Clearing, poolVars
<1>11. ASSUME NEW d \in Clients, NEW v \in VehicleIds, MailOK(d, v)
       PROVE  MailOK(d, v)'
  <2>1. Told(d, v)' <=> Told(d, v)
    BY <1>1 DEF Told, IsJoining, spawnVars
  <2>2. ASSUME NEW m, Ends(d, v, m)
        PROVE  EndsWith(iGameInited'[d], toClient'[d], seen'[d][v], v, m)
    <3>1. CASE d # c
      BY <1>3, <1>4, <2>2, <3>1 DEF Ends
    <3>2. CASE d = c
      <4>1. EndsWith(iGameInited[c], q, seen[c][v], v, m)
        BY <2>2, <3>2 DEF Ends, q
      <4>2. EndsWith(iGameInited[c] \/ IsInit(h), t,
                     IF iGameInited[c] /\ IsAbout(h, v) THEN h.model ELSE seen[c][v],
                     v, m)
        BY <1>1, <4>1, HandledCall DEF h, t
      <4> QED BY <1>3, <1>4, <3>2, <4>2
    <3> QED BY <3>1, <3>2
  <2>3. CASE Ends(d, v, Said(v))
    BY <1>10, <2>2, <2>3 DEF MailOK, Ends
  <2>4. CASE Told(d, v) /\ v \in raced[d] /\ \E m \in Models : Ends(d, v, m)
    BY <1>1, <2>1, <2>2, <2>4 DEF MailOK, Ends
  <2>5. CASE ~Told(d, v) /\ Ends(d, v, NoVehicle)
    BY <2>1, <2>2, <2>5 DEF MailOK, Ends, NoVehicle
  <2> QED BY <1>11, <2>3, <2>4, <2>5 DEF MailOK
<1> QED BY <1>8, <1>9, <1>10, <1>11 DEF ToldInv

(***************************************************************************)
(* As long as scripts name entries the pool has and no two of their calls  *)
(* overlap: once it has handled its mail, a client that has been told of   *)
(* an entry will have what was said of it last, and the broadcasts leave   *)
(* no gap before, between and after the sleeps of its join.  After a       *)
(* change that came between the join's look at the entry and its RPC, it   *)
(* may have another vehicle there.                                         *)
(***************************************************************************)
THEOREM MailInvariant == Spec => []MailInv
<1>1. Init => MailInv
  <2> SUFFICES ASSUME Init PROVE ToldInv
    BY DEF MailInv
  <2>1. BegunInv
    BY DEF Init, BegunInv, Begun, InitComing, IsJoining
  <2>2. CopyInv
    BY DEF Init, CopyInv, IsBeingTold
  <2>3. \A c \in Clients, v \in VehicleIds : ~Told(c, v) /\ Ends(c, v, NoVehicle)
    BY DEF Init, Told, IsJoining, Ends, EndsWith
  <2> QED BY <2>1, <2>2, <2>3 DEF ToldInv, MailOK
<1>2. VehiclesInv /\ MailInv /\ [Next]_vars => MailInv'
  <2> SUFFICES ASSUME VehiclesInv, MailInv, [Next]_vars, ~unsafe' PROVE ToldInv'
    BY DEF MailInv
  <2>1. ASSUME NEW t \in Threads,
               \/ \E m \in Models : AddStaticVehicle(t, m) \/ CreateVehicle(t, m)
               \/ \E v \in VehicleNumbers : RemoveVehicle(t, v)
        PROVE  ToldInv'
    <3>1. ~unsafe
      BY <2>1 DEF AddStaticVehicle, CreateVehicle, RemoveVehicle, MayCall
    <3> QED BY <2>1, <3>1, EntryMail DEF MailInv
  <2>2. ASSUME NEW t \in Threads,
               Fill(t) \/ Announce(t) \/ Clear(t) \/ LoadCount(t) \/ StoreCount(t)
        PROVE  ToldInv'
    <3>1. ~unsafe
      BY <2>2 DEF Fill, Announce, Clear, LoadCount, StoreCount, historyVars
    <3> QED BY <2>2, <3>1, PoolStepMail, AnnounceMail DEF MailInv
  <2>3. ASSUME NEW c \in Clients,
               \/ Connect(c) \/ BeginJoin(c) \/ SkipVehicle(c) \/ CopyVehicle(c)
               \/ SpawnVehicle(c) \/ FinishJoin(c) \/ ClientReceives(c)
        PROVE  ToldInv'
    <3>1. ~unsafe
      BY <2>3 DEF Connect, BeginJoin, SkipVehicle, CopyVehicle, SpawnVehicle,
                  FinishJoin, ClientReceives, historyVars
    <3> QED BY <2>3, <3>1, ConnectMail, BeginJoinMail, SkipVehicleMail, CopyVehicleMail,
               SpawnVehicleMail, FinishJoinMail, ClientReceivesMail DEF MailInv
  <2>4. CASE UNCHANGED vars
    <3>1. UNCHANGED <<poolVars, script, spawnVars, session, toClient, clientVars, historyVars>>
      BY <2>4 DEF vars
    <3>2. BegunInv' /\ CopyInv'
      BY <3>1 DEF MailInv, ToldInv, BegunInv, Begun, InitComing, IsJoining, CopyInv,
                  IsBeingTold, IsChanging, poolVars, spawnVars, clientVars, historyVars
    <3>3. \A v \in VehicleIds : (IsSaid(v)' <=> IsSaid(v)) /\ Said(v)' = Said(v)
      BY <3>1 DEF IsSaid, Said, Filling, Clearing, poolVars
    <3>4. \A c \in Clients, v \in VehicleIds : Told(c, v)' <=> Told(c, v)
      BY <3>1 DEF Told, IsJoining, spawnVars
    <3>5. \A c \in Clients, v \in VehicleIds : IsSaid(v)' => MailOK(c, v)'
      BY <3>1, <3>3, <3>4, MailStays DEF MailInv, ToldInv, historyVars
    <3> QED BY <3>2, <3>5 DEF ToldInv
  <2> QED BY <2>1, <2>2, <2>3, <2>4 DEF Next
<1> QED BY <1>1, <1>2, VehiclesInvariant, PTL DEF Spec

\* As long as scripts name entries the pool has and no two of their calls overlap,
\* a client in the game that has handled its mail has the server's vehicles, but for
\* the static ones, for those in the middle of a change, and for those that a script
\* was changing while the join told the client of them.
THEOREM Agreement == Spec => []VehiclesAgree
<1>1. MailInv => VehiclesAgree
  <2> SUFFICES ASSUME MailInv, ~unsafe, NEW c \in Clients,
                      session[c] = "joined", toClient[c] = <<>>,
                      NEW v \in VehicleIds \ static,
                      \A t \in Threads : ~IsHalfDone(t, v)
               PROVE  \/ seen[c][v] = vehiclePool[v]
                      \/ v \in raced[c] /\ seen[c][v] # NoVehicle
    BY DEF VehiclesAgree
  <2>1. ~Filling(v) /\ ~Clearing(v)
    BY DEF Filling, Clearing, IsHalfDone
  <2>2. IsSaid(v) /\ Said(v) = vehiclePool[v]
    BY <2>1 DEF IsSaid, Said
  <2>3. MailOK(c, v) /\ Told(c, v)
    BY <2>2 DEF MailInv, ToldInv, Told
  <2>4. \A m : Ends(c, v, m) => seen[c][v] = m
    BY DEF Ends, EndsWith
  <2> QED BY <2>2, <2>3, <2>4, VehiclesAssumption DEF MailOK, NoVehicle
<1> QED BY <1>1, MailInvariant, PTL
=============================================================================
