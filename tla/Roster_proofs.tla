---------------------------- MODULE Roster_proofs ----------------------------
(***************************************************************************)
(* Proofs about Roster for every set of clients, every number of slots and *)
(* every order in which messages arrive.                                   *)
(***************************************************************************)
EXTENDS Roster, FiniteSetTheorems, SequenceTheorems, TLAPS

-----------------------------------------------------------------------------
(* Sequences: what remains after a message is taken out, and what joining  *)
(* two sequences of calls contains.                                        *)

\* What RemoveAt leaves is a sequence of elements that were there before.
LEMMA RemoveAtProperties ==
  ASSUME NEW S, NEW s \in Seq(S), NEW k \in DOMAIN s
  PROVE  /\ RemoveAt(s, k) \in Seq(S)
         /\ \A j \in DOMAIN RemoveAt(s, k) :
              \E n \in DOMAIN s : RemoveAt(s, k)[j] = s[n]
<1> DEFINE front == SubSeq(s, 1, k - 1)
           back == SubSeq(s, k + 1, Len(s))
<1>1. k \in 1..Len(s) /\ Len(s) \in Nat
  OBVIOUS
<1>2. /\ front \in Seq(S) /\ Len(front) = k - 1
      /\ \A j \in 1..(k - 1) : front[j] = s[j]
  <2>1. \A j \in 1..(k - 1) : s[j] \in S
    BY <1>1
  <2> QED BY <1>1, <2>1, SubSeqProperties
<1>3. /\ back \in Seq(S) /\ Len(back) = Len(s) - k
      /\ \A j \in 1..(Len(s) - k) : back[j] = s[k + j]
  <2>1. \A j \in (k + 1)..Len(s) : s[j] \in S
    BY <1>1
  <2>2. /\ back \in Seq(S)
        /\ Len(back) = IF k + 1 <= Len(s) THEN Len(s) - (k + 1) + 1 ELSE 0
        /\ \A j \in 1..(Len(s) - (k + 1) + 1) : back[j] = s[k + 1 + j - 1]
    BY <1>1, <2>1, SubSeqProperties
  <2> QED BY <1>1, <2>2
<1>4. RemoveAt(s, k) = front \o back
  BY DEF RemoveAt
<1> HIDE DEF front, back
<1>5. /\ front \o back \in Seq(S)
      /\ Len(front \o back) = Len(s) - 1
      /\ \A j \in 1..(Len(s) - 1) :
           (front \o back)[j] = IF j <= k - 1 THEN front[j] ELSE back[j - (k - 1)]
  <2>1. /\ front \o back \in Seq(S)
        /\ Len(front \o back) = Len(front) + Len(back)
        /\ \A j \in 1..(Len(front) + Len(back)) :
             (front \o back)[j] = IF j <= Len(front) THEN front[j]
                                  ELSE back[j - Len(front)]
    BY <1>2, <1>3, ConcatProperties
  <2>2. Len(front) + Len(back) = Len(s) - 1
    BY <1>1, <1>2, <1>3
  <2> QED BY <1>2, <2>1, <2>2
<1>6. ASSUME NEW j \in 1..(Len(s) - 1)
      PROVE  \E n \in DOMAIN s : (front \o back)[j] = s[n]
  <2>1. CASE j <= k - 1
    <3>1. j \in 1..(k - 1) /\ j \in DOMAIN s
      BY <1>1, <1>6, <2>1
    <3> QED BY <1>2, <1>5, <1>6, <2>1, <3>1
  <2>2. CASE ~(j <= k - 1)
    <3>1. j - (k - 1) \in 1..(Len(s) - k) /\ j + 1 \in DOMAIN s
      BY <1>1, <1>6, <2>2
    <3>2. back[j - (k - 1)] = s[k + (j - (k - 1))] /\ k + (j - (k - 1)) = j + 1
      BY <1>1, <1>3, <1>6, <3>1
    <3> QED BY <1>5, <1>6, <2>2, <3>1, <3>2
  <2> QED BY <2>1, <2>2
<1>7. DOMAIN (front \o back) = 1..(Len(s) - 1)
  BY <1>5
<1> QED BY <1>4, <1>5, <1>6, <1>7

\* A property of every element of two sequences is one of their concatenation.
LEMMA ConcatElements ==
  ASSUME NEW S, NEW s \in Seq(S), NEW t \in Seq(S), NEW k \in DOMAIN (s \o t)
  PROVE  \/ \E n \in DOMAIN s : (s \o t)[k] = s[n]
         \/ \E n \in DOMAIN t : (s \o t)[k] = t[n]
<1>1. /\ Len(s \o t) = Len(s) + Len(t)
      /\ \A i \in 1..(Len(s) + Len(t)) :
           (s \o t)[i] = IF i <= Len(s) THEN s[i] ELSE t[i - Len(s)]
  BY ConcatProperties
<1>2. k \in 1..(Len(s) + Len(t)) /\ Len(s) \in Nat /\ Len(t) \in Nat
  BY <1>1, ConcatProperties
<1>3. CASE k <= Len(s)
  BY <1>1, <1>2, <1>3
<1>4. CASE ~(k <= Len(s))
  <2>1. k - Len(s) \in DOMAIN t
    BY <1>2, <1>4
  <2> QED BY <1>1, <1>2, <1>4, <2>1
<1> QED BY <1>3, <1>4

-----------------------------------------------------------------------------
(* The inductive invariant.                                                *)

\* Nothing was sent to a client that has not connected yet.
NewGotNothing ==
  \A c \in Clients : session[c] = "new" => toClient[c] = <<>>

PlayersHaveSlots ==
  \A c \in Clients : IsPlaying(c) =>
    \E i \in Slots : remote[i].active /\ remote[i].client = c

\* The client in a slot plays, believes the slot's index to be its number, and
\* will be told no other number: so it cannot be in two slots.
SlotsAgree ==
  \A i \in Slots : remote[i].active =>
    /\ IsPlaying(remote[i].client)
    /\ remote[i].client \in Clients
    /\ g_myPlayerID[remote[i].client] = i
    /\ \A k \in DOMAIN toClient[remote[i].client] :
         toClient[remote[i].client][k].call = "InitGame" =>
           toClient[remote[i].client][k].index = i

\* A slot that is not in use still names the client that had it last, and
\* GetPlayerIDFromIndex still finds it there; that client has left.
LastUserLeft ==
  \A i \in Slots : ~remote[i].active =>
    remote[i].client = Nobody \/ session[remote[i].client] = "left"

RosterInv ==
  /\ TypeOK /\ CountCovers
  /\ NewGotNothing /\ PlayersHaveSlots /\ SlotsAgree /\ LastUserLeft

\* Slots are entries, and there are finitely many of both.
LEMMA ConstantFacts ==
  /\ Slots \subseteq Entries
  /\ Slots \subseteq Nat /\ Entries \subseteq Nat
  /\ IsFiniteSet(Entries)
  /\ Nobody \notin Clients
  /\ 0 \in Entries
<1>1. IsFiniteSet(Entries)
  BY FS_Interval, RosterAssumption DEF Entries
<1> QED BY <1>1, RosterAssumption DEF Slots, Entries, Nobody

\* A client that plays has exactly one slot, and SlotOf finds it.
LEMMA SlotOfPlayer ==
  ASSUME PlayersHaveSlots, SlotsAgree, NEW c \in Clients, IsPlaying(c)
  PROVE  /\ SlotOf(c) \in Slots
         /\ remote[SlotOf(c)].active /\ remote[SlotOf(c)].client = c
         /\ \A i \in Slots : remote[i].active /\ remote[i].client = c =>
                              i = SlotOf(c)
<1>1. PICK i \in Slots : remote[i].active /\ remote[i].client = c
  BY DEF PlayersHaveSlots
<1>2. /\ SlotOf(c) \in Slots
      /\ remote[SlotOf(c)].active /\ remote[SlotOf(c)].client = c
  BY <1>1 DEF SlotOf
<1>3. ASSUME NEW j \in Slots, remote[j].active, remote[j].client = c
      PROVE  j = SlotOf(c)
  BY <1>2, <1>3 DEF SlotsAgree
<1> QED BY <1>2, <1>3

\* The clients with a slot are the ones that play.
LEMMA ConnectedArePlaying ==
  ASSUME PlayersHaveSlots, SlotsAgree
  PROVE  Connected = {c \in Clients : IsPlaying(c)}
<1>1. ASSUME NEW c \in Connected
      PROVE  c \in Clients /\ IsPlaying(c)
  BY <1>1 DEF Connected, SlotsAgree
<1>2. ASSUME NEW c \in Clients, IsPlaying(c)
      PROVE  c \in Connected
  BY <1>2 DEF Connected, PlayersHaveSlots
<1> QED BY <1>1, <1>2
-----------------------------------------------------------------------------
(* Type correctness, one lemma for each action.                            *)

\* The variables have their types at first.
LEMMA TypeInit == Init => TypeOK
<1> SUFFICES ASSUME Init PROVE TypeOK
  OBVIOUS
<1> USE ConstantFacts DEF Init
<1>1. <<>> \in Seq(Packets)
  OBVIOUS
<1>2. toServer \in [Clients -> Seq({"NEW_INCOMING_CONNECTION", "ClientJoin"})]
  OBVIOUS
<1>3. toClient \in [Clients -> Seq(Calls)]
  OBVIOUS
<1>4. playerInfo \in [Clients -> [Entries -> Clients \cup {Nobody}]]
  OBVIOUS
<1>5. g_myPlayerID \in [Clients -> Entries]
  OBVIOUS
<1>6. playerPool \in [Entries -> Clients \cup {Nobody}] /\ playerCount \in Nat
  OBVIOUS
<1>7. remote \in [Slots -> RemoteSystems]
  BY DEF RemoteSystems
<1>8. /\ session \in [Clients -> {"new", "connected", "left"}]
      /\ iGameInited \in [Clients -> BOOLEAN]
  OBVIOUS
<1> QED BY <1>1, <1>2, <1>3, <1>4, <1>5, <1>6, <1>7, <1>8 DEF TypeOK

\* A connection keeps the types.
LEMMA TypeConnect ==
  ASSUME TypeOK, NEW c \in Clients, Connect(c)
  PROVE  TypeOK'
<1> USE ConstantFacts DEF TypeOK
<1>1. PICK i \in Slots : ConnectAt(c, i)
  BY DEF Connect
<1> USE DEF ConnectAt
<1>2. remote' \in [Slots -> RemoteSystems]
  BY <1>1 DEF RemoteSystems
<1>3. toServer' \in [Clients -> Seq({"NEW_INCOMING_CONNECTION", "ClientJoin"})]
  BY <1>1
<1>4. i \in Entries
  OBVIOUS
<1>5. g_myPlayerID' \in [Clients -> Entries]
  BY <1>1, <1>4
<1>6. playerInfo' \in [Clients -> [Entries -> Clients \cup {Nobody}]]
  BY <1>1, <1>4
<1>7. session' \in [Clients -> {"new", "connected", "left"}]
  BY <1>1
<1> QED BY <1>1, <1>2, <1>3, <1>5, <1>6, <1>7

\* A message that reaches the server keeps the types.
LEMMA TypeServerReceives ==
  ASSUME TypeOK, NEW c \in Clients, ServerReceives(c)
  PROVE  TypeOK'
<1>1. PICK k \in DOMAIN toServer[c] :
        /\ toServer' = [toServer EXCEPT ![c] = RemoveAt(@, k)]
        /\ IF toServer[c][k] = "NEW_INCOMING_CONNECTION"
           THEN /\ remote' = [remote EXCEPT ![SlotOf(c)].mode = "CONNECTED"]
                /\ UNCHANGED received
           ELSE /\ received' = Append(received, Join(c))
                /\ UNCHANGED remote
        /\ UNCHANGED <<session, joining, playerPool, playerCount, toClient,
                       clientVars>>
  BY DEF ServerReceives
<1>2. toServer' \in [Clients -> Seq({"NEW_INCOMING_CONNECTION", "ClientJoin"})]
  BY <1>1, RemoveAtProperties DEF TypeOK
<1>3. remote' \in [Slots -> RemoteSystems]
  <2>1. remote \in [Slots -> RemoteSystems]
    BY DEF TypeOK
  <2>2. remote' = remote \/ remote' = [remote EXCEPT ![SlotOf(c)].mode = "CONNECTED"]
    BY <1>1
  <2>3. ASSUME NEW i \in Slots
        PROVE  [remote[i] EXCEPT !.mode = "CONNECTED"] \in RemoteSystems
    <3>1. remote[i] \in RemoteSystems
      BY <2>1
    <3> QED BY <3>1 DEF RemoteSystems
  <2> QED BY <2>1, <2>2, <2>3
<1>4. received' \in Seq(Packets)
  <2>1. Join(c) \in Packets
    BY DEF Join, Packets
  <2>2. received \in Seq(Packets)
    BY DEF TypeOK
  <2>3. received' = received \/ received' = Append(received, Join(c))
    BY <1>1
  <2>4. Append(received, Join(c)) \in Seq(Packets)
    BY <2>1, <2>2, AppendProperties
  <2> QED BY <2>2, <2>3, <2>4
<1> QED BY <1>1, <1>2, <1>3, <1>4 DEF TypeOK, clientVars

\* A leave keeps the types: the client has a slot.
LEMMA TypeLeave ==
  ASSUME TypeOK, PlayersHaveSlots, SlotsAgree, NEW c \in Clients, Leave(c)
  PROVE  TypeOK'
<1>1. SlotOf(c) \in Slots
  BY SlotOfPlayer DEF Leave
<1>2. remote' \in [Slots -> RemoteSystems]
  <2>1. remote \in [Slots -> RemoteSystems]
    BY DEF TypeOK
  <2>2. [remote[SlotOf(c)] EXCEPT !.active = FALSE] \in RemoteSystems
    <3>1. remote[SlotOf(c)] \in RemoteSystems
      BY <1>1, <2>1
    <3> QED BY <3>1 DEF RemoteSystems
  <2>3. remote' = [remote EXCEPT ![SlotOf(c)].active = FALSE]
    BY DEF Leave
  <2> QED BY <1>1, <2>1, <2>2, <2>3
<1>3. received' \in Seq(Packets)
  <2>1. Gone(SlotOf(c)) \in Packets
    BY <1>1 DEF Gone, Packets
  <2>2. received \in Seq(Packets)
    BY DEF TypeOK
  <2>3. received' = received \/ received' = Append(received, Gone(SlotOf(c)))
    BY DEF Leave
  <2>4. Append(received, Gone(SlotOf(c))) \in Seq(Packets)
    BY <2>1, <2>2, AppendProperties
  <2> QED BY <2>2, <2>3, <2>4
<1>4. /\ toServer' \in [Clients -> Seq({"NEW_INCOMING_CONNECTION", "ClientJoin"})]
      /\ toClient' \in [Clients -> Seq(Calls)]
  BY DEF TypeOK, Leave
<1>5. session' \in [Clients -> {"new", "connected", "left"}]
  BY DEF TypeOK, Leave
<1> QED BY <1>2, <1>3, <1>4, <1>5 DEF TypeOK, Leave, clientVars

\* The oldest packet of the queue, and what stays in it.
LEMMA Received ==
  ASSUME TypeOK, received # <<>>
  PROVE  /\ Tail(received) \in Seq(Packets)
         /\ Head(received)[1] = "join" => Head(received)[2] \in Clients
         /\ Head(received)[1] = "gone" => Head(received)[2] \in Slots
<1>1. received \in Seq(Packets)
  BY DEF TypeOK
<1>2. Head(received) \in Packets /\ Tail(received) \in Seq(Packets)
  BY <1>1, HeadTailProperties
<1> QED BY <1>2 DEF Packets

\* The start of a join keeps the types.
LEMMA TypeBeginJoin ==
  ASSUME TypeOK, PlayersHaveSlots, SlotsAgree, BeginJoin
  PROVE  TypeOK'
<1> DEFINE c == Head(received)[2]
<1>1. /\ c \in Clients
      /\ received' \in Seq(Packets)
  BY Received DEF BeginJoin
<1>2. CASE IsWelcome(c)
  <2>1. c \in Clients /\ IsPlaying(c)
    BY <1>2, ConnectedArePlaying DEF IsWelcome
  <2>2. SlotOf(c) \in Slots
    BY <2>1, SlotOfPlayer
  <2> HIDE DEF c
  <2>3. joining' = <<c, SlotOf(c)>>
    BY <1>2 DEF BeginJoin, c
  <2> QED BY <1>1, <2>2, <2>3 DEF BeginJoin, TypeOK, clientVars
<1>3. CASE ~IsWelcome(c)
  BY <1>1, <1>3 DEF BeginJoin, TypeOK, clientVars
<1> QED BY <1>2, <1>3

\* What Sends adds to the mail of every client.
LEMMA TypeSends ==
  ASSUME TypeOK, NEW calls, \A d \in Clients : calls[d] \in Seq(Calls), Sends(calls)
  PROVE  toClient' \in [Clients -> Seq(Calls)]
<1>1. toClient \in [Clients -> Seq(Calls)]
  BY DEF TypeOK
<1>2. ASSUME NEW d \in Clients
      PROVE  toClient[d] \o calls[d] \in Seq(Calls)
  BY <1>1, ConcatProperties
<1> QED BY <1>1, <1>2 DEF Sends

\* What SendPlayerPoolToPlayer sends is a sequence of calls.
LEMMA PoolCallsType ==
  ASSUME NEW i \in Slots,
         NEW pool \in [Entries -> Clients \cup {Nobody}],
         NEW order \in Ascending(OtherEntries(pool, i))
  PROVE  PoolCalls(pool, order) \in Seq(Calls)
<1> DEFINE S == OtherEntries(pool, i)
<1>1. IsFiniteSet(S) /\ S \subseteq Entries
  BY ConstantFacts, FS_Subset DEF OtherEntries
<1>2. Cardinality(S) \in Nat
  BY <1>1, FS_CardinalityType
<1>3. order \in [1..Cardinality(S) -> S]
  BY DEF Ascending
<1> HIDE DEF S
<1>4. ASSUME NEW k \in 1..Cardinality(S)
      PROVE  ServerJoin(order[k], pool[order[k]]) \in Calls
  <2>1. order[k] \in Entries
    BY <1>1, <1>3
  <2> QED BY <2>1 DEF ServerJoin, Calls
<1>5. PoolCalls(pool, order) \in [1..Cardinality(S) -> Calls]
  BY <1>3, <1>4 DEF PoolCalls
<1> QED BY <1>2, <1>5, SeqDef

\* The calls of a join are sequences of calls.
LEMMA TypeJoinCalls ==
  ASSUME NEW c \in Clients, NEW i \in Slots, NEW d \in Clients,
         NEW pool \in [Entries -> Clients \cup {Nobody}],
         NEW order \in Ascending(OtherEntries(pool, i))
  PROVE  JoinCalls(d, c, i, pool, order) \in Seq(Calls)
<1>1. i \in Entries
  BY ConstantFacts
<1>2. InitGame(i) \in Calls /\ ServerJoin(i, c) \in Calls
  BY <1>1 DEF InitGame, ServerJoin, Calls
<1>3. PoolCalls(pool, order) \in Seq(Calls)
  BY PoolCallsType
<1>4. <<InitGame(i)>> \in Seq(Calls) /\ <<ServerJoin(i, c)>> \in Seq(Calls)
      /\ <<>> \in Seq(Calls)
  BY <1>2
<1>5. Welcome(i, pool, order) \in Seq(Calls)
  BY <1>3, <1>4, ConcatProperties DEF Welcome, WelcomeIndex
<1> HIDE DEF Calls
<1>6. (IF d # c THEN <<ServerJoin(i, c)>> ELSE <<>>) \in Seq(Calls)
  BY <1>4
<1>7. (IF d = GetPlayerIDFromIndex(i) THEN Welcome(i, pool, order) ELSE <<>>)
        \in Seq(Calls)
  BY <1>4, <1>5
<1> QED BY <1>6, <1>7, ConcatProperties DEF JoinCalls

\* What FinishJoin does, with the choice of the order made.
LEMMA FinishJoinFacts ==
  ASSUME TypeOK, FinishJoin
  PROVE  \E c \in Clients, i \in Slots :
           /\ joining = <<c, i>>
           /\ playerPool' = [playerPool EXCEPT ![playerCount] = c]
           /\ playerPool' \in [Entries -> Clients \cup {Nobody}]
           /\ playerCount' = playerCount + 1
           /\ \E order \in Ascending(OtherEntries(playerPool', i)) :
                Sends([d \in Clients |-> JoinCalls(d, c, i, playerPool', order)])
<1>1. PICK c \in Clients, i \in Slots : joining = <<c, i>>
  BY DEF TypeOK, FinishJoin
<1>2. joining[1] = c /\ joining[2] = i
  BY <1>1
<1>3. /\ AddPlayerToPool(c, i)
      /\ \E order \in Ascending(OtherEntries(playerPool', i)) :
           Sends([d \in Clients |-> JoinCalls(d, c, i, playerPool', order)])
  BY <1>2 DEF FinishJoin
<1>4. playerPool' \in [Entries -> Clients \cup {Nobody}]
  BY <1>3 DEF AddPlayerToPool, TypeOK
<1> QED BY <1>1, <1>3, <1>4 DEF AddPlayerToPool

\* The calls of a join keep the types.
LEMMA TypeFinishJoin ==
  ASSUME TypeOK, FinishJoin
  PROVE  TypeOK'
<1>1. PICK c \in Clients, i \in Slots :
        /\ playerPool' \in [Entries -> Clients \cup {Nobody}]
        /\ playerCount' = playerCount + 1
        /\ \E order \in Ascending(OtherEntries(playerPool', i)) :
             Sends([d \in Clients |-> JoinCalls(d, c, i, playerPool', order)])
  BY FinishJoinFacts
<1>2. PICK order \in Ascending(OtherEntries(playerPool', i)) :
        Sends([d \in Clients |-> JoinCalls(d, c, i, playerPool', order)])
  BY <1>1
<1> DEFINE calls == [d \in Clients |-> JoinCalls(d, c, i, playerPool', order)]
<1>3. \A d \in Clients : calls[d] \in Seq(Calls)
  BY <1>1, TypeJoinCalls
<1>4. Sends(calls)
  BY <1>2
<1> HIDE DEF calls
<1>5. toClient' \in [Clients -> Seq(Calls)]
  BY <1>3, <1>4, TypeSends
<1>6. playerCount' \in Nat
  BY <1>1 DEF TypeOK
<1> QED BY <1>1, <1>5, <1>6 DEF TypeOK, FinishJoin, clientVars

\* The entries in use are finitely many; none is in use when the count is zero.
LEMMA TakenIsFinite ==
  /\ IsFiniteSet(Taken)
  /\ Cardinality(Taken) \in Nat
BY ConstantFacts, FS_Subset, FS_CardinalityType DEF Taken

\* A leave that is handled keeps the types: the count does not go below zero.
LEMMA TypeHandleGone ==
  ASSUME TypeOK, CountCovers, HandleGone
  PROVE  TypeOK'
<1> DEFINE i == Head(received)[2]
           calls == [d \in Clients |-> IF d \in QuitHearers(i)
                                       THEN <<ServerQuit(i)>> ELSE <<>>]
<1>1. i \in Slots /\ received' \in Seq(Packets)
  BY Received DEF HandleGone
<1>2. i \in Entries
  BY <1>1, ConstantFacts
<1>3. CASE IsInPool(i)
  <2>1. /\ playerPool' = [playerPool EXCEPT ![i] = Nobody]
        /\ playerCount' = playerCount - 1
        /\ Sends(calls)
    BY <1>3 DEF HandleGone
  <2>2. ServerQuit(i) \in Calls
    BY <1>2 DEF ServerQuit, Calls
  <2>3. \A d \in Clients : calls[d] \in Seq(Calls)
    <3> HIDE DEF i
    <3>1. <<ServerQuit(i)>> \in Seq(Calls) /\ <<>> \in Seq(Calls)
      BY <2>2
    <3> QED BY <3>1
  <2> HIDE DEF calls, i
  <2>4. toClient' \in [Clients -> Seq(Calls)]
    BY <2>1, <2>3, TypeSends
  <2>5. playerPool' \in [Entries -> Clients \cup {Nobody}]
    BY <2>1 DEF TypeOK
  <2>6. playerCount' \in Nat
    <3>1. i \in Taken
      BY <1>2, <1>3 DEF IsInPool, Taken
    <3>2. Cardinality(Taken) # 0
      BY <3>1, TakenIsFinite, FS_EmptySet
    <3> QED BY <2>1, <3>2, TakenIsFinite DEF CountCovers, TypeOK
  <2> QED BY <1>1, <2>4, <2>5, <2>6 DEF TypeOK, HandleGone, clientVars
<1>4. CASE ~IsInPool(i)
  <2>1. UNCHANGED <<playerPool, playerCount, toClient>>
    BY <1>4 DEF HandleGone
  <2> QED BY <1>1, <2>1 DEF TypeOK, HandleGone, clientVars
<1> QED BY <1>3, <1>4
-----------------------------------------------------------------------------
(* The other parts of the invariant, one lemma for each action.            *)

\* The parts about slots and mail depend on these variables alone.
slotVars == <<session, remote, toClient, g_myPlayerID>>

SlotInv == NewGotNothing /\ PlayersHaveSlots /\ SlotsAgree /\ LastUserLeft

\* What leaves the slots and the mail alone keeps the facts about slots.
LEMMA SlotsUnchanged ==
  ASSUME SlotInv, UNCHANGED slotVars
  PROVE  SlotInv'
<1> USE DEF slotVars, SlotInv
<1>1. NewGotNothing'
  BY DEF NewGotNothing
<1>2. PlayersHaveSlots'
  BY DEF PlayersHaveSlots, IsPlaying
<1>3. SlotsAgree'
  BY DEF SlotsAgree, IsPlaying
<1>4. LastUserLeft'
  BY DEF LastUserLeft
<1> QED BY <1>1, <1>2, <1>3, <1>4

\* More mail changes nothing if it goes to those who have a slot and tells
\* none of them another number than its slot's.
LEMMA MailKeepsSlots ==
  ASSUME TypeOK, SlotInv, UNCHANGED <<session, remote, g_myPlayerID>>,
         NEW calls, \A d \in Clients : calls[d] \in Seq(Calls), Sends(calls),
         \A j \in Slots : remote[j].active =>
           \A k \in DOMAIN calls[remote[j].client] :
             calls[remote[j].client][k].call = "InitGame" =>
               calls[remote[j].client][k].index = j
  PROVE  SlotInv'
<1>1. Connected = {d \in Clients : IsPlaying(d)}
  BY ConnectedArePlaying DEF SlotInv
<1>2. toClient \in [Clients -> Seq(Calls)]
  BY DEF TypeOK
<1>3. NewGotNothing'
  <2> SUFFICES ASSUME NEW d \in Clients, session'[d] = "new"
               PROVE  toClient'[d] = <<>>
    BY DEF NewGotNothing
  <2>1. d \notin Connected
    BY <1>1 DEF IsPlaying
  <2> QED BY <2>1 DEF Sends, NewGotNothing, SlotInv
<1>4. PlayersHaveSlots' /\ LastUserLeft'
  BY DEF SlotInv, PlayersHaveSlots, LastUserLeft, IsPlaying
<1>5. SlotsAgree'
  <2> SUFFICES ASSUME NEW j \in Slots, remote[j].active
               PROVE  /\ IsPlaying(remote[j].client)'
                      /\ remote[j].client \in Clients
                      /\ g_myPlayerID[remote[j].client] = j
                      /\ \A k \in DOMAIN toClient'[remote[j].client] :
                           toClient'[remote[j].client][k].call = "InitGame" =>
                             toClient'[remote[j].client][k].index = j
    BY DEF SlotsAgree
  <2> DEFINE d == remote[j].client
  <2>1. /\ IsPlaying(d) /\ d \in Clients /\ g_myPlayerID[d] = j
        /\ \A k \in DOMAIN toClient[d] :
             toClient[d][k].call = "InitGame" => toClient[d][k].index = j
    BY DEF SlotsAgree, SlotInv
  <2>2. \A k \in DOMAIN calls[d] :
          calls[d][k].call = "InitGame" => calls[d][k].index = j
    OBVIOUS
  <2>3. d \in Connected
    BY <1>1, <2>1
  <2>4. d' = d /\ (IsPlaying(d)' <=> IsPlaying(d))
    BY DEF IsPlaying
  <2> HIDE DEF d
  <2>5. toClient'[d] = toClient[d] \o calls[d]
    BY <2>1, <2>3 DEF Sends
  <2>6. ASSUME NEW k \in DOMAIN toClient'[d], toClient'[d][k].call = "InitGame"
        PROVE  toClient'[d][k].index = j
    <3>1. \/ \E n \in DOMAIN toClient[d] : toClient'[d][k] = toClient[d][n]
          \/ \E n \in DOMAIN calls[d] : toClient'[d][k] = calls[d][n]
      BY <1>2, <2>1, <2>5, ConcatElements, SMTT(40)
    <3> QED BY <2>1, <2>2, <2>6, <3>1
  <2> QED BY <2>1, <2>4, <2>6 DEF d
<1> QED BY <1>3, <1>4, <1>5 DEF SlotInv

\* A new client takes a slot nobody is active in, and has no mail.
LEMMA SlotsConnect ==
  ASSUME TypeOK, SlotInv, NEW c \in Clients, Connect(c)
  PROVE  SlotInv'
<1>1. PICK i \in Slots : ConnectAt(c, i)
  BY DEF Connect
<1>2. /\ session[c] = "new" /\ ~remote[i].active
      /\ session' = [session EXCEPT ![c] = "connected"]
      /\ remote' = [remote EXCEPT
           ![i] = [client |-> c, mode |-> "HANDLING_CONNECTION_REQUEST",
                   active |-> TRUE]]
      /\ g_myPlayerID' = [g_myPlayerID EXCEPT ![c] = i]
      /\ toClient' = toClient
  BY <1>1 DEF ConnectAt
<1>3. toClient[c] = <<>>
  BY <1>2 DEF SlotInv, NewGotNothing
<1>4. /\ \A j \in Slots : j # i => remote'[j] = remote[j]
      /\ remote'[i].client = c /\ remote'[i].active
  BY <1>2 DEF TypeOK
<1>5. \A d \in Clients : d # c => /\ session'[d] = session[d]
                                  /\ g_myPlayerID'[d] = g_myPlayerID[d]
  BY <1>2 DEF TypeOK
<1>6. session'[c] = "connected" /\ g_myPlayerID'[c] = i
  BY <1>2 DEF TypeOK
<1>7. NewGotNothing'
  BY <1>2, <1>5, <1>6 DEF NewGotNothing, SlotInv
<1>8. PlayersHaveSlots'
  <2> SUFFICES ASSUME NEW d \in Clients, session'[d] = "connected"
               PROVE  \E j \in Slots : remote'[j].active /\ remote'[j].client = d
    BY DEF PlayersHaveSlots, IsPlaying
  <2>1. CASE d = c
    BY <1>4, <2>1
  <2>2. CASE d # c
    <3>1. PICK j \in Slots : remote[j].active /\ remote[j].client = d
      BY <1>5, <2>2 DEF SlotInv, PlayersHaveSlots, IsPlaying
    <3> QED BY <1>2, <1>4, <3>1
  <2> QED BY <2>1, <2>2
<1>9. SlotsAgree'
  <2> SUFFICES ASSUME NEW j \in Slots, remote'[j].active
               PROVE  /\ IsPlaying(remote[j].client)'
                      /\ remote'[j].client \in Clients
                      /\ g_myPlayerID'[remote'[j].client] = j
                      /\ \A k \in DOMAIN toClient'[remote'[j].client] :
                           toClient'[remote'[j].client][k].call = "InitGame" =>
                             toClient'[remote'[j].client][k].index = j
    BY DEF SlotsAgree
  <2>1. CASE j = i
    BY <1>2, <1>3, <1>4, <1>6, <2>1 DEF IsPlaying
  <2>2. CASE j # i
    <3>1. /\ remote'[j] = remote[j] /\ remote[j].active
          /\ session[remote[j].client] = "connected"
          /\ remote[j].client \in Clients
          /\ g_myPlayerID[remote[j].client] = j
          /\ \A k \in DOMAIN toClient[remote[j].client] :
               toClient[remote[j].client][k].call = "InitGame" =>
                 toClient[remote[j].client][k].index = j
      BY <1>4, <2>2 DEF SlotInv, SlotsAgree, IsPlaying
    <3>2. remote[j].client # c
      BY <1>2, <3>1
    <3> QED BY <1>2, <1>5, <3>1, <3>2 DEF IsPlaying
  <2> QED BY <2>1, <2>2
<1>10. LastUserLeft'
  <2> SUFFICES ASSUME NEW j \in Slots, ~remote'[j].active,
                      remote'[j].client # Nobody
               PROVE  session'[remote'[j].client] = "left"
    BY DEF LastUserLeft
  <2>1. j # i /\ remote'[j] = remote[j]
    BY <1>4
  <2>2. session[remote[j].client] = "left"
    BY <2>1 DEF SlotInv, LastUserLeft
  <2>3. remote[j].client \in Clients
    BY <2>1 DEF TypeOK, RemoteSystems
  <2> QED BY <1>2, <1>5, <2>1, <2>2, <2>3
<1> QED BY <1>7, <1>8, <1>9, <1>10 DEF SlotInv

\* A message to the server changes no user of a slot.
LEMMA SlotsServerReceives ==
  ASSUME TypeOK, SlotInv, NEW c \in Clients, ServerReceives(c)
  PROVE  SlotInv'
<1>1. UNCHANGED <<session, toClient, g_myPlayerID>>
  BY DEF ServerReceives, clientVars
<1>2. remote' = remote \/ remote' = [remote EXCEPT ![SlotOf(c)].mode = "CONNECTED"]
  BY DEF ServerReceives
<1>3. ASSUME NEW j \in Slots
      PROVE  remote'[j].active = remote[j].active /\ remote'[j].client = remote[j].client
  <2>1. remote \in [Slots -> RemoteSystems] /\ remote[j] \in RemoteSystems
    BY DEF TypeOK
  <2> QED BY <1>2, <2>1 DEF RemoteSystems
<1>4. NewGotNothing'
  BY <1>1 DEF NewGotNothing, SlotInv
<1>5. PlayersHaveSlots'
  BY <1>1, <1>3 DEF PlayersHaveSlots, SlotInv, IsPlaying
<1>6. SlotsAgree'
  BY <1>1, <1>3 DEF SlotsAgree, SlotInv, IsPlaying
<1>7. LastUserLeft'
  BY <1>1, <1>3 DEF LastUserLeft, SlotInv
<1> QED BY <1>4, <1>5, <1>6, <1>7 DEF SlotInv

\* The client that leaves is the last user of its slot, and loses its mail.
LEMMA SlotsLeave ==
  ASSUME TypeOK, SlotInv, NEW c \in Clients, Leave(c)
  PROVE  SlotInv'
<1> DEFINE i == SlotOf(c)
<1>1. /\ i \in Slots /\ remote[i].active /\ remote[i].client = c
      /\ \A j \in Slots : remote[j].active /\ remote[j].client = c => j = i
  BY SlotOfPlayer DEF SlotInv, Leave
<1>2. /\ session' = [session EXCEPT ![c] = "left"]
      /\ remote' = [remote EXCEPT ![i].active = FALSE]
      /\ toClient' = [toClient EXCEPT ![c] = <<>>]
      /\ g_myPlayerID' = g_myPlayerID
  BY DEF Leave, clientVars
<1> HIDE DEF i
<1>3. /\ \A j \in Slots : j # i => remote'[j] = remote[j]
      /\ remote'[i].client = c /\ ~remote'[i].active
  <2>1. remote \in [Slots -> RemoteSystems] /\ remote[i] \in RemoteSystems
    BY <1>1 DEF TypeOK
  <2> QED BY <1>1, <1>2, <2>1 DEF RemoteSystems
<1>4. /\ session'[c] = "left" /\ toClient'[c] = <<>>
      /\ \A d \in Clients : d # c => /\ session'[d] = session[d]
                                     /\ toClient'[d] = toClient[d]
  BY <1>2 DEF TypeOK
<1>5. NewGotNothing'
  BY <1>4 DEF NewGotNothing, SlotInv
<1>6. PlayersHaveSlots'
  <2> SUFFICES ASSUME NEW d \in Clients, session'[d] = "connected"
               PROVE  \E j \in Slots : remote'[j].active /\ remote'[j].client = d
    BY DEF PlayersHaveSlots, IsPlaying
  <2>1. d # c /\ session[d] = "connected"
    BY <1>4
  <2>2. PICK j \in Slots : remote[j].active /\ remote[j].client = d
    BY <2>1 DEF SlotInv, PlayersHaveSlots, IsPlaying
  <2> QED BY <1>1, <1>3, <2>1, <2>2
<1>7. SlotsAgree'
  <2> SUFFICES ASSUME NEW j \in Slots, remote'[j].active
               PROVE  /\ IsPlaying(remote[j].client)'
                      /\ remote'[j].client \in Clients
                      /\ g_myPlayerID'[remote'[j].client] = j
                      /\ \A k \in DOMAIN toClient'[remote'[j].client] :
                           toClient'[remote'[j].client][k].call = "InitGame" =>
                             toClient'[remote'[j].client][k].index = j
    BY DEF SlotsAgree
  <2>1. j # i /\ remote'[j] = remote[j] /\ remote[j].active
    BY <1>3
  <2>2. /\ session[remote[j].client] = "connected"
        /\ remote[j].client \in Clients
        /\ g_myPlayerID[remote[j].client] = j
        /\ \A k \in DOMAIN toClient[remote[j].client] :
             toClient[remote[j].client][k].call = "InitGame" =>
               toClient[remote[j].client][k].index = j
    BY <2>1 DEF SlotInv, SlotsAgree, IsPlaying
  <2>3. remote[j].client # c
    BY <1>1, <2>1
  <2> QED BY <1>2, <1>4, <2>1, <2>2, <2>3 DEF IsPlaying
<1>8. LastUserLeft'
  <2> SUFFICES ASSUME NEW j \in Slots, ~remote'[j].active,
                      remote'[j].client # Nobody
               PROVE  session'[remote'[j].client] = "left"
    BY DEF LastUserLeft
  <2>1. CASE j = i
    BY <1>3, <1>4, <2>1
  <2>2. CASE j # i
    <3>1. remote'[j] = remote[j] /\ session[remote[j].client] = "left"
      BY <1>3, <2>2 DEF SlotInv, LastUserLeft
    <3>2. remote[j].client \in Clients
      BY <3>1 DEF TypeOK, RemoteSystems
    <3> QED BY <1>4, <3>1, <3>2
  <2> QED BY <2>1, <2>2
<1> QED BY <1>5, <1>6, <1>7, <1>8 DEF SlotInv

\* The one call of InitGame in a join goes to the client in the slot, or, if
\* nobody is there any more, to a client that has left.
LEMMA JoinCallsIndex ==
  ASSUME TypeOK, SlotInv, NEW c \in Clients, NEW i \in Slots,
         NEW pool \in [Entries -> Clients \cup {Nobody}],
         NEW order \in Ascending(OtherEntries(pool, i)),
         NEW j \in Slots, remote[j].active,
         NEW k \in DOMAIN JoinCalls(remote[j].client, c, i, pool, order),
         JoinCalls(remote[j].client, c, i, pool, order)[k].call = "InitGame"
  PROVE  JoinCalls(remote[j].client, c, i, pool, order)[k].index = j
<1> DEFINE d == remote[j].client
           news == IF d # c THEN <<ServerJoin(i, c)>> ELSE <<>>
           own == IF d = GetPlayerIDFromIndex(i) THEN Welcome(i, pool, order)
                                                 ELSE <<>>
<1>1. d \in Clients /\ session[d] = "connected" /\ g_myPlayerID[d] = j
  BY DEF SlotInv, SlotsAgree, IsPlaying
<1>2. i \in Entries
  BY ConstantFacts
<1>3. InitGame(i) \in Calls /\ ServerJoin(i, c) \in Calls
  BY <1>2 DEF InitGame, ServerJoin, Calls
<1>4. news \in Seq(Calls) /\ \A n \in DOMAIN news : news[n].call = "ServerJoin"
  <2> HIDE DEF d
  <2> QED BY <1>3 DEF ServerJoin
<1>5. PoolCalls(pool, order) \in Seq(Calls)
  BY PoolCallsType
<1>6. own \in Seq(Calls)
  <2>1. Welcome(i, pool, order) \in Seq(Calls)
    BY <1>3, <1>5, ConcatProperties DEF Welcome, WelcomeIndex
  <2> HIDE DEF d
  <2> QED BY <2>1
<1>7. ASSUME NEW n \in DOMAIN own, own[n].call = "InitGame"
      PROVE  own[n].index = j
  <2>1. d = GetPlayerIDFromIndex(i) /\ own = Welcome(i, pool, order)
    <3>1. DOMAIN <<>> = {}
      OBVIOUS
    <3> HIDE DEF d
    <3> QED BY <1>7, <3>1
  <2>2. remote[i].client = d
    <3> HIDE DEF d
    <3> QED BY <1>1, <2>1, ConstantFacts DEF GetPlayerIDFromIndex
  <2>3. i = j
    <3>1. CASE remote[i].active
      BY <1>1, <2>2, <3>1 DEF SlotInv, SlotsAgree
    <3>2. CASE ~remote[i].active
      BY <1>1, <2>2, <3>2, ConstantFacts DEF SlotInv, LastUserLeft
    <3> QED BY <3>1, <3>2
  <2>4. <<InitGame(i)>> \in Seq(Calls)
    BY <1>3
  <2>5. own = <<InitGame(i)>> \o PoolCalls(pool, order)
    BY <2>1 DEF Welcome, WelcomeIndex
  <2> HIDE DEF own
  <2>6. \/ \E x \in DOMAIN <<InitGame(i)>> : own[n] = <<InitGame(i)>>[x]
        \/ \E x \in DOMAIN PoolCalls(pool, order) : own[n] = PoolCalls(pool, order)[x]
    BY <1>5, <1>7, <2>4, <2>5, ConcatElements
  <2>7. own[n] = InitGame(i) \/ own[n].call = "ServerJoin"
    BY <2>6 DEF PoolCalls, ServerJoin
  <2> QED BY <1>7, <2>3, <2>7 DEF InitGame
<1>8. JoinCalls(remote[j].client, c, i, pool, order) = news \o own
  BY DEF JoinCalls
<1> HIDE DEF news, own, d
<1>9. \/ \E n \in DOMAIN news : (news \o own)[k] = news[n]
      \/ \E n \in DOMAIN own : (news \o own)[k] = own[n]
  BY <1>4, <1>6, <1>8, ConcatElements
<1> QED BY <1>4, <1>7, <1>8, <1>9

\* The index in the calls of a join is that of the client in the slot.
LEMMA SlotsFinishJoin ==
  ASSUME TypeOK, SlotInv, FinishJoin
  PROVE  SlotInv'
<1>1. PICK c \in Clients, i \in Slots :
        /\ playerPool' \in [Entries -> Clients \cup {Nobody}]
        /\ \E order \in Ascending(OtherEntries(playerPool', i)) :
             Sends([d \in Clients |-> JoinCalls(d, c, i, playerPool', order)])
  BY FinishJoinFacts
<1>2. PICK order \in Ascending(OtherEntries(playerPool', i)) :
        Sends([d \in Clients |-> JoinCalls(d, c, i, playerPool', order)])
  BY <1>1
<1> DEFINE calls == [d \in Clients |-> JoinCalls(d, c, i, playerPool', order)]
<1>3. \A d \in Clients : calls[d] \in Seq(Calls)
  BY <1>1, TypeJoinCalls
<1>4. Sends(calls)
  BY <1>2
<1>5. ASSUME NEW j \in Slots, remote[j].active,
             NEW k \in DOMAIN calls[remote[j].client],
             calls[remote[j].client][k].call = "InitGame"
      PROVE  calls[remote[j].client][k].index = j
  <2>1. remote[j].client \in Clients
    BY <1>5 DEF SlotInv, SlotsAgree
  <2>2. calls[remote[j].client] = JoinCalls(remote[j].client, c, i, playerPool', order)
    BY <2>1
  <2> HIDE DEF calls
  <2>3. JoinCalls(remote[j].client, c, i, playerPool', order)[k].index = j
    BY <1>1, <1>5, <2>2, JoinCallsIndex
  <2> QED BY <2>2, <2>3
<1>6. UNCHANGED <<session, remote, g_myPlayerID>>
  BY DEF FinishJoin, clientVars
<1> HIDE DEF calls
<1> QED BY <1>3, <1>4, <1>5, <1>6, MailKeepsSlots

\* The news of a leave tells no client its index.
LEMMA SlotsHandleGone ==
  ASSUME TypeOK, SlotInv, HandleGone
  PROVE  SlotInv'
<1> DEFINE i == Head(received)[2]
           calls == [d \in Clients |-> IF d \in QuitHearers(i)
                                       THEN <<ServerQuit(i)>> ELSE <<>>]
<1>1. UNCHANGED <<session, remote, g_myPlayerID>>
  BY DEF HandleGone, clientVars
<1>2. CASE IsInPool(i)
  <2>1. Sends(calls)
    BY <1>2 DEF HandleGone
  <2>2. i \in Entries
    BY Received, ConstantFacts DEF HandleGone
  <2>3. ServerQuit(i) \in Calls /\ ServerQuit(i).call = "ServerQuit"
    BY <2>2 DEF ServerQuit, Calls
  <2> HIDE DEF i
  <2>4. \A d \in Clients : calls[d] \in Seq(Calls)
    <3>1. <<ServerQuit(i)>> \in Seq(Calls) /\ <<>> \in Seq(Calls)
      BY <2>3
    <3> QED BY <3>1
  <2>5. ASSUME NEW j \in Slots, remote[j].active,
               NEW k \in DOMAIN calls[remote[j].client],
               calls[remote[j].client][k].call = "InitGame"
        PROVE  calls[remote[j].client][k].index = j
    <3>1. remote[j].client \in Clients
      BY <2>5 DEF SlotInv, SlotsAgree
    <3>2. \A d \in Clients : calls[d] = <<ServerQuit(i)>> \/ calls[d] = <<>>
      OBVIOUS
    <3> HIDE DEF calls
    <3>3. calls[remote[j].client][k] = ServerQuit(i)
      <4>1. CASE calls[remote[j].client] = <<ServerQuit(i)>>
        BY <2>5, <4>1
      <4>2. CASE calls[remote[j].client] = <<>>
        BY <2>5, <4>2
      <4> QED BY <3>1, <3>2, <4>1, <4>2
    <3> QED BY <2>3, <2>5, <3>3
  <2> HIDE DEF calls
  <2> QED BY <1>1, <2>1, <2>4, <2>5, MailKeepsSlots
<1>3. CASE ~IsInPool(i)
  <2>1. UNCHANGED <<session, remote, toClient, g_myPlayerID>>
    BY <1>1, <1>3 DEF HandleGone
  <2> QED BY <2>1, SlotsUnchanged DEF slotVars
<1> QED BY <1>2, <1>3

\* A call that reaches a client keeps the types.
LEMMA TypeClientReceives ==
  ASSUME TypeOK, NEW c \in Clients, ClientReceives(c)
  PROVE  TypeOK'
<1>1. PICK k \in DOMAIN toClient[c] :
        /\ toClient' = [toClient EXCEPT ![c] = RemoveAt(@, k)]
        /\ \/ Handle(c, toClient[c][k])
           \/ UNCHANGED clientVars
  BY DEF ClientReceives
<1> DEFINE m == toClient[c][k]
<1>2. toClient \in [Clients -> Seq(Calls)]
  BY DEF TypeOK
<1>3. toClient[c] \in Seq(Calls)
  BY <1>2
<1>4. m \in Calls
  BY <1>3, ElementOfSeq
<1>5. RemoveAt(toClient[c], k) \in Seq(Calls)
  BY <1>3, RemoveAtProperties
<1>6. toClient' \in [Clients -> Seq(Calls)]
  BY <1>1, <1>2, <1>5
<1>7. m.index \in Entries /\ m.name \in Clients \cup {Nobody}
  BY <1>4 DEF Calls
<1>8. /\ iGameInited' \in [Clients -> BOOLEAN]
      /\ g_myPlayerID' \in [Clients -> Entries]
      /\ playerInfo' \in [Clients -> [Entries -> Clients \cup {Nobody}]]
  <2>1. CASE UNCHANGED clientVars
    BY <2>1 DEF clientVars, TypeOK
  <2>2. CASE Handle(c, m)
    <3> HIDE DEF m
    <3>1. iGameInited' \in [Clients -> BOOLEAN]
      BY <2>2 DEF Handle, TypeOK
    <3>2. g_myPlayerID' \in [Clients -> Entries]
      BY <1>7, <2>2 DEF Handle, TypeOK
    <3>3. playerInfo' \in [Clients -> [Entries -> Clients \cup {Nobody}]]
      BY <1>7, <2>2 DEF Handle, TypeOK
    <3> QED BY <3>1, <3>2, <3>3
  <2> QED BY <1>1, <2>1, <2>2
<1>9. UNCHANGED <<session, serverVars, toServer>>
  BY DEF ClientReceives
<1> QED BY <1>6, <1>8, <1>9 DEF TypeOK, serverVars

\* A client takes its index from its own mail.
LEMMA SlotsClientReceives ==
  ASSUME TypeOK, SlotInv, NEW c \in Clients, ClientReceives(c)
  PROVE  SlotInv'
<1>1. PICK k \in DOMAIN toClient[c] :
        /\ toClient' = [toClient EXCEPT ![c] = RemoveAt(@, k)]
        /\ \/ Handle(c, toClient[c][k])
           \/ UNCHANGED clientVars
  BY DEF ClientReceives
<1>2. UNCHANGED <<session, remote>>
  BY DEF ClientReceives, serverVars
<1>3. toClient[c] \in Seq(Calls)
  BY DEF TypeOK
<1>4. toClient[c] # <<>>
  BY <1>1
<1>5. /\ \A d \in Clients : d # c => toClient'[d] = toClient[d]
      /\ toClient'[c] = RemoveAt(toClient[c], k)
  BY <1>1 DEF TypeOK
<1>6. \A n \in DOMAIN toClient'[c] :
        \E x \in DOMAIN toClient[c] : toClient'[c][n] = toClient[c][x]
  BY <1>3, <1>5, RemoveAtProperties
<1>7. /\ \A d \in Clients : d # c => g_myPlayerID'[d] = g_myPlayerID[d]
      /\ \/ g_myPlayerID'[c] = g_myPlayerID[c]
         \/ /\ toClient[c][k].call = "InitGame"
            /\ g_myPlayerID'[c] = toClient[c][k].index
  <2>1. CASE UNCHANGED clientVars
    BY <2>1 DEF clientVars
  <2>2. CASE Handle(c, toClient[c][k])
    BY <2>2 DEF Handle, TypeOK
  <2> QED BY <1>1, <2>1, <2>2
<1>8. NewGotNothing'
  BY <1>2, <1>4, <1>5 DEF NewGotNothing, SlotInv
<1>9. PlayersHaveSlots' /\ LastUserLeft'
  BY <1>2 DEF PlayersHaveSlots, LastUserLeft, IsPlaying, SlotInv
<1>10. SlotsAgree'
  <2> SUFFICES ASSUME NEW j \in Slots, remote[j].active, NEW d, d = remote[j].client
               PROVE  /\ session[d] = "connected" /\ d \in Clients
                      /\ g_myPlayerID'[d] = j
                      /\ \A n \in DOMAIN toClient'[d] :
                           toClient'[d][n].call = "InitGame" =>
                             toClient'[d][n].index = j
    BY <1>2 DEF SlotsAgree, IsPlaying
  <2>1. /\ session[d] = "connected" /\ d \in Clients
        /\ g_myPlayerID[d] = j
        /\ \A n \in DOMAIN toClient[d] :
             toClient[d][n].call = "InitGame" => toClient[d][n].index = j
    BY DEF SlotInv, SlotsAgree, IsPlaying
  <2>2. CASE d # c
    BY <1>5, <1>7, <2>1, <2>2
  <2>3. CASE d = c
    <3>1. g_myPlayerID'[c] = j
      BY <1>1, <1>7, <2>1, <2>3
    <3>2. \A n \in DOMAIN toClient'[c] :
            toClient'[c][n].call = "InitGame" => toClient'[c][n].index = j
      BY <1>6, <2>1, <2>3
    <3> QED BY <2>1, <2>3, <3>1, <3>2
  <2> QED BY <2>2, <2>3
<1> QED BY <1>8, <1>9, <1>10 DEF SlotInv
-----------------------------------------------------------------------------
(* The count of players.                                                   *)

\* The count covers the entries as long as neither changes.
LEMMA CountUnchanged ==
  ASSUME CountCovers, UNCHANGED <<playerPool, playerCount>>
  PROVE  CountCovers'
<1>1. Taken' = Taken
  BY DEF Taken
<1> QED BY <1>1 DEF CountCovers

\* At most one more entry is in use, and the count is one more.
LEMMA CountFinishJoin ==
  ASSUME TypeOK, CountCovers, FinishJoin
  PROVE  CountCovers'
<1>1. PICK c \in Clients :
        /\ playerPool' = [playerPool EXCEPT ![playerCount] = c]
        /\ playerCount' = playerCount + 1
  BY FinishJoinFacts
<1>2. Taken' \subseteq Taken \cup {playerCount}
  <2> SUFFICES ASSUME NEW p \in Entries, playerPool'[p] # Nobody, p # playerCount
               PROVE  playerPool[p] # Nobody
    BY DEF Taken
  <2> QED BY <1>1 DEF TypeOK
<1>3. /\ IsFiniteSet(Taken \cup {playerCount})
      /\ Cardinality(Taken \cup {playerCount}) <= Cardinality(Taken) + 1
  <2>1. /\ IsFiniteSet(Taken \cup {playerCount})
        /\ \/ Cardinality(Taken \cup {playerCount}) = Cardinality(Taken)
           \/ Cardinality(Taken \cup {playerCount}) = Cardinality(Taken) + 1
    BY TakenIsFinite, FS_AddElement, Zenon
  <2> QED BY <2>1, TakenIsFinite
<1>4. Cardinality(Taken') <= Cardinality(Taken \cup {playerCount})
  BY <1>2, <1>3, FS_Subset
<1>5. Cardinality(Taken') \in Nat /\ Cardinality(Taken \cup {playerCount}) \in Nat
  BY <1>2, <1>3, FS_Subset, FS_CardinalityType
<1> QED BY <1>1, <1>3, <1>4, <1>5, TakenIsFinite DEF CountCovers, TypeOK

\* One entry less is in use, and the count is one less.
LEMMA CountHandleGone ==
  ASSUME TypeOK, CountCovers, HandleGone
  PROVE  CountCovers'
<1> DEFINE i == Head(received)[2]
<1>1. i \in Entries
  BY Received, ConstantFacts DEF HandleGone
<1>2. CASE IsInPool(i)
  <2>1. /\ playerPool' = [playerPool EXCEPT ![i] = Nobody]
        /\ playerCount' = playerCount - 1
    BY <1>2 DEF HandleGone
  <2>2. i \in Taken
    BY <1>1, <1>2 DEF IsInPool, Taken
  <2> HIDE DEF i
  <2>3. Taken' = Taken \ {i}
    <3>1. \A p \in Entries : playerPool'[p] = IF p = i THEN Nobody ELSE playerPool[p]
      BY <2>1 DEF TypeOK
    <3> QED BY <3>1 DEF Taken
  <2>4. Cardinality(Taken \ {i}) = Cardinality(Taken) - 1
    BY <2>2, TakenIsFinite, FS_RemoveElement
  <2> QED BY <2>1, <2>3, <2>4, TakenIsFinite DEF CountCovers, TypeOK
<1>3. CASE ~IsInPool(i)
  BY <1>3, CountUnchanged DEF HandleGone
<1> QED BY <1>2, <1>3

\* Every step keeps the count at or above the entries in use.
LEMMA CountNext ==
  ASSUME TypeOK, CountCovers, [Next]_vars
  PROVE  CountCovers'
<1>1. CASE \E c \in Clients : Connect(c) \/ ServerReceives(c) \/ Leave(c) \/
                              ClientReceives(c)
  BY <1>1, CountUnchanged
     DEF Connect, ConnectAt, ServerReceives, Leave, ClientReceives, serverVars
<1>2. CASE BeginJoin
  BY <1>2, CountUnchanged DEF BeginJoin
<1>3. CASE FinishJoin
  BY <1>3, CountFinishJoin
<1>4. CASE HandleGone
  BY <1>4, CountHandleGone
<1>5. CASE UNCHANGED vars
  BY <1>5, CountUnchanged DEF vars, serverVars
<1> QED BY <1>1, <1>2, <1>3, <1>4, <1>5 DEF Next
-----------------------------------------------------------------------------
(* A client's entry about itself, when calls arrive in order.              *)

\* News about the player at index j: ServerJoin or ServerQuit.
IsNews(m, j) == m.call # "InitGame" /\ m.index = j

\* The client is in the game or will be once it has handled its mail.
Told(d) ==
  iGameInited[d] \/ \E k \in DOMAIN toClient[d] : toClient[d][k].call = "InitGame"

\* The client will handle no news about index j: it is not in the game yet, and
\* there is no InitGame before the news in its mail.
DropsNews(d, j) ==
  \A k \in DOMAIN toClient[d] : IsNews(toClient[d][k], j) =>
    /\ ~iGameInited[d]
    /\ \A n \in 1..k : toClient[d][n].call # "InitGame"

\* The join being handled is not that of an earlier client at index j.
NoOtherJoins(d, j) == joining = <<>> \/ joining[2] # j \/ joining[1] = d

\* Client d, in slot j, has its name there and keeps it.
KeepsEntry(j, d) ==
  /\ playerInfo[d][j] = d
  /\ DropsNews(d, j)
  /\ Told(d) => remote[j].mode = "CONNECTED" /\ NoOtherJoins(d, j)

OwnInv ==
  /\ \A c \in Clients : session[c] = "new" => ~iGameInited[c]
  /\ \A j \in Slots : remote[j].active => KeepsEntry(j, remote[j].client)

\* The rest of a sequence whose first element is taken out.
LEMMA RemoveOldest ==
  ASSUME NEW S, NEW s \in Seq(S), s # <<>>
  PROVE  /\ RemoveAt(s, 1) \in Seq(S)
         /\ Len(s) \in Nat \ {0}
         /\ DOMAIN RemoveAt(s, 1) = 1..(Len(s) - 1)
         /\ \A k \in 1..(Len(s) - 1) : RemoveAt(s, 1)[k] = s[k + 1]
<1> DEFINE front == SubSeq(s, 1, 0)
           back == SubSeq(s, 2, Len(s))
<1>1. Len(s) \in Nat \ {0} /\ \A j \in 1..Len(s) : s[j] \in S
  BY EmptySeq, ElementOfSeq, LenProperties
<1>2. front \in Seq(S) /\ Len(front) = 0
  BY <1>1, SubSeqProperties
<1>3. /\ back \in Seq(S) /\ Len(back) = Len(s) - 1
      /\ \A j \in 1..(Len(s) - 1) : back[j] = s[j + 1]
  <2>1. \A j \in 2..Len(s) : s[j] \in S
    BY <1>1
  <2>2. /\ back \in Seq(S)
        /\ Len(back) = IF 2 <= Len(s) THEN Len(s) - 2 + 1 ELSE 0
        /\ \A j \in 1..(Len(s) - 2 + 1) : back[j] = s[2 + j - 1]
    BY <1>1, <2>1, SubSeqProperties
  <2> QED BY <1>1, <2>2
<1>4. RemoveAt(s, 1) = front \o back
  BY DEF RemoveAt
<1> HIDE DEF front, back
<1>5. /\ front \o back \in Seq(S)
      /\ Len(front \o back) = Len(front) + Len(back)
      /\ \A j \in 1..(Len(front) + Len(back)) :
           (front \o back)[j] = IF j <= Len(front) THEN front[j]
                                ELSE back[j - Len(front)]
  BY <1>2, <1>3, ConcatProperties
<1>6. /\ Len(front \o back) = Len(s) - 1
      /\ \A j \in 1..(Len(s) - 1) : (front \o back)[j] = back[j]
  BY <1>1, <1>2, <1>3, <1>5
<1>7. DOMAIN (front \o back) = 1..(Len(s) - 1)
  BY <1>5, <1>6
<1> HIDE DEF front, back
<1>8. \A j \in 1..(Len(s) - 1) : (front \o back)[j] = s[j + 1]
  BY <1>3, <1>6
<1> QED BY <1>1, <1>4, <1>5, <1>7, <1>8

\* Nothing that happens to others touches a client's entry.
LEMMA EntryUnchanged ==
  ASSUME NEW j \in Slots, NEW d \in Clients, KeepsEntry(j, d),
         toClient'[d] = toClient[d], iGameInited'[d] = iGameInited[d],
         playerInfo'[d][j] = d,
         \/ remote'[j].mode = remote[j].mode
         \/ remote'[j].mode = "CONNECTED",
         joining' = joining \/ NoOtherJoins(d, j)'
  PROVE  KeepsEntry(j, d)'
<1>1. DropsNews(d, j)'
  BY DEF KeepsEntry, DropsNews
<1>2. Told(d)' => Told(d)
  BY DEF Told
<1>3. Told(d)' => remote'[j].mode = "CONNECTED" /\ NoOtherJoins(d, j)'
  BY <1>2 DEF KeepsEntry, NoOtherJoins
<1> QED BY <1>1, <1>3 DEF KeepsEntry

\* More mail leaves a client's entry alone if news about its index is only sent
\* to one that has not been told to begin, before it is told.
LEMMA MailKeepsEntry ==
  ASSUME TypeOK, SlotInv, NEW j \in Slots, remote[j].active,
         NEW d, d = remote[j].client, KeepsEntry(j, d),
         NEW calls, calls[d] \in Seq(Calls), Sends(calls),
         UNCHANGED <<remote, iGameInited, playerInfo>>,
         \A k \in DOMAIN calls[d] : IsNews(calls[d][k], j) => ~Told(d) /\ k = 1,
         (\E k \in DOMAIN calls[d] : calls[d][k].call = "InitGame") =>
           remote[j].mode = "CONNECTED" /\ NoOtherJoins(d, j)',
         joining' = joining \/ NoOtherJoins(d, j)'
  PROVE  KeepsEntry(j, d)'
<1> DEFINE old == toClient[d]
           new == calls[d]
           all == old \o new
<1>1. d \in Clients /\ d \in Connected
  BY ConnectedArePlaying DEF SlotInv, SlotsAgree
<1>2. toClient'[d] = old \o new
  BY <1>1 DEF Sends
<1>3. old \in Seq(Calls) /\ new \in Seq(Calls)
  BY <1>1 DEF TypeOK
<1> HIDE DEF old, new
<1>4. /\ Len(old) \in Nat /\ Len(new) \in Nat
      /\ DOMAIN old = 1..Len(old) /\ DOMAIN new = 1..Len(new)
      /\ DOMAIN all = 1..(Len(old) + Len(new))
      /\ \A k \in DOMAIN all :
           \/ k \in DOMAIN old /\ all[k] = old[k]
           \/ /\ k - Len(old) \in DOMAIN new
              /\ all[k] = new[k - Len(old)]
  <2>1. /\ all \in Seq(Calls) /\ Len(all) = Len(old) + Len(new)
        /\ \A k \in 1..(Len(old) + Len(new)) :
             all[k] = IF k <= Len(old) THEN old[k] ELSE new[k - Len(old)]
    BY <1>3, ConcatProperties
  <2>2. Len(old) \in Nat /\ Len(new) \in Nat
    BY <1>3, LenProperties
  <2> HIDE DEF all
  <2>3. DOMAIN all = 1..(Len(old) + Len(new))
    BY <2>1
  <2>4. DOMAIN old = 1..Len(old) /\ DOMAIN new = 1..Len(new)
    BY <1>3
  <2> QED BY <2>1, <2>2, <2>3, <2>4
<1>2a. toClient'[d] = all
  BY <1>2 DEF old, new
<1> HIDE DEF all
<1>5. DropsNews(d, j)'
  <2> SUFFICES ASSUME NEW k \in DOMAIN all, IsNews(all[k], j)
               PROVE  /\ ~iGameInited[d]
                      /\ \A n \in 1..k : all[n].call # "InitGame"
    BY <1>2a DEF DropsNews
  <2>1. CASE k \in DOMAIN old /\ all[k] = old[k]
    <3>1. /\ ~iGameInited[d]
          /\ \A n \in 1..k : old[n].call # "InitGame"
      BY <2>1 DEF KeepsEntry, DropsNews, old
    <3>2. \A n \in 1..k : all[n] = old[n]
      <4>1. \A n \in 1..k : n \in DOMAIN all /\ n - Len(old) \notin DOMAIN new
        BY <1>4, <2>1
      <4> QED BY <1>4, <4>1
    <3> QED BY <3>1, <3>2
  <2>2. CASE k - Len(old) \in DOMAIN new /\ all[k] = new[k - Len(old)]
    <3>1. ~Told(d) /\ k - Len(old) = 1
      BY <2>2 DEF new
    <3>2. ~iGameInited[d] /\ \A n \in DOMAIN old : old[n].call # "InitGame"
      BY <3>1 DEF Told, old
    <3>3. ASSUME NEW n \in 1..k
          PROVE  all[n].call # "InitGame"
      <4>1. n \in DOMAIN all
        BY <1>4
      <4>2. CASE n \in DOMAIN old /\ all[n] = old[n]
        BY <3>2, <4>2
      <4>3. CASE n - Len(old) \in DOMAIN new /\ all[n] = new[n - Len(old)]
        <5>1. n = k
          BY <1>4, <3>1, <4>3
        <5> QED BY <5>1 DEF IsNews
      <4> QED BY <1>4, <4>1, <4>2, <4>3
    <3> QED BY <3>2, <3>3
  <2> QED BY <1>4, <2>1, <2>2
<1>6. ASSUME Told(d)'
      PROVE  remote'[j].mode = "CONNECTED" /\ NoOtherJoins(d, j)'
  <2>1. Told(d) \/ \E n \in DOMAIN new : new[n].call = "InitGame"
    <3>1. CASE iGameInited[d]
      BY <3>1 DEF Told
    <3>2. CASE \E k \in DOMAIN all : all[k].call = "InitGame"
      <4>1. PICK k \in DOMAIN all : all[k].call = "InitGame"
        BY <3>2
      <4> QED BY <1>4, <4>1 DEF Told, old
    <3> QED BY <1>2a, <1>6, <3>1, <3>2 DEF Told
  <2>2. CASE Told(d)
    BY <2>2 DEF KeepsEntry, NoOtherJoins
  <2>3. CASE \E n \in DOMAIN new : new[n].call = "InitGame"
    BY <2>3 DEF new
  <2> QED BY <2>1, <2>2, <2>3
<1>7. playerInfo'[d][j] = d
  BY DEF KeepsEntry
<1> QED BY <1>5, <1>6, <1>7 DEF KeepsEntry

\* A new client has no mail and no join being handled.
LEMMA OwnConnect ==
  ASSUME TypeOK, SlotInv, OwnInv, NEW c \in Clients, Connect(c)
  PROVE  OwnInv'
<1>1. PICK i \in Slots : ConnectAt(c, i)
  BY DEF Connect
<1>2. /\ session[c] = "new" /\ ~remote[i].active
      /\ session' = [session EXCEPT ![c] = "connected"]
      /\ remote' = [remote EXCEPT
           ![i] = [client |-> c, mode |-> "HANDLING_CONNECTION_REQUEST",
                   active |-> TRUE]]
      /\ playerInfo' = [playerInfo EXCEPT ![c][i] = c]
      /\ UNCHANGED <<toClient, joining, iGameInited>>
  BY <1>1 DEF ConnectAt
<1>3. toClient[c] = <<>> /\ ~iGameInited[c]
  BY <1>2 DEF SlotInv, NewGotNothing, OwnInv
<1>4. \A e \in Clients : session'[e] = "new" => ~iGameInited'[e]
  BY <1>2 DEF TypeOK, OwnInv
<1>5. ASSUME NEW j \in Slots, remote'[j].active, NEW d, d = remote'[j].client
      PROVE  KeepsEntry(j, d)'
  <2>1. CASE j = i
    <3>1. d = c
      BY <1>2, <1>5, <2>1 DEF TypeOK
    <3>2. playerInfo'[d][j] = d
      <4>1. i \in Entries
        BY ConstantFacts
      <4> QED BY <1>2, <2>1, <3>1, <4>1 DEF TypeOK
    <3>3. DropsNews(d, j)' /\ ~Told(d)'
      BY <1>2, <1>3, <3>1 DEF DropsNews, Told
    <3> QED BY <3>2, <3>3 DEF KeepsEntry
  <2>2. CASE j # i
    <3>1. remote'[j] = remote[j] /\ remote[j].active /\ d = remote[j].client
      BY <1>2, <1>5, <2>2 DEF TypeOK
    <3>2. d \in Clients /\ session[d] = "connected" /\ d # c
      BY <1>2, <3>1 DEF SlotInv, SlotsAgree, IsPlaying
    <3>3. KeepsEntry(j, d)
      BY <3>1 DEF OwnInv
    <3>4. playerInfo'[d][j] = d
      BY <1>2, <3>2, <3>3 DEF TypeOK, KeepsEntry
    <3> QED BY <1>2, <3>1, <3>2, <3>3, <3>4, EntryUnchanged
  <2> QED BY <2>1, <2>2
<1> QED BY <1>4, <1>5 DEF OwnInv

\* A message to the server changes neither mail nor joins.
LEMMA OwnServerReceives ==
  ASSUME TypeOK, SlotInv, OwnInv, NEW c \in Clients, ServerReceives(c)
  PROVE  OwnInv'
<1>1. UNCHANGED <<session, joining, toClient, iGameInited, playerInfo>>
  BY DEF ServerReceives, clientVars
<1>2. remote' = remote \/ remote' = [remote EXCEPT ![SlotOf(c)].mode = "CONNECTED"]
  BY DEF ServerReceives
<1>3. ASSUME NEW j \in Slots
      PROVE  /\ remote'[j].active = remote[j].active
             /\ remote'[j].client = remote[j].client
             /\ \/ remote'[j].mode = remote[j].mode
                \/ remote'[j].mode = "CONNECTED"
  <2>1. remote \in [Slots -> RemoteSystems] /\ remote[j] \in RemoteSystems
    BY DEF TypeOK
  <2> QED BY <1>2, <2>1 DEF RemoteSystems
<1>4. ASSUME NEW j \in Slots, remote'[j].active, NEW d, d = remote'[j].client
      PROVE  KeepsEntry(j, d)'
  <2>1. remote[j].active /\ d = remote[j].client /\ d \in Clients
    BY <1>3, <1>4 DEF SlotInv, SlotsAgree
  <2>2. KeepsEntry(j, d) /\ playerInfo[d][j] = d
    BY <2>1 DEF OwnInv, KeepsEntry
  <2> QED BY <1>1, <1>3, <2>1, <2>2, EntryUnchanged
<1> QED BY <1>1, <1>4 DEF OwnInv

\* A client that leaves has no mail left.
LEMMA OwnLeave ==
  ASSUME TypeOK, SlotInv, OwnInv, NEW c \in Clients, Leave(c)
  PROVE  OwnInv'
<1> DEFINE i == SlotOf(c)
<1>1. i \in Slots /\ remote[i].active /\ remote[i].client = c
  BY SlotOfPlayer DEF SlotInv, Leave
<1>2. /\ session' = [session EXCEPT ![c] = "left"]
      /\ remote' = [remote EXCEPT ![i].active = FALSE]
      /\ toClient' = [toClient EXCEPT ![c] = <<>>]
      /\ UNCHANGED <<joining, iGameInited, playerInfo>>
  BY DEF Leave, clientVars
<1>3. \A j \in Slots : remote[j].active /\ remote[j].client = c => j = i
  BY SlotOfPlayer DEF SlotInv, Leave
<1> HIDE DEF i
<1>4. /\ ~remote'[i].active
      /\ \A j \in Slots : j # i => remote'[j] = remote[j]
  <2>1. remote \in [Slots -> RemoteSystems] /\ remote[i] \in RemoteSystems
    BY <1>1 DEF TypeOK
  <2> QED BY <1>1, <1>2, <2>1 DEF RemoteSystems
<1>5. ASSUME NEW j \in Slots, remote'[j].active, NEW d, d = remote'[j].client
      PROVE  KeepsEntry(j, d)'
  <2>1. remote'[j] = remote[j] /\ remote[j].active /\ d = remote[j].client
    BY <1>4, <1>5
  <2>2. d \in Clients /\ d # c
    BY <1>3, <1>4, <1>5, <2>1 DEF SlotInv, SlotsAgree
  <2>3. KeepsEntry(j, d) /\ playerInfo[d][j] = d
    BY <2>1 DEF OwnInv, KeepsEntry
  <2>4. toClient'[d] = toClient[d]
    BY <1>2, <2>2 DEF TypeOK
  <2> QED BY <1>2, <2>1, <2>2, <2>3, <2>4, EntryUnchanged
<1>6. \A e \in Clients : session'[e] = "new" => ~iGameInited'[e]
  BY <1>2 DEF TypeOK, OwnInv
<1> QED BY <1>5, <1>6 DEF OwnInv

\* A join that begins is that of the client that is in the slot now.
LEMMA OwnBeginJoin ==
  ASSUME TypeOK, SlotInv, OwnInv, BeginJoin
  PROVE  OwnInv'
<1> DEFINE c == Head(received)[2]
<1>1. UNCHANGED <<session, remote, toClient, iGameInited, playerInfo>>
  BY DEF BeginJoin, clientVars
<1>2. joining' = joining \/ (IsWelcome(c) /\ joining' = <<c, SlotOf(c)>>)
  BY DEF BeginJoin
<1>3. ASSUME NEW j \in Slots, remote'[j].active, NEW d, d = remote'[j].client
      PROVE  KeepsEntry(j, d)'
  <2>1. remote[j].active /\ d = remote[j].client /\ d \in Clients
    BY <1>1, <1>3 DEF SlotInv, SlotsAgree
  <2>2. KeepsEntry(j, d) /\ playerInfo[d][j] = d
    BY <2>1 DEF OwnInv, KeepsEntry
  <2>3. joining' = joining \/ NoOtherJoins(d, j)'
    <3> SUFFICES ASSUME IsWelcome(c), joining' = <<c, SlotOf(c)>>
                 PROVE  joining'[2] # j \/ joining'[1] = d
      BY <1>2 DEF NoOtherJoins
    <3>1. c \in Clients /\ IsPlaying(c)
      BY ConnectedArePlaying DEF IsWelcome, SlotInv
    <3>2. remote[SlotOf(c)].client = c
      BY <3>1, SlotOfPlayer DEF SlotInv
    <3> HIDE DEF c
    <3> QED BY <2>1, <3>2
  <2> QED BY <1>1, <2>1, <2>2, <2>3, EntryUnchanged
<1> QED BY <1>1, <1>3 DEF OwnInv

\* What a join sends to the client in slot j: news about index j only if the
\* join is another client's at that index, then as the first call; InitGame only
\* if the join is at that index, and the connection is confirmed.
LEMMA JoinCallsNews ==
  ASSUME TypeOK, SlotInv, NEW c \in Clients, NEW i \in Slots,
         NEW pool \in [Entries -> Clients \cup {Nobody}],
         NEW order \in Ascending(OtherEntries(pool, i)),
         NEW j \in Slots, remote[j].active, NEW d, d = remote[j].client,
         NEW k \in DOMAIN JoinCalls(d, c, i, pool, order),
         NEW m, m = JoinCalls(d, c, i, pool, order)[k]
  PROVE  /\ IsNews(m, j) => i = j /\ d # c /\ k = 1
         /\ m.call = "InitGame" => remote[j].mode = "CONNECTED"
<1> DEFINE calls == JoinCalls(d, c, i, pool, order)
           news == IF d # c THEN <<ServerJoin(i, c)>> ELSE <<>>
           own == IF d = GetPlayerIDFromIndex(i) THEN Welcome(i, pool, order)
                                                 ELSE <<>>
<1>1. d \in Clients /\ session[d] = "connected" /\ g_myPlayerID[d] = j
  BY DEF SlotInv, SlotsAgree, IsPlaying
<1>2. InitGame(i) \in Calls /\ ServerJoin(i, c) \in Calls
  BY ConstantFacts DEF InitGame, ServerJoin, Calls
<1>3. PoolCalls(pool, order) \in Seq(Calls)
  BY PoolCallsType
<1>4. <<InitGame(i)>> \in Seq(Calls)
  BY <1>2
<1>5. Welcome(i, pool, order) \in Seq(Calls)
  BY <1>3, <1>4, ConcatProperties DEF Welcome, WelcomeIndex
<1>6. /\ news \in Seq(Calls)
      /\ \A n \in DOMAIN news : n = 1 /\ d # c /\ news[n] = ServerJoin(i, c)
  BY <1>2
<1>7. own \in Seq(Calls)
  BY <1>5
<1>8. ASSUME NEW n \in DOMAIN own
      PROVE  /\ ~IsNews(own[n], j)
             /\ own[n].call = "InitGame" => remote[j].mode = "CONNECTED"
  <2>1. d = GetPlayerIDFromIndex(i) /\ own = Welcome(i, pool, order)
    <3>1. DOMAIN <<>> = {}
      OBVIOUS
    <3> QED BY <1>8, <3>1
  <2>2. remote[i].client = d /\ remote[i].mode = "CONNECTED"
    BY <1>1, <2>1, ConstantFacts DEF GetPlayerIDFromIndex
  <2>3. i = j
    <3>1. CASE remote[i].active
      BY <1>1, <2>2, <3>1 DEF SlotInv, SlotsAgree
    <3>2. CASE ~remote[i].active
      BY <1>1, <2>2, <3>2, ConstantFacts DEF SlotInv, LastUserLeft
    <3> QED BY <3>1, <3>2
  <2>4. own = <<InitGame(i)>> \o PoolCalls(pool, order)
    BY <2>1 DEF Welcome, WelcomeIndex
  <2> HIDE DEF own
  <2>5. \/ \E x \in DOMAIN <<InitGame(i)>> : own[n] = <<InitGame(i)>>[x]
        \/ \E x \in DOMAIN PoolCalls(pool, order) : own[n] = PoolCalls(pool, order)[x]
    BY <1>3, <1>4, <1>8, <2>4, ConcatElements
  <2>6. \A x \in DOMAIN order : order[x] # i
    <3>1. order \in [1..Cardinality(OtherEntries(pool, i)) -> OtherEntries(pool, i)]
      BY DEF Ascending
    <3> QED BY <3>1 DEF OtherEntries
  <2>7. ~IsNews(own[n], j)
    <3>1. CASE own[n] = InitGame(i)
      BY <3>1 DEF InitGame, IsNews
    <3>2. CASE \E x \in DOMAIN PoolCalls(pool, order) :
                 own[n] = PoolCalls(pool, order)[x]
      BY <2>3, <2>6, <3>2 DEF PoolCalls, ServerJoin, IsNews
    <3> QED BY <2>5, <3>1, <3>2
  <2> QED BY <2>2, <2>3, <2>7
<1>9. calls = news \o own
  BY DEF JoinCalls
<1>9a. k \in DOMAIN calls /\ m = calls[k]
  OBVIOUS
<1> HIDE DEF calls, news, own
<1>10. /\ Len(news) \in Nat
       /\ \/ k \in DOMAIN news /\ calls[k] = news[k]
          \/ k - Len(news) \in DOMAIN own /\ calls[k] = own[k - Len(news)]
  <2>1. /\ calls \in Seq(Calls) /\ Len(calls) = Len(news) + Len(own)
        /\ \A x \in 1..(Len(news) + Len(own)) :
             calls[x] = IF x <= Len(news) THEN news[x] ELSE own[x - Len(news)]
    BY <1>6, <1>7, <1>9, ConcatProperties
  <2>2. Len(news) \in Nat /\ Len(own) \in Nat
    BY <1>6, <1>7, LenProperties
  <2>3. k \in 1..(Len(news) + Len(own))
    BY <1>9a, <2>1
  <2>4. DOMAIN news = 1..Len(news) /\ DOMAIN own = 1..Len(own)
    BY <1>6, <1>7
  <2> QED BY <2>1, <2>2, <2>3, <2>4
<1>11. CASE k \in DOMAIN news /\ calls[k] = news[k]
  BY <1>6, <1>9a, <1>11 DEF ServerJoin, IsNews
<1>12. CASE k - Len(news) \in DOMAIN own /\ calls[k] = own[k - Len(news)]
  BY <1>8, <1>9a, <1>12
<1> QED BY <1>10, <1>11, <1>12

\* A join sends its client news of its own index only before InitGame.
LEMMA OwnFinishJoin ==
  ASSUME TypeOK, SlotInv, OwnInv, FinishJoin
  PROVE  OwnInv'
<1>1. PICK c \in Clients, i \in Slots :
        /\ joining = <<c, i>>
        /\ playerPool' \in [Entries -> Clients \cup {Nobody}]
        /\ \E order \in Ascending(OtherEntries(playerPool', i)) :
             Sends([d \in Clients |-> JoinCalls(d, c, i, playerPool', order)])
  BY FinishJoinFacts
<1>2. PICK order \in Ascending(OtherEntries(playerPool', i)) :
        Sends([d \in Clients |-> JoinCalls(d, c, i, playerPool', order)])
  BY <1>1
<1> DEFINE calls == [d \in Clients |-> JoinCalls(d, c, i, playerPool', order)]
<1>3. \A d \in Clients : calls[d] \in Seq(Calls)
  BY <1>1, TypeJoinCalls
<1>4. Sends(calls)
  BY <1>2
<1>5. UNCHANGED <<session, remote, iGameInited, playerInfo>> /\ joining' = <<>>
  BY DEF FinishJoin, clientVars
<1>6. ASSUME NEW j \in Slots, remote'[j].active, NEW d, d = remote'[j].client
      PROVE  KeepsEntry(j, d)'
  <2>1. remote[j].active /\ d = remote[j].client /\ d \in Clients
    BY <1>5, <1>6 DEF SlotInv, SlotsAgree
  <2>2. KeepsEntry(j, d)
    BY <2>1 DEF OwnInv
  <2>3. calls[d] = JoinCalls(d, c, i, playerPool', order)
    BY <2>1
  <2> HIDE DEF calls
  <2>4. ASSUME NEW k \in DOMAIN calls[d]
        PROVE  /\ IsNews(calls[d][k], j) => i = j /\ d # c /\ k = 1
               /\ calls[d][k].call = "InitGame" => remote[j].mode = "CONNECTED"
    <3>1. k \in DOMAIN JoinCalls(d, c, i, playerPool', order)
      BY <2>3, <2>4
    <3>2. playerPool' \in [Entries -> Clients \cup {Nobody}]
      BY <1>1
    <3>3. ASSUME NEW m, m = JoinCalls(d, c, i, playerPool', order)[k]
          PROVE  /\ IsNews(m, j) => i = j /\ d # c /\ k = 1
                 /\ m.call = "InitGame" => remote[j].mode = "CONNECTED"
      BY <2>1, <3>1, <3>2, <3>3, JoinCallsNews
    <3> QED BY <2>3, <3>3
  <2>5. i = j /\ d # c => ~Told(d)
    BY <1>1, <2>2 DEF KeepsEntry, NoOtherJoins
  <2>6. NoOtherJoins(d, j)'
    BY <1>5 DEF NoOtherJoins
  <2> QED BY <1>3, <1>4, <1>5, <2>1, <2>2, <2>4, <2>5, <2>6, MailKeepsEntry
<1> QED BY <1>5, <1>6 DEF OwnInv

\* The end of an earlier connection at a client's index is told to the client
\* only as long as its own connection is not confirmed.
LEMMA OwnHandleGone ==
  ASSUME TypeOK, SlotInv, OwnInv, HandleGone
  PROVE  OwnInv'
<1> DEFINE i == Head(received)[2]
           calls == [d \in Clients |-> IF d \in QuitHearers(i)
                                       THEN <<ServerQuit(i)>> ELSE <<>>]
<1>1. UNCHANGED <<session, remote, joining, iGameInited, playerInfo>>
  BY DEF HandleGone, clientVars
<1>2. i \in Entries
  BY Received, ConstantFacts DEF HandleGone
<1>3. Sends(calls) \/ toClient' = toClient
  BY DEF HandleGone
<1>4. ASSUME NEW j \in Slots, remote'[j].active, NEW d, d = remote'[j].client
      PROVE  KeepsEntry(j, d)'
  <2>1. remote[j].active /\ d = remote[j].client /\ d \in Clients
    BY <1>1, <1>4 DEF SlotInv, SlotsAgree
  <2>2. KeepsEntry(j, d) /\ playerInfo[d][j] = d
    BY <2>1 DEF OwnInv, KeepsEntry
  <2>3. CASE toClient' = toClient
    BY <1>1, <2>1, <2>2, <2>3, EntryUnchanged
  <2>4. CASE Sends(calls)
    <3>1. ServerQuit(i) \in Calls /\ ServerQuit(i).call = "ServerQuit"
          /\ ServerQuit(i).index = i
      BY <1>2 DEF ServerQuit, Calls
    <3>2. calls[d] = IF d \in QuitHearers(i) THEN <<ServerQuit(i)>> ELSE <<>>
      BY <2>1
    <3> HIDE DEF calls, i
    <3>3. /\ calls[d] \in Seq(Calls)
          /\ \A k \in DOMAIN calls[d] :
               k = 1 /\ calls[d][k] = ServerQuit(i) /\ d \in QuitHearers(i)
      BY <3>1, <3>2
    <3>4. ASSUME NEW k \in DOMAIN calls[d], IsNews(calls[d][k], j)
          PROVE  ~Told(d) /\ k = 1
      <4>1. k = 1 /\ i = j /\ d \in QuitHearers(j)
        BY <3>1, <3>3, <3>4 DEF IsNews
      <4>2. remote[j].mode # "CONNECTED"
        BY <2>1, <4>1 DEF QuitHearers, GetPlayerIDFromIndex
      <4> QED BY <2>2, <4>1, <4>2 DEF KeepsEntry
    <3>5. \A k \in DOMAIN calls[d] : calls[d][k].call # "InitGame"
      BY <3>1, <3>3
    <3> QED BY <1>1, <2>1, <2>2, <2>4, <3>3, <3>4, <3>5, MailKeepsEntry
  <2> QED BY <1>3, <2>3, <2>4
<1> QED BY <1>1, <1>4 DEF OwnInv

\* A client handles the oldest call in its mail: if it accepts the call, news
\* changes the one entry it is about, and InitGame lets the client in.
LEMMA OldestIsHandled ==
  ASSUME InOrder, TypeOK, NEW c \in Clients, ClientReceives(c),
         NEW mail, mail = toClient[c], NEW m, m = mail[1]
  PROVE  /\ UNCHANGED <<session, remote, joining, received, toServer>>
         /\ mail \in Seq(Calls) /\ Len(mail) \in Nat \ {0}
         /\ DOMAIN mail = 1..Len(mail) /\ m \in Calls
         /\ DOMAIN toClient'[c] = 1..(Len(mail) - 1)
         /\ \A k \in 1..(Len(mail) - 1) : toClient'[c][k] = mail[k + 1]
         /\ \A e \in Clients : e # c =>
              /\ toClient'[e] = toClient[e] /\ iGameInited'[e] = iGameInited[e]
              /\ playerInfo'[e] = playerInfo[e]
         /\ iGameInited'[c] = (iGameInited[c] \/ m.call = "InitGame")
         /\ \A p \in Entries :
              playerInfo'[c][p] =
                IF p = m.index /\ m.call # "InitGame" /\ iGameInited[c]
                THEN m.name ELSE playerInfo[c][p]
<1>1. /\ mail # <<>>
      /\ toClient' = [toClient EXCEPT ![c] = RemoveAt(mail, 1)]
      /\ IF IsAccepted(c, m) THEN Handle(c, m) ELSE UNCHANGED clientVars
  <2>1. PICK k \in DOMAIN toClient[c] :
          /\ Arrives(k, toClient[c])
          /\ toClient' = [toClient EXCEPT ![c] = RemoveAt(@, k)]
          /\ IF IsAccepted(c, toClient[c][k])
             THEN Handle(c, toClient[c][k])
             ELSE UNCHANGED clientVars
    BY DEF ClientReceives
  <2>2. k = 1
    BY <2>1 DEF Arrives
  <2>3. toClient[c] # <<>>
    BY <2>1
  <2> QED BY <2>1, <2>2, <2>3 DEF TypeOK
<1>2. UNCHANGED <<session, remote, joining, received, toServer>>
  BY DEF ClientReceives, serverVars
<1>3. mail \in Seq(Calls) /\ toClient \in [Clients -> Seq(Calls)]
  BY DEF TypeOK
<1>4. /\ Len(mail) \in Nat \ {0}
      /\ DOMAIN mail = 1..Len(mail)
      /\ toClient'[c] = RemoveAt(mail, 1)
      /\ DOMAIN toClient'[c] = 1..(Len(mail) - 1)
      /\ \A k \in 1..(Len(mail) - 1) : toClient'[c][k] = mail[k + 1]
  BY <1>1, <1>3, RemoveOldest
<1>5. m \in Calls
  BY <1>3, <1>4, ElementOfSeq
<1>6. /\ \A e \in Clients : e # c =>
           /\ toClient'[e] = toClient[e] /\ iGameInited'[e] = iGameInited[e]
           /\ playerInfo'[e] = playerInfo[e]
      /\ iGameInited'[c] = (iGameInited[c] \/ m.call = "InitGame")
      /\ \A p \in Entries :
           playerInfo'[c][p] =
             IF p = m.index /\ m.call # "InitGame" /\ iGameInited[c]
             THEN m.name ELSE playerInfo[c][p]
  <2>1. iGameInited[c] \in BOOLEAN /\ iGameInited \in [Clients -> BOOLEAN]
        /\ playerInfo \in [Clients -> [Entries -> Clients \cup {Nobody}]]
    BY DEF TypeOK
  <2>2. m.index \in Entries
    BY <1>5 DEF Calls
  <2>3. CASE IsAccepted(c, m)
    <3>1. /\ iGameInited' = [iGameInited EXCEPT ![c] = @ \/ m.call = "InitGame"]
          /\ playerInfo' =
               [playerInfo EXCEPT ![c][m.index] =
                  IF m.call = "InitGame" THEN @ ELSE m.name]
      BY <1>1, <2>3 DEF Handle
    <3>2. iGameInited'[c] = (iGameInited[c] \/ m.call = "InitGame")
      BY <2>1, <3>1
    <3>3. \A e \in Clients : e # c =>
            iGameInited'[e] = iGameInited[e] /\ playerInfo'[e] = playerInfo[e]
      BY <2>1, <3>1
    <3>4. \A p \in Entries :
            playerInfo'[c][p] =
              IF p = m.index /\ m.call # "InitGame" THEN m.name
              ELSE playerInfo[c][p]
      BY <2>1, <2>2, <3>1
    <3> QED BY <1>1, <1>3, <2>3, <3>2, <3>3, <3>4 DEF IsAccepted
  <2>4. CASE ~IsAccepted(c, m)
    <3>1. m.call # "InitGame" /\ ~iGameInited[c]
      BY <2>4 DEF IsAccepted
    <3>2. iGameInited' = iGameInited /\ playerInfo' = playerInfo
      BY <1>1, <2>4 DEF clientVars
    <3> QED BY <1>1, <1>3, <2>1, <3>1, <3>2
  <2> QED BY <2>3, <2>4
<1> QED BY <1>2, <1>3, <1>4, <1>5, <1>6

\* A call that a client accepts is not news about its own index.
LEMMA OwnClientReceives ==
  ASSUME InOrder, TypeOK, SlotInv, OwnInv, NEW c \in Clients, ClientReceives(c)
  PROVE  OwnInv'
<1> DEFINE mail == toClient[c]
           m == mail[1]
<1>1. /\ UNCHANGED <<session, remote, joining>>
      /\ mail \in Seq(Calls) /\ Len(mail) \in Nat \ {0}
      /\ DOMAIN mail = 1..Len(mail) /\ m \in Calls
      /\ DOMAIN toClient'[c] = 1..(Len(mail) - 1)
      /\ \A k \in 1..(Len(mail) - 1) : toClient'[c][k] = mail[k + 1]
      /\ \A e \in Clients : e # c =>
           /\ toClient'[e] = toClient[e] /\ iGameInited'[e] = iGameInited[e]
           /\ playerInfo'[e] = playerInfo[e]
      /\ iGameInited'[c] = (iGameInited[c] \/ m.call = "InitGame")
      /\ \A p \in Entries :
           playerInfo'[c][p] =
             IF p = m.index /\ m.call # "InitGame" /\ iGameInited[c]
             THEN m.name ELSE playerInfo[c][p]
  BY OldestIsHandled
<1> HIDE DEF mail, m
<1>7. ASSUME NEW e \in Clients, session'[e] = "new"
      PROVE  ~iGameInited'[e]
  <2>1. session[e] = "new" /\ ~iGameInited[e] /\ toClient[e] = <<>>
    BY <1>1, <1>7 DEF OwnInv, SlotInv, NewGotNothing
  <2>2. e # c
    BY <1>1, <2>1 DEF mail
  <2> QED BY <1>1, <2>1, <2>2
<1>8. ASSUME NEW j \in Slots, remote'[j].active, NEW d, d = remote'[j].client
      PROVE  KeepsEntry(j, d)'
  <2>1. remote[j].active /\ d = remote[j].client /\ d \in Clients
    BY <1>1, <1>8 DEF SlotInv, SlotsAgree
  <2>2. KeepsEntry(j, d) /\ playerInfo[d][j] = d
    BY <2>1 DEF OwnInv, KeepsEntry
  <2>3. CASE d # c
    BY <1>1, <2>1, <2>2, <2>3, EntryUnchanged
  <2>4. CASE d = c
    <3>1. \A k \in DOMAIN mail : IsNews(mail[k], j) =>
            ~iGameInited[c] /\ \A n \in 1..k : mail[n].call # "InitGame"
      BY <2>2, <2>4 DEF KeepsEntry, DropsNews, mail
    <3>2. playerInfo'[c][j] = c
      <4>1. IsNews(m, j) => ~iGameInited[c]
        BY <1>1, <3>1 DEF m
      <4>2. j \in Entries
        BY ConstantFacts
      <4> QED BY <1>1, <2>2, <2>4, <4>1, <4>2 DEF IsNews
    <3>3. DropsNews(c, j)'
      <4> SUFFICES ASSUME NEW k \in 1..(Len(mail) - 1),
                          IsNews(toClient'[c][k], j)
                   PROVE  /\ ~iGameInited'[c]
                          /\ \A n \in 1..k : toClient'[c][n].call # "InitGame"
        BY <1>1 DEF DropsNews
      <4>1. k + 1 \in DOMAIN mail /\ IsNews(mail[k + 1], j)
        BY <1>1
      <4>2. ~iGameInited[c] /\ \A n \in 1..(k + 1) : mail[n].call # "InitGame"
        BY <3>1, <4>1
      <4>3. m.call # "InitGame"
        BY <4>2 DEF m
      <4>4. \A n \in 1..k : n \in 1..(Len(mail) - 1) /\ n + 1 \in 1..(k + 1)
        BY <1>1
      <4> QED BY <1>1, <4>2, <4>3, <4>4
    <3>4. Told(c)' => Told(c)
      <4>1. CASE iGameInited'[c]
        <5>1. iGameInited[c] \/ mail[1].call = "InitGame"
          BY <1>1, <4>1 DEF m
        <5>2. 1 \in DOMAIN mail
          BY <1>1
        <5> QED BY <5>1, <5>2 DEF Told, mail
      <4>2. ASSUME NEW k \in DOMAIN toClient'[c],
                   toClient'[c][k].call = "InitGame"
            PROVE  Told(c)
        <5>1. k + 1 \in DOMAIN mail /\ mail[k + 1].call = "InitGame"
          BY <1>1, <4>2
        <5> QED BY <5>1 DEF Told, mail
      <4> QED BY <4>1, <4>2 DEF Told
    <3> QED BY <1>1, <2>2, <2>4, <3>2, <3>3, <3>4 DEF KeepsEntry, NoOtherJoins
  <2> QED BY <2>3, <2>4
<1> QED BY <1>7, <1>8 DEF OwnInv

\* Every step keeps what a client is told about its own entry harmless.
LEMMA OwnNext ==
  ASSUME InOrder, TypeOK, SlotInv, OwnInv, [Next]_vars
  PROVE  OwnInv'
<1>1. ASSUME NEW c \in Clients, Connect(c) PROVE OwnInv'
  BY <1>1, OwnConnect
<1>2. ASSUME NEW c \in Clients, ServerReceives(c) PROVE OwnInv'
  BY <1>2, OwnServerReceives
<1>3. ASSUME NEW c \in Clients, Leave(c) PROVE OwnInv'
  BY <1>3, OwnLeave
<1>4. CASE BeginJoin
  BY <1>4, OwnBeginJoin
<1>5. CASE FinishJoin
  BY <1>5, OwnFinishJoin
<1>6. CASE HandleGone
  BY <1>6, OwnHandleGone
<1>7. ASSUME NEW c \in Clients, ClientReceives(c) PROVE OwnInv'
  BY <1>7, OwnClientReceives
<1>8. CASE UNCHANGED vars
  BY <1>8 DEF vars, serverVars, clientVars, OwnInv, KeepsEntry, DropsNews, Told,
              NoOtherJoins
<1> QED BY <1>1, <1>2, <1>3, <1>4, <1>5, <1>6, <1>7, <1>8 DEF Next
-----------------------------------------------------------------------------
(* What the clients know of each other, when calls arrive in order.        *)

IsIn(p, s) == \E k \in DOMAIN s : s[k] = p

\* The join of client d is being handled.
Handling(d) == joining # <<>> /\ joining[1] = d

\* The join of client d has been received and handled.
Done(d) ==
  toServer[d] = <<>> /\ ~IsIn(Join(d), received) /\ ~Handling(d)

\* The one join of client d, in slot j, is with the client, has been received
\* or is being handled; the ends of earlier connections at index j come before
\* it, and it is handled with the index of the client's slot.
JoinsOnce(d, j) ==
  /\ toServer[d] # <<>> =>
       /\ toServer[d] \in {<<"NEW_INCOMING_CONNECTION", "ClientJoin">>,
                           <<"ClientJoin">>}
       /\ ~IsIn(Join(d), received) /\ ~Handling(d)
  /\ toServer[d] # <<"NEW_INCOMING_CONNECTION", "ClientJoin">> =>
       remote[j].mode = "CONNECTED"
  /\ \A k \in DOMAIN received : received[k] = Join(d) =>
       /\ ~Handling(d)
       /\ \A l \in DOMAIN received : received[l] \in {Join(d), Gone(j)} => l <= k
  /\ Handling(d) => joining[2] = j
  /\ toServer[d] = <<>> /\ ~IsIn(Join(d), received) =>
       ~IsIn(Gone(j), received) /\ NoOtherJoins(d, j)
  /\ Done(d) => Told(d)

JoinInv ==
  /\ \A c \in Clients : ~IsPlaying(c) => toServer[c] = <<>>
  /\ \A c \in Clients :
       session[c] = "new" => ~IsIn(Join(c), received) /\ ~Handling(c)
  /\ \A j \in Slots : remote[j].active => JoinsOnce(remote[j].client, j)

\* The places of a sequence after an element is added to it.
LEMMA AppendPlaces ==
  ASSUME NEW S, NEW s \in Seq(S), NEW x \in S
  PROVE  /\ Append(s, x) \in Seq(S) /\ Len(s) \in Nat
         /\ DOMAIN s = 1..Len(s) /\ DOMAIN Append(s, x) = 1..(Len(s) + 1)
         /\ \A k \in DOMAIN s : Append(s, x)[k] = s[k]
         /\ Append(s, x)[Len(s) + 1] = x
  OBVIOUS

\* The places of a sequence without its first element.
LEMMA TailPlaces ==
  ASSUME NEW S, NEW s \in Seq(S), s # <<>>
  PROVE  /\ Len(s) \in Nat \ {0} /\ Head(s) = s[1] /\ Head(s) \in S
         /\ DOMAIN s = 1..Len(s) /\ DOMAIN Tail(s) = 1..(Len(s) - 1)
         /\ \A k \in DOMAIN Tail(s) : Tail(s)[k] = s[k + 1]
  OBVIOUS

\* What is in a sequence after an element is added or taken off its front.
LEMMA InAppended ==
  ASSUME NEW S, NEW s \in Seq(S), NEW x \in S, NEW p
  PROVE  IsIn(p, Append(s, x)) <=> IsIn(p, s) \/ p = x
<1> DEFINE t == Append(s, x)
<1>1. /\ Len(s) \in Nat /\ DOMAIN s = 1..Len(s) /\ DOMAIN t = 1..(Len(s) + 1)
      /\ \A k \in DOMAIN s : t[k] = s[k]
      /\ t[Len(s) + 1] = x
  BY AppendPlaces
<1> HIDE DEF t
<1>2. \A k \in DOMAIN t : k \in DOMAIN s \/ k = Len(s) + 1
  BY <1>1
<1>3. Len(s) + 1 \in DOMAIN t /\ \A k \in DOMAIN s : k \in DOMAIN t
  BY <1>1
<1>4. IsIn(p, t) <=> IsIn(p, s) \/ p = x
  BY <1>1, <1>2, <1>3 DEF IsIn
<1> QED BY <1>4 DEF t

\* What is in a sequence without its first element.
LEMMA InTail ==
  ASSUME NEW S, NEW s \in Seq(S), s # <<>>, NEW p
  PROVE  /\ IsIn(p, Tail(s)) => IsIn(p, s)
         /\ p # s[1] => (IsIn(p, Tail(s)) <=> IsIn(p, s))
<1> DEFINE t == Tail(s)
<1>1. /\ Len(s) \in Nat \ {0}
      /\ DOMAIN s = 1..Len(s) /\ DOMAIN t = 1..(Len(s) - 1)
      /\ \A k \in DOMAIN t : t[k] = s[k + 1]
  BY TailPlaces
<1> HIDE DEF t
<1>2. \A k \in DOMAIN t : k + 1 \in DOMAIN s
  BY <1>1
<1>3. \A k \in DOMAIN s : k # 1 => k - 1 \in DOMAIN t /\ (k - 1) + 1 = k
  BY <1>1
<1>4. /\ IsIn(p, t) => IsIn(p, s)
      /\ p # s[1] => (IsIn(p, t) <=> IsIn(p, s))
  BY <1>1, <1>2, <1>3 DEF IsIn
<1> QED BY <1>4 DEF t

\* A client's join goes on as before when nothing of it is touched.
LEMMA JoinUntouched ==
  ASSUME NEW j \in Slots, NEW d, JoinsOnce(d, j),
         toServer'[d] = toServer[d], received' = received,
         remote'[j].mode = remote[j].mode,
         joining' = joining, Told(d) => Told(d)'
  PROVE  JoinsOnce(d, j)'
  BY DEF JoinsOnce, Handling, Done, NoOtherJoins

\* Another packet at the end of the queue does not matter to a client's join if
\* it is not about the client or its index.
LEMMA JoinAppended ==
  ASSUME TypeOK, NEW j \in Slots, NEW d, JoinsOnce(d, j),
         NEW p \in Packets, p # Join(d), p # Gone(j),
         received' = Append(received, p), toServer'[d] = toServer[d],
         remote'[j].mode = remote[j].mode,
         joining' = joining, Told(d) => Told(d)'
  PROVE  JoinsOnce(d, j)'
<1>1. received \in Seq(Packets)
  BY DEF TypeOK
<1>2. /\ IsIn(Join(d), received') <=> IsIn(Join(d), received)
      /\ IsIn(Gone(j), received') <=> IsIn(Gone(j), received)
  BY <1>1, InAppended
<1>3. /\ Len(received) \in Nat
      /\ DOMAIN received = 1..Len(received)
      /\ DOMAIN received' = 1..(Len(received) + 1)
      /\ \A k \in DOMAIN received : received'[k] = received[k]
      /\ received'[Len(received) + 1] = p
  BY <1>1, AppendPlaces
<1>4. \A k \in DOMAIN received' : received'[k] \in {Join(d), Gone(j)} =>
         k \in DOMAIN received /\ received'[k] = received[k]
  BY <1>3
<1> QED BY <1>2, <1>4 DEF JoinsOnce, Handling, Done, NoOtherJoins

\* The first packet of the queue, once handled, does not matter to the others.
LEMMA JoinTail ==
  ASSUME TypeOK, NEW j \in Slots, NEW d, JoinsOnce(d, j),
         received # <<>>, received[1] # Join(d),
         received' = Tail(received), toServer'[d] = toServer[d],
         remote'[j].mode = remote[j].mode,
         joining' = joining \/ (~Handling(d) /\ joining' = <<>>)
           \/ (joining = <<>> /\ NoOtherJoins(d, j)' /\ ~Handling(d)'),
         Told(d) => Told(d)'
  PROVE  JoinsOnce(d, j)'
<1>1. received \in Seq(Packets)
  BY DEF TypeOK
<1>2. /\ IsIn(Join(d), received') <=> IsIn(Join(d), received)
      /\ IsIn(Gone(j), received') => IsIn(Gone(j), received)
  BY <1>1, InTail
<1>3. /\ Len(received) \in Nat \ {0}
      /\ DOMAIN received = 1..Len(received)
      /\ DOMAIN received' = 1..(Len(received) - 1)
      /\ \A k \in DOMAIN received' : received'[k] = received[k + 1]
  BY <1>1, TailPlaces
<1>4. \A k \in DOMAIN received' : k + 1 \in DOMAIN received /\ k \in Nat
  BY <1>3
<1>5. \A k, l \in DOMAIN received' : l + 1 <= k + 1 => l <= k
  BY <1>4
<1>6. Handling(d)' => Handling(d) /\ joining' = joining
  BY DEF Handling
<1>7. \A k \in DOMAIN received' : received'[k] = Join(d) =>
        /\ ~Handling(d)'
        /\ \A l \in DOMAIN received' :
             received'[l] \in {Join(d), Gone(j)} => l <= k
  <2> SUFFICES ASSUME NEW k \in DOMAIN received', received'[k] = Join(d)
               PROVE  /\ ~Handling(d)'
                      /\ \A l \in DOMAIN received' :
                           received'[l] \in {Join(d), Gone(j)} => l <= k
    OBVIOUS
  <2>1. received[k + 1] = Join(d) /\ k + 1 \in DOMAIN received
    BY <1>3, <1>4
  <2>2. /\ ~Handling(d)
        /\ \A l \in DOMAIN received :
             received[l] \in {Join(d), Gone(j)} => l <= k + 1
    BY <2>1 DEF JoinsOnce
  <2> QED BY <1>3, <1>4, <1>5, <1>6, <2>2
<1>8. NoOtherJoins(d, j) => NoOtherJoins(d, j)'
  BY DEF NoOtherJoins
<1>9. Done(d)' => Done(d)
  BY <1>2 DEF Done, Handling
<1> QED BY <1>2, <1>6, <1>7, <1>8, <1>9 DEF JoinsOnce

\* Join and end of connection are different packets.
LEMMA PacketFacts ==
  /\ \A c, d : Join(c) = Join(d) => c = d
  /\ \A i, j : Gone(i) = Gone(j) => i = j
  /\ \A c, i : Join(c) # Gone(i)
  /\ \A c \in Clients : Join(c) \in Packets
  /\ \A i \in Slots : Gone(i) \in Packets
  BY DEF Join, Gone, Packets

\* A client that connects has its confirmation and its join on their way.
LEMMA JoinsConnect ==
  ASSUME TypeOK, SlotInv, JoinInv, NEW c \in Clients, Connect(c)
  PROVE  JoinInv'
<1>1. PICK i \in Slots : ConnectAt(c, i)
  BY DEF Connect
<1>2. /\ session[c] = "new" /\ ~remote[i].active
      /\ session' = [session EXCEPT ![c] = "connected"]
      /\ remote' = [remote EXCEPT
           ![i] = [client |-> c, mode |-> "HANDLING_CONNECTION_REQUEST",
                   active |-> TRUE]]
      /\ toServer' = [toServer EXCEPT
           ![c] = <<"NEW_INCOMING_CONNECTION", "ClientJoin">>]
      /\ UNCHANGED <<received, toClient, joining, iGameInited>>
  BY <1>1 DEF ConnectAt
<1>3. ~IsIn(Join(c), received) /\ ~Handling(c)
  BY <1>2 DEF JoinInv
<1>4. /\ \A d \in Clients : ~IsPlaying(d)' => toServer'[d] = <<>>
      /\ \A d \in Clients :
           session'[d] = "new" => ~IsIn(Join(d), received)' /\ ~Handling(d)'
  BY <1>2 DEF TypeOK, JoinInv, IsPlaying, IsIn, Handling
<1>5. ASSUME NEW j \in Slots, remote'[j].active, NEW d, d = remote'[j].client
      PROVE  JoinsOnce(d, j)'
  <2>1. CASE j = i
    <3>1. d = c
      BY <1>2, <1>5, <2>1 DEF TypeOK
    <3>2. toServer'[c] = <<"NEW_INCOMING_CONNECTION", "ClientJoin">>
      BY <1>2 DEF TypeOK
    <3>3. \A k \in DOMAIN received' : received'[k] # Join(c)
      BY <1>2, <1>3 DEF IsIn
    <3>4. ~Handling(c)' /\ ~IsIn(Join(c), received)'
      BY <1>2, <1>3 DEF Handling, IsIn
    <3>5. toServer'[c] # <<>>
      BY <3>2
    <3> QED BY <3>1, <3>2, <3>3, <3>4, <3>5 DEF JoinsOnce, Done
  <2>2. CASE j # i
    <3>1. remote'[j] = remote[j] /\ remote[j].active /\ d = remote[j].client
      BY <1>2, <1>5, <2>2 DEF TypeOK
    <3>2. d \in Clients /\ session[d] = "connected" /\ d # c
      BY <1>2, <3>1 DEF SlotInv, SlotsAgree, IsPlaying
    <3>3. JoinsOnce(d, j)
      BY <3>1 DEF JoinInv
    <3>4. toServer'[d] = toServer[d] /\ (Told(d) => Told(d)')
      BY <1>2, <3>2 DEF TypeOK, Told
    <3> QED BY <1>2, <3>1, <3>3, <3>4, JoinUntouched
  <2> QED BY <2>1, <2>2
<1> QED BY <1>4, <1>5 DEF JoinInv

\* The confirmation arrives before the join, which becomes the last packet.
LEMMA JoinsServerReceives ==
  ASSUME InOrder, TypeOK, SlotInv, JoinInv, NEW c \in Clients, ServerReceives(c)
  PROVE  JoinInv'
<1> DEFINE mail == toServer[c]
           i == SlotOf(c)
<1>1. /\ mail # <<>>
      /\ toServer' = [toServer EXCEPT ![c] = RemoveAt(mail, 1)]
      /\ IF mail[1] = "NEW_INCOMING_CONNECTION"
         THEN /\ remote' = [remote EXCEPT ![i].mode = "CONNECTED"]
              /\ UNCHANGED received
         ELSE received' = Append(received, Join(c)) /\ UNCHANGED remote
  <2>1. PICK k \in DOMAIN toServer[c] :
          /\ Arrives(k, toServer[c])
          /\ toServer' = [toServer EXCEPT ![c] = RemoveAt(@, k)]
          /\ IF toServer[c][k] = "NEW_INCOMING_CONNECTION"
             THEN /\ remote' = [remote EXCEPT ![SlotOf(c)].mode = "CONNECTED"]
                  /\ UNCHANGED received
             ELSE received' = Append(received, Join(c)) /\ UNCHANGED remote
    BY DEF ServerReceives
  <2>2. k = 1 /\ toServer[c] # <<>>
    BY <2>1 DEF Arrives
  <2> QED BY <2>1, <2>2 DEF TypeOK
<1>2. UNCHANGED <<session, joining, toClient, iGameInited>>
  BY DEF ServerReceives, clientVars
<1>3. IsPlaying(c) /\ i \in Slots /\ remote[i].active /\ remote[i].client = c
  <2>1. IsPlaying(c)
    BY <1>1 DEF JoinInv
  <2> QED BY <2>1, SlotOfPlayer DEF SlotInv
<1>4. \A j \in Slots : remote[j].active /\ remote[j].client = c => j = i
  BY <1>3, SlotOfPlayer DEF SlotInv
<1>5. JoinsOnce(c, i) /\ ~IsIn(Join(c), received) /\ ~Handling(c)
  BY <1>1, <1>3 DEF JoinInv, JoinsOnce
<1>6. mail \in {<<"NEW_INCOMING_CONNECTION", "ClientJoin">>, <<"ClientJoin">>}
  BY <1>1, <1>5 DEF JoinsOnce
<1> HIDE DEF i
<1>7. \A d \in Clients : d # c => toServer'[d] = toServer[d]
  BY <1>1 DEF TypeOK
<1>8. toServer'[c] = RemoveAt(mail, 1)
  BY <1>1 DEF TypeOK
<1>9. /\ mail[1] = "NEW_INCOMING_CONNECTION" => toServer'[c] = <<"ClientJoin">>
      /\ mail[1] # "NEW_INCOMING_CONNECTION" => toServer'[c] = <<>>
  <2> DEFINE S == {"NEW_INCOMING_CONNECTION", "ClientJoin"}
             rest == RemoveAt(mail, 1)
  <2>0. mail \in Seq(S) /\ mail # <<>>
    BY <1>1 DEF TypeOK
  <2> HIDE DEF mail
  <2>1. /\ rest \in Seq(S) /\ DOMAIN rest = 1..(Len(mail) - 1)
        /\ \A k \in 1..(Len(mail) - 1) : rest[k] = mail[k + 1]
    BY <2>0, RemoveOldest
  <2> HIDE DEF rest, S
  <2>2. CASE mail = <<"NEW_INCOMING_CONNECTION", "ClientJoin">>
    <3>1. Len(mail) = 2 /\ mail[2] = "ClientJoin"
          /\ mail[1] = "NEW_INCOMING_CONNECTION"
      BY <2>2
    <3>2. DOMAIN rest = 1..1 /\ rest[1] = "ClientJoin"
      BY <2>1, <3>1
    <3>3. Len(rest) = 1
      <4>1. Len(rest) \in Nat /\ DOMAIN rest = 1..Len(rest)
        BY <2>1
      <4>2. 1 \in 1..Len(rest)
        BY <3>2, <4>1
      <4>3. Len(rest) \in 1..1
        BY <3>2, <4>1, <4>2
      <4> QED BY <4>3
    <3>4. rest = <<"ClientJoin">>
      <4> DEFINE one == <<"ClientJoin">>
      <4>1. one \in Seq(S) /\ Len(one) = 1 /\ one[1] = "ClientJoin"
        BY DEF S
      <4> HIDE DEF one
      <4>2. \A k \in 1..Len(rest) : rest[k] = one[k]
        BY <3>2, <3>3, <4>1
      <4>3. rest = one
        BY <2>1, <3>3, <4>1, <4>2, SeqEqual
      <4> QED BY <4>3 DEF one
    <3> QED BY <1>8, <3>1, <3>4 DEF rest
  <2>3. CASE mail = <<"ClientJoin">>
    <3>1. Len(mail) = 1 /\ mail[1] = "ClientJoin"
      BY <2>3
    <3>2. rest = <<>>
      BY <2>1, <3>1
    <3> QED BY <1>8, <3>1, <3>2 DEF rest
  <2> QED BY <1>6, <2>2, <2>3
<1> HIDE DEF mail
<1>10. ASSUME NEW j \in Slots
       PROVE  /\ remote'[j].active = remote[j].active
              /\ remote'[j].client = remote[j].client
              /\ j # i \/ mail[1] # "NEW_INCOMING_CONNECTION" =>
                   remote'[j].mode = remote[j].mode
              /\ j = i /\ mail[1] = "NEW_INCOMING_CONNECTION" =>
                   remote'[j].mode = "CONNECTED"
  <2>1. remote \in [Slots -> RemoteSystems] /\ remote[j] \in RemoteSystems
    BY DEF TypeOK
  <2> QED BY <1>1, <2>1 DEF RemoteSystems
<1>11. received \in Seq(Packets) /\ Join(c) \in Packets
  BY PacketFacts DEF TypeOK
<1>12. ASSUME NEW j \in Slots, remote'[j].active, NEW d, d = remote'[j].client
       PROVE  JoinsOnce(d, j)'
  <2>1. remote[j].active /\ d = remote[j].client /\ d \in Clients
    BY <1>10, <1>12 DEF SlotInv, SlotsAgree
  <2>2. JoinsOnce(d, j)
    BY <2>1 DEF JoinInv
  <2>3. Told(d) => Told(d)'
    BY <1>2 DEF Told
  <2>4. CASE d # c
    <3>1. j # i
      BY <1>3, <2>1, <2>4
    <3>2. remote'[j].mode = remote[j].mode /\ toServer'[d] = toServer[d]
      BY <1>7, <1>10, <2>1, <2>4, <3>1
    <3>3. CASE received' = received
      BY <1>2, <2>2, <2>3, <3>2, <3>3, JoinUntouched
    <3>4. CASE received' = Append(received, Join(c))
      <4>1. Join(c) # Join(d) /\ Join(c) # Gone(j)
        BY <2>4, PacketFacts
      <4> QED BY <1>2, <1>11, <2>2, <2>3, <3>2, <3>4, <4>1, JoinAppended
    <3> QED BY <1>1, <3>3, <3>4
  <2>5. CASE d = c /\ mail[1] = "NEW_INCOMING_CONNECTION"
    <3>1. j = i /\ remote'[j].mode = "CONNECTED" /\ received' = received
      BY <1>1, <1>4, <1>10, <2>1, <2>5
    <3>2. toServer'[c] = <<"ClientJoin">> /\ toServer'[c] # <<>>
      BY <1>9, <2>5
    <3>3. ~IsIn(Join(c), received') /\ ~Handling(c)'
      BY <1>2, <1>5, <3>1 DEF Handling
    <3> QED BY <2>5, <3>1, <3>2, <3>3 DEF JoinsOnce, Done, IsIn
  <2>6. CASE d = c /\ mail[1] # "NEW_INCOMING_CONNECTION"
    <3>1. j = i /\ remote'[j].mode = remote[j].mode /\ toServer'[c] = <<>>
          /\ received' = Append(received, Join(c))
      BY <1>1, <1>4, <1>9, <1>10, <2>1, <2>6
    <3>2. mail # <<"NEW_INCOMING_CONNECTION", "ClientJoin">>
      BY <2>6
    <3>3. remote'[j].mode = "CONNECTED"
      BY <2>2, <2>6, <3>1, <3>2 DEF JoinsOnce, mail
    <3>4. ~Handling(c)'
      BY <1>2, <1>5 DEF Handling
    <3>5. IsIn(Join(c), received')
      BY <1>11, <3>1, InAppended
    <3>6. /\ Len(received) \in Nat /\ DOMAIN received = 1..Len(received)
          /\ DOMAIN received' = 1..(Len(received) + 1)
          /\ \A k \in DOMAIN received : received'[k] = received[k]
      BY <1>11, <3>1, AppendPlaces
    <3>7. \A k \in DOMAIN received' :
            received'[k] = Join(c) => k = Len(received) + 1
      BY <1>5, <3>6 DEF IsIn
    <3>8. \A k, l \in DOMAIN received' : received'[k] = Join(c) => l <= k
      BY <3>6, <3>7
    <3> QED BY <2>6, <3>1, <3>3, <3>4, <3>5, <3>8 DEF JoinsOnce, Done
  <2> QED BY <2>4, <2>5, <2>6
<1>13. ASSUME NEW d \in Clients
       PROVE  /\ ~IsPlaying(d)' => toServer'[d] = <<>>
              /\ session'[d] = "new" => ~IsIn(Join(d), received)' /\ ~Handling(d)'
  <2>1. CASE d = c
    BY <1>2, <1>3, <2>1 DEF IsPlaying
  <2>2. CASE d # c
    <3>0. Join(d) # Join(c)
      BY <2>2, PacketFacts
    <3>1. IsIn(Join(d), received') => IsIn(Join(d), received)
      <4>1. CASE received' = received
        BY <4>1
      <4>2. CASE received' = Append(received, Join(c))
        BY <1>11, <3>0, <4>2, InAppended
      <4> QED BY <1>1, <4>1, <4>2
    <3> QED BY <1>2, <1>7, <2>2, <3>1 DEF JoinInv, IsPlaying, Handling, IsIn
  <2> QED BY <2>1, <2>2
<1> QED BY <1>12, <1>13 DEF JoinInv

\* The end of a connection is queued behind all joins, and is of an index that
\* nobody has for now.
LEMMA JoinsLeave ==
  ASSUME TypeOK, SlotInv, JoinInv, NEW c \in Clients, Leave(c)
  PROVE  JoinInv'
<1> DEFINE i == SlotOf(c)
<1>1. i \in Slots /\ remote[i].active /\ remote[i].client = c /\ IsPlaying(c)
  BY SlotOfPlayer DEF SlotInv, Leave
<1>2. /\ session' = [session EXCEPT ![c] = "left"]
      /\ remote' = [remote EXCEPT ![i].active = FALSE]
      /\ toServer' = [toServer EXCEPT ![c] = <<>>]
      /\ toClient' = [toClient EXCEPT ![c] = <<>>]
      /\ received' = received \/ received' = Append(received, Gone(i))
      /\ UNCHANGED <<joining, iGameInited, playerInfo>>
  BY DEF Leave, clientVars
<1>3. \A j \in Slots : remote[j].active /\ remote[j].client = c => j = i
  BY SlotOfPlayer DEF SlotInv, Leave
<1> HIDE DEF i
<1>4. /\ ~remote'[i].active
      /\ \A j \in Slots : j # i => remote'[j] = remote[j]
  <2>1. remote \in [Slots -> RemoteSystems] /\ remote[i] \in RemoteSystems
    BY <1>1 DEF TypeOK
  <2> QED BY <1>1, <1>2, <2>1 DEF RemoteSystems
<1>5. received \in Seq(Packets) /\ Gone(i) \in Packets
  BY <1>1, PacketFacts DEF TypeOK
<1>6. ASSUME NEW j \in Slots, remote'[j].active, NEW d, d = remote'[j].client
      PROVE  JoinsOnce(d, j)'
  <2>1. remote'[j] = remote[j] /\ remote[j].active /\ d = remote[j].client /\ j # i
    BY <1>4, <1>6
  <2>2. d \in Clients /\ d # c
    BY <1>3, <1>4, <1>6, <2>1 DEF SlotInv, SlotsAgree
  <2>3. JoinsOnce(d, j)
    BY <2>1 DEF JoinInv
  <2>4. toClient'[d] = toClient[d] /\ toServer'[d] = toServer[d]
    BY <1>2, <2>2 DEF TypeOK
  <2>5. Told(d) => Told(d)'
    BY <1>2, <2>4 DEF Told
  <2>6. CASE received' = received
    BY <1>2, <2>1, <2>3, <2>4, <2>5, <2>6, JoinUntouched
  <2>7. CASE received' = Append(received, Gone(i))
    <3>1. Gone(i) # Join(d) /\ Gone(i) # Gone(j)
      BY <2>1, PacketFacts
    <3> QED BY <1>2, <1>5, <2>1, <2>3, <2>4, <2>5, <2>7, <3>1, JoinAppended
  <2> QED BY <1>2, <2>6, <2>7
<1>7. ASSUME NEW d \in Clients
      PROVE  /\ ~IsPlaying(d)' => toServer'[d] = <<>>
             /\ session'[d] = "new" => ~IsIn(Join(d), received)' /\ ~Handling(d)'
  <2>1. IsIn(Join(d), received') <=> IsIn(Join(d), received)
    <3>1. Join(d) # Gone(i)
      BY PacketFacts
    <3>2. CASE received' = received
      BY <3>2
    <3>3. CASE received' = Append(received, Gone(i))
      BY <1>5, <3>1, <3>3, InAppended
    <3> QED BY <1>2, <3>2, <3>3
  <2>2. ~IsPlaying(d)' => toServer'[d] = <<>>
    BY <1>2 DEF TypeOK, JoinInv, IsPlaying
  <2>3. session'[d] = "new" => session[d] = "new"
    BY <1>2 DEF TypeOK
  <2> QED BY <1>2, <2>1, <2>2, <2>3 DEF JoinInv, Handling, IsIn
<1> QED BY <1>6, <1>7 DEF JoinInv

\* The join of a player is begun: it is welcome, and its index is its slot's.
LEMMA JoinsBeginJoin ==
  ASSUME TypeOK, SlotInv, JoinInv, BeginJoin
  PROVE  JoinInv'
<1> DEFINE c == Head(received)[2]
<1>1. /\ UNCHANGED <<session, remote, toServer, toClient, iGameInited>>
      /\ joining = <<>> /\ received # <<>> /\ received' = Tail(received)
      /\ joining' = IF IsWelcome(c) THEN <<c, SlotOf(c)>> ELSE joining
  BY DEF BeginJoin, clientVars
<1>2. received \in Seq(Packets)
  BY DEF TypeOK
<1>3. /\ Len(received) \in Nat \ {0} /\ DOMAIN received = 1..Len(received)
      /\ DOMAIN received' = 1..(Len(received) - 1)
      /\ \A k \in DOMAIN received' : received'[k] = received[k + 1]
      /\ Head(received) = received[1] /\ received[1] \in Packets
  BY <1>1, <1>2, TailPlaces
<1>4. received[1] = Join(c) /\ c \in Clients
  BY <1>3 DEF BeginJoin, Packets, Join
<1> HIDE DEF c
<1>5. IsIn(Join(c), received)
  BY <1>3, <1>4 DEF IsIn
<1>6. IsWelcome(c) => IsPlaying(c)
  BY <1>4, ConnectedArePlaying DEF IsWelcome, SlotInv
<1>7. ASSUME NEW j \in Slots, remote'[j].active, NEW d, d = remote'[j].client
      PROVE  JoinsOnce(d, j)'
  <2>1. remote[j].active /\ d = remote[j].client /\ d \in Clients
        /\ IsPlaying(d)
    BY <1>1, <1>7 DEF SlotInv, SlotsAgree
  <2>2. JoinsOnce(d, j)
    BY <2>1 DEF JoinInv
  <2>3. SlotOf(d) = j
    BY <2>1, SlotOfPlayer DEF SlotInv
  <2>4. Told(d) => Told(d)'
    BY <1>1 DEF Told
  <2>5. CASE d = c
    <3>1. toServer[d] = <<>>
      BY <1>5, <2>2, <2>5 DEF JoinsOnce
    <3>2. remote[j].mode = "CONNECTED"
      BY <2>2, <3>1 DEF JoinsOnce
    <3>3. IsWelcome(c)
      BY <2>1, <2>3, <2>5, <3>2, ConnectedArePlaying DEF IsWelcome, SlotInv
    <3>4. joining' = <<d, j>>
      BY <1>1, <2>3, <2>5, <3>3
    <3>5. \A l \in DOMAIN received : received[l] \in {Join(d), Gone(j)} => l <= 1
      BY <1>3, <1>4, <2>2, <2>5 DEF JoinsOnce
    <3>6. \A k \in DOMAIN received' :
            k + 1 \in DOMAIN received /\ ~(k + 1 <= 1)
      BY <1>3
    <3>7. ~IsIn(Join(d), received') /\ ~IsIn(Gone(j), received')
      BY <1>3, <3>5, <3>6 DEF IsIn
    <3>8. Handling(d)' /\ joining'[2] = j
      BY <3>4 DEF Handling
    <3>9. NoOtherJoins(d, j)'
      BY <3>4 DEF NoOtherJoins
    <3> QED BY <1>1, <3>1, <3>2, <3>7, <3>8, <3>9 DEF JoinsOnce, Done, IsIn
  <2>6. CASE d # c
    <3>1. received[1] # Join(d)
      BY <1>4, <2>6, PacketFacts
    <3>2. joining' # joining => joining' = <<c, SlotOf(c)>> /\ IsPlaying(c)
      BY <1>1, <1>6
    <3>3. IsPlaying(c) => remote[SlotOf(c)].client = c
      BY <1>4, SlotOfPlayer DEF SlotInv
    <3>4. joining' # joining => NoOtherJoins(d, j)' /\ ~Handling(d)'
      <4> SUFFICES ASSUME joining' # joining
                   PROVE  NoOtherJoins(d, j)' /\ ~Handling(d)'
        OBVIOUS
      <4>1. joining'[1] = c /\ joining'[2] = SlotOf(c) /\ SlotOf(c) # j
        BY <2>1, <2>6, <3>2, <3>3
      <4> QED BY <2>6, <4>1 DEF NoOtherJoins, Handling
    <3>5. remote'[j].mode = remote[j].mode /\ toServer'[d] = toServer[d]
      BY <1>1
    <3> QED BY <1>1, <2>2, <2>4, <3>1, <3>4, <3>5, JoinTail
  <2> QED BY <2>5, <2>6
<1>8. ASSUME NEW d \in Clients
      PROVE  /\ ~IsPlaying(d)' => toServer'[d] = <<>>
             /\ session'[d] = "new" => ~IsIn(Join(d), received)' /\ ~Handling(d)'
  <2>1. IsIn(Join(d), received') => IsIn(Join(d), received)
    BY <1>1, <1>2, InTail
  <2>2. Handling(d)' => d = c /\ IsPlaying(c)
    BY <1>1, <1>6 DEF Handling
  <2> QED BY <1>1, <2>1, <2>2 DEF JoinInv, IsPlaying, IsIn
<1> QED BY <1>7, <1>8 DEF JoinInv

\* A client that has been told to begin, or will be, stays told when mail comes.
LEMMA ToldMore ==
  ASSUME TypeOK, NEW d \in Clients, NEW more \in Seq(Calls),
         toClient'[d] = toClient[d] \o more, iGameInited'[d] = iGameInited[d]
  PROVE  /\ Told(d) => Told(d)'
         /\ (\E k \in DOMAIN more : more[k].call = "InitGame") => Told(d)'
<1> DEFINE old == toClient[d]
           all == toClient'[d]
<1>1. /\ old \in Seq(Calls) /\ all = old \o more
  BY DEF TypeOK
<1> HIDE DEF old, all
<1>2. /\ Len(old) \in Nat /\ Len(more) \in Nat
      /\ DOMAIN old = 1..Len(old) /\ DOMAIN more = 1..Len(more)
      /\ DOMAIN all = 1..(Len(old) + Len(more))
      /\ \A k \in 1..(Len(old) + Len(more)) :
           all[k] = IF k <= Len(old) THEN old[k] ELSE more[k - Len(old)]
  BY <1>1, ConcatProperties
<1>3. \A k \in DOMAIN old : k \in DOMAIN all /\ all[k] = old[k]
  BY <1>2
<1>4. \A k \in DOMAIN more :
        Len(old) + k \in DOMAIN all /\ all[Len(old) + k] = more[k]
  BY <1>2
<1> QED BY <1>3, <1>4 DEF Told, old, all

\* FinishJoin sends one call to a client whose own join is done: the news.
LEMMA DoneHearsJoin ==
  ASSUME TypeOK, SlotInv, JoinInv, FinishJoin,
         NEW j \in Slots, remote[j].active, Done(remote[j].client)
  PROVE  /\ joining[2] # j /\ joining[1] # remote[j].client
         /\ ServerJoin(joining[2], joining[1]) \in Calls
         /\ toClient'[remote[j].client] =
              Append(toClient[remote[j].client],
                     ServerJoin(joining[2], joining[1]))
<1> DEFINE d == remote[j].client
<1>1. PICK c \in Clients, i \in Slots :
        /\ joining = <<c, i>>
        /\ playerPool' \in [Entries -> Clients \cup {Nobody}]
        /\ \E order \in Ascending(OtherEntries(playerPool', i)) :
             Sends([e \in Clients |-> JoinCalls(e, c, i, playerPool', order)])
  BY FinishJoinFacts
<1>2. PICK order \in Ascending(OtherEntries(playerPool', i)) :
        Sends([e \in Clients |-> JoinCalls(e, c, i, playerPool', order)])
  BY <1>1
<1>3. d \in Clients /\ IsPlaying(d) /\ JoinsOnce(d, j) /\ Done(d)
  BY DEF SlotInv, SlotsAgree, JoinInv
<1> HIDE DEF d
<1>4. NoOtherJoins(d, j) /\ ~Handling(d) /\ joining # <<>>
  BY <1>3 DEF JoinsOnce, Done, FinishJoin
<1>5. joining[1] = c /\ joining[2] = i /\ c # d /\ i # j
  BY <1>1, <1>4 DEF NoOtherJoins, Handling
<1>6. d # GetPlayerIDFromIndex(i)
  <2> SUFFICES ASSUME d = GetPlayerIDFromIndex(i) PROVE FALSE
    OBVIOUS
  <2>1. remote[i].client = d
    BY <1>3, ConstantFacts DEF GetPlayerIDFromIndex
  <2>2. CASE remote[i].active
    BY <1>5, <2>1, <2>2 DEF SlotInv, SlotsAgree, d
  <2>3. CASE ~remote[i].active
    BY <1>3, <2>1, <2>3, ConstantFacts DEF SlotInv, LastUserLeft, IsPlaying
  <2> QED BY <2>2, <2>3
<1>7. ServerJoin(i, c) \in Calls
  BY ConstantFacts DEF ServerJoin, Calls
<1>8. JoinCalls(d, c, i, playerPool', order) = <<ServerJoin(i, c)>>
  <2>1. <<ServerJoin(i, c)>> \in Seq(Calls)
    BY <1>7
  <2>2. <<ServerJoin(i, c)>> \o <<>> = <<ServerJoin(i, c)>>
    BY <2>1, ConcatEmptySeq
  <2> QED BY <1>5, <1>6, <2>2 DEF JoinCalls
<1>9. toClient[d] \in Seq(Calls) /\ d \in Connected
  BY <1>3, ConnectedArePlaying DEF TypeOK, SlotInv
<1>10. toClient'[d] = toClient[d] \o <<ServerJoin(i, c)>>
  BY <1>2, <1>3, <1>8, <1>9 DEF Sends
<1>11. toClient'[d] = Append(toClient[d], ServerJoin(i, c))
  BY <1>7, <1>9, <1>10, AppendIsConcat
<1> QED BY <1>5, <1>7, <1>11 DEF d

\* The join of a player is finished: InitGame is sent to it, as its slot is
\* still the one that was computed before the scripts ran.
LEMMA JoinsFinishJoin ==
  ASSUME TypeOK, SlotInv, JoinInv, FinishJoin
  PROVE  JoinInv'
<1>1. PICK c \in Clients, i \in Slots :
        /\ joining = <<c, i>>
        /\ playerPool' \in [Entries -> Clients \cup {Nobody}]
        /\ \E order \in Ascending(OtherEntries(playerPool', i)) :
             Sends([e \in Clients |-> JoinCalls(e, c, i, playerPool', order)])
  BY FinishJoinFacts
<1>2. PICK order \in Ascending(OtherEntries(playerPool', i)) :
        Sends([e \in Clients |-> JoinCalls(e, c, i, playerPool', order)])
  BY <1>1
<1>3. UNCHANGED <<session, remote, received, toServer, iGameInited>>
      /\ joining' = <<>> /\ joining[1] = c /\ joining[2] = i
  BY <1>1 DEF FinishJoin, clientVars
<1>4. ASSUME NEW j \in Slots, remote'[j].active, NEW d, d = remote'[j].client
      PROVE  JoinsOnce(d, j)'
  <2>1. remote[j].active /\ d = remote[j].client /\ d \in Clients
        /\ IsPlaying(d)
    BY <1>3, <1>4 DEF SlotInv, SlotsAgree
  <2>2. JoinsOnce(d, j)
    BY <2>1 DEF JoinInv
  <2> DEFINE more == JoinCalls(d, c, i, playerPool', order)
  <2>3. more \in Seq(Calls)
    BY <1>1, <2>1, TypeJoinCalls
  <2>4. toClient'[d] = toClient[d] \o more
    BY <1>2, <2>1, ConnectedArePlaying DEF Sends, SlotInv
  <2>5. Handling(d) /\ remote[j].mode = "CONNECTED" =>
          \E k \in DOMAIN more : more[k].call = "InitGame"
    <3> SUFFICES ASSUME Handling(d), remote[j].mode = "CONNECTED"
                 PROVE  \E k \in DOMAIN more : more[k].call = "InitGame"
      OBVIOUS
    <3>1. d = c /\ i = j
      BY <1>3, <2>2 DEF JoinsOnce, Handling
    <3>2. d = GetPlayerIDFromIndex(i)
      BY <2>1, <3>1 DEF GetPlayerIDFromIndex
    <3>3. more = <<>> \o Welcome(i, playerPool', order)
      BY <3>1, <3>2 DEF JoinCalls
    <3>4. PoolCalls(playerPool', order) \in Seq(Calls)
      BY <1>1, PoolCallsType
    <3>5. InitGame(i) \in Calls /\ InitGame(i).call = "InitGame"
      BY ConstantFacts DEF InitGame, Calls
    <3> DEFINE w == Welcome(i, playerPool', order)
    <3>6. w \in Seq(Calls) /\ 1 \in DOMAIN w /\ w[1] = InitGame(i)
      <4>1. <<InitGame(i)>> \in Seq(Calls) /\ Len(<<InitGame(i)>>) = 1
        BY <3>5
      <4>2. w = <<InitGame(i)>> \o PoolCalls(playerPool', order)
        BY DEF Welcome, WelcomeIndex
      <4> HIDE DEF w
      <4> QED BY <3>4, <4>1, <4>2, ConcatProperties, LenProperties
    <3> HIDE DEF w
    <3>7. <<>> \o w = w
      BY <3>6, ConcatEmptySeq
    <3> QED BY <3>3, <3>5, <3>6, <3>7 DEF w
  <2> HIDE DEF more
  <2>6. /\ Told(d) => Told(d)'
        /\ Handling(d) /\ remote[j].mode = "CONNECTED" => Told(d)'
    BY <1>3, <2>1, <2>3, <2>4, <2>5, ToldMore
  <2>7. Done(d)' => Told(d)'
    <3> SUFFICES ASSUME Done(d)' PROVE Told(d)'
      OBVIOUS
    <3>1. Done(d) \/ Handling(d)
      BY <1>3 DEF Done, IsIn
    <3>2. toServer[d] # <<"NEW_INCOMING_CONNECTION", "ClientJoin">>
      BY <1>3 DEF Done
    <3>3. remote[j].mode = "CONNECTED"
      BY <2>2, <3>2 DEF JoinsOnce
    <3> QED BY <2>2, <2>6, <3>1, <3>3 DEF JoinsOnce
  <2>8. ~Handling(d)' /\ NoOtherJoins(d, j)'
    BY <1>3 DEF Handling, NoOtherJoins
  <2> QED BY <1>3, <2>2, <2>7, <2>8 DEF JoinsOnce, IsIn
<1>5. \A d \in Clients :
        /\ ~IsPlaying(d)' => toServer'[d] = <<>>
        /\ session'[d] = "new" => ~IsIn(Join(d), received)' /\ ~Handling(d)'
  BY <1>3 DEF JoinInv, IsPlaying, IsIn, Handling
<1> QED BY <1>4, <1>5 DEF JoinInv

\* The end of a connection is handled: a client whose own connection had ended
\* at that index is no longer there.
LEMMA JoinsHandleGone ==
  ASSUME TypeOK, SlotInv, JoinInv, HandleGone
  PROVE  JoinInv'
<1> DEFINE i == Head(received)[2]
           calls == [d \in Clients |-> IF d \in QuitHearers(i)
                                       THEN <<ServerQuit(i)>> ELSE <<>>]
<1>1. /\ UNCHANGED <<session, remote, joining, toServer, iGameInited>>
      /\ received # <<>> /\ received' = Tail(received)
      /\ Sends(calls) \/ toClient' = toClient
  BY DEF HandleGone, clientVars
<1>2. received \in Seq(Packets)
  BY DEF TypeOK
<1>3. received[1] = Head(received) /\ received[1][1] = "gone"
  BY <1>1, <1>2, TailPlaces DEF HandleGone
<1>4. \A d : received[1] # Join(d)
  BY <1>3 DEF Join
<1>5. ServerQuit(i) \in Calls
  BY Received, ConstantFacts DEF HandleGone, ServerQuit, Calls
<1>6. ASSUME NEW d \in Clients
      PROVE  Told(d) => Told(d)'
  <2>1. calls[d] = <<ServerQuit(i)>> \/ calls[d] = <<>>
    OBVIOUS
  <2>2. calls[d] \in Seq(Calls)
    BY <1>5, <2>1
  <2>3. CASE toClient' = toClient
    BY <1>1, <2>3 DEF Told
  <2>4. CASE Sends(calls)
    <3>1. toClient'[d] = toClient[d] \o calls[d] \/ toClient'[d] = toClient[d]
      BY <2>4 DEF Sends
    <3> HIDE DEF calls
    <3>2. CASE toClient'[d] = toClient[d] \o calls[d]
      BY <1>1, <2>2, <3>2, ToldMore
    <3>3. CASE toClient'[d] = toClient[d]
      BY <1>1, <3>3 DEF Told
    <3> QED BY <3>1, <3>2, <3>3
  <2> QED BY <1>1, <2>3, <2>4
<1> HIDE DEF i, calls
<1>7. ASSUME NEW j \in Slots, remote'[j].active, NEW d, d = remote'[j].client
      PROVE  JoinsOnce(d, j)'
  <2>1. remote[j].active /\ d = remote[j].client /\ d \in Clients
    BY <1>1, <1>7 DEF SlotInv, SlotsAgree
  <2>2. JoinsOnce(d, j)
    BY <2>1 DEF JoinInv
  <2> QED BY <1>1, <1>4, <1>6, <2>1, <2>2, JoinTail
<1>8. ASSUME NEW d \in Clients
      PROVE  /\ ~IsPlaying(d)' => toServer'[d] = <<>>
             /\ session'[d] = "new" => ~IsIn(Join(d), received)' /\ ~Handling(d)'
  <2>1. IsIn(Join(d), received') => IsIn(Join(d), received)
    BY <1>1, <1>2, InTail
  <2> QED BY <1>1, <2>1 DEF JoinInv, IsPlaying, IsIn, Handling
<1> QED BY <1>7, <1>8 DEF JoinInv

\* A client that handles a call has been told to begin if it was before.
LEMMA JoinsClientReceives ==
  ASSUME InOrder, TypeOK, SlotInv, JoinInv, NEW c \in Clients, ClientReceives(c)
  PROVE  JoinInv'
<1> DEFINE mail == toClient[c]
           m == mail[1]
<1>1. /\ UNCHANGED <<session, remote, joining, received, toServer>>
      /\ Len(mail) \in Nat \ {0} /\ DOMAIN mail = 1..Len(mail)
      /\ DOMAIN toClient'[c] = 1..(Len(mail) - 1)
      /\ \A k \in 1..(Len(mail) - 1) : toClient'[c][k] = mail[k + 1]
      /\ \A e \in Clients : e # c =>
           toClient'[e] = toClient[e] /\ iGameInited'[e] = iGameInited[e]
      /\ iGameInited'[c] = (iGameInited[c] \/ m.call = "InitGame")
  BY OldestIsHandled
<1>2. Told(c) => Told(c)'
  <2> SUFFICES ASSUME NEW k \in DOMAIN mail, mail[k].call = "InitGame"
               PROVE  Told(c)'
    BY <1>1 DEF Told
  <2> HIDE DEF mail, m
  <2>1. CASE k = 1
    BY <1>1, <2>1 DEF Told, m
  <2>2. CASE k # 1
    <3>1. k - 1 \in 1..(Len(mail) - 1) /\ (k - 1) + 1 = k
      BY <1>1, <2>2
    <3>2. toClient'[c][k - 1] = mail[k]
      BY <1>1, <3>1
    <3> QED BY <1>1, <3>1, <3>2 DEF Told
  <2> QED BY <2>1, <2>2
<1> HIDE DEF mail, m
<1>3. ASSUME NEW d \in Clients
      PROVE  Told(d) => Told(d)'
  BY <1>1, <1>2 DEF Told
<1>4. ASSUME NEW j \in Slots, remote'[j].active, NEW d, d = remote'[j].client
      PROVE  JoinsOnce(d, j)'
  <2>1. remote[j].active /\ d = remote[j].client /\ d \in Clients
    BY <1>1, <1>4 DEF SlotInv, SlotsAgree
  <2> QED BY <1>1, <1>3, <2>1, JoinUntouched DEF JoinInv
<1> QED BY <1>1, <1>4 DEF JoinInv, IsPlaying, IsIn, Handling

\* JoinInv is kept by every step.
LEMMA JoinNext ==
  ASSUME InOrder, TypeOK, SlotInv, JoinInv, [Next]_vars
  PROVE  JoinInv'
<1>1. ASSUME NEW c \in Clients, Connect(c) PROVE JoinInv'
  BY <1>1, JoinsConnect
<1>2. ASSUME NEW c \in Clients, ServerReceives(c) PROVE JoinInv'
  BY <1>2, JoinsServerReceives
<1>3. ASSUME NEW c \in Clients, Leave(c) PROVE JoinInv'
  BY <1>3, JoinsLeave
<1>4. CASE BeginJoin
  BY <1>4, JoinsBeginJoin
<1>5. CASE FinishJoin
  BY <1>5, JoinsFinishJoin
<1>6. CASE HandleGone
  BY <1>6, JoinsHandleGone
<1>7. ASSUME NEW c \in Clients, ClientReceives(c) PROVE JoinInv'
  BY <1>7, JoinsClientReceives
<1>8. CASE UNCHANGED vars
  <2>1. UNCHANGED <<session, remote, received, joining, toServer, toClient,
                    iGameInited>>
    BY <1>8 DEF vars, serverVars, clientVars
  <2>2. \A d : Told(d)' <=> Told(d)
    BY <2>1 DEF Told
  <2>3. ASSUME NEW j \in Slots, remote'[j].active, NEW d, d = remote'[j].client
        PROVE  JoinsOnce(d, j)'
    <3>1. JoinsOnce(d, j)
      BY <2>1, <2>3 DEF JoinInv
    <3> QED BY <2>1, <2>2, <3>1, JoinUntouched
  <2> QED BY <2>1, <2>3 DEF JoinInv, IsPlaying, IsIn, Handling
<1> QED BY <1>1, <1>2, <1>3, <1>4, <1>5, <1>6, <1>7, <1>8 DEF Next

\* Client e knows client d by its index j, or will when it has handled its
\* mail: the last news of the index is that d joined, and is not dropped.
Knows(e, j, d) ==
  \/ \E k \in DOMAIN toClient[e] :
       /\ toClient[e][k] = ServerJoin(j, d)
       /\ iGameInited[e] \/ \E h \in 1..k : toClient[e][h].call = "InitGame"
       /\ \A l \in DOMAIN toClient[e] : l > k => ~IsNews(toClient[e][l], j)
  \/ /\ iGameInited[e] /\ playerInfo[e][j] = d
     /\ \A l \in DOMAIN toClient[e] : ~IsNews(toClient[e][l], j)

\* The client in the slot plays, and its join was handled.
Ready(i) == remote[i].active /\ Done(remote[i].client)

OneKnows(i, j) ==
  \/ Knows(remote[i].client, j, remote[j].client)
  \/ Knows(remote[j].client, i, remote[i].client)

\* Of two players whose joins were handled, one knows the other or will.
KnowInv ==
  \A i, j \in Slots : i # j /\ Ready(i) /\ Ready(j) => OneKnows(i, j)

\* What a client knows of an index stays when nothing is sent to it.
LEMMA KnowsUntouched ==
  ASSUME NEW e, NEW j, NEW d, Knows(e, j, d),
         toClient'[e] = toClient[e], iGameInited'[e] = iGameInited[e],
         playerInfo'[e] = playerInfo[e]
  PROVE  Knows(e, j, d)'
  BY DEF Knows

\* It stays when a call is sent to it that is not news about the index.
LEMMA KnowsMore ==
  ASSUME TypeOK, NEW e \in Clients, NEW j, NEW d, Knows(e, j, d),
         NEW m \in Calls, ~IsNews(m, j), toClient'[e] = Append(toClient[e], m),
         iGameInited'[e] = iGameInited[e], playerInfo'[e] = playerInfo[e]
  PROVE  Knows(e, j, d)'
<1> DEFINE old == toClient[e]
           all == toClient'[e]
<1>1. old \in Seq(Calls) /\ all = Append(old, m)
  BY DEF TypeOK
<1> HIDE DEF old, all
<1>2. /\ Len(old) \in Nat /\ DOMAIN old = 1..Len(old)
      /\ DOMAIN all = 1..(Len(old) + 1)
      /\ \A k \in DOMAIN old : all[k] = old[k]
      /\ all[Len(old) + 1] = m
  BY <1>1, AppendPlaces
<1>3. \A l \in DOMAIN all : l \in DOMAIN old \/ all[l] = m
  BY <1>2
<1>4. CASE \E k \in DOMAIN old :
             /\ old[k] = ServerJoin(j, d)
             /\ iGameInited[e] \/ \E h \in 1..k : old[h].call = "InitGame"
             /\ \A l \in DOMAIN old : l > k => ~IsNews(old[l], j)
  <2>1. PICK k \in DOMAIN old :
          /\ old[k] = ServerJoin(j, d)
          /\ iGameInited[e] \/ \E h \in 1..k : old[h].call = "InitGame"
          /\ \A l \in DOMAIN old : l > k => ~IsNews(old[l], j)
    BY <1>4
  <2>2. k \in DOMAIN all /\ all[k] = ServerJoin(j, d)
    BY <1>2, <2>1
  <2>3. iGameInited'[e] \/ \E h \in 1..k : all[h].call = "InitGame"
    <3>1. \A h \in 1..k : h \in DOMAIN old
      BY <1>2
    <3> QED BY <1>2, <2>1, <3>1
  <2>4. \A l \in DOMAIN all : l > k => ~IsNews(all[l], j)
    BY <1>2, <1>3, <2>1
  <2> QED BY <2>2, <2>3, <2>4 DEF Knows, all
<1>5. CASE /\ iGameInited[e] /\ playerInfo[e][j] = d
           /\ \A l \in DOMAIN old : ~IsNews(old[l], j)
  <2>1. \A l \in DOMAIN all : ~IsNews(all[l], j)
    BY <1>2, <1>3, <1>5
  <2> QED BY <1>5, <2>1 DEF Knows, all
<1> QED BY <1>4, <1>5 DEF Knows, old

\* A client that has been told to begin learns of the player it is told of.
LEMMA KnowsLast ==
  ASSUME TypeOK, NEW e \in Clients, NEW j, NEW d, Told(e),
         ServerJoin(j, d) \in Calls,
         toClient'[e] = Append(toClient[e], ServerJoin(j, d)),
         iGameInited'[e] = iGameInited[e]
  PROVE  Knows(e, j, d)'
<1> DEFINE old == toClient[e]
           all == toClient'[e]
           last == Len(old) + 1
<1>1. old \in Seq(Calls) /\ all = Append(old, ServerJoin(j, d))
  BY DEF TypeOK
<1> HIDE DEF old, all
<1>2. /\ Len(old) \in Nat /\ DOMAIN old = 1..Len(old)
      /\ DOMAIN all = 1..last
      /\ \A k \in DOMAIN old : all[k] = old[k]
      /\ all[last] = ServerJoin(j, d)
  BY <1>1, AppendPlaces
<1>3. last \in DOMAIN all /\ \A l \in DOMAIN all : ~(l > last)
  BY <1>2
<1>4. iGameInited'[e] \/ \E h \in 1..last : all[h].call = "InitGame"
  BY <1>2 DEF Told, old
<1> HIDE DEF last
<1> QED BY <1>2, <1>3, <1>4 DEF Knows, all

\* It stays when the client handles the oldest call of its mail.
LEMMA KnowsReceives ==
  ASSUME InOrder, TypeOK, NEW e \in Clients, ClientReceives(e),
         NEW j \in Entries, NEW d, Knows(e, j, d)
  PROVE  Knows(e, j, d)'
<1> DEFINE mail == toClient[e]
           rest == toClient'[e]
           m == mail[1]
<1>1. /\ mail \in Seq(Calls) /\ Len(mail) \in Nat \ {0}
      /\ DOMAIN mail = 1..Len(mail) /\ m \in Calls
      /\ DOMAIN rest = 1..(Len(mail) - 1)
      /\ \A k \in 1..(Len(mail) - 1) : rest[k] = mail[k + 1]
      /\ iGameInited'[e] = (iGameInited[e] \/ m.call = "InitGame")
      /\ \A p \in Entries :
           playerInfo'[e][p] =
             IF p = m.index /\ m.call # "InitGame" /\ iGameInited[e]
             THEN m.name ELSE playerInfo[e][p]
  BY OldestIsHandled
<1>2. \/ \E k \in DOMAIN mail :
           /\ mail[k] = ServerJoin(j, d)
           /\ iGameInited[e] \/ \E h \in 1..k : mail[h].call = "InitGame"
           /\ \A l \in DOMAIN mail : l > k => ~IsNews(mail[l], j)
      \/ /\ iGameInited[e] /\ playerInfo[e][j] = d
         /\ \A l \in DOMAIN mail : ~IsNews(mail[l], j)
  BY DEF Knows
<1> SUFFICES
      \/ \E k \in DOMAIN rest :
           /\ rest[k] = ServerJoin(j, d)
           /\ iGameInited'[e] \/ \E h \in 1..k : rest[h].call = "InitGame"
           /\ \A l \in DOMAIN rest : l > k => ~IsNews(rest[l], j)
      \/ /\ iGameInited'[e] /\ playerInfo'[e][j] = d
         /\ \A l \in DOMAIN rest : ~IsNews(rest[l], j)
  BY DEF Knows
<1>3. m = mail[1]
  OBVIOUS
<1> HIDE DEF mail, rest, m
<1>4. \A l \in DOMAIN rest : l + 1 \in DOMAIN mail /\ l + 1 > 1
                              /\ rest[l] = mail[l + 1]
  BY <1>1
<1>5. CASE \E k \in DOMAIN mail :
             /\ mail[k] = ServerJoin(j, d)
             /\ iGameInited[e] \/ \E h \in 1..k : mail[h].call = "InitGame"
             /\ \A l \in DOMAIN mail : l > k => ~IsNews(mail[l], j)
  <2>1. PICK k \in DOMAIN mail :
          /\ mail[k] = ServerJoin(j, d)
          /\ iGameInited[e] \/ \E h \in 1..k : mail[h].call = "InitGame"
          /\ \A l \in DOMAIN mail : l > k => ~IsNews(mail[l], j)
    BY <1>5
  <2>2. CASE k = 1
    <3>1. m = ServerJoin(j, d) /\ m.call # "InitGame" /\ m.index = j /\ m.name = d
      BY <1>3, <2>1, <2>2 DEF ServerJoin
    <3>2. iGameInited[e]
      <4>1. \A h \in 1..k : h = 1
        BY <2>2
      <4> QED BY <1>3, <2>1, <3>1, <4>1
    <3>3. playerInfo'[e][j] = d /\ iGameInited'[e]
      BY <1>1, <3>1, <3>2
    <3>4. \A l \in DOMAIN rest : ~IsNews(rest[l], j)
      BY <1>4, <2>1, <2>2
    <3> QED BY <3>3, <3>4
  <2>3. CASE k # 1
    <3>1. k - 1 \in DOMAIN rest /\ rest[k - 1] = mail[k] /\ k \in Nat
      <4>1. k - 1 \in DOMAIN rest /\ (k - 1) + 1 = k /\ k \in Nat
        BY <1>1, <2>3
      <4> QED BY <1>4, <4>1
    <3>2. iGameInited'[e] \/ \E h \in 1..(k - 1) : rest[h].call = "InitGame"
      <4>1. CASE iGameInited[e]
        BY <1>1, <4>1
      <4>2. ASSUME NEW h \in 1..k, mail[h].call = "InitGame"
            PROVE  iGameInited'[e] \/ \E g \in 1..(k - 1) : rest[g].call = "InitGame"
        <5>1. CASE h = 1
          BY <1>1, <1>3, <4>2, <5>1
        <5>2. CASE h # 1
          <6>1. h - 1 \in DOMAIN rest /\ h - 1 \in 1..(k - 1) /\ (h - 1) + 1 = h
            BY <1>1, <5>2
          <6> QED BY <1>4, <4>2, <6>1
        <5> QED BY <5>1, <5>2
      <4> QED BY <2>1, <4>1, <4>2
    <3>3. \A l \in DOMAIN rest : l > k - 1 => ~IsNews(rest[l], j)
      <4>1. \A l \in DOMAIN rest : l > k - 1 => l + 1 > k
        BY <1>1, <3>1
      <4> QED BY <1>4, <2>1, <4>1
    <3> QED BY <2>1, <3>1, <3>2, <3>3
  <2> QED BY <2>2, <2>3
<1>6. CASE /\ iGameInited[e] /\ playerInfo[e][j] = d
           /\ \A l \in DOMAIN mail : ~IsNews(mail[l], j)
  <2>1. \A l \in DOMAIN rest : ~IsNews(rest[l], j)
    BY <1>4, <1>6
  <2>2. ~IsNews(m, j)
    BY <1>1, <1>3, <1>6
  <2>3. playerInfo'[e][j] = d
    BY <1>1, <1>6, <2>2 DEF IsNews
  <2> QED BY <1>1, <1>6, <2>1, <2>3
<1> QED BY <1>2, <1>5, <1>6

\* A step after which no other client is ready, and which takes no knowledge
\* away, keeps the invariant.
LEMMA KnowStays ==
  ASSUME SlotInv, KnowInv,
         \A j \in Slots : Ready(j)' =>
           Ready(j) /\ remote'[j].client = remote[j].client,
         \A i, j \in Slots :
           Ready(i)' /\ Ready(j)'
           /\ Knows(remote[i].client, j, remote[j].client) =>
             Knows(remote[i].client, j, remote[j].client)'
  PROVE  KnowInv'
<1> SUFFICES ASSUME NEW i \in Slots, NEW j \in Slots, i # j, Ready(i)', Ready(j)'
             PROVE  OneKnows(i, j)'
  BY DEF KnowInv
<1> DEFINE e == remote[i].client
           d == remote[j].client
<1>1. Ready(i) /\ Ready(j) /\ remote'[i].client = e /\ remote'[j].client = d
  OBVIOUS
<1>2. Knows(e, j, d) \/ Knows(d, i, e)
  BY <1>1 DEF KnowInv, OneKnows
<1>3. /\ Knows(e, j, d) => Knows(e, j, d)'
      /\ Knows(d, i, e) => Knows(d, i, e)'
  BY <1>1
<1>4. /\ Knows(e, j, d)' => Knows(remote[i].client, j, remote[j].client)'
      /\ Knows(d, i, e)' => Knows(remote[j].client, i, remote[i].client)'
  BY <1>1 DEF Knows
<1> QED BY <1>2, <1>3, <1>4 DEF OneKnows

\* The join of a client that connects was not handled yet.
LEMMA KnowConnect ==
  ASSUME TypeOK, SlotInv, KnowInv, NEW c \in Clients, Connect(c)
  PROVE  KnowInv'
<1>1. PICK i \in Slots : ConnectAt(c, i)
  BY DEF Connect
<1>2. /\ session[c] = "new"
      /\ remote' = [remote EXCEPT
           ![i] = [client |-> c, mode |-> "HANDLING_CONNECTION_REQUEST",
                   active |-> TRUE]]
      /\ toServer' = [toServer EXCEPT
           ![c] = <<"NEW_INCOMING_CONNECTION", "ClientJoin">>]
      /\ playerInfo' = [playerInfo EXCEPT ![c][i] = c]
      /\ UNCHANGED <<received, toClient, joining, iGameInited>>
  BY <1>1 DEF ConnectAt
<1>3. toServer'[c] # <<>>
  BY <1>2 DEF TypeOK
<1>4. ASSUME NEW j \in Slots, Ready(j)'
      PROVE  Ready(j) /\ remote'[j].client = remote[j].client
  <2>1. j # i
    <3> SUFFICES ASSUME j = i PROVE FALSE
      OBVIOUS
    <3>1. remote'[j].client = c
      BY <1>2 DEF TypeOK
    <3> QED BY <1>3, <1>4, <3>1 DEF Ready, Done
  <2>2. remote'[j] = remote[j] /\ remote[j].active
    BY <1>2, <1>4, <2>1 DEF TypeOK, Ready
  <2>3. remote[j].client \in Clients /\ remote[j].client # c
    BY <1>2, <2>2 DEF SlotInv, SlotsAgree, IsPlaying
  <2>4. toServer'[remote[j].client] = toServer[remote[j].client]
    BY <1>2, <2>3 DEF TypeOK
  <2> QED BY <1>2, <1>4, <2>2, <2>4 DEF Ready, Done, IsIn, Handling
<1>5. ASSUME NEW e, NEW j, NEW d, e \in Clients, e # c, Knows(e, j, d)
      PROVE  Knows(e, j, d)'
  <2>1. playerInfo'[e] = playerInfo[e]
    BY <1>2, <1>5 DEF TypeOK
  <2> QED BY <1>2, <1>5, <2>1, KnowsUntouched
<1>6. ASSUME NEW j \in Slots, Ready(j)
      PROVE  remote[j].client \in Clients /\ remote[j].client # c
  BY <1>2, <1>6 DEF Ready, SlotInv, SlotsAgree, IsPlaying
<1> QED BY <1>4, <1>5, <1>6, KnowStays

\* Nor was the join that is received.
LEMMA KnowServerReceives ==
  ASSUME InOrder, TypeOK, SlotInv, JoinInv, KnowInv,
         NEW c \in Clients, ServerReceives(c)
  PROVE  KnowInv'
<1> DEFINE mail == toServer[c]
           i == SlotOf(c)
<1>1. /\ mail # <<>>
      /\ toServer' = [toServer EXCEPT ![c] = RemoveAt(mail, 1)]
      /\ IF mail[1] = "NEW_INCOMING_CONNECTION"
         THEN /\ remote' = [remote EXCEPT ![i].mode = "CONNECTED"]
              /\ UNCHANGED received
         ELSE received' = Append(received, Join(c)) /\ UNCHANGED remote
  <2>1. PICK k \in DOMAIN toServer[c] :
          /\ Arrives(k, toServer[c])
          /\ toServer' = [toServer EXCEPT ![c] = RemoveAt(@, k)]
          /\ IF toServer[c][k] = "NEW_INCOMING_CONNECTION"
             THEN /\ remote' = [remote EXCEPT ![SlotOf(c)].mode = "CONNECTED"]
                  /\ UNCHANGED received
             ELSE received' = Append(received, Join(c)) /\ UNCHANGED remote
    BY DEF ServerReceives
  <2>2. k = 1 /\ toServer[c] # <<>>
    BY <2>1 DEF Arrives
  <2> QED BY <2>1, <2>2 DEF TypeOK
<1>2. UNCHANGED <<session, joining, toClient, iGameInited, playerInfo>>
  BY DEF ServerReceives, clientVars
<1>3. received \in Seq(Packets) /\ Join(c) \in Packets
  BY PacketFacts DEF TypeOK
<1>4. ~Done(c)'
  <2> SUFFICES ASSUME toServer'[c] = <<>> PROVE IsIn(Join(c), received')
    BY DEF Done
  <2>1. mail \in Seq({"NEW_INCOMING_CONNECTION", "ClientJoin"})
    BY DEF TypeOK
  <2>2. IsPlaying(c) /\ i \in Slots /\ remote[i].active /\ remote[i].client = c
    <3>1. IsPlaying(c)
      BY <1>1 DEF JoinInv
    <3> QED BY <3>1, SlotOfPlayer DEF SlotInv
  <2>3. mail \in {<<"NEW_INCOMING_CONNECTION", "ClientJoin">>, <<"ClientJoin">>}
    BY <1>1, <2>2 DEF JoinInv, JoinsOnce
  <2>4. RemoveAt(mail, 1) = <<>>
    BY <1>1 DEF TypeOK
  <2> HIDE DEF mail, i
  <2>5. DOMAIN RemoveAt(mail, 1) = 1..(Len(mail) - 1)
    BY <1>1, <2>1, RemoveOldest
  <2>6. Len(mail) # 2
    <3>1. DOMAIN RemoveAt(mail, 1) = {}
      BY <2>4
    <3>2. Len(mail) = 2 => 1 \in 1..(Len(mail) - 1)
      OBVIOUS
    <3> QED BY <2>5, <3>1, <3>2
  <2>7. mail[1] = "ClientJoin"
    BY <2>3, <2>6
  <2>8. received' = Append(received, Join(c))
    BY <1>1, <2>7
  <2> QED BY <1>3, <2>8, InAppended
<1>5. ASSUME NEW j \in Slots
      PROVE  /\ remote'[j].active = remote[j].active
             /\ remote'[j].client = remote[j].client
  <2>1. remote \in [Slots -> RemoteSystems] /\ remote[j] \in RemoteSystems
    BY DEF TypeOK
  <2> QED BY <1>1, <2>1 DEF RemoteSystems
<1>6. ASSUME NEW d, IsIn(Join(d), received)
      PROVE  IsIn(Join(d), received')
  <2>1. CASE received' = received
    BY <1>6, <2>1
  <2>2. CASE received' = Append(received, Join(c))
    BY <1>3, <1>6, <2>2, InAppended
  <2> QED BY <1>1, <2>1, <2>2
<1>7. \A d \in Clients : d # c => toServer'[d] = toServer[d]
  BY <1>1 DEF TypeOK
<1>8. ASSUME NEW j \in Slots, Ready(j)'
      PROVE  Ready(j) /\ remote'[j].client = remote[j].client
  <2>1. remote[j].active /\ remote[j].client \in Clients
    BY <1>5, <1>8 DEF Ready, SlotInv, SlotsAgree
  <2>2. remote[j].client # c
    BY <1>4, <1>5, <1>8 DEF Ready
  <2>3. Done(remote[j].client)
    BY <1>2, <1>5, <1>6, <1>7, <1>8, <2>1, <2>2 DEF Ready, Done, Handling
  <2> QED BY <1>5, <2>1, <2>3 DEF Ready
<1>9. \A e, j, d : Knows(e, j, d) => Knows(e, j, d)'
  BY <1>2 DEF Knows
<1> QED BY <1>8, <1>9, KnowStays

\* A client that leaves is not ready, and takes nothing from the others.
LEMMA KnowLeave ==
  ASSUME TypeOK, SlotInv, KnowInv, NEW c \in Clients, Leave(c)
  PROVE  KnowInv'
<1> DEFINE i == SlotOf(c)
<1>1. i \in Slots /\ remote[i].active /\ remote[i].client = c /\ IsPlaying(c)
  BY SlotOfPlayer DEF SlotInv, Leave
<1>2. /\ remote' = [remote EXCEPT ![i].active = FALSE]
      /\ toServer' = [toServer EXCEPT ![c] = <<>>]
      /\ toClient' = [toClient EXCEPT ![c] = <<>>]
      /\ received' = received \/ received' = Append(received, Gone(i))
      /\ UNCHANGED <<joining, iGameInited, playerInfo>>
  BY DEF Leave, clientVars
<1>3. \A j \in Slots : remote[j].active /\ remote[j].client = c => j = i
  BY SlotOfPlayer DEF SlotInv, Leave
<1> HIDE DEF i
<1>4. /\ ~remote'[i].active
      /\ \A j \in Slots : j # i => remote'[j] = remote[j]
  <2>1. remote \in [Slots -> RemoteSystems] /\ remote[i] \in RemoteSystems
    BY <1>1 DEF TypeOK
  <2> QED BY <1>1, <1>2, <2>1 DEF RemoteSystems
<1>5. received \in Seq(Packets) /\ Gone(i) \in Packets
  BY <1>1, PacketFacts DEF TypeOK
<1>6. ASSUME NEW d, IsIn(Join(d), received)
      PROVE  IsIn(Join(d), received')
  <2>1. CASE received' = received
    BY <1>6, <2>1
  <2>2. CASE received' = Append(received, Gone(i))
    BY <1>5, <1>6, <2>2, InAppended
  <2> QED BY <1>2, <2>1, <2>2
<1>7. ASSUME NEW j \in Slots, Ready(j)'
      PROVE  /\ Ready(j) /\ remote'[j].client = remote[j].client
             /\ remote[j].client \in Clients /\ remote[j].client # c
  <2>1. remote'[j] = remote[j] /\ remote[j].active
    BY <1>4, <1>7 DEF Ready
  <2>2. remote[j].client \in Clients /\ remote[j].client # c
    BY <1>3, <1>4, <1>7, <2>1 DEF Ready, SlotInv, SlotsAgree
  <2>3. toServer'[remote[j].client] = toServer[remote[j].client]
    BY <1>2, <2>2 DEF TypeOK
  <2> QED BY <1>2, <1>6, <1>7, <2>1, <2>2, <2>3 DEF Ready, Done, Handling
<1>8. ASSUME NEW e \in Clients, e # c, NEW j, NEW d, Knows(e, j, d)
      PROVE  Knows(e, j, d)'
  <2>1. toClient'[e] = toClient[e]
    BY <1>2, <1>8 DEF TypeOK
  <2> QED BY <1>2, <1>8, <2>1, KnowsUntouched
<1> QED BY <1>7, <1>8, KnowStays

\* The join that is begun is not handled yet: its sender is welcome.
LEMMA KnowBeginJoin ==
  ASSUME TypeOK, SlotInv, JoinInv, KnowInv, BeginJoin
  PROVE  KnowInv'
<1> DEFINE c == Head(received)[2]
<1>1. /\ UNCHANGED <<session, remote, toServer, toClient, iGameInited, playerInfo>>
      /\ joining = <<>> /\ received # <<>> /\ received' = Tail(received)
      /\ joining' = IF IsWelcome(c) THEN <<c, SlotOf(c)>> ELSE joining
  BY DEF BeginJoin, clientVars
<1>2. received \in Seq(Packets)
  BY DEF TypeOK
<1>3. Head(received) = received[1] /\ received[1] \in Packets
      /\ 1 \in DOMAIN received
  BY <1>1, <1>2, TailPlaces
<1>4. received[1] = Join(c) /\ c \in Clients
  BY <1>3 DEF BeginJoin, Packets, Join
<1> HIDE DEF c
<1>5. IsIn(Join(c), received)
  BY <1>3, <1>4 DEF IsIn
<1>6. ASSUME NEW j \in Slots, Ready(j)'
      PROVE  Ready(j) /\ remote'[j].client = remote[j].client
  <2> DEFINE d == remote[j].client
  <2>1. remote[j].active /\ d \in Clients /\ IsPlaying(d) /\ SlotOf(d) = j
    BY <1>1, <1>6, SlotOfPlayer DEF Ready, SlotInv, SlotsAgree
  <2>2. JoinsOnce(d, j)
    BY <2>1 DEF JoinInv
  <2>3. d # c
    <3> SUFFICES ASSUME d = c PROVE FALSE
      OBVIOUS
    <3>1. remote[j].mode = "CONNECTED"
      BY <1>1, <1>6, <2>2 DEF JoinsOnce, Ready, Done
    <3>2. IsWelcome(c)
      BY <2>1, <3>1, ConnectedArePlaying DEF IsWelcome, SlotInv
    <3>3. joining' = <<c, j>>
      BY <1>1, <2>1, <3>2
    <3>4. joining' # <<>> /\ joining'[1] = c
      BY <3>3
    <3> QED BY <1>1, <1>6, <3>4 DEF Ready, Done, Handling
  <2>4. IsIn(Join(d), received') <=> IsIn(Join(d), received)
    <3>1. Join(d) # received[1]
      BY <1>4, <2>3, PacketFacts
    <3> QED BY <1>1, <1>2, <3>1, InTail
  <2> QED BY <1>1, <1>6, <2>1, <2>4 DEF Ready, Done, Handling
<1>7. \A e, j, d : Knows(e, j, d) => Knows(e, j, d)'
  BY <1>1 DEF Knows
<1> QED BY <1>6, <1>7, KnowStays

\* A client whose join was handled hears of the join that is being handled:
\* that is news of an index that no such client has.
LEMMA KnowFinishJoin ==
  ASSUME TypeOK, SlotInv, JoinInv, KnowInv, FinishJoin
  PROVE  KnowInv'
<1> DEFINE c == joining[1]
           h == joining[2]
<1>1. UNCHANGED <<session, remote, received, toServer, iGameInited, playerInfo>>
      /\ joining # <<>>
  BY DEF FinishJoin, clientVars
<1>2. ASSUME NEW j \in Slots, remote[j].active, Done(remote[j].client)
      PROVE  /\ h # j /\ ServerJoin(h, c) \in Calls
             /\ toClient'[remote[j].client] =
                  Append(toClient[remote[j].client], ServerJoin(h, c))
  BY <1>2, DoneHearsJoin
<1>3. ASSUME NEW j \in Slots, Ready(j)'
      PROVE  /\ remote[j].active /\ remote[j].client \in Clients
             /\ JoinsOnce(remote[j].client, j)
             /\ Done(remote[j].client) \/ Handling(remote[j].client)
  BY <1>1, <1>3 DEF Ready, Done, IsIn, SlotInv, SlotsAgree, JoinInv
<1>4. ASSUME NEW j \in Slots, Ready(j)', Handling(remote[j].client)
      PROVE  remote[j].client = c /\ h = j
  BY <1>3, <1>4 DEF Handling, JoinsOnce
<1>5. ASSUME NEW i \in Slots, NEW j \in Slots, Ready(i)', Ready(j)',
             Done(remote[i].client), Handling(remote[j].client)
      PROVE  Knows(remote[i].client, j, remote[j].client)'
  <2>1. PICK e \in Clients : e = remote[i].client
    BY <1>3, <1>5
  <2>2. PICK d \in Clients : d = remote[j].client
    BY <1>3, <1>5
  <2>3. Told(e)
    BY <1>3, <1>5, <2>1 DEF JoinsOnce
  <2>4. toClient'[e] = Append(toClient[e], ServerJoin(j, d))
        /\ ServerJoin(j, d) \in Calls
    BY <1>2, <1>3, <1>4, <1>5, <2>1, <2>2
  <2>5. iGameInited'[e] = iGameInited[e]
    BY <1>1
  <2>6. Knows(e, j, d)'
    BY <2>3, <2>4, <2>5, KnowsLast
  <2> QED BY <1>1, <2>1, <2>2, <2>6
<1>6. ASSUME NEW i \in Slots, NEW j \in Slots, Ready(i)', Ready(j)',
             Done(remote[i].client), Done(remote[j].client),
             Knows(remote[i].client, j, remote[j].client)
      PROVE  Knows(remote[i].client, j, remote[j].client)'
  <2>1. PICK e \in Clients : e = remote[i].client
    BY <1>3, <1>6
  <2>2. PICK d \in Clients : d = remote[j].client
    BY <1>3, <1>6
  <2>3. PICK m \in Calls : m = ServerJoin(h, c)
    BY <1>2, <1>3, <1>6
  <2>4. toClient'[e] = Append(toClient[e], m)
    BY <1>2, <1>3, <1>6, <2>1, <2>3
  <2>5. h # j
    BY <1>2, <1>3, <1>6
  <2>6. ~IsNews(m, j)
    BY <2>3, <2>5 DEF IsNews, ServerJoin
  <2>7. iGameInited'[e] = iGameInited[e] /\ playerInfo'[e] = playerInfo[e]
    BY <1>1
  <2>8. Knows(e, j, d)
    BY <1>6, <2>1, <2>2
  <2>9. Knows(e, j, d)'
    BY <2>4, <2>6, <2>7, <2>8, KnowsMore
  <2> QED BY <1>1, <2>1, <2>2, <2>9
<1> SUFFICES ASSUME NEW i \in Slots, NEW j \in Slots, i # j, Ready(i)', Ready(j)'
             PROVE  OneKnows(i, j)'
  BY DEF KnowInv
<1>7. CASE Done(remote[i].client) /\ Done(remote[j].client)
  <2>1. OneKnows(i, j)
    BY <1>3, <1>7 DEF KnowInv, Ready
  <2> QED BY <1>1, <1>6, <1>7, <2>1 DEF OneKnows
<1>8. CASE Done(remote[i].client) /\ Handling(remote[j].client)
  BY <1>1, <1>5, <1>8 DEF OneKnows
<1>9. CASE Handling(remote[i].client) /\ Done(remote[j].client)
  BY <1>1, <1>5, <1>9 DEF OneKnows
<1>10. CASE Handling(remote[i].client) /\ Handling(remote[j].client)
  BY <1>4, <1>10
<1> QED BY <1>3, <1>7, <1>8, <1>9, <1>10

\* The end of a connection is not news of an index whose player's join was
\* handled.
LEMMA KnowHandleGone ==
  ASSUME TypeOK, SlotInv, JoinInv, KnowInv, HandleGone
  PROVE  KnowInv'
<1> DEFINE i == Head(received)[2]
           calls == [d \in Clients |-> IF d \in QuitHearers(i)
                                       THEN <<ServerQuit(i)>> ELSE <<>>]
<1>1. /\ UNCHANGED <<session, remote, joining, toServer, iGameInited, playerInfo>>
      /\ received # <<>> /\ received' = Tail(received)
      /\ Sends(calls) \/ toClient' = toClient
  BY DEF HandleGone, clientVars
<1>2. received \in Seq(Packets)
  BY DEF TypeOK
<1>3. received[1] = Gone(i) /\ 1 \in DOMAIN received
  <2>1. received[1] = Head(received) /\ received[1] \in Packets
        /\ 1 \in DOMAIN received
    BY <1>1, <1>2, TailPlaces
  <2> QED BY <2>1 DEF HandleGone, Packets, Gone
<1>4. PICK m \in Calls : m = ServerQuit(i)
  BY Received, ConstantFacts DEF HandleGone, ServerQuit, Calls
<1>5. m.index = i
  BY <1>4 DEF ServerQuit
<1>6. ASSUME NEW e \in Clients
      PROVE  toClient'[e] = toClient[e] \/ toClient'[e] = Append(toClient[e], m)
  <2>1. toClient[e] \in Seq(Calls)
    BY DEF TypeOK
  <2>2. toClient[e] \o <<>> = toClient[e]
    BY <2>1, ConcatEmptySeq
  <2>3. toClient[e] \o <<m>> = Append(toClient[e], m)
    BY <2>1, AppendIsConcat
  <2> QED BY <1>1, <1>4, <2>2, <2>3 DEF Sends
<1> HIDE DEF i, calls
<1>7. ASSUME NEW j \in Slots, Ready(j)'
      PROVE  /\ Ready(j) /\ remote'[j].client = remote[j].client
             /\ remote[j].client \in Clients /\ i # j
  <2>1. PICK d \in Clients : d = remote[j].client
    BY <1>1, <1>7 DEF Ready, SlotInv, SlotsAgree
  <2>2. remote[j].active /\ JoinsOnce(d, j)
    BY <1>1, <1>7, <2>1 DEF Ready, JoinInv
  <2>3. IsIn(Join(d), received') <=> IsIn(Join(d), received)
    <3>1. Join(d) # received[1]
      BY <1>3, PacketFacts
    <3> QED BY <1>1, <1>2, <3>1, InTail
  <2>4. Done(d)
    BY <1>1, <1>7, <2>1, <2>3 DEF Ready, Done, Handling
  <2>5. i # j
    BY <1>3, <2>2, <2>4 DEF JoinsOnce, Done, IsIn
  <2> QED BY <1>1, <2>1, <2>2, <2>4, <2>5 DEF Ready
<1>8. ASSUME NEW e \in Clients, NEW j \in Slots, NEW d, Knows(e, j, d), i # j
      PROVE  Knows(e, j, d)'
  <2>1. iGameInited'[e] = iGameInited[e] /\ playerInfo'[e] = playerInfo[e]
    BY <1>1
  <2>2. ~IsNews(m, j)
    BY <1>5, <1>8 DEF IsNews
  <2>3. CASE toClient'[e] = toClient[e]
    BY <1>8, <2>1, <2>3, KnowsUntouched
  <2>4. CASE toClient'[e] = Append(toClient[e], m)
    BY <1>8, <2>1, <2>2, <2>4, KnowsMore
  <2> QED BY <1>6, <2>3, <2>4
<1> QED BY <1>7, <1>8, KnowStays

\* What a client hears does not change who is ready.
LEMMA KnowClientReceives ==
  ASSUME InOrder, TypeOK, SlotInv, KnowInv, NEW c \in Clients, ClientReceives(c)
  PROVE  KnowInv'
<1>1. /\ UNCHANGED <<session, remote, joining, received, toServer>>
      /\ \A e \in Clients : e # c =>
           /\ toClient'[e] = toClient[e] /\ iGameInited'[e] = iGameInited[e]
           /\ playerInfo'[e] = playerInfo[e]
  BY OldestIsHandled
<1>2. ASSUME NEW j \in Slots, Ready(j)'
      PROVE  /\ Ready(j) /\ remote'[j].client = remote[j].client
             /\ remote[j].client \in Clients
  BY <1>1, <1>2 DEF Ready, Done, IsIn, Handling, SlotInv, SlotsAgree
<1>3. ASSUME NEW e \in Clients, NEW j \in Slots, NEW d, Knows(e, j, d)
      PROVE  Knows(e, j, d)'
  <2>1. CASE e = c
    <3>1. j \in Entries
      BY ConstantFacts
    <3> QED BY <1>3, <2>1, <3>1, KnowsReceives
  <2>2. CASE e # c
    BY <1>1, <1>3, <2>2, KnowsUntouched
  <2> QED BY <2>1, <2>2
<1> QED BY <1>2, <1>3, KnowStays

\* KnowInv is kept by every step.
LEMMA KnowNext ==
  ASSUME InOrder, TypeOK, SlotInv, JoinInv, KnowInv, [Next]_vars
  PROVE  KnowInv'
<1>1. ASSUME NEW c \in Clients, Connect(c) PROVE KnowInv'
  BY <1>1, KnowConnect
<1>2. ASSUME NEW c \in Clients, ServerReceives(c) PROVE KnowInv'
  BY <1>2, KnowServerReceives
<1>3. ASSUME NEW c \in Clients, Leave(c) PROVE KnowInv'
  BY <1>3, KnowLeave
<1>4. CASE BeginJoin
  BY <1>4, KnowBeginJoin
<1>5. CASE FinishJoin
  BY <1>5, KnowFinishJoin
<1>6. CASE HandleGone
  BY <1>6, KnowHandleGone
<1>7. ASSUME NEW c \in Clients, ClientReceives(c) PROVE KnowInv'
  BY <1>7, KnowClientReceives
<1>8. CASE UNCHANGED vars
  <2>1. UNCHANGED <<remote, received, joining, toServer, toClient, iGameInited,
                    playerInfo>>
    BY <1>8 DEF vars, serverVars, clientVars
  <2>2. ASSUME NEW j \in Slots, Ready(j)'
        PROVE  Ready(j) /\ remote'[j].client = remote[j].client
    BY <2>1, <2>2 DEF Ready, Done, IsIn, Handling
  <2>3. \A e, j, d : Knows(e, j, d) => Knows(e, j, d)'
    BY <2>1 DEF Knows
  <2> QED BY <2>2, <2>3, KnowStays
<1> QED BY <1>1, <1>2, <1>3, <1>4, <1>5, <1>6, <1>7, <1>8 DEF Next
-----------------------------------------------------------------------------
(* The theorems.                                                           *)

\* The invariant holds at first.
LEMMA InvInit == Init => RosterInv
<1> SUFFICES ASSUME Init PROVE RosterInv
  OBVIOUS
<1>1. TypeOK
  BY TypeInit
<1>2. CountCovers
  <2>1. Taken = {}
    BY DEF Init, Taken
  <2> QED BY <2>1, FS_EmptySet DEF Init, CountCovers
<1>3. NewGotNothing
  BY DEF Init, NewGotNothing
<1>4. PlayersHaveSlots
  BY DEF Init, PlayersHaveSlots, IsPlaying
<1>5. SlotsAgree /\ LastUserLeft
  BY DEF Init, SlotsAgree, LastUserLeft
<1> QED BY <1>1, <1>2, <1>3, <1>4, <1>5 DEF RosterInv

\* Every step keeps the invariant.
LEMMA InvNext == RosterInv /\ [Next]_vars => RosterInv'
<1> SUFFICES ASSUME RosterInv, [Next]_vars PROVE RosterInv'
  OBVIOUS
<1>1. /\ TypeOK /\ CountCovers /\ SlotInv
      /\ PlayersHaveSlots /\ SlotsAgree
  BY DEF RosterInv, SlotInv
<1>2. TypeOK' /\ SlotInv'
  <2>1. ASSUME NEW c \in Clients, Connect(c) PROVE TypeOK' /\ SlotInv'
    BY <1>1, <2>1, TypeConnect, SlotsConnect
  <2>2. ASSUME NEW c \in Clients, ServerReceives(c) PROVE TypeOK' /\ SlotInv'
    BY <1>1, <2>2, TypeServerReceives, SlotsServerReceives
  <2>3. ASSUME NEW c \in Clients, Leave(c) PROVE TypeOK' /\ SlotInv'
    BY <1>1, <2>3, TypeLeave, SlotsLeave
  <2>4. CASE BeginJoin
    <3>1. UNCHANGED slotVars
      BY <2>4 DEF BeginJoin, slotVars, clientVars
    <3> QED BY <1>1, <2>4, <3>1, TypeBeginJoin, SlotsUnchanged
  <2>5. CASE FinishJoin
    BY <1>1, <2>5, TypeFinishJoin, SlotsFinishJoin
  <2>6. CASE HandleGone
    BY <1>1, <2>6, TypeHandleGone, SlotsHandleGone
  <2>7. ASSUME NEW c \in Clients, ClientReceives(c) PROVE TypeOK' /\ SlotInv'
    BY <1>1, <2>7, TypeClientReceives, SlotsClientReceives
  <2>8. CASE UNCHANGED vars
    <3>1. UNCHANGED slotVars
      BY <2>8 DEF vars, serverVars, clientVars, slotVars
    <3>2. TypeOK'
      BY <1>1, <2>8 DEF vars, serverVars, clientVars, TypeOK
    <3> QED BY <1>1, <3>1, <3>2, SlotsUnchanged
  <2> QED BY <2>1, <2>2, <2>3, <2>4, <2>5, <2>6, <2>7, <2>8 DEF Next
<1>3. CountCovers'
  BY <1>1, CountNext
<1> QED BY <1>2, <1>3 DEF RosterInv, SlotInv

\* The invariant holds in every state that can be reached.
THEOREM RosterInvariant == Spec => []RosterInv
<1>1. Init => RosterInv
  BY InvInit
<1>2. RosterInv /\ [Next]_vars => RosterInv'
  BY InvNext
<1> QED BY <1>1, <1>2, PTL DEF Spec

\* Every variable of the server's and the clients' tables keeps its type:
\* every index a handler is given is one of the table it indexes.
THEOREM TypeCorrect == Spec => []TypeOK
<1>1. RosterInv => TypeOK
  BY DEF RosterInv
<1> QED BY <1>1, RosterInvariant, PTL

\* playerCount of players.cpp never falls below the number of entries in use,
\* whatever the order of joins and leaves.
THEOREM CountNeverShort == Spec => []CountCovers
<1>1. RosterInv => CountCovers
  BY DEF RosterInv
<1> QED BY <1>1, RosterInvariant, PTL

\* A client that plays never takes another player's index for its own, although
\* the server answers whoever is at the index of the join by then.
THEOREM OwnIndex == Spec => []MyIndexIsMine
<1>1. RosterInv => MyIndexIsMine
  <2> SUFFICES ASSUME RosterInv, NEW c \in Clients, IsPlaying(c)
               PROVE  g_myPlayerID[c] = SlotOf(c)
    BY DEF MyIndexIsMine
  <2>1. /\ SlotOf(c) \in Slots
        /\ remote[SlotOf(c)].active /\ remote[SlotOf(c)].client = c
    BY SlotOfPlayer DEF RosterInv
  <2> QED BY <2>1 DEF RosterInv, SlotsAgree
<1> QED BY <1>1, RosterInvariant, PTL

\* The proof of OwnEntry: OwnInv holds in every state if calls are in order.
THEOREM OwnInvariant ==
  ASSUME InOrder
  PROVE  Spec => []OwnInv
<1>1. Init => OwnInv
  BY DEF Init, OwnInv
<1>2. RosterInv /\ OwnInv /\ [Next]_vars => OwnInv'
  BY OwnNext DEF RosterInv, SlotInv
<1> QED BY <1>1, <1>2, RosterInvariant, PTL DEF Spec

\* If calls arrive in order, a client that plays has its own name at its own
\* index: the news about the player who had the index before reach it while
\* netrpc.cpp still drops them, or not at all.
THEOREM OwnEntry ==
  ASSUME InOrder
  PROVE  Spec => []OwnEntryIntact
<1>1. RosterInv /\ OwnInv => OwnEntryIntact
  <2> SUFFICES ASSUME RosterInv, OwnInv, NEW c \in Clients, IsPlaying(c)
               PROVE  playerInfo[c][SlotOf(c)] = c
    BY DEF OwnEntryIntact
  <2>1. /\ SlotOf(c) \in Slots
        /\ remote[SlotOf(c)].active /\ remote[SlotOf(c)].client = c
    BY SlotOfPlayer DEF RosterInv
  <2> QED BY <2>1 DEF OwnInv, KeepsEntry
<1> QED BY <1>1, RosterInvariant, OwnInvariant, PTL

\* If calls arrive in order, each player's ClientJoin is with the player, in the
\* server's queue, being handled or done, and the ends of the connections that
\* had its index before come before it.
THEOREM JoinInvariant ==
  ASSUME InOrder
  PROVE  Spec => []JoinInv
<1>1. Init => JoinInv
  BY DEF Init, JoinInv, IsIn, Handling
<1>2. RosterInv /\ JoinInv /\ [Next]_vars => JoinInv'
  BY JoinNext DEF RosterInv, SlotInv
<1> QED BY <1>1, <1>2, RosterInvariant, PTL DEF Spec

\* If calls arrive in order, of two players whose joins were handled one knows
\* the other, or has the news on its way and nothing later about that index.
THEOREM KnowInvariant ==
  ASSUME InOrder
  PROVE  Spec => []KnowInv
<1>1. Init => KnowInv
  BY DEF Init, KnowInv, Ready
<1>2. RosterInv /\ JoinInv /\ KnowInv /\ [Next]_vars => KnowInv'
  BY KnowNext DEF RosterInv, SlotInv
<1> QED BY <1>1, <1>2, RosterInvariant, JoinInvariant, PTL DEF Spec

\* If calls arrive in order, then once all has arrived, of two players in the

\* game at least one has the other's name at the other's index: news of a join

\* is not lost between the end of the last connection at the index, the

\* indexes that change hands and the welcome of the one it is for.
THEOREM FirstKnows ==
  ASSUME InOrder
  PROVE  Spec => []FirstKnowsSecond
<1>1. RosterInv /\ OwnEntryIntact /\ KnowInv => FirstKnowsSecond
  <2> SUFFICES ASSUME RosterInv, OwnEntryIntact, KnowInv, Quiet,
                      NEW c \in InGame, NEW d \in InGame
               PROVE  \/ playerInfo[c][SlotOf(d)] = d
                      \/ playerInfo[d][SlotOf(c)] = c
    BY DEF FirstKnowsSecond
  <2>1. /\ c \in Clients /\ IsPlaying(c) /\ SlotOf(c) \in Slots
        /\ remote[SlotOf(c)].active /\ remote[SlotOf(c)].client = c
    BY SlotOfPlayer DEF InGame, RosterInv
  <2>2. /\ d \in Clients /\ IsPlaying(d) /\ SlotOf(d) \in Slots
        /\ remote[SlotOf(d)].active /\ remote[SlotOf(d)].client = d
    BY SlotOfPlayer DEF InGame, RosterInv
  <2>3. CASE c = d
    BY <2>1, <2>3 DEF OwnEntryIntact
  <2>4. CASE c # d
    <3>1. ASSUME NEW e \in Clients
          PROVE  Done(e) /\ toClient[e] = <<>>
      BY DEF Quiet, Done, IsIn, Handling
    <3>2. SlotOf(c) # SlotOf(d) /\ Ready(SlotOf(c)) /\ Ready(SlotOf(d))
      BY <2>1, <2>2, <2>4, <3>1 DEF Ready
    <3>3. Knows(c, SlotOf(d), d) \/ Knows(d, SlotOf(c), c)
      BY <2>1, <2>2, <3>2 DEF KnowInv, OneKnows
    <3> QED BY <2>1, <2>2, <3>1, <3>3 DEF Knows
  <2> QED BY <2>3, <2>4
<1> QED BY <1>1, RosterInvariant, OwnEntry, KnowInvariant, PTL
=============================================================================
