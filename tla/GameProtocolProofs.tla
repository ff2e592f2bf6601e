-------------------------- MODULE GameProtocolProofs --------------------------
(***************************************************************************)
(* For every number of clients and every size of the buffers: whatever the *)
(* users, the lobby and the match do, in any order, the messages meet the  *)
(* stage of the client they are meant for, an update names players that    *)
(* the client knows, and the survivors agree with the server about who is  *)
(* in the match.                                                           *)
(***************************************************************************)
EXTENDS GameProtocol, SequenceLemmas

-----------------------------------------------------------------------------
(* The inductive invariant.                                                *)

\* The order in which a connection carries messages: those of the lobby, the
\* packet that creates the players, those of the match.
Rank(m) == IF m.type \in {"QUE", "T"} THEN 0 ELSE IF m.type = "NCP" THEN 1 ELSE 2

InOrder(d) ==
  \A i, j \in DOMAIN d : i < j => /\ Rank(d[i]) <= Rank(d[j])
                                  /\ Rank(d[j]) = 1 => Rank(d[i]) = 0

Creates(d) == \E i \in DOMAIN d : d[i].type = "NCP"

Created(d) == UNION {d[i].ids : i \in {i \in DOMAIN d : d[i].type = "NCP"}}

\* The players that the kills among the first messages name.
Gone(d, n) ==
  UNION {d[j].ids : j \in {j \in DOMAIN d : d[j].type = "K" /\ j <= n}}

InGame(p) == stage[p] = "game" /\ iniciated[p]

\* GameManager: what a frame has requested, and that there is a connection.
FrameInv(p) ==
  /\ step[p] = "input" => ~ shouldReset[p] /\ ~ stageShouldChange[p]
  /\ step[p] = "read" => InGame(p) /\ ~ stageShouldChange[p]
  /\ step[p] = "end" =>
       /\ stage[p] # "exit"
       /\ shouldReset[p] <=> ~ stageShouldChange[p]
       /\ stage[p] = "login" => stageShouldChange[p]
       /\ stage[p] = "game" => shouldReset[p] /\ iniciated[p]
  /\ stage[p] = "login" => IF step[p] = "input" THEN conn[p] \in {"none", "left"}
                           ELSE conn[p] \in {"open", "cut"}
  /\ stage[p] \in {"select", "queue", "game"} => conn[p] \in {"open", "cut"}
  /\ stage[p] = "exit" => conn[p] = "left"
  /\ iniciated[p] => stage[p] \in {"game", "exit"}
  /\ conn[p] = "none" => place[p] = "outside"
  /\ conn[p] = "left" => down[p] = <<>>
  /\ conn[p] = "cut" => place[p] \in {"dropped", "out"}

\* The messages on their way to a client.
ChannelInv(p) ==
  /\ InOrder(down[p])
  /\ \A i \in DOMAIN down[p] : down[p][i].type = "trash" => i = 1 /\ stage[p] = "queue"
  /\ HeaderRead(p) => down[p] # <<>> /\ down[p][1].type = "NCP"
  /\ InGame(p) => \A i \in DOMAIN down[p] : Rank(down[p][i]) = 2
  /\ \/ InGame(p) \/ p \in missed \/ Creates(down[p])
     \/ /\ \A i \in DOMAIN down[p] : Rank(down[p][i]) # 2
        /\ ~ (p \in clients /\ conn[p] = "open")
  /\ place[p] \in {"outside", "choosing", "waiting"} =>
       ~ iniciated[p] /\ \A i \in DOMAIN down[p] : Rank(down[p][i]) = 0

\* The keys of the map "players" of a client, or what they are going to be.
Opponents(p) ==
  IF InGame(p) THEN known[p]
  ELSE Created(down[p]) \ {p}

\* The players of the match when the kills are done that were announced.
Staying == IF phase = "reap" THEN clients \ ToSet(invalid) ELSE clients

MapInv(p) ==
  InGame(p) \/ Creates(down[p]) =>
    /\ p \notin Opponents(p)
    /\ \A i \in DOMAIN down[p] :
         down[p][i].type = "NUP" => down[p][i].ids \subseteq Opponents(p) \ Gone(down[p], i)
    /\ p \in clients =>
         Staying \ {p} \subseteq Opponents(p) \ Gone(down[p], Len(down[p]))
    /\ p \in clients /\ p \notin missed =>
         Opponents(p) \ Gone(down[p], Len(down[p])) \subseteq Staying

\* The match: nobody is killed twice in a round.
MatchInv ==
  /\ \A p \in Players : place[p] = "playing" <=> p \in clients
  /\ phase \in {"none", "over"} => clients = {} /\ invalid = <<>>
  /\ \A i, j \in DOMAIN invalid : invalid[i] = invalid[j] => i = j
  /\ ToSet(invalid) \subseteq clients
  /\ phase = "receive" => ToSet(invalid) \cap todo = {}
  /\ phase = "reap" => todo = {}

PlayerInv(p) == FrameInv(p) /\ ChannelInv(p) /\ MapInv(p)

SessionInv == TypeOK /\ MatchInv /\ \A p \in Players : PlayerInv(p)

-----------------------------------------------------------------------------
(* Messages on their way: what a connection does with them.                *)

Channel == Seq(Message)

LEMMA ChannelType ==
  ASSUME NEW d \in Channel
  PROVE  /\ Len(d) \in Nat /\ DOMAIN d = 1 .. Len(d)
         /\ d # <<>> <=> Len(d) # 0
         /\ d # <<>> => 1 \in DOMAIN d /\ Head(d) = d[1]
         /\ \A i \in DOMAIN d : /\ d[i] \in Message
                                /\ Rank(d[i]) \in 0 .. 2
                                /\ Rank(d[i]) = 1 <=> d[i].type = "NCP"
                                /\ d[i].ids \subseteq Players
<1>1. d \in Seq(Message) /\ Len(d) \in Nat /\ DOMAIN d = 1 .. Len(d)
  BY LenProperties DEF Channel
<1>2. d # <<>> <=> Len(d) # 0
  BY <1>1, EmptySeq
<1>3. d # <<>> => 1 \in DOMAIN d /\ Head(d) = d[1]
  BY <1>1, <1>2
<1>4. ASSUME NEW i \in DOMAIN d
      PROVE  /\ d[i] \in Message /\ Rank(d[i]) \in 0 .. 2
             /\ Rank(d[i]) = 1 <=> d[i].type = "NCP"
             /\ d[i].ids \subseteq Players
  <2>1. d[i] \in Message
    BY <1>1, <1>4, ElementOfSeq
  <2>2. QED BY <2>1 DEF Message, Rank
<1>5. QED BY <1>1, <1>2, <1>3, <1>4

LEMMA GoneElement ==
  ASSUME NEW d, NEW n, NEW v
  PROVE  v \in Gone(d, n) <=> \E j \in DOMAIN d : d[j].type = "K" /\ j <= n /\ v \in d[j].ids
BY DEF Gone

LEMMA CreatedElement ==
  ASSUME NEW d, NEW v
  PROVE  v \in Created(d) <=> \E j \in DOMAIN d : d[j].type = "NCP" /\ v \in d[j].ids
BY DEF Created

\* Nothing is on its way.
LEMMA EmptyChannel ==
  /\ <<>> \in Channel /\ Len(<<>>) = 0 /\ DOMAIN <<>> = {}
  /\ InOrder(<<>>) /\ ~ Creates(<<>>)
<1>1. <<>> \in Channel /\ Len(<<>>) = 0
  BY EmptySeq DEF Channel
<1>2. DOMAIN <<>> = {}
  OBVIOUS
<1>3. QED BY <1>1, <1>2 DEF InOrder, Creates

\* The packet that creates the players comes after the messages of the lobby
\* and before those of the match.
LEMMA CreationFirst ==
  ASSUME NEW d \in Channel, InOrder(d), NEW k \in DOMAIN d, d[k].type = "NCP"
  PROVE  /\ Created(d) = d[k].ids
         /\ \A i \in DOMAIN d : (i < k => Rank(d[i]) = 0) /\ (i > k => Rank(d[i]) = 2)
<1>1. Rank(d[k]) = 1 /\ DOMAIN d \subseteq Nat /\ k \in Nat
  BY ChannelType
<1>2. \A i \in DOMAIN d : i < k => Rank(d[i]) = 0
  BY <1>1 DEF InOrder
<1>3. ASSUME NEW i \in DOMAIN d, i > k PROVE Rank(d[i]) = 2
  <2>1. Rank(d[k]) <= Rank(d[i]) /\ Rank(d[i]) \in 0 .. 2
    BY <1>1, <1>3, ChannelType DEF InOrder
  <2>2. Rank(d[i]) # 1
    BY <1>1, <1>3 DEF InOrder
  <2>3. QED BY <1>1, <2>1, <2>2
<1>4. \A i \in DOMAIN d : d[i].type = "NCP" => i = k
  <2> SUFFICES ASSUME NEW i \in DOMAIN d, d[i].type = "NCP" PROVE i = k
    OBVIOUS
  <2>1. Rank(d[i]) = 1 /\ i \in Nat
    BY <1>1, ChannelType
  <2>2. ~ (i < k) /\ ~ (i > k)
    BY <1>2, <1>3, <2>1
  <2>3. QED BY <1>1, <2>1, <2>2
<1>5. Created(d) = d[k].ids
  BY <1>4, CreatedElement
<1>6. QED BY <1>2, <1>3, <1>5

\* The first message is read.
LEMMA TailChannel ==
  ASSUME NEW d \in Channel, d # <<>>
  PROVE  /\ Tail(d) \in Channel /\ Len(Tail(d)) = Len(d) - 1
         /\ \A i \in DOMAIN Tail(d) : i + 1 \in DOMAIN d /\ Tail(d)[i] = d[i + 1]
         /\ InOrder(d) => InOrder(Tail(d))
         /\ d[1].type # "NCP" => /\ Creates(Tail(d)) <=> Creates(d)
                                 /\ Created(Tail(d)) = Created(d)
         /\ \A i \in 0 .. Len(d) - 1 :
              Gone(d, i + 1) = Gone(Tail(d), i) \union
                                 (IF d[1].type = "K" THEN d[1].ids ELSE {})
<1> DEFINE e == Tail(d)
<1>1. /\ d \in Seq(Message) /\ Len(d) \in Nat /\ Len(d) # 0 /\ DOMAIN d = 1 .. Len(d)
      /\ 1 \in DOMAIN d
  BY ChannelType DEF Channel
<1>2. /\ e \in Channel /\ Len(e) = Len(d) - 1
      /\ \A i \in 1 .. Len(e) : e[i] = d[i + 1]
  BY <1>1, HeadTailProperties DEF Channel
<1> HIDE DEF e
<1>3. DOMAIN e = 1 .. Len(d) - 1
  BY <1>2, ChannelType
<1>4. \A i \in DOMAIN e : i + 1 \in DOMAIN d /\ e[i] = d[i + 1]
  BY <1>1, <1>2, <1>3
<1>5. \A i \in DOMAIN d : i # 1 => i - 1 \in DOMAIN e /\ d[i] = e[i - 1]
  <2> SUFFICES ASSUME NEW i \in DOMAIN d, i # 1
               PROVE  i - 1 \in DOMAIN e /\ d[i] = e[i - 1]
    OBVIOUS
  <2>1. i \in Nat /\ i - 1 \in DOMAIN e /\ (i - 1) + 1 = i
    BY <1>1, <1>3
  <2>2. QED BY <1>4, <2>1
<1>6. ASSUME InOrder(d) PROVE InOrder(e)
  <2> SUFFICES ASSUME NEW i \in DOMAIN e, NEW j \in DOMAIN e, i < j
               PROVE  Rank(e[i]) <= Rank(e[j]) /\ (Rank(e[j]) = 1 => Rank(e[i]) = 0)
    BY DEF InOrder
  <2>1. i + 1 \in DOMAIN d /\ j + 1 \in DOMAIN d /\ i + 1 < j + 1
    BY <1>3, <1>4
  <2>2. QED BY <1>4, <1>6, <2>1 DEF InOrder
<1>7. ASSUME d[1].type # "NCP"
      PROVE  (Creates(e) <=> Creates(d)) /\ Created(e) = Created(d)
  <2>1. Creates(e) <=> Creates(d)
    BY <1>4, <1>5, <1>7 DEF Creates
  <2>2. \A v : v \in Created(e) <=> v \in Created(d)
    BY <1>4, <1>5, <1>7, CreatedElement
  <2>3. QED BY <2>1, <2>2
<1>8. ASSUME NEW n \in 0 .. Len(d) - 1
      PROVE  Gone(d, n + 1) = Gone(e, n) \union (IF d[1].type = "K" THEN d[1].ids ELSE {})
  <2>1. ASSUME NEW v \in Gone(d, n + 1)
        PROVE  v \in Gone(e, n) \union (IF d[1].type = "K" THEN d[1].ids ELSE {})
    <3>1. PICK j \in DOMAIN d : d[j].type = "K" /\ j <= n + 1 /\ v \in d[j].ids
      BY GoneElement
    <3>2. CASE j # 1
      <4>1. j - 1 \in DOMAIN e /\ d[j] = e[j - 1] /\ j - 1 <= n
        BY <1>1, <1>5, <3>1, <3>2
      <4>2. QED BY <3>1, <4>1, GoneElement
    <3>3. QED BY <3>1, <3>2
  <2>2. ASSUME NEW v \in Gone(e, n) PROVE v \in Gone(d, n + 1)
    <3>1. PICK j \in DOMAIN e : e[j].type = "K" /\ j <= n /\ v \in e[j].ids
      BY GoneElement
    <3>2. j + 1 \in DOMAIN d /\ d[j + 1] = e[j] /\ j + 1 <= n + 1
      BY <1>3, <1>4, <3>1
    <3>3. QED BY <3>1, <3>2, GoneElement
  <2>3. d[1].type = "K" => d[1].ids \subseteq Gone(d, n + 1)
    <3>1. 1 <= n + 1
      OBVIOUS
    <3>2. QED BY <1>1, <3>1, GoneElement
  <2>4. QED BY <2>1, <2>2, <2>3
<1>9. QED BY <1>2, <1>4, <1>6, <1>7, <1>8 DEF e

\* The connection is closed, and the last messages are lost.
LEMMA PrefixChannel ==
  ASSUME NEW d \in Channel, NEW n \in 0 .. Len(d)
  PROVE  LET e == SubSeq(d, 1, n)
         IN  /\ e \in Channel /\ Len(e) = n /\ DOMAIN e = 1 .. n
             /\ \A i \in DOMAIN e : i \in DOMAIN d /\ e[i] = d[i]
             /\ InOrder(d) => InOrder(e)
             /\ Creates(e) => Creates(d)
             /\ InOrder(d) /\ Creates(e) => Created(e) = Created(d)
             /\ \A i \in DOMAIN e : Gone(e, i) = Gone(d, i)
             /\ n = Len(d) => e = d
<1> DEFINE e == SubSeq(d, 1, n)
<1>1. d \in Seq(Message) /\ Len(d) \in Nat /\ DOMAIN d = 1 .. Len(d)
  BY ChannelType DEF Channel
<1>2. e \in Channel /\ Len(e) = n /\ \A i \in 1 .. n : e[i] = d[i]
  <2>1. \A i \in 1 .. n : d[i] \in Message
    BY <1>1, ChannelType
  <2>2. /\ e \in Seq(Message)
        /\ Len(e) = IF 1 <= n THEN n - 1 + 1 ELSE 0
        /\ \A i \in 1 .. n - 1 + 1 : e[i] = d[1 + i - 1]
    BY <2>1, SubSeqProperties
  <2>3. \A i \in 1 .. n : i \in 1 .. n - 1 + 1 /\ 1 + i - 1 = i
    OBVIOUS
  <2> HIDE DEF e
  <2>4. QED BY <2>2, <2>3 DEF Channel
<1> HIDE DEF e
<1>3. DOMAIN e = 1 .. n
  BY <1>2, ChannelType
<1>4. \A i \in DOMAIN e : i \in DOMAIN d /\ e[i] = d[i]
  BY <1>1, <1>2, <1>3
<1>5. InOrder(d) => InOrder(e)
  BY <1>4 DEF InOrder
<1>6. Creates(e) => Creates(d)
  BY <1>4 DEF Creates
<1>7. ASSUME InOrder(d), Creates(e) PROVE Created(e) = Created(d)
  <2>1. PICK k \in DOMAIN e : e[k].type = "NCP"
    BY <1>7 DEF Creates
  <2>2. Created(e) = e[k].ids
    BY <1>2, <1>5, <1>7, <2>1, CreationFirst
  <2>3. k \in DOMAIN d /\ d[k] = e[k]
    BY <1>4, <2>1
  <2>4. Created(d) = d[k].ids
    BY <1>7, <2>1, <2>3, CreationFirst
  <2>5. QED BY <2>2, <2>3, <2>4
<1>8. ASSUME NEW i \in DOMAIN e PROVE Gone(e, i) = Gone(d, i)
  <2>1. \A j \in DOMAIN d : j <= i => j \in DOMAIN e
    BY <1>1, <1>3
  <2>2. \A v : v \in Gone(e, i) <=> v \in Gone(d, i)
    BY <1>4, <2>1, GoneElement
  <2>3. QED BY <2>2
<1>9. n = Len(d) => e = d
  BY <1>1, SubSeqFull DEF e
<1>10. QED BY <1>2, <1>3, <1>4, <1>5, <1>6, <1>7, <1>8, <1>9 DEF e

\* More messages are sent.
LEMMA LongerChannel ==
  ASSUME NEW d \in Channel, NEW e \in Channel
  PROVE  LET f == d \o e
         IN  /\ f \in Channel /\ Len(f) = Len(d) + Len(e)
             /\ \A i \in DOMAIN d : i \in DOMAIN f /\ f[i] = d[i]
             /\ \A i \in DOMAIN e : Len(d) + i \in DOMAIN f /\ f[Len(d) + i] = e[i]
             /\ \A i \in DOMAIN f : \/ i \in DOMAIN d
                                    \/ \E j \in DOMAIN e : i = Len(d) + j
             /\ Creates(f) <=> Creates(d) \/ Creates(e)
             /\ Created(f) = Created(d) \union Created(e)
             /\ \A i \in DOMAIN d : Gone(f, i) = Gone(d, i)
             /\ \A i \in DOMAIN e : Gone(f, Len(d) + i) = Gone(d, Len(d)) \union Gone(e, i)
             /\ Gone(f, Len(f)) = Gone(d, Len(d)) \union Gone(e, Len(e))
<1> DEFINE f == d \o e
<1>1. /\ Len(d) \in Nat /\ DOMAIN d = 1 .. Len(d) /\ d \in Seq(Message)
      /\ Len(e) \in Nat /\ DOMAIN e = 1 .. Len(e) /\ e \in Seq(Message)
  BY ChannelType DEF Channel
<1>2. /\ f \in Channel /\ Len(f) = Len(d) + Len(e)
      /\ \A i \in 1 .. Len(d) + Len(e) : f[i] = IF i <= Len(d) THEN d[i] ELSE e[i - Len(d)]
  BY <1>1, ConcatProperties DEF Channel
<1> HIDE DEF f
<1>3. DOMAIN f = 1 .. Len(d) + Len(e)
  BY <1>2, ChannelType
<1>4. \A i \in DOMAIN d : i \in DOMAIN f /\ f[i] = d[i]
  BY <1>1, <1>2, <1>3
<1>5. ASSUME NEW i \in DOMAIN e PROVE Len(d) + i \in DOMAIN f /\ f[Len(d) + i] = e[i]
  <2>1. Len(d) + i \in 1 .. Len(d) + Len(e) /\ ~ (Len(d) + i <= Len(d))
        /\ (Len(d) + i) - Len(d) = i
    BY <1>1
  <2>2. QED BY <1>2, <1>3, <2>1
<1>6. ASSUME NEW i \in DOMAIN f, i \notin DOMAIN d PROVE \E j \in DOMAIN e : i = Len(d) + j
  <2>1. i - Len(d) \in DOMAIN e /\ i = Len(d) + (i - Len(d))
    BY <1>1, <1>3, <1>6
  <2>2. QED BY <2>1
<1>7. Creates(f) <=> Creates(d) \/ Creates(e)
  BY <1>4, <1>5, <1>6 DEF Creates
<1>8. Created(f) = Created(d) \union Created(e)
  <2>1. \A v : v \in Created(f) => v \in Created(d) \/ v \in Created(e)
    BY <1>4, <1>5, <1>6, CreatedElement
  <2>2. \A v : v \in Created(d) \/ v \in Created(e) => v \in Created(f)
    BY <1>4, <1>5, CreatedElement
  <2>3. QED BY <2>1, <2>2
<1>9. ASSUME NEW i \in DOMAIN d PROVE Gone(f, i) = Gone(d, i)
  <2>1. \A j \in DOMAIN f : j <= i => j \in DOMAIN d
    BY <1>1, <1>3
  <2>2. \A v : v \in Gone(f, i) <=> v \in Gone(d, i)
    BY <1>4, <2>1, GoneElement
  <2>3. QED BY <2>2
<1>10. ASSUME NEW n \in 0 .. Len(e)
       PROVE  Gone(f, Len(d) + n) = Gone(d, Len(d)) \union Gone(e, n)
  <2>1. ASSUME NEW v \in Gone(f, Len(d) + n) PROVE v \in Gone(d, Len(d)) \union Gone(e, n)
    <3>1. PICK j \in DOMAIN f : f[j].type = "K" /\ j <= Len(d) + n /\ v \in f[j].ids
      BY GoneElement
    <3>2. CASE j \in DOMAIN d
      <4>1. j <= Len(d)
        BY <1>1, <3>2
      <4>2. QED BY <1>4, <3>1, <3>2, <4>1, GoneElement
    <3>3. CASE j \notin DOMAIN d
      <4>1. PICK k \in DOMAIN e : j = Len(d) + k
        BY <1>6, <3>3
      <4>2. k <= n /\ f[j] = e[k]
        BY <1>1, <1>5, <3>1, <4>1
      <4>3. QED BY <3>1, <4>2, GoneElement
    <3>4. QED BY <3>2, <3>3
  <2>2. ASSUME NEW v \in Gone(d, Len(d)) PROVE v \in Gone(f, Len(d) + n)
    <3>1. PICK j \in DOMAIN d : d[j].type = "K" /\ v \in d[j].ids
      BY GoneElement
    <3>2. j <= Len(d) + n
      BY <1>1
    <3>3. QED BY <1>4, <3>1, <3>2, GoneElement
  <2>3. ASSUME NEW v \in Gone(e, n) PROVE v \in Gone(f, Len(d) + n)
    <3>1. PICK j \in DOMAIN e : e[j].type = "K" /\ j <= n /\ v \in e[j].ids
      BY GoneElement
    <3>2. Len(d) + j <= Len(d) + n
      BY <1>1, <3>1
    <3>3. QED BY <1>5, <3>1, <3>2, GoneElement
  <2>4. QED BY <2>1, <2>2, <2>3
<1>11. Gone(f, Len(f)) = Gone(d, Len(d)) \union Gone(e, Len(e))
  BY <1>1, <1>2, <1>10
<1>12. \A i \in DOMAIN e : Gone(f, Len(d) + i) = Gone(d, Len(d)) \union Gone(e, i)
  BY <1>1, <1>10
<1>13. QED BY <1>2, <1>4, <1>5, <1>6, <1>7, <1>8, <1>9, <1>11, <1>12 DEF f

LEMMA LongerOrder ==
  ASSUME NEW d \in Channel, NEW e \in Channel, InOrder(d), InOrder(e),
         \A i \in DOMAIN d, j \in DOMAIN e :
           Rank(d[i]) <= Rank(e[j]) /\ (Rank(e[j]) = 1 => Rank(d[i]) = 0)
  PROVE  InOrder(d \o e)
<1> DEFINE f == d \o e
<1>1. Len(d) \in Nat /\ DOMAIN d = 1 .. Len(d) /\ Len(e) \in Nat /\ DOMAIN e = 1 .. Len(e)
  BY ChannelType
<1>2. /\ \A i \in DOMAIN d : i \in DOMAIN f /\ f[i] = d[i]
      /\ \A i \in DOMAIN e : Len(d) + i \in DOMAIN f /\ f[Len(d) + i] = e[i]
      /\ \A i \in DOMAIN f : \/ i \in DOMAIN d
                             \/ \E j \in DOMAIN e : i = Len(d) + j
  BY LongerChannel
<1> HIDE DEF f
<1>3. ASSUME NEW i \in DOMAIN f, NEW j \in DOMAIN f, i < j
      PROVE  Rank(f[i]) <= Rank(f[j]) /\ (Rank(f[j]) = 1 => Rank(f[i]) = 0)
  <2>1. CASE i \in DOMAIN d /\ j \in DOMAIN d
    BY <1>2, <1>3, <2>1 DEF InOrder
  <2>2. CASE i \in DOMAIN d /\ j \notin DOMAIN d
    <3>1. PICK l \in DOMAIN e : j = Len(d) + l
      BY <1>2, <2>2
    <3>2. QED BY <1>2, <2>2, <3>1
  <2>3. CASE i \notin DOMAIN d
    <3>1. PICK k \in DOMAIN e : i = Len(d) + k
      BY <1>2, <2>3
    <3>2. j \notin DOMAIN d
      BY <1>1, <1>3, <3>1
    <3>3. PICK l \in DOMAIN e : j = Len(d) + l
      BY <1>2, <3>2
    <3>4. k < l
      BY <1>1, <1>3, <3>1, <3>3
    <3>5. QED BY <1>2, <3>1, <3>3, <3>4 DEF InOrder
  <2>4. QED BY <2>1, <2>2, <2>3
<1>4. QED BY <1>3 DEF InOrder, f

-----------------------------------------------------------------------------
(* What the invariant says of one client.                                  *)

LEMMA SessionTypes ==
  ASSUME SessionInv, NEW p \in Players
  PROVE  /\ PlayerInv(p) /\ TypeOK /\ ClientTypeOK /\ MatchInv
         /\ down[p] \in Channel /\ Len(down[p]) \in Nat /\ Len(down[p]) <= Buffer
BY ChannelType DEF SessionInv, TypeOK, ClientTypeOK, Channel

\* Nothing that concerns the client has happened.
LEMMA OtherClient ==
  ASSUME NEW q \in Players, PlayerInv(q),
         stage'[q] = stage[q], step'[q] = step[q], shouldReset'[q] = shouldReset[q],
         stageShouldChange'[q] = stageShouldChange[q], iniciated'[q] = iniciated[q],
         known'[q] = known[q], conn'[q] = conn[q], down'[q] = down[q], place'[q] = place[q],
         q \in missed' <=> q \in missed,
         q \in clients' => q \in clients /\ Staying' = Staying
  PROVE  PlayerInv(q)'
<1> USE DEF PlayerInv
<1>1. InGame(q)' = InGame(q) /\ HeaderRead(q)' = HeaderRead(q)
  BY DEF InGame, HeaderRead
<1>2. Opponents(q)' = Opponents(q)
  BY <1>1 DEF Opponents
<1>3. FrameInv(q)'
  BY <1>1 DEF FrameInv
<1>4. ChannelInv(q)'
  BY <1>1 DEF ChannelInv
<1>5. MapInv(q)'
  BY <1>1, <1>2 DEF MapInv
<1>6. QED BY <1>3, <1>4, <1>5

\* What the other clients have is what it was.
OthersKeep(p) ==
  \A q \in Players \ {p} :
    /\ stage'[q] = stage[q] /\ step'[q] = step[q] /\ shouldReset'[q] = shouldReset[q]
    /\ stageShouldChange'[q] = stageShouldChange[q] /\ iniciated'[q] = iniciated[q]
    /\ known'[q] = known[q] /\ conn'[q] = conn[q] /\ down'[q] = down[q]

\* A client program takes a step, of which the server does not know.
LEMMA ClientSide ==
  ASSUME SessionInv, NEW p \in Players, UNCHANGED serverVars, OthersKeep(p),
         ClientTypeOK', FrameInv(p)', ChannelInv(p)', MapInv(p)'
  PROVE  SessionInv'
<1> USE DEF SessionInv, serverVars, matchVars
<1>1. Staying' = Staying
  BY DEF Staying
<1>2. \A q \in Players \ {p} : PlayerInv(q)'
  BY <1>1, OtherClient DEF OthersKeep
<1>3. PlayerInv(p)'
  BY DEF PlayerInv
<1>4. MatchInv' /\ TypeOK'
  BY DEF MatchInv, TypeOK
<1>5. QED BY <1>2, <1>3, <1>4

\* The messages stay where they are.
LEMMA KeepMessages ==
  ASSUME NEW p \in Players, PlayerInv(p), UNCHANGED serverVars,
         down'[p] = down[p], known'[p] = known[p], InGame(p)' = InGame(p),
         iniciated'[p] => iniciated[p],
         conn'[p] = "open" => conn[p] = "open" \/ place[p] # "playing",
         place[p] = "playing" <=> p \in clients,
         HeaderRead(p)' => HeaderRead(p) \/ Receives(p, {"NCP"}),
         stage'[p] = stage[p] \/ Receives(p, {"NCP"}) \/ stage[p] # "queue",
         down[p] \in Channel
  PROVE  ChannelInv(p)' /\ MapInv(p)'
<1> USE DEF PlayerInv, serverVars, matchVars
<1>1. Opponents(p)' = Opponents(p) /\ Staying' = Staying
  BY DEF Opponents, Staying
<1>2. MapInv(p)'
  BY <1>1 DEF MapInv
<1>3. Receives(p, {"NCP"}) => down[p] # <<>> /\ down[p][1].type = "NCP" /\ 1 \in DOMAIN down[p]
  BY ChannelType DEF Receives
<1>4. \A i \in DOMAIN down[p] : down[p][i].type = "trash" => i = 1 /\ stage'[p] = "queue"
  BY <1>3 DEF ChannelInv
<1>5. ChannelInv(p)'
  BY <1>3, <1>4 DEF ChannelInv
<1>6. QED BY <1>2, <1>5

\* The connection is gone, and with it all messages.
LEMMA NoMessages ==
  ASSUME NEW p \in Players, down'[p] = <<>>, ~ InGame(p)', ~ HeaderRead(p)',
         conn'[p] # "open", place'[p] \in {"outside", "choosing", "waiting"} => ~ iniciated'[p]
  PROVE  ChannelInv(p)' /\ MapInv(p)'
<1>1. DOMAIN down'[p] = {} /\ InOrder(down'[p]) /\ ~ Creates(down'[p])
  BY EmptyChannel
<1>2. QED BY <1>1 DEF ChannelInv, MapInv

-----------------------------------------------------------------------------
(* The stages of a client.                                                 *)

LEMMA LoginStep ==
  ASSUME SessionInv, NEW p \in Players, Login(p), UNCHANGED serverVars
  PROVE  SessionInv'
<1> USE DEF Login, At, setChangeState, Then, gameVars
<1>1. PlayerInv(p) /\ ClientTypeOK /\ MatchInv /\ down[p] \in Channel
  BY SessionTypes
<1>2. OthersKeep(p)
  BY <1>1 DEF OthersKeep, ClientTypeOK
<1>3. ClientTypeOK'
  BY <1>1 DEF ClientTypeOK
<1>4. /\ conn[p] = "none" /\ conn'[p] = "open" /\ stage[p] = "login" /\ step[p] = "input"
      /\ stage'[p] = "login" /\ step'[p] = "end" /\ stageShouldChange'[p]
      /\ shouldReset'[p] = shouldReset[p] /\ iniciated'[p] = iniciated[p]
      /\ known'[p] = known[p] /\ down'[p] = down[p] /\ place'[p] = place[p]
  BY <1>1 DEF ClientTypeOK, serverVars
<1>5. FrameInv(p)'
  BY <1>1, <1>4 DEF FrameInv, PlayerInv, InGame
<1>6. place[p] = "outside" /\ (place[p] = "playing" <=> p \in clients)
  BY <1>1, <1>4 DEF FrameInv, PlayerInv, MatchInv
<1>7. InGame(p)' = InGame(p) /\ ~ HeaderRead(p)'
  BY <1>4 DEF InGame, HeaderRead
<1>8. ChannelInv(p)' /\ MapInv(p)'
  BY <1>1, <1>4, <1>6, <1>7, KeepMessages
<1>9. QED BY <1>2, <1>3, <1>5, <1>8, ClientSide

\* What a client program sends.
LEMMA SendUpType ==
  ASSUME ClientTypeOK, NEW p \in Players, NEW m \in {"QUE", "NUP"}, SendUp(p, m)
  PROVE  up' \in [Players -> Seq({"QUE", "NUP"})] /\ \A q \in Players : Len(up'[q]) <= UpBuffer
<1> DEFINE u == IF CanSend(p) THEN Append(up[p], m) ELSE up[p]
<1>1. up[p] \in Seq({"QUE", "NUP"}) /\ Len(up[p]) <= UpBuffer /\ UpBuffer \in Nat
  BY ClientAssumption DEF ClientTypeOK
<1>2. u \in Seq({"QUE", "NUP"}) /\ Len(u) <= UpBuffer
  <2>1. CASE CanSend(p)
    <3>1. u = Append(up[p], m) /\ Len(up[p]) < UpBuffer /\ Len(up[p]) \in Nat
      BY <1>1, <2>1, LenProperties DEF CanSend
    <3>2. Append(up[p], m) \in Seq({"QUE", "NUP"}) /\ Len(Append(up[p], m)) = Len(up[p]) + 1
      BY <1>1, AppendProperties
    <3>3. QED BY <1>1, <3>1, <3>2
  <2>2. CASE ~ CanSend(p)
    BY <1>1, <2>2
  <2>3. QED BY <2>1, <2>2
<1>3. up' = [up EXCEPT ![p] = u]
  BY DEF SendUp, CanSend, ClientTypeOK
<1> HIDE DEF u
<1>4. QED BY <1>2, <1>3 DEF ClientTypeOK

LEMMA SelectStep ==
  ASSUME SessionInv, NEW p \in Players, Select(p), UNCHANGED serverVars
  PROVE  SessionInv'
<1> USE DEF Select, At, setChangeState, resetRequest, Then, gameVars
<1>1. PlayerInv(p) /\ ClientTypeOK /\ MatchInv /\ down[p] \in Channel
  BY SessionTypes
<1>2. OthersKeep(p)
  BY <1>1 DEF OthersKeep, ClientTypeOK
<1>3. ClientTypeOK'
  <2>1. up' \in [Players -> Seq({"QUE", "NUP"})] /\ \A q \in Players : Len(up'[q]) <= UpBuffer
    BY <1>1, SendUpType
  <2>2. QED BY <1>1, <2>1 DEF ClientTypeOK
<1>4. /\ stage[p] = "select" /\ step[p] = "input" /\ stage'[p] = "select" /\ step'[p] = "end"
      /\ \/ stageShouldChange'[p] /\ shouldReset'[p] = shouldReset[p]
         \/ stageShouldChange'[p] = stageShouldChange[p] /\ shouldReset'[p]
      /\ conn'[p] = conn[p] /\ iniciated'[p] = iniciated[p]
      /\ known'[p] = known[p] /\ down'[p] = down[p] /\ place'[p] = place[p]
  BY <1>1 DEF ClientTypeOK, serverVars
<1>5. FrameInv(p)'
  BY <1>1, <1>4 DEF FrameInv, PlayerInv, InGame
<1>6. place[p] = "playing" <=> p \in clients
  BY <1>1 DEF MatchInv
<1>7. InGame(p)' = InGame(p) /\ ~ HeaderRead(p)'
  BY <1>4 DEF InGame, HeaderRead
<1>8. ChannelInv(p)' /\ MapInv(p)'
  BY <1>1, <1>4, <1>6, <1>7, KeepMessages
<1>9. QED BY <1>2, <1>3, <1>5, <1>8, ClientSide

LEMMA QueueTimeoutStep ==
  ASSUME SessionInv, NEW p \in Players, QueueTimeout(p), UNCHANGED serverVars
  PROVE  SessionInv'
<1> USE DEF QueueTimeout, At, resetRequest, Then, gameVars
<1>1. PlayerInv(p) /\ ClientTypeOK /\ MatchInv /\ down[p] \in Channel
  BY SessionTypes
<1>2. OthersKeep(p)
  BY <1>1 DEF OthersKeep, ClientTypeOK
<1>3. ClientTypeOK'
  BY <1>1 DEF ClientTypeOK
<1>4. /\ stage[p] = "queue" /\ step[p] = "input" /\ stage'[p] = "queue" /\ step'[p] = "end"
      /\ stageShouldChange'[p] = stageShouldChange[p] /\ shouldReset'[p]
      /\ conn'[p] = conn[p] /\ iniciated'[p] = iniciated[p]
      /\ known'[p] = known[p] /\ down'[p] = down[p] /\ place'[p] = place[p]
  BY <1>1 DEF ClientTypeOK, serverVars
<1>5. FrameInv(p)'
  BY <1>1, <1>4 DEF FrameInv, PlayerInv, InGame
<1>6. place[p] = "playing" <=> p \in clients
  BY <1>1 DEF MatchInv
<1>7. InGame(p)' = InGame(p) /\ (HeaderRead(p)' => HeaderRead(p))
  BY <1>4 DEF InGame, HeaderRead
<1>8. ChannelInv(p)' /\ MapInv(p)'
  BY <1>1, <1>4, <1>6, <1>7, KeepMessages
<1>9. QED BY <1>2, <1>3, <1>5, <1>8, ClientSide

LEMMA QueueCreateStep ==
  ASSUME SessionInv, NEW p \in Players, QueueCreate(p), UNCHANGED serverVars
  PROVE  SessionInv'
<1> USE DEF QueueCreate, At, setChangeState, Then, gameVars
<1>1. PlayerInv(p) /\ ClientTypeOK /\ MatchInv /\ down[p] \in Channel
  BY SessionTypes
<1>2. OthersKeep(p)
  BY <1>1 DEF OthersKeep, ClientTypeOK
<1>3. ClientTypeOK'
  BY <1>1 DEF ClientTypeOK
<1>4. /\ stage[p] = "queue" /\ step[p] = "input" /\ stage'[p] = "queue" /\ step'[p] = "end"
      /\ stageShouldChange'[p] /\ shouldReset'[p] = shouldReset[p]
      /\ conn'[p] = conn[p] /\ iniciated'[p] = iniciated[p]
      /\ known'[p] = known[p] /\ down'[p] = down[p] /\ place'[p] = place[p]
  BY <1>1 DEF ClientTypeOK, serverVars
<1>5. FrameInv(p)'
  BY <1>1, <1>4 DEF FrameInv, PlayerInv, InGame
<1>6. place[p] = "playing" <=> p \in clients
  BY <1>1 DEF MatchInv
<1>7. InGame(p)' = InGame(p) /\ Receives(p, {"NCP"})
  BY <1>4 DEF InGame
<1>8. ChannelInv(p)' /\ MapInv(p)'
  BY <1>1, <1>4, <1>6, <1>7, KeepMessages
<1>9. QED BY <1>2, <1>3, <1>5, <1>8, ClientSide

LEMMA ReadNoneStep ==
  ASSUME SessionInv, NEW p \in Players, ReadNone(p), UNCHANGED serverVars
  PROVE  SessionInv'
<1> USE DEF ReadNone, At, Then, gameVars, frameVars
<1>1. PlayerInv(p) /\ ClientTypeOK /\ MatchInv /\ down[p] \in Channel
  BY SessionTypes
<1>2. OthersKeep(p)
  BY <1>1 DEF OthersKeep, ClientTypeOK
<1>3. ClientTypeOK'
  BY <1>1 DEF ClientTypeOK
<1>4. /\ stage[p] = "game" /\ step[p] = "read" /\ stage'[p] = "game"
      /\ step'[p] = IF shouldReset[p] THEN "end" ELSE "input"
      /\ stageShouldChange'[p] = stageShouldChange[p] /\ shouldReset'[p] = shouldReset[p]
      /\ conn'[p] = conn[p] /\ iniciated'[p] = iniciated[p]
      /\ known'[p] = known[p] /\ down'[p] = down[p] /\ place'[p] = place[p]
  BY <1>1 DEF ClientTypeOK, serverVars
<1>5. FrameInv(p)'
  BY <1>1, <1>4 DEF FrameInv, PlayerInv, InGame
<1>6. place[p] = "playing" <=> p \in clients
  BY <1>1 DEF MatchInv
<1>7. InGame(p)' = InGame(p) /\ HeaderRead(p)' = HeaderRead(p)
  BY <1>4 DEF InGame, HeaderRead
<1>8. ChannelInv(p)' /\ MapInv(p)'
  BY <1>1, <1>4, <1>6, <1>7, KeepMessages
<1>9. QED BY <1>2, <1>3, <1>5, <1>8, ClientSide

LEMMA DownType ==
  ASSUME ClientTypeOK, NEW p \in Players, NEW d \in Channel, Len(d) <= Buffer,
         down' = [down EXCEPT ![p] = d]
  PROVE  /\ down' \in [Players -> Seq(Message)]
         /\ \A q \in Players : Len(down'[q]) <= Buffer
         /\ down'[p] = d /\ \A q \in Players \ {p} : down'[q] = down[q]
BY DEF ClientTypeOK, Channel

LEMMA QuitStep ==
  ASSUME SessionInv, NEW p \in Players, Quit(p), UNCHANGED serverVars
  PROVE  SessionInv'
<1> USE DEF Quit, gameVars, frameVars
<1>1. PlayerInv(p) /\ ClientTypeOK /\ MatchInv
  BY SessionTypes
<1>2. OthersKeep(p)
  BY <1>1 DEF OthersKeep, ClientTypeOK
<1>3. ClientTypeOK'
  <2>1. <<>> \in Channel /\ Len(<<>>) <= Buffer
    BY EmptyChannel, ClientAssumption
  <2>2. down' \in [Players -> Seq(Message)] /\ \A q \in Players : Len(down'[q]) <= Buffer
    BY <1>1, <2>1, DownType
  <2>3. QED BY <1>1, <2>2 DEF ClientTypeOK
<1>4. /\ step[p] = "input" /\ stage'[p] = "exit" /\ step'[p] = "input"
      /\ stageShouldChange'[p] = stageShouldChange[p] /\ shouldReset'[p] = shouldReset[p]
      /\ conn[p] \in {"open", "cut"} /\ conn'[p] = "left" /\ iniciated'[p] = iniciated[p]
      /\ down'[p] = <<>> /\ place'[p] = place[p]
  BY <1>1 DEF ClientTypeOK, serverVars
<1>5. FrameInv(p)'
  BY <1>1, <1>4 DEF FrameInv, PlayerInv, InGame
<1>6. ChannelInv(p)' /\ MapInv(p)'
  <2>1. ~ InGame(p)' /\ ~ HeaderRead(p)'
    BY <1>4 DEF InGame, HeaderRead
  <2>2. place'[p] \in {"outside", "choosing", "waiting"} => ~ iniciated'[p]
    BY <1>1, <1>4 DEF PlayerInv, ChannelInv
  <2>3. QED BY <1>4, <2>1, <2>2, NoMessages
<1>7. QED BY <1>2, <1>3, <1>5, <1>6, ClientSide

LEMMA EndFrameStep ==
  ASSUME SessionInv, NEW p \in Players, EndFrame(p), UNCHANGED serverVars
  PROVE  SessionInv'
<1> USE DEF EndFrame, Then, gameVars
<1>1. PlayerInv(p) /\ ClientTypeOK /\ MatchInv /\ down[p] \in Channel
  BY SessionTypes
<1>2. OthersKeep(p)
  BY <1>1 DEF OthersKeep, ClientTypeOK
<1>3. /\ step[p] = "end" /\ stage[p] \in {"login", "select", "queue", "game"}
      /\ shouldReset[p] <=> ~ stageShouldChange[p]
      /\ stage[p] = "login" => stageShouldChange[p]
      /\ stage[p] = "game" => shouldReset[p]
  BY <1>1 DEF PlayerInv, FrameInv, ClientTypeOK
<1>4. /\ step'[p] = "input" /\ ~ shouldReset'[p] /\ ~ stageShouldChange'[p]
      /\ place'[p] = place[p]
  BY <1>1 DEF ClientTypeOK, serverVars
<1>5. stage' = [stage EXCEPT ![p] = IF shouldReset[p] THEN "login" ELSE NextStage(stage[p])]
  BY <1>3
<1>6. /\ stage[p] = "login" => NextStage(stage[p]) = "select"
      /\ stage[p] = "select" => NextStage(stage[p]) = "queue"
      /\ stage[p] = "queue" => NextStage(stage[p]) = "game"
  BY DEF NextStage
<1>7. stage' \in [Players -> {"login", "select", "queue", "game", "exit"}]
  BY <1>1, <1>3, <1>5, <1>6 DEF ClientTypeOK
<1>8. stage'[p] = IF shouldReset[p] THEN "login" ELSE NextStage(stage[p])
  BY <1>1, <1>5 DEF ClientTypeOK
<1>9. CASE shouldReset[p]
  <2>1. ClientTypeOK'
    <3>1. <<>> \in Channel /\ Len(<<>>) <= Buffer
      BY EmptyChannel, ClientAssumption
    <3>2. down' \in [Players -> Seq(Message)] /\ \A q \in Players : Len(down'[q]) <= Buffer
      BY <1>1, <1>9, <3>1, DownType
    <3>3. /\ conn' = [conn EXCEPT ![p] = "left"] /\ known' = [known EXCEPT ![p] = {}]
          /\ iniciated' = [iniciated EXCEPT ![p] = FALSE]
      BY <1>9
    <3>4. /\ conn' \in [Players -> {"none", "open", "left", "cut"}]
          /\ known' \in [Players -> SUBSET Players]
      BY <1>1, <3>3 DEF ClientTypeOK
    <3>5. iniciated' \in [Players -> BOOLEAN]
      BY <1>1, <3>3 DEF ClientTypeOK
    <3>6. /\ step' \in [Players -> {"input", "read", "end"}]
          /\ shouldReset' \in [Players -> BOOLEAN]
          /\ stageShouldChange' \in [Players -> BOOLEAN]
          /\ resetReason' \in [Players -> {"", "no connection", "defeated", "won"}]
      BY <1>1 DEF ClientTypeOK
    <3>7. up' \in [Players -> Seq({"QUE", "NUP"})] /\ \A q \in Players : Len(up'[q]) <= UpBuffer
      BY <1>1 DEF ClientTypeOK
    <3>8. QED BY ONLY <1>7, <3>2, <3>4, <3>5, <3>6, <3>7 DEF ClientTypeOK
  <2>2. /\ stage'[p] = "login" /\ conn'[p] = "left" /\ ~ iniciated'[p] /\ down'[p] = <<>>
    BY <1>1, <1>8, <1>9 DEF ClientTypeOK
  <2>3. conn[p] \in {"open", "cut"}
    BY <1>1, <1>3 DEF PlayerInv, FrameInv
  <2>4. FrameInv(p)'
    BY <1>1, <1>4, <2>2, <2>3 DEF FrameInv, PlayerInv
  <2>5. ~ InGame(p)' /\ ~ HeaderRead(p)'
    BY <2>2 DEF InGame, HeaderRead
  <2>6. ChannelInv(p)' /\ MapInv(p)'
    BY <2>2, <2>5, NoMessages
  <2>7. QED BY <1>2, <2>1, <2>4, <2>6, ClientSide
<1>10. CASE ~ shouldReset[p]
  <2>1. ClientTypeOK'
    BY <1>1, <1>7, <1>10 DEF ClientTypeOK
  <2>2. /\ stage'[p] = NextStage(stage[p]) /\ stage[p] # "game" /\ stageShouldChange[p]
        /\ conn'[p] = conn[p] /\ iniciated'[p] = iniciated[p]
        /\ known'[p] = known[p] /\ down'[p] = down[p]
    BY <1>3, <1>8, <1>10
  <2>3. ~ iniciated[p] /\ conn[p] \in {"open", "cut"}
    BY <1>1, <1>3, <2>2 DEF PlayerInv, FrameInv
  <2>4. stage'[p] \in {"select", "queue", "game"}
    BY <1>3, <1>6, <2>2
  <2>5. FrameInv(p)'
    BY <1>1, <1>4, <2>2, <2>3, <2>4 DEF FrameInv, PlayerInv
  <2>6. InGame(p)' = InGame(p)
    BY <2>2, <2>3 DEF InGame
  <2>7. HeaderRead(p)' => HeaderRead(p)
    BY <1>3, <1>4, <1>6, <2>2 DEF HeaderRead
  <2>8. stage[p] = "queue" => Receives(p, {"NCP"})
    <3>1. stage[p] = "queue" => down[p] # <<>> /\ down[p][1].type = "NCP"
      BY <1>1, <2>2 DEF PlayerInv, ChannelInv, HeaderRead
    <3>2. QED BY <1>1, <3>1, ChannelType DEF Receives
  <2>9. place[p] = "playing" <=> p \in clients
    BY <1>1 DEF MatchInv
  <2>10. ChannelInv(p)' /\ MapInv(p)'
    BY <1>1, <2>2, <2>6, <2>7, <2>8, <2>9, KeepMessages
  <2>11. QED BY <1>2, <2>1, <2>5, <2>10, ClientSide
<1>11. QED BY <1>9, <1>10

-----------------------------------------------------------------------------
(* A client program reads.                                                 *)

\* One message less.
LEMMA ReceivedType ==
  ASSUME SessionInv, NEW p \in Players, down[p] # <<>>, Received(p)
  PROVE  /\ down' \in [Players -> Seq(Message)]
         /\ \A q \in Players : Len(down'[q]) <= Buffer
         /\ down'[p] = Tail(down[p]) /\ \A q \in Players \ {p} : down'[q] = down[q]
<1>1. ClientTypeOK /\ down[p] \in Channel /\ Len(down[p]) \in Nat /\ Len(down[p]) <= Buffer
  BY SessionTypes
<1>2. Tail(down[p]) \in Channel /\ Len(Tail(down[p])) = Len(down[p]) - 1
  BY <1>1, TailChannel
<1>3. Len(Tail(down[p])) <= Buffer
  BY <1>1, <1>2, ClientAssumption
<1>4. down' = [down EXCEPT ![p] = Tail(down[p])]
  BY <1>1 DEF Received, ClientTypeOK
<1>5. QED BY <1>1, <1>2, <1>3, <1>4, DownType

\* The queue stage reads a message that does not concern it.
LEMMA QueueReads ==
  ASSUME SessionInv, NEW p \in Players, down[p] # <<>>, down[p][1].type # "NCP",
         Received(p), UNCHANGED <<clientVars, conn, up>>, UNCHANGED serverVars,
         stage[p] = "queue", step[p] = "input"
  PROVE  SessionInv'
<1> USE DEF clientVars, frameVars, gameVars
<1> DEFINE d == down[p]
           e == Tail(d)
<1>1. PlayerInv(p) /\ ClientTypeOK /\ MatchInv /\ d \in Channel
  BY SessionTypes
<1>2. /\ down' \in [Players -> Seq(Message)] /\ \A q \in Players : Len(down'[q]) <= Buffer
      /\ down'[p] = e /\ \A q \in Players \ {p} : down'[q] = down[q]
  BY ReceivedType
<1>3. OthersKeep(p)
  BY <1>2 DEF OthersKeep
<1>4. ClientTypeOK'
  BY <1>1, <1>2 DEF ClientTypeOK
<1>5. /\ Len(d) \in Nat /\ DOMAIN d = 1 .. Len(d) /\ 1 \in DOMAIN d
      /\ \A i \in DOMAIN d : Rank(d[i]) = 1 <=> d[i].type = "NCP"
  BY <1>1, ChannelType
<1>6. /\ e \in Channel /\ Len(e) = Len(d) - 1 /\ DOMAIN e = 1 .. Len(d) - 1
      /\ \A i \in DOMAIN e : i + 1 \in DOMAIN d /\ e[i] = d[i + 1]
      /\ InOrder(d) => InOrder(e)
      /\ Creates(e) <=> Creates(d)
      /\ Created(e) = Created(d)
      /\ \A i \in 0 .. Len(d) - 1 :
           Gone(d, i + 1) = Gone(e, i) \union (IF d[1].type = "K" THEN d[1].ids ELSE {})
  BY <1>1, TailChannel, ChannelType
<1>7. /\ ~ InGame(p) /\ ~ InGame(p)' /\ ~ stageShouldChange[p] /\ ~ HeaderRead(p)'
      /\ ~ iniciated[p] /\ conn[p] \in {"open", "cut"}
  BY <1>1 DEF PlayerInv, FrameInv, InGame, HeaderRead
<1>8. UNCHANGED <<place, phase, clients, invalid, missed>> /\ Staying' = Staying
  BY DEF serverVars, matchVars, Staying
<1>9. FrameInv(p)'
  BY <1>1, <1>7, <1>8 DEF FrameInv, PlayerInv, InGame
<1> HIDE DEF e
<1>10. ChannelInv(p)'
  <2>1. \A i \in DOMAIN e : e[i].type = "trash" => i = 1 /\ stage[p] = "queue"
    <3> SUFFICES ASSUME NEW i \in DOMAIN e, e[i].type = "trash" PROVE FALSE
      OBVIOUS
    <3>1. i + 1 \in DOMAIN d /\ d[i + 1].type = "trash" /\ i + 1 # 1
      BY <1>5, <1>6
    <3>2. QED BY <1>1, <3>1 DEF PlayerInv, ChannelInv
  <2>2. \/ p \in missed \/ Creates(e)
        \/ /\ \A i \in DOMAIN e : Rank(e[i]) # 2
           /\ ~ (p \in clients /\ conn[p] = "open")
    BY <1>1, <1>6, <1>7 DEF PlayerInv, ChannelInv
  <2>3. place[p] \in {"outside", "choosing", "waiting"} => \A i \in DOMAIN e : Rank(e[i]) = 0
    BY <1>1, <1>6 DEF PlayerInv, ChannelInv
  <2>4. InOrder(e)
    BY <1>1, <1>6 DEF PlayerInv, ChannelInv
  <2>5. QED BY <1>2, <1>7, <1>8, <2>1, <2>2, <2>3, <2>4 DEF ChannelInv
<1>11. MapInv(p)'
  <2> SUFFICES ASSUME Creates(e) PROVE MapInv(p)'
    BY <1>2, <1>7 DEF MapInv
  <2>1. d[1].type # "K"
    <3>1. PICK k \in DOMAIN d : d[k].type = "NCP"
      BY <1>6 DEF Creates
    <3>2. InOrder(d) /\ k # 1 /\ 1 < k
      BY <1>1, <1>5, <3>1 DEF PlayerInv, ChannelInv
    <3>3. Rank(d[1]) = 0
      BY <1>1, <1>5, <3>1, <3>2, CreationFirst
    <3>4. QED BY <3>3 DEF Rank
  <2>2. \A i \in 0 .. Len(d) - 1 : Gone(d, i + 1) = Gone(e, i)
    BY <1>6, <2>1
  <2>3. Gone(d, Len(d)) = Gone(e, Len(e))
    <3>1. Len(e) \in 0 .. Len(d) - 1 /\ Len(e) + 1 = Len(d)
      BY <1>5, <1>6
    <3>2. QED BY <2>2, <3>1
  <2>4. Opponents(p)' = Opponents(p)
    BY <1>2, <1>6, <1>7 DEF Opponents
  <2>5. /\ p \notin Opponents(p)
        /\ \A i \in DOMAIN d : d[i].type = "NUP" => d[i].ids \subseteq Opponents(p) \ Gone(d, i)
        /\ p \in clients => Staying \ {p} \subseteq Opponents(p) \ Gone(d, Len(d))
        /\ p \in clients /\ p \notin missed => Opponents(p) \ Gone(d, Len(d)) \subseteq Staying
    BY <1>1, <1>6 DEF PlayerInv, MapInv
  <2>6. \A i \in DOMAIN e : e[i].type = "NUP" => e[i].ids \subseteq Opponents(p) \ Gone(e, i)
    <3> SUFFICES ASSUME NEW i \in DOMAIN e, e[i].type = "NUP"
                 PROVE  e[i].ids \subseteq Opponents(p) \ Gone(e, i)
      OBVIOUS
    <3>1. i + 1 \in DOMAIN d /\ e[i] = d[i + 1] /\ i \in 0 .. Len(d) - 1
      BY <1>5, <1>6
    <3>2. QED BY <2>2, <2>5, <3>1
  <2>7. QED BY <1>2, <1>8, <2>3, <2>4, <2>5, <2>6 DEF MapInv
<1>12. QED BY <1>3, <1>4, <1>9, <1>10, <1>11, ClientSide

LEMMA QueueMessageStep ==
  ASSUME SessionInv, NEW p \in Players, QueueMessage(p), UNCHANGED serverVars
  PROVE  SessionInv'
<1>1. down[p] # <<>> /\ down[p][1].type # "NCP"
  BY SessionTypes, ChannelType DEF QueueMessage, Receives
<1>2. QED BY <1>1, QueueReads DEF QueueMessage, At

\* The header of an update is read, the rest of it is not.
LEMMA TrashLeft ==
  ASSUME SessionInv, NEW p \in Players, stage[p] = "queue", step[p] = "input",
         Receives(p, {"NUP"}), down' = [down EXCEPT ![p][1].type = "trash"],
         UNCHANGED <<clientVars, conn, up>>, UNCHANGED serverVars
  PROVE  SessionInv'
<1> USE DEF clientVars, frameVars, gameVars
<1> DEFINE d == down[p]
           m == [d[1] EXCEPT !.type = "trash"]
           e == [d EXCEPT ![1] = m]
<1>1. PlayerInv(p) /\ ClientTypeOK /\ MatchInv /\ d \in Channel /\ Len(d) <= Buffer
  BY SessionTypes
<1>2. /\ Len(d) \in Nat /\ DOMAIN d = 1 .. Len(d) /\ 1 \in DOMAIN d /\ d[1].type = "NUP"
      /\ d[1] \in Message /\ Rank(d[1]) = 2
      /\ \A i \in DOMAIN d : Rank(d[i]) \in 0 .. 2 /\ (Rank(d[i]) = 1 <=> d[i].type = "NCP")
  BY <1>1, ChannelType DEF Receives, Rank
<1>3. m \in Message /\ m.type = "trash" /\ Rank(m) = 2
  BY <1>2 DEF Message, Rank
<1>4. down' = [down EXCEPT ![p] = e]
  BY <1>1 DEF ClientTypeOK
<1> HIDE DEF m
<1>5. /\ e \in Channel /\ Len(e) = Len(d) /\ DOMAIN e = DOMAIN d
      /\ \A i \in DOMAIN d : e[i] = IF i = 1 THEN m ELSE d[i]
  BY <1>1, <1>2, <1>3, ExceptSeq DEF Channel
<1> HIDE DEF e
<1>6. /\ down' \in [Players -> Seq(Message)] /\ \A q \in Players : Len(down'[q]) <= Buffer
      /\ down'[p] = e /\ \A q \in Players \ {p} : down'[q] = down[q]
  BY <1>1, <1>4, <1>5, DownType
<1>7. OthersKeep(p)
  BY <1>6 DEF OthersKeep
<1>8. ClientTypeOK'
  BY <1>1, <1>6 DEF ClientTypeOK
<1>9. \A i \in DOMAIN d : Rank(d[i]) = 2
  <2> SUFFICES ASSUME NEW i \in DOMAIN d, i # 1 PROVE Rank(d[i]) = 2
    BY <1>2
  <2>1. 1 < i
    BY <1>2
  <2>2. Rank(d[1]) <= Rank(d[i])
    BY <1>1, <1>2, <2>1 DEF PlayerInv, ChannelInv, InOrder
  <2>3. QED BY <1>2, <2>2
<1>10. \A i \in DOMAIN e : Rank(e[i]) = 2
  BY <1>3, <1>5, <1>9
<1>11. InOrder(e) /\ ~ Creates(e) /\ ~ Creates(d)
  <2>1. InOrder(e)
    BY <1>10 DEF InOrder
  <2>2. ~ Creates(d)
    BY <1>2, <1>9 DEF Creates
  <2>3. ~ Creates(e)
    BY <1>5, <1>10, ChannelType DEF Creates
  <2>4. QED BY <2>1, <2>2, <2>3
<1>12. /\ ~ InGame(p) /\ ~ InGame(p)' /\ ~ HeaderRead(p)' /\ ~ iniciated[p]
       /\ conn[p] \in {"open", "cut"}
  BY <1>1 DEF PlayerInv, FrameInv, InGame, HeaderRead
<1>13. UNCHANGED <<place, phase, clients, invalid, missed>>
  BY DEF serverVars, matchVars
<1>14. FrameInv(p)'
  BY <1>1, <1>12, <1>13 DEF FrameInv, PlayerInv, InGame
<1>15. p \in missed
  BY <1>1, <1>2, <1>11, <1>12 DEF PlayerInv, ChannelInv
<1>16. place[p] \notin {"outside", "choosing", "waiting"}
  BY <1>1, <1>2 DEF PlayerInv, ChannelInv
<1>17. \A i \in DOMAIN e : e[i].type = "trash" => i = 1
  BY <1>1, <1>5 DEF PlayerInv, ChannelInv
<1>18. ChannelInv(p)'
  BY <1>6, <1>11, <1>12, <1>13, <1>15, <1>16, <1>17 DEF ChannelInv
<1>19. MapInv(p)'
  BY <1>6, <1>11, <1>12 DEF MapInv
<1>20. QED BY <1>7, <1>8, <1>14, <1>18, <1>19, ClientSide

LEMMA QueueTrashStep ==
  ASSUME SessionInv, NEW p \in Players, QueueTrash(p), UNCHANGED serverVars
  PROVE  SessionInv'
<1>1. stage[p] = "queue" /\ step[p] = "input" /\ UNCHANGED <<clientVars, conn, up>>
  BY DEF QueueTrash, At
<1>2. CASE Receives(p, {"NUP"}) /\ down' = [down EXCEPT ![p][1].type = "trash"]
  BY <1>1, <1>2, TrashLeft
<1>3. CASE Receives(p, {"trash"}) /\ Received(p)
  <2>1. down[p] # <<>> /\ down[p][1].type # "NCP"
    BY <1>3, SessionTypes, ChannelType DEF Receives
  <2>2. QED BY <1>1, <1>3, <2>1, QueueReads
<1>4. QED BY <1>2, <1>3 DEF QueueTrash

\* The game stage reads the packet that creates the players.
LEMMA CreateStep ==
  ASSUME SessionInv, NEW p \in Players, stage[p] = "game", step[p] = "input",
         ~ iniciated[p], SendUp(p, "NUP"), Received(p),
         iniciated' = [iniciated EXCEPT ![p] = TRUE],
         known' = [known EXCEPT ![p] = Head(down[p]).ids \ {p}],
         step' = [step EXCEPT ![p] = "read"],
         UNCHANGED <<stage, frameVars, conn>>, UNCHANGED serverVars
  PROVE  SessionInv'
<1> USE DEF frameVars
<1> DEFINE d == down[p]
           e == Tail(d)
<1>1. PlayerInv(p) /\ ClientTypeOK /\ MatchInv /\ d \in Channel
  BY SessionTypes
<1>2. d # <<>> /\ d[1].type = "NCP" /\ InOrder(d) /\ ~ InGame(p)
  BY <1>1 DEF PlayerInv, ChannelInv, HeaderRead, InGame
<1>3. /\ Len(d) \in Nat /\ DOMAIN d = 1 .. Len(d) /\ 1 \in DOMAIN d /\ Head(d) = d[1]
      /\ d[1].ids \subseteq Players /\ Rank(d[1]) = 1
      /\ \A i \in DOMAIN d : Rank(d[i]) = 1 <=> d[i].type = "NCP"
  BY <1>1, <1>2, ChannelType
<1>4. /\ down' \in [Players -> Seq(Message)] /\ \A q \in Players : Len(down'[q]) <= Buffer
      /\ down'[p] = e /\ \A q \in Players \ {p} : down'[q] = down[q]
  BY <1>2, ReceivedType
<1>5. /\ e \in Channel /\ Len(e) = Len(d) - 1 /\ DOMAIN e = 1 .. Len(d) - 1
      /\ \A i \in DOMAIN e : i + 1 \in DOMAIN d /\ e[i] = d[i + 1]
      /\ InOrder(e)
      /\ \A i \in 0 .. Len(d) - 1 :
           Gone(d, i + 1) = Gone(e, i) \union (IF d[1].type = "K" THEN d[1].ids ELSE {})
  BY <1>1, <1>2, TailChannel, ChannelType
<1> HIDE DEF e
<1>6. Created(d) = d[1].ids /\ \A i \in DOMAIN e : Rank(e[i]) = 2
  <2>1. Created(d) = d[1].ids /\ \A i \in DOMAIN d : i > 1 => Rank(d[i]) = 2
    BY <1>1, <1>2, <1>3, CreationFirst
  <2>2. \A i \in DOMAIN e : i + 1 > 1
    BY <1>3, <1>5
  <2>3. QED BY <1>5, <2>1, <2>2
<1>7. /\ step'[p] = "read" /\ iniciated'[p] /\ stage'[p] = "game" /\ conn'[p] = conn[p]
      /\ known'[p] = d[1].ids \ {p} /\ place'[p] = place[p]
      /\ shouldReset'[p] = shouldReset[p] /\ stageShouldChange'[p] = stageShouldChange[p]
  BY <1>1, <1>3 DEF ClientTypeOK, serverVars
<1>8. InGame(p)' /\ ~ HeaderRead(p)'
  BY <1>7 DEF InGame, HeaderRead
<1>9. OthersKeep(p)
  BY <1>1, <1>4 DEF OthersKeep, ClientTypeOK
<1>10. ClientTypeOK'
  <2>1. up' \in [Players -> Seq({"QUE", "NUP"})] /\ \A q \in Players : Len(up'[q]) <= UpBuffer
    BY <1>1, SendUpType
  <2>2. known' \in [Players -> SUBSET Players]
    BY <1>1, <1>3 DEF ClientTypeOK
  <2>3. step' \in [Players -> {"input", "read", "end"}] /\ iniciated' \in [Players -> BOOLEAN]
    BY <1>1 DEF ClientTypeOK
  <2>4. QED BY <1>1, <1>4, <2>1, <2>2, <2>3 DEF ClientTypeOK
<1>11. UNCHANGED <<place, phase, clients, invalid, missed>> /\ Staying' = Staying
  BY DEF serverVars, matchVars, Staying
<1>12. FrameInv(p)'
  BY <1>1, <1>7, <1>8, <1>11 DEF FrameInv, PlayerInv, InGame
<1>13. place[p] \notin {"outside", "choosing", "waiting"}
  BY <1>1, <1>3 DEF PlayerInv, ChannelInv
<1>14. \A i \in DOMAIN e : e[i].type # "trash"
  <2> SUFFICES ASSUME NEW i \in DOMAIN e, e[i].type = "trash" PROVE FALSE
    OBVIOUS
  <2>1. i + 1 \in DOMAIN d /\ d[i + 1].type = "trash"
    BY <1>5
  <2>2. QED BY <1>1, <2>1 DEF PlayerInv, ChannelInv
<1>15. ChannelInv(p)'
  BY <1>4, <1>5, <1>6, <1>8, <1>11, <1>13, <1>14 DEF ChannelInv
<1>16. MapInv(p)'
  <2>1. Opponents(p)' = Opponents(p)
    BY <1>2, <1>6, <1>7, <1>8 DEF Opponents
  <2>2. Creates(d)
    BY <1>2, <1>3 DEF Creates
  <2>3. /\ p \notin Opponents(p)
        /\ \A i \in DOMAIN d : d[i].type = "NUP" => d[i].ids \subseteq Opponents(p) \ Gone(d, i)
        /\ p \in clients => Staying \ {p} \subseteq Opponents(p) \ Gone(d, Len(d))
        /\ p \in clients /\ p \notin missed => Opponents(p) \ Gone(d, Len(d)) \subseteq Staying
    BY <1>1, <2>2 DEF PlayerInv, MapInv
  <2>4. \A i \in 0 .. Len(d) - 1 : Gone(d, i + 1) = Gone(e, i)
    BY <1>2, <1>5
  <2>5. Gone(d, Len(d)) = Gone(e, Len(e))
    <3>1. Len(e) \in 0 .. Len(d) - 1 /\ Len(e) + 1 = Len(d)
      BY <1>3, <1>5
    <3>2. QED BY <2>4, <3>1
  <2>6. \A i \in DOMAIN e : e[i].type = "NUP" => e[i].ids \subseteq Opponents(p) \ Gone(e, i)
    <3> SUFFICES ASSUME NEW i \in DOMAIN e, e[i].type = "NUP"
                 PROVE  e[i].ids \subseteq Opponents(p) \ Gone(e, i)
      OBVIOUS
    <3>1. i + 1 \in DOMAIN d /\ e[i] = d[i + 1] /\ i \in 0 .. Len(d) - 1
      BY <1>3, <1>5
    <3>2. QED BY <2>3, <2>4, <3>1
  <2>7. QED BY <1>4, <1>11, <2>1, <2>3, <2>5, <2>6 DEF MapInv
<1>17. QED BY <1>9, <1>10, <1>12, <1>15, <1>16, ClientSide

LEMMA GameInputStep ==
  ASSUME SessionInv, NEW p \in Players, GameInput(p), UNCHANGED serverVars
  PROVE  SessionInv'
<1> USE DEF GameInput, At, Then
<1>1. CASE ~ iniciated[p]
  BY <1>1, CreateStep DEF gameVars
<1>2. CASE iniciated[p]
  <2>1. PlayerInv(p) /\ ClientTypeOK /\ MatchInv /\ down[p] \in Channel
    BY SessionTypes
  <2>2. UNCHANGED <<gameVars, down>>
    BY <1>2
  <2>3. OthersKeep(p)
    BY <2>1, <2>2 DEF OthersKeep, ClientTypeOK, gameVars, frameVars
  <2>4. ClientTypeOK'
    <3>1. up' \in [Players -> Seq({"QUE", "NUP"})] /\ \A q \in Players : Len(up'[q]) <= UpBuffer
      BY <2>1, SendUpType
    <3>2. step' \in [Players -> {"input", "read", "end"}]
      BY <2>1 DEF ClientTypeOK
    <3>3. QED BY <2>1, <2>2, <3>1, <3>2 DEF ClientTypeOK, gameVars, frameVars
  <2>5. /\ stage[p] = "game" /\ step[p] = "input" /\ stage'[p] = "game" /\ step'[p] = "read"
        /\ stageShouldChange'[p] = stageShouldChange[p] /\ shouldReset'[p] = shouldReset[p]
        /\ conn'[p] = conn[p] /\ iniciated'[p] = iniciated[p]
        /\ known'[p] = known[p] /\ down'[p] = down[p] /\ place'[p] = place[p]
    BY <2>1, <2>2 DEF ClientTypeOK, serverVars, gameVars, frameVars
  <2>6. FrameInv(p)'
    BY <1>2, <2>1, <2>5 DEF FrameInv, PlayerInv, InGame
  <2>7. place[p] = "playing" <=> p \in clients
    BY <2>1 DEF MatchInv
  <2>8. InGame(p)' = InGame(p) /\ HeaderRead(p)' = HeaderRead(p)
    BY <2>5 DEF InGame, HeaderRead
  <2>9. ChannelInv(p)' /\ MapInv(p)'
    BY <2>1, <2>5, <2>7, <2>8, KeepMessages
  <2>10. QED BY <2>3, <2>4, <2>6, <2>9, ClientSide
<1>3. QED BY <1>1, <1>2

\* The game stage reads: a kill takes players out of the map.
LEMMA GameReads ==
  ASSUME SessionInv, NEW p \in Players, stage[p] = "game", step[p] = "read",
         down[p] # <<>>, Received(p), UNCHANGED serverVars, ClientTypeOK',
         UNCHANGED <<stage, step, iniciated, conn, stageShouldChange>>,
         known'[p] = known[p] \ (IF down[p][1].type = "K" THEN down[p][1].ids ELSE {}),
         \A q \in Players \ {p} : shouldReset'[q] = shouldReset[q] /\ known'[q] = known[q]
  PROVE  SessionInv'
<1> DEFINE d == down[p]
           e == Tail(d)
           K == IF d[1].type = "K" THEN d[1].ids ELSE {}
<1>1. PlayerInv(p) /\ ClientTypeOK /\ MatchInv /\ d \in Channel
  BY SessionTypes
<1>2. InGame(p) /\ InGame(p)' /\ ~ HeaderRead(p)' /\ ~ stageShouldChange[p] /\ InOrder(d)
  BY <1>1 DEF PlayerInv, FrameInv, ChannelInv, InGame, HeaderRead
<1>3. /\ down'[p] = e /\ \A q \in Players \ {p} : down'[q] = down[q]
  BY ReceivedType
<1>4. /\ Len(d) \in Nat /\ DOMAIN d = 1 .. Len(d) /\ Len(d) # 0
  BY <1>1, ChannelType
<1>5. /\ e \in Channel /\ Len(e) = Len(d) - 1 /\ DOMAIN e = 1 .. Len(d) - 1
      /\ \A i \in DOMAIN e : i + 1 \in DOMAIN d /\ e[i] = d[i + 1]
      /\ InOrder(e)
      /\ \A i \in 0 .. Len(d) - 1 : Gone(d, i + 1) = Gone(e, i) \union K
  BY <1>1, <1>2, TailChannel, ChannelType
<1> HIDE DEF e, K
<1>6. known'[p] = known[p] \ K
  BY DEF K
<1>7. OthersKeep(p)
  BY <1>3 DEF OthersKeep
<1>8. UNCHANGED <<place, phase, clients, invalid, missed>> /\ Staying' = Staying
  BY DEF serverVars, matchVars, Staying
<1>9. FrameInv(p)'
  BY <1>1, <1>2, <1>8 DEF FrameInv, PlayerInv
<1>10. ChannelInv(p)'
  <2>1. \A i \in DOMAIN e : Rank(e[i]) = 2 /\ e[i].type # "trash"
    <3> SUFFICES ASSUME NEW i \in DOMAIN e PROVE Rank(e[i]) = 2 /\ e[i].type # "trash"
      OBVIOUS
    <3>1. i + 1 \in DOMAIN d /\ e[i] = d[i + 1]
      BY <1>5
    <3>2. Rank(d[i + 1]) = 2 /\ d[i + 1].type # "trash"
      BY <1>1, <1>2, <3>1 DEF PlayerInv, ChannelInv
    <3>3. QED BY <3>1, <3>2
  <2>2. place[p] \notin {"outside", "choosing", "waiting"}
    BY <1>1, <1>2 DEF PlayerInv, ChannelInv, InGame
  <2>3. QED BY <1>2, <1>3, <1>5, <1>8, <2>1, <2>2 DEF ChannelInv
<1>11. MapInv(p)'
  <2>1. Opponents(p) = known[p] /\ Opponents(p)' = known[p] \ K
    BY <1>2, <1>6 DEF Opponents
  <2>2. /\ p \notin known[p]
        /\ \A i \in DOMAIN d : d[i].type = "NUP" => d[i].ids \subseteq known[p] \ Gone(d, i)
        /\ p \in clients => Staying \ {p} \subseteq known[p] \ Gone(d, Len(d))
        /\ p \in clients /\ p \notin missed => known[p] \ Gone(d, Len(d)) \subseteq Staying
    BY <1>1, <1>2, <2>1 DEF PlayerInv, MapInv
  <2>3. Gone(d, Len(d)) = Gone(e, Len(e)) \union K
    <3>1. Len(e) \in 0 .. Len(d) - 1 /\ Len(e) + 1 = Len(d)
      BY <1>4, <1>5
    <3>2. QED BY <1>5, <3>1
  <2>4. \A i \in DOMAIN e : e[i].type = "NUP" => e[i].ids \subseteq (known[p] \ K) \ Gone(e, i)
    <3> SUFFICES ASSUME NEW i \in DOMAIN e, e[i].type = "NUP"
                 PROVE  e[i].ids \subseteq (known[p] \ K) \ Gone(e, i)
      OBVIOUS
    <3>1. i + 1 \in DOMAIN d /\ e[i] = d[i + 1] /\ i \in 0 .. Len(d) - 1
      BY <1>4, <1>5
    <3>2. Gone(d, i + 1) = Gone(e, i) \union K
      BY <1>5, <3>1
    <3>3. QED BY <2>2, <3>1, <3>2
  <2>5. p \in clients => Staying \ {p} \subseteq (known[p] \ K) \ Gone(e, Len(e))
    BY <2>2, <2>3
  <2>6. p \in clients /\ p \notin missed => (known[p] \ K) \ Gone(e, Len(e)) \subseteq Staying
    BY <2>2, <2>3
  <2>7. QED BY <1>3, <1>8, <2>1, <2>2, <2>4, <2>5, <2>6 DEF MapInv
<1>12. QED BY <1>7, <1>9, <1>10, <1>11, ClientSide

LEMMA ReadUpdateStep ==
  ASSUME SessionInv, NEW p \in Players, ReadUpdate(p), UNCHANGED serverVars
  PROVE  SessionInv'
<1> USE DEF ReadUpdate, At, clientVars, frameVars, gameVars
<1>1. ClientTypeOK /\ down[p] # <<>> /\ down[p][1].type = "NUP"
  BY SessionTypes, ChannelType DEF Receives
<1>2. ClientTypeOK'
  BY <1>1, ReceivedType DEF ClientTypeOK
<1>3. QED BY <1>1, <1>2, GameReads

LEMMA ReadKillStep ==
  ASSUME SessionInv, NEW p \in Players, ReadKill(p), UNCHANGED serverVars
  PROVE  SessionInv'
<1> USE DEF ReadKill, At, resetRequest
<1>1. /\ ClientTypeOK /\ down[p] # <<>> /\ down[p][1].type = "K" /\ Head(down[p]) = down[p][1]
  BY SessionTypes, ChannelType DEF Receives
<1>2. /\ down' \in [Players -> Seq(Message)] /\ \A q \in Players : Len(down'[q]) <= Buffer
  BY <1>1, ReceivedType
<1>3. CASE down[p][1].ids = {p} /\ resetRequest(p, "defeated") /\ UNCHANGED known
  <2>1. ClientTypeOK'
    BY <1>1, <1>2, <1>3 DEF ClientTypeOK
  <2>2. p \notin known[p]
    <3>1. PlayerInv(p) /\ InGame(p)
      BY SessionTypes DEF PlayerInv, FrameInv
    <3>2. QED BY <3>1 DEF PlayerInv, MapInv, Opponents
  <2>3. known'[p] = known[p] \ {p}
    BY <1>3, <2>2
  <2>4. \A q \in Players \ {p} : shouldReset'[q] = shouldReset[q] /\ known'[q] = known[q]
    BY <1>1, <1>3 DEF ClientTypeOK
  <2>5. QED BY <1>1, <1>3, <2>1, <2>3, <2>4, GameReads
<1>4. CASE known' = [known EXCEPT ![p] = @ \ Head(down[p]).ids] /\ UNCHANGED frameVars
  <2>1. known' = [known EXCEPT ![p] = known[p] \ down[p][1].ids]
    BY <1>1, <1>4 DEF ClientTypeOK
  <2>2. known' \in [Players -> SUBSET Players] /\ known'[p] = known[p] \ down[p][1].ids
        /\ \A q \in Players \ {p} : known'[q] = known[q]
    BY <1>1, <2>1 DEF ClientTypeOK
  <2>3. ClientTypeOK'
    BY <1>1, <1>2, <1>4, <2>2 DEF ClientTypeOK, frameVars
  <2>4. QED BY <1>1, <1>4, <2>2, <2>3, GameReads DEF frameVars
<1>5. QED BY <1>1, <1>3, <1>4

LEMMA ReadWinStep ==
  ASSUME SessionInv, NEW p \in Players, ReadWin(p), UNCHANGED serverVars
  PROVE  SessionInv'
<1> USE DEF ReadWin, At, resetRequest, gameVars
<1>1. ClientTypeOK /\ down[p] # <<>> /\ down[p][1].type = "W"
  BY SessionTypes, ChannelType DEF Receives
<1>2. ClientTypeOK'
  BY <1>1, ReceivedType DEF ClientTypeOK
<1>3. \A q \in Players \ {p} : shouldReset'[q] = shouldReset[q] /\ known'[q] = known[q]
  BY <1>1 DEF ClientTypeOK
<1>4. QED BY <1>1, <1>2, <1>3, GameReads

LEMMA ClientKeeps ==
  ASSUME SessionInv, NEW p \in Players, ClientStep(p)
  PROVE  SessionInv'
BY LoginStep, SelectStep, QueueTimeoutStep, QuitStep, QueueCreateStep, QueueMessageStep,
   QueueTrashStep, GameInputStep, ReadUpdateStep, ReadKillStep, ReadWinStep, ReadNoneStep,
   EndFrameStep
   DEF ClientStep, Frame

-----------------------------------------------------------------------------
(* The lobby.                                                              *)

\* The parts of the types that the server changes.
LEMMA ServerTypes ==
  ASSUME ClientTypeOK, UNCHANGED clientVars,
         conn' \in [Players -> {"none", "open", "left", "cut"}],
         down' \in [Players -> Seq(Message)], \A q \in Players : Len(down'[q]) <= Buffer,
         up' \in [Players -> Seq({"QUE", "NUP"})], \A q \in Players : Len(up'[q]) <= UpBuffer
  PROVE  ClientTypeOK'
BY DEF ClientTypeOK, clientVars, frameVars, gameVars

LEMMA UpRead ==
  ASSUME ClientTypeOK, NEW p \in Players, up[p] # <<>>, up' = [up EXCEPT ![p] = Tail(@)]
  PROVE  up' \in [Players -> Seq({"QUE", "NUP"})] /\ \A q \in Players : Len(up'[q]) <= UpBuffer
<1>1. up[p] \in Seq({"QUE", "NUP"}) /\ Len(up[p]) <= UpBuffer /\ UpBuffer \in Nat
  BY ClientAssumption DEF ClientTypeOK
<1>2. Tail(up[p]) \in Seq({"QUE", "NUP"}) /\ Len(Tail(up[p])) = Len(up[p]) - 1
      /\ Len(up[p]) \in Nat
  BY <1>1, HeadTailProperties, LenProperties
<1>3. Len(Tail(up[p])) <= UpBuffer
  BY <1>1, <1>2
<1> DEFINE u == Tail(up[p])
<1>4. up' = [up EXCEPT ![p] = u]
  BY DEF ClientTypeOK
<1> HIDE DEF u
<1>5. u \in Seq({"QUE", "NUP"}) /\ Len(u) <= UpBuffer
  BY <1>2, <1>3 DEF u
<1>6. QED BY <1>4, <1>5 DEF ClientTypeOK

\* A client that is not in a match, and was not, comes to another place.
LEMMA PlaceStep ==
  ASSUME SessionInv, NEW p \in Players, NEW s \in {"choosing", "waiting", "dropped"},
         place[p] \in {"outside", "choosing"}, conn[p] # "none",
         place' = [place EXCEPT ![p] = s],
         up' \in [Players -> Seq({"QUE", "NUP"})], \A q \in Players : Len(up'[q]) <= UpBuffer,
         UNCHANGED <<clientVars, conn, down, matchVars, missed>>
  PROVE  SessionInv'
<1>1. PlayerInv(p) /\ ClientTypeOK /\ TypeOK /\ MatchInv
  BY SessionTypes
<1> USE DEF clientVars, frameVars, gameVars, matchVars
<1>2. ClientTypeOK'
  BY <1>1, ServerTypes DEF ClientTypeOK
<1>3. /\ place' \in [Players -> Places]
      /\ place'[p] = s /\ \A q \in Players \ {p} : place'[q] = place[q]
  BY <1>1 DEF TypeOK, Places
<1>4. TypeOK'
  BY <1>1, <1>2, <1>3 DEF TypeOK
<1>5. MatchInv'
  BY <1>1, <1>3 DEF MatchInv
<1>6. Staying' = Staying
  BY DEF Staying
<1>7. \A q \in Players \ {p} : PlayerInv(q)'
  BY <1>3, <1>6, OtherClient DEF SessionInv
<1>8. InGame(p)' = InGame(p) /\ HeaderRead(p)' = HeaderRead(p)
  BY DEF InGame, HeaderRead
<1>9. FrameInv(p)'
  BY <1>1, <1>3, <1>8 DEF PlayerInv, FrameInv
<1>10. ChannelInv(p)'
  BY <1>1, <1>3, <1>8 DEF PlayerInv, ChannelInv
<1>11. MapInv(p)'
  <2>1. Opponents(p)' = Opponents(p)
    BY <1>8 DEF Opponents
  <2>2. QED BY <1>1, <1>6, <1>8, <2>1 DEF PlayerInv, MapInv
<1>12. QED BY <1>4, <1>5, <1>7, <1>9, <1>10, <1>11 DEF SessionInv, PlayerInv

LEMMA AcceptStep ==
  ASSUME SessionInv, NEW p \in Players, Accept(p)
  PROVE  SessionInv'
<1>1. up' \in [Players -> Seq({"QUE", "NUP"})] /\ \A q \in Players : Len(up'[q]) <= UpBuffer
  BY SessionTypes DEF Accept, ClientTypeOK
<1>2. QED BY <1>1, PlaceStep DEF Accept

LEMMA ColorAndNameStep ==
  ASSUME SessionInv, NEW p \in Players, ColorAndName(p)
  PROVE  SessionInv'
<1>1. place[p] = "choosing" /\ UNCHANGED <<clientVars, matchVars>> /\ ClientTypeOK
      /\ PlayerInv(p)
  BY SessionTypes DEF ColorAndName
<1>2. conn[p] # "none"
  BY <1>1 DEF PlayerInv, FrameInv
<1>3. CASE /\ up[p] # <<>> /\ up' = [up EXCEPT ![p] = Tail(@)]
           /\ place' = [place EXCEPT ![p] = "waiting"] /\ UNCHANGED <<conn, down, missed>>
  <2>1. up' \in [Players -> Seq({"QUE", "NUP"})] /\ \A q \in Players : Len(up'[q]) <= UpBuffer
    BY <1>1, <1>3, UpRead
  <2>2. QED BY <1>1, <1>2, <1>3, <2>1, PlaceStep
<1>4. CASE /\ \/ place' = [place EXCEPT ![p] = "dropped"]
              \/ place' = [place EXCEPT ![p] = "waiting"]
           /\ UNCHANGED <<conn, down, up, missed>>
  <2>1. up' \in [Players -> Seq({"QUE", "NUP"})] /\ \A q \in Players : Len(up'[q]) <= UpBuffer
    BY <1>1, <1>4 DEF ClientTypeOK
  <2>2. QED BY <1>1, <1>2, <1>4, <2>1, PlaceStep
<1>5. QED BY <1>3, <1>4 DEF ColorAndName

\* What fits into the buffer is sent.
LEMMA SentProperties ==
  ASSUME SessionInv, NEW p \in Players, NEW ms \in Channel
  PROVE  LET e == Sent(p, ms)
         IN  /\ e \in Channel /\ Len(e) \in Nat /\ Len(e) <= Len(ms)
             /\ Len(down[p]) + Len(e) <= Buffer
             /\ \A i \in DOMAIN e : i \in DOMAIN ms /\ e[i] = ms[i]
             /\ conn[p] # "open" => e = <<>>
             /\ Len(e) = Len(ms) => e = ms
<1> DEFINE e == Sent(p, ms)
<1>1. Len(down[p]) \in Nat /\ Len(down[p]) <= Buffer /\ Buffer \in Nat /\ Len(ms) \in Nat
  BY SessionTypes, ChannelType, ClientAssumption
<1>2. CASE conn[p] # "open"
  <2>1. e = <<>>
    BY <1>2 DEF Sent
  <2>2. Len(ms) = 0 => ms = <<>>
    BY ChannelType
  <2>3. QED BY <1>1, <2>1, <2>2, EmptyChannel
<1>3. CASE conn[p] = "open"
  <2> DEFINE n == IF Len(ms) < Room(p) THEN Len(ms) ELSE Room(p)
  <2>1. n \in 0 .. Len(ms) /\ Len(down[p]) + n <= Buffer
    <3>1. Room(p) \in Nat /\ Len(down[p]) + Room(p) = Buffer
      BY <1>1 DEF Room
    <3>2. CASE Len(ms) < Room(p)
      BY <1>1, <3>1, <3>2
    <3>3. CASE ~ (Len(ms) < Room(p))
      BY <1>1, <3>1, <3>3
    <3>4. QED BY <3>2, <3>3
  <2>2. e = SubSeq(ms, 1, n)
    BY <1>3 DEF Sent
  <2> HIDE DEF n, e
  <2>3. /\ e \in Channel /\ Len(e) = n /\ \A i \in DOMAIN e : i \in DOMAIN ms /\ e[i] = ms[i]
        /\ n = Len(ms) => e = ms
    BY <2>1, <2>2, PrefixChannel
  <2>4. QED BY <1>1, <1>3, <2>1, <2>3 DEF e
<1>4. QED BY <1>2, <1>3

\* The server closes a connection; what is lost is the end of it.
LEMMA ClosedType ==
  ASSUME SessionInv, NEW p \in Players, NEW ms \in Channel, Len(ms) <= Buffer, Close(p, ms)
  PROVE  /\ conn' \in [Players -> {"none", "open", "left", "cut"}]
         /\ conn'[p] = IF conn[p] = "open" THEN "cut" ELSE conn[p]
         /\ \A q \in Players \ {p} : conn'[q] = conn[q] /\ down'[q] = down[q]
         /\ down' \in [Players -> Seq(Message)] /\ \A q \in Players : Len(down'[q]) <= Buffer
         /\ missed' \subseteq Players
         /\ \A q \in Players \ {p} : q \in missed' <=> q \in missed
         /\ \E n \in 0 .. Len(ms) :
              /\ HeaderRead(p) => n # 0
              /\ down'[p] = SubSeq(ms, 1, n)
              /\ missed' = IF n < Len(ms) THEN missed \union {p} ELSE missed
<1>1. ClientTypeOK /\ TypeOK /\ Len(ms) \in Nat
  BY SessionTypes, ChannelType
<1>2. PICK n \in (IF HeaderRead(p) THEN 1 ELSE 0) .. Len(ms) :
        /\ down' = [down EXCEPT ![p] = SubSeq(ms, 1, n)]
        /\ missed' = IF n < Len(ms) THEN missed \union {p} ELSE missed
  BY DEF Close
<1>3. n \in 0 .. Len(ms) /\ (HeaderRead(p) => n # 0)
  BY <1>1
<1>4. SubSeq(ms, 1, n) \in Channel /\ Len(SubSeq(ms, 1, n)) <= Buffer
  BY <1>1, <1>3, PrefixChannel, ClientAssumption
<1>5. /\ down' \in [Players -> Seq(Message)] /\ \A q \in Players : Len(down'[q]) <= Buffer
      /\ down'[p] = SubSeq(ms, 1, n) /\ \A q \in Players \ {p} : down'[q] = down[q]
  BY <1>1, <1>2, <1>4, DownType
<1>6. /\ conn' \in [Players -> {"none", "open", "left", "cut"}]
      /\ conn'[p] = IF conn[p] = "open" THEN "cut" ELSE conn[p]
      /\ \A q \in Players \ {p} : conn'[q] = conn[q]
  BY <1>1 DEF Close, ClientTypeOK
<1>7. missed' \subseteq Players /\ \A q \in Players \ {p} : q \in missed' <=> q \in missed
  BY <1>1, <1>2 DEF TypeOK
<1>8. QED BY <1>2, <1>3, <1>5, <1>6, <1>7

\* A client that waits has got messages of the lobby only.
LEMMA Waiting ==
  ASSUME SessionInv, NEW p \in Players, place[p] = "waiting"
  PROVE  /\ ~ iniciated[p] /\ ~ InGame(p) /\ ~ HeaderRead(p) /\ p \notin clients
         /\ ~ Creates(down[p]) /\ conn[p] \in {"open", "left"}
         /\ \A i \in DOMAIN down[p] : Rank(down[p][i]) = 0
<1>1. PlayerInv(p) /\ MatchInv /\ down[p] \in Channel /\ ClientTypeOK
  BY SessionTypes
<1>2. ~ iniciated[p] /\ \A i \in DOMAIN down[p] : Rank(down[p][i]) = 0
  BY <1>1 DEF PlayerInv, ChannelInv
<1>3. ~ InGame(p) /\ ~ Creates(down[p])
  BY <1>1, <1>2, ChannelType DEF InGame, Creates
<1>4. ~ HeaderRead(p)
  BY <1>1, <1>2, ChannelType DEF PlayerInv, ChannelInv, Rank
<1>5. p \notin clients
  BY <1>1 DEF MatchInv
<1>6. conn[p] \in {"open", "left"}
  BY <1>1 DEF PlayerInv, FrameInv, ClientTypeOK
<1>7. QED BY <1>2, <1>3, <1>4, <1>5, <1>6

\* ... and stays in order with more of them, in the queue or out of it.
LEMMA WaitingClient ==
  ASSUME SessionInv, NEW p \in Players, place[p] = "waiting", UNCHANGED clientVars,
         p \notin clients', place'[p] \in {"waiting", "dropped"},
         down'[p] \in Channel, \A i \in DOMAIN down'[p] : Rank(down'[p][i]) = 0,
         \/ conn'[p] = conn[p] /\ (conn[p] = "left" => down'[p] = <<>>)
         \/ conn[p] = "open" /\ conn'[p] = "cut" /\ place'[p] = "dropped"
  PROVE  PlayerInv(p)'
<1> USE DEF clientVars, frameVars, gameVars
<1>1. /\ ~ iniciated[p] /\ ~ InGame(p) /\ ~ HeaderRead(p) /\ PlayerInv(p)
      /\ conn[p] \in {"open", "left"}
  BY Waiting, SessionTypes
<1>2. ~ iniciated'[p] /\ ~ InGame(p)' /\ ~ HeaderRead(p)'
  BY <1>1 DEF InGame, HeaderRead
<1>3. FrameInv(p)'
  BY <1>1, <1>2 DEF PlayerInv, FrameInv
<1>4. /\ InOrder(down'[p]) /\ ~ Creates(down'[p])
      /\ \A i \in DOMAIN down'[p] : down'[p][i].type # "trash"
  BY ChannelType DEF InOrder, Creates, Rank
<1>5. ChannelInv(p)'
  BY <1>2, <1>4 DEF ChannelInv
<1>6. MapInv(p)'
  BY <1>2, <1>4 DEF MapInv
<1>7. QED BY <1>3, <1>5, <1>6 DEF PlayerInv

LEMMA SendQueueStateStep ==
  ASSUME SessionInv, NEW p \in Players, SendQueueState(p)
  PROVE  SessionInv'
<1> DEFINE ms == <<Msg("QUE", {}), Msg("T", {})>>
           d == down[p]
           e == Sent(p, ms)
<1>1. PlayerInv(p) /\ ClientTypeOK /\ TypeOK /\ MatchInv /\ d \in Channel /\ Len(d) \in Nat
  BY SessionTypes
<1>2. place[p] = "waiting" /\ UNCHANGED clientVars /\ up' = up
      /\ UNCHANGED <<phase, todo, clients, invalid, expired, announced>>
  BY DEF SendQueueState, matchVars
<1>3. ms \in Channel /\ \A i \in DOMAIN ms : Rank(ms[i]) = 0
  <2>1. Msg("QUE", {}) \in Message /\ Msg("T", {}) \in Message
    BY DEF Msg, Message
  <2>2. Rank(Msg("QUE", {})) = 0 /\ Rank(Msg("T", {})) = 0
    BY DEF Msg, Rank
  <2>3. \A a, b \in Message : /\ <<a, b>> \in Seq(Message) /\ DOMAIN <<a, b>> = {1, 2}
                              /\ <<a, b>>[1] = a /\ <<a, b>>[2] = b
    OBVIOUS
  <2>4. QED BY <2>1, <2>2, <2>3 DEF Channel
<1> HIDE DEF ms
<1>4. /\ e \in Channel /\ Len(e) \in Nat /\ Len(d) + Len(e) <= Buffer
      /\ \A i \in DOMAIN e : i \in DOMAIN ms /\ e[i] = ms[i]
      /\ conn[p] # "open" => e = <<>>
  BY <1>3, SentProperties
<1>5. IF e = ms
      THEN /\ down' = [down EXCEPT ![p] = @ \o ms] /\ UNCHANGED <<conn, place, missed>>
      ELSE Close(p, d \o e) /\ place' = [place EXCEPT ![p] = "dropped"]
  BY DEF SendQueueState, ms
<1> HIDE DEF e
<1>6. /\ d \o e \in Channel /\ Len(d \o e) <= Buffer
      /\ \A i \in DOMAIN (d \o e) : Rank((d \o e)[i]) = 0
  <2>1. /\ d \o e \in Channel /\ Len(d \o e) = Len(d) + Len(e)
        /\ \A i \in DOMAIN d : (d \o e)[i] = d[i]
        /\ \A i \in DOMAIN e : (d \o e)[Len(d) + i] = e[i]
        /\ \A i \in DOMAIN (d \o e) : i \in DOMAIN d \/ \E j \in DOMAIN e : i = Len(d) + j
    BY <1>1, <1>4, LongerChannel
  <2>2. \A i \in DOMAIN d : Rank(d[i]) = 0
    BY <1>2, Waiting
  <2>3. \A i \in DOMAIN e : Rank(e[i]) = 0
    BY <1>3, <1>4
  <2> DEFINE f == d \o e
  <2> HIDE DEF f
  <2>4. \A i \in DOMAIN f : Rank(f[i]) = 0
    BY <2>1, <2>2, <2>3 DEF f
  <2>5. QED BY <1>4, <2>1, <2>4 DEF f
<1>7. p \notin clients /\ ~ HeaderRead(p) /\ conn[p] \in {"open", "left"}
      /\ (conn[p] = "left" => d = <<>>)
  BY <1>1, <1>2, Waiting DEF PlayerInv, FrameInv
<1>8. Staying' = Staying
  BY <1>2 DEF Staying
<1>9. CASE e = ms
  <2>1. down' = [down EXCEPT ![p] = d \o e]
    BY <1>1, <1>5, <1>9 DEF ClientTypeOK
  <2>2. /\ down' \in [Players -> Seq(Message)] /\ \A q \in Players : Len(down'[q]) <= Buffer
        /\ down'[p] = d \o e /\ \A q \in Players \ {p} : down'[q] = down[q]
    BY <1>1, <1>6, <2>1, DownType
  <2>3. UNCHANGED <<conn, place, missed>>
    BY <1>5, <1>9
  <2>4. ClientTypeOK'
    BY <1>1, <1>2, <2>2, <2>3, ServerTypes DEF ClientTypeOK
  <2>5. TypeOK' /\ MatchInv'
    BY <1>1, <1>2, <2>3, <2>4 DEF TypeOK, MatchInv
  <2>6. conn[p] # "open" => d \o e = <<>>
    BY <1>1, <1>4, <1>7, EmptyChannel, ConcatEmptySeq DEF Channel
  <2>7. PlayerInv(p)'
    BY <1>2, <1>6, <1>7, <2>2, <2>3, <2>6, WaitingClient
  <2>8. \A q \in Players \ {p} : PlayerInv(q)'
    BY <1>2, <1>8, <2>2, <2>3, OtherClient DEF SessionInv, clientVars, frameVars, gameVars
  <2>9. QED BY <2>5, <2>7, <2>8 DEF SessionInv
<1>10. CASE e # ms
  <2>1. Close(p, d \o e) /\ place' = [place EXCEPT ![p] = "dropped"]
    BY <1>5, <1>10
  <2>2. /\ conn' \in [Players -> {"none", "open", "left", "cut"}]
        /\ conn'[p] = IF conn[p] = "open" THEN "cut" ELSE conn[p]
        /\ \A q \in Players \ {p} : conn'[q] = conn[q] /\ down'[q] = down[q]
        /\ down' \in [Players -> Seq(Message)] /\ \A q \in Players : Len(down'[q]) <= Buffer
        /\ missed' \subseteq Players
        /\ \A q \in Players \ {p} : q \in missed' <=> q \in missed
        /\ \E n \in 0 .. Len(d \o e) : down'[p] = SubSeq(d \o e, 1, n)
    BY <1>6, <2>1, ClosedType
  <2>3. PICK n \in 0 .. Len(d \o e) : down'[p] = SubSeq(d \o e, 1, n)
    BY <2>2
  <2>4. /\ place' \in [Players -> Places]
        /\ place'[p] = "dropped" /\ \A q \in Players \ {p} : place'[q] = place[q]
    BY <1>1, <2>1 DEF TypeOK, Places
  <2>5. ClientTypeOK'
    BY <1>1, <1>2, <2>2, ServerTypes DEF ClientTypeOK
  <2>6. TypeOK' /\ MatchInv'
    BY <1>1, <1>2, <1>7, <2>2, <2>4, <2>5 DEF TypeOK, MatchInv
  <2>7. /\ down'[p] \in Channel /\ \A i \in DOMAIN down'[p] : Rank(down'[p][i]) = 0
        /\ Len(down'[p]) = n
    <3> DEFINE f == d \o e
    <3>1. f \in Channel /\ n \in 0 .. Len(f) /\ \A i \in DOMAIN f : Rank(f[i]) = 0
      BY <1>6, <2>3
    <3>2. down'[p] = SubSeq(f, 1, n)
      BY <2>3
    <3> HIDE DEF f
    <3>3. QED BY <3>1, <3>2, PrefixChannel
  <2>8. conn[p] = "left" => down'[p] = <<>>
    <3>1. conn[p] # "open" => d \o e = <<>>
      BY <1>1, <1>4, <1>7, EmptyChannel, ConcatEmptySeq DEF Channel
    <3>2. conn[p] = "left" => n = 0
      BY <2>3, <3>1, EmptyChannel
    <3>3. QED BY <2>7, <3>2, ChannelType
  <2>9. PlayerInv(p)'
    BY <1>2, <1>7, <2>2, <2>4, <2>7, <2>8, WaitingClient
  <2>10. \A q \in Players \ {p} : PlayerInv(q)'
    BY <1>2, <1>8, <2>2, <2>4, OtherClient DEF SessionInv, clientVars, frameVars, gameVars
  <2>11. QED BY <2>6, <2>9, <2>10 DEF SessionInv
<1>11. QED BY <1>9, <1>10

-----------------------------------------------------------------------------
(* The match.                                                              *)

\* A player of the match gets messages of the match: updates that name players
\* that stay, kills of players that do not.
LEMMA MatchMessages ==
  ASSUME NEW q \in Players, PlayerInv(q), down[q] \in Channel, place[q] = "playing",
         q \in clients, NEW e \in Channel, down'[q] = down[q] \o e,
         \A i \in DOMAIN e : e[i].type \in {"NUP", "K", "W"},
         \A i \in DOMAIN e : e[i].type = "NUP" =>
           e[i].ids \subseteq Staying \ {q} /\ Gone(e, i) = {},
         conn[q] # "open" => e = <<>>,
         Staying' \subseteq Staying \ Gone(e, Len(e)),
         q \notin missed' => q \notin missed /\ Staying \ Gone(e, Len(e)) \subseteq Staying',
         conn'[q] = conn[q], place'[q] = place[q], UNCHANGED clientVars
  PROVE  PlayerInv(q)'
<1> DEFINE d == down[q]
           f == d \o e
<1> USE DEF clientVars, frameVars, gameVars
<1>1. FrameInv(q) /\ ChannelInv(q) /\ MapInv(q)
  BY DEF PlayerInv
<1>2. InGame(q)' = InGame(q) /\ HeaderRead(q)' = HeaderRead(q)
  BY DEF InGame, HeaderRead
<1>3. /\ f \in Channel /\ Len(f) = Len(d) + Len(e)
      /\ \A i \in DOMAIN d : i \in DOMAIN f /\ f[i] = d[i]
      /\ \A i \in DOMAIN e : Len(d) + i \in DOMAIN f /\ f[Len(d) + i] = e[i]
      /\ \A i \in DOMAIN f : i \in DOMAIN d \/ \E j \in DOMAIN e : i = Len(d) + j
      /\ Creates(f) <=> Creates(d) \/ Creates(e)
      /\ Created(f) = Created(d) \union Created(e)
      /\ \A i \in DOMAIN d : Gone(f, i) = Gone(d, i)
      /\ \A i \in DOMAIN e : Gone(f, Len(d) + i) = Gone(d, Len(d)) \union Gone(e, i)
      /\ Gone(f, Len(f)) = Gone(d, Len(d)) \union Gone(e, Len(e))
  BY LongerChannel
<1>4. \A i \in DOMAIN e : Rank(e[i]) = 2
  BY DEF Rank
<1>5. ~ Creates(e) /\ Created(e) = {}
  BY <1>4, ChannelType, CreatedElement DEF Creates
<1>6. InOrder(f)
  <2>1. InOrder(d) /\ \A i \in DOMAIN d : Rank(d[i]) \in 0 .. 2
    BY <1>1, ChannelType DEF ChannelInv
  <2>2. InOrder(e)
    BY <1>4 DEF InOrder
  <2>3. \A i \in DOMAIN d, j \in DOMAIN e :
          Rank(d[i]) <= Rank(e[j]) /\ (Rank(e[j]) = 1 => Rank(d[i]) = 0)
    BY <1>4, <2>1
  <2>4. QED BY <2>1, <2>2, <2>3, LongerOrder
<1>7. conn[q] # "open" => f = d
  <2>1. d \o <<>> = d
    BY ConcatEmptySeq DEF Channel
  <2>2. QED BY <2>1
<1>8. down'[q] = f /\ d \in Channel
  OBVIOUS
<1>9. Creates(f) <=> Creates(d)
  BY <1>3, <1>5
<1>10. d # <<>> => f # <<>> /\ f[1] = d[1]
  BY <1>3, ChannelType
<1> HIDE DEF f
<1>11. FrameInv(q)'
  BY <1>1, <1>2, <1>7, <1>8 DEF FrameInv
<1>12. ChannelInv(q)'
  <2>1. \A i \in DOMAIN f : f[i].type = "trash" => i = 1 /\ stage[q] = "queue"
    <3>1. \A i \in DOMAIN d : d[i].type = "trash" => i = 1 /\ stage[q] = "queue"
      BY <1>1 DEF ChannelInv
    <3>2. \A i \in DOMAIN e : e[i].type # "trash"
      OBVIOUS
    <3>3. \A i \in DOMAIN f : \/ i \in DOMAIN d /\ f[i] = d[i]
                             \/ \E j \in DOMAIN e : f[i] = e[j]
      BY <1>3
    <3> HIDE DEF d
    <3>4. QED BY <3>1, <3>2, <3>3
  <2>2. HeaderRead(q) => f # <<>> /\ f[1].type = "NCP"
    BY <1>1, <1>10 DEF ChannelInv
  <2>3. InGame(q) => \A i \in DOMAIN f : Rank(f[i]) = 2
    BY <1>1, <1>3, <1>4 DEF ChannelInv
  <2>4. \/ InGame(q) \/ q \in missed' \/ Creates(f)
        \/ (\A i \in DOMAIN f : Rank(f[i]) # 2) /\ ~ (conn[q] = "open")
    BY <1>1, <1>7, <1>9 DEF ChannelInv
  <2>5. QED BY <1>2, <1>6, <1>8, <2>1, <2>2, <2>3, <2>4 DEF ChannelInv
<1>13. MapInv(q)'
  <2>1. Opponents(q)' = Opponents(q)
    BY <1>2, <1>3, <1>5, <1>8 DEF Opponents
  <2> SUFFICES ASSUME InGame(q) \/ Creates(d)
               PROVE  /\ q \notin Opponents(q)
                      /\ \A i \in DOMAIN f : f[i].type = "NUP" =>
                           f[i].ids \subseteq Opponents(q) \ Gone(f, i)
                      /\ Staying' \ {q} \subseteq Opponents(q) \ Gone(f, Len(f))
                      /\ q \notin missed' => Opponents(q) \ Gone(f, Len(f)) \subseteq Staying'
    BY <1>2, <1>8, <1>9, <2>1 DEF MapInv
  <2>2. /\ q \notin Opponents(q)
        /\ \A i \in DOMAIN d : d[i].type = "NUP" =>
             d[i].ids \subseteq Opponents(q) \ Gone(d, i)
        /\ Staying \ {q} \subseteq Opponents(q) \ Gone(d, Len(d))
        /\ q \notin missed => Opponents(q) \ Gone(d, Len(d)) \subseteq Staying
    BY <1>1 DEF MapInv
  <2>3. ASSUME NEW i \in DOMAIN f, f[i].type = "NUP"
        PROVE  f[i].ids \subseteq Opponents(q) \ Gone(f, i)
    <3>1. CASE i \in DOMAIN d
      BY <1>3, <2>2, <2>3, <3>1
    <3>2. CASE \E j \in DOMAIN e : i = Len(d) + j
      <4>1. PICK j \in DOMAIN e : i = Len(d) + j
        BY <3>2
      <4>2. f[i] = e[j] /\ Gone(f, i) = Gone(d, Len(d)) \union Gone(e, j)
        BY <1>3, <4>1
      <4>3. e[j].ids \subseteq Staying \ {q} /\ Gone(e, j) = {}
        BY <2>3, <4>2
      <4>4. QED BY <2>2, <4>2, <4>3
    <3>3. QED BY <1>3, <3>1, <3>2
  <2>4. Staying' \ {q} \subseteq Opponents(q) \ Gone(f, Len(f))
    BY <1>3, <2>2
  <2>5. q \notin missed' => Opponents(q) \ Gone(f, Len(f)) \subseteq Staying'
    BY <1>3, <2>2
  <2>6. QED BY <2>2, <2>3, <2>4, <2>5
<1>14. QED BY <1>11, <1>12, <1>13 DEF PlayerInv

\* A packet, or several, for some of the players.
LEMMA SentToSome ==
  ASSUME SessionInv, NEW W \in SUBSET Players, NEW M \in [Players -> Channel],
         down' = [q \in Players |-> IF q \in W THEN down[q] \o Sent(q, M[q]) ELSE down[q]]
  PROVE  /\ down' \in [Players -> Seq(Message)] /\ \A q \in Players : Len(down'[q]) <= Buffer
         /\ \A q \in Players : down'[q] = IF q \in W THEN down[q] \o Sent(q, M[q]) ELSE down[q]
<1>1. ASSUME NEW q \in Players
      PROVE  /\ down[q] \in Seq(Message) /\ Len(down[q]) <= Buffer
             /\ down[q] \o Sent(q, M[q]) \in Seq(Message)
             /\ Len(down[q] \o Sent(q, M[q])) <= Buffer
  <2>1. down[q] \in Channel /\ Len(down[q]) <= Buffer
    BY <1>1, SessionTypes
  <2>2. Sent(q, M[q]) \in Channel /\ Len(down[q]) + Len(Sent(q, M[q])) <= Buffer
    BY <1>1, SentProperties
  <2>3. down[q] \o Sent(q, M[q]) \in Channel
        /\ Len(down[q] \o Sent(q, M[q])) = Len(down[q]) + Len(Sent(q, M[q]))
    BY <2>1, <2>2, LongerChannel
  <2>4. QED BY <2>1, <2>2, <2>3 DEF Channel
<1>2. \A q \in Players : down'[q] = IF q \in W THEN down[q] \o Sent(q, M[q]) ELSE down[q]
  OBVIOUS
<1>3. \A q \in Players : down'[q] \in Seq(Message) /\ Len(down'[q]) <= Buffer
  BY <1>1, <1>2
<1>4. QED BY <1>2, <1>3

\* One packet.
LEMMA OneMessage ==
  ASSUME NEW m \in Message
  PROVE  /\ <<m>> \in Channel /\ Len(<<m>>) = 1 /\ DOMAIN <<m>> = {1} /\ <<m>>[1] = m
         /\ \A n : m.type # "K" => Gone(<<m>>, n) = {}
<1>1. <<m>> \in Channel /\ Len(<<m>>) = 1 /\ DOMAIN <<m>> = {1} /\ <<m>>[1] = m
  BY DEF Channel
<1>2. QED BY <1>1 DEF Gone

\* The connection has it on its way, or it was not sent.
LEMMA OneSent ==
  ASSUME SessionInv, NEW p \in Players, NEW m \in Message
  PROVE  Sent(p, <<m>>) \in {<<>>, <<m>>}
<1> DEFINE e == Sent(p, <<m>>)
<1>1. /\ e \in Channel /\ Len(e) \in Nat /\ Len(e) <= Len(<<m>>)
      /\ Len(e) = Len(<<m>>) => e = <<m>>
  BY OneMessage, SentProperties
<1>2. Len(<<m>>) = 1
  BY OneMessage
<1> HIDE DEF e
<1>3. Len(e) = 0 => e = <<>>
  BY <1>1, ChannelType
<1>4. Len(e) = 0 \/ Len(e) = 1
  <2>1. Len(e) \in Nat /\ Len(e) <= 1
    BY <1>1, <1>2
  <2>2. \A n \in Nat : n <= 1 => n = 0 \/ n = 1
    OBVIOUS
  <2>3. QED BY ONLY <2>1, <2>2
<1>5. QED BY <1>1, <1>2, <1>3, <1>4 DEF e

\* LockStep lets a client thread do its part of a phase, which may kill its
\* player, who was not killed before in this round.
LEMMA TurnStep ==
  ASSUME SessionInv, NEW p \in Players, NEW ph, NEW next,
         <<ph, next>> \in {<<"receive", "validate">>, <<"validate", "send">>, <<"send", "kill">>},
         Turn(p, ph, next), place' = place,
         invalid' = invalid \/ (~ Killed(p) /\ Kill(p))
  PROVE  /\ p \in clients /\ clients' = clients /\ announced' = announced
         /\ Staying = clients /\ Staying' = clients
         /\ phase' \in {"receive", "validate", "send", "kill"} /\ todo' \subseteq clients
         /\ invalid' \in Seq(Players) /\ Len(invalid') <= Cardinality(Players)
         /\ MatchInv'
<1>1. TypeOK /\ MatchInv /\ p \in todo /\ p \in clients /\ phase = ph
      /\ invalid \in Seq(Players) /\ clients \subseteq Players
  BY SessionTypes DEF Turn, TypeOK
<1>2. /\ clients' = clients /\ announced' = announced
      /\ \/ todo = {p} /\ phase' = next /\ todo' = clients
         \/ todo # {p} /\ phase' = phase /\ todo' = todo \ {p}
  BY DEF Turn
<1>3. /\ phase' \in {"receive", "validate", "send", "kill"} /\ todo' \subseteq clients
      /\ phase' = "receive" => ph = "receive" /\ todo' = todo \ {p}
      /\ ph \in {"receive", "validate", "send"}
  BY <1>1, <1>2 DEF TypeOK
<1>4. Staying = clients /\ Staying' = clients
  BY <1>1, <1>2, <1>3 DEF Staying
<1>5. /\ invalid' \in Seq(Players) /\ ToSet(invalid') \subseteq ToSet(invalid) \union {p}
      /\ \A i, j \in DOMAIN invalid' : invalid'[i] = invalid'[j] => i = j
  <2>1. CASE invalid' = invalid
    BY <1>1, <2>1 DEF MatchInv
  <2>2. CASE ~ Killed(p) /\ Kill(p)
    <3> DEFINE s == invalid
               t == Append(s, p)
    <3>1. invalid' = t /\ p \notin ToSet(s) /\ \A i, j \in DOMAIN s : s[i] = s[j] => i = j
      BY <1>1, <2>2 DEF Kill, Killed, MatchInv
    <3>2. t \in Seq(Players) /\ ToSet(t) = ToSet(s) \union {p}
      BY <1>1, ToSetAppend, AppendProperties
    <3>3. /\ Len(s) \in Nat /\ DOMAIN s = 1 .. Len(s) /\ DOMAIN t = 1 .. Len(s) + 1
          /\ \A i \in 1 .. Len(s) : t[i] = s[i] /\ s[i] \in ToSet(s)
          /\ t[Len(s) + 1] = p
      BY <1>1, AppendProperties, LenProperties DEF ToSet
    <3> HIDE DEF s, t
    <3>4. \A i, j \in DOMAIN t : t[i] = t[j] => i = j
      <4> SUFFICES ASSUME NEW i \in DOMAIN t, NEW j \in DOMAIN t, t[i] = t[j] PROVE i = j
        OBVIOUS
      <4>1. (i \in 1 .. Len(s) \/ i = Len(s) + 1) /\ (j \in 1 .. Len(s) \/ j = Len(s) + 1)
        BY <3>3
      <4>2. QED BY <3>1, <3>3, <4>1
    <3>5. QED BY <3>1, <3>2, <3>4 DEF s
  <2>3. QED BY <2>1, <2>2
<1>6. ToSet(invalid') \subseteq clients
  BY <1>1, <1>5 DEF MatchInv
<1>7. Len(invalid') <= Cardinality(Players)
  <2> DEFINE t == invalid'
  <2>1. IsFiniteSet(ToSet(t)) /\ Cardinality(ToSet(t)) = Len(t)
    BY <1>5, DistinctElements
  <2>2. ToSet(t) \subseteq Players /\ IsFiniteSet(Players)
    BY <1>1, <1>6, ClientAssumption
  <2> HIDE DEF t
  <2>3. Cardinality(ToSet(t)) <= Cardinality(Players)
    BY <2>2, FS_Subset
  <2>4. QED BY <2>1, <2>3 DEF t
<1>8. phase' = "receive" => ToSet(invalid') \cap todo' = {}
  BY <1>1, <1>3, <1>5 DEF MatchInv
<1>9. MatchInv'
  BY <1>1, <1>2, <1>3, <1>5, <1>6, <1>8 DEF MatchInv
<1>10. QED BY <1>1, <1>2, <1>3, <1>4, <1>5, <1>7, <1>9

\* The parts of the types that a turn changes.
LEMMA TurnTypes ==
  ASSUME TypeOK, UNCHANGED <<clientVars, conn, place, missed>>,
         down' \in [Players -> Seq(Message)], \A q \in Players : Len(down'[q]) <= Buffer,
         up' \in [Players -> Seq({"QUE", "NUP"})], \A q \in Players : Len(up'[q]) <= UpBuffer,
         clients' = clients, announced' = announced, expired' \subseteq Players,
         phase' \in {"receive", "validate", "send", "kill"}, todo' \subseteq clients,
         invalid' \in Seq(Players), Len(invalid') <= Cardinality(Players)
  PROVE  TypeOK'
<1>1. ClientTypeOK'
  BY ServerTypes DEF TypeOK, ClientTypeOK
<1>2. QED BY <1>1 DEF TypeOK

\* No message is sent in the turn.
LEMMA QuietTurn ==
  ASSUME SessionInv, NEW p \in Players, NEW ph, NEW next,
         <<ph, next>> \in {<<"receive", "validate">>, <<"validate", "send">>, <<"send", "kill">>},
         Turn(p, ph, next), invalid' = invalid \/ (~ Killed(p) /\ Kill(p)),
         UNCHANGED <<clientVars, conn, down, place, missed>>,
         up' \in [Players -> Seq({"QUE", "NUP"})], \A q \in Players : Len(up'[q]) <= UpBuffer,
         expired' \subseteq Players
  PROVE  SessionInv'
<1>1. /\ p \in clients /\ clients' = clients /\ announced' = announced
      /\ Staying = clients /\ Staying' = clients
      /\ phase' \in {"receive", "validate", "send", "kill"} /\ todo' \subseteq clients
      /\ invalid' \in Seq(Players) /\ Len(invalid') <= Cardinality(Players)
      /\ MatchInv'
  BY TurnStep
<1>2. TypeOK'
  <2>1. down' \in [Players -> Seq(Message)] /\ \A q \in Players : Len(down'[q]) <= Buffer
    BY SessionTypes DEF ClientTypeOK
  <2>2. QED BY <1>1, <2>1, SessionTypes, TurnTypes
<1>3. \A q \in Players : PlayerInv(q)'
  BY <1>1, OtherClient DEF SessionInv, clientVars, frameVars, gameVars
<1>4. QED BY <1>1, <1>2, <1>3 DEF SessionInv

LEMMA PhaseGetPlayerUpdateStep ==
  ASSUME SessionInv, NEW p \in Players, PhaseGetPlayerUpdate(p)
  PROVE  SessionInv'
<1>1. /\ Turn(p, "receive", "validate") /\ TypeOK /\ MatchInv /\ ClientTypeOK
      /\ UNCHANGED <<clientVars, conn, down, place, missed>>
  BY SessionTypes DEF PhaseGetPlayerUpdate
<1>2. expired' \subseteq Players
  BY <1>1 DEF PhaseGetPlayerUpdate, TypeOK
<1>3. up' \in [Players -> Seq({"QUE", "NUP"})] /\ \A q \in Players : Len(up'[q]) <= UpBuffer
  <2>1. CASE up[p] # <<>> /\ up' = [up EXCEPT ![p] = Tail(@)]
    BY <1>1, <2>1, UpRead
  <2>2. CASE up' = up
    BY <1>1, <2>2 DEF ClientTypeOK
  <2>3. QED BY <2>1, <2>2 DEF PhaseGetPlayerUpdate
<1>4. invalid' = invalid \/ (~ Killed(p) /\ Kill(p))
  <2>1. p \notin ToSet(invalid)
    BY <1>1 DEF Turn, MatchInv
  <2>2. QED BY <2>1 DEF PhaseGetPlayerUpdate, Killed
<1>5. QED BY <1>1, <1>2, <1>3, <1>4, QuietTurn

LEMMA PhaseValidatePlayerStep ==
  ASSUME SessionInv, NEW p \in Players, PhaseValidatePlayer(p)
  PROVE  SessionInv'
<1>1. /\ Turn(p, "validate", "send") /\ TypeOK /\ ClientTypeOK
      /\ UNCHANGED <<clientVars, conn, down, up, expired, place, missed>>
      /\ invalid' = invalid \/ (~ Killed(p) /\ Kill(p))
  BY SessionTypes DEF PhaseValidatePlayer
<1>2. expired' \subseteq Players /\ up' \in [Players -> Seq({"QUE", "NUP"})]
      /\ \A q \in Players : Len(up'[q]) <= UpBuffer
  BY <1>1 DEF TypeOK, ClientTypeOK
<1>3. QED BY <1>1, <1>2, QuietTurn

LEMMA PhaseSendPlayerUpdateStep ==
  ASSUME SessionInv, NEW p \in Players, PhaseSendPlayerUpdate(p)
  PROVE  SessionInv'
<1> DEFINE m == Msg("NUP", clients \ {p})
           e == Sent(p, <<m>>)
<1>1. /\ Turn(p, "send", "kill") /\ TypeOK /\ ClientTypeOK /\ MatchInv
      /\ clientVars' = clientVars /\ UNCHANGED <<conn, up, expired, place, missed>>
      /\ invalid' = invalid \/ (~ Killed(p) /\ Kill(p))
  BY SessionTypes DEF PhaseSendPlayerUpdate
<1>2. expired' \subseteq Players /\ up' \in [Players -> Seq({"QUE", "NUP"})]
      /\ \A q \in Players : Len(up'[q]) <= UpBuffer
  BY <1>1 DEF TypeOK, ClientTypeOK
<1>3. CASE down' = down
  BY <1>1, <1>2, <1>3, QuietTurn
<1>4. CASE down' = [down EXCEPT ![p] = @ \o e]
  <2>1. m \in Message /\ m.type = "NUP" /\ m.ids = clients \ {p}
    BY <1>1 DEF Msg, Message, TypeOK
  <2>2. /\ <<m>> \in Channel /\ Len(<<m>>) = 1 /\ DOMAIN <<m>> = {1} /\ <<m>>[1] = m
        /\ \A n : Gone(<<m>>, n) = {}
    BY <2>1, OneMessage
  <2>3. /\ e \in Channel /\ Len(e) \in Nat /\ Len(down[p]) + Len(e) <= Buffer
        /\ conn[p] # "open" => e = <<>>
        /\ \A i \in DOMAIN e : i \in DOMAIN <<m>> /\ e[i] = <<m>>[i]
    BY <2>2, SentProperties
  <2>4. \A n : Gone(e, n) = {}
    <3>1. \A i \in DOMAIN e : e[i] = m
      BY <2>2, <2>3
    <3> HIDE DEF e, m
    <3>2. \A n, v : v \notin Gone(e, n)
      BY <2>1, <3>1, GoneElement
    <3>3. QED BY <3>2
  <2> HIDE DEF e, m
  <2>5. /\ p \in clients /\ clients' = clients /\ announced' = announced
        /\ Staying = clients /\ Staying' = clients
        /\ phase' \in {"receive", "validate", "send", "kill"} /\ todo' \subseteq clients
        /\ invalid' \in Seq(Players) /\ Len(invalid') <= Cardinality(Players)
        /\ MatchInv'
    BY <1>1, TurnStep
  <2>6. down[p] \in Channel /\ PlayerInv(p) /\ place[p] = "playing"
    BY <1>1, <2>5, SessionTypes DEF MatchInv
  <2>7. down[p] \o e \in Channel /\ Len(down[p] \o e) <= Buffer
    BY <2>3, <2>6, LongerChannel
  <2>8. /\ down' \in [Players -> Seq(Message)] /\ \A q \in Players : Len(down'[q]) <= Buffer
        /\ down'[p] = down[p] \o e /\ \A q \in Players \ {p} : down'[q] = down[q]
    <3>1. down' = [down EXCEPT ![p] = down[p] \o e]
      BY <1>1, <1>4 DEF ClientTypeOK
    <3>2. QED BY <1>1, <2>7, <3>1, DownType
  <2>9. TypeOK'
    BY <1>1, <1>2, <2>5, <2>8, TurnTypes
  <2>10. PlayerInv(p)'
    <3>1. \A i \in DOMAIN e : e[i].type = "NUP" /\ e[i].ids = Staying \ {p}
      BY <2>1, <2>2, <2>3, <2>5
    <3>2. QED BY <1>1, <2>3, <2>4, <2>5, <2>6, <2>8, <3>1, MatchMessages
  <2>11. \A q \in Players \ {p} : PlayerInv(q)'
    BY <1>1, <2>5, <2>8, OtherClient DEF SessionInv, clientVars, frameVars, gameVars
  <2>12. QED BY <2>5, <2>9, <2>10, <2>11 DEF SessionInv
<1>5. QED BY <1>3, <1>4 DEF PhaseSendPlayerUpdate

-----------------------------------------------------------------------------
(* The clean-up.                                                           *)

\* The kills that are sent name killed players, and all of them unless some
\* could not be sent.
LEMMA KillsSent ==
  ASSUME SessionInv, NEW p \in Players
  PROVE  LET e == Sent(p, Kills(p))
         IN  /\ Kills(p) \in Channel /\ e \in Channel
             /\ \A i \in DOMAIN e : e[i].type = "K"
             /\ Gone(e, Len(e)) \subseteq ToSet(invalid)
             /\ e = Kills(p) => Gone(e, Len(e)) = ToSet(invalid)
             /\ conn[p] # "open" => e = <<>>
<1> DEFINE k == Kills(p)
           e == Sent(p, k)
<1>1. invalid \in Seq(Players) /\ DOMAIN invalid = 1 .. Len(invalid) /\ Len(invalid) \in Nat
  BY SessionTypes, LenProperties DEF TypeOK
<1>2. \A i \in DOMAIN invalid : /\ Msg("K", {invalid[i]}) \in Message
                                /\ Msg("K", {invalid[i]}).type = "K"
                                /\ Msg("K", {invalid[i]}).ids = {invalid[i]}
  <2>1. \A i \in DOMAIN invalid : invalid[i] \in Players
    BY <1>1
  <2>2. QED BY <2>1 DEF Msg, Message
<1>3. /\ k \in [1 .. Len(invalid) -> Message] /\ DOMAIN k = DOMAIN invalid
      /\ \A i \in DOMAIN k : k[i].type = "K" /\ k[i].ids = {invalid[i]}
  BY <1>1, <1>2 DEF Kills
<1> HIDE DEF k
<1>4. k \in Channel /\ Len(k) = Len(invalid)
  <2>1. k \in Seq(Message)
    BY <1>1, <1>3, SeqDef
  <2>2. QED BY <1>1, <1>3, <2>1, LenProperties DEF Channel
<1>5. /\ e \in Channel /\ Len(e) \in Nat
      /\ conn[p] # "open" => e = <<>>
      /\ \A i \in DOMAIN e : i \in DOMAIN k /\ e[i] = k[i]
  BY <1>4, SentProperties
<1> HIDE DEF e
<1>6. \A i \in DOMAIN e : e[i].type = "K" /\ e[i].ids \subseteq ToSet(invalid)
  <2>1. \A i \in DOMAIN invalid : invalid[i] \in ToSet(invalid)
    BY DEF ToSet
  <2>2. QED BY <1>3, <1>5, <2>1
<1>7. Gone(e, Len(e)) \subseteq ToSet(invalid)
  BY <1>6, GoneElement
<1>8. ASSUME e = k PROVE ToSet(invalid) \subseteq Gone(e, Len(e))
  <2> SUFFICES ASSUME NEW v \in ToSet(invalid) PROVE v \in Gone(e, Len(e))
    OBVIOUS
  <2>1. PICK i \in DOMAIN invalid : v = invalid[i]
    BY DEF ToSet
  <2>2. i \in DOMAIN e /\ e[i].type = "K" /\ v \in e[i].ids
    BY <1>3, <1>8, <2>1
  <2>3. i <= Len(e)
    BY <1>1, <1>4, <1>8, <2>1
  <2>4. QED BY <2>2, <2>3, GoneElement
<1>9. e = Sent(p, k) /\ k = Kills(p)
  BY DEF e, k
<1>10. QED BY <1>4, <1>5, <1>6, <1>7, <1>8, <1>9

LEMMA SendKillsStep ==
  ASSUME SessionInv, SendKills
  PROVE  SessionInv'
<1> DEFINE M == [q \in Players |-> Kills(q)]
<1>1. /\ phase = "kill" /\ phase' = "reap" /\ todo' = {}
      /\ down' = [p \in Players |->
                    IF p \in clients THEN down[p] \o Sent(p, Kills(p)) ELSE down[p]]
      /\ missed' = missed \union {p \in clients : Sent(p, Kills(p)) # Kills(p)}
      /\ clientVars' = clientVars
      /\ UNCHANGED <<conn, up, place, clients, invalid, expired, announced>>
  BY DEF SendKills
<1>2. TypeOK /\ MatchInv /\ clients \subseteq Players /\ ClientTypeOK
  BY DEF SessionInv, TypeOK
<1>3. M \in [Players -> Channel] /\ \A q \in Players : M[q] = Kills(q)
  BY KillsSent
<1> HIDE DEF M
<1>4. /\ down' \in [Players -> Seq(Message)] /\ \A q \in Players : Len(down'[q]) <= Buffer
      /\ \A q \in Players : down'[q] = IF q \in clients THEN down[q] \o Sent(q, Kills(q))
                                       ELSE down[q]
  <2>1. down' = [q \in Players |->
                   IF q \in clients THEN down[q] \o Sent(q, M[q]) ELSE down[q]]
    BY <1>1, <1>3
  <2>2. /\ down' \in [Players -> Seq(Message)] /\ \A q \in Players : Len(down'[q]) <= Buffer
        /\ \A q \in Players : down'[q] = IF q \in clients THEN down[q] \o Sent(q, M[q])
                                         ELSE down[q]
    BY <1>2, <1>3, <2>1, SentToSome
  <2>3. QED BY <1>3, <2>2
<1>5. Staying = clients /\ Staying' = clients \ ToSet(invalid)
  BY <1>1 DEF Staying
<1>6. ClientTypeOK'
  BY <1>1, <1>2, <1>4, ServerTypes DEF ClientTypeOK
<1>7. TypeOK' /\ MatchInv'
  BY <1>1, <1>2, <1>6 DEF TypeOK, MatchInv
<1>8. ASSUME NEW q \in Players, q \in clients PROVE PlayerInv(q)'
  <2> DEFINE e == Sent(q, Kills(q))
  <2>1. /\ e \in Channel /\ \A i \in DOMAIN e : e[i].type = "K"
        /\ Gone(e, Len(e)) \subseteq ToSet(invalid)
        /\ e = Kills(q) => Gone(e, Len(e)) = ToSet(invalid)
        /\ conn[q] # "open" => e = <<>>
    BY KillsSent
  <2>2. q \notin missed' => q \notin missed /\ e = Kills(q)
    BY <1>1, <1>8
  <2>3. down'[q] = down[q] \o e
    BY <1>4, <1>8
  <2> HIDE DEF e
  <2>4. PlayerInv(q) /\ down[q] \in Channel /\ place[q] = "playing"
    BY <1>2, <1>8, SessionTypes DEF MatchInv
  <2>5. conn'[q] = conn[q] /\ place'[q] = place[q]
    BY <1>1
  <2>6. Staying' \subseteq Staying \ Gone(e, Len(e))
    BY <1>5, <2>1
  <2>7. q \notin missed' => q \notin missed /\ Staying \ Gone(e, Len(e)) \subseteq Staying'
    BY <1>5, <2>1, <2>2
  <2>8. \A i \in DOMAIN e : e[i].type \in {"NUP", "K", "W"} /\ e[i].type # "NUP"
    BY <2>1
  <2>9. QED BY <1>1, <1>8, <2>1, <2>3, <2>4, <2>5, <2>6, <2>7, <2>8, MatchMessages
<1>9. ASSUME NEW q \in Players, q \notin clients PROVE PlayerInv(q)'
  <2>1. down'[q] = down[q] /\ (q \in missed' <=> q \in missed)
    BY <1>1, <1>4, <1>9
  <2>2. QED BY <1>1, <1>9, <2>1, OtherClient DEF SessionInv, clientVars, frameVars, gameVars
<1>10. QED BY <1>7, <1>8, <1>9 DEF SessionInv

LEMMA CheckForExitGameStep ==
  ASSUME SessionInv, CheckForExitGame
  PROVE  SessionInv'
<1> DEFINE W == {p \in clients : clients = {p}}
           M == [q \in Players |-> <<Msg("W", {q})>>]
<1>1. /\ phase = "reap" /\ invalid = <<>> /\ todo' = clients
      /\ phase' = IF clients = {} THEN "over" ELSE "receive"
      /\ announced' = announced \union W
      /\ clientVars' = clientVars
      /\ UNCHANGED <<conn, up, place, clients, invalid, expired, missed>>
  BY DEF CheckForExitGame, Announce
<1>2. TypeOK /\ MatchInv /\ clients \subseteq Players /\ ClientTypeOK
  BY DEF SessionInv, TypeOK
<1>3. W \in SUBSET Players
  BY <1>2
<1>4. \A q \in Players : Msg("W", {q}) \in Message /\ Msg("W", {q}).type = "W"
  BY DEF Msg, Message
<1>5. M \in [Players -> Channel] /\ \A q \in Players : M[q] = <<Msg("W", {q})>>
  BY <1>4, OneMessage
<1>6. down' = [p \in Players |-> IF p \in W THEN down[p] \o Sent(p, <<Msg("W", {p})>>)
                                 ELSE down[p]]
  BY DEF CheckForExitGame, Announce
<1>7. W \subseteq clients
  OBVIOUS
<1> HIDE DEF W, M
<1>8. /\ down' \in [Players -> Seq(Message)] /\ \A q \in Players : Len(down'[q]) <= Buffer
      /\ \A q \in Players : down'[q] = IF q \in W THEN down[q] \o Sent(q, <<Msg("W", {q})>>)
                                       ELSE down[q]
  <2>1. down' = [q \in Players |-> IF q \in W THEN down[q] \o Sent(q, M[q]) ELSE down[q]]
    BY <1>5, <1>6
  <2>2. /\ down' \in [Players -> Seq(Message)] /\ \A q \in Players : Len(down'[q]) <= Buffer
        /\ \A q \in Players : down'[q] = IF q \in W THEN down[q] \o Sent(q, M[q]) ELSE down[q]
    BY <1>3, <1>5, <2>1, SentToSome
  <2>3. QED BY <1>5, <2>2
<1>9. ToSet(invalid) = {} /\ Staying = clients /\ Staying' = clients
  <2>1. ToSet(invalid) = {}
    BY <1>1, <1>2, ToSetProperties DEF TypeOK
  <2>2. QED BY <1>1, <2>1 DEF Staying
<1>10. ClientTypeOK'
  BY <1>1, <1>2, <1>8, ServerTypes DEF ClientTypeOK
<1>11. TypeOK'
  BY <1>1, <1>2, <1>3, <1>10 DEF TypeOK
<1>12. MatchInv'
  BY <1>1, <1>2, <1>9 DEF MatchInv
<1>13. ASSUME NEW q \in Players, q \in W PROVE PlayerInv(q)'
  <2> DEFINE m == Msg("W", {q})
             e == Sent(q, <<m>>)
  <2>1. m \in Message /\ m.type = "W"
    BY <1>4
  <2>2. <<m>> \in Channel
    BY <2>1, OneMessage
  <2>3. e \in Channel /\ (conn[q] # "open" => e = <<>>)
    BY <2>2, SentProperties
  <2>4. e = <<>> \/ e = <<m>>
    BY <2>1, OneSent
  <2>5. down'[q] = down[q] \o e
    BY <1>8, <1>13
  <2> HIDE DEF e, m
  <2>6. \A i \in DOMAIN e : e[i].type = "W"
    BY <2>1, <2>4, OneMessage, EmptyChannel
  <2>7. Gone(e, Len(e)) = {}
    BY <2>6, GoneElement
  <2>8. PlayerInv(q) /\ down[q] \in Channel /\ place[q] = "playing" /\ q \in clients
    BY <1>2, <1>7, <1>13, SessionTypes DEF MatchInv
  <2>9. conn'[q] = conn[q] /\ place'[q] = place[q] /\ missed' = missed
    BY <1>1
  <2>10. \A i \in DOMAIN e : e[i].type \in {"NUP", "K", "W"} /\ e[i].type # "NUP"
    BY <2>6
  <2>11. Staying' \subseteq Staying \ Gone(e, Len(e))
         /\ Staying \ Gone(e, Len(e)) \subseteq Staying'
    BY <1>9, <2>7
  <2>12. QED BY <1>1, <2>3, <2>5, <2>8, <2>9, <2>10, <2>11, MatchMessages
<1>14. ASSUME NEW q \in Players, q \notin W PROVE PlayerInv(q)'
  <2>1. down'[q] = down[q]
    BY <1>8, <1>14
  <2>2. QED BY <1>1, <1>9, <2>1, OtherClient DEF SessionInv, clientVars, frameVars, gameVars
<1>15. QED BY <1>11, <1>12, <1>13, <1>14 DEF SessionInv

\* The killed player leaves the map of the server; what the others have been
\* told stays true.
LEMMA ReapStep ==
  ASSUME SessionInv, Reap
  PROVE  SessionInv'
<1>0. PICK v \in Players : v = Head(invalid)
  <2>1. invalid \in Seq(Players) /\ invalid # <<>>
    BY SessionTypes DEF Reap, SessionInv, TypeOK
  <2>2. QED BY <2>1, HeadTailProperties
<1> DEFINE t == Tail(invalid)
           d == down[v]
<1>1. /\ phase = "reap" /\ invalid # <<>> /\ clients' = clients \ {v} /\ Close(v, d)
      /\ expired' = expired \ {v} /\ place' = [place EXCEPT ![v] = "out"]
      /\ invalid' = t /\ UNCHANGED clientVars
      /\ UNCHANGED <<up, phase, todo, announced>>
  BY <1>0 DEF Reap
<1>2. TypeOK /\ MatchInv /\ ClientTypeOK /\ todo = {} /\ invalid \in Seq(Players)
  BY <1>1 DEF SessionInv, TypeOK, MatchInv
<1>3. /\ ToSet(invalid) = ToSet(t) \union {v} /\ v \notin ToSet(t)
      /\ t \in Seq(Players) /\ Len(t) <= Cardinality(Players)
      /\ \A i, j \in DOMAIN t : t[i] = t[j] => i = j
  <2> DEFINE s == invalid
  <2>1. /\ s \in Seq(Players) /\ s # <<>> /\ Len(s) \in Nat /\ Len(s) # 0
        /\ DOMAIN s = 1 .. Len(s) /\ Len(s) <= Cardinality(Players)
        /\ Cardinality(Players) \in Nat
        /\ \A i, j \in DOMAIN s : s[i] = s[j] => i = j
    <3>1. /\ s \in Seq(Players) /\ s # <<>> /\ Len(s) <= Cardinality(Players)
          /\ \A i, j \in DOMAIN s : s[i] = s[j] => i = j
      BY <1>1, <1>2 DEF TypeOK, MatchInv
    <3>2. Cardinality(Players) \in Nat
      BY ClientAssumption, FS_CardinalityType
    <3>3. QED BY <3>1, <3>2, LenProperties, EmptySeq
  <2>2. /\ t \in Seq(Players) /\ Len(t) = Len(s) - 1 /\ v = s[1]
        /\ \A i \in 1 .. Len(t) : t[i] = s[i + 1]
    BY <1>0, <2>1, HeadTailProperties
  <2>3. t \in Seq(Players) /\ DOMAIN t = 1 .. Len(s) - 1
    BY <2>2, LenProperties
  <2> HIDE DEF s, t
  <2>4. \A i \in DOMAIN t : i + 1 \in DOMAIN s /\ i + 1 # 1 /\ t[i] = s[i + 1]
    BY <2>1, <2>2, <2>3
  <2>5. \A i \in DOMAIN s : i # 1 => i - 1 \in DOMAIN t /\ t[i - 1] = s[i]
    <3> SUFFICES ASSUME NEW i \in DOMAIN s, i # 1
                 PROVE  i - 1 \in DOMAIN t /\ t[i - 1] = s[i]
      OBVIOUS
    <3>1. i \in Nat /\ i - 1 \in DOMAIN t /\ (i - 1) + 1 = i
      BY <2>1, <2>3
    <3>2. QED BY <2>4, <3>1
  <2>6. 1 \in DOMAIN s /\ v \in Players
    BY <2>1, <2>2, ElementOfSeq
  <2>7. v \notin ToSet(t)
    <3> SUFFICES ASSUME NEW i \in DOMAIN t, v = t[i] PROVE FALSE
      BY DEF ToSet
    <3>1. QED BY <2>1, <2>2, <2>4, <2>6
  <2>8. ToSet(s) \subseteq ToSet(t) \union {v}
    BY <2>2, <2>5 DEF ToSet
  <2>9. ToSet(t) \union {v} \subseteq ToSet(s)
    BY <2>2, <2>4, <2>6 DEF ToSet
  <2>10. \A i, j \in DOMAIN t : t[i] = t[j] => i = j
    <3> SUFFICES ASSUME NEW i \in DOMAIN t, NEW j \in DOMAIN t, t[i] = t[j] PROVE i = j
      OBVIOUS
    <3>1. i + 1 = j + 1 /\ i \in Nat /\ j \in Nat
      BY <2>1, <2>3, <2>4
    <3>2. QED BY <3>1
  <2>11. ToSet(s) = ToSet(t) \union {v}
    BY <2>8, <2>9
  <2>12. Len(t) <= Cardinality(Players)
    BY <2>1, <2>2
  <2>13. QED BY <2>3, <2>6, <2>7, <2>10, <2>11, <2>12 DEF s
<1> HIDE DEF t
<1>4. ToSet(invalid) \subseteq clients /\ v \in clients /\ clients \subseteq Players
  BY <1>2, <1>3 DEF MatchInv, TypeOK
<1>5. place[v] = "playing" /\ PlayerInv(v) /\ d \in Channel /\ Len(d) \in Nat /\ Len(d) <= Buffer
  BY <1>2, <1>3, <1>4, SessionTypes DEF MatchInv
<1>6. Staying' = Staying
  BY <1>1, <1>3 DEF Staying
<1>7. /\ conn' \in [Players -> {"none", "open", "left", "cut"}]
      /\ conn'[v] = IF conn[v] = "open" THEN "cut" ELSE conn[v]
      /\ \A q \in Players \ {v} : conn'[q] = conn[q] /\ down'[q] = down[q]
      /\ down' \in [Players -> Seq(Message)] /\ \A q \in Players : Len(down'[q]) <= Buffer
      /\ missed' \subseteq Players
      /\ \A q \in Players \ {v} : q \in missed' <=> q \in missed
      /\ \E n \in 0 .. Len(d) :
           /\ HeaderRead(v) => n # 0
           /\ down'[v] = SubSeq(d, 1, n)
           /\ missed' = IF n < Len(d) THEN missed \union {v} ELSE missed
  BY <1>1, <1>3, <1>5, ClosedType
<1>8. /\ place' \in [Players -> Places]
      /\ place'[v] = "out" /\ \A q \in Players \ {v} : place'[q] = place[q]
  BY <1>1, <1>2, <1>3 DEF TypeOK, Places
<1>9. ClientTypeOK'
  <2>1. up' \in [Players -> Seq({"QUE", "NUP"})] /\ \A q \in Players : Len(up'[q]) <= UpBuffer
    BY <1>1, <1>2 DEF ClientTypeOK
  <2>2. QED BY <1>1, <1>2, <1>7, <2>1, ServerTypes
<1>10. TypeOK'
  <2>1. phase' = phase /\ todo' = {} /\ clients' \subseteq Players /\ invalid' = t
        /\ expired' \subseteq Players /\ announced' = announced
    BY <1>1, <1>2 DEF TypeOK
  <2>2. QED BY <1>2, <1>3, <1>7, <1>8, <1>9, <2>1 DEF TypeOK
<1>11. MatchInv'
  <2>1. \A q \in Players : place'[q] = "playing" <=> q \in clients'
    BY <1>1, <1>2, <1>8 DEF MatchInv
  <2>2. ToSet(t) \subseteq clients'
    BY <1>1, <1>3, <1>4
  <2>3. QED BY <1>1, <1>2, <1>3, <2>1, <2>2 DEF MatchInv
<1>12. \A q \in Players \ {v} : PlayerInv(q)'
  BY <1>1, <1>6, <1>7, <1>8, OtherClient DEF SessionInv, clientVars, frameVars, gameVars
<1>13. PlayerInv(v)'
  <2>1. PICK n \in 0 .. Len(d) :
          /\ HeaderRead(v) => n # 0
          /\ down'[v] = SubSeq(d, 1, n)
          /\ missed' = IF n < Len(d) THEN missed \union {v} ELSE missed
    BY <1>7
  <2> DEFINE e == SubSeq(d, 1, n)
  <2>2. /\ e \in Channel /\ Len(e) = n /\ DOMAIN e = 1 .. n
        /\ \A i \in DOMAIN e : i \in DOMAIN d /\ e[i] = d[i]
        /\ InOrder(d) => InOrder(e)
        /\ Creates(e) => Creates(d)
        /\ InOrder(d) /\ Creates(e) => Created(e) = Created(d)
        /\ \A i \in DOMAIN e : Gone(e, i) = Gone(d, i)
        /\ n = Len(d) => e = d
    BY <1>5, PrefixChannel
  <2>3. down'[v] = e /\ n \in Nat /\ n <= Len(d)
    BY <2>1
  <2> HIDE DEF e, d
  <2>4. FrameInv(v) /\ ChannelInv(v) /\ MapInv(v) /\ d = down[v]
    BY <1>5 DEF PlayerInv, d
  <2>5. InGame(v)' = InGame(v) /\ HeaderRead(v)' = HeaderRead(v)
    BY <1>1 DEF InGame, HeaderRead, clientVars, frameVars, gameVars
  <2>6. v \notin clients'
    BY <1>1
  <2>7. FrameInv(v)'
    <3>1. d = <<>> => e = <<>>
      BY <1>5, <2>2, <2>3, ChannelType
    <3>2. conn[v] \in {"none", "open", "left", "cut"} /\ conn[v] # "none"
      BY <1>2, <1>3, <1>5, <2>4 DEF ClientTypeOK, FrameInv
    <3>3. conn'[v] \in {"left", "cut"} /\ (conn'[v] = "left" => conn[v] = "left")
          /\ (conn[v] \in {"open", "cut"} => conn'[v] \in {"open", "cut"})
          /\ (conn[v] \in {"none", "left"} => conn'[v] \in {"none", "left"})
      BY <1>7, <3>2
    <3>4. QED BY <1>1, <1>8, <2>3, <2>4, <2>5, <3>1, <3>2, <3>3
             DEF FrameInv, clientVars, frameVars, gameVars
  <2>8. ChannelInv(v)'
    <3>1. \A i \in DOMAIN e : e[i].type = "trash" => i = 1 /\ stage'[v] = "queue"
      BY <1>1, <2>2, <2>4 DEF ChannelInv, clientVars
    <3>2. HeaderRead(v) => e # <<>> /\ e[1].type = "NCP"
      <4> HAVE HeaderRead(v)
      <4>1. 1 \in DOMAIN e
        BY <2>1, <2>2, <2>3
      <4>2. QED BY <2>2, <2>4, <4>1, EmptyChannel DEF ChannelInv
    <3>3. InGame(v) => \A i \in DOMAIN e : Rank(e[i]) = 2
      BY <2>2, <2>4 DEF ChannelInv
    <3>4. \/ InGame(v) \/ v \in missed' \/ Creates(e)
          \/ \A i \in DOMAIN e : Rank(e[i]) # 2
      <4>1. CASE n < Len(d)
        BY <2>1, <4>1
      <4>2. CASE n = Len(d)
        <5>1. e = d /\ (v \in missed => v \in missed')
          BY <2>1, <2>2, <4>2
        <5>2. QED BY <2>4, <5>1 DEF ChannelInv
      <4>3. QED BY <1>5, <2>3, <4>1, <4>2 DEF d
    <3>5. QED BY <1>8, <2>2, <2>3, <2>4, <2>5, <2>6, <3>1, <3>2, <3>3, <3>4
             DEF ChannelInv
  <2>9. MapInv(v)'
    <3> SUFFICES ASSUME InGame(v) \/ Creates(e)
                 PROVE  /\ v \notin Opponents(v)'
                        /\ \A i \in DOMAIN e : e[i].type = "NUP" =>
                             e[i].ids \subseteq Opponents(v)' \ Gone(e, i)
      BY <2>3, <2>5, <2>6 DEF MapInv
    <3>1. Opponents(v)' = Opponents(v)
      BY <1>1, <2>2, <2>3, <2>4, <2>5
         DEF Opponents, ChannelInv, clientVars, frameVars, gameVars
    <3>2. /\ v \notin Opponents(v)
          /\ \A i \in DOMAIN d : d[i].type = "NUP" =>
               d[i].ids \subseteq Opponents(v) \ Gone(d, i)
      BY <2>2, <2>4 DEF MapInv
    <3>3. QED BY <2>2, <3>1, <3>2
  <2>10. QED BY <2>7, <2>8, <2>9 DEF PlayerInv
<1>14. QED BY <1>10, <1>11, <1>12, <1>13 DEF SessionInv

-----------------------------------------------------------------------------
(* The match starts, and the whole of it.                                  *)

LEMMA StartGameStep ==
  ASSUME SessionInv, StartGame
  PROVE  SessionInv'
<1>0. PICK G \in SUBSET {p \in Players : place[p] = "waiting"} :
        /\ clients' = G /\ todo' = G
        /\ place' = [p \in Players |-> IF p \in G THEN "playing" ELSE place[p]]
        /\ down' = [p \in Players |->
                      IF p \in G THEN down[p] \o Sent(p, <<Msg("NCP", G)>>) ELSE down[p]]
        /\ missed' = missed \union {p \in G : Sent(p, <<Msg("NCP", G)>>) = <<>>}
  BY DEF StartGame
<1> DEFINE m == Msg("NCP", G)
           M == [q \in Players |-> <<m>>]
<1>1. /\ phase = "none" /\ phase' = "receive" /\ clients' = G /\ todo' = G
      /\ place' = [p \in Players |-> IF p \in G THEN "playing" ELSE place[p]]
      /\ down' = [p \in Players |-> IF p \in G THEN down[p] \o Sent(p, <<m>>) ELSE down[p]]
      /\ missed' = missed \union {p \in G : Sent(p, <<m>>) = <<>>}
      /\ UNCHANGED clientVars /\ UNCHANGED <<conn, up, invalid, expired, announced>>
  BY <1>0 DEF StartGame
<1>2. TypeOK /\ MatchInv /\ ClientTypeOK /\ clients = {} /\ invalid = <<>>
  BY <1>1 DEF SessionInv, TypeOK, MatchInv
<1>3. m \in Message /\ m.type = "NCP" /\ m.ids = G
  BY DEF Msg, Message
<1> HIDE DEF m
<1>4. /\ <<m>> \in Channel /\ Len(<<m>>) = 1 /\ DOMAIN <<m>> = {1} /\ <<m>>[1] = m
      /\ \A n : Gone(<<m>>, n) = {}
  BY <1>3, OneMessage
<1>5. M \in [Players -> Channel] /\ \A q \in Players : M[q] = <<m>>
  BY <1>4
<1> HIDE DEF M
<1>6. /\ down' \in [Players -> Seq(Message)] /\ \A q \in Players : Len(down'[q]) <= Buffer
      /\ \A q \in Players : down'[q] = IF q \in G THEN down[q] \o Sent(q, <<m>>) ELSE down[q]
  <2>1. down' = [q \in Players |-> IF q \in G THEN down[q] \o Sent(q, M[q]) ELSE down[q]]
    BY <1>1, <1>5
  <2>2. /\ down' \in [Players -> Seq(Message)] /\ \A q \in Players : Len(down'[q]) <= Buffer
        /\ \A q \in Players : down'[q] = IF q \in G THEN down[q] \o Sent(q, M[q]) ELSE down[q]
    BY <1>5, <2>1, SentToSome
  <2>3. QED BY <1>5, <2>2
<1>7. /\ place' \in [Players -> Places]
      /\ \A q \in Players : place'[q] = IF q \in G THEN "playing" ELSE place[q]
  BY <1>1, <1>2 DEF TypeOK, Places
<1>8. ClientTypeOK'
  BY <1>1, <1>2, <1>6, ServerTypes DEF ClientTypeOK
<1>9. TypeOK'
  BY <1>1, <1>2, <1>7, <1>8 DEF TypeOK
<1>10. ToSet(invalid) = {}
  BY <1>2, ToSetProperties DEF TypeOK
<1>11. MatchInv'
  <2>1. \A q \in Players : place'[q] = "playing" <=> q \in clients'
    BY <1>1, <1>2, <1>7 DEF MatchInv
  <2>2. QED BY <1>1, <1>2, <1>10, <2>1 DEF MatchInv
<1>12. Staying' = G
  BY <1>1 DEF Staying
<1>13. ASSUME NEW q \in Players, q \in G PROVE PlayerInv(q)'
  <2> DEFINE d == down[q]
             e == Sent(q, <<m>>)
             f == d \o e
  <2>1. /\ ~ InGame(q) /\ ~ iniciated[q] /\ ~ HeaderRead(q) /\ ~ Creates(d)
        /\ conn[q] \in {"open", "left"} /\ \A i \in DOMAIN d : Rank(d[i]) = 0
    BY <1>0, <1>13, Waiting
  <2>2. d \in Channel /\ FrameInv(q)
    BY SessionTypes DEF PlayerInv
  <2>3. e \in Channel /\ (conn[q] # "open" => e = <<>>)
    BY <1>4, SentProperties
  <2>4. e = <<>> \/ e = <<m>>
    BY <1>3, OneSent
  <2>5. down'[q] = f /\ place'[q] = "playing" /\ conn'[q] = conn[q]
        /\ (e = <<>> => q \in missed')
    BY <1>1, <1>6, <1>7, <1>13
  <2> HIDE DEF e
  <2>6. /\ f \in Channel
        /\ \A i \in DOMAIN d : i \in DOMAIN f /\ f[i] = d[i]
        /\ \A i \in DOMAIN e : Len(d) + i \in DOMAIN f /\ f[Len(d) + i] = e[i]
        /\ \A i \in DOMAIN f : i \in DOMAIN d \/ \E j \in DOMAIN e : i = Len(d) + j
        /\ Creates(f) <=> Creates(d) \/ Creates(e)
        /\ Created(f) = Created(d) \union Created(e)
    BY <2>2, <2>3, LongerChannel
  <2>7. \A i \in DOMAIN e : e[i] = m /\ Rank(e[i]) = 1
    BY <1>3, <1>4, <2>4, EmptyChannel DEF Rank
  <2>8. \A i, j \in DOMAIN e : i = j
    BY <1>4, <2>4, EmptyChannel
  <2>9. InOrder(f)
    <3>1. InOrder(d)
      BY <2>1 DEF InOrder
    <3>2. InOrder(e)
      <4>1. \A i, j \in DOMAIN e : ~ (i < j)
        BY <2>3, <2>8, ChannelType
      <4>2. QED BY <4>1 DEF InOrder
    <3>3. \A i \in DOMAIN d, j \in DOMAIN e :
            Rank(d[i]) <= Rank(e[j]) /\ (Rank(e[j]) = 1 => Rank(d[i]) = 0)
      BY <2>1, <2>7
    <3>4. QED BY <2>2, <2>3, <3>1, <3>2, <3>3, LongerOrder
  <2>10. conn[q] = "left" => f = <<>>
    <3>1. <<>> \o <<>> = <<>>
      BY EmptyChannel, ConcatEmptySeq DEF Channel
    <3>2. QED BY <2>2, <2>3, <3>1 DEF FrameInv
  <2>11. \A i \in DOMAIN f : /\ \/ i \in DOMAIN d /\ f[i] = d[i] /\ Rank(f[i]) = 0
                                \/ f[i] = m
                             /\ f[i].type \notin {"K", "NUP", "trash"}
    <3>1. \A i \in DOMAIN f : \/ i \in DOMAIN d /\ f[i] = d[i] /\ Rank(f[i]) = 0
                              \/ f[i] = m
      BY <2>1, <2>6, <2>7
    <3>2. QED BY <1>3, <3>1 DEF Rank
  <2>12. e # <<>> => Creates(f) /\ Created(f) = G
    <3>1. Created(d) = {}
      BY <2>1, CreatedElement DEF Creates
    <3>2. e = <<m>> => Creates(e) /\ Created(e) = G
      BY <1>3, <1>4, CreatedElement DEF Creates
    <3>3. QED BY <2>4, <2>6, <3>1, <3>2
  <2>13. Gone(f, Len(f)) = {}
    BY <2>11, GoneElement
  <2>14. e = <<>> => ~ Creates(f)
    BY <2>1, <2>6, EmptyChannel
  <2> HIDE DEF d, f
  <2>15. ~ InGame(q)' /\ ~ HeaderRead(q)' /\ ~ iniciated'[q]
    BY <1>1, <2>1 DEF InGame, HeaderRead, clientVars, frameVars, gameVars
  <2>16. FrameInv(q)'
    BY <1>1, <2>1, <2>2, <2>5, <2>10, <2>15
       DEF FrameInv, InGame, clientVars, frameVars, gameVars
  <2>17. ChannelInv(q)'
    BY <2>5, <2>9, <2>11, <2>12, <2>15 DEF ChannelInv
  <2>18. MapInv(q)'
    <3>1. Opponents(q)' = Created(f) \ {q}
      BY <2>5, <2>15 DEF Opponents
    <3>2. QED BY <2>5, <2>11, <2>12, <2>13, <2>14, <2>15, <3>1, <1>12 DEF MapInv
  <2>19. QED BY <2>16, <2>17, <2>18 DEF PlayerInv
<1>14. ASSUME NEW q \in Players, q \notin G PROVE PlayerInv(q)'
  <2>1. down'[q] = down[q] /\ place'[q] = place[q] /\ (q \in missed' <=> q \in missed)
    BY <1>1, <1>6, <1>7, <1>14
  <2>2. QED BY <1>1, <1>14, <2>1, OtherClient DEF SessionInv, clientVars, frameVars, gameVars
<1>15. QED BY <1>9, <1>11, <1>13, <1>14 DEF SessionInv

LEMMA ExpireStep ==
  ASSUME SessionInv, NEW p \in Players, Expire(p)
  PROVE  SessionInv'
<1> USE DEF Expire, clientVars, frameVars, gameVars
<1>1. TypeOK /\ MatchInv /\ ClientTypeOK
  BY DEF SessionInv, TypeOK
<1>2. ClientTypeOK'
  BY <1>1, ServerTypes DEF ClientTypeOK
<1>3. TypeOK' /\ MatchInv'
  BY <1>1, <1>2 DEF TypeOK, MatchInv
<1>4. Staying' = Staying
  BY DEF Staying
<1>5. \A q \in Players : PlayerInv(q)'
  BY <1>4, OtherClient DEF SessionInv
<1>6. QED BY <1>3, <1>5 DEF SessionInv

LEMMA NothingHappens ==
  ASSUME SessionInv, UNCHANGED vars
  PROVE  SessionInv'
<1> USE DEF vars, serverVars, matchVars, clientVars, frameVars, gameVars
<1>1. TypeOK /\ MatchInv /\ ClientTypeOK
  BY DEF SessionInv, TypeOK
<1>2. TypeOK' /\ MatchInv'
  BY <1>1 DEF TypeOK, ClientTypeOK, MatchInv
<1>3. Staying' = Staying
  BY DEF Staying
<1>4. \A q \in Players : PlayerInv(q)'
  BY <1>3, OtherClient DEF SessionInv
<1>5. QED BY <1>2, <1>4 DEF SessionInv

LEMMA InitSession == Init => SessionInv
<1>0. \A n \in Nat : 0 <= n
  OBVIOUS
<1> SUFFICES ASSUME Init PROVE SessionInv
  OBVIOUS
<1> USE DEF Init, ClientInit
<1>1. /\ <<>> \in Seq(Message) /\ <<>> \in Seq({"QUE", "NUP"}) /\ <<>> \in Seq(Players)
      /\ Len(<<>>) = 0 /\ DOMAIN <<>> = {} /\ ToSet(<<>>) = {}
      /\ \A n \in {Buffer, UpBuffer, Cardinality(Players)} : Len(<<>>) <= n
  <2>1. <<>> \in Seq(Message) /\ <<>> \in Seq({"QUE", "NUP"}) /\ <<>> \in Seq(Players)
    BY EmptySeq
  <2>2. Len(<<>>) = 0 /\ DOMAIN <<>> = {}
    BY EmptyChannel
  <2>3. ToSet(<<>>) = {}
    BY <2>2 DEF ToSet
  <2>4. Buffer \in Nat /\ UpBuffer \in Nat /\ Cardinality(Players) \in Nat
    BY ClientAssumption, FS_CardinalityType
  <2>5. QED BY ONLY <1>0, <2>1, <2>2, <2>3, <2>4
<1>2. ClientTypeOK
  <2>1. down \in [Players -> Seq(Message)] /\ up \in [Players -> Seq({"QUE", "NUP"})]
    BY <1>1
  <2>2. \A p \in Players : Len(down[p]) <= Buffer /\ Len(up[p]) <= UpBuffer
    <3>1. \A p \in Players : down[p] = <<>> /\ up[p] = <<>>
      OBVIOUS
    <3>2. QED BY ONLY <1>1, <3>1
  <2>3. /\ stage \in [Players -> {"login", "select", "queue", "game", "exit"}]
        /\ step \in [Players -> {"input", "read", "end"}]
        /\ shouldReset \in [Players -> BOOLEAN] /\ stageShouldChange \in [Players -> BOOLEAN]
        /\ resetReason \in [Players -> {"", "no connection", "defeated", "won"}]
        /\ iniciated \in [Players -> BOOLEAN] /\ known \in [Players -> SUBSET Players]
        /\ conn \in [Players -> {"none", "open", "left", "cut"}]
    OBVIOUS
  <2>4. QED BY <2>1, <2>2, <2>3 DEF ClientTypeOK
<1>3. TypeOK
  <2>1. place \in [Players -> Places]
        /\ phase = "none" /\ todo = {} /\ clients = {} /\ invalid = <<>>
        /\ expired = {} /\ announced = {} /\ missed = {}
    BY DEF Places
  <2>2. invalid \in Seq(Players) /\ Len(invalid) <= Cardinality(Players)
    BY ONLY <1>1, <2>1
  <2>3. QED BY <1>2, <2>1, <2>2 DEF TypeOK
<1>4. MatchInv
  BY <1>1 DEF MatchInv
<1>5. ASSUME NEW p \in Players PROVE PlayerInv(p)
  <2>1. down[p] = <<>> /\ DOMAIN down[p] = {} /\ InOrder(down[p]) /\ ~ Creates(down[p])
    BY EmptyChannel
  <2>2. ~ InGame(p) /\ ~ HeaderRead(p)
    BY DEF InGame, HeaderRead
  <2>3. FrameInv(p)
    BY <2>1, <2>2 DEF FrameInv
  <2>4. ChannelInv(p)
    BY <2>1, <2>2 DEF ChannelInv
  <2>5. MapInv(p)
    BY <2>1, <2>2 DEF MapInv
  <2>6. QED BY <2>3, <2>4, <2>5 DEF PlayerInv
<1>6. QED BY <1>3, <1>4, <1>5 DEF SessionInv

LEMMA NextSession ==
  ASSUME SessionInv, [Next]_vars
  PROVE  SessionInv'
<1>1. CASE Lobby
  BY <1>1, StartGameStep, AcceptStep, ColorAndNameStep, SendQueueStateStep DEF Lobby
<1>2. CASE Match
  BY <1>2, SendKillsStep, ReapStep, CheckForExitGameStep, PhaseGetPlayerUpdateStep,
     PhaseValidatePlayerStep, PhaseSendPlayerUpdateStep DEF Match
<1>3. CASE \E p \in Players : ClientStep(p) \/ Expire(p)
  BY <1>3, ClientKeeps, ExpireStep
<1>4. CASE UNCHANGED vars
  BY <1>4, NothingHappens
<1>5. QED BY <1>1, <1>2, <1>3, <1>4 DEF Next

-----------------------------------------------------------------------------
(* What follows from it.                                                   *)

\* Whatever the users, the lobby and the match do: the messages on their way,
\* the stages of the clients and the players of the match fit each other.
THEOREM SessionInvariance == Spec => []SessionInv
<1>1. Init => SessionInv
  BY InitSession
<1>2. SessionInv /\ [Next]_vars => SessionInv'
  BY NextSession
<1>3. QED BY <1>1, <1>2, PTL DEF Spec

\* No buffer of a connection overflows, no more players are killed in a round
\* than there are, and every variable has its type.
THEOREM SessionTyped == Spec => []TypeOK
<1>1. SessionInv => TypeOK
  BY DEF SessionInv
<1>2. QED BY <1>1, SessionInvariance, PTL

\* GameManager never changes to a stage behind the login stage without a
\* connection: a reset and a change of stage are never requested in one frame.
THEOREM LoginNotSkipped == Spec => []NoStageSkipped
<1>1. SessionInv => NoStageSkipped
  BY DEF SessionInv, PlayerInv, FrameInv, NoStageSkipped
<1>2. QED BY <1>1, SessionInvariance, PTL

\* players.at in GameStage1::handleUpdate never throws: updates come before the
\* kills of their round, and the map of the server changes after both are sent.
THEOREM UpdatesKnown == Spec => []UpdatesNameKnownPlayers
<1>1. ASSUME SessionInv PROVE UpdatesNameKnownPlayers
  <2> SUFFICES ASSUME NEW p \in Players, NEW i \in DOMAIN down[p], InGame(p),
                      down[p][i].type = "NUP"
               PROVE  down[p][i].ids \subseteq
                        known[p] \ UNION {down[p][j].ids : j \in {j \in Announcements(p) : j < i}}
    BY DEF UpdatesNameKnownPlayers, InGame
  <2>1. down[p][i].ids \subseteq known[p] \ Gone(down[p], i)
    BY <1>1 DEF SessionInv, PlayerInv, MapInv, Opponents
  <2>2. i \in Nat /\ DOMAIN down[p] \subseteq Nat
    BY <1>1, SessionTypes, ChannelType
  <2>3. ASSUME NEW j \in Announcements(p), j < i, NEW x \in down[p][j].ids
        PROVE  x \in Gone(down[p], i)
    <3>1. j \in DOMAIN down[p] /\ down[p][j].type = "K" /\ j <= i
      BY <2>2, <2>3 DEF Announcements
    <3>2. QED BY <2>3, <3>1, GoneElement
  <2>4. QED BY <2>1, <2>3
<1>2. SessionInv => UpdatesNameKnownPlayers
  BY <1>1
<1>3. QED BY <1>2, SessionInvariance, PTL

\* A survivor's map of players is going to be the map of the server without the
\* player itself, unless a message to it could not be sent.
THEOREM SurvivorsInAgreement == Spec => []SurvivorsAgree
<1>1. ASSUME SessionInv PROVE SurvivorsAgree
  <2> SUFFICES ASSUME phase # "reap", NEW p \in clients, InGame(p), p \notin missed
               PROVE  known[p] \ UNION {down[p][i].ids : i \in Announcements(p)} = clients \ {p}
    BY DEF SurvivorsAgree, InGame
  <2>1. p \in Players
    BY <1>1 DEF SessionInv, TypeOK
  <2>2. Staying = clients
    BY DEF Staying
  <2>3. /\ p \notin known[p]
        /\ clients \ {p} \subseteq known[p] \ Gone(down[p], Len(down[p]))
        /\ known[p] \ Gone(down[p], Len(down[p])) \subseteq clients
    BY <1>1, <2>1, <2>2 DEF SessionInv, PlayerInv, MapInv, Opponents
  <2>4. DOMAIN down[p] = 1 .. Len(down[p]) /\ Len(down[p]) \in Nat
    BY <1>1, <2>1, SessionTypes, ChannelType
  <2>5. Gone(down[p], Len(down[p])) = UNION {down[p][i].ids : i \in Announcements(p)}
    <3>1. \A j \in DOMAIN down[p] : j <= Len(down[p])
      BY <2>4
    <3>2. QED BY <3>1 DEF Gone, Announcements
  <2>6. QED BY <2>3, <2>5
<1>2. SessionInv => SurvivorsAgree
  BY <1>1
<1>3. QED BY <1>2, SessionInvariance, PTL

\* Every message is read by the stage that it is meant for.
THEOREM MessagesMeetStage == Spec => []MessagesMeetTheirStage
<1>1. ASSUME SessionInv, NEW p \in Players
      PROVE  /\ stage[p] = "queue" /\ Receives(p, {"NUP", "K", "W", "trash"}) => p \in missed
             /\ HeaderRead(p) => Receives(p, {"NCP"})
             /\ stage[p] = "game" /\ iniciated[p] => \A i \in DOMAIN down[p] :
                  down[p][i].type \in {"NUP", "K", "W"}
  <2> DEFINE d == down[p]
  <2>1. ChannelInv(p) /\ d \in Channel
    BY <1>1, SessionTypes DEF PlayerInv
  <2>2. ASSUME stage[p] = "queue", Receives(p, {"NUP", "K", "W", "trash"}), p \notin missed
        PROVE  FALSE
    <3>1. 1 \in DOMAIN d /\ d[1].type \in {"NUP", "K", "W", "trash"}
      BY <2>1, <2>2, ChannelType DEF Receives
    <3>2. Rank(d[1]) = 2 /\ ~ InGame(p)
      BY <2>2, <3>1 DEF Rank, InGame
    <3>3. PICK k \in DOMAIN d : d[k].type = "NCP"
      BY <2>1, <2>2, <3>1, <3>2 DEF ChannelInv, Creates
    <3>4. k # 1 /\ k \in Nat /\ k >= 1
      BY <2>1, <3>1, <3>3, ChannelType
    <3>5. 1 < k => Rank(d[1]) = 0
      BY <2>1, <3>1, <3>3, CreationFirst DEF ChannelInv
    <3>6. QED BY <3>2, <3>4, <3>5
  <2>3. HeaderRead(p) => Receives(p, {"NCP"})
    BY <2>1, ChannelType DEF ChannelInv, Receives
  <2>4. ASSUME InGame(p), NEW i \in DOMAIN d PROVE d[i].type \in {"NUP", "K", "W"}
    <3>1. Rank(d[i]) = 2 /\ d[i] \in Message
      BY <2>1, <2>4, ChannelType DEF ChannelInv
    <3>2. d[i].type # "trash"
      BY <2>1, <2>4 DEF ChannelInv, InGame
    <3>3. QED BY <3>1, <3>2 DEF Rank, Message
  <2>5. QED BY <2>2, <2>3, <2>4 DEF InGame
<1>2. SessionInv => MessagesMeetTheirStage
  BY <1>1 DEF MessagesMeetTheirStage
<1>3. QED BY <1>2, SessionInvariance, PTL
=============================================================================
