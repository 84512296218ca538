-------------------------- MODULE PacketReaderProofs --------------------------
(***************************************************************************)
(* Theorems about PacketReader, for any conversations, any division of     *)
(* their bytes into reads and whatever misplaced bytes decode to.          *)
(***************************************************************************)
EXTENDS PacketReader, DataProofs

-----------------------------------------------------------------------------
(* The positions of the messages in the stream. *)

LEMMA ScriptType ==
    ASSUME script \in Scripts
    PROVE  /\ Len(script) \in Nat
           /\ \A i \in Messages : /\ script[i].type \in 1 .. 255
                                  /\ script[i].body \in Nat
                                  /\ script[i].body <= UINT16_MAX - PACKET_HEADER_SIZE
                                  /\ Length(script[i]) = 3 + script[i].body
                                  /\ Length(script[i]) \in 3 .. UINT16_MAX
<1>1. script \in Seq([type : 1 .. 255, body : 0 .. UINT16_MAX - PACKET_HEADER_SIZE])
  BY ReaderAssumption
<1>2. \A i \in Messages :
         script[i] \in [type : 1 .. 255, body : 0 .. UINT16_MAX - PACKET_HEADER_SIZE]
  BY <1>1, ElementOfSequence DEF Messages
<1>3. UINT16_MAX \in Nat
  BY DEF UINT16_MAX
<1> QED BY SMTT(30), <1>1, <1>2, <1>3 DEF Length, PACKET_HEADER_SIZE

\* Start is what its definition says: there is such a function.
LEMMA StartSteps ==
    ASSUME script \in Scripts
    PROVE  /\ Start[1] = 0
           /\ \A i \in Messages : Start[i + 1] = Start[i] + Length(script[i])
<1> DEFINE step == [a \in Nat \X Int |->
                       IF a[1] + 1 \in Messages THEN a[2] + Length(script[a[1] + 1]) ELSE a[2]]
           Solves(s) == s = [i \in 1 .. Len(script) + 1 |->
                                IF i = 1 THEN 0 ELSE s[i - 1] + Length(script[i - 1])]
<1>1. step \in [Nat \X Int -> Int]
  BY ScriptType
<1>2. PICK f : Repeats(f, Int, 0, step)
  <2> HIDE DEF step
  <2>1. 0 \in Int
    OBVIOUS
  <2> QED BY <1>1, <2>1, PrimitiveRecursion
<1> DEFINE s == [i \in 1 .. Len(script) + 1 |-> f[i - 1]]
<1>3. ASSUME NEW i \in 1 .. Len(script) + 1, i # 1
      PROVE  s[i] = s[i - 1] + Length(script[i - 1])
  <2>1. /\ i - 2 \in Nat /\ i - 1 \in 1 .. Len(script) /\ i - 1 \in 1 .. Len(script) + 1
        /\ (i - 2) + 1 = i - 1 /\ (i - 1) - 1 = i - 2
    BY <1>3, ScriptType
  <2>2. f[i - 1] = step[<< i - 2, f[i - 2] >>]
    BY <1>2, <2>1 DEF Repeats
  <2>3. step[<< i - 2, f[i - 2] >>] = f[i - 2] + Length(script[i - 1])
    BY <1>2, <2>1 DEF Messages, Repeats
  <2>4. s[i] = f[i - 1] /\ s[i - 1] = f[i - 2]
    BY <2>1
  <2> QED BY <2>2, <2>3, <2>4
<1>4. s[1] = 0
  BY <1>2, ScriptType DEF Repeats
<1>5. Solves(s)
  <2> DEFINE t == [i \in 1 .. Len(script) + 1 |->
                      IF i = 1 THEN 0 ELSE s[i - 1] + Length(script[i - 1])]
  <2>1. \A i \in 1 .. Len(script) + 1 : s[i] = t[i]
    BY <1>3, <1>4
  <2>2. s = t
    BY <2>1
  <2> QED BY <2>2
<1>6. Start = CHOOSE g : Solves(g)
  BY DEF Start
<1>7. Solves(Start)
  <2> HIDE DEF s, Solves
  <2> QED BY <1>5, <1>6
<1>8. ASSUME NEW g, Solves(g)
      PROVE  g[1] = 0 /\ \A i \in Messages : g[i + 1] = g[i] + Length(script[i])
  <2>1. g[1] = 0
    BY <1>8, ScriptType
  <2>2. ASSUME NEW i \in Messages PROVE g[i + 1] = g[i] + Length(script[i])
    <3>1. i + 1 \in 1 .. Len(script) + 1 /\ i + 1 # 1 /\ (i + 1) - 1 = i
      BY ScriptType DEF Messages
    <3> QED BY <1>8, <3>1
  <2> QED BY <2>1, <2>2
<1> HIDE DEF Solves
<1> QED BY <1>7, <1>8

LEMMA StartNatural ==
    ASSUME script \in Scripts, NEW i \in 1 .. Len(script) + 1
    PROVE  Start[i] \in Nat
<1> DEFINE Bad == {j \in 1 .. Len(script) + 1 : Start[j] \notin Nat}
<1> SUFFICES ASSUME Bad # {} PROVE FALSE
  OBVIOUS
<1>1. Len(script) \in Nat
  BY ScriptType
<1>2. PICK j \in Bad : \A k \in Bad : j <= k
  <2>1. Bad \in SUBSET Nat
    BY <1>1
  <2> HIDE DEF Bad
  <2> QED BY <2>1, LeastNatural
<1>3. j # 1
  BY StartSteps
<1>4. j - 1 \in Messages /\ (j - 1) + 1 = j /\ j - 1 \notin Bad
  BY <1>1, <1>2, <1>3 DEF Messages
<1>5. Start[j - 1] \in Nat
  BY <1>1, <1>4 DEF Messages
<1>6. Start[j] = Start[j - 1] + Length(script[j - 1])
  BY <1>4, StartSteps
<1> QED BY <1>4, <1>5, <1>6, ScriptType

LEMMA StartGrows ==
    ASSUME script \in Scripts, NEW i \in Messages,
           NEW j \in 1 .. Len(script) + 1, i < j
    PROVE  Start[i] + Length(script[i]) <= Start[j]
<1> DEFINE Bad == {k \in 1 .. Len(script) + 1 : i < k /\ ~ (Start[i + 1] <= Start[k])}
<1>1. Len(script) \in Nat /\ i \in 1 .. Len(script) + 1 /\ i + 1 \in 1 .. Len(script) + 1
  BY ScriptType DEF Messages
<1>2. Start[i + 1] = Start[i] + Length(script[i])
  BY StartSteps
<1>3. Bad = {}
  <2> SUFFICES ASSUME Bad # {} PROVE FALSE
    OBVIOUS
  <2>1. PICK k \in Bad : \A l \in Bad : k <= l
    <3>1. Bad \in SUBSET Nat
      BY <1>1
    <3> HIDE DEF Bad
    <3> QED BY <3>1, LeastNatural
  <2>2. k # i + 1
    BY <1>1, StartNatural
  <2>3. k - 1 \in Messages /\ (k - 1) + 1 = k /\ i < k - 1 /\ k - 1 \notin Bad
    BY <1>1, <2>1, <2>2 DEF Messages
  <2>4. Start[i + 1] <= Start[k - 1]
    BY <1>1, <2>3 DEF Messages
  <2>5. Start[k] = Start[k - 1] + Length(script[k - 1])
    BY <2>3, StartSteps
  <2>6. Start[i + 1] \in Nat /\ Start[k] \in Nat /\ Start[k - 1] \in Nat
    BY <1>1, <2>3, StartNatural DEF Messages
  <2> QED BY <2>3, <2>4, <2>5, <2>6, ScriptType
<1> QED BY <1>2, <1>3

\* Where the headers and the bodies lie: behind every earlier message.
LEMMA Positions ==
    ASSUME script \in Scripts
    PROVE  /\ Total \in Nat
           /\ \A i \in Messages :
                 /\ Start[i] \in Nat /\ Start[i + 1] \in Nat
                 /\ Start[i + 1] = Start[i] + 3 + script[i].body
                 /\ Start[i + 1] <= Total
                 /\ \A j \in Messages : i < j => Start[i + 1] <= Start[j]
                 /\ \A j \in Messages : Start[i] = Start[j] => i = j
                 /\ \A j \in Messages : Start[i] < Start[j] => i < j
<1>1. Len(script) \in Nat
  BY ScriptType
<1>2. Len(script) + 1 \in 1 .. Len(script) + 1
  BY <1>1
<1>3. Total \in Nat
  BY <1>2, StartNatural DEF Total
<1>4. ASSUME NEW i \in Messages
      PROVE  /\ Start[i] \in Nat /\ Start[i + 1] \in Nat
             /\ Start[i + 1] = Start[i] + 3 + script[i].body
             /\ Start[i + 1] <= Total
             /\ \A j \in Messages : i < j => Start[i + 1] <= Start[j]
  <2>1. i \in 1 .. Len(script) + 1 /\ i + 1 \in 1 .. Len(script) + 1 /\ i < Len(script) + 1
    BY <1>1 DEF Messages
  <2>2. Start[i] \in Nat /\ Start[i + 1] \in Nat
    BY <2>1, StartNatural
  <2>3. Start[i + 1] = Start[i] + Length(script[i]) /\ Length(script[i]) = 3 + script[i].body
    BY StartSteps, ScriptType
  <2>4. Start[i + 1] <= Total
    BY <1>2, <2>1, <2>3, StartGrows DEF Total
  <2>5. ASSUME NEW j \in Messages, i < j PROVE Start[i + 1] <= Start[j]
    BY <1>1, <2>3, <2>5, StartGrows DEF Messages
  <2>6. script[i].body \in Nat
    BY ScriptType
  <2> QED BY <2>2, <2>3, <2>4, <2>5, <2>6
<1>5. ASSUME NEW i \in Messages, NEW j \in Messages, i < j
      PROVE  Start[i] < Start[j]
  <2>1. Start[i + 1] \in Nat /\ Start[i + 1] = Start[i] + 3 + script[i].body
    BY <1>4
  <2>2. Start[i + 1] <= Start[j]
    BY <1>4, <1>5
  <2>3. Start[i] \in Nat /\ Start[j] \in Nat /\ script[i].body \in Nat
    BY <1>4, ScriptType
  <2> QED BY <2>1, <2>2, <2>3
<1>6. ASSUME NEW i \in Messages, NEW j \in Messages
      PROVE  (Start[i] = Start[j] => i = j) /\ (Start[i] < Start[j] => i < j)
  <2>1. i \in Int /\ j \in Int /\ Start[i] \in Nat /\ Start[j] \in Nat
    BY <1>1, <1>4 DEF Messages
  <2>2. (i < j => Start[i] < Start[j]) /\ (j < i => Start[j] < Start[i])
    BY <1>5
  <2> QED BY <2>1, <2>2
<1> QED BY <1>3, <1>4, <1>6

-----------------------------------------------------------------------------
(* What a read of a header finds. *)

LEMMA HeaderOfMessage ==
    ASSUME script \in Scripts, NEW p \in Nat, NEW n \in 1 .. 3
    PROVE  /\ HeaderOf(p, n) \in Messages \cup {0}
           /\ HeaderOf(p, n) # 0 => n = 3 /\ Start[HeaderOf(p, n)] = p
           /\ \A i \in Messages : p = Start[i] /\ n = 3 => HeaderOf(p, n) = i
<1>1. \A i \in Messages : i # 0
  BY ScriptType DEF Messages
<1>2. CASE \E i \in Messages : Start[i] = p
  <2>1. /\ (CHOOSE i \in Messages : Start[i] = p) \in Messages
        /\ Start[CHOOSE i \in Messages : Start[i] = p] = p
    BY <1>2
  <2> QED BY <1>1, <2>1, Positions DEF HeaderOf, PACKET_HEADER_SIZE
<1>3. CASE ~ \E i \in Messages : Start[i] = p
  BY <1>1, <1>3 DEF HeaderOf, PACKET_HEADER_SIZE
<1> QED BY <1>2, <1>3

LEMMA HeaderReadType ==
    ASSUME script \in Scripts, NEW p \in Nat, NEW n \in 1 .. 3, NEW h \in HeaderRead(p, n)
    PROVE  /\ h \in [len : 0 .. UINT16_MAX, type : 0 .. 255]
           /\ HeaderOf(p, n) # 0 => /\ h.len = Length(script[HeaderOf(p, n)])
                                    /\ h.type = script[HeaderOf(p, n)].type
<1>1. CASE \E i \in Messages : Start[i] = p
  <2>1. PICK i \in Messages : i = CHOOSE j \in Messages : Start[j] = p
    BY <1>1
  <2>2. /\ script[i].type \in 1 .. 255
        /\ Length(script[i]) \in 3 .. UINT16_MAX
        /\ UINT16_MAX \in Nat /\ 255 <= UINT16_MAX
    <3>1. UINT16_MAX \in Nat /\ 255 <= UINT16_MAX
      BY DEF UINT16_MAX
    <3> QED BY <3>1, ScriptType
  <2>3. h \in { CASE n = 1 -> [len |-> Length(script[i]) % 256, type |-> 0]
                 [] n = 2 -> [len |-> Length(script[i]), type |-> 0]
                 [] n = 3 -> [len |-> Length(script[i]), type |-> script[i].type] }
    BY <1>1, <2>1 DEF HeaderRead
  <2>4. HeaderOf(p, n) # 0 => n = 3 /\ HeaderOf(p, n) = i
    BY <1>1, <2>1 DEF HeaderOf, PACKET_HEADER_SIZE
  <2>5. \/ n = 1 /\ h = [len |-> Length(script[i]) % 256, type |-> 0]
        \/ n = 2 /\ h = [len |-> Length(script[i]), type |-> 0]
        \/ n = 3 /\ h = [len |-> Length(script[i]), type |-> script[i].type]
    BY <2>3
  <2>6. Length(script[i]) % 256 \in 0 .. 255
    BY <2>2
  <2> QED BY <2>2, <2>4, <2>5, <2>6
<1>2. CASE ~ \E i \in Messages : Start[i] = p
  BY <1>2, ReaderAssumption DEF HeaderRead, HeaderOf
<1> QED BY <1>1, <1>2

\* The buffer for the body is as long as the body, or Huge.
LEMMA BodyBuffer ==
    ASSUME script \in Scripts, NEW i \in Messages,
           incoming # NoPacket, incoming.len = Length(script[i])
    PROVE  BufferLen = IF Tellable(script[i]) THEN script[i].body ELSE Huge
<1>1. /\ Length(script[i]) - PACKET_HEADER_SIZE = script[i].body
      /\ script[i].body \in Nat /\ script[i].body <= 65532
  <2>1. UINT16_MAX - PACKET_HEADER_SIZE = 65532
    BY DEF UINT16_MAX, PACKET_HEADER_SIZE
  <2>2. script[i].body \in Nat /\ script[i].body <= UINT16_MAX - PACKET_HEADER_SIZE
    BY ScriptType
  <2> QED BY <2>1, <2>2 DEF Length, PACKET_HEADER_SIZE
<1>2. CASE script[i].body < 32768
  <2>1. (script[i].body + 32768) % 65536 = script[i].body + 32768
    BY <1>1, <1>2
  <2> QED BY <1>1, <1>2, <2>1 DEF BufferLen, Unsigned, Int16, Tellable
<1>3. CASE ~ (script[i].body < 32768)
  <2>1. (script[i].body + 32768) % 65536 = script[i].body - 32768
    BY <1>1, <1>3
  <2> QED BY <1>1, <1>3, <2>1 DEF BufferLen, Unsigned, Int16, Tellable
<1> QED BY <1>2, <1>3

-----------------------------------------------------------------------------
(* The inductive invariant. *)

LEMMA SameConversation ==
    ASSUME UNCHANGED script
    PROVE  /\ Messages' = Messages
           /\ Start' = Start
           /\ Total' = Total
<1>1. Messages' = Messages
  BY DEF Messages
<1>2. Start' = Start
  BY DEF Start
<1>3. Total' = Total
  BY <1>2 DEF Total
<1> QED BY <1>1, <1>2, <1>3

LEMMA TypeFacts ==
    ASSUME TypeOK
    PROVE  /\ script \in Scripts
           /\ Total \in Nat /\ sent \in Nat /\ pos \in Nat
           /\ pos <= sent /\ sent <= Total
           /\ incoming.msg \in Messages \cup {0}
           /\ 0 \notin Messages
           /\ BufferLen \in Nat
           /\ track.pos \in Nat /\ track.pos <= pos
           /\ Len(handled) \in Nat /\ track.handled \in 0 .. Len(handled)
<1>1. script \in Scripts
  BY DEF TypeOK
<1>2. Total \in Nat
  BY <1>1, Positions
<1>3. sent \in Nat /\ pos \in Nat /\ pos <= sent /\ sent <= Total
  BY <1>2 DEF TypeOK
<1>4. incoming.msg \in Messages \cup {0} /\ 0 \notin Messages
  BY <1>1, ScriptType DEF TypeOK, Messages
<1>5. BufferLen \in Nat
  <2>1. \A k \in Int : Unsigned(Int16(k)) \in Nat
    BY DEF Unsigned, Int16, Huge
  <2>2. incoming.len \in Int
    <3>1. UINT16_MAX \in Nat
      BY DEF UINT16_MAX
    <3> QED BY <3>1 DEF TypeOK
  <2> QED BY <2>1, <2>2 DEF BufferLen, PACKET_HEADER_SIZE
<1>6. /\ track.pos \in Nat /\ track.pos <= pos
      /\ Len(handled) \in Nat /\ track.handled \in 0 .. Len(handled)
  <2>1. track.pos \in 0 .. pos /\ track.handled \in 0 .. Len(handled)
    BY DEF TypeOK
  <2>2. Len(handled) \in Nat
    BY DEF TypeOK
  <2> QED BY <1>3, <2>1, <2>2
<1> QED BY <1>1, <1>2, <1>3, <1>4, <1>5, <1>6

LEMMA Bounds ==
    /\ UINT16_MAX \in Nat
    /\ LoopRounds \in Nat \ {0}
<1>1. UINT16_MAX \in Nat
  BY DEF UINT16_MAX
<1> QED BY <1>1, ReaderAssumption

LEMMA AllocFacts ==
    ASSUME TypeOK
    PROVE  /\ Alloc \in [state : {"read_header", "read_data"},
                        len : 0 .. UINT16_MAX, type : 0 .. 255, msg : Messages \cup {0}]
           /\ incoming # NoPacket => /\ Alloc.len = incoming.len
                                     /\ Alloc.type = incoming.type
                                     /\ Alloc.msg = incoming.msg
           /\ incoming = NoPacket => Alloc.len = 0 /\ Alloc.msg = 0
           /\ Alloc # NoPacket
<1>1. incoming \in [state : {"none", "read_header", "read_data"},
                   len : 0 .. UINT16_MAX, type : 0 .. 255, msg : Messages \cup {0}]
  BY DEF TypeOK
<1> QED BY <1>1, Bounds DEF Alloc, Packet, Zero, NoPacket

\* The packet of a message without a body is all that keeps a message, to whose
\* end the reader got on track, from being read.
LEMMA PacketIsAhead ==
    ASSUME IInv, incoming.msg # 0, ~ OnTrack \/ script[incoming.msg].body > 0
    PROVE  ~ (Start[incoming.msg + 1] <= track.pos)
<1> DEFINE m == incoming.msg
<1>1. m \in Messages /\ pos = Start[m] + 3 /\ script \in Scripts
  BY TypeFacts DEF IInv, PacketFollowsHeader, PACKET_HEADER_SIZE
<1>2. /\ Start[m] \in Nat /\ Start[m + 1] \in Nat /\ script[m].body \in Nat
      /\ Start[m + 1] = Start[m] + 3 + script[m].body
  BY <1>1, Positions, ScriptType
<1>3. track.pos \in Nat /\ track.pos <= pos /\ (~ OnTrack => track.pos # pos)
  BY TypeFacts DEF IInv, OnTrack
<1> QED BY <1>1, <1>2, <1>3

\* What a round on track reads.
LEMMA RoundOnTrack ==
    ASSUME IInv, OnTrack, incoming # NoPacket,
           NEW n \in Nat, n > 0, Fills(n)
    PROVE  /\ incoming.msg \in Messages
           /\ n = script[incoming.msg].body
           /\ pos = Start[incoming.msg] + 3
           /\ pos + n = Start[incoming.msg + 1]
<1> DEFINE m == incoming.msg
<1> USE TypeFacts DEF IInv
<1>1. m # 0
  <2> SUFFICES ASSUME m = 0 PROVE FALSE
    OBVIOUS
  <2>1. incoming.len = 0
    BY DEF TrackAtMessage
  <2>2. BufferLen = Huge
    <3>1. (0 - 3 + 32768) % 65536 = 32765
      OBVIOUS
    <3> QED BY <2>1, <3>1 DEF BufferLen, PACKET_HEADER_SIZE, Unsigned, Int16
  <2> QED BY <2>2 DEF Fills, Huge
<1>2. m \in Messages /\ pos = Start[m] + 3 /\ incoming.len = Length(script[m])
  BY <1>1 DEF PacketFollowsHeader, PACKET_HEADER_SIZE
<1>3. n = script[m].body
  <2>1. BufferLen = IF Tellable(script[m]) THEN script[m].body ELSE Huge
    BY <1>2, BodyBuffer
  <2> QED BY <2>1 DEF Fills
<1>4. /\ Start[m] \in Nat /\ Start[m + 1] = Start[m] + 3 + script[m].body
      /\ script[m].body \in Nat
  BY <1>2, Positions, ScriptType
<1> QED BY <1>2, <1>3, <1>4

LEMMA InitIInv == Init => IInv
<1> SUFFICES ASSUME Init PROVE IInv
  OBVIOUS
<1> USE DEF Init
<1>1. script \in Scripts /\ Total \in Nat
  BY Positions
<1>2. TypeOK
  <2>1. NoPacket \in [state : {"none", "read_header", "read_data"},
                     len : 0 .. UINT16_MAX, type : 0 .. 255, msg : Messages \cup {0}]
    BY Bounds DEF NoPacket
  <2>2. rounds \in 0 .. LoopRounds
    BY Bounds
  <2>3. handled \in Seq([msg : Messages \cup {0}, whole : BOOLEAN]) /\ Len(handled) = 0
    OBVIOUS
  <2>4. /\ script \in Scripts /\ client \in {"sending", "left", "reset"}
        /\ status \in {"open", "UV_ENOBUFS", "UV_EOF", "UV_ECONNRESET"}
    OBVIOUS
  <2>5. incoming = NoPacket
    OBVIOUS
  <2>6. sent \in 0 .. Total /\ pos \in 0 .. sent
    BY <1>1
  <2>7. track \in [pos : 0 .. pos, handled : 0 .. Len(handled)]
    BY <2>3
  <2> HIDE DEF Init
  <2> QED BY <2>1, <2>2, <2>3, <2>4, <2>5, <2>6, <2>7 DEF TypeOK
<1>3. PacketFollowsHeader /\ HandledLieBehind /\ HandledOnceInOrder
  BY <1>2 DEF PacketFollowsHeader, HandledLieBehind, HandledOnceInOrder, NoPacket
<1>4. Len(script) \in Nat /\ 1 \in 1 .. Len(script) + 1
  BY <1>1, ScriptType
<1>5. TrackAtMessage /\ track.handled = Len(handled)
  BY <1>1, <1>4, StartSteps DEF TrackAtMessage, NoPacket
<1>6. HandlesEveryMessage
  <2>1. ASSUME NEW i \in Messages PROVE ~ IsRead(i)
    <3>1. Start[i] \in Nat /\ Start[i + 1] = Start[i] + 3 + script[i].body
          /\ script[i].body \in Nat
      BY <1>1, Positions, ScriptType
    <3> QED BY <3>1 DEF IsRead
  <2> QED BY <2>1 DEF HandlesEveryMessage
<1> QED BY <1>2, <1>3, <1>5, <1>6 DEF IInv, NoPacket

\* A step that reads nothing: the packet stays, is made or is marked, and the
\* connection may be closed.
LEMMA NothingRead ==
    ASSUME IInv, TypeOK',
           UNCHANGED << script, pos, handled, track >>,
           incoming' = incoming \/ incoming' = Alloc,
           client' = "left" => sent' = Total,
           \/ UNCHANGED << status, incoming >>
           \/ status' # "UV_ENOBUFS" /\ incoming' = Alloc /\ status = "open"
           \/ status' = "UV_ENOBUFS" /\ incoming = NoPacket /\ UNCHANGED incoming
           \/ status' = "UV_ENOBUFS" /\ BufferLen = 0 /\ incoming' = Alloc
    PROVE  IInv'
<1> USE SameConversation, TypeFacts, AllocFacts DEF IInv
<1>1. incoming'.msg = incoming.msg
  BY DEF NoPacket
<1>2. /\ incoming'.msg # 0 => incoming'.len = incoming.len /\ incoming'.type = incoming.type
      /\ incoming.len = 0 => incoming'.len = 0
      /\ incoming'.state = "none" => incoming' = NoPacket
  BY DEF NoPacket
<1>3. PacketFollowsHeader' /\ HandledLieBehind' /\ HandledOnceInOrder'
  BY <1>1, <1>2 DEF PacketFollowsHeader, HandledLieBehind, HandledOnceInOrder
<1>4. TrackAtMessage' /\ (OnTrack' => track'.handled = Len(handled'))
  BY <1>1, <1>2 DEF TrackAtMessage, OnTrack
<1>5. HandlesEveryMessage'
  <2>1. \A i \in Messages : IsRead(i)' /\ script[i].type \in Served => IsHandled(i)'
    BY <1>1 DEF HandlesEveryMessage, IsRead, IsHandled
  <2>2. ASSUME OnTrack', status' = "UV_ENOBUFS"
        PROVE  \/ /\ incoming' = NoPacket
                  /\ \E i \in 1 .. Len(script) + 1 : pos = Start[i]
               \/ incoming'.msg # 0 /\ script[incoming'.msg].body = 0
    <3>1. OnTrack
      BY <2>2 DEF OnTrack
    <3>2. CASE UNCHANGED << status, incoming >>
      BY <2>2, <3>1, <3>2 DEF HandlesEveryMessage
    <3>3. CASE incoming = NoPacket /\ UNCHANGED incoming
      BY <3>1, <3>3 DEF TrackAtMessage, NoPacket
    <3>4. CASE BufferLen = 0 /\ incoming' = Alloc
      <4>1. incoming # NoPacket
        BY <3>4 DEF BufferLen, PACKET_HEADER_SIZE
      <4>2. incoming.msg # 0
        <5> SUFFICES ASSUME incoming.msg = 0 PROVE FALSE
          OBVIOUS
        <5>1. incoming.len = 0
          BY <3>1 DEF TrackAtMessage
        <5>2. (0 - 3 + 32768) % 65536 = 32765
          OBVIOUS
        <5> QED BY <3>4, <4>1, <5>1, <5>2
            DEF BufferLen, PACKET_HEADER_SIZE, Unsigned, Int16, Huge
      <4>3. BufferLen = IF Tellable(script[incoming.msg]) THEN script[incoming.msg].body ELSE Huge
        BY <4>1, <4>2, BodyBuffer DEF PacketFollowsHeader
      <4> QED BY <1>1, <3>4, <4>2, <4>3 DEF Huge
    <3> QED BY <2>2, <3>2, <3>3, <3>4
  <2> QED BY <2>1, <2>2 DEF HandlesEveryMessage
<1> QED BY <1>2, <1>3, <1>4, <1>5

\* The type of the state after a step that reads nothing.
LEMMA NothingReadType ==
    ASSUME TypeOK, UNCHANGED << script, pos, handled, track >>,
           incoming' = incoming \/ incoming' = Alloc,
           client' \in {"sending", "left", "reset"},
           sent' \in 0 .. Total, sent <= sent',
           status' \in {"open", "UV_ENOBUFS", "UV_EOF", "UV_ECONNRESET"},
           rounds' \in 0 .. LoopRounds
    PROVE  TypeOK'
<1> USE SameConversation, TypeFacts, AllocFacts
<1>1. incoming' \in [state : {"none", "read_header", "read_data"},
                     len : 0 .. UINT16_MAX, type : 0 .. 255, msg : Messages \cup {0}]
  BY DEF TypeOK
<1>2. pos' \in 0 .. sent'
  OBVIOUS
<1>3. handled' \in Seq([msg : Messages \cup {0}, whole : BOOLEAN])
      /\ track' \in [pos : 0 .. pos', handled : 0 .. Len(handled')]
  BY DEF TypeOK
<1> QED BY <1>1, <1>2, <1>3 DEF TypeOK

LEMMA ConsumeFacts ==
    ASSUME TypeOK, NEW n \in Nat, n > 0, n <= sent - pos, Consume(n),
           Len(handled') \in Nat, Len(handled) <= Len(handled')
    PROVE  /\ pos' \in 0 .. sent /\ pos' = pos + n
           /\ rounds' \in 0 .. LoopRounds
           /\ UNCHANGED << script, client, sent, status >>
           /\ track' \in [pos : 0 .. pos', handled : 0 .. Len(handled')]
           /\ OnTrack' => /\ OnTrack /\ Fills(n)
                          /\ track'.handled = Len(handled')
           /\ ~ (OnTrack /\ Fills(n)) => track' = track
           /\ OnTrack /\ Fills(n) => track' = [pos |-> pos', handled |-> Len(handled')]
<1>1. pos' \in 0 .. sent /\ pos' = pos + n
  BY TypeFacts DEF Consume
<1>2. rounds' \in 0 .. LoopRounds
  <2>1. rounds \in 0 .. LoopRounds
    BY DEF TypeOK
  <2> QED BY <2>1, Bounds DEF Consume
<1>3. UNCHANGED << script, client, sent, status >>
  BY DEF Consume
<1>4. CASE OnTrack /\ Fills(n)
  <2>1. track' = [pos |-> pos', handled |-> Len(handled')]
    BY <1>4 DEF Consume, OnTrack
  <2> QED BY <1>1, <1>2, <1>3, <1>4, <2>1 DEF OnTrack
<1>5. CASE ~ (OnTrack /\ Fills(n))
  <2>1. track' = track
    BY <1>5 DEF Consume, OnTrack
  <2>2. track.pos # pos'
    BY <1>1, TypeFacts
  <2>3. track \in [pos : 0 .. pos, handled : 0 .. Len(handled)]
    BY DEF TypeOK
  <2>4. track \in [pos : 0 .. pos', handled : 0 .. Len(handled')]
    BY <1>1, <2>3, TypeFacts
  <2> QED BY <1>1, <1>2, <1>3, <1>5, <2>1, <2>2, <2>4 DEF OnTrack
<1> QED BY <1>4, <1>5

\* A round that reads a header, of which the network may have brought less.
LEMMA HeaderRound ==
    ASSUME IInv, ReadHeader
    PROVE  /\ incoming = NoPacket /\ status = "open" /\ UNCHANGED handled
           /\ \E n \in 1 .. 3 :
                 /\ n <= sent - pos /\ Consume(n) /\ (Fills(n) => n = 3)
                 /\ incoming'.msg = HeaderOf(pos, n)
                 /\ incoming' \in [state : {"none", "read_header", "read_data"},
                                  len : 0 .. UINT16_MAX, type : 0 .. 255,
                                  msg : Messages \cup {0}]
                 /\ incoming'.state # "none"
                 /\ incoming'.msg # 0 =>
                       /\ pos = Start[incoming'.msg] /\ pos' = pos + 3
                       /\ incoming'.len = Length(script[incoming'.msg])
                       /\ incoming'.type = script[incoming'.msg].type
                 /\ OnTrack /\ Fills(n) => incoming'.msg # 0
<1> USE TypeFacts DEF IInv
<1>1. incoming = NoPacket /\ pos < sent /\ status = "open" /\ UNCHANGED handled
  BY DEF ReadHeader, Round
<1>2. BufferLen = 3
  BY <1>1 DEF BufferLen, PACKET_HEADER_SIZE
<1> DEFINE n == Lesser(BufferLen, sent - pos)
<1>3. n \in 1 .. 3 /\ n <= sent - pos /\ (Fills(n) => n = 3)
  BY <1>1, <1>2 DEF Lesser, Fills
<1>4. Consume(n) /\ \E h \in HeaderRead(pos, n) :
                       incoming' = Packet("read_header", h, HeaderOf(pos, n))
  BY DEF ReadHeader
<1> HIDE DEF n
<1>5. PICK h \in HeaderRead(pos, n) : incoming' = Packet("read_header", h, HeaderOf(pos, n))
  BY <1>4
<1>6. incoming'.msg = HeaderOf(pos, n) /\ incoming'.len = h.len /\ incoming'.type = h.type
      /\ incoming'.state # "none"
  BY <1>5 DEF Packet
<1>7. HeaderOf(pos, n) \in Messages \cup {0} /\ (HeaderOf(pos, n) # 0 => n = 3 /\ Start[HeaderOf(pos, n)] = pos)
  BY <1>3, HeaderOfMessage
<1>8. /\ h \in [len : 0 .. UINT16_MAX, type : 0 .. 255]
      /\ HeaderOf(pos, n) # 0 => /\ h.len = Length(script[HeaderOf(pos, n)])
                                 /\ h.type = script[HeaderOf(pos, n)].type
  BY <1>3, <1>5, HeaderReadType
<1>9. incoming' \in [state : {"none", "read_header", "read_data"},
                    len : 0 .. UINT16_MAX, type : 0 .. 255, msg : Messages \cup {0}]
  BY <1>5, <1>7, <1>8 DEF Packet
<1>10. pos' = pos + n
  BY <1>4 DEF Consume
<1>11. ASSUME OnTrack, Fills(n) PROVE HeaderOf(pos, n) # 0
  <2>1. PICK i \in 1 .. Len(script) + 1 : pos = Start[i]
    BY <1>1, <1>11 DEF TrackAtMessage, NoPacket
  <2>2. i # Len(script) + 1
    BY <1>1, <2>1 DEF Total
  <2>3. i \in Messages /\ i # 0
    BY <2>1, <2>2, ScriptType DEF Messages
  <2> QED BY <1>3, <1>11, <2>1, <2>3, HeaderOfMessage
<1> QED BY <1>1, <1>3, <1>4, <1>6, <1>7, <1>8, <1>9, <1>10, <1>11

\* A header, read on track or not, ends no message.
LEMMA HeaderEndsNothing ==
    ASSUME IInv, ReadHeader, NEW i \in Messages
    PROVE  IsRead(i)' <=> IsRead(i)
<1> USE TypeFacts DEF IInv
<1>1. PICK n \in 1 .. 3 :
         /\ n <= sent - pos /\ Consume(n) /\ (Fills(n) => n = 3)
         /\ incoming'.msg # 0 => pos = Start[incoming'.msg] /\ pos' = pos + 3
         /\ OnTrack /\ Fills(n) => incoming'.msg # 0
         /\ incoming'.msg \in Messages \cup {0}
  BY HeaderRound
<1>2. UNCHANGED << script, handled >> /\ incoming.msg = 0
  BY <1>1, HeaderRound DEF Consume, NoPacket
<1>3. Start' = Start
  BY <1>2, SameConversation
<1>4. IsRead(i) <=> Start[i + 1] <= track.pos
  BY <1>2 DEF IsRead
<1>5. IsRead(i)' <=> Start[i + 1] <= track'.pos /\ incoming'.msg # i
  BY <1>3 DEF IsRead
<1> DEFINE m == incoming'.msg
<1>6. /\ Start[i] \in Nat /\ Start[i + 1] \in Nat /\ script[i].body \in Nat
      /\ Start[i + 1] = Start[i] + 3 + script[i].body
      /\ \A j \in Messages : i < j => Start[i + 1] <= Start[j]
  BY Positions, ScriptType
<1> DEFINE here == track.pos
           there == track'.pos
<1>7. here \in Nat /\ here <= pos /\ pos \in Nat /\ 0 # i
  OBVIOUS
<1>8. CASE m = 0
  <2>1. track' = track
    BY <1>1, <1>8 DEF Consume, OnTrack
  <2> QED BY <1>4, <1>5, <1>8, <1>7, <2>1
<1>9. CASE m # 0
  <2>1. m \in Messages /\ pos = Start[m] /\ pos' = Start[m] + 3 /\ Start[m] \in Nat
    BY <1>1, <1>9, Positions
  <2>2. track' = track \/ (OnTrack /\ track'.pos = pos')
    BY <1>1 DEF Consume, OnTrack
  <2>3. CASE track' = track
    <3>1. ASSUME Start[i + 1] <= here, m = i PROVE FALSE
      BY ONLY <1>6, <1>7, <2>1, <3>1
    <3> QED BY ONLY <1>4, <1>5, <2>3, <3>1
  <2>4. CASE OnTrack /\ track'.pos = pos'
    <3>1. i \in Int /\ m \in Int
      BY <2>1, ScriptType DEF Messages
    <3>5. here = Start[m] /\ there = Start[m] + 3
      BY <2>1, <2>4 DEF OnTrack
    <3> HIDE DEF here, there
    <3>6. (Start[i + 1] <= here <=> Start[i + 1] <= there /\ m # i) => (IsRead(i)' <=> IsRead(i))
      BY ONLY <1>4, <1>5 DEF here, there
    <3>2. CASE i < m
      <4>1. Start[i + 1] <= Start[m]
        BY <1>6, <2>1, <3>2
      <4>2. Start[i + 1] <= here /\ Start[i + 1] <= there /\ m # i
        BY ONLY <1>6, <2>1, <3>1, <3>2, <3>5, <4>1
      <4> QED BY ONLY <3>6, <4>2
    <3>3. CASE i = m
      <4>1. ~ (Start[i + 1] <= here)
        BY ONLY <1>6, <2>1, <3>3, <3>5
      <4> QED BY ONLY <3>3, <3>6, <4>1
    <3>4. CASE m < i
      <4>1. Start[m + 1] = Start[m] + 3 + script[m].body /\ Start[m + 1] <= Start[i]
            /\ script[m].body \in Nat
        BY <2>1, <3>4, Positions, ScriptType
      <4>2. ~ (Start[i + 1] <= here) /\ ~ (Start[i + 1] <= there)
        BY ONLY <1>6, <2>1, <3>5, <4>1
      <4> QED BY ONLY <3>6, <4>2
    <3> QED BY <3>1, <3>2, <3>3, <3>4
  <2> QED BY <2>2, <2>3, <2>4
<1> QED BY <1>8, <1>9

LEMMA ReadHeaderKeeps == IInv /\ ReadHeader => IInv'
<1> SUFFICES ASSUME IInv, ReadHeader PROVE IInv'
  OBVIOUS
<1> USE TypeFacts DEF IInv
<1>1. PICK n \in 1 .. 3 :
         /\ n <= sent - pos /\ Consume(n) /\ (Fills(n) => n = 3)
         /\ incoming' \in [state : {"none", "read_header", "read_data"},
                          len : 0 .. UINT16_MAX, type : 0 .. 255, msg : Messages \cup {0}]
         /\ incoming'.state # "none"
         /\ incoming'.msg # 0 => /\ pos = Start[incoming'.msg] /\ pos' = pos + 3
                                 /\ incoming'.len = Length(script[incoming'.msg])
                                 /\ incoming'.type = script[incoming'.msg].type
         /\ OnTrack /\ Fills(n) => incoming'.msg # 0
  BY HeaderRound
<1>2. UNCHANGED handled /\ status = "open" /\ incoming = NoPacket
  BY HeaderRound
<1>3. /\ pos' \in 0 .. sent /\ pos' = pos + n /\ rounds' \in 0 .. LoopRounds
      /\ UNCHANGED << script, client, sent, status >>
      /\ track' \in [pos : 0 .. pos', handled : 0 .. Len(handled')]
      /\ OnTrack' => OnTrack /\ Fills(n) /\ track'.handled = Len(handled')
  BY <1>1, <1>2, ConsumeFacts
<1> USE SameConversation
<1>4. TypeOK'
  BY <1>1, <1>2, <1>3 DEF TypeOK
<1>5. PacketFollowsHeader'
  BY <1>1, <1>3 DEF PacketFollowsHeader, PACKET_HEADER_SIZE
<1>6. HandledLieBehind'
  <2> SUFFICES ASSUME NEW k \in 1 .. Len(handled), handled[k].msg # 0
               PROVE  /\ Start[handled[k].msg] + 3 <= pos'
                      /\ incoming'.msg # 0 => handled[k].msg < incoming'.msg
    BY <1>2, <1>3 DEF HandledLieBehind, PACKET_HEADER_SIZE
  <2> DEFINE h == handled[k].msg
  <2>1. h \in Messages
    <3>1. handled[k] \in [msg : Messages \cup {0}, whole : BOOLEAN]
      BY ElementOfSequence DEF TypeOK
    <3> QED BY <3>1
  <2>2. Start[h] \in Nat /\ Start[h] + 3 <= pos
    BY <2>1, Positions DEF HandledLieBehind, PACKET_HEADER_SIZE
  <2>3. ASSUME incoming'.msg # 0 PROVE h < incoming'.msg
    <3>1. incoming'.msg \in Messages /\ Start[incoming'.msg] = pos
      BY <1>1, <2>3
    <3> QED BY <2>1, <2>2, <3>1, Positions
  <2>4. Start[h] + 3 <= pos'
    BY ONLY <1>3, <2>2, pos \in Nat, n \in 1 .. 3
  <2> QED BY <2>3, <2>4
<1>7. HandledOnceInOrder'
  BY <1>2, <1>4 DEF HandledOnceInOrder
<1>8. TrackAtMessage' /\ (OnTrack' => track'.handled = Len(handled'))
  BY <1>1, <1>3 DEF TrackAtMessage
<1>9. HandlesEveryMessage'
  <2>1. \A i \in Messages : IsRead(i)' => IsRead(i)
    BY HeaderEndsNothing
  <2>2. \A i \in Messages : IsHandled(i) => IsHandled(i)'
    BY <1>2 DEF IsHandled
  <2> QED BY <1>2, <1>3, <2>1, <2>2 DEF HandlesEveryMessage
<1> QED BY <1>1, <1>3, <1>4, <1>5, <1>6, <1>7, <1>8, <1>9

LEMMA AppendFacts ==
    ASSUME NEW S, NEW s \in Seq(S), NEW e \in S
    PROVE  /\ Append(s, e) \in Seq(S)
           /\ Len(s) \in Nat /\ Len(Append(s, e)) = Len(s) + 1
           /\ \A k \in 1 .. Len(s) : Append(s, e)[k] = s[k]
           /\ Append(s, e)[Len(s) + 1] = e
OBVIOUS

\* The messages handled after a packet: the old ones and perhaps that of the packet.
LEMMA PerhapsAppended ==
    ASSUME NEW S, NEW s \in Seq(S), NEW e \in S, NEW t, NEW P,
           (P /\ t = Append(s, e)) \/ (~ P /\ t = s)
    PROVE  /\ Len(s) \in Nat /\ Len(t) \in Nat /\ Len(s) <= Len(t)
           /\ t \in Seq(S)
           /\ \A k \in 1 .. Len(s) : k \in 1 .. Len(t) /\ t[k] = s[k]
           /\ \A k \in 1 .. Len(t) : k \in 1 .. Len(s) \/ (k = Len(s) + 1 /\ t[k] = e)
           /\ P => Len(s) + 1 \in 1 .. Len(t) /\ t[Len(s) + 1] = e
<1>1. Len(s) \in Nat
  OBVIOUS
<1>2. CASE P /\ t = Append(s, e)
  <2>1. /\ t \in Seq(S) /\ Len(t) = Len(s) + 1
        /\ \A k \in 1 .. Len(s) : t[k] = s[k]
        /\ t[Len(s) + 1] = e
    BY <1>2, AppendFacts
  <2> DEFINE n == Len(s)
             l == Len(t)
  <2> HIDE DEF n, l
  <2>2. n \in Nat /\ l = n + 1 /\ \A k \in 1 .. n : t[k] = s[k]
    BY <1>1, <2>1 DEF n, l
  <2>3. /\ l \in Nat /\ n <= l
        /\ \A k \in 1 .. n : k \in 1 .. l /\ t[k] = s[k]
        /\ \A k \in 1 .. l : k \in 1 .. n \/ k = n + 1
        /\ n + 1 \in 1 .. l
    BY <2>2
  <2> QED BY <1>1, <2>1, <2>3 DEF n, l
<1>3. CASE ~ P /\ t = s
  BY <1>1, <1>3
<1> QED BY <1>2, <1>3

LEMMA ReadBodyKeeps == IInv /\ ReadBody => IInv'
<1> SUFFICES ASSUME IInv, ReadBody PROVE IInv'
  OBVIOUS
<1> DEFINE n == Lesser(BufferLen, sent - pos)
           m == incoming.msg
           entry == [msg |-> m, whole |-> m # 0 /\ n = script[m].body]
           Entries == [msg : Messages \cup {0}, whole : BOOLEAN]
<1> USE TypeFacts DEF IInv
<1>1. n \in Nat /\ n > 0 /\ n <= sent - pos /\ Consume(n)
  BY DEF ReadBody, Lesser
<1>2. UNCHANGED << script, client, sent, status >> /\ status = "open"
  BY <1>1 DEF Consume, ReadBody, Round
<1>3. incoming' = NoPacket /\ incoming # NoPacket
  BY DEF ReadBody
<1>4. \/ incoming.type \in Served /\ handled' = Append(handled, entry)
      \/ incoming.type \notin Served /\ handled' = handled
  BY DEF ReadBody, HandlePacket
<1>5. entry \in Entries /\ handled \in Seq(Entries) /\ entry.msg = m
  BY DEF TypeOK
<1> USE SameConversation
<1> HIDE DEF n, entry, Entries
\* The handled messages are the old ones and perhaps that of the packet.
<1>6. /\ Len(handled) \in Nat /\ Len(handled') \in Nat /\ Len(handled) <= Len(handled')
      /\ handled' \in Seq(Entries)
      /\ \A k \in 1 .. Len(handled) : k \in 1 .. Len(handled') /\ handled'[k] = handled[k]
      /\ \A k \in 1 .. Len(handled') :
            k \in 1 .. Len(handled) \/ (k = Len(handled) + 1 /\ handled'[k] = entry)
      /\ incoming.type \in Served =>
            Len(handled) + 1 \in 1 .. Len(handled') /\ handled'[Len(handled) + 1] = entry
  <2> DEFINE P == incoming.type \in Served
  <2>1. (P /\ handled' = Append(handled, entry)) \/ (~ P /\ handled' = handled)
    BY <1>4
  <2> HIDE DEF P, IInv, ReadBody, TypeFacts, SameConversation
  <2>2. /\ Len(handled) \in Nat /\ Len(handled') \in Nat /\ Len(handled) <= Len(handled')
        /\ handled' \in Seq(Entries)
        /\ \A k \in 1 .. Len(handled) : k \in 1 .. Len(handled') /\ handled'[k] = handled[k]
        /\ \A k \in 1 .. Len(handled') :
              k \in 1 .. Len(handled) \/ (k = Len(handled) + 1 /\ handled'[k] = entry)
        /\ P => Len(handled) + 1 \in 1 .. Len(handled') /\ handled'[Len(handled) + 1] = entry
    BY ONLY <1>5, <2>1, PerhapsAppended
  <2> QED BY ONLY <2>2 DEF P
<1>7. /\ pos' \in 0 .. sent /\ pos' = pos + n /\ rounds' \in 0 .. LoopRounds
      /\ track' \in [pos : 0 .. pos', handled : 0 .. Len(handled')]
      /\ OnTrack' => OnTrack /\ Fills(n) /\ track'.handled = Len(handled')
      /\ ~ (OnTrack /\ Fills(n)) => track' = track
      /\ OnTrack /\ Fills(n) => track' = [pos |-> pos', handled |-> Len(handled')]
  BY <1>1, <1>6, ConsumeFacts
<1>16. TypeOK'
  <2>1. NoPacket \in [state : {"none", "read_header", "read_data"},
                     len : 0 .. UINT16_MAX, type : 0 .. 255, msg : Messages \cup {0}]
    BY Bounds DEF NoPacket
  <2>2. handled' \in Seq([msg : Messages \cup {0}, whole : BOOLEAN])
    BY <1>6 DEF Entries
  <2> QED BY <1>2, <1>3, <1>7, <2>1, <2>2 DEF TypeOK
<1>8. PacketFollowsHeader'
  BY <1>3 DEF PacketFollowsHeader, NoPacket
<1>9. m # 0 => m \in Messages /\ pos = Start[m] + 3 /\ Start[m] \in Nat
  BY Positions DEF PacketFollowsHeader, PACKET_HEADER_SIZE
<1>10. \A k \in 1 .. Len(handled) : handled[k].msg # 0 =>
          /\ handled[k].msg \in Messages
          /\ Start[handled[k].msg] \in Nat /\ Start[handled[k].msg] + 3 <= pos
          /\ m # 0 => handled[k].msg < m
  <2> SUFFICES ASSUME NEW k \in 1 .. Len(handled), handled[k].msg # 0
               PROVE  handled[k].msg \in Messages
    BY Positions DEF HandledLieBehind, PACKET_HEADER_SIZE
  <2>1. handled[k] \in Entries
    BY <1>5, ElementOfSequence
  <2> QED BY <2>1 DEF Entries
<1>11. HandledLieBehind'
  <2> SUFFICES ASSUME NEW k \in 1 .. Len(handled'), handled'[k].msg # 0
               PROVE  Start[handled'[k].msg] + 3 <= pos'
    BY <1>2, <1>3, <1>7 DEF HandledLieBehind, PACKET_HEADER_SIZE, NoPacket
  <2>1. CASE k \in 1 .. Len(handled)
    <3>1. handled'[k] = handled[k]
      BY ONLY <1>6, <2>1
    <3>2. Start[handled[k].msg] \in Nat /\ Start[handled[k].msg] + 3 <= pos
      BY ONLY <1>10, <2>1, <3>1, handled'[k].msg # 0
    <3> QED BY SMTT(30), <1>1, <1>7, <3>1, <3>2
  <2>2. CASE handled'[k] = entry
    <3>1. handled'[k].msg = m
      BY ONLY <1>5, <2>2
    <3>2. Start[m] \in Nat /\ pos = Start[m] + 3
      BY ONLY <1>9, <3>1, handled'[k].msg # 0
    <3> QED BY SMTT(30), <1>1, <1>7, <3>1, <3>2
  <2>3. k \in 1 .. Len(handled) \/ handled'[k] = entry
    BY ONLY <1>6, k \in 1 .. Len(handled')
  <2> QED BY <2>1, <2>2, <2>3
<1>12. HandledOnceInOrder'
  <2> SUFFICES ASSUME NEW j \in 1 .. Len(handled'), NEW k \in 1 .. Len(handled'), j < k,
                      handled'[j].msg # 0, handled'[k].msg # 0
               PROVE  handled'[j].msg < handled'[k].msg
    BY <1>16 DEF HandledOnceInOrder
  <2>1. j \in 1 .. Len(handled)
    BY <1>6
  <2>2. CASE k \in 1 .. Len(handled)
    BY <1>6, <2>1, <2>2 DEF HandledOnceInOrder
  <2>3. CASE handled'[k] = entry
    BY <1>5, <1>6, <1>10, <2>1, <2>3
  <2> QED BY <1>6, <2>2, <2>3
<1>13. ASSUME OnTrack, Fills(n)
       PROVE  /\ m \in Messages /\ n = script[m].body
              /\ pos = Start[m] + 3 /\ pos' = Start[m + 1]
  BY <1>1, <1>3, <1>7, <1>13, RoundOnTrack
<1>14. TrackAtMessage' /\ (OnTrack' => track'.handled = Len(handled'))
  <2>1. ASSUME OnTrack'
        PROVE  \E i \in 1 .. Len(script) + 1 : pos' = Start[i]
    <3>1. pos' = Start[m + 1] /\ m \in Messages
      BY <1>7, <1>13, <2>1
    <3>2. m + 1 \in 1 .. Len(script) + 1
      BY <3>1, ScriptType DEF Messages
    <3> QED BY <3>1, <3>2
  <2> QED BY <1>2, <1>3, <1>7, <2>1 DEF TrackAtMessage, NoPacket
<1>15. HandlesEveryMessage'
  <2> SUFFICES ASSUME NEW i \in Messages, IsRead(i)', script[i].type \in Served
               PROVE  IsHandled(i)'
    BY <1>2 DEF HandlesEveryMessage
  <2>1. Start[i + 1] <= track'.pos
    BY <1>2 DEF IsRead
  <2>2. \A k \in 1 .. Len(handled) : k \in 1 .. Len(handled') /\ handled'[k] = handled[k]
    BY <1>6
  <2>3. IsHandled(i) => IsHandled(i)'
    BY <2>2 DEF IsHandled
  <2>4. CASE ~ (OnTrack /\ Fills(n))
    <3>1. track' = track
      BY <1>7, <2>4
    <3>2. m # i
      <4> SUFFICES ASSUME m = i PROVE FALSE
        OBVIOUS
      <4>1. OnTrack /\ script[m].body = 0
        BY <2>1, <3>1, PacketIsAhead, ScriptType
      <4>2. BufferLen = 0
        BY <1>3, <4>1, BodyBuffer DEF PacketFollowsHeader, Tellable
      <4> QED BY <4>2 DEF ReadBody
    <3>3. IsRead(i)
      BY <2>1, <3>1, <3>2 DEF IsRead
    <3> QED BY <2>3, <3>3 DEF HandlesEveryMessage
  <2>5. CASE OnTrack /\ Fills(n)
    <3>1. Start[i + 1] <= Start[m + 1]
      BY <1>7, <1>13, <2>1, <2>5
    <3>2. ~ (m < i)
      <4> SUFFICES ASSUME m < i PROVE FALSE
        OBVIOUS
      <4>1. Start[m + 1] <= Start[i] /\ Start[i + 1] = Start[i] + 3 + script[i].body
            /\ Start[i] \in Nat /\ Start[m + 1] \in Nat /\ script[i].body \in Nat
        BY <1>13, <2>5, Positions, ScriptType
      <4> QED BY <3>1, <4>1
    <3>3. CASE i = m
      <4>1. entry = [msg |-> i, whole |-> TRUE]
        BY <1>13, <2>5, <3>3 DEF entry
      <4>2. incoming.type \in Served
        BY <1>13, <2>5, <3>3 DEF PacketFollowsHeader
      <4> QED BY <1>6, <4>1, <4>2 DEF IsHandled
    <3>4. CASE i # m
      <4>1. i < m
        BY <1>13, <2>5, <3>2, <3>4, ScriptType DEF Messages
      <4>2. Start[i + 1] <= Start[m] /\ Start[m] \in Nat /\ Start[i + 1] \in Nat
        BY <1>13, <2>5, <4>1, Positions
      <4>3. IsRead(i)
        BY <1>13, <2>5, <3>4, <4>2 DEF IsRead, OnTrack
      <4> QED BY <2>3, <4>3 DEF HandlesEveryMessage
    <3> QED BY <3>3, <3>4
  <2> QED BY <2>4, <2>5
<1> QED BY <1>2, <1>3, <1>7, <1>16, <1>8, <1>11, <1>12, <1>14, <1>15

LEMMA NextIInv == IInv /\ [Next]_vars => IInv'
<1> SUFFICES ASSUME IInv, [Next]_vars PROVE IInv'
  OBVIOUS
<1> USE TypeFacts, Bounds DEF IInv
<1>1. rounds \in 0 .. LoopRounds /\ client \in {"sending", "left", "reset"}
      /\ status \in {"open", "UV_ENOBUFS", "UV_EOF", "UV_ECONNRESET"} /\ sent \in 0 .. Total
  BY DEF TypeOK
<1>2. CASE Segment
  <2>1. PICK p \in SegmentEnds(script) \cup {Total} : Deliver(p)
    BY <1>2 DEF Segment
  <2>2. /\ client = "sending" /\ sent < p /\ p <= Total /\ sent' = p
        /\ UNCHANGED << script, client, pos, status, rounds, incoming, handled, track >>
    BY <2>1 DEF Deliver
  <2>3. p \in Nat
    BY ReaderAssumption
  <2>4. TypeOK'
    BY <1>1, <2>2, <2>3, NothingReadType
  <2> QED BY <2>2, <2>4, NothingRead
<1>3. CASE Hangup
  <2>1. TypeOK'
    BY <1>1, <1>3, NothingReadType DEF Hangup
  <2> QED BY <1>3, <2>1, NothingRead, SameConversation DEF Hangup
<1>4. CASE Reset
  <2>1. TypeOK'
    BY <1>1, <1>4, NothingReadType DEF Reset
  <2> QED BY <1>4, <2>1, NothingRead DEF Reset
<1>5. CASE ReadNoMemory
  <2>1. TypeOK'
    BY <1>1, <1>5, NothingReadType DEF ReadNoMemory, Close
  <2> QED BY <1>5, <2>1, NothingRead, SameConversation DEF ReadNoMemory, Close
<1>6. CASE ReadNoBuffers
  <2>1. TypeOK'
    BY <1>1, <1>6, NothingReadType DEF ReadNoBuffers, Close
  <2> QED BY <1>6, <2>1, NothingRead, SameConversation DEF ReadNoBuffers, Close
<1>7. CASE ReadEof \/ ReadError
  <2>1. /\ status = "open" /\ status' \in {"UV_EOF", "UV_ECONNRESET"} /\ rounds' = 0
        /\ incoming' = Alloc /\ UNCHANGED << script, client, sent, pos, handled, track >>
    BY <1>7 DEF ReadEof, ReadError, Close, Round
  <2>2. TypeOK'
    BY <1>1, <2>1, NothingReadType
  <2> QED BY <2>1, <2>2, NothingRead, SameConversation
<1>8. CASE ReadAgain
  <2>1. TypeOK'
    BY <1>1, <1>8, NothingReadType DEF ReadAgain
  <2>2. status = "open" /\ status' = "open"
    BY <1>8 DEF ReadAgain, Round
  <2> QED BY <1>8, <2>1, <2>2, NothingRead, SameConversation DEF ReadAgain
<1>9. CASE ReadHeader
  BY <1>9, ReadHeaderKeeps
<1>10. CASE ReadBody
  BY <1>10, ReadBodyKeeps
<1>11. CASE UNCHANGED vars
  <2>1. UNCHANGED << script, client, sent, pos, status, rounds, incoming, handled, track >>
    BY <1>11 DEF vars
  <2>2. TypeOK'
    BY <1>1, <2>1, NothingReadType
  <2> QED BY <2>1, <2>2, NothingRead, SameConversation
<1> QED BY <1>2, <1>3, <1>4, <1>5, <1>6, <1>7, <1>8, <1>9, <1>10, <1>11 DEF Next, Read

LEMMA Invariance == Spec => []IInv
<1>1. Init => IInv
  BY InitIInv
<1>2. IInv /\ [Next]_vars => IInv'
  BY NextIInv
<1> QED BY <1>1, <1>2, PTL DEF Spec

\* The types of the state, of every packet and of every handled message
\* (server.c:38-85).
THEOREM TypeCorrectness == Spec => []TypeOK
<1>1. IInv => TypeOK
  BY DEF IInv
<1> QED BY <1>1, Invariance, PTL

\* No message is passed to a handler twice, or after a later one, however its
\* bytes are divided into reads and whatever misplaced bytes decode to: __on_read
\* drops the packet it handled (server.c:76-77).
THEOREM MessagesAreHandledOnce == Spec => []HandledOnceInOrder
<1>1. IInv => HandledOnceInOrder
  BY DEF IInv
<1> QED BY <1>1, Invariance, PTL

\* __alloc_buffer asks for exactly the body, if it is of no more than 32767 bytes
\* (server.c:104-110).
THEOREM BodiesGetTheirBuffer == Spec => []BufferFitsBody
<1>1. ASSUME IInv PROVE BufferFitsBody
  <2> SUFFICES ASSUME incoming.msg # 0, Tellable(script[incoming.msg])
               PROVE  BufferLen = script[incoming.msg].body
    BY DEF BufferFitsBody
  <2>1. incoming.msg \in Messages /\ script \in Scripts
    BY <1>1, TypeFacts DEF IInv
  <2>2. incoming # NoPacket /\ incoming.len = Length(script[incoming.msg])
    BY <1>1 DEF IInv, PacketFollowsHeader, NoPacket
  <2> QED BY <2>1, <2>2, BodyBuffer
<1> QED BY <1>1, Invariance, PTL

\* Each message that was read to its end, by reads that all filled their buffers,
\* has reached its handlers whole; and on that track the server itself closes the
\* connection only for want of memory between two messages, or at a message
\* without a body (server.c:38-110).
THEOREM MessagesOnTrackArrive == Spec => []HandlesEveryMessage
<1>1. IInv => HandlesEveryMessage
  BY DEF IInv
<1> QED BY <1>1, Invariance, PTL

-----------------------------------------------------------------------------
(* Reading a connection, as far as it stays on track, implements             *)
(* MessageStream.                                                           *)

\* The reader is before the message m, or in it with a packet for it.
AtMessage(m, p, q) == \/ p = Start[m] /\ q = 0
                      \/ p = Start[m] + 3 /\ q = m /\ m \in Messages

\* There, the messages before m were read.
LEMMA ReadUpTo ==
    ASSUME script \in Scripts, NEW m \in 1 .. Len(script) + 1, NEW p, NEW q,
           AtMessage(m, p, q)
    PROVE  /\ 1 .. m - 1 \subseteq Messages
           /\ \A j \in Messages : Start[j + 1] <= p /\ q # j <=> j \in 1 .. m - 1
<1> USE DEF AtMessage
<1>1. Len(script) \in Nat /\ Start[m] \in Nat
  BY ScriptType, StartNatural
<1>2. ASSUME NEW j \in Messages, j < m
      PROVE  Start[j + 1] <= p /\ q # j
  <2>1. j + 1 \in 1 .. Len(script) + 1 /\ j # 0 /\ j # m
    BY <1>1, <1>2 DEF Messages
  <2>2. Start[j + 1] = Start[j] + Length(script[j]) /\ Start[j] + Length(script[j]) <= Start[m]
    BY <1>2, StartSteps, StartGrows
  <2>3. Start[j + 1] \in Nat
    BY <2>1, StartNatural
  <2> QED BY <1>1, <2>1, <2>2, <2>3
<1>3. ASSUME NEW j \in Messages, ~ (j < m), Start[j + 1] <= p, q # j
      PROVE  FALSE
  <2>1. /\ Start[j + 1] \in Nat /\ Start[j] \in Nat /\ Start[j + 1] = Start[j] + 3 + script[j].body
        /\ script[j].body \in Nat
    BY Positions, ScriptType
  <2>2. CASE j = m
    BY <1>1, <1>3, <2>1, <2>2
  <2>3. CASE j # m
    <3>1. m \in Messages /\ m < j
      BY <1>1, <1>3, <2>3 DEF Messages
    <3>2. /\ Start[m] + Length(script[m]) <= Start[j] /\ Length(script[m]) \in Nat
      <4>1. j \in 1 .. Len(script) + 1
        BY <1>1 DEF Messages
      <4> QED BY <3>1, <4>1, StartGrows, ScriptType
    <3>3. Length(script[m]) >= 3
      BY <3>1, ScriptType, Bounds
    <3>4. Start[m] + 3 <= Start[j]
      BY SMTT(30), <1>1, <2>1, <3>2, <3>3
    <3>5. p <= Start[m] + 3 /\ p \in Nat
      BY <1>1
    <3>6. Start[j] + 3 <= Start[j + 1]
      BY <2>1
    <3>7. p < Start[j + 1]
      BY <1>1, <2>1, <3>4, <3>5, <3>6
    <3> QED BY <1>3, <2>1, <3>5, <3>7
  <2> QED BY <2>2, <2>3
<1>4. \A j \in 1 .. m - 1 : j \in Messages /\ j < m
  BY <1>1 DEF Messages
<1>5. \A j \in Messages : j < m <=> j \in 1 .. m - 1
  BY <1>1 DEF Messages
<1> QED BY <1>2, <1>3, <1>4, <1>5

LEMMA Taken ==
    ASSUME NEW k \in Nat
    PROVE  Cardinality(1 .. k) = k
BY FS_Interval

\* The messages taken and served.
TakenNow == {i \in Messages : IsRead(i)}
ServedNow == [k \in 1 .. track.handled |-> handled[k].msg]

\* A body that did not fill its buffer, or follows a read that did not.
LEMMA BodyOffTrack ==
    ASSUME IInv, ReadBody, ~ (OnTrack /\ Fills(Lesser(BufferLen, sent - pos)))
    PROVE  TakenNow' = TakenNow /\ ServedNow' = ServedNow
<1> DEFINE n == Lesser(BufferLen, sent - pos)
           m == incoming.msg
<1> USE TypeFacts DEF IInv
<1>1. /\ Consume(n) /\ incoming' = NoPacket /\ incoming # NoPacket /\ BufferLen > 0
      /\ handled' = HandlePacket(n)
  BY DEF ReadBody
<1>2. track' = track /\ UNCHANGED script /\ incoming'.msg = 0
  BY <1>1 DEF Consume, OnTrack, NoPacket
<1>3. TakenNow' = TakenNow
  <2>1. TakenNow' = {j \in Messages : Start[j + 1] <= track.pos /\ 0 # j}
    BY <1>2, SameConversation DEF TakenNow, IsRead
  <2>2. TakenNow = {j \in Messages : Start[j + 1] <= track.pos /\ m # j}
    BY DEF TakenNow, IsRead
  <2>3. ASSUME NEW j \in Messages, Start[j + 1] <= track.pos, m = j
        PROVE  FALSE
    <3>1. OnTrack /\ script[m].body = 0
      BY <2>3, PacketIsAhead, ScriptType
    <3>2. BufferLen = 0
      BY <1>1, <2>3, <3>1, BodyBuffer DEF PacketFollowsHeader, Tellable
    <3> QED BY <1>1, <3>2
  <2> QED BY <2>1, <2>2, <2>3
<1>4. ServedNow' = ServedNow
  <2> DEFINE entry == [msg |-> m, whole |-> m # 0 /\ n = script[m].body]
             Entries == [msg : Messages \cup {0}, whole : BOOLEAN]
  <2>1. entry \in Entries /\ handled \in Seq(Entries)
    BY DEF TypeOK
  <2>2. handled' = Append(handled, entry) \/ handled' = handled
    BY <1>1 DEF HandlePacket
  <2> HIDE DEF entry, Entries
  <2>3. \A k \in 1 .. Len(handled) : handled'[k] = handled[k]
    BY <2>1, <2>2, AppendFacts
  <2>4. \A k \in 1 .. track.handled : handled'[k] = handled[k]
    BY <2>3
  <2> QED BY <1>2, <2>4 DEF ServedNow
<1> QED BY <1>3, <1>4

LEMMA Standstill ==
    ASSUME IInv, [Next]_vars,
           ~ (ReadBody /\ OnTrack /\ Fills(Lesser(BufferLen, sent - pos)))
    PROVE  UNCHANGED script /\ TakenNow' = TakenNow /\ ServedNow' = ServedNow
<1> USE TypeFacts DEF IInv
<1>1. CASE ReadBody
  BY <1>1, BodyOffTrack DEF ReadBody, Consume
<1>2. CASE ReadHeader
  <2>1. UNCHANGED << script, handled >>
    BY <1>2 DEF ReadHeader, Consume
  <2>2. TakenNow' = TakenNow
    BY <2>1, <1>2, SameConversation, HeaderEndsNothing DEF TakenNow
  <2>3. track'.handled = track.handled
    <3>1. PICK n \in 1 .. 3 : Consume(n)
      BY <1>2, HeaderRound
    <3> QED BY <2>1, <3>1 DEF Consume, OnTrack
  <2> QED BY <2>1, <2>2, <2>3 DEF ServedNow
<1>3. CASE ~ ReadBody /\ ~ ReadHeader
  <2>1. /\ UNCHANGED << script, handled, track >>
        /\ incoming' = incoming \/ incoming' = Alloc
    BY <1>3 DEF Next, Segment, Deliver, Hangup, Reset, Read, ReadNoMemory, ReadNoBuffers,
                ReadEof, ReadError, ReadAgain, Close, vars
  <2>2. incoming'.msg = incoming.msg
    BY <2>1, AllocFacts DEF NoPacket
  <2> QED BY <2>1, <2>2, SameConversation DEF TakenNow, ServedNow, IsRead
<1> QED BY <1>1, <1>2, <1>3

\* PacketReader implements MessageStream: as long as the reads fill their buffers
\* the messages are taken one by one, in the order they were sent, and each that
\* has handlers is passed to them as it is taken (server.c:38-85, 158-175 of
\* packet.h).
THEOREM Refinement == Spec => StreamSpec
<1> DEFINE taken == Cardinality(TakenNow)
           served == ServedNow
<1>1. ASSUME Init PROVE Stream!Init
  <2> USE <1>1
  <2>1. IInv
    BY InitIInv
  <2>2. TakenNow = {}
    <3>1. 1 \in 1 .. Len(script) + 1 /\ AtMessage(1, track.pos, incoming.msg)
      BY <2>1, TypeFacts, ScriptType, StartSteps DEF IInv, Init, NoPacket, AtMessage
    <3>2. \A j \in Messages : Start[j + 1] <= track.pos /\ incoming.msg # j <=> j \in 1 .. 1 - 1
      BY <2>1, <3>1, TypeFacts, ReadUpTo DEF IInv
    <3> QED BY <3>2 DEF TakenNow, IsRead
  <2>3. taken = 0
    BY <2>2, FS_EmptySet
  <2>4. served = << >>
    BY DEF ServedNow, Init
  <2>5. script \in Scripts
    BY DEF Init
  <2> QED BY <2>3, <2>4, <2>5 DEF Stream!Init, TakenNow, ServedNow
<1>2. ASSUME IInv, [Next]_vars PROVE [Stream!Take]_<< script, taken, served >>
  <2> USE <1>2
  <2> DEFINE n == Lesser(BufferLen, sent - pos)
  <2>1. CASE ~ (ReadBody /\ OnTrack /\ Fills(n))
    BY <2>1, Standstill
  <2>2. CASE ReadBody /\ OnTrack /\ Fills(n)
    <3> USE TypeFacts DEF IInv
    <3> DEFINE m == incoming.msg
    <3>1. /\ n \in Nat /\ n > 0 /\ n <= sent - pos /\ Consume(n) /\ incoming # NoPacket
          /\ incoming' = NoPacket /\ handled' = HandlePacket(n)
      BY <2>2 DEF ReadBody, Lesser
    <3>2. /\ m \in Messages /\ n = script[m].body /\ pos = Start[m] + 3
          /\ pos + n = Start[m + 1] /\ incoming.type = script[m].type
      BY <2>2, <3>1, RoundOnTrack DEF PacketFollowsHeader
    <3>3. /\ UNCHANGED script /\ incoming'.msg = 0 /\ track.pos = pos
          /\ track' = [pos |-> Start[m + 1], handled |-> Len(handled')]
          /\ track.handled = Len(handled)
      BY <2>2, <3>1, <3>2 DEF Consume, OnTrack, NoPacket
    <3>4. /\ Len(script) \in Nat /\ m \in 1 .. Len(script) + 1 /\ m + 1 \in 1 .. Len(script) + 1
          /\ m - 1 \in Nat /\ m \in Nat /\ m <= Len(script)
      <4>1. script \in Scripts
        BY TypeFacts
      <4>2. Len(script) \in Nat
        BY <4>1, ScriptType
      <4>3. \A k \in 1 .. Len(script) :
               /\ k \in 1 .. Len(script) + 1 /\ k + 1 \in 1 .. Len(script) + 1
               /\ k - 1 \in Nat /\ k \in Nat /\ k <= Len(script)
        BY <4>2, SMT
      <4> QED BY <3>2, <4>2, <4>3 DEF Messages
    <3>5. TakenNow = 1 .. m - 1
      <4>1. TakenNow = {j \in Messages : Start[j + 1] <= pos /\ incoming.msg # j}
        BY <3>3 DEF TakenNow, IsRead
      <4>2. AtMessage(m, pos, incoming.msg)
        BY <3>2 DEF AtMessage
      <4> QED BY <3>4, <4>1, <4>2, ReadUpTo
    <3>6. TakenNow' = 1 .. m
      <4>1. TakenNow' = {j \in Messages : Start[j + 1] <= track'.pos /\ incoming'.msg # j}
        BY <3>3, SameConversation DEF TakenNow, IsRead
      <4>2. PICK k \in 1 .. Len(script) + 1 : k = m + 1
        BY <3>4
      <4>3. AtMessage(k, track'.pos, incoming'.msg)
        BY <3>3, <4>2 DEF AtMessage
      <4>4. TakenNow' = 1 .. k - 1
        BY <4>1, <4>3, ReadUpTo
      <4> QED BY <3>4, <4>2, <4>4
    <3>7. taken = m - 1 /\ taken' = m
      BY <3>4, <3>5, <3>6, Taken
    <3>8. ServedNow' = IF script[m].type \in Served THEN Append(ServedNow, m) ELSE ServedNow
      <4> DEFINE entry == [msg |-> m, whole |-> m # 0 /\ n = script[m].body]
                 Entries == [msg : Messages \cup {0}, whole : BOOLEAN]
      <4>1. \/ script[m].type \in Served /\ handled' = Append(handled, entry)
            \/ script[m].type \notin Served /\ handled' = handled
        BY <3>1, <3>2 DEF HandlePacket
      <4>2. entry \in Entries /\ handled \in Seq(Entries) /\ entry.msg = m
        BY DEF TypeOK
      <4>3. CASE script[m].type \in Served
        <5> HIDE DEF entry, Entries, n, m
        <5>1. /\ Len(handled') = Len(handled) + 1 /\ Len(handled) \in Nat
              /\ \A k \in 1 .. Len(handled) : handled'[k] = handled[k]
              /\ handled'[Len(handled) + 1] = entry
          BY SMTT(30), <4>1, <4>2, <4>3, AppendFacts
        <5>2. /\ ServedNow = [k \in 1 .. Len(handled) |-> handled[k].msg]
              /\ ServedNow' = [k \in 1 .. Len(handled) + 1 |-> handled'[k].msg]
          BY <3>3, <5>1 DEF ServedNow
        <5>3. ServedNow' = Append(ServedNow, m)
          BY <4>2, <5>1, <5>2
        <5> QED BY <4>3, <5>3
      <4>4. CASE script[m].type \notin Served
        BY <3>3, <4>1, <4>4 DEF ServedNow
      <4> QED BY <4>3, <4>4
    <3>9. taken < Len(script) /\ taken' = taken + 1 /\ taken + 1 = m
      BY <3>4, <3>7
    <3> HIDE DEF taken
    <3>10. served' = IF script[taken + 1].type \in Served
                     THEN Append(served, taken + 1) ELSE served
      BY <3>8, <3>9
    <3> QED BY <3>3, <3>9, <3>10 DEF Stream!Take, taken, TakenNow, ServedNow
  <2> QED BY <2>1, <2>2
<1> QED BY <1>1, <1>2, Invariance, PTL
        DEF Spec, StreamSpec, Stream!Spec, TakenNow, ServedNow

=============================================================================
