----------------------------- MODULE SessionProofs -----------------------------
(***************************************************************************)
(* Theorems about Session, for any number of memory cells, any message     *)
(* types the server handles, and any order and number of messages.         *)
(***************************************************************************)
EXTENDS Session, DataProofs

-----------------------------------------------------------------------------
(* The memory of a player between two callbacks, and within one. *)

FlatHeap(h) == /\ h \in Heaps
               /\ \A c \in Cells : \/ h[c] = Free
                                   \/ h[c].in = "player" /\ h[c].is \in {"text", "reply"}

\* What was allocated in h is still there in h2.
Grows(h, h2) == FlatHeap(h2) /\ \A c \in Cells : h[c] # Free => h2[c] = h[c]

\* The heap g is h with the packet k below the player, and the cells of S below it
\* at most two levels deep.
InPacket(g, h, k, S) ==
    /\ g \in Heaps /\ k \in Cells /\ S \subseteq Cells /\ k \notin S
    /\ g[k] = [is |-> "packet", in |-> "player"]
    /\ \A c \in S \cup {k} : h[c] = Free
    /\ \A c \in Cells \ (S \cup {k}) : g[c] = h[c]
    /\ \A c \in S : /\ g[c].is # "free"
                    /\ g[c].in = k \/ (g[c].in \in S /\ g[g[c].in].in = k)

LEMMA FlatIsSound ==
    ASSUME NEW h, FlatHeap(h)
    PROVE  Sound(h)
BY TallocAssumption DEF FlatHeap, Sound, Free

LEMMA PacketIsSound ==
    ASSUME NEW g, NEW h, NEW k, NEW S, FlatHeap(h), InPacket(g, h, k, S)
    PROVE  Sound(g)
<1> USE DEF InPacket
<1>1. g \in Heaps
  OBVIOUS
<1>2. ASSUME NEW c \in Cells, g[c].is = "free" PROVE g[c] = Free
  <2>1. c \notin S \cup {k}
    BY <1>2
  <2> QED BY <1>2, <2>1 DEF FlatHeap
<1>3. ASSUME NEW c \in Cells, g[c].is # "free"
      PROVE  g[c].in \notin Cells \/ g[g[c].in].is # "free"
  <2>1. CASE c \in S
    BY <2>1
  <2>2. CASE c = k
    BY <2>2, TallocAssumption
  <2>3. CASE c \notin S \cup {k}
    BY <1>3, <2>3, TallocAssumption DEF FlatHeap, Free
  <2> QED BY <2>1, <2>2, <2>3
<1> QED BY <1>1, <1>2, <1>3 DEF Sound

\* Freeing the packet leaves h.
LEMMA FreePacketLeaves ==
    ASSUME NEW g, NEW h, NEW k, NEW S, FlatHeap(h), InPacket(g, h, k, S)
    PROVE  TallocFree(g, k) = h
<1> USE DEF InPacket
<1>1. S \subseteq Subtree(g, k)
  <2>1. ASSUME NEW c \in S, g[c].in = k PROVE c \in Subtree(g, k)
    BY <2>1, SubtreeHasRoot, SubtreeHasChildren
  <2>2. ASSUME NEW c \in S, g[c].in \in S, g[g[c].in].in = k PROVE c \in Subtree(g, k)
    <3>1. g[c].in \in Subtree(g, k)
      BY <2>1, <2>2
    <3> QED BY <3>1, SubtreeHasChildren
  <2> QED BY <2>1, <2>2
<1>2. \A d \in Cells : h[d].is # "free" => h[d].in \notin S \cup {k}
  BY TallocAssumption DEF FlatHeap, Free
<1>3. Adds(g, h, k, S)
  BY <1>1, <1>2 DEF Adds, FlatHeap
<1> QED BY <1>3, FreeUndoes

\* The packet as __alloc_buffer makes it.
LEMMA NewPacket ==
    ASSUME NEW h, FlatHeap(h), NEW new, Gives(new, h, "packet", "player"), new.cell # NoCell
    PROVE  new.cell \in Cells /\ InPacket(new.heap, h, new.cell, {})
<1>1. PICK k \in Cells : /\ new.cell = k /\ h[k].is = "free"
                         /\ new.heap = [h EXCEPT ![k] = [is |-> "packet", in |-> "player"]]
  BY DEF Gives
<1>2. h[k] = Free /\ h \in Heaps
  BY <1>1 DEF FlatHeap
<1>3. new.heap \in Heaps
  BY <1>1, <1>2 DEF Heaps, Kinds
<1>4. \A d \in Cells : new.heap[d] = IF d = k THEN [is |-> "packet", in |-> "player"] ELSE h[d]
  BY <1>1, <1>2 DEF Heaps
<1> QED BY <1>1, <1>2, <1>3, <1>4 DEF InPacket

\* The packet k as its Read function leaves it: as it was in g, or with a body, and
\* perhaps a text.
ReadInto(r, h, g, k, hasText, noText) ==
    \/ r.res \in {"error", noText} /\ r.heap = g
    \/ /\ r.res = "ok"
       /\ \E S : InPacket(r.heap, h, k, S)
       /\ hasText => \E b \in Cells : /\ r.text \in Cells /\ b # r.text
                                      /\ InPacket(r.heap, h, k, {b, r.text})
                                      /\ r.heap[r.text] = [is |-> "text", in |-> b]
                                      /\ r.heap[b] = [is |-> "body", in |-> k]

LEMMA ReadPacket ==
    ASSUME NEW h, FlatHeap(h), NEW g, NEW k, InPacket(g, h, k, {}),
           NEW hasText \in BOOLEAN, NEW noText \in {"error", "crash"},
           NEW r, r = ReadFunction(g, k, hasText, noText)
    PROVE  ReadInto(r, h, g, k, hasText, noText)
<1> USE DEF ReadInto
<1>1. Sound(g) /\ k \in Cells /\ g[k].is # "free" /\ g \in Heaps
  <2>1. Sound(g)
    BY PacketIsSound
  <2> QED BY <2>1 DEF InPacket
<1>2. \/ r.res \in {"error", noText} /\ r.heap = g
      \/ /\ r.res = "ok" /\ ~ hasText /\ r.text = NoCell
         /\ \E b \in Cells : g[b] = Free /\ r.heap = WithBody(g, k, b)
      \/ /\ r.res = "ok" /\ hasText
         /\ \E b, x \in Cells : /\ b # x /\ g[b] = Free /\ g[x] = Free /\ r.text = x
                                /\ r.heap = WithText(g, k, b, x)
  BY <1>1, ReadFunctionLeaves
<1>3. ASSUME NEW b \in Cells, g[b] = Free, r.heap = WithBody(g, k, b), ~ hasText
      PROVE  InPacket(r.heap, h, k, {b})
  <2>1. \A d \in Cells : r.heap[d] = IF d = b THEN [is |-> "body", in |-> k] ELSE g[d]
    BY <1>1, <1>3 DEF WithBody, Heaps
  <2>2. r.heap \in Heaps
    BY <1>1, <1>3 DEF WithBody, Heaps, Kinds
  <2>3. b # k
    BY <1>1, <1>3 DEF Free
  <2> QED BY <1>3, <2>1, <2>2, <2>3 DEF InPacket
<1>4. ASSUME NEW b \in Cells, NEW x \in Cells, b # x, g[b] = Free, g[x] = Free,
             r.heap = WithText(g, k, b, x)
      PROVE  /\ InPacket(r.heap, h, k, {b, x})
             /\ r.heap[x] = [is |-> "text", in |-> b]
             /\ r.heap[b] = [is |-> "body", in |-> k]
  <2>1. \A d \in Cells : r.heap[d] = IF d = b THEN [is |-> "body", in |-> k]
                                     ELSE IF d = x THEN [is |-> "text", in |-> b] ELSE g[d]
    BY <1>1, <1>4 DEF WithText, Heaps
  <2>2. r.heap \in Heaps
    BY <1>1, <1>4 DEF WithText, Heaps, Kinds
  <2>3. b # k /\ x # k
    BY <1>1, <1>4 DEF Free
  <2>4. InPacket(r.heap, h, k, {b, x})
    BY <1>4, <2>1, <2>2, <2>3 DEF InPacket
  <2> QED BY <1>4, <2>1, <2>4
<1> QED BY ZenonT(30), <1>2, <1>3, <1>4

-----------------------------------------------------------------------------
(* What the handlers leave. *)

\* A text is allocated right below the player while the packet is there.
LEMMA TextBesidePacket ==
    ASSUME NEW h, FlatHeap(h), NEW g, NEW k, NEW S, InPacket(g, h, k, S),
           NEW new, Gives(new, g, "text", "player")
    PROVE  \E h2 : /\ Grows(h, h2) /\ TallocFree(new.heap, k) = h2
                   /\ \/ new.cell = NoCell
                      \/ /\ new.cell \in Cells /\ h[new.cell] = Free
                         /\ h2[new.cell] = [is |-> "text", in |-> "player"]
<1>1. CASE new.cell = NoCell
  <2>1. new.heap = g
    BY <1>1 DEF Gives
  <2>2. TallocFree(new.heap, k) = h
    BY <2>1, FreePacketLeaves
  <2> QED BY <1>1, <2>2 DEF Grows
<1>2. CASE new.cell # NoCell
  <2>1. PICK y \in Cells : /\ new.cell = y /\ g[y].is = "free"
                          /\ new.heap = [g EXCEPT ![y] = [is |-> "text", in |-> "player"]]
    BY <1>2 DEF Gives
  <2>2. y \notin S \cup {k} /\ g[y] = h[y]
    BY <2>1 DEF InPacket
  <2>3. h[y] = Free /\ h \in Heaps /\ g \in Heaps
    BY <2>1, <2>2 DEF FlatHeap, InPacket
  <2> DEFINE h2 == [h EXCEPT ![y] = [is |-> "text", in |-> "player"]]
  <2>4. \A d \in Cells : h2[d] = IF d = y THEN [is |-> "text", in |-> "player"] ELSE h[d]
    BY <2>3 DEF Heaps
  <2>5. h2 \in Heaps
    BY <2>3 DEF Heaps, Kinds
  <2>6. \A d \in Cells : new.heap[d] = IF d = y THEN [is |-> "text", in |-> "player"] ELSE g[d]
    BY <2>1, <2>3 DEF Heaps
  <2>7. new.heap \in Heaps
    BY <2>1, <2>3 DEF Heaps, Kinds
  <2> HIDE DEF h2
  <2>8. Grows(h, h2)
    BY <2>3, <2>4, <2>5 DEF Grows, FlatHeap
  <2>9. InPacket(new.heap, h2, k, S)
    BY <2>2, <2>4, <2>6, <2>7 DEF InPacket
  <2>10. TallocFree(new.heap, k) = h2
    BY <2>8, <2>9, FreePacketLeaves DEF Grows
  <2> QED BY <2>1, <2>3, <2>4, <2>8, <2>10
<1> QED BY <1>1, <1>2

\* The text of the packet is stolen to the player.
LEMMA TextLeavesPacket ==
    ASSUME NEW h, FlatHeap(h), NEW g, NEW k, NEW b \in Cells, NEW x \in Cells, b # x,
           InPacket(g, h, k, {b, x}), g[x] = [is |-> "text", in |-> b],
           g[b] = [is |-> "body", in |-> k]
    PROVE  \E h2 : /\ Grows(h, h2) /\ TallocFree(TallocSteal(g, "player", x), k) = h2
                   /\ h[x] = Free /\ h2[x] = [is |-> "text", in |-> "player"]
<1>1. h \in Heaps /\ g \in Heaps /\ h[x] = Free /\ h[b] = Free /\ x # k /\ b # k
  BY DEF FlatHeap, InPacket
<1> DEFINE h2 == [h EXCEPT ![x] = [is |-> "text", in |-> "player"]]
           g2 == TallocSteal(g, "player", x)
<1>2. \A d \in Cells : h2[d] = IF d = x THEN [is |-> "text", in |-> "player"] ELSE h[d]
  BY <1>1 DEF Heaps
<1>3. h2 \in Heaps
  BY <1>1 DEF Heaps, Kinds
<1>4. g2 \in Heaps /\ \A d \in Cells : g2[d] = IF d = x THEN [is |-> "text", in |-> "player"] ELSE g[d]
  BY <1>1, StealCell
<1> HIDE DEF h2, g2
<1>5. Grows(h, h2)
  BY <1>1, <1>2, <1>3 DEF Grows, FlatHeap
<1>6. InPacket(g2, h2, k, {b})
  BY <1>1, <1>2, <1>4 DEF InPacket
<1>7. TallocFree(g2, k) = h2
  BY <1>5, <1>6, FreePacketLeaves DEF Grows
<1> QED BY <1>1, <1>2, <1>5, <1>7 DEF g2

\* An answer that is made and freed, or not made at all, leaves nothing.
LEMMA AnswerIsFreed ==
    ASSUME NEW g, Sound(g), NEW a, a = continue_connecting_new(g, "player")
    PROVE  /\ a.ok \in BOOLEAN
           /\ IF a.ok THEN TallocFree(a.heap, a.reply) = g ELSE a.heap = g
<1>1. a = NewFunction(g, "player", TRUE, "none", TRUE)
  BY DEF continue_connecting_new
<1>2. CASE a.ok = FALSE /\ a.heap = g
  BY <1>2
<1>3. ASSUME a.ok = TRUE, NEW p \in Cells, NEW b \in Cells, g[p] = Free, g[b] = Free, b # p,
             a.reply = p, a.heap = WithReply(g, "player", p, b, NoCell, "none")
      PROVE  TallocFree(a.heap, p) = g
  <2>1. g \in Heaps
    BY DEF Sound
  <2>2. \A d \in Cells : a.heap[d] = IF d = p THEN [is |-> "reply", in |-> "player"]
                                     ELSE IF d = b THEN [is |-> "body", in |-> p] ELSE g[d]
    BY <1>3, TallocAssumption DEF WithReply
  <2>3. b \in Subtree(a.heap, p)
    BY <1>3, <2>2, SubtreeHasRoot, SubtreeHasChildren
  <2>4. \A d \in Cells : g[d].is # "free" => g[d].in \notin {b} \cup {p}
    BY <1>3, FreeHasNoChildren DEF Free
  <2>5. Adds(a.heap, g, p, {b})
    BY <1>3, <2>1, <2>2, <2>3, <2>4 DEF Adds
  <2> QED BY <2>5, FreeUndoes
<1>4. CASE ~ (a.ok = FALSE /\ a.heap = g)
  <2>1. /\ a.ok = TRUE
        /\ \E p, b \in Cells, x \in Cells \cup {NoCell} :
              /\ g[p] = Free /\ g[b] = Free /\ b # p /\ x = NoCell /\ a.reply = p
              /\ a.heap = WithReply(g, "player", p, b, x, "none")
    <3>1. WholeOrNothing(a, g, "player", TRUE, "none", TRUE)
      BY <1>1, NewFunctionLeaves
    <3> QED BY <1>4, <3>1 DEF WholeOrNothing
  <2> QED BY <1>3, <2>1
<1> QED BY <1>2, <1>4

\* The last message of the handshake stays below the player.
LEMMA CompleteBesidePacket ==
    ASSUME NEW h, FlatHeap(h), NEW g, NEW k, NEW S, InPacket(g, h, k, S),
           NEW a, a = connection_complete_new(g, "player")
    PROVE  \E h2 : Grows(h, h2) /\ TallocFree(a.heap, k) = h2
<1>1. a = NewFunction(g, "player", FALSE, "none", TRUE) /\ Sound(g)
  BY PacketIsSound DEF connection_complete_new
<1>2. WholeOrNothing(a, g, "player", FALSE, "none", TRUE)
  BY <1>1, NewFunctionLeaves
<1>3. CASE a.heap = g
  BY <1>3, FreePacketLeaves DEF Grows
<1>4. ASSUME NEW p \in Cells, g[p] = Free, a.heap = WithReply(g, "player", p, p, NoCell, "none")
      PROVE  \E h2 : Grows(h, h2) /\ TallocFree(a.heap, k) = h2
  <2>1. p \notin S \cup {k} /\ h[p] = Free
    BY <1>4 DEF InPacket, Free
  <2> DEFINE h2 == [h EXCEPT ![p] = [is |-> "reply", in |-> "player"]]
  <2>2. h \in Heaps /\ g \in Heaps
    BY DEF FlatHeap, InPacket
  <2>3. \A d \in Cells : h2[d] = IF d = p THEN [is |-> "reply", in |-> "player"] ELSE h[d]
    BY <2>2 DEF Heaps
  <2>4. h2 \in Heaps
    BY <2>2 DEF Heaps, Kinds
  <2>5. \A d \in Cells : a.heap[d] = IF d = p THEN [is |-> "reply", in |-> "player"] ELSE g[d]
    BY <1>4, TallocAssumption DEF WithReply
  <2>6. a.heap \in Heaps
    <3>1. a.heap = [d \in Cells |-> a.heap[d]]
      BY <1>4 DEF WithReply
    <3>2. \A d \in Cells : a.heap[d] \in [is : Kinds, in : Cells \cup {"player", "server", "top"}]
      BY <2>2, <2>5 DEF Heaps, Kinds
    <3> QED BY <3>1, <3>2 DEF Heaps
  <2> HIDE DEF h2
  <2>7. Grows(h, h2)
    BY <2>1, <2>3, <2>4 DEF Grows, FlatHeap
  <2>8. InPacket(a.heap, h2, k, S)
    BY <2>1, <2>3, <2>5, <2>6 DEF InPacket
  <2>9. TallocFree(a.heap, k) = h2
    BY <2>7, <2>8, FreePacketLeaves DEF Grows
  <2> QED BY <2>7, <2>9
<1> QED BY <1>2, <1>3, <1>4 DEF WholeOrNothing

-----------------------------------------------------------------------------
(* The inductive invariant. *)

LEMMA FlatState ==
    TypeOK /\ Flat <=> TypeOK /\ FlatHeap(heap)
BY DEF TypeOK, Flat, FlatHeap

\* The strings stay owned where a text that a handler keeps was free before.
NewText(h2, cell) == \/ cell = NoCell
                     \/ /\ cell \in Cells /\ heap[cell] = Free
                        /\ h2[cell] = [is |-> "text", in |-> "player"]

LEMMA StringsStayOwned ==
    ASSUME IInv, Grows(heap, heap'), TypeOK', open' = open, open = TRUE, StatsFollowClient',
           \/ name' = name /\ uuid' = uuid
           \/ NewText(heap', name') /\ uuid' = uuid
           \/ NewText(heap', uuid') /\ name' = name
    PROVE  IInv'
<1> USE DEF IInv
<1>1. Flat'
  BY DEF Grows, Flat, FlatHeap
<1>2. StringsAreOwned'
  <2>1. \A s \in {name, uuid} \ {NoCell} :
           s \in Cells /\ heap[s] = [is |-> "text", in |-> "player"] /\ heap[s] # Free
                       /\ heap'[s] = heap[s]
    BY DEF StringsAreOwned, TypeOK, Grows, Free
  <2>2. CASE name' = name /\ uuid' = uuid
    BY <2>1, <2>2 DEF StringsAreOwned
  <2>3. CASE NewText(heap', name') /\ uuid' = uuid
    <3>1. \A s \in {name', uuid'} \ {NoCell} : heap'[s] = [is |-> "text", in |-> "player"]
      BY <2>1, <2>3 DEF NewText
    <3>2. name' # NoCell => name' # uuid'
      BY <2>1, <2>3 DEF NewText
    <3> QED BY <3>1, <3>2 DEF StringsAreOwned
  <2>4. CASE NewText(heap', uuid') /\ name' = name
    <3>1. \A s \in {name', uuid'} \ {NoCell} : heap'[s] = [is |-> "text", in |-> "player"]
      BY <2>1, <2>4 DEF NewText
    <3>2. name' # NoCell => name' # uuid'
      BY <2>1, <2>4 DEF NewText
    <3> QED BY <3>1, <3>2 DEF StringsAreOwned
  <2> QED BY <2>2, <2>3, <2>4
<1>3. ClosedIsEmpty'
  BY DEF ClosedIsEmpty
<1> QED BY <1>1, <1>2, <1>3

\* The fields a handler sets are those its message is about.
ToldBy(type, value) == told' = [f \in Fields |-> IF f \in FieldsOf(type) THEN value ELSE told[f]]

\* A handler that only frees the packet, and may set a field.
LEMMA QuietHandler ==
    ASSUME IInv, open, open' = open, up' = up,
           NEW g, NEW k, NEW S, InPacket(g, heap, k, S), heap' = TallocFree(g, k),
           UNCHANGED << name, uuid, joins >>, fields' \in [Fields -> Values],
           told' \in [Fields -> Values], StatsFollowClient'
    PROVE  IInv'
<1>1. FlatHeap(heap)
  BY FlatState DEF IInv
<1>2. heap' = heap
  BY <1>1, FreePacketLeaves
<1>3. TypeOK'
  BY <1>2 DEF IInv, TypeOK
<1>4. open = TRUE
  BY DEF IInv, TypeOK
<1> QED BY <1>1, <1>2, <1>3, <1>4, StringsStayOwned DEF Grows

LEMMA HandleKeeps ==
    ASSUME IInv, open, open' = open, up' = up,
           NEW type \in Types, NEW value \in Values, NEW version,
           NEW g, NEW k, NEW S, InPacket(g, heap, k, S), NEW text,
           type = CLIENT_UUID =>
              \E b \in Cells : /\ text \in Cells /\ b # text /\ InPacket(g, heap, k, {b, text})
                              /\ g[text] = [is |-> "text", in |-> b]
                              /\ g[b] = [is |-> "body", in |-> k],
           Handle([type |-> type, value |-> value, version |-> version,
                   packet |-> k, text |-> text], g),
           ToldBy(type, value)
    PROVE  IInv'
<1> DEFINE m == [type |-> type, value |-> value, version |-> version, packet |-> k, text |-> text]
<1> USE DEF IInv
<1>1. FlatHeap(heap) /\ Sound(g) /\ g \in Heaps
  <2>1. FlatHeap(heap)
    BY FlatState
  <2>2. Sound(g)
    BY <2>1, PacketIsSound
  <2> QED BY <2>1, <2>2 DEF InPacket
<1>2. /\ fields \in [Fields -> Values] /\ told \in [Fields -> Values]
      /\ told' \in [Fields -> Values] /\ joins \in 0 .. MaxJoins
      /\ open = TRUE /\ name \in Cells \cup {NoCell} /\ uuid \in Cells \cup {NoCell}
  BY DEF TypeOK, ToldBy
<1>3. \A f \in {"stats", "life", "mana"} : f \in Fields /\ fields[f] = told[f]
  BY DEF StatsFollowClient, Fields
<1>4. \A f \in Fields : told'[f] = IF f \in FieldsOf(type) THEN value ELSE told[f]
  BY DEF ToldBy
<1> USE DEF CONNECT_REQUEST, PLAYER_INFO, INVENTORY_SLOT, GET_SECTION, CHAT_MESSAGE, PLAYER_HP,
            PLAYER_MANA, CLIENT_UUID, DISCONNECT
<1>5. ASSUME FreePacket(m, g), UNCHANGED << name, uuid, fields, joins >>,
             type \notin {PLAYER_INFO, PLAYER_HP, PLAYER_MANA}
      PROVE  IInv'
  <2>1. FieldsOf(type) \cap {"stats", "life", "mana"} = {}
    BY <1>5 DEF FieldsOf
  <2>2. StatsFollowClient'
    BY <1>3, <1>4, <1>5, <2>1 DEF StatsFollowClient
  <2> QED BY <1>2, <1>5, <2>2, QuietHandler DEF FreePacket
<1>6. ASSUME type = CONNECT_REQUEST, ConnectRequestHandle(m, g) PROVE IInv'
  <2> DEFINE answer == continue_connecting_new(g, "player")
  <2>1. /\ answer.ok \in BOOLEAN
        /\ IF answer.ok THEN TallocFree(answer.heap, answer.reply) = g ELSE answer.heap = g
    BY <1>1, AnswerIsFreed
  <2>2. /\ FreePacket(m, IF m.version = "other" THEN g
                         ELSE IF answer.ok THEN TallocFree(answer.heap, answer.reply)
                         ELSE answer.heap)
        /\ UNCHANGED << name, uuid, fields, joins >>
    BY <1>6 DEF ConnectRequestHandle
  <2> HIDE DEF answer
  <2>3. FreePacket(m, g)
    BY <2>1, <2>2
  <2> QED BY <1>5, <1>6, <2>2, <2>3
<1>7. ASSUME type = PLAYER_INFO, PlayerInfoHandle(m, g) PROVE IInv'
  <2> DEFINE copy == TallocNew(g, "text", "player")
  <2>1. Gives(copy, g, "text", "player")
    BY TallocNewGives
  <2>2. /\ heap' = TallocFree(copy.heap, k) /\ name' = copy.cell
        /\ fields' = [fields EXCEPT !["stats"] = value]
        /\ UNCHANGED << uuid, joins >>
    BY <1>7 DEF PlayerInfoHandle, FreePacket
  <2> HIDE DEF copy
  <2>3. PICK h2 : /\ Grows(heap, h2) /\ TallocFree(copy.heap, k) = h2
                  /\ \/ copy.cell = NoCell
                     \/ /\ copy.cell \in Cells /\ heap[copy.cell] = Free
                        /\ h2[copy.cell] = [is |-> "text", in |-> "player"]
    BY <1>1, <2>1, TextBesidePacket
  <2>4. NewText(heap', name') /\ Grows(heap, heap')
    BY <2>2, <2>3 DEF NewText
  <2>5. FieldsOf(type) = {"stats", "skin"}
    BY <1>7 DEF FieldsOf
  <2>6. StatsFollowClient'
    BY <1>2, <1>3, <1>4, <2>2, <2>5 DEF StatsFollowClient, Fields
  <2>7. TypeOK'
    <3>1. heap' \in Heaps /\ name' \in Cells \cup {NoCell} /\ fields' \in [Fields -> Values]
      BY <1>2, <2>2, <2>4 DEF Grows, FlatHeap, NewText
    <3> QED BY <1>2, <2>2, <3>1 DEF TypeOK
  <2> QED BY <1>2, <2>2, <2>4, <2>6, <2>7, StringsStayOwned
<1>8. ASSUME type = CLIENT_UUID, ClientUuidHandle(m, g) PROVE IInv'
  <2>1. PICK b \in Cells : /\ text \in Cells /\ b # text /\ InPacket(g, heap, k, {b, text})
                          /\ g[text] = [is |-> "text", in |-> b]
                          /\ g[b] = [is |-> "body", in |-> k]
    BY <1>8
  <2>2. /\ heap' = TallocFree(TallocSteal(g, "player", text), k) /\ uuid' = text
        /\ UNCHANGED << name, fields, joins >>
    BY <1>8 DEF ClientUuidHandle, FreePacket
  <2>3. PICK h2 : /\ Grows(heap, h2) /\ TallocFree(TallocSteal(g, "player", text), k) = h2
                  /\ heap[text] = Free /\ h2[text] = [is |-> "text", in |-> "player"]
    BY <1>1, <2>1, TextLeavesPacket
  <2>4. NewText(heap', uuid') /\ Grows(heap, heap')
    BY <2>1, <2>2, <2>3 DEF NewText
  <2>5. FieldsOf(type) = {}
    BY <1>8 DEF FieldsOf
  <2>6. StatsFollowClient'
    BY <1>3, <1>4, <2>2, <2>5 DEF StatsFollowClient
  <2>7. TypeOK'
    <3>1. heap' \in Heaps /\ uuid' \in Cells \cup {NoCell}
      BY <2>1, <2>2, <2>4 DEF Grows, FlatHeap
    <3> QED BY <1>2, <2>2, <3>1 DEF TypeOK
  <2> QED BY <1>2, <2>2, <2>4, <2>6, <2>7, StringsStayOwned
<1>9. ASSUME type = GET_SECTION, GetSectionHandle(m, g) PROVE IInv'
  <2> DEFINE complete == connection_complete_new(g, "player")
  <2>1. PICK h2 : Grows(heap, h2) /\ TallocFree(complete.heap, k) = h2
    BY <1>1, CompleteBesidePacket
  <2>2. /\ joins < MaxJoins /\ heap' = TallocFree(complete.heap, k)
        /\ joins' = IF complete.ok THEN joins + 1 ELSE joins
        /\ UNCHANGED << name, uuid, fields >>
    BY <1>9 DEF GetSectionHandle, FreePacket
  <2>3. joins' \in 0 .. MaxJoins
    BY <1>2, <2>2, SessionAssumption
  <2> HIDE DEF complete
  <2>4. Grows(heap, heap')
    BY <2>1, <2>2
  <2>5. FieldsOf(type) = {}
    BY <1>9 DEF FieldsOf
  <2>6. StatsFollowClient'
    BY <1>3, <1>4, <2>2, <2>5 DEF StatsFollowClient
  <2>7. TypeOK'
    <3>1. heap' \in Heaps
      BY <2>4 DEF Grows, FlatHeap
    <3> QED BY <1>2, <2>2, <2>3, <3>1 DEF TypeOK
  <2> QED BY <1>2, <2>2, <2>4, <2>6, <2>7, StringsStayOwned
<1>10. ASSUME type = PLAYER_HP, PlayerHpHandle(m, g) PROVE IInv'
  <2>1. fields' = [fields EXCEPT !["life"] = value]
    BY <1>10 DEF PlayerHpHandle
  <2>2. FieldsOf(type) = {"life"}
    BY <1>10 DEF FieldsOf
  <2>3. StatsFollowClient' /\ fields' \in [Fields -> Values]
    BY <1>2, <1>3, <1>4, <2>1, <2>2 DEF StatsFollowClient, Fields
  <2> QED BY <1>2, <1>10, <2>3, QuietHandler DEF PlayerHpHandle, FreePacket
<1>11. ASSUME type = PLAYER_MANA, PlayerManaHandle(m, g) PROVE IInv'
  <2>1. fields' = [fields EXCEPT !["mana"] = value]
    BY <1>11 DEF PlayerManaHandle
  <2>2. FieldsOf(type) = {"mana"}
    BY <1>11 DEF FieldsOf
  <2>3. StatsFollowClient' /\ fields' \in [Fields -> Values]
    BY <1>2, <1>3, <1>4, <2>1, <2>2 DEF StatsFollowClient, Fields
  <2> QED BY <1>2, <1>11, <2>3, QuietHandler DEF PlayerManaHandle, FreePacket
<1>12. CASE type = INVENTORY_SLOT /\ InventorySlotHandle(m, g)
  BY <1>5, <1>12 DEF InventorySlotHandle
<1>13. CASE type = CHAT_MESSAGE /\ ChatMessageHandle(m, g)
  BY <1>5, <1>13 DEF ChatMessageHandle
<1>14. CASE type = DISCONNECT /\ DisconnectHandle(m, g)
  BY <1>5, <1>14 DEF DisconnectHandle
<1> QED BY <1>6, <1>7, <1>8, <1>9, <1>10, <1>11, <1>12, <1>13, <1>14 DEF Handle

LEMMA InitIInv == Init => IInv
<1> SUFFICES ASSUME Init PROVE IInv
  OBVIOUS
<1>1. EmptyHeap \in Heaps /\ \A c \in Cells : EmptyHeap[c] = Free
  BY DEF EmptyHeap, Heaps, Free, Kinds
<1>2. ZeroedFields \in [Fields -> Values] /\ 0 \in 0 .. MaxJoins
  BY SessionAssumption DEF ZeroedFields, Values
<1>3. TypeOK
  BY <1>1, <1>2 DEF Init, TypeOK
<1> QED BY <1>1, <1>3 DEF Init, IInv, Flat, ClosedIsEmpty, StringsAreOwned, StatsFollowClient

\* A message that could not be read: its packet is freed.
LEMMA DroppedKeeps ==
    ASSUME IInv, NEW g, NEW k, InPacket(g, heap, k, {}), heap' = TallocFree(g, k),
           UNCHANGED << up, open, name, uuid, fields, joins, told >>
    PROVE  IInv'
<1>1. FlatHeap(heap)
  BY FlatState DEF IInv
<1>2. heap' = heap
  BY <1>1, FreePacketLeaves
<1> QED BY <1>2 DEF IInv, TypeOK, Flat, ClosedIsEmpty, StringsAreOwned, StatsFollowClient

LEMMA OnMessageKeeps ==
    ASSUME IInv, NEW type \in Types, NEW value \in Values, NEW version,
           OnMessage(type, value, version)
    PROVE  IInv'
<1> DEFINE packet == Incoming
           read   == packet_deserialize(packet.heap, packet.cell, type)
<1>1. /\ up /\ open /\ packet.cell # NoCell
      /\ \/ /\ read.res = "ok"
            /\ Handle([type |-> type, value |-> value, version |-> version,
                       packet |-> packet.cell, text |-> read.text], read.heap)
            /\ ToldBy(type, value)
            /\ UNCHANGED << up, open >>
         \/ /\ read.res = "error"
            /\ heap' = TallocFree(read.heap, packet.cell)
            /\ UNCHANGED << up, open, name, uuid, fields, joins, told >>
         \/ /\ read.res = "crash"
            /\ up' = FALSE
            /\ UNCHANGED << open, heap, name, uuid, fields, joins, told >>
  BY DEF OnMessage, ToldBy
<1>2. Gives(packet, heap, "packet", "player")
  BY TallocNewGives DEF Incoming
<1>3. read = packet_deserialize(packet.heap, packet.cell, type) /\ type \in HasHandle
  BY SessionAssumption
<1> HIDE DEF packet, read
<1>4. FlatHeap(heap)
  BY FlatState DEF IInv
<1>5. packet.cell \in Cells /\ InPacket(packet.heap, heap, packet.cell, {})
  BY <1>1, <1>2, <1>4, NewPacket
<1>6. \/ read.res = "error" /\ read.heap = packet.heap
      \/ \E hasText \in BOOLEAN, noText \in {"error", "crash"} :
            /\ read = ReadFunction(packet.heap, packet.cell, hasText, noText)
            /\ type = CLIENT_UUID => hasText
  BY <1>3, DeserializeReads
<1>7. \/ read.res # "ok" /\ read.heap = packet.heap
      \/ /\ read.res = "ok"
         /\ \E S : InPacket(read.heap, heap, packet.cell, S)
         /\ type = CLIENT_UUID =>
              \E b \in Cells : /\ read.text \in Cells /\ b # read.text
                              /\ InPacket(read.heap, heap, packet.cell, {b, read.text})
                              /\ read.heap[read.text] = [is |-> "text", in |-> b]
                              /\ read.heap[b] = [is |-> "body", in |-> packet.cell]
  <2>1. ASSUME NEW hasText \in BOOLEAN, NEW noText \in {"error", "crash"},
               read = ReadFunction(packet.heap, packet.cell, hasText, noText)
        PROVE  ReadInto(read, heap, packet.heap, packet.cell, hasText, noText)
    BY <1>4, <1>5, <2>1, ReadPacket
  <2>2. CASE read.res = "error" /\ read.heap = packet.heap
    BY <2>2
  <2>3. ASSUME NEW hasText \in BOOLEAN, NEW noText \in {"error", "crash"},
               read = ReadFunction(packet.heap, packet.cell, hasText, noText),
               type = CLIENT_UUID => hasText
        PROVE  <1>7!:
    BY <2>1, <2>3 DEF ReadInto
  <2> QED BY <1>6, <2>2, <2>3
<1>8. CASE read.res = "ok"
  <2>1. /\ Handle([type |-> type, value |-> value, version |-> version,
                   packet |-> packet.cell, text |-> read.text], read.heap)
        /\ ToldBy(type, value) /\ up' = up /\ open' = open
    BY <1>1, <1>8
  <2>2. PICK S : InPacket(read.heap, heap, packet.cell, S)
    BY <1>7, <1>8
  <2>3. type = CLIENT_UUID =>
           \E b \in Cells : /\ read.text \in Cells /\ b # read.text
                           /\ InPacket(read.heap, heap, packet.cell, {b, read.text})
                           /\ read.heap[read.text] = [is |-> "text", in |-> b]
                           /\ read.heap[b] = [is |-> "body", in |-> packet.cell]
    BY <1>7, <1>8
  <2> QED BY <1>1, <2>1, <2>2, <2>3, HandleKeeps
<1>9. CASE read.res = "error"
  BY <1>1, <1>5, <1>7, <1>9, DroppedKeeps
<1>10. CASE read.res = "crash"
  BY <1>1, <1>10 DEF IInv, TypeOK, Flat, ClosedIsEmpty, StringsAreOwned, StatsFollowClient
<1> QED BY <1>1, <1>8, <1>9, <1>10

\* Everything that is allocated lies below the player.
LEMMA AllBelowPlayer ==
    ASSUME NEW h, FlatHeap(h)
    PROVE  Below(h, "player", {c \in Cells : h[c].is # "free"})
<1>1. ASSUME NEW c \in Cells, h[c].is # "free" PROVE c \in Subtree(h, "player")
  <2>1. h[c].in = "player"
    BY <1>1 DEF FlatHeap, Free
  <2> QED BY <1>1, <2>1, SubtreeHasRoot, SubtreeHasChildren
<1> QED BY <1>1 DEF Below

LEMMA PlayerCloseKeeps ==
    ASSUME IInv, PlayerClose
    PROVE  IInv'
<1> DEFINE live == {c \in Cells : heap[c].is # "free"}
<1>1. FlatHeap(heap)
  BY FlatState DEF IInv
<1>2. heap' = [c \in Cells |-> IF c \in live \cup {"player"} THEN Free ELSE heap[c]]
  <2>1. Below(heap, "player", live)
    BY <1>1, AllBelowPlayer
  <2> HIDE DEF live
  <2>2. TallocFree(heap, "player") = [c \in Cells |-> IF c \in live \cup {"player"} THEN Free ELSE heap[c]]
    BY <2>1, FreeIs
  <2> QED BY <2>2 DEF PlayerClose
<1>3. \A c \in Cells : heap[c].is = "free" => heap[c] = Free
  BY <1>1 DEF FlatHeap
<1>4. heap' = EmptyHeap
  BY <1>2, <1>3 DEF EmptyHeap
<1>5. EmptyHeap \in Heaps /\ \A c \in Cells : EmptyHeap[c] = Free
  BY DEF EmptyHeap, Heaps, Free, Kinds
<1> HIDE DEF live
<1> QED BY <1>4, <1>5 DEF PlayerClose, IInv, TypeOK, Flat, ClosedIsEmpty, StringsAreOwned,
                          StatsFollowClient

LEMMA PlayerNewKeeps ==
    ASSUME IInv, PlayerNew
    PROVE  IInv'
<1>1. ZeroedFields \in [Fields -> Values] /\ 0 \in 0 .. MaxJoins
  BY SessionAssumption DEF ZeroedFields, Values
<1> QED BY <1>1 DEF PlayerNew, IInv, TypeOK, Flat, ClosedIsEmpty, StringsAreOwned,
                    StatsFollowClient

LEMMA NextKeeps == IInv /\ [Next]_vars => IInv'
<1> SUFFICES ASSUME IInv, [Next]_vars PROVE IInv'
  OBVIOUS
<1>1. ASSUME NEW m \in Messages, OnMessage(m.type, m.value, m.version) PROVE IInv'
  BY <1>1, OnMessageKeeps DEF Messages
<1>2. CASE PlayerClose
  BY <1>2, PlayerCloseKeeps
<1>3. CASE PlayerNew
  BY <1>3, PlayerNewKeeps
<1>4. CASE UNCHANGED vars
  BY <1>4 DEF vars, IInv, TypeOK, Flat, ClosedIsEmpty, StringsAreOwned, StatsFollowClient
<1> QED BY <1>1, <1>2, <1>3, <1>4 DEF Next

LEMMA Invariance == Spec => []IInv
BY InitIInv, NextKeeps, PTL DEF Spec

-----------------------------------------------------------------------------
(* The theorems. *)

\* Every variable has its type: what is allocated for messages is always a tree of
\* cells under the player, under the server or under no parent.
THEOREM TypeCorrectness == Spec => []TypeOK
<1>1. IInv => TypeOK
  BY DEF IInv
<1> QED BY <1>1, Invariance, PTL

\* player_info_handle copies the name and client_uuid_handle steals the string of
\* the message, so both outlive their packet, and no other message frees them,
\* whichever allocation fails (player_info.c:37, client_uuid.c:40).
THEOREM StringsOutliveTheirPackets == Spec => []StringsAreOwned
<1>1. IInv => StringsAreOwned
  BY DEF IInv
<1> QED BY <1>1, Invariance, PTL

\* Between two callbacks no packet, no body and no temporary context is left,
\* whichever allocation failed on the way; what is kept hangs below the player, and
\* player_close leaves nothing of it (server.c:76, player.c:93).
THEOREM MessagesLeaveNothing == Spec => []NothingLeftOfMessages
<1>1. ASSUME IInv PROVE NothingLeftOfMessages
  <2>1. FlatHeap(heap)
    BY <1>1, FlatState DEF IInv
  <2>2. ASSUME NEW c \in Cells
        PROVE  /\ heap[c].is \notin {"temp", "packet", "body"}
               /\ heap[c].is # "free" => c \in Subtree(heap, "player")
    <3>1. heap[c].is \in {"free", "text", "reply"}
      BY <2>1 DEF FlatHeap, Free
    <3>2. heap[c].is # "free" => c \in Subtree(heap, "player")
      BY <2>1, AllBelowPlayer DEF Below
    <3> QED BY <3>1, <3>2
  <2> QED BY <1>1, <2>2 DEF IInv, ClosedIsEmpty, NothingLeftOfMessages
<1> QED BY <1>1, Invariance, PTL

\* The life, the mana and the stats the server keeps are those of the last message
\* about them that it could handle, whatever came before or after it
\* (player_info.c:39-46, player_hp.c:35, player_mana.c:35).
THEOREM PlayerIsAsTold == Spec => []StatsFollowClient
<1>1. IInv => StatsFollowClient
  BY DEF IInv
<1> QED BY <1>1, Invariance, PTL

=============================================================================
