--------------------------- MODULE LogFabric_proofs ---------------------------
(***************************************************************************)
(* Theorems about LogFabric and the FileSinks it calls: what is stored     *)
(* stays in order and is not dropped, a sink that never failed has exactly *)
(* the messages it was offered, and its files are well-formed; for any     *)
(* number of sinks, messages, failures and changes of the epoch.           *)
(***************************************************************************)
EXTENDS LogFabric, SequenceTheorems, TLAPS

-----------------------------------------------------------------------------
(* Lists of units.                                                          *)

Unit == [kind : {"header", "message", "break"}, n : Nat, part : Nat]

LEMMA UnitKinds ==
    /\ Header \in Unit /\ Break \in Unit /\ Header # Break
    /\ Header.kind = "header" /\ Break.kind = "break"
    /\ Header.part = 0 /\ Break.part = 0
  BY DEF Header, Break, Unit

LEMMA ListOf ==
    ASSUME NEW a \in Seq(Unit)
    PROVE  /\ Len(a) \in Nat /\ DOMAIN a = 1 .. Len(a)
           /\ \A i \in 1 .. Len(a) : a[i] \in Unit
           /\ a = <<>> <=> Len(a) = 0
  BY LenProperties, ElementOfSeq, EmptySeq

LEMMA Joined ==
    ASSUME NEW a \in Seq(Unit), NEW b \in Seq(Unit)
    PROVE  /\ a \o b \in Seq(Unit) /\ Len(a \o b) = Len(a) + Len(b)
           /\ DOMAIN (a \o b) = 1 .. Len(a) + Len(b)
           /\ \A i \in 1 .. Len(a) : (a \o b)[i] = a[i]
           /\ \A i \in 1 .. Len(b) : (a \o b)[Len(a) + i] = b[i]
           /\ \A i \in 1 .. Len(a) + Len(b) : i > Len(a) => (a \o b)[i] = b[i - Len(a)]
  <1>1. Len(a) \in Nat /\ Len(b) \in Nat
    BY ListOf
  <1>2. /\ a \o b \in Seq(Unit) /\ Len(a \o b) = Len(a) + Len(b)
        /\ \A i \in 1 .. Len(a) + Len(b) : (a \o b)[i] = IF i <= Len(a) THEN a[i] ELSE b[i - Len(a)]
    BY ConcatProperties
  <1>3. DOMAIN (a \o b) = 1 .. Len(a) + Len(b)
    BY <1>2, ListOf
  <1>4. ASSUME NEW i \in 1 .. Len(b)
        PROVE  (a \o b)[Len(a) + i] = b[i]
    <2> DEFINE j == Len(a) + i
    <2>1. j \in 1 .. Len(a) + Len(b) /\ ~(j <= Len(a)) /\ j - Len(a) = i
      BY <1>1
    <2> HIDE DEF j
    <2>2. (a \o b)[j] = b[i]
      BY <1>2, <2>1
    <2> QED
      BY <2>2 DEF j
  <1>5. \A i \in 1 .. Len(a) : (a \o b)[i] = a[i]
    BY <1>1, <1>2
  <1>6. \A i \in 1 .. Len(a) + Len(b) : i > Len(a) => (a \o b)[i] = b[i - Len(a)]
    BY <1>1, <1>2
  <1> QED
    BY <1>2, <1>3, <1>4, <1>5, <1>6

LEMMA OneUnit ==
    ASSUME NEW u \in Unit
    PROVE  /\ <<u>> \in Seq(Unit) /\ Len(<<u>>) = 1 /\ <<u>>[1] = u
           /\ MessagesIn(<<u>>) = {v \in {u} : v.kind = "message"}
           /\ Ascending(<<u>>)
  <1>1. <<u>> \in Seq(Unit) /\ Len(<<u>>) = 1 /\ <<u>>[1] = u
    OBVIOUS
  <1>2. DOMAIN <<u>> = 1 .. 1
    BY <1>1, ListOf
  <1> QED
    BY <1>1, <1>2 DEF MessagesIn, Range, Ascending

LEMMA NoUnit ==
    /\ <<>> \in Seq(Unit) /\ Len(<<>>) = 0 /\ MessagesIn(<<>>) = {} /\ Ascending(<<>>)
  <1>1. <<>> \in Seq(Unit) /\ Len(<<>>) = 0
    BY EmptySeq
  <1>2. DOMAIN <<>> = 1 .. 0
    BY <1>1, ListOf
  <1> QED
    BY <1>1, <1>2 DEF MessagesIn, Range, Ascending

LEMMA MessagesAre ==
    ASSUME NEW a \in Seq(Unit)
    PROVE  /\ MessagesIn(a) \subseteq Unit
           /\ \A u : u \in MessagesIn(a) <=> \E i \in 1 .. Len(a) : u = a[i] /\ a[i].kind = "message"
  BY ListOf DEF MessagesIn, Range

LEMMA JoinedMessages ==
    ASSUME NEW a \in Seq(Unit), NEW b \in Seq(Unit)
    PROVE  MessagesIn(a \o b) = MessagesIn(a) \cup MessagesIn(b)
  BY RangeConcatenation DEF MessagesIn

LEMMA JoinedAscending ==
    ASSUME NEW a \in Seq(Unit), NEW b \in Seq(Unit)
    PROVE  Ascending(a \o b) <=> Ascending(a) /\ Ascending(b) /\ Precedes(a, b)
  <1>1. Len(a) \in Nat /\ Len(b) \in Nat /\ DOMAIN a = 1 .. Len(a) /\ DOMAIN b = 1 .. Len(b)
    BY ListOf
  <1>2. ASSUME Ascending(a), Ascending(b), Precedes(a, b)
        PROVE  Ascending(a \o b)
    <2> SUFFICES ASSUME NEW i \in 1 .. Len(a) + Len(b), NEW j \in 1 .. Len(a) + Len(b), i < j,
                        (a \o b)[i].kind = "message", (a \o b)[j].kind = "message"
                 PROVE  Before((a \o b)[i], (a \o b)[j])
      BY Joined DEF Ascending
    <2>1. CASE j <= Len(a)
      <3>1. i \in 1 .. Len(a) /\ j \in 1 .. Len(a)
        BY <1>1, <2>1
      <3>2. (a \o b)[i] = a[i] /\ (a \o b)[j] = a[j]
        BY <3>1, Joined
      <3> QED
        BY <1>1, <1>2, <3>1, <3>2 DEF Ascending
    <2>2. CASE i <= Len(a) /\ j > Len(a)
      <3>1. i \in 1 .. Len(a) /\ j - Len(a) \in 1 .. Len(b)
        BY <1>1, <2>2
      <3>2. (a \o b)[i] = a[i] /\ (a \o b)[j] = b[j - Len(a)]
        BY <2>2, <3>1, Joined
      <3>3. a[i] \in MessagesIn(a) /\ b[j - Len(a)] \in MessagesIn(b)
        BY <3>1, <3>2, MessagesAre
      <3> QED
        BY <1>2, <3>2, <3>3 DEF Precedes
    <2>3. CASE i > Len(a)
      <3> DEFINE k == i - Len(a)
                 l == j - Len(a)
      <3>1. k \in 1 .. Len(b) /\ l \in 1 .. Len(b) /\ k < l /\ j > Len(a)
        BY <1>1, <2>3
      <3>2. (a \o b)[i] = b[k] /\ (a \o b)[j] = b[l]
        BY <2>3, <3>1, Joined
      <3> HIDE DEF k, l
      <3> QED
        BY <1>1, <1>2, <3>1, <3>2 DEF Ascending
    <2> QED
      BY <1>1, <2>1, <2>2, <2>3
  <1>3. ASSUME Ascending(a \o b)
        PROVE  Ascending(a) /\ Ascending(b) /\ Precedes(a, b)
    <2>1. \A i, j \in 1 .. Len(a) + Len(b) :
             i < j /\ (a \o b)[i].kind = "message" /\ (a \o b)[j].kind = "message"
               => Before((a \o b)[i], (a \o b)[j])
      BY <1>3, Joined DEF Ascending
    <2>2. Ascending(a)
      <3> SUFFICES ASSUME NEW i \in 1 .. Len(a), NEW j \in 1 .. Len(a), i < j,
                          a[i].kind = "message", a[j].kind = "message"
                   PROVE  Before(a[i], a[j])
        BY <1>1 DEF Ascending
      <3>1. (a \o b)[i] = a[i] /\ (a \o b)[j] = a[j]
        BY Joined
      <3>2. i \in 1 .. Len(a) + Len(b) /\ j \in 1 .. Len(a) + Len(b)
        BY <1>1
      <3> QED
        BY <2>1, <3>1, <3>2
    <2>3. ASSUME NEW j \in 1 .. Len(b)
          PROVE  Len(a) + j \in 1 .. Len(a) + Len(b) /\ (a \o b)[Len(a) + j] = b[j]
      BY <1>1, Joined
    <2>4. Ascending(b)
      <3> SUFFICES ASSUME NEW i \in 1 .. Len(b), NEW j \in 1 .. Len(b), i < j,
                          b[i].kind = "message", b[j].kind = "message"
                   PROVE  Before(b[i], b[j])
        BY <1>1 DEF Ascending
      <3> DEFINE k == Len(a) + i
                 l == Len(a) + j
      <3>1. k < l
        BY <1>1
      <3>2. k \in 1 .. Len(a) + Len(b) /\ l \in 1 .. Len(a) + Len(b) /\ (a \o b)[k] = b[i] /\ (a \o b)[l] = b[j]
        BY <2>3
      <3> HIDE DEF k, l
      <3> QED
        BY <2>1, <3>1, <3>2
    <2>5. Precedes(a, b)
      <3> SUFFICES ASSUME NEW u \in MessagesIn(a), NEW v \in MessagesIn(b)
                   PROVE  Before(u, v)
        BY DEF Precedes
      <3>1. PICK i \in 1 .. Len(a) : u = a[i] /\ a[i].kind = "message"
        BY MessagesAre
      <3>2. PICK j \in 1 .. Len(b) : v = b[j] /\ b[j].kind = "message"
        BY MessagesAre
      <3> DEFINE l == Len(a) + j
      <3>3. i \in 1 .. Len(a) + Len(b) /\ i < l
        BY <1>1
      <3>4. l \in 1 .. Len(a) + Len(b) /\ (a \o b)[l] = b[j] /\ (a \o b)[i] = a[i]
        BY <2>3, Joined
      <3> HIDE DEF l
      <3> QED
        BY <2>1, <3>1, <3>2, <3>3, <3>4
    <2> QED
      BY <2>2, <2>4, <2>5
  <1> QED
    BY <1>2, <1>3
-----------------------------------------------------------------------------
(* What a sink stores: the contents of its files and the rest in its buffer. *)

Files == Seq(Seq(Unit))
Held(contents, rest) ==
    (UNION {MessagesIn(content) : content \in Range(contents)}) \cup MessagesIn(rest)

\* Some units come behind the rest, and the front of all that goes into the last file.
Adds(contents, rest, contents2, rest2, units) ==
    \E x, y \in Seq(Unit) :
        /\ x \o y = rest \o units /\ rest2 = y /\ (x # <<>> => contents # <<>>)
        /\ DOMAIN contents2 = DOMAIN contents
        /\ \A r \in DOMAIN contents :
              contents2[r] = IF r = Len(contents) THEN contents[r] \o x ELSE contents[r]

LEMMA FilesAre ==
    ASSUME NEW c \in Files
    PROVE  /\ Len(c) \in Nat /\ DOMAIN c = 1 .. Len(c)
           /\ \A r \in DOMAIN c : c[r] \in Seq(Unit)
           /\ c # <<>> => Len(c) \in DOMAIN c
  <1>1. Len(c) \in Nat /\ DOMAIN c = 1 .. Len(c) /\ (c # <<>> => Len(c) # 0)
    BY LenProperties, EmptySeq DEF Files
  <1>2. \A r \in 1 .. Len(c) : c[r] \in Seq(Unit)
    BY ElementOfSeq DEF Files
  <1> QED
    BY <1>1, <1>2

LEMMA HeldIs ==
    ASSUME NEW c \in Files, NEW b \in Seq(Unit)
    PROVE  /\ Held(c, b) \subseteq Unit
           /\ MessagesIn(b) \subseteq Held(c, b)
           /\ \A r \in DOMAIN c : MessagesIn(c[r]) \subseteq Held(c, b)
           /\ \A u \in Held(c, b) : u \in MessagesIn(b) \/ \E r \in DOMAIN c : u \in MessagesIn(c[r])
  <1>1. ASSUME NEW u
        PROVE  u \in Held(c, b) <=> u \in MessagesIn(b) \/ \E r \in DOMAIN c : u \in MessagesIn(c[r])
    <2>1. u \in Held(c, b) <=> u \in MessagesIn(b) \/ \E content \in Range(c) : u \in MessagesIn(content)
      BY DEF Held
    <2>2. (\E content \in Range(c) : u \in MessagesIn(content))
             <=> \E r \in DOMAIN c : u \in MessagesIn(c[r])
      BY Zenon DEF Range
    <2> QED
      BY <2>1, <2>2
  <1>2. \A r \in DOMAIN c : MessagesIn(c[r]) \subseteq Unit
    BY FilesAre, MessagesAre
  <1>3. MessagesIn(b) \subseteq Unit
    BY MessagesAre
  <1> QED
    BY <1>1, <1>2, <1>3

LEMMA AddsHeld ==
    ASSUME NEW c \in Files, NEW c2 \in Files, NEW b \in Seq(Unit), NEW b2 \in Seq(Unit),
           NEW z \in Seq(Unit), Adds(c, b, c2, b2, z)
    PROVE  Held(c2, b2) = Held(c, b) \cup MessagesIn(z)
  <1>1. PICK x \in Seq(Unit), y \in Seq(Unit) :
           /\ x \o y = b \o z /\ b2 = y /\ (x # <<>> => c # <<>>)
           /\ DOMAIN c2 = DOMAIN c
           /\ \A r \in DOMAIN c : c2[r] = IF r = Len(c) THEN c[r] \o x ELSE c[r]
    BY DEF Adds
  <1>2. MessagesIn(x) \cup MessagesIn(y) = MessagesIn(b) \cup MessagesIn(z)
    <2>1. MessagesIn(x \o y) = MessagesIn(x) \cup MessagesIn(y)
      BY JoinedMessages
    <2>2. MessagesIn(b \o z) = MessagesIn(b) \cup MessagesIn(z)
      BY JoinedMessages
    <2> QED
      BY <1>1, <2>1, <2>2
  <1>3. ASSUME NEW r \in DOMAIN c
        PROVE  MessagesIn(c2[r]) = MessagesIn(c[r]) \cup IF r = Len(c) THEN MessagesIn(x) ELSE {}
    <2>1. c[r] \in Seq(Unit)
      BY FilesAre
    <2> QED
      BY <1>1, <2>1, JoinedMessages
  <1>4. Held(c2, b2) \subseteq Held(c, b) \cup MessagesIn(z)
    <2> SUFFICES ASSUME NEW u \in Held(c2, b2) PROVE u \in Held(c, b) \cup MessagesIn(z)
      OBVIOUS
    <2>1. CASE u \in MessagesIn(b2)
      BY <1>1, <1>2, <2>1, HeldIs
    <2>2. CASE \E r \in DOMAIN c2 : u \in MessagesIn(c2[r])
      BY <1>1, <1>2, <1>3, <2>2, HeldIs
    <2> QED
      BY <2>1, <2>2, HeldIs
  <1>5. MessagesIn(x) \subseteq Held(c2, b2)
    <2>1. CASE x = <<>>
      BY <2>1, NoUnit
    <2>2. CASE x # <<>>
      <3>1. Len(c) \in DOMAIN c
        BY <1>1, <2>2, FilesAre
      <3>2. MessagesIn(x) \subseteq MessagesIn(c2[Len(c)])
        BY <1>3, <3>1
      <3> QED
        BY <1>1, <3>1, <3>2, HeldIs
    <2> QED
      BY <2>1, <2>2
  <1>6. Held(c, b) \cup MessagesIn(z) \subseteq Held(c2, b2)
    <2>1. MessagesIn(b) \cup MessagesIn(z) \subseteq Held(c2, b2)
      BY <1>1, <1>2, <1>5, HeldIs
    <2>2. \A r \in DOMAIN c : MessagesIn(c[r]) \subseteq Held(c2, b2)
      BY <1>1, <1>3, HeldIs
    <2>3. \A u \in Held(c, b) : u \in Held(c2, b2)
      BY <2>1, <2>2, HeldIs
    <2> QED
      BY <2>1, <2>3
  <1> QED
    BY <1>4, <1>6

\* What comes behind all that is stored keeps it in order, however much of it is written.
LEMMA AddsOrder ==
    ASSUME NEW c \in Files, NEW c2 \in Files, NEW b \in Seq(Unit), NEW b2 \in Seq(Unit),
           NEW z \in Seq(Unit), Adds(c, b, c2, b2, z),
           InOrder(c, b), Ascending(z), \A u \in Held(c, b), v \in MessagesIn(z) : Before(u, v)
    PROVE  InOrder(c2, b2)
  <1>1. PICK x \in Seq(Unit), y \in Seq(Unit) :
           /\ x \o y = b \o z /\ b2 = y /\ (x # <<>> => c # <<>>)
           /\ DOMAIN c2 = DOMAIN c
           /\ \A r \in DOMAIN c : c2[r] = IF r = Len(c) THEN c[r] \o x ELSE c[r]
    BY DEF Adds
  <1>2. Ascending(x) /\ Ascending(y) /\ Precedes(x, y)
    <2>1. Precedes(b, z)
      BY HeldIs DEF Precedes
    <2>2. Ascending(b \o z)
      BY <2>1, JoinedAscending DEF InOrder
    <2> QED
      BY <1>1, <2>2, JoinedAscending
  <1>3. MessagesIn(x) \cup MessagesIn(y) = MessagesIn(b) \cup MessagesIn(z)
    <2>1. MessagesIn(x \o y) = MessagesIn(x) \cup MessagesIn(y)
      BY JoinedMessages
    <2>2. MessagesIn(b \o z) = MessagesIn(b) \cup MessagesIn(z)
      BY JoinedMessages
    <2> QED
      BY <1>1, <2>1, <2>2
  <1>4. ASSUME NEW r \in DOMAIN c
        PROVE  /\ c[r] \in Seq(Unit) /\ Ascending(c[r])
               /\ Precedes(c[r], x) /\ Precedes(c[r], y)
    <2>1. c[r] \in Seq(Unit)
      BY FilesAre
    <2>2. Precedes(c[r], b) /\ Ascending(c[r])
      BY DEF InOrder
    <2>3. \A u \in MessagesIn(c[r]), v \in MessagesIn(z) : Before(u, v)
      BY HeldIs
    <2> QED
      BY <1>3, <2>1, <2>2, <2>3 DEF Precedes
  <1>5. ASSUME NEW r \in DOMAIN c
        PROVE  Ascending(c2[r]) /\ Precedes(c2[r], y)
    <2>1. CASE r = Len(c)
      <3>1. c2[r] = c[r] \o x
        BY <1>1, <2>1
      <3>2. Ascending(c[r] \o x)
        BY <1>2, <1>4, JoinedAscending
      <3>3. MessagesIn(c2[r]) = MessagesIn(c[r]) \cup MessagesIn(x)
        BY <1>4, <3>1, JoinedMessages
      <3>4. Precedes(c2[r], y)
        BY <1>2, <1>4, <3>3 DEF Precedes
      <3> QED
        BY <3>1, <3>2, <3>4
    <2>2. CASE r # Len(c)
      BY <1>1, <1>4, <2>2
    <2> QED
      BY <2>1, <2>2
  <1>6. ASSUME NEW q \in DOMAIN c, NEW r \in DOMAIN c, q < r
        PROVE  Precedes(c2[q], c2[r])
    <2>1. q # Len(c) /\ c2[q] = c[q]
      BY <1>1, <1>6, FilesAre
    <2>2. Precedes(c[q], c[r])
      BY <1>6 DEF InOrder
    <2>3. CASE r = Len(c)
      <3>1. MessagesIn(c2[r]) = MessagesIn(c[r]) \cup MessagesIn(x)
        BY <1>1, <1>4, <2>3, JoinedMessages
      <3> QED
        BY <1>4, <2>1, <2>2, <3>1 DEF Precedes
    <2>4. CASE r # Len(c)
      BY <1>1, <2>1, <2>2, <2>4
    <2> QED
      BY <2>3, <2>4
  <1> QED
    BY <1>1, <1>2, <1>5, <1>6 DEF InOrder

\* A new file behind the others.
LEMMA OpensFile ==
    ASSUME NEW c \in Files, NEW b \in Seq(Unit)
    PROVE  /\ Append(c, <<>>) \in Files
           /\ Held(Append(c, <<>>), b) = Held(c, b)
           /\ InOrder(c, b) => InOrder(Append(c, <<>>), b)
  <1> DEFINE d == Append(c, <<>>)
             n == Len(c)
  <1>1. n \in Nat /\ DOMAIN c = 1 .. n
    BY FilesAre
  <1>2. d \in Files /\ d # <<>> /\ Len(d) = n + 1 /\ (\A i \in 1 .. n : d[i] = c[i]) /\ d[n + 1] = <<>>
    <2>1. <<>> \in Seq(Unit) /\ c \in Seq(Seq(Unit))
      BY NoUnit DEF Files
    <2>2. /\ Append(c, <<>>) \in Seq(Seq(Unit)) /\ Append(c, <<>>) # <<>>
          /\ Len(Append(c, <<>>)) = Len(c) + 1
          /\ \A i \in 1 .. Len(c) : Append(c, <<>>)[i] = c[i]
          /\ Append(c, <<>>)[Len(c) + 1] = <<>>
      BY <2>1, AppendProperties
    <2> QED
      BY <2>2, Zenon DEF Files
  <1>3. DOMAIN d = 1 .. n + 1
    BY <1>2, FilesAre
  <1> HIDE DEF d, n
  <1>4. ASSUME NEW r \in DOMAIN d
        PROVE  (r \in DOMAIN c /\ d[r] = c[r]) \/ (r = n + 1 /\ d[r] = <<>>)
    BY <1>1, <1>2, <1>3
  <1>5. \A r \in DOMAIN c : r \in DOMAIN d /\ d[r] = c[r]
    BY <1>1, <1>2, <1>3
  <1>6. Held(d, b) = Held(c, b)
    <2>1. \A u \in Held(d, b) : u \in Held(c, b)
      BY <1>2, <1>4, NoUnit, HeldIs
    <2>2. \A u \in Held(c, b) : u \in Held(d, b)
      BY <1>2, <1>5, HeldIs
    <2> QED
      BY <2>1, <2>2
  <1>7. ASSUME InOrder(c, b) PROVE InOrder(d, b)
    <2>1. \A r \in DOMAIN d : Ascending(d[r]) /\ Precedes(d[r], b)
      BY <1>4, <1>7, NoUnit DEF InOrder, Precedes
    <2>2. ASSUME NEW q \in DOMAIN d, NEW r \in DOMAIN d, q < r
          PROVE  Precedes(d[q], d[r])
      <3>1. CASE d[r] = <<>>
        BY <3>1, NoUnit DEF Precedes
      <3>2. CASE d[q] = <<>>
        BY <3>2, NoUnit DEF Precedes
      <3>3. CASE r \in DOMAIN c /\ d[r] = c[r] /\ q \in DOMAIN c /\ d[q] = c[q]
        BY <1>7, <2>2, <3>3 DEF InOrder
      <3> QED
        BY <1>4, <3>1, <3>2, <3>3
    <2> QED
      BY <1>7, <2>1, <2>2 DEF InOrder
  <1> QED
    BY <1>2, <1>6, <1>7 DEF d

\* A buffer without messages is replaced by another one without any.
LEMMA Resets ==
    ASSUME NEW c \in Files, NEW b \in Seq(Unit), NEW y \in Seq(Unit), MessagesIn(y) = {}
    PROVE  /\ Held(c, y) \subseteq Held(c, b)
           /\ MessagesIn(b) = {} => Held(c, y) = Held(c, b)
           /\ InOrder(c, b) => InOrder(c, y)
  <1>1. Held(c, y) = UNION {MessagesIn(content) : content \in Range(c)}
    BY DEF Held
  <1>2. Ascending(y)
    <2> SUFFICES ASSUME NEW i \in DOMAIN y, y[i].kind = "message" PROVE FALSE
      BY DEF Ascending
    <2> QED
      BY DEF MessagesIn, Range
  <1>3. InOrder(c, b) => InOrder(c, y)
    BY <1>2 DEF InOrder, Precedes
  <1> QED
    BY <1>1, <1>3 DEF Held
-----------------------------------------------------------------------------
(* Messages as units.                                                       *)

Known == [n : Nat, size : Nat \ {0}, loud : BOOLEAN]

LEMMA UnitsAre ==
    ASSUME NEW m \in Known
    PROVE  /\ Units(m) \in Seq(Unit) /\ Len(Units(m)) = m.size /\ m.size \in Nat \ {0}
           /\ \A j \in 1 .. m.size : Units(m)[j] = [kind |-> "message", n |-> m.n, part |-> j]
           /\ MessagesIn(Units(m)) = Range(Units(m)) /\ Ascending(Units(m))
           /\ \A u \in MessagesIn(Units(m)) : u.n = m.n
  <1>1. m.n \in Nat /\ m.size \in Nat \ {0}
    BY DEF Known
  <1>2. \A j \in 1 .. m.size : [kind |-> "message", n |-> m.n, part |-> j] \in Unit
    BY <1>1 DEF Unit
  <1>3. Units(m) \in [1 .. m.size -> Unit]
    BY <1>2 DEF Units
  <1>4. Units(m) \in Seq(Unit) /\ DOMAIN Units(m) = 1 .. m.size
    BY <1>1, <1>3, SeqDef
  <1>5. Len(Units(m)) = m.size
    BY <1>1, <1>4, ListOf
  <1>6. \A j \in 1 .. m.size : Units(m)[j] = [kind |-> "message", n |-> m.n, part |-> j]
    BY DEF Units
  <1>7. \A u \in Range(Units(m)) : u.kind = "message" /\ u.n = m.n
    <2> SUFFICES ASSUME NEW u \in Range(Units(m)) PROVE u.kind = "message" /\ u.n = m.n
      OBVIOUS
    <2>1. PICK j \in 1 .. m.size : u = Units(m)[j]
      BY <1>4 DEF Range
    <2>2. u = [kind |-> "message", n |-> m.n, part |-> j]
      BY <1>6, <2>1
    <2> QED
      BY <2>2
  <1>8. Ascending(Units(m))
    <2> SUFFICES ASSUME NEW i \in 1 .. m.size, NEW j \in 1 .. m.size, i < j
                 PROVE  Before(Units(m)[i], Units(m)[j])
      BY <1>4 DEF Ascending
    <2>1. /\ Units(m)[i] = [kind |-> "message", n |-> m.n, part |-> i]
          /\ Units(m)[j] = [kind |-> "message", n |-> m.n, part |-> j]
      BY <1>6
    <2> QED
      BY <2>1 DEF Before
  <1> QED
    BY <1>1, <1>4, <1>5, <1>6, <1>7, <1>8 DEF MessagesIn

\* A message in two parts.
LEMMA Splits ==
    ASSUME NEW m \in Known, NEW k \in 0 .. m.size
    PROVE  LET first == SubSeq(Units(m), 1, k)
               rest == SubSeq(Units(m), k + 1, m.size)
           IN /\ first \in Seq(Unit) /\ rest \in Seq(Unit) /\ first \o rest = Units(m)
              /\ Len(first) = k /\ Len(rest) = m.size - k
              /\ Ascending(first) /\ MessagesIn(first) \subseteq MessagesIn(Units(m))
  <1> DEFINE u == Units(m)
             first == SubSeq(u, 1, k)
             rest == SubSeq(u, k + 1, m.size)
  <1>1. u \in Seq(Unit) /\ Len(u) = m.size /\ m.size \in Nat /\ Ascending(u)
    BY UnitsAre
  <1>2. \A i \in 1 .. m.size : u[i] \in Unit
    BY <1>1, ListOf
  <1> HIDE DEF u
  <1>3. first \in Seq(Unit) /\ Len(first) = k
    BY <1>1, <1>2, SubSeqProperties
  <1>4. rest \in Seq(Unit) /\ Len(rest) = m.size - k
    BY <1>1, <1>2, SubSeqProperties
  <1>5. first \o rest = u
    <2>1. SubSeq(u, 1, k) \o SubSeq(u, k + 1, Len(u)) = SubSeq(u, 1, Len(u))
      <3>1. 1 \in 1 .. Len(u) + 1 /\ k \in 1 - 1 .. Len(u) /\ Len(u) \in k .. Len(u)
        BY <1>1
      <3> QED
        BY <1>1, <3>1, ConcatAdjacentSubSeq
    <2> QED
      BY <1>1, <2>1, SubSeqFull
  <1> HIDE DEF first, rest
  <1>6. Ascending(first)
    BY <1>1, <1>3, <1>4, <1>5, JoinedAscending
  <1>7. MessagesIn(first) \subseteq MessagesIn(u)
    BY <1>3, <1>4, <1>5, JoinedMessages
  <1> QED
    BY <1>3, <1>4, <1>5, <1>6, <1>7 DEF first, rest, u

-----------------------------------------------------------------------------
(* Well-formed files.                                                       *)

LEMMA HeaderFirst == WellFormed(<<Header>>, FALSE)
  BY UnitKinds, OneUnit DEF WellFormed

LEMMA MessageBehind ==
    ASSUME NEW a \in Seq(Unit), NEW m \in Known, WellFormed(a, FALSE)
    PROVE  WellFormed(a \o Units(m), FALSE)
  <1> DEFINE z == Units(m)
             d == a \o z
  <1>1. z \in Seq(Unit) /\ Len(z) = m.size /\ m.size \in Nat \ {0}
        /\ \A j \in 1 .. m.size : z[j] = [kind |-> "message", n |-> m.n, part |-> j]
    BY UnitsAre
  <1>2. Len(a) \in Nat /\ Len(a) > 0 /\ a[1] = Header
    BY ListOf DEF WellFormed
  <1> HIDE DEF z
  <1>3. /\ d \in Seq(Unit) /\ Len(d) = Len(a) + m.size
        /\ \A i \in 1 .. Len(a) : d[i] = a[i]
        /\ \A i \in 1 .. m.size : d[Len(a) + i] = z[i]
        /\ \A i \in 1 .. Len(a) + m.size : i > Len(a) => d[i] = z[i - Len(a)]
    BY <1>1, Joined, SMTT(40)
  <1> HIDE DEF d
  <1>4. Len(d) > 0 /\ d[1] = Header
    <2>1. 1 \in 1 .. Len(a)
      BY <1>2
    <2>2. d[1] = a[1]
      BY <1>3, <2>1
    <2> QED
      BY <1>1, <1>2, <1>3, <2>2
  <1>5. ASSUME NEW i \in 2 .. Len(d)
        PROVE  /\ d[i].kind = "message"
               /\ d[i].part > 1 => d[i - 1] = [d[i] EXCEPT !.part = @ - 1]
    <2>1. CASE i <= Len(a)
      <3>1. i \in 2 .. Len(a) /\ d[i] = a[i] /\ d[i - 1] = a[i - 1]
        BY <1>2, <1>3, <2>1
      <3> QED
        BY <3>1 DEF WellFormed
    <2>2. CASE i > Len(a)
      <3> DEFINE j == i - Len(a)
      <3>1. j \in 1 .. m.size /\ d[i] = z[j]
        BY <1>1, <1>2, <1>3, <2>2
      <3>2. ASSUME j > 1
            PROVE  d[i - 1] = z[j - 1] /\ j - 1 \in 1 .. m.size
        <4> DEFINE h == i - 1
        <4>1. h > Len(a) /\ h \in 1 .. Len(a) + m.size /\ h - Len(a) = j - 1 /\ j - 1 \in 1 .. m.size
          BY <1>1, <1>2, <3>1, <3>2
        <4> HIDE DEF h, j
        <4>2. d[h] = z[j - 1]
          BY <1>3, <4>1
        <4> QED
          BY <4>1, <4>2 DEF h
      <3> HIDE DEF j
      <3>3. d[i] = [kind |-> "message", n |-> m.n, part |-> j]
        BY <1>1, <3>1
      <3>4. CASE j > 1
        BY <1>1, <3>2, <3>3, <3>4
      <3>5. CASE ~(j > 1)
        BY <3>3, <3>5
      <3> QED
        BY <3>4, <3>5, <3>3
    <2> QED
      BY <1>2, <2>1, <2>2
  <1> QED
    BY <1>4, <1>5 DEF WellFormed, d, z

LEMMA BreakBehind ==
    ASSUME NEW a \in Seq(Unit), WellFormed(a, FALSE)
    PROVE  WellFormed(a \o <<Break>>, TRUE)
  <1> DEFINE z == <<Break>>
             d == a \o z
  <1>1. Len(a) \in Nat /\ Len(a) > 0 /\ a[1] = Header
    BY ListOf DEF WellFormed
  <1>2. z \in Seq(Unit) /\ Len(z) = 1 /\ z[1] = Break
    BY OneUnit, UnitKinds
  <1> HIDE DEF z
  <1>3. /\ d \in Seq(Unit) /\ Len(d) = Len(a) + 1
        /\ \A i \in 1 .. Len(a) : d[i] = a[i]
        /\ d[Len(a) + 1] = z[1]
    <2>1. /\ d \in Seq(Unit) /\ Len(d) = Len(a) + Len(z)
          /\ \A i \in 1 .. Len(a) : d[i] = a[i]
          /\ \A i \in 1 .. Len(z) : d[Len(a) + i] = z[i]
      BY <1>2, Joined
    <2>2. 1 \in 1 .. Len(z)
      BY <1>2
    <2> HIDE DEF d
    <2> QED
      BY <1>2, <2>1, <2>2
  <1> HIDE DEF d
  <1>4. Len(d) > 1 /\ d[1] = Header /\ d[Len(d)] = Break
    BY <1>1, <1>2, <1>3
  <1>5. ASSUME NEW i \in 2 .. Len(d) - 1
        PROVE  /\ d[i].kind = "message"
               /\ d[i].part > 1 => d[i - 1] = [d[i] EXCEPT !.part = @ - 1]
    <2>1. i \in 2 .. Len(a) /\ d[i] = a[i] /\ d[i - 1] = a[i - 1]
      BY <1>1, <1>3
    <2> QED
      BY <2>1 DEF WellFormed
  <1> QED
    BY <1>4, <1>5, <1>1, <1>3 DEF WellFormed, d, z

LEMMA FrontOf ==
    ASSUME NEW a \in Seq(Unit), NEW b \in Seq(Unit), a # <<>>, WellFormed(a \o b, FALSE)
    PROVE  WellFormed(a, FALSE)
  <1>1. Len(a) \in Nat /\ Len(b) \in Nat /\ Len(a) > 0
    BY ListOf
  <1>2. Len(a \o b) = Len(a) + Len(b) /\ \A i \in 1 .. Len(a) : (a \o b)[i] = a[i]
    BY Joined
  <1>3. a[1] = Header
    BY <1>1, <1>2 DEF WellFormed
  <1>4. ASSUME NEW i \in 2 .. Len(a)
        PROVE  /\ a[i].kind = "message"
               /\ a[i].part > 1 => a[i - 1] = [a[i] EXCEPT !.part = @ - 1]
    <2>1. i \in 2 .. Len(a \o b) /\ (a \o b)[i] = a[i] /\ (a \o b)[i - 1] = a[i - 1]
      BY <1>1, <1>2
    <2> QED
      BY <2>1 DEF WellFormed
  <1> QED
    BY <1>1, <1>3, <1>4 DEF WellFormed

LEMMA JoinedTwice ==
    ASSUME NEW a \in Seq(Unit), NEW b \in Seq(Unit), NEW d \in Seq(Unit)
    PROVE  (a \o b) \o d = a \o (b \o d)
  <1> DEFINE ab == a \o b
             bd == b \o d
             l == ab \o d
             r == a \o bd
  <1>1. /\ Len(a) \in Nat /\ Len(b) \in Nat /\ Len(d) \in Nat
        /\ ab \in Seq(Unit) /\ Len(ab) = Len(a) + Len(b)
        /\ bd \in Seq(Unit) /\ Len(bd) = Len(b) + Len(d)
    BY ListOf, Joined
  <1>2. /\ \A i \in 1 .. Len(a) + Len(b) : ab[i] = IF i <= Len(a) THEN a[i] ELSE b[i - Len(a)]
        /\ \A i \in 1 .. Len(b) + Len(d) : bd[i] = IF i <= Len(b) THEN b[i] ELSE d[i - Len(b)]
    BY ConcatProperties
  <1> HIDE DEF ab, bd
  <1>3. /\ l \in Seq(Unit) /\ Len(l) = Len(ab) + Len(d)
        /\ \A i \in 1 .. Len(ab) + Len(d) : l[i] = IF i <= Len(ab) THEN ab[i] ELSE d[i - Len(ab)]
    BY <1>1, ConcatProperties
  <1>4. /\ r \in Seq(Unit) /\ Len(r) = Len(a) + Len(bd)
        /\ \A i \in 1 .. Len(a) + Len(bd) : r[i] = IF i <= Len(a) THEN a[i] ELSE bd[i - Len(a)]
    <2>1. bd \in Seq(Unit)
      BY <1>1
    <2> QED
      BY <2>1, ConcatProperties
  <1> HIDE DEF l, r
  <1>5. Len(l) = Len(r)
    BY <1>1, <1>3, <1>4
  <1>6. ASSUME NEW i \in 1 .. Len(l)
        PROVE  l[i] = r[i]
    <2>1. i \in 1 .. Len(ab) + Len(d) /\ i \in 1 .. Len(a) + Len(bd)
      BY <1>1, <1>3
    <2>2. CASE i <= Len(a)
      <3>1. i \in 1 .. Len(a) + Len(b) /\ i <= Len(ab)
        BY <1>1, <2>1, <2>2
      <3>2. ab[i] = a[i]
        BY <1>2, <2>2, <3>1
      <3>3. r[i] = a[i]
        BY <1>4, <2>1, <2>2
      <3> QED
        BY <1>3, <2>1, <3>1, <3>2, <3>3
    <2>3. CASE i > Len(a)
      <3> DEFINE j == i - Len(a)
      <3>1. j \in 1 .. Len(b) + Len(d) /\ r[i] = bd[j]
        BY <1>1, <1>4, <2>1, <2>3
      <3>2. bd[j] = IF j <= Len(b) THEN b[j] ELSE d[j - Len(b)]
        BY <1>2, <3>1
      <3>3. CASE i <= Len(ab)
        <4>1. l[i] = ab[i] /\ ab[i] = b[j] /\ j <= Len(b)
          BY <1>1, <1>2, <1>3, <2>1, <2>3, <3>3
        <4> QED
          BY <3>1, <3>2, <4>1
      <3>4. CASE i > Len(ab)
        <4>1. l[i] = d[i - Len(ab)] /\ i - Len(ab) = j - Len(b) /\ ~(j <= Len(b))
          BY <1>1, <1>3, <2>1, <3>4
        <4> QED
          BY <3>1, <3>2, <4>1
      <3> QED
        BY <1>1, <3>3, <3>4
    <2> QED
      BY <1>1, <2>2, <2>3
  <1>7. l = r
    BY <1>3, <1>4, <1>5, <1>6, SeqEqual
  <1> QED
    BY <1>7 DEF l, r, ab, bd

LEMMA SameLength ==
    ASSUME NEW k \in Nat, NEW l \in Nat, 1 .. k = 1 .. l
    PROVE  k = l
  <1>1. CASE k < l
    <2>1. l \in 1 .. l /\ l \notin 1 .. k
      BY <1>1
    <2> QED
      BY <2>1
  <1>2. CASE l < k
    <2>1. k \in 1 .. k /\ k \notin 1 .. l
      BY <1>2
    <2> QED
      BY <2>1
  <1> QED
    BY <1>1, <1>2

\* The last file and what is behind it, when some units are added.
Extended(c, b, c2, b2, z) ==
    /\ Len(c2) = Len(c) /\ DOMAIN c2 = DOMAIN c /\ Len(c) \in DOMAIN c
    /\ c2[Len(c)] \o b2 = (c[Len(c)] \o b) \o z
    /\ c[Len(c)] # <<>> => c2[Len(c)] # <<>>
    /\ \A r \in DOMAIN c : r # Len(c) => c2[r] = c[r]

LEMMA AddsText ==
    ASSUME NEW c \in Files, NEW c2 \in Files, NEW b \in Seq(Unit), NEW b2 \in Seq(Unit),
           NEW z \in Seq(Unit), Adds(c, b, c2, b2, z), c # <<>>
    PROVE  Extended(c, b, c2, b2, z)
  <1> DEFINE k == Len(c)
  <1>1. PICK x \in Seq(Unit), y \in Seq(Unit) :
           /\ x \o y = b \o z /\ b2 = y
           /\ DOMAIN c2 = DOMAIN c
           /\ \A r \in DOMAIN c : c2[r] = IF r = k THEN c[r] \o x ELSE c[r]
    BY DEF Adds
  <1>2. k \in DOMAIN c /\ c[k] \in Seq(Unit)
    BY FilesAre
  <1>3. Len(c2) = k
    <2>1. /\ Len(c2) \in Nat /\ DOMAIN c2 = 1 .. Len(c2)
          /\ k \in Nat /\ DOMAIN c = 1 .. k
      BY FilesAre
    <2> HIDE DEF k
    <2> QED
      BY <1>1, <2>1, SameLength
  <1>4. c2[k] = c[k] \o x
    BY <1>1, <1>2
  <1> DEFINE e == c[k]
  <1>8. e \in Seq(Unit)
    BY <1>2
  <1> HIDE DEF e
  <1>5. (e \o x) \o y = e \o (b \o z)
    <2>1. (e \o x) \o y = e \o (x \o y)
      BY <1>8, JoinedTwice, ZenonT(40)
    <2> QED
      BY <1>1, <2>1
  <1>6. (e \o b) \o z = e \o (b \o z)
    BY <1>8, JoinedTwice
  <1>7. e # <<>> => e \o x # <<>>
    BY <1>8, ConcatEqualIffEmpty
  <1> QED
    BY <1>1, <1>2, <1>3, <1>4, <1>5, <1>6, <1>7 DEF e, Extended
-----------------------------------------------------------------------------
(* What the steps of a sink do to what is stored.                           *)

Container == [content : Seq(Unit), size : Nat]
StorageInv ==
    /\ buffer \in [Sinks -> Seq(Unit)] /\ \A s \in Sinks : Len(buffer[s]) <= Capacity
    /\ containers \in [Sinks -> Seq(Container)]
    /\ backing \in [Sinks -> Nat] /\ \A s \in Sinks : backing[s] \in {0, Len(containers[s])}
    /\ out \in Seq(Known)
    /\ step # "idle" => at \in Sinks
    /\ step \in {"break", "release", "resource", "header", "finish"} => backing[at] # 0

\* One sink's storage is changed in one of four ways.
OthersKept(s) ==
    \A t \in Sinks \ {s} : Contents(t)' = Contents(t) /\ buffer'[t] = buffer[t] /\ backing'[t] = backing[t]
Keeps(s) == OthersKept(s) /\ Contents(s)' = Contents(s) /\ buffer'[s] = buffer[s]
Takes(s, z) == OthersKept(s) /\ Adds(Contents(s), buffer[s], Contents(s)', buffer'[s], z)
Opens(s) == OthersKept(s) /\ Contents(s)' = Append(Contents(s), <<>>) /\ buffer'[s] = buffer[s]
Replaces(s, y) == OthersKept(s) /\ Contents(s)' = Contents(s) /\ buffer'[s] = y

LEMMA ContentsOf ==
    ASSUME NEW files \in Seq(Container), NEW d, d = [r \in DOMAIN files |-> files[r].content]
    PROVE  /\ d \in Files /\ Len(d) = Len(files)
           /\ DOMAIN d = 1 .. Len(files) /\ Len(files) \in Nat
           /\ DOMAIN files = 1 .. Len(files)
           /\ \A r \in 1 .. Len(files) : files[r] \in Container /\ d[r] = files[r].content
  <1> DEFINE n == Len(files)
  <1>1. n \in Nat /\ DOMAIN files = 1 .. n /\ \A r \in 1 .. n : files[r] \in Container
    BY LenProperties, ElementOfSeq
  <1> HIDE DEF n
  <1>2. d \in [1 .. n -> Seq(Unit)]
    <2>1. \A r \in 1 .. n : files[r].content \in Seq(Unit)
      BY <1>1 DEF Container
    <2> QED
      BY <1>1, <2>1
  <1>3. d \in Files
    BY <1>1, <1>2, SeqDef DEF Files
  <1>4. Len(d) = n
    <2>1. Len(d) \in Nat /\ 1 .. Len(d) = 1 .. n
      BY <1>2, <1>3, FilesAre
    <2> QED
      BY <1>1, <2>1, SameLength
  <1> QED
    BY <1>1, <1>2, <1>3, <1>4 DEF n

LEMMA ContentsAre ==
    ASSUME NEW s \in Sinks, containers \in [Sinks -> Seq(Container)]
    PROVE  /\ Contents(s) \in Files /\ Len(Contents(s)) = Len(containers[s])
           /\ DOMAIN Contents(s) = 1 .. Len(containers[s]) /\ Len(containers[s]) \in Nat
           /\ DOMAIN containers[s] = 1 .. Len(containers[s])
           /\ \A r \in 1 .. Len(containers[s]) :
                 containers[s][r] \in Container /\ Contents(s)[r] = containers[s][r].content
  <1> DEFINE files == containers[s]
             d == Contents(s)
  <1>1. files \in Seq(Container) /\ d = [r \in DOMAIN files |-> files[r].content]
    BY DEF Contents
  <1> HIDE DEF files, d
  <1>2. /\ d \in Files /\ Len(d) = Len(files)
        /\ DOMAIN d = 1 .. Len(files) /\ Len(files) \in Nat
        /\ DOMAIN files = 1 .. Len(files)
        /\ \A r \in 1 .. Len(files) : files[r] \in Container /\ d[r] = files[r].content
    BY <1>1, ContentsOf
  <1> QED
    BY <1>2 DEF files, d

LEMMA StoredNext ==
    ASSUME NEW s \in Sinks, StorageInv'
    PROVE  Contents(s)' \in Files /\ buffer'[s] \in Seq(Unit) /\ Len(Contents(s)') = Len(containers'[s])
  <1> DEFINE files == containers'[s]
             d == Contents(s)'
  <1>1. files \in Seq(Container) /\ d = [r \in DOMAIN files |-> files[r].content]
    BY DEF Contents, StorageInv
  <1> HIDE DEF files, d
  <1>2. d \in Files /\ Len(d) = Len(files)
    BY <1>1, ContentsOf
  <1> QED
    BY <1>2 DEF files, d, StorageInv

\* Some of the buffer and of what comes behind it is written.
LEMMA WritesTakes ==
    ASSUME StorageInv, NEW s \in Sinks, at = s, NEW x \in Seq(Unit), NEW y \in Seq(Unit),
           NEW z \in Seq(Unit), Writes(x, y), x \o y = buffer[s] \o z, Len(y) <= Capacity
    PROVE  /\ Takes(s, z) /\ backing' = backing /\ backing[s] # 0
           /\ buffer' \in [Sinks -> Seq(Unit)] /\ \A t \in Sinks : Len(buffer'[t]) <= Capacity
           /\ containers' \in [Sinks -> Seq(Container)]
           /\ \A t \in Sinks : backing'[t] \in {0, Len(containers'[t])}
  <1> DEFINE c == containers[s]
             k == backing[s]
             file == [c[k] EXCEPT !.content = @ \o x]
             c2 == [c EXCEPT ![k] = file]
  <1>1. /\ buffer \in [Sinks -> Seq(Unit)] /\ containers \in [Sinks -> Seq(Container)]
        /\ \A t \in Sinks : Len(buffer[t]) <= Capacity
        /\ \A t \in Sinks : backing[t] \in {0, Len(containers[t])}
    BY DEF StorageInv
  <1>2. /\ k # 0 /\ buffer' = [buffer EXCEPT ![s] = y] /\ backing' = backing
        /\ containers' = [containers EXCEPT ![s] = c2]
    BY DEF Writes, Buffers
  <1>3. /\ Contents(s) \in Files /\ Len(Contents(s)) = k /\ k = Len(c) /\ k \in 1 .. Len(c)
        /\ DOMAIN Contents(s) = 1 .. Len(c) /\ c \in Seq(Container)
        /\ \A r \in 1 .. Len(c) : c[r] \in Container /\ Contents(s)[r] = c[r].content
    BY <1>1, <1>2, ContentsAre
  <1>4. file \in Container /\ file.content = c[k].content \o x
    <2>1. c[k] \in Container
      BY <1>3
    <2>2. c[k].content \o x \in Seq(Unit)
      <3>1. c[k].content \in Seq(Unit)
        BY <2>1 DEF Container
      <3> QED
        BY <3>1, Joined
    <2> QED
      BY <2>1, <2>2 DEF Container
  <1> HIDE DEF file
  <1>5. /\ c2 \in Seq(Container) /\ Len(c2) = Len(c)
        /\ \A r \in 1 .. Len(c) : c2[r] = IF r = k THEN file ELSE c[r]
    BY <1>3, <1>4, ExceptSeq
  <1> HIDE DEF c2, c
  <1>6. containers' \in [Sinks -> Seq(Container)] /\ containers'[s] = c2
        /\ \A t \in Sinks \ {s} : containers'[t] = containers[t]
    BY <1>1, <1>2, <1>5
  <1>7. OthersKept(s)
    BY <1>1, <1>2, <1>6 DEF OthersKept, Contents
  <1>8. /\ DOMAIN Contents(s)' = 1 .. Len(c)
        /\ \A r \in 1 .. Len(c) : Contents(s)'[r] = c2[r].content
    <2>1. DOMAIN c2 = 1 .. Len(c)
      BY <1>5, LenProperties
    <2>2. Contents(s)' = [r \in DOMAIN c2 |-> c2[r].content]
      BY <1>6 DEF Contents
    <2> QED
      BY <2>1, <2>2
  <1>9. ASSUME NEW r \in 1 .. Len(c)
        PROVE  Contents(s)'[r] = IF r = k THEN Contents(s)[r] \o x ELSE Contents(s)[r]
    <2>1. Contents(s)'[r] = c2[r].content /\ Contents(s)[r] = c[r].content
      BY <1>3, <1>8
    <2>2. CASE r = k
      <3>1. c2[r] = file /\ c[r].content = c[k].content
        BY <1>5, <2>2
      <3> QED
        BY <1>4, <2>1, <2>2, <3>1
    <2>3. CASE r # k
      BY <1>5, <2>1, <2>3
    <2> QED
      BY <2>2, <2>3
  <1>10. Contents(s) # <<>>
    BY <1>2, <1>3, EmptySeq
  <1>11. buffer'[s] = y /\ buffer' \in [Sinks -> Seq(Unit)] /\ \A t \in Sinks : Len(buffer'[t]) <= Capacity
    BY <1>1, <1>2
  <1>12. Takes(s, z)
    <2> DEFINE d == Contents(s)
               d2 == Contents(s)'
    <2>1. DOMAIN d = 1 .. Len(c) /\ DOMAIN d2 = 1 .. Len(c) /\ Len(d) = k /\ d # <<>>
      BY <1>3, <1>8, <1>10
    <2>2. \A r \in 1 .. Len(c) : d2[r] = IF r = k THEN d[r] \o x ELSE d[r]
      BY <1>9
    <2>3. x \o y = buffer[s] \o z /\ buffer'[s] = y
      BY <1>11
    <2> HIDE DEF d, d2
    <2>4. Adds(d, buffer[s], d2, buffer'[s], z)
      BY <2>1, <2>2, <2>3 DEF Adds
    <2> QED
      BY <1>7, <2>4 DEF Takes, d, d2
  <1>13. \A t \in Sinks : backing'[t] \in {0, Len(containers'[t])}
    BY <1>1, <1>2, <1>5, <1>6 DEF c
  <1> QED
    BY <1>2, <1>6, <1>11, <1>12, <1>13
LEMMA AddsBuffered ==
    ASSUME NEW c \in Files, NEW b \in Seq(Unit), NEW z \in Seq(Unit)
    PROVE  Adds(c, b, c, b \o z, z)
  <1> DEFINE y == b \o z
  <1>1. y \in Seq(Unit) /\ <<>> \in Seq(Unit)
    BY Joined, NoUnit
  <1>2. <<>> \o y = y
    BY <1>1, ConcatEmptySeq
  <1>3. \A r \in DOMAIN c : c[r] = c[r] \o <<>>
    BY FilesAre, ConcatEmptySeq
  <1> QED
    BY <1>1, <1>2, <1>3 DEF Adds

LEMMA AddsNothing ==
    ASSUME NEW c \in Files, NEW b \in Seq(Unit)
    PROVE  Adds(c, b, c, b, <<>>)
  <1>1. b \o <<>> = b
    BY ConcatEmptySeq
  <1> QED
    BY <1>1, AddsBuffered, NoUnit

LEMMA HeadOut ==
    ASSUME StorageInv, out # <<>>
    PROVE  Head(out) \in Known /\ Tail(out) \in Seq(Known) /\ <<>> \in Seq(Known)
  BY HeadTailProperties, EmptySeq DEF StorageInv

\* The steps that leave what is stored where it is.
KeepsStored ==
    \/ PassOver \/ AllWritten \/ FlushFails \/ KeepFile \/ WriteBreakFails \/ StepFails
    \/ ReleaseFile \/ NothingToFinalise \/ EmitBreakFails

LEMMA RegistersKeeps ==
    ASSUME StorageInv, NEW s \in Sinks, NEW r, Registers(s, r), backing[s] # 0
    PROVE  /\ containers' \in [Sinks -> Seq(Container)]
           /\ \A t \in Sinks : Contents(t)' = Contents(t) /\ Len(containers'[t]) = Len(containers[t])
  <1>1. containers \in [Sinks -> Seq(Container)] /\ backing[s] = Len(containers[s])
    BY DEF StorageInv
  <1>2. CASE UNCHANGED containers
    BY <1>1, <1>2 DEF Contents
  <1>3. CASE ~UNCHANGED containers
    <2> DEFINE c == containers[s]
               n == Len(c[backing[s]].content)
               c2 == [c EXCEPT ![r] = [@ EXCEPT !.size = n]]
    <2>1. containers' = [containers EXCEPT ![s] = c2]
      BY <1>3 DEF Registers
    <2>2. /\ c \in Seq(Container) /\ DOMAIN c = 1 .. Len(c) /\ Len(c) \in Nat
          /\ \A i \in 1 .. Len(c) : c[i] \in Container
      BY <1>1, ContentsAre
    <2>3. n \in Nat
      <3>1. backing[s] \in 1 .. Len(c)
        BY <1>1, <2>2
      <3>2. c[backing[s]].content \in Seq(Unit)
        BY <2>2, <3>1 DEF Container
      <3> QED
        BY <3>2, ListOf
    <2> HIDE DEF c, n
    <2>4. /\ DOMAIN c2 = 1 .. Len(c)
          /\ \A i \in 1 .. Len(c) : c2[i] \in Container /\ c2[i].content = c[i].content
      BY <2>2, <2>3 DEF Container
    <2> HIDE DEF c2
    <2>5. c2 \in Seq(Container) /\ Len(c2) = Len(c)
      <3>1. c2 \in [1 .. Len(c) -> Container]
        <4>1. c2 = [i \in DOMAIN c2 |-> c2[i]]
          BY <2>2 DEF c2
        <4> QED
          BY <2>4, <4>1
      <3>2. c2 \in Seq(Container)
        BY <2>2, <3>1, SeqDef
      <3>3. Len(c2) \in Nat /\ 1 .. Len(c2) = 1 .. Len(c)
        BY <2>4, <3>2, LenProperties
      <3> QED
        BY <2>2, <3>2, <3>3, SameLength
    <2>6. containers' \in [Sinks -> Seq(Container)] /\ containers'[s] = c2
          /\ \A t \in Sinks \ {s} : containers'[t] = containers[t]
      BY <1>1, <2>1, <2>5
    <2>7. Contents(s)' = Contents(s)
      <3>1. Contents(s)' = [i \in DOMAIN c2 |-> c2[i].content]
        BY <2>6 DEF Contents
      <3>2. Contents(s) = [i \in DOMAIN c |-> c[i].content]
        BY DEF Contents, c
      <3> QED
        BY <2>2, <2>4, <3>1, <3>2
    <2>8. \A t \in Sinks \ {s} : Contents(t)' = Contents(t)
      BY <2>6 DEF Contents
    <2> QED
      BY <2>5, <2>6, <2>7, <2>8 DEF c
  <1> QED
    BY <1>2, <1>3

LEMMA KeepingSteps ==
    ASSUME StorageInv, NEW s \in Sinks, at = s, KeepsStored
    PROVE  StorageInv' /\ Keeps(s)
  <1>1. /\ buffer \in [Sinks -> Seq(Unit)] /\ \A t \in Sinks : Len(buffer[t]) <= Capacity
        /\ containers \in [Sinks -> Seq(Container)]
        /\ backing \in [Sinks -> Nat] /\ \A t \in Sinks : backing[t] \in {0, Len(containers[t])}
        /\ out \in Seq(Known) /\ (step \in {"break", "release"} => backing[s] # 0)
    BY DEF StorageInv
  <1>2. CASE PassOver \/ AllWritten \/ FlushFails \/ KeepFile \/ StepFails \/ NothingToFinalise \/ EmitBreakFails
    <2>1. UNCHANGED <<buffer, containers, backing, at>>
      BY <1>2 DEF PassOver, AllWritten, FlushFails, KeepFile, StepFails, NothingToFinalise,
                  EmitBreakFails, WriteFails, Goes
    <2>2. out' = out \/ out' = <<>> \/ (out # <<>> /\ out' = Tail(out))
      BY <1>2 DEF PassOver, AllWritten, FlushFails, KeepFile, StepFails, NothingToFinalise,
                  EmitBreakFails, WriteFails, Goes
    <2>3. out' \in Seq(Known)
      BY <1>1, <2>2, HeadOut, EmptySeq
    <2>4. step' \in {"break", "release", "resource", "header", "finish"} => backing[s] # 0
      BY <1>2 DEF PassOver, AllWritten, FlushFails, KeepFile, StepFails, NothingToFinalise,
                  EmitBreakFails, WriteFails, Goes
    <2> QED
      BY <1>1, <2>1, <2>3, <2>4 DEF StorageInv, Keeps, OthersKept, Contents
  <1>3. CASE WriteBreakFails
    <2>1. /\ UNCHANGED <<buffer, containers, at>> /\ backing' = [backing EXCEPT ![s] = 0]
          /\ out' = <<>> /\ step' = "failed"
      BY <1>3 DEF WriteBreakFails, WriteFails, Goes
    <2>2. out' \in Seq(Known)
      BY <2>1, EmptySeq
    <2> QED
      BY <1>1, <2>1, <2>2 DEF StorageInv, Keeps, OthersKept, Contents
  <1>4. CASE ReleaseFile
    <2>1. /\ UNCHANGED <<buffer, at, out>> /\ backing' = [backing EXCEPT ![s] = 0]
          /\ step' = "create" /\ Registers(s, backing[s]) /\ step = "release"
      BY <1>4 DEF ReleaseFile, Goes
    <2>2. /\ containers' \in [Sinks -> Seq(Container)]
          /\ \A t \in Sinks : Contents(t)' = Contents(t) /\ Len(containers'[t]) = Len(containers[t])
      BY <1>1, <2>1, RegistersKeeps
    <2>3. Keeps(s)
      BY <1>1, <2>1, <2>2 DEF Keeps, OthersKept
    <2> QED
      BY <1>1, <2>1, <2>2, <2>3 DEF StorageInv
  <1> QED
    BY <1>2, <1>3, <1>4 DEF KeepsStored
LEMMA BufferedTakes ==
    ASSUME StorageInv, NEW s \in Sinks, at = s, NEW z \in Seq(Unit), Buffers(buffer[s] \o z),
           containers' = containers, backing' = backing, Len(buffer[s]) + Len(z) <= Capacity
    PROVE  /\ Takes(s, z) /\ buffer' \in [Sinks -> Seq(Unit)]
           /\ \A t \in Sinks : Len(buffer'[t]) <= Capacity
  <1> DEFINE b == buffer[s]
             y == b \o z
  <1>1. /\ buffer \in [Sinks -> Seq(Unit)] /\ containers \in [Sinks -> Seq(Container)]
        /\ \A t \in Sinks : Len(buffer[t]) <= Capacity
    BY DEF StorageInv
  <1>2. b \in Seq(Unit) /\ y \in Seq(Unit) /\ Len(y) <= Capacity
    BY <1>1, Joined
  <1>3. Contents(s) \in Files
    BY <1>1, ContentsAre
  <1>4. Adds(Contents(s), b, Contents(s), y, z)
    BY <1>2, <1>3, AddsBuffered
  <1>5. buffer' = [buffer EXCEPT ![s] = y]
    BY DEF Buffers
  <1> HIDE DEF y
  <1>6. buffer'[s] = y /\ buffer' \in [Sinks -> Seq(Unit)]
        /\ \A t \in Sinks \ {s} : buffer'[t] = buffer[t]
    BY <1>1, <1>2, <1>5
  <1>7. OthersKept(s) /\ Contents(s)' = Contents(s)
    BY <1>6 DEF OthersKept, Contents
  <1> QED
    BY <1>1, <1>2, <1>4, <1>6, <1>7 DEF Takes

LEMMA Sizes ==
    ASSUME StorageInv, NEW s \in Sinks, at = s
    PROVE  /\ buffer[s] \in Seq(Unit) /\ Len(buffer[s]) \in Nat /\ Room \in Nat
           /\ Room = Capacity - Len(buffer[s]) /\ Capacity \in Nat \ {0}
           /\ containers \in [Sinks -> Seq(Container)] /\ Contents(s) \in Files
           /\ buffer \in [Sinks -> Seq(Unit)] /\ backing \in [Sinks -> Nat]
           /\ \A t \in Sinks : backing[t] \in {0, Len(containers[t])}
  <1>1. /\ buffer \in [Sinks -> Seq(Unit)] /\ containers \in [Sinks -> Seq(Container)]
        /\ Len(buffer[s]) <= Capacity
    BY DEF StorageInv
  <1>2. buffer[s] \in Seq(Unit) /\ Len(buffer[s]) \in Nat
    BY <1>1, ListOf
  <1> QED
    BY <1>1, <1>2, CapacityAssumption, ContentsAre DEF StorageInv, Room

\* A message that the sink wants comes behind all it has.
LEMMA WriteTakes ==
    ASSUME StorageInv, NEW s \in Sinks, at = s, WriteBuffered \/ WriteThrough
    PROVE  /\ StorageInv' /\ Takes(s, Units(Head(out))) /\ backing' = backing
           /\ WriteThrough => backing[s] # 0
  <1> DEFINE m == Head(out)
             u == Units(m)
             b == buffer[s]
  <1>1. m \in Known /\ Tail(out) \in Seq(Known)
    BY HeadOut DEF WriteBuffered, WriteThrough, MayWrite
  <1>2. u \in Seq(Unit) /\ Len(u) = m.size /\ m.size \in Nat
    BY <1>1, UnitsAre
  <1>3. out' = Tail(out) /\ step' = "write" /\ at' = at
    BY DEF WriteBuffered, WriteThrough, Goes
  <1>4. CASE WriteBuffered
    <2>1. /\ m.size <= Room /\ Buffers(b \o u) /\ containers' = containers /\ backing' = backing
          /\ ~WriteThrough
      BY <1>4 DEF WriteBuffered, WriteThrough, Fits
    <2> HIDE DEF u, m
    <2>2. Len(buffer[s]) + Len(u) <= Capacity
      BY <1>2, <2>1, Sizes
    <2>3. /\ Takes(s, u) /\ buffer' \in [Sinks -> Seq(Unit)]
          /\ \A t \in Sinks : Len(buffer'[t]) <= Capacity
      BY <1>2, <2>1, <2>2, BufferedTakes
    <2> QED
      BY <1>1, <1>3, <2>1, <2>3 DEF StorageInv, u, m
  <1>5. CASE WriteThrough
    <2>1. PICK k \in SplitAt : Spilled(SubSeq(u, 1, k), SubSeq(u, k + 1, m.size))
      BY <1>5 DEF WriteThrough
    <2> DEFINE first == SubSeq(u, 1, k)
               rest == SubSeq(u, k + 1, m.size)
    <2>2. k \in 0 .. m.size
      <3>1. ~(m.size <= Room)
        BY <1>5 DEF WriteThrough, Fits
      <3> HIDE DEF m
      <3> QED
        BY <1>2, <3>1, Sizes DEF SplitAt
    <2>3. first \in Seq(Unit) /\ rest \in Seq(Unit) /\ first \o rest = u
      BY <1>1, <2>2, Splits
    <2>4. Spilled(first, rest)
      BY <2>1
    <2> HIDE DEF first, rest, u, m
    <2>5. b \in Seq(Unit) /\ b \o first \in Seq(Unit) /\ (b \o first) \o rest = b \o u
      <3>1. b \in Seq(Unit)
        BY Sizes
      <3>2. (b \o first) \o rest = b \o (first \o rest)
        BY <2>3, <3>1, JoinedTwice
      <3> QED
        BY <2>3, <3>1, <3>2, Joined
    <2>6. PICK x \in Seq(Unit), y \in Seq(Unit) : Writes(x, y) /\ x \o y = b \o u /\ Len(y) <= Capacity
      <3>1. CASE Len(rest) < Capacity \div 2
        <4>1. Writes(b \o first, rest)
          BY <2>4, <3>1 DEF Spilled
        <4>2. Len(rest) <= Capacity
          BY <2>3, <3>1, ListOf, CapacityAssumption
        <4> QED
          BY <2>3, <2>5, <4>1, <4>2
      <3>2. CASE ~(Len(rest) < Capacity \div 2)
        <4> DEFINE x == (b \o first) \o rest
        <4>1. Writes(x, <<>>)
          BY <2>4, <3>2 DEF Spilled
        <4>2. x \in Seq(Unit) /\ x \o <<>> = x
          BY <2>3, <2>5, Joined, ConcatEmptySeq
        <4>3. x = b \o u
          BY <2>5
        <4> HIDE DEF x
        <4> QED
          <5>1. <<>> \in Seq(Unit) /\ Len(<<>>) <= Capacity
            BY NoUnit, CapacityAssumption
          <5>2. x \o <<>> = b \o u
            BY <4>2, <4>3
          <5> QED
            BY <4>1, <4>2, <5>1, <5>2
      <3> QED
        BY <3>1, <3>2
    <2>7. /\ Takes(s, u) /\ backing' = backing /\ backing[s] # 0
          /\ buffer' \in [Sinks -> Seq(Unit)] /\ \A t \in Sinks : Len(buffer'[t]) <= Capacity
          /\ containers' \in [Sinks -> Seq(Container)]
          /\ \A t \in Sinks : backing'[t] \in {0, Len(containers'[t])}
      BY <1>2, <2>6, WritesTakes
    <2> QED
      BY <1>1, <1>3, <2>7 DEF StorageInv, u, m
  <1> QED
    BY <1>4, <1>5

\* A message that cannot be written may be in the buffer in part.
LEMMA FailedWriteTakes ==
    ASSUME StorageInv, NEW s \in Sinks, at = s, WriteThroughFails
    PROVE  /\ StorageInv'
           /\ \E z \in Seq(Unit) : /\ Takes(s, z) /\ Ascending(z)
                                   /\ MessagesIn(z) \subseteq MessagesIn(Units(Head(out)))
  <1> DEFINE m == Head(out)
             u == Units(m)
  <1>1. m \in Known
    BY HeadOut DEF WriteThroughFails, MayWrite
  <1>2. u \in Seq(Unit) /\ Len(u) = m.size /\ m.size \in Nat
    BY <1>1, UnitsAre
  <1>3. PICK k \in SplitAt : Buffers(buffer[s] \o SubSeq(u, 1, k))
    BY DEF WriteThroughFails
  <1>4. /\ ~(m.size <= Room) /\ at' = at /\ step' = "failed" /\ out' = <<>>
        /\ containers' = containers /\ backing' = backing
    BY DEF WriteThroughFails, WriteFails, Goes, Fits
  <1>5. k \in 0 .. m.size /\ k <= Room
    <2> HIDE DEF m
    <2> QED
      BY <1>2, <1>3, <1>4, Sizes DEF SplitAt
  <1> DEFINE z == SubSeq(u, 1, k)
  <1>6. z \in Seq(Unit) /\ Len(z) = k /\ Ascending(z) /\ MessagesIn(z) \subseteq MessagesIn(u)
    BY <1>1, <1>5, Splits
  <1>7. Buffers(buffer[s] \o z)
    BY <1>3
  <1> HIDE DEF z, u, m
  <1>8. Len(buffer[s]) + Len(z) <= Capacity
    BY <1>5, <1>6, Sizes
  <1>9. /\ Takes(s, z) /\ buffer' \in [Sinks -> Seq(Unit)]
        /\ \A t \in Sinks : Len(buffer'[t]) <= Capacity
    BY <1>4, <1>6, <1>7, <1>8, BufferedTakes
  <1>10. out' \in Seq(Known)
    BY <1>4, EmptySeq
  <1> QED
    BY <1>4, <1>6, <1>9, <1>10 DEF StorageInv, u, m

LEMMA FlushTakes ==
    ASSUME StorageInv, NEW s \in Sinks, at = s, Flush \/ WriteBreak \/ WriteHeader
    PROVE  /\ StorageInv' /\ Takes(s, <<>>) /\ backing' = backing
           /\ buffer'[s] = <<>>
  <1> DEFINE b == buffer[s]
  <1>1. at' = at /\ out' = out /\ step' \in {"rotate", "release", Synced}
        /\ (step' # "rotate" => backing[s] # 0)
    BY DEF Flush, WriteBreak, WriteHeader, Goes, Writes
  <1>2. b \in Seq(Unit) /\ <<>> \in Seq(Unit) /\ Len(<<>>) <= Capacity
    BY Sizes, NoUnit, CapacityAssumption
  <1>3. CASE Writes(b, <<>>)
    <2>1. /\ Takes(s, <<>>) /\ backing' = backing /\ backing[s] # 0
          /\ buffer' \in [Sinks -> Seq(Unit)] /\ \A t \in Sinks : Len(buffer'[t]) <= Capacity
          /\ containers' \in [Sinks -> Seq(Container)]
          /\ \A t \in Sinks : backing'[t] \in {0, Len(containers'[t])}
      BY <1>2, <1>3, WritesTakes
    <2>2. buffer'[s] = <<>>
      BY <1>3, Sizes DEF Writes, Buffers
    <2> QED
      BY <1>1, <2>1, <2>2 DEF StorageInv
  <1>4. CASE b = <<>> /\ UNCHANGED <<buffer, containers, backing>> /\ step' = "rotate"
    <2>1. Takes(s, <<>>)
      BY <1>4, Sizes, AddsNothing DEF Takes, OthersKept, Contents
    <2> QED
      BY <1>1, <1>4, <2>1 DEF StorageInv
  <1>5. Writes(b, <<>>) \/ (b = <<>> /\ UNCHANGED <<buffer, containers, backing>> /\ step' = "rotate")
    BY DEF Flush, WriteBreak, WriteHeader, Goes
  <1> QED
    BY <1>3, <1>4, <1>5

LEMMA EmitBreakTakes ==
    ASSUME StorageInv, NEW s \in Sinks, at = s, EmitBreak
    PROVE  StorageInv' /\ Takes(s, <<Break>>) /\ backing' = backing /\ backing[s] # 0
  <1> DEFINE b == buffer[s]
             z == <<Break>>
  <1>1. at' = at /\ out' = out /\ step' = "flush" /\ backing[s] # 0
    BY DEF EmitBreak, Goes
  <1>2. b \in Seq(Unit) /\ z \in Seq(Unit) /\ Len(z) = 1
    BY Sizes, OneUnit, UnitKinds
  <1>3. CASE Room > 0
    <2>1. Buffers(Append(b, Break)) /\ UNCHANGED <<containers, backing>>
      BY <1>3 DEF EmitBreak
    <2>2. Append(b, Break) = b \o z
      BY <1>2, UnitKinds, AppendIsConcat
    <2> HIDE DEF z
    <2>3. Len(buffer[s]) + Len(z) <= Capacity
      BY <1>2, <1>3, Sizes
    <2>4. /\ Takes(s, z) /\ buffer' \in [Sinks -> Seq(Unit)]
          /\ \A t \in Sinks : Len(buffer'[t]) <= Capacity
      BY <1>2, <2>1, <2>2, <2>3, BufferedTakes
    <2> QED
      BY <1>1, <2>1, <2>4 DEF StorageInv, z
  <1>4. CASE ~(Room > 0)
    <2>1. Writes(b, z)
      BY <1>4 DEF EmitBreak
    <2>3. Len(z) <= Capacity
      BY <1>2, CapacityAssumption
    <2> HIDE DEF z
    <2>2. /\ Takes(s, z) /\ backing' = backing /\ backing[s] # 0
          /\ buffer' \in [Sinks -> Seq(Unit)] /\ \A t \in Sinks : Len(buffer'[t]) <= Capacity
          /\ containers' \in [Sinks -> Seq(Container)]
          /\ \A t \in Sinks : backing'[t] \in {0, Len(containers'[t])}
      BY <1>2, <2>1, <2>3, WritesTakes
    <2> QED
      BY <1>1, <2>2 DEF StorageInv, z
  <1> QED
    BY <1>3, <1>4

LEMMA CreateOpens ==
    ASSUME StorageInv, NEW s \in Sinks, at = s, CreateFile
    PROVE  /\ StorageInv' /\ Opens(s)
           /\ backing'[s] = Len(Contents(s)) + 1 /\ Len(Contents(s)) \in Nat
  <1> DEFINE c == containers[s]
             file == [content |-> <<>>, size |-> 0]
             c2 == Append(c, file)
  <1>1. c \in Seq(Container) /\ Len(c) \in Nat /\ DOMAIN c = 1 .. Len(c) /\ Len(Contents(s)) = Len(c)
    BY Sizes, ContentsAre
  <1>2. file \in Container /\ file.content = <<>>
    BY NoUnit DEF Container
  <1>3. containers' = [containers EXCEPT ![s] = c2]
    BY DEF CreateFile
  <1> HIDE DEF file, c
  <1>4. /\ c2 \in Seq(Container) /\ Len(c2) = Len(c) + 1 /\ c2[Len(c) + 1] = file
        /\ \A i \in 1 .. Len(c) : c2[i] = c[i]
    BY <1>1, <1>2, AppendProperties
  <1> HIDE DEF c2
  <1>5. containers' \in [Sinks -> Seq(Container)] /\ containers'[s] = c2
        /\ \A t \in Sinks \ {s} : containers'[t] = containers[t]
    BY <1>3, <1>4, Sizes
  <1>6. backing' = [backing EXCEPT ![s] = Len(c) + 1] /\ buffer' = buffer /\ out' = out
        /\ at' = at /\ step' = "resource"
    BY <1>4, <1>5 DEF CreateFile, Goes
  <1>7. backing' \in [Sinks -> Nat] /\ \A t \in Sinks : backing'[t] \in {0, Len(containers'[t])}
    BY <1>1, <1>4, <1>5, <1>6, Sizes DEF c
  <1>8. Contents(s)' = Append(Contents(s), <<>>)
    <2> DEFINE d == Contents(s)
               e == [i \in DOMAIN c2 |-> c2[i].content]
               f == Append(d, <<>>)
    <2>1. Contents(s)' = e
      BY <1>5 DEF Contents
    <2>2. d \in Files /\ Len(d) = Len(c) /\ \A i \in 1 .. Len(c) : d[i] = c[i].content
      BY Sizes, ContentsAre DEF c
    <2>3. DOMAIN c2 = 1 .. Len(c) + 1
      BY <1>1, <1>4, LenProperties
    <2>4. d \in Seq(Seq(Unit)) /\ <<>> \in Seq(Unit)
      BY <2>2, NoUnit DEF Files
    <2> HIDE DEF d
    <2>5. /\ f \in Seq(Seq(Unit)) /\ Len(f) = Len(c) + 1 /\ f[Len(c) + 1] = <<>>
          /\ \A i \in 1 .. Len(c) : f[i] = d[i]
      BY <2>2, <2>4, AppendProperties
    <2> HIDE DEF f
    <2>6. f = [i \in 1 .. Len(c) + 1 |-> f[i]]
      BY <2>5, LenProperties
    <2>7. \A i \in 1 .. Len(c) + 1 : f[i] = c2[i].content
      <3> SUFFICES ASSUME NEW i \in 1 .. Len(c) + 1 PROVE f[i] = c2[i].content
        OBVIOUS
      <3>1. CASE i \in 1 .. Len(c)
        BY <1>4, <2>2, <2>5, <3>1
      <3>2. CASE i = Len(c) + 1
        BY <1>2, <1>4, <2>5, <3>2
      <3> QED
        BY <1>1, <3>1, <3>2
    <2> QED
      BY <2>1, <2>3, <2>6, <2>7 DEF f, d
  <1>9. OthersKept(s)
    BY <1>5, <1>6, Sizes DEF OthersKept, Contents
  <1> QED
    <2>1. Opens(s)
      BY <1>6, <1>8, <1>9 DEF Opens
    <2>2. backing'[s] = Len(Contents(s)) + 1 /\ Len(Contents(s)) \in Nat
      BY <1>1, <1>6 DEF StorageInv
    <2>3. StorageInv'
      BY <1>5, <1>6, <1>7 DEF StorageInv
    <2> QED
      BY <2>1, <2>2, <2>3

LEMMA ReplacingSteps ==
    ASSUME StorageInv, NEW s \in Sinks, at = s, EndFile \/ EncodeHeader \/ CloseFile
    PROVE  /\ StorageInv'
           /\ EndFile => Replaces(s, <<Break>>) /\ backing'[s] = backing[s]
           /\ EncodeHeader => Replaces(s, <<Header>>) /\ backing'[s] = backing[s]
           /\ CloseFile => Replaces(s, <<>>) /\ backing'[s] = 0
  <1>1. /\ <<Break>> \in Seq(Unit) /\ Len(<<Break>>) <= Capacity
        /\ <<Header>> \in Seq(Unit) /\ Len(<<Header>>) <= Capacity
        /\ <<>> \in Seq(Unit) /\ Len(<<>>) <= Capacity
    BY OneUnit, UnitKinds, NoUnit, CapacityAssumption
  <1>2. /\ buffer \in [Sinks -> Seq(Unit)] /\ \A t \in Sinks : Len(buffer[t]) <= Capacity
        /\ containers \in [Sinks -> Seq(Container)] /\ backing \in [Sinks -> Nat]
        /\ \A t \in Sinks : backing[t] \in {0, Len(containers[t])}
        /\ out \in Seq(Known) /\ (step \in {"resource", "finish"} => backing[s] # 0)
    BY DEF StorageInv
  <1>3. ASSUME NEW y \in Seq(Unit), Len(y) <= Capacity, Buffers(y)
        PROVE  /\ buffer' \in [Sinks -> Seq(Unit)] /\ buffer'[s] = y
               /\ \A t \in Sinks \ {s} : buffer'[t] = buffer[t]
               /\ \A t \in Sinks : Len(buffer'[t]) <= Capacity
    <2>1. buffer' = [buffer EXCEPT ![s] = y]
      BY <1>3 DEF Buffers
    <2> QED
      BY <1>2, <1>3, <2>1
  <1>4. CASE EndFile
    <2>1. Buffers(<<Break>>) /\ UNCHANGED <<containers, backing, out, at>> /\ step' = "break"
          /\ backing[s] # 0
      BY <1>4 DEF EndFile, Goes
    <2>2. Replaces(s, <<Break>>)
      BY <1>1, <1>3, <2>1 DEF Replaces, OthersKept, Contents
    <2>3. StorageInv'
      BY <1>1, <1>2, <1>3, <2>1 DEF StorageInv
    <2>4. ~EncodeHeader /\ ~CloseFile
      BY <1>4 DEF EndFile, EncodeHeader, CloseFile
    <2> QED
      BY <2>1, <2>2, <2>3, <2>4
  <1>5. CASE EncodeHeader
    <2>1. Buffers(<<Header>>) /\ UNCHANGED <<containers, backing, out, at>> /\ step' = "header"
          /\ step = "resource"
      BY <1>5 DEF EncodeHeader, Goes
    <2>2. Replaces(s, <<Header>>)
      BY <1>1, <1>3, <2>1 DEF Replaces, OthersKept, Contents
    <2>3. StorageInv'
      BY <1>1, <1>2, <1>3, <2>1 DEF StorageInv
    <2>4. ~EndFile /\ ~CloseFile
      BY <1>5 DEF EndFile, EncodeHeader, CloseFile
    <2> QED
      BY <2>1, <2>2, <2>3, <2>4
  <1>6. CASE CloseFile
    <2>1. Buffers(<<>>) /\ UNCHANGED <<out, at>> /\ step' = "done" /\ step = "finish"
          /\ backing' = [backing EXCEPT ![s] = 0]
          /\ (Registers(s, current[s]) \/ UNCHANGED containers)
      BY <1>6 DEF CloseFile, Goes
    <2>2. /\ containers' \in [Sinks -> Seq(Container)]
          /\ \A t \in Sinks : Contents(t)' = Contents(t) /\ Len(containers'[t]) = Len(containers[t])
      <3>1. CASE UNCHANGED containers
        BY <1>2, <3>1 DEF Contents
      <3>2. CASE Registers(s, current[s])
        BY <1>2, <2>1, <3>2, RegistersKeeps
      <3> QED
        BY <2>1, <3>1, <3>2
    <2>3. Replaces(s, <<>>)
      BY <1>1, <1>2, <1>3, <2>1, <2>2 DEF Replaces, OthersKept
    <2>4. StorageInv' /\ backing'[s] = 0
      BY <1>1, <1>2, <1>3, <2>1, <2>2 DEF StorageInv
    <2>5. ~EndFile /\ ~EncodeHeader
      BY <1>6 DEF EndFile, EncodeHeader, CloseFile
    <2> QED
      BY <2>3, <2>4, <2>5
  <1> QED
    BY <1>4, <1>5, <1>6
-----------------------------------------------------------------------------
(* Who is called for what, and how far the call is.                         *)

Fronts == {"none", "active", "failed", "disabled", "gone"}
TypeInv ==
    /\ StorageInv
    /\ batch \in Seq(Known) /\ sent \in Nat
    /\ attached \subseteq Sinks /\ todo \subseteq Sinks /\ served \subseteq Sinks
    /\ front \in [Sinks -> Fronts] /\ offered \in [Sinks -> SUBSET Unit]

Calls == {<<"offer", "consume">>, <<"sync", "sync">>, <<"create", "make">>, <<"create", "destroy">>,
          <<"create", "abandon">>, <<"destroy", "finalize">>, <<"finalize", "finalize">>,
          <<"remove", "destroy">>, <<"remove", "abandon">>}
Rotation == {"rotate", "break", "release", "create", "resource", "header", "done", "failed"}
StepsOf(what) ==
    CASE what = "consume" -> {"write", "done", "failed"}
      [] what = "make" -> Rotation
      [] what = "sync" -> Rotation \cup {"flush"}
      [] OTHER -> Rotation \cup {"finalize", "flush", "finish"}
FrontsOf(what) ==
    CASE what = "make" -> {"none"}
      [] what \in {"destroy", "abandon"} -> {"gone", "failed"}
      [] OTHER -> {"active"}

\* There is one call at a time; who is yet to be called has not been, and works.
ControlInv ==
    /\ step # "idle" => /\ at \in Sinks \ todo /\ front[at] \in FrontsOf(op)
                        /\ <<task, op>> \in Calls /\ step \in StepsOf(op)
                        /\ op \in {"destroy", "abandon"} => at \notin attached
    /\ step = "idle" => task \in {"none", "offer", "sync"}
    /\ task = "none" => step = "idle"
    /\ todo # {} => task \in {"offer", "sync"}
    /\ \A s \in todo : Active(s)
    /\ \A s \in Sinks : /\ Active(s) => s \in attached
                        /\ front[s] = "none" => s \notin flawed /\ s \notin attached
                        /\ front[s] = "failed" => s \in flawed

\* The fabric's steps; a backend is only called by them.
FabricStep ==
    \/ BeginRetire \/ AnotherBatch \/ Offered \/ EndConsume
    \/ NotifyEpochChanged \/ SinkSynced \/ EndSync
    \/ SinkCreated \/ CreateSinkFails \/ SinkDestroyed \/ SinkFinalized
    \/ FinalizeAgain \/ SinkGone
    \/ \E s \in Sinks :
        \/ ClearLastStatus(s) \/ Offer(s) \/ Sync(s)
        \/ CreateSink(s) \/ DestroySink(s) \/ FinalizeSink(s) \/ RemoveSink(s)
SinkStep == NextSink /\ UNCHANGED fabricVars
IdleStep == (ChangeEpoch /\ UNCHANGED fabricVars) \/ UNCHANGED <<sinkVars, fabricVars>>

LEMMA StepsAre == [NextFabric]_<<sinkVars, fabricVars>> => SinkStep \/ IdleStep \/ FabricStep
  BY DEF NextFabric, SinkStep, IdleStep, FabricStep

LEMMA IdleKeeps ==
    ASSUME IdleStep
    PROVE  /\ UNCHANGED <<buffer, containers, current, backing, fileEpoch, at, op, step, out, late>>
           /\ UNCHANGED fabricVars /\ \A s \in Sinks : Contents(s)' = Contents(s)
  BY DEF IdleStep, ChangeEpoch, sinkVars, fabricVars, Contents

\* A backend goes from step to step.
Goings ==
    \/ step = "write" /\ step' \in {"write", "done", "failed"}
    \/ step = "flush" /\ step' \in {"rotate", "failed"}
    \/ step = "rotate" /\ step' \in {"resource", "break", "failed", Synced}
    \/ step = "break" /\ step' \in {"release", "failed"}
    \/ step = "release" /\ step' \in {"create", "failed"}
    \/ step = "create" /\ step' \in {"resource", "failed"}
    \/ step = "resource" /\ step' = "header"
    \/ step = "header" /\ step' \in {"failed", Synced}
    \/ step = "finalize" /\ step' \in {"done", "flush", "failed"}
    \/ step = "finish" /\ step' \in {"done", "failed"}

LEMMA SinkGoes == ASSUME NextSink PROVE UNCHANGED <<at, op, epoch>> /\ Goings
  <1>1. CASE PassOver
    BY <1>1 DEF PassOver, Goes, Goings, WriteFails, MayWrite, MayCreate
  <1>2. CASE WriteBuffered
    BY <1>2 DEF WriteBuffered, Goes, Goings, WriteFails, MayWrite, MayCreate
  <1>3. CASE WriteThrough
    BY <1>3 DEF WriteThrough, Goes, Goings, WriteFails, MayWrite, MayCreate
  <1>4. CASE WriteThroughFails
    BY <1>4 DEF WriteThroughFails, Goes, Goings, WriteFails, MayWrite, MayCreate
  <1>5. CASE AllWritten
    BY <1>5 DEF AllWritten, Goes, Goings, WriteFails, MayWrite, MayCreate
  <1>6. CASE Flush
    BY <1>6 DEF Flush, Goes, Goings, WriteFails, MayWrite, MayCreate
  <1>7. CASE FlushFails
    BY <1>7 DEF FlushFails, Goes, Goings, WriteFails, MayWrite, MayCreate
  <1>8. CASE KeepFile
    BY <1>8 DEF KeepFile, Goes, Goings, WriteFails, MayWrite, MayCreate
  <1>9. CASE EndFile
    BY <1>9 DEF EndFile, Goes, Goings, WriteFails, MayWrite, MayCreate
  <1>10. CASE WriteBreak
    BY <1>10 DEF WriteBreak, Goes, Goings, WriteFails, MayWrite, MayCreate
  <1>11. CASE WriteBreakFails
    BY <1>11 DEF WriteBreakFails, Goes, Goings, WriteFails, MayWrite, MayCreate
  <1>12. CASE StepFails
    BY <1>12 DEF StepFails, Goes, Goings, WriteFails, MayWrite, MayCreate
  <1>13. CASE ReleaseFile
    BY <1>13 DEF ReleaseFile, Goes, Goings, WriteFails, MayWrite, MayCreate
  <1>14. CASE CreateFile
    BY <1>14 DEF CreateFile, Goes, Goings, WriteFails, MayWrite, MayCreate
  <1>15. CASE EncodeHeader
    BY <1>15 DEF EncodeHeader, Goes, Goings, WriteFails, MayWrite, MayCreate
  <1>16. CASE WriteHeader
    BY <1>16 DEF WriteHeader, Goes, Goings, WriteFails, MayWrite, MayCreate
  <1>17. CASE NothingToFinalise
    BY <1>17 DEF NothingToFinalise, Goes, Goings, WriteFails, MayWrite, MayCreate
  <1>18. CASE EmitBreak
    BY <1>18 DEF EmitBreak, Goes, Goings, WriteFails, MayWrite, MayCreate
  <1>19. CASE EmitBreakFails
    BY <1>19 DEF EmitBreakFails, Goes, Goings, WriteFails, MayWrite, MayCreate
  <1>20. CASE CloseFile
    BY <1>20 DEF CloseFile, Goes, Goings, WriteFails, MayWrite, MayCreate
  <1> QED
    BY <1>1, <1>2, <1>3, <1>4, <1>5, <1>6, <1>7, <1>8, <1>9, <1>10, <1>11, <1>12, <1>13, <1>14, <1>15, <1>16, <1>17, <1>18, <1>19, <1>20 DEF NextSink

LEMMA SinkStorage ==
    ASSUME StorageInv, NextSink
    PROVE  StorageInv' /\ at \in Sinks
  <1>1. at \in Sinks
    BY SinkGoes DEF StorageInv, Goings
  <1> QED
    BY <1>1, KeepingSteps, WriteTakes, FailedWriteTakes, FlushTakes, EmitBreakTakes, CreateOpens,
       ReplacingSteps DEF NextSink, KeepsStored

LEMMA SinkControl ==
    ASSUME TypeInv, ControlInv, SinkStep
    PROVE  ControlInv'
  <1>1. /\ UNCHANGED <<at, op, task, todo, front, attached, flawed>> /\ Goings /\ step # "idle"
        /\ step' # "idle"
    BY SinkGoes DEF SinkStep, fabricVars, Goings, Synced
  <1>2. step' \in StepsOf(op)
    <2>1. step \in StepsOf(op)
      BY <1>1 DEF ControlInv
    <2> QED
      BY <1>1, <2>1 DEF Goings, StepsOf, Rotation, Synced, Finalising
  <1> QED
    BY <1>1, <1>2 DEF ControlInv, Active
\* The messages of a batch are numbered on.
LEMMA BatchesAre ==
    ASSUME NEW b \in Batches, sent \in Nat
    PROVE  /\ b \in Seq(Known) /\ Len(b) \in Nat /\ DOMAIN b = 1 .. Len(b)
           /\ \A i \in 1 .. Len(b) : b[i].n = sent + i
  <1>1. PICK k \in 1 .. BatchSize :
           /\ b \in [1 .. k -> UNION {Message(sent + i) : i \in 1 .. k}]
           /\ \A i \in 1 .. k : b[i].n = sent + i
    BY DEF Batches
  <1>2. k \in Nat
    BY BatchAssumption
  <1>3. (UNION {Message(sent + i) : i \in 1 .. k}) \subseteq Known
    <2> SUFFICES ASSUME NEW i \in 1 .. k PROVE Message(sent + i) \subseteq Known
      OBVIOUS
    <2> DEFINE n == sent + i
    <2>1. n \in Nat
      BY <1>2
    <2> HIDE DEF n
    <2>2. Message(n) \subseteq Known
      BY <2>1, BatchAssumption DEF Message, Known
    <2> QED
      BY <2>2 DEF n
  <1>4. b \in [1 .. k -> Known]
    BY <1>1, <1>3
  <1>5. b \in Seq(Known)
    BY <1>2, <1>4, SeqDef
  <1>6. Len(b) \in Nat /\ DOMAIN b = 1 .. Len(b) /\ DOMAIN b = 1 .. k
    BY <1>4, <1>5, LenProperties
  <1>7. Len(b) = k
    BY <1>2, <1>6, SameLength
  <1> QED
    BY <1>1, <1>5, <1>6, <1>7

LEMMA FabricControl ==
    ASSUME TypeInv, ControlInv, FabricStep
    PROVE  ControlInv'
  <1>1. CASE BeginRetire \/ AnotherBatch
    BY <1>1 DEF BeginRetire, AnotherBatch, NextBatch, ControlInv, TypeInv, Fronts, Returned, Fails, Start, Call, history, sinkVars, Active, StepsOf, FrontsOf, Rotation, Calls
  <1>2. CASE Offered
    BY <1>2 DEF Offered, ControlInv, TypeInv, Fronts, Returned, Fails, Start, Call, history, sinkVars, Active, StepsOf, FrontsOf, Rotation, Calls
  <1>3. CASE EndConsume
    BY <1>3 DEF EndConsume, ControlInv, TypeInv, Fronts, Returned, Fails, Start, Call, history, sinkVars, Active, StepsOf, FrontsOf, Rotation, Calls
  <1>4. CASE NotifyEpochChanged
    BY <1>4 DEF NotifyEpochChanged, ControlInv, TypeInv, Fronts, Returned, Fails, Start, Call, history, sinkVars, Active, StepsOf, FrontsOf, Rotation, Calls
  <1>5. CASE SinkSynced
    BY <1>5 DEF SinkSynced, ControlInv, TypeInv, Fronts, Returned, Fails, Start, Call, history, sinkVars, Active, StepsOf, FrontsOf, Rotation, Calls
  <1>6. CASE EndSync
    BY <1>6 DEF EndSync, ControlInv, TypeInv, Fronts, Returned, Fails, Start, Call, history, sinkVars, Active, StepsOf, FrontsOf, Rotation, Calls
  <1>7. CASE SinkCreated
    BY <1>7 DEF SinkCreated, ControlInv, TypeInv, Fronts, Returned, Fails, Start, Call, history, sinkVars, Active, StepsOf, FrontsOf, Rotation, Calls
  <1>8. CASE CreateSinkFails
    BY <1>8 DEF CreateSinkFails, ControlInv, TypeInv, Fronts, Returned, Fails, Start, Call, history, sinkVars, Active, StepsOf, FrontsOf, Rotation, Calls
  <1>9. CASE SinkDestroyed
    BY <1>9 DEF SinkDestroyed, ControlInv, TypeInv, Fronts, Returned, Fails, Start, Call, history, sinkVars, Active, StepsOf, FrontsOf, Rotation, Calls
  <1>10. CASE SinkFinalized
    BY <1>10 DEF SinkFinalized, ControlInv, TypeInv, Fronts, Returned, Fails, Start, Call, history, sinkVars, Active, StepsOf, FrontsOf, Rotation, Calls
  <1>11. CASE FinalizeAgain
    BY <1>11 DEF FinalizeAgain, ControlInv, TypeInv, Fronts, Returned, Fails, Start, Call, history, sinkVars, Active, StepsOf, FrontsOf, Rotation, Calls
  <1>12. CASE SinkGone
    BY <1>12 DEF SinkGone, ControlInv, TypeInv, Fronts, Returned, Fails, Start, Call, history, sinkVars, Active, StepsOf, FrontsOf, Rotation, Calls
  <1>13. ASSUME NEW s \in Sinks, ClearLastStatus(s) PROVE ControlInv'
    BY <1>13 DEF ClearLastStatus, ControlInv, TypeInv, Fronts, Returned, Fails, Start, Call, history, sinkVars, Active, StepsOf, FrontsOf, Rotation, Calls
  <1>14. ASSUME NEW s \in Sinks, Offer(s) PROVE ControlInv'
    BY <1>14 DEF Offer, ControlInv, TypeInv, Fronts, Returned, Fails, Start, Call, history, sinkVars, Active, StepsOf, FrontsOf, Rotation, Calls
  <1>15. ASSUME NEW s \in Sinks, Sync(s) PROVE ControlInv'
    BY <1>15 DEF Sync, ControlInv, TypeInv, Fronts, Returned, Fails, Start, Call, history, sinkVars, Active, StepsOf, FrontsOf, Rotation, Calls
  <1>16. ASSUME NEW s \in Sinks, CreateSink(s) PROVE ControlInv'
    BY <1>16 DEF CreateSink, ControlInv, TypeInv, Fronts, Returned, Fails, Start, Call, history, sinkVars, Active, StepsOf, FrontsOf, Rotation, Calls
  <1>17. ASSUME NEW s \in Sinks, DestroySink(s) PROVE ControlInv'
    BY <1>17 DEF DestroySink, ControlInv, TypeInv, Fronts, Returned, Fails, Start, Call, history, sinkVars, Active, StepsOf, FrontsOf, Rotation, Calls
  <1>18. ASSUME NEW s \in Sinks, FinalizeSink(s) PROVE ControlInv'
    BY <1>18 DEF FinalizeSink, ControlInv, TypeInv, Fronts, Returned, Fails, Start, Call, history, sinkVars, Active, StepsOf, FrontsOf, Rotation, Calls
  <1>19. ASSUME NEW s \in Sinks, RemoveSink(s) PROVE ControlInv'
    BY <1>19 DEF RemoveSink, ControlInv, TypeInv, Fronts, Returned, Fails, Start, Call, history, sinkVars, Active, StepsOf, FrontsOf, Rotation, Calls
  <1> QED
    BY <1>1, <1>2, <1>3, <1>4, <1>5, <1>6, <1>7, <1>8, <1>9, <1>10, <1>11, <1>12, <1>13, <1>14, <1>15, <1>16, <1>17, <1>18, <1>19 DEF FabricStep
\* The fabric leaves what is stored to the backends, and what a sink had goes with it.
LEMMA FabricKeeps ==
    ASSUME TypeInv, ControlInv, FabricStep, ~SinkGone
    PROVE  /\ UNCHANGED <<buffer, containers, backing, late>>
           /\ step' \in {"write", "idle", "flush", "rotate", "finalize"} \/ UNCHANGED <<at, step>>
           /\ out' \in {<<>>, batch} \/ out' = out
  <1>1. CASE BeginRetire \/ AnotherBatch
    BY <1>1 DEF BeginRetire, AnotherBatch, NextBatch, Returned, BackendUnchanged, Start, Call, sinkVars
  <1>2. CASE Offered
    BY <1>2 DEF Offered, Returned, BackendUnchanged, Start, Call, sinkVars
  <1>3. CASE EndConsume
    BY <1>3 DEF EndConsume, Returned, BackendUnchanged, Start, Call, sinkVars
  <1>4. CASE NotifyEpochChanged
    BY <1>4 DEF NotifyEpochChanged, Returned, BackendUnchanged, Start, Call, sinkVars
  <1>5. CASE SinkSynced
    BY <1>5 DEF SinkSynced, Returned, BackendUnchanged, Start, Call, sinkVars
  <1>6. CASE EndSync
    BY <1>6 DEF EndSync, Returned, BackendUnchanged, Start, Call, sinkVars
  <1>7. CASE SinkCreated
    BY <1>7 DEF SinkCreated, Returned, BackendUnchanged, Start, Call, sinkVars
  <1>8. CASE CreateSinkFails
    BY <1>8 DEF CreateSinkFails, Returned, BackendUnchanged, Start, Call, sinkVars
  <1>9. CASE SinkDestroyed
    BY <1>9 DEF SinkDestroyed, Returned, BackendUnchanged, Start, Call, sinkVars
  <1>10. CASE SinkFinalized
    BY <1>10 DEF SinkFinalized, Returned, BackendUnchanged, Start, Call, sinkVars
  <1>11. CASE FinalizeAgain
    BY <1>11 DEF FinalizeAgain, Returned, BackendUnchanged, Start, Call, sinkVars
  <1>12. ASSUME NEW s \in Sinks, ClearLastStatus(s)
        PROVE  /\ UNCHANGED <<buffer, containers, backing, late>>
               /\ step' \in {"write", "idle", "flush", "rotate", "finalize"} \/ UNCHANGED <<at, step>>
               /\ out' \in {<<>>, batch} \/ out' = out
    BY <1>12 DEF ClearLastStatus, Returned, BackendUnchanged, Start, Call, sinkVars
  <1>13. ASSUME NEW s \in Sinks, Offer(s)
        PROVE  /\ UNCHANGED <<buffer, containers, backing, late>>
               /\ step' \in {"write", "idle", "flush", "rotate", "finalize"} \/ UNCHANGED <<at, step>>
               /\ out' \in {<<>>, batch} \/ out' = out
    BY <1>13 DEF Offer, Returned, BackendUnchanged, Start, Call, sinkVars
  <1>14. ASSUME NEW s \in Sinks, Sync(s)
        PROVE  /\ UNCHANGED <<buffer, containers, backing, late>>
               /\ step' \in {"write", "idle", "flush", "rotate", "finalize"} \/ UNCHANGED <<at, step>>
               /\ out' \in {<<>>, batch} \/ out' = out
    BY <1>14 DEF Sync, Returned, BackendUnchanged, Start, Call, sinkVars
  <1>15. ASSUME NEW s \in Sinks, CreateSink(s)
        PROVE  /\ UNCHANGED <<buffer, containers, backing, late>>
               /\ step' \in {"write", "idle", "flush", "rotate", "finalize"} \/ UNCHANGED <<at, step>>
               /\ out' \in {<<>>, batch} \/ out' = out
    BY <1>15 DEF CreateSink, Returned, BackendUnchanged, Start, Call, sinkVars
  <1>16. ASSUME NEW s \in Sinks, DestroySink(s)
        PROVE  /\ UNCHANGED <<buffer, containers, backing, late>>
               /\ step' \in {"write", "idle", "flush", "rotate", "finalize"} \/ UNCHANGED <<at, step>>
               /\ out' \in {<<>>, batch} \/ out' = out
    BY <1>16 DEF DestroySink, Returned, BackendUnchanged, Start, Call, sinkVars
  <1>17. ASSUME NEW s \in Sinks, FinalizeSink(s)
        PROVE  /\ UNCHANGED <<buffer, containers, backing, late>>
               /\ step' \in {"write", "idle", "flush", "rotate", "finalize"} \/ UNCHANGED <<at, step>>
               /\ out' \in {<<>>, batch} \/ out' = out
    BY <1>17 DEF FinalizeSink, Returned, BackendUnchanged, Start, Call, sinkVars
  <1>18. ASSUME NEW s \in Sinks, RemoveSink(s)
        PROVE  /\ UNCHANGED <<buffer, containers, backing, late>>
               /\ step' \in {"write", "idle", "flush", "rotate", "finalize"} \/ UNCHANGED <<at, step>>
               /\ out' \in {<<>>, batch} \/ out' = out
    BY <1>18 DEF RemoveSink, Returned, BackendUnchanged, Start, Call, sinkVars
  <1> QED
    BY <1>1, <1>2, <1>3, <1>4, <1>5, <1>6, <1>7, <1>8, <1>9, <1>10, <1>11, <1>12, <1>13, <1>14, <1>15, <1>16, <1>17, <1>18 DEF FabricStep

LEMMA GoneForgets ==
    ASSUME TypeInv, ControlInv, SinkGone
    PROVE  /\ at \in Sinks /\ OthersKept(at) /\ buffer'[at] = <<>> /\ backing'[at] = 0
           /\ buffer' = [buffer EXCEPT ![at] = <<>>] /\ backing' = [backing EXCEPT ![at] = 0]
           /\ UNCHANGED <<containers, late>> /\ out' = <<>> /\ step' = "idle"
           /\ at \notin attached /\ UNCHANGED attached
  <1>1. /\ UNCHANGED <<containers, attached, late>> /\ out' = <<>> /\ step' = "idle" /\ step # "idle"
        /\ buffer' = [buffer EXCEPT ![at] = <<>>] /\ backing' = [backing EXCEPT ![at] = 0]
        /\ op \in {"destroy", "abandon"}
    BY DEF SinkGone, Returned
  <1>2. at \in Sinks /\ at \notin attached
    BY <1>1 DEF ControlInv
  <1> QED
    BY <1>1, <1>2 DEF OthersKept, Contents, TypeInv, StorageInv
LEMMA PassingAre ==
    ASSUME NEW s \in Sinks, NEW b \in Seq(Known)
    PROVE  /\ Passing(s, b) \subseteq Unit
           /\ \A u : u \in Passing(s, b) <=>
                \E i \in 1 .. Len(b) : Passes(s, b[i]) /\ u \in MessagesIn(Units(b[i]))
  <1>1. DOMAIN b = 1 .. Len(b) /\ \A i \in 1 .. Len(b) : b[i] \in Known
    BY LenProperties, ElementOfSeq
  <1>2. Range(b) = {b[i] : i \in 1 .. Len(b)}
    BY <1>1 DEF Range
  <1>3. ASSUME NEW u
        PROVE  u \in Passing(s, b) <=>
                 \E i \in 1 .. Len(b) : Passes(s, b[i]) /\ u \in MessagesIn(Units(b[i]))
    <2>1. u \in Passing(s, b) <=> \E m \in Range(b) : Passes(s, m) /\ u \in Range(Units(m))
      BY DEF Passing
    <2>2. \A m \in Range(b) : m \in Known
      BY <1>1, <1>2
    <2>3. \A m \in Known : MessagesIn(Units(m)) = Range(Units(m))
      BY UnitsAre
    <2> QED
      BY <1>2, <2>1, <2>2, <2>3
  <1>4. \A i \in 1 .. Len(b) : MessagesIn(Units(b[i])) \subseteq Unit
    BY <1>1, UnitsAre, MessagesAre
  <1> QED
    BY <1>3, <1>4

LEMMA TypesKept ==
    ASSUME TypeInv, ControlInv, FabricStep
    PROVE  /\ attached' \subseteq Sinks /\ todo' \subseteq Sinks /\ served' \subseteq Sinks
           /\ front' \in [Sinks -> Fronts]
           /\ UNCHANGED <<batch, sent, offered>> \/ (batch' = <<>> /\ UNCHANGED <<sent, offered>>)
              \/ BeginRetire \/ AnotherBatch
  <1>1. CASE BeginRetire \/ AnotherBatch
    BY <1>1 DEF BeginRetire, AnotherBatch, NextBatch, Returned, Start, Call, history, Fails, TypeInv, ControlInv, Fronts, Active, sinkVars
  <1>2. CASE Offered
    BY <1>2 DEF Offered, Returned, Start, Call, history, Fails, TypeInv, ControlInv, Fronts, Active, sinkVars
  <1>3. CASE EndConsume
    BY <1>3 DEF EndConsume, Returned, Start, Call, history, Fails, TypeInv, ControlInv, Fronts, Active, sinkVars
  <1>4. CASE NotifyEpochChanged
    BY <1>4 DEF NotifyEpochChanged, Returned, Start, Call, history, Fails, TypeInv, ControlInv, Fronts, Active, sinkVars
  <1>5. CASE SinkSynced
    BY <1>5 DEF SinkSynced, Returned, Start, Call, history, Fails, TypeInv, ControlInv, Fronts, Active, sinkVars
  <1>6. CASE EndSync
    BY <1>6 DEF EndSync, Returned, Start, Call, history, Fails, TypeInv, ControlInv, Fronts, Active, sinkVars
  <1>7. CASE SinkCreated
    BY <1>7 DEF SinkCreated, Returned, Start, Call, history, Fails, TypeInv, ControlInv, Fronts, Active, sinkVars
  <1>8. CASE CreateSinkFails
    BY <1>8 DEF CreateSinkFails, Returned, Start, Call, history, Fails, TypeInv, ControlInv, Fronts, Active, sinkVars
  <1>9. CASE SinkDestroyed
    BY <1>9 DEF SinkDestroyed, Returned, Start, Call, history, Fails, TypeInv, ControlInv, Fronts, Active, sinkVars
  <1>10. CASE SinkFinalized
    BY <1>10 DEF SinkFinalized, Returned, Start, Call, history, Fails, TypeInv, ControlInv, Fronts, Active, sinkVars
  <1>11. CASE FinalizeAgain
    BY <1>11 DEF FinalizeAgain, Returned, Start, Call, history, Fails, TypeInv, ControlInv, Fronts, Active, sinkVars
  <1>12. CASE SinkGone
    BY <1>12 DEF SinkGone, Returned, Start, Call, history, Fails, TypeInv, ControlInv, Fronts, Active, sinkVars
  <1>13. ASSUME NEW s \in Sinks, ClearLastStatus(s)
        PROVE  /\ attached' \subseteq Sinks /\ todo' \subseteq Sinks /\ served' \subseteq Sinks
               /\ front' \in [Sinks -> Fronts]
               /\ UNCHANGED <<batch, sent, offered>> \/ (batch' = <<>> /\ UNCHANGED <<sent, offered>>)
                  \/ BeginRetire \/ AnotherBatch
    BY <1>13 DEF ClearLastStatus, Returned, Start, Call, history, Fails, TypeInv, ControlInv, Fronts, Active, sinkVars
  <1>14. ASSUME NEW s \in Sinks, Offer(s)
        PROVE  /\ attached' \subseteq Sinks /\ todo' \subseteq Sinks /\ served' \subseteq Sinks
               /\ front' \in [Sinks -> Fronts]
               /\ UNCHANGED <<batch, sent, offered>> \/ (batch' = <<>> /\ UNCHANGED <<sent, offered>>)
                  \/ BeginRetire \/ AnotherBatch
    BY <1>14 DEF Offer, Returned, Start, Call, history, Fails, TypeInv, ControlInv, Fronts, Active, sinkVars
  <1>15. ASSUME NEW s \in Sinks, Sync(s)
        PROVE  /\ attached' \subseteq Sinks /\ todo' \subseteq Sinks /\ served' \subseteq Sinks
               /\ front' \in [Sinks -> Fronts]
               /\ UNCHANGED <<batch, sent, offered>> \/ (batch' = <<>> /\ UNCHANGED <<sent, offered>>)
                  \/ BeginRetire \/ AnotherBatch
    BY <1>15 DEF Sync, Returned, Start, Call, history, Fails, TypeInv, ControlInv, Fronts, Active, sinkVars
  <1>16. ASSUME NEW s \in Sinks, CreateSink(s)
        PROVE  /\ attached' \subseteq Sinks /\ todo' \subseteq Sinks /\ served' \subseteq Sinks
               /\ front' \in [Sinks -> Fronts]
               /\ UNCHANGED <<batch, sent, offered>> \/ (batch' = <<>> /\ UNCHANGED <<sent, offered>>)
                  \/ BeginRetire \/ AnotherBatch
    BY <1>16 DEF CreateSink, Returned, Start, Call, history, Fails, TypeInv, ControlInv, Fronts, Active, sinkVars
  <1>17. ASSUME NEW s \in Sinks, DestroySink(s)
        PROVE  /\ attached' \subseteq Sinks /\ todo' \subseteq Sinks /\ served' \subseteq Sinks
               /\ front' \in [Sinks -> Fronts]
               /\ UNCHANGED <<batch, sent, offered>> \/ (batch' = <<>> /\ UNCHANGED <<sent, offered>>)
                  \/ BeginRetire \/ AnotherBatch
    BY <1>17 DEF DestroySink, Returned, Start, Call, history, Fails, TypeInv, ControlInv, Fronts, Active, sinkVars
  <1>18. ASSUME NEW s \in Sinks, FinalizeSink(s)
        PROVE  /\ attached' \subseteq Sinks /\ todo' \subseteq Sinks /\ served' \subseteq Sinks
               /\ front' \in [Sinks -> Fronts]
               /\ UNCHANGED <<batch, sent, offered>> \/ (batch' = <<>> /\ UNCHANGED <<sent, offered>>)
                  \/ BeginRetire \/ AnotherBatch
    BY <1>18 DEF FinalizeSink, Returned, Start, Call, history, Fails, TypeInv, ControlInv, Fronts, Active, sinkVars
  <1>19. ASSUME NEW s \in Sinks, RemoveSink(s)
        PROVE  /\ attached' \subseteq Sinks /\ todo' \subseteq Sinks /\ served' \subseteq Sinks
               /\ front' \in [Sinks -> Fronts]
               /\ UNCHANGED <<batch, sent, offered>> \/ (batch' = <<>> /\ UNCHANGED <<sent, offered>>)
                  \/ BeginRetire \/ AnotherBatch
    BY <1>19 DEF RemoveSink, Returned, Start, Call, history, Fails, TypeInv, ControlInv, Fronts, Active, sinkVars
  <1> QED
    BY <1>1, <1>2, <1>3, <1>4, <1>5, <1>6, <1>7, <1>8, <1>9, <1>10, <1>11, <1>12, <1>13, <1>14, <1>15, <1>16, <1>17, <1>18, <1>19 DEF FabricStep

LEMMA NextBatchIs ==
    ASSUME TypeInv, BeginRetire \/ AnotherBatch
    PROVE  \E b \in Batches :
              /\ batch' = b /\ sent' = sent + Len(b) /\ task' = "offer" /\ served' = {}
              /\ offered' = [s \in Sinks |-> IF Active(s) THEN offered[s] \cup Passing(s, b)
                                             ELSE offered[s]]
              /\ todo' = {s \in (IF BeginRetire THEN attached ELSE served) : Active(s)}
              /\ UNCHANGED <<sinkVars, attached, front, flawed>>
  <1>1. CASE BeginRetire
    BY <1>1 DEF BeginRetire, NextBatch
  <1>2. CASE AnotherBatch /\ ~BeginRetire
    BY <1>2 DEF AnotherBatch, NextBatch
  <1> QED
    BY <1>1, <1>2

LEMMA TypeNext ==
    ASSUME TypeInv, ControlInv, [NextFabric]_<<sinkVars, fabricVars>>
    PROVE  TypeInv'
  <1>1. CASE SinkStep
    <2>1. StorageInv' /\ UNCHANGED fabricVars
      BY <1>1, SinkStorage DEF SinkStep, TypeInv
    <2> QED
      BY <2>1 DEF TypeInv, fabricVars
  <1>2. CASE IdleStep
    BY <1>2, IdleKeeps DEF TypeInv, StorageInv, fabricVars
  <1>3. CASE FabricStep
    <2>1. StorageInv'
      <3>1. <<>> \in Seq(Known) /\ <<>> \in Seq(Unit) /\ Len(<<>>) <= Capacity
        BY EmptySeq, NoUnit, CapacityAssumption
      <3>2. step' # "idle" => at' \in Sinks
        BY <1>3, FabricControl DEF ControlInv
      <3>3. CASE SinkGone
        <4>1. /\ at \in Sinks /\ buffer' = [buffer EXCEPT ![at] = <<>>]
              /\ backing' = [backing EXCEPT ![at] = 0] /\ UNCHANGED containers
              /\ out' = <<>> /\ step' = "idle"
          BY <3>3, GoneForgets
        <4> QED
          BY <3>1, <4>1 DEF TypeInv, StorageInv
      <3>4. CASE ~SinkGone
        <4>1. /\ UNCHANGED <<buffer, containers, backing>>
              /\ step' \in {"write", "idle", "flush", "rotate", "finalize"} \/ UNCHANGED <<at, step>>
              /\ out' \in {<<>>, batch} \/ out' = out
          BY <1>3, <3>4, FabricKeeps
        <4> QED
          BY <3>1, <3>2, <4>1 DEF TypeInv, StorageInv
      <3> QED
        BY <3>3, <3>4
    <2>2. /\ attached' \subseteq Sinks /\ todo' \subseteq Sinks /\ served' \subseteq Sinks
          /\ front' \in [Sinks -> Fronts]
      BY <1>3, TypesKept
    <2>3. batch' \in Seq(Known) /\ sent' \in Nat /\ offered' \in [Sinks -> SUBSET Unit]
      <3>1. CASE UNCHANGED <<batch, sent, offered>>
        BY <3>1 DEF TypeInv
      <3>2. CASE batch' = <<>> /\ UNCHANGED <<sent, offered>>
        BY <3>2, EmptySeq DEF TypeInv
      <3>3. CASE BeginRetire \/ AnotherBatch
        <4>1. PICK b \in Batches :
                /\ batch' = b /\ sent' = sent + Len(b)
                /\ offered' = [s \in Sinks |-> IF Active(s) THEN offered[s] \cup Passing(s, b)
                                               ELSE offered[s]]
          BY <3>3, NextBatchIs
        <4>2. b \in Seq(Known) /\ Len(b) \in Nat /\ sent \in Nat
          BY BatchesAre DEF TypeInv
        <4>3. \A s \in Sinks : Passing(s, b) \subseteq Unit
          BY <4>2, PassingAre
        <4> QED
          BY <4>1, <4>2, <4>3 DEF TypeInv
      <3> QED
        BY <1>3, <3>1, <3>2, <3>3, TypesKept
    <2> QED
      BY <2>1, <2>2, <2>3 DEF TypeInv
  <1> QED
    BY <1>1, <1>2, <1>3, StepsAre

LEMMA ControlNext ==
    ASSUME TypeInv, ControlInv, [NextFabric]_<<sinkVars, fabricVars>>
    PROVE  ControlInv'
  <1>1. CASE IdleStep
    BY <1>1, IdleKeeps DEF ControlInv, fabricVars, Active
  <1> QED
    BY <1>1, SinkControl, FabricControl, StepsAre

LEMMA TypeInit == InitFabric => TypeInv /\ ControlInv
  <1> SUFFICES ASSUME InitFabric PROVE TypeInv /\ ControlInv
    OBVIOUS
  <1>1. /\ \A S : <<>> \in Seq(S)
        /\ Len(<<>>) = 0 /\ 0 <= Capacity
    BY EmptySeq, CapacityAssumption
  <1>2. TypeInv
    BY <1>1 DEF InitFabric, InitSinks, TypeInv, StorageInv, Fronts
  <1> QED
    BY <1>2 DEF InitFabric, InitSinks, ControlInv, Active

-----------------------------------------------------------------------------
(* Files are open, and buffers without messages, when they have to be.      *)

Phase(s) == IF at = s THEN step ELSE "idle"
Sound(s) == s \notin flawed /\ Phase(s) # "failed"

\* When a sink that never failed has an open file, and when it has none.
HasFile(s) ==
    \/ Phase(s) = "idle" /\ Active(s)
    \/ Phase(s) \in {"write", "break", "release", "resource", "header", "finish"}
    \/ Phase(s) = "done" /\ ~Finalising
    \/ Phase(s) \in {"flush", "rotate"} /\ op # "make"
HasNone(s) ==
    \/ Phase(s) = "idle" /\ ~Active(s)
    \/ Phase(s) = "create"
    \/ Phase(s) = "done" /\ Finalising
    \/ Phase(s) = "rotate" /\ op = "make"
FileInv ==
    \A s \in Sinks : Sound(s) => (HasFile(s) => backing[s] # 0) /\ (HasNone(s) => backing[s] = 0)

\* No message is in a buffer that is about to be replaced.
QuietInv ==
    \A s \in Sinks :
        \/ Phase(s) \in {"rotate", "break", "release", "create", "resource", "header", "finish"}
        \/ Sound(s) /\ backing[s] = 0
        => MessagesIn(buffer[s]) = {}

LEMMA StoredIs ==
    ASSUME NEW s
    PROVE  /\ Stored(s) = Held(Contents(s), buffer[s])
           /\ Stored(s)' = Held(Contents(s)', buffer'[s])
  BY DEF Stored, Filed, Held

\* What a step does to the open file of the sink it is of.
LEMMA SinkBacking ==
    ASSUME StorageInv, NextSink
    PROVE  /\ at \in Sinks /\ \A t \in Sinks \ {at} : backing'[t] = backing[t]
           /\ \/ backing'[at] = backing[at] /\ ~CreateFile
              \/ CreateFile /\ backing'[at] # 0
              \/ (WriteBreakFails \/ ReleaseFile \/ CloseFile) /\ backing'[at] = 0 /\ ~CreateFile
  <1>1. at \in Sinks
    BY SinkStorage
  <1>2. CASE CreateFile
    <2>1. Opens(at) /\ backing'[at] # 0
      BY <1>1, <1>2, CreateOpens
    <2> QED
      BY <1>1, <1>2, <2>1 DEF Opens, OthersKept
  <1>3. CASE WriteBreakFails \/ ReleaseFile \/ CloseFile
    BY <1>1, <1>3 DEF WriteBreakFails, ReleaseFile, CloseFile, StorageInv, CreateFile, MayCreate
  <1>4. CASE UNCHANGED backing /\ ~CreateFile
    BY <1>1, <1>4
  <1>5. \/ UNCHANGED backing \/ CreateFile
        \/ WriteBreakFails \/ ReleaseFile \/ CloseFile
    BY DEF NextSink, PassOver, WriteBuffered, WriteThrough, WriteThroughFails, AllWritten, Flush,
           FlushFails, KeepFile, EndFile, WriteBreak, StepFails, EncodeHeader, WriteHeader,
           NothingToFinalise, EmitBreak, EmitBreakFails, Writes, Spilled
  <1> QED
    BY <1>2, <1>3, <1>4, <1>5

LEMMA FileOfCall ==
    ASSUME NextSink, ~CreateFile, step' # "failed"
    PROVE  /\ step = "rotate" => backing[at] # 0
           /\ step = "finalize" /\ step' = "flush" => backing[at] # 0
           /\ step = "finalize" /\ step' = "done" => backing[at] = 0
  BY DEF NextSink, PassOver, WriteBuffered, WriteThrough, WriteThroughFails, AllWritten, Flush,
         FlushFails, KeepFile, EndFile, WriteBreak, WriteBreakFails, StepFails, ReleaseFile,
         EncodeHeader, WriteHeader, NothingToFinalise, EmitBreak, EmitBreakFails, CloseFile,
         MayWrite, WriteFails, Goes

LEMMA FileSinkStep ==
    ASSUME TypeInv, ControlInv, FileInv, SinkStep
    PROVE  FileInv'
  <1> SUFFICES ASSUME NEW s \in Sinks, Sound(s)'
               PROVE  (HasFile(s)' => backing'[s] # 0) /\ (HasNone(s)' => backing'[s] = 0)
    BY DEF FileInv
  <1>1. /\ UNCHANGED <<at, op, task, front, flawed>> /\ Goings /\ at \in Sinks
        /\ step # "failed" /\ step \in StepsOf(op) /\ <<task, op>> \in Calls
    BY SinkGoes, SinkStorage DEF SinkStep, fabricVars, Goings, TypeInv, ControlInv
  <1>2. CASE s # at
    <2>1. backing'[s] = backing[s]
      BY <1>2, SinkBacking DEF SinkStep, TypeInv
    <2>2. Phase(s) = "idle" /\ Phase(s)' = "idle" /\ Sound(s) /\ Active(s)' = Active(s)
      BY <1>1, <1>2 DEF Phase, Sound, Active
    <2> QED
      BY <2>1, <2>2 DEF FileInv, HasFile, HasNone
  <1>3. CASE s = at
    <2>1. Phase(s) = step /\ Phase(s)' = step' /\ Sound(s) /\ step' # "failed" /\ op' = op
      BY <1>1, <1>3 DEF Phase, Sound
    <2>2. (HasFile(s) => backing[s] # 0) /\ (HasNone(s) => backing[s] = 0)
      BY <2>1 DEF FileInv
    <2>3. CASE CreateFile
      <3>1. step' = "resource" /\ backing'[s] # 0
        BY <1>3, <2>3, SinkBacking DEF CreateFile, Goes, SinkStep, TypeInv
      <3> QED
        BY <2>1, <3>1 DEF HasNone
    <2>4. CASE WriteBreakFails \/ ReleaseFile \/ CloseFile
      <3>1. /\ step' = "create" \/ (step' = "done" /\ step = "finish")
            /\ backing'[s] = 0
        BY <1>3, <2>1, <2>4 DEF WriteBreakFails, ReleaseFile, CloseFile, WriteFails, Goes, TypeInv, StorageInv
      <3>2. step = "finish" => Finalising
        BY <1>1 DEF StepsOf, Rotation, Calls, Finalising
      <3> QED
        BY <2>1, <3>1, <3>2 DEF HasFile, Finalising
    <2>5. CASE backing'[s] = backing[s] /\ ~CreateFile
      <3>1. /\ step = "rotate" => backing[at] # 0
            /\ step = "finalize" /\ step' = "flush" => backing[at] # 0
            /\ step = "finalize" /\ step' = "done" => backing[at] = 0
        BY <2>1, <2>5, FileOfCall DEF SinkStep
      <3>2. /\ step = "finalize" => Finalising
            /\ step = "write" => op = "consume"
            /\ step = "flush" => op # "make"
        BY <1>1 DEF StepsOf, Rotation, Calls, Finalising
      <3>3. step # "release" /\ step # "create" /\ step # "finish"
        <4>1. step = "release" => step' = "create" /\ ReleaseFile
          BY <2>1 DEF SinkStep, NextSink, PassOver, WriteBuffered, WriteThrough, WriteThroughFails,
             AllWritten, Flush, FlushFails, KeepFile, EndFile, WriteBreak, WriteBreakFails, StepFails,
             ReleaseFile, CreateFile, MayCreate, EncodeHeader, WriteHeader, NothingToFinalise, EmitBreak,
             EmitBreakFails, CloseFile, MayWrite, WriteFails, Goes
        <4>2. step = "create" => CreateFile
          BY <2>1 DEF SinkStep, NextSink, PassOver, WriteBuffered, WriteThrough, WriteThroughFails,
             AllWritten, Flush, FlushFails, KeepFile, EndFile, WriteBreak, WriteBreakFails, StepFails,
             ReleaseFile, CreateFile, MayCreate, EncodeHeader, WriteHeader, NothingToFinalise, EmitBreak,
             EmitBreakFails, CloseFile, MayWrite, WriteFails, Goes
        <4>3. step = "finish" => CloseFile
          BY <2>1 DEF SinkStep, NextSink, PassOver, WriteBuffered, WriteThrough, WriteThroughFails,
             AllWritten, Flush, FlushFails, KeepFile, EndFile, WriteBreak, WriteBreakFails, StepFails,
             ReleaseFile, CreateFile, MayCreate, EncodeHeader, WriteHeader, NothingToFinalise, EmitBreak,
             EmitBreakFails, CloseFile, MayWrite, WriteFails, Goes
        <4>4. (ReleaseFile \/ CloseFile) => backing[s] # 0 /\ backing'[s] = 0
          BY <1>3 DEF ReleaseFile, CloseFile, TypeInv, StorageInv
        <4> QED
          BY <2>5, <4>1, <4>2, <4>3, <4>4
      <3> QED
        BY <1>1, <1>3, <2>1, <2>2, <2>5, <3>1, <3>2, <3>3 DEF HasFile, HasNone, Goings, Synced, Finalising
    <2> QED
      BY <1>3, <2>3, <2>4, <2>5, SinkBacking DEF SinkStep, TypeInv
  <1> QED
    BY <1>2, <1>3

LEMMA FileFabricStep ==
    ASSUME TypeInv, ControlInv, FileInv, FabricStep
    PROVE  FileInv'
  <1>1. CASE BeginRetire \/ AnotherBatch
    BY <1>1 DEF BeginRetire, AnotherBatch, NextBatch, FileInv, Sound, Phase, HasFile, HasNone, Finalising, Active, Fronts, FrontsOf, StepsOf, Rotation, Calls, ControlInv, TypeInv, StorageInv, Returned, BackendUnchanged, Start, Call, Fails, history, sinkVars
  <1>2. CASE Offered
    BY <1>2 DEF Offered, FileInv, Sound, Phase, HasFile, HasNone, Finalising, Active, Fronts, FrontsOf, StepsOf, Rotation, Calls, ControlInv, TypeInv, StorageInv, Returned, BackendUnchanged, Start, Call, Fails, history, sinkVars
  <1>3. CASE EndConsume
    BY <1>3 DEF EndConsume, FileInv, Sound, Phase, HasFile, HasNone, Finalising, Active, Fronts, FrontsOf, StepsOf, Rotation, Calls, ControlInv, TypeInv, StorageInv, Returned, BackendUnchanged, Start, Call, Fails, history, sinkVars
  <1>4. CASE NotifyEpochChanged
    BY <1>4 DEF NotifyEpochChanged, FileInv, Sound, Phase, HasFile, HasNone, Finalising, Active, Fronts, FrontsOf, StepsOf, Rotation, Calls, ControlInv, TypeInv, StorageInv, Returned, BackendUnchanged, Start, Call, Fails, history, sinkVars
  <1>5. CASE SinkSynced
    BY <1>5 DEF SinkSynced, FileInv, Sound, Phase, HasFile, HasNone, Finalising, Active, Fronts, FrontsOf, StepsOf, Rotation, Calls, ControlInv, TypeInv, StorageInv, Returned, BackendUnchanged, Start, Call, Fails, history, sinkVars
  <1>6. CASE EndSync
    BY <1>6 DEF EndSync, FileInv, Sound, Phase, HasFile, HasNone, Finalising, Active, Fronts, FrontsOf, StepsOf, Rotation, Calls, ControlInv, TypeInv, StorageInv, Returned, BackendUnchanged, Start, Call, Fails, history, sinkVars
  <1>7. CASE SinkCreated
    BY <1>7 DEF SinkCreated, FileInv, Sound, Phase, HasFile, HasNone, Finalising, Active, Fronts, FrontsOf, StepsOf, Rotation, Calls, ControlInv, TypeInv, StorageInv, Returned, BackendUnchanged, Start, Call, Fails, history, sinkVars
  <1>8. CASE CreateSinkFails
    BY <1>8 DEF CreateSinkFails, FileInv, Sound, Phase, HasFile, HasNone, Finalising, Active, Fronts, FrontsOf, StepsOf, Rotation, Calls, ControlInv, TypeInv, StorageInv, Returned, BackendUnchanged, Start, Call, Fails, history, sinkVars
  <1>9. CASE SinkDestroyed
    BY <1>9 DEF SinkDestroyed, FileInv, Sound, Phase, HasFile, HasNone, Finalising, Active, Fronts, FrontsOf, StepsOf, Rotation, Calls, ControlInv, TypeInv, StorageInv, Returned, BackendUnchanged, Start, Call, Fails, history, sinkVars
  <1>10. CASE SinkFinalized
    BY <1>10 DEF SinkFinalized, FileInv, Sound, Phase, HasFile, HasNone, Finalising, Active, Fronts, FrontsOf, StepsOf, Rotation, Calls, ControlInv, TypeInv, StorageInv, Returned, BackendUnchanged, Start, Call, Fails, history, sinkVars
  <1>11. CASE FinalizeAgain
    BY <1>11 DEF FinalizeAgain, FileInv, Sound, Phase, HasFile, HasNone, Finalising, Active, Fronts, FrontsOf, StepsOf, Rotation, Calls, ControlInv, TypeInv, StorageInv, Returned, BackendUnchanged, Start, Call, Fails, history, sinkVars
  <1>12. CASE SinkGone
    BY <1>12 DEF SinkGone, FileInv, Sound, Phase, HasFile, HasNone, Finalising, Active, Fronts, FrontsOf, StepsOf, Rotation, Calls, ControlInv, TypeInv, StorageInv, Returned, BackendUnchanged, Start, Call, Fails, history, sinkVars
  <1>13. ASSUME NEW q \in Sinks, ClearLastStatus(q) PROVE FileInv'
    BY <1>13 DEF ClearLastStatus, FileInv, Sound, Phase, HasFile, HasNone, Finalising, Active, Fronts, FrontsOf, StepsOf, Rotation, Calls, ControlInv, TypeInv, StorageInv, Returned, BackendUnchanged, Start, Call, Fails, history, sinkVars
  <1>14. ASSUME NEW q \in Sinks, Offer(q) PROVE FileInv'
    BY <1>14 DEF Offer, FileInv, Sound, Phase, HasFile, HasNone, Finalising, Active, Fronts, FrontsOf, StepsOf, Rotation, Calls, ControlInv, TypeInv, StorageInv, Returned, BackendUnchanged, Start, Call, Fails, history, sinkVars
  <1>15. ASSUME NEW q \in Sinks, Sync(q) PROVE FileInv'
    BY <1>15 DEF Sync, FileInv, Sound, Phase, HasFile, HasNone, Finalising, Active, Fronts, FrontsOf, StepsOf, Rotation, Calls, ControlInv, TypeInv, StorageInv, Returned, BackendUnchanged, Start, Call, Fails, history, sinkVars
  <1>16. ASSUME NEW q \in Sinks, CreateSink(q) PROVE FileInv'
    BY <1>16 DEF CreateSink, FileInv, Sound, Phase, HasFile, HasNone, Finalising, Active, Fronts, FrontsOf, StepsOf, Rotation, Calls, ControlInv, TypeInv, StorageInv, Returned, BackendUnchanged, Start, Call, Fails, history, sinkVars
  <1>17. ASSUME NEW q \in Sinks, DestroySink(q) PROVE FileInv'
    BY <1>17 DEF DestroySink, FileInv, Sound, Phase, HasFile, HasNone, Finalising, Active, Fronts, FrontsOf, StepsOf, Rotation, Calls, ControlInv, TypeInv, StorageInv, Returned, BackendUnchanged, Start, Call, Fails, history, sinkVars
  <1>18. ASSUME NEW q \in Sinks, FinalizeSink(q) PROVE FileInv'
    BY <1>18 DEF FinalizeSink, FileInv, Sound, Phase, HasFile, HasNone, Finalising, Active, Fronts, FrontsOf, StepsOf, Rotation, Calls, ControlInv, TypeInv, StorageInv, Returned, BackendUnchanged, Start, Call, Fails, history, sinkVars
  <1>19. ASSUME NEW q \in Sinks, RemoveSink(q) PROVE FileInv'
    BY <1>19 DEF RemoveSink, FileInv, Sound, Phase, HasFile, HasNone, Finalising, Active, Fronts, FrontsOf, StepsOf, Rotation, Calls, ControlInv, TypeInv, StorageInv, Returned, BackendUnchanged, Start, Call, Fails, history, sinkVars
  <1> QED
    BY <1>1, <1>2, <1>3, <1>4, <1>5, <1>6, <1>7, <1>8, <1>9, <1>10, <1>11, <1>12, <1>13, <1>14, <1>15, <1>16, <1>17, <1>18, <1>19 DEF FabricStep

-----------------------------------------------------------------------------
(* What a sink has is kept by every step of a backend, and only messages    *)
(* that are handed to it come behind.                                       *)

Same(s) ==
    /\ Stored(s)' = Stored(s)
    /\ InOrder(Contents(s), buffer[s]) => InOrder(Contents(s)', buffer'[s])

LEMMA TakesHeld ==
    ASSUME StorageInv, StorageInv', NEW s \in Sinks, NEW z \in Seq(Unit), Takes(s, z)
    PROVE  /\ Stored(s)' = Stored(s) \cup MessagesIn(z)
           /\ (/\ InOrder(Contents(s), buffer[s]) /\ Ascending(z)
               /\ \A u \in Stored(s), v \in MessagesIn(z) : Before(u, v))
                => InOrder(Contents(s)', buffer'[s])
  <1> DEFINE c == Contents(s)
             b == buffer[s]
             c2 == Contents(s)'
             b2 == buffer'[s]
  <1>1. c \in Files /\ b \in Seq(Unit) /\ c2 \in Files /\ b2 \in Seq(Unit)
    BY ContentsAre, StoredNext DEF StorageInv
  <1>2. Adds(c, b, c2, b2, z)
    BY DEF Takes
  <1>3. Stored(s) = Held(c, b) /\ Stored(s)' = Held(c2, b2)
    BY StoredIs
  <1>4. InOrder(c, b) <=> InOrder(Contents(s), buffer[s])
    OBVIOUS
  <1>5. InOrder(c2, b2) <=> InOrder(Contents(s)', buffer'[s])
    OBVIOUS
  <1> HIDE DEF c, b, c2, b2
  <1>6. Held(c2, b2) = Held(c, b) \cup MessagesIn(z)
    BY <1>1, <1>2, AddsHeld
  <1>7. ASSUME InOrder(c, b), Ascending(z), \A u \in Held(c, b), v \in MessagesIn(z) : Before(u, v)
        PROVE  InOrder(c2, b2)
    BY <1>1, <1>2, <1>7, AddsOrder
  <1> QED
    BY <1>3, <1>4, <1>5, <1>6, <1>7

LEMMA TakesSame ==
    ASSUME StorageInv, StorageInv', NEW s \in Sinks, NEW z \in Seq(Unit), Takes(s, z)
    PROVE  MessagesIn(z) = {} => Same(s)
  <1>1. /\ Stored(s)' = Stored(s) \cup MessagesIn(z)
        /\ (/\ InOrder(Contents(s), buffer[s]) /\ Ascending(z)
            /\ \A u \in Stored(s), v \in MessagesIn(z) : Before(u, v))
             => InOrder(Contents(s)', buffer'[s])
    BY TakesHeld
  <1>2. ASSUME MessagesIn(z) = {}
        PROVE  Ascending(z)
    <2> SUFFICES ASSUME NEW i \in DOMAIN z, z[i].kind = "message" PROVE FALSE
      BY DEF Ascending
    <2> QED
      BY <1>2 DEF MessagesIn, Range
  <1> QED
    BY <1>1, <1>2 DEF Same

LEMMA ReplacesSame ==
    ASSUME StorageInv, NEW s \in Sinks, NEW y \in Seq(Unit), Replaces(s, y), MessagesIn(y) = {},
           MessagesIn(buffer[s]) = {}
    PROVE  Same(s)
  <1>1. Contents(s) \in Files /\ buffer[s] \in Seq(Unit)
    BY ContentsAre DEF StorageInv
  <1>2. Contents(s)' = Contents(s) /\ buffer'[s] = y
    BY DEF Replaces
  <1>3. /\ Held(Contents(s), y) = Held(Contents(s), buffer[s])
        /\ InOrder(Contents(s), buffer[s]) => InOrder(Contents(s), y)
    BY <1>1, Resets
  <1> QED
    BY <1>2, <1>3, StoredIs DEF Same

LEMMA SinkGrows ==
    ASSUME TypeInv, QuietInv, SinkStep, NEW s \in Sinks, at = s
    PROVE  /\ OthersKept(s)
           /\ \/ Same(s) /\ ~WriteBuffered /\ ~WriteThrough
              \/ (WriteBuffered \/ WriteThrough) /\ Takes(s, Units(Head(out)))
              \/ /\ WriteThroughFails /\ ~WriteBuffered /\ ~WriteThrough
                 /\ \E z \in Seq(Unit) : /\ Takes(s, z) /\ Ascending(z)
                                         /\ MessagesIn(z) \subseteq MessagesIn(Units(Head(out)))
  <1>1. StorageInv /\ StorageInv' /\ NextSink
    BY SinkStorage DEF TypeInv, SinkStep
  <1> USE <1>1
  <1>2. CASE WriteBuffered \/ WriteThrough
    <2>1. Takes(s, Units(Head(out)))
      BY <1>2, WriteTakes
    <2> QED
      BY <1>2, <2>1 DEF Takes
  <1>3. CASE WriteThroughFails
    <2>1. \E z \in Seq(Unit) : /\ Takes(s, z) /\ Ascending(z)
                               /\ MessagesIn(z) \subseteq MessagesIn(Units(Head(out)))
      BY <1>3, FailedWriteTakes
    <2>2. ~WriteBuffered /\ ~WriteThrough
      BY <1>3 DEF WriteThroughFails, WriteBuffered, WriteThrough, WriteFails, Goes
    <2> QED
      BY <1>3, <2>1, <2>2 DEF Takes
  <1>4. ASSUME KeepsStored \/ Flush \/ WriteBreak \/ WriteHeader \/ EmitBreak \/ CreateFile
               \/ EndFile \/ EncodeHeader \/ CloseFile
        PROVE  OthersKept(s) /\ Same(s)
    <2>1. CASE KeepsStored
      BY <2>1, KeepingSteps, StoredIs DEF Keeps, Same
    <2>2. CASE Flush \/ WriteBreak \/ WriteHeader
      <3>1. Takes(s, <<>>)
        BY <2>2, FlushTakes
      <3> QED
        BY <3>1, TakesSame, NoUnit DEF Takes
    <2>3. CASE EmitBreak
      <3>1. Takes(s, <<Break>>) /\ <<Break>> \in Seq(Unit) /\ MessagesIn(<<Break>>) = {}
        BY <2>3, EmitBreakTakes, OneUnit, UnitKinds
      <3> QED
        BY <3>1, TakesSame DEF Takes
    <2>4. CASE CreateFile
      <3>1. Opens(s) /\ Contents(s) \in Files /\ buffer[s] \in Seq(Unit)
        BY <2>4, CreateOpens, ContentsAre DEF StorageInv
      <3>2. /\ Held(Append(Contents(s), <<>>), buffer[s]) = Held(Contents(s), buffer[s])
            /\ InOrder(Contents(s), buffer[s]) => InOrder(Append(Contents(s), <<>>), buffer[s])
        BY <3>1, OpensFile
      <3> QED
        BY <3>1, <3>2, StoredIs DEF Opens, Same
    <2>5. CASE EndFile \/ EncodeHeader \/ CloseFile
      <3>1. MessagesIn(buffer[s]) = {}
        BY <2>5 DEF QuietInv, Phase, EndFile, EncodeHeader, CloseFile
      <3>2. CASE EndFile
        <4>1. Replaces(s, <<Break>>) /\ <<Break>> \in Seq(Unit) /\ MessagesIn(<<Break>>) = {}
          BY <3>2, ReplacingSteps, OneUnit, UnitKinds
        <4> QED
          BY <3>1, <4>1, ReplacesSame DEF Replaces
      <3>3. CASE EncodeHeader
        <4>1. Replaces(s, <<Header>>) /\ <<Header>> \in Seq(Unit) /\ MessagesIn(<<Header>>) = {}
          BY <3>3, ReplacingSteps, OneUnit, UnitKinds
        <4> QED
          BY <3>1, <4>1, ReplacesSame DEF Replaces
      <3>4. CASE CloseFile
        <4>1. Replaces(s, <<>>)
          BY <3>4, ReplacingSteps
        <4> QED
          BY <3>1, <4>1, ReplacesSame, NoUnit DEF Replaces
      <3> QED
        BY <2>5, <3>2, <3>3, <3>4
    <2> QED
      BY <1>4, <2>1, <2>2, <2>3, <2>4, <2>5
  <1>5. ASSUME KeepsStored \/ Flush \/ WriteBreak \/ WriteHeader \/ EmitBreak \/ CreateFile
               \/ EndFile \/ EncodeHeader \/ CloseFile
        PROVE  (~WriteBuffered /\ ~WriteThrough) \/ WriteBuffered \/ WriteThrough
    OBVIOUS
  <1> QED
    BY <1>2, <1>3, <1>4, <1>5 DEF NextSink, KeepsStored

LEMMA QuietSinkStep ==
    ASSUME TypeInv, ControlInv, FileInv, QuietInv, SinkStep
    PROVE  QuietInv'
  <1> SUFFICES ASSUME NEW s \in Sinks,
                      \/ Phase(s)' \in {"rotate", "break", "release", "create", "resource", "header", "finish"}
                      \/ Sound(s)' /\ backing'[s] = 0
               PROVE  MessagesIn(buffer'[s]) = {}
    BY DEF QuietInv
  <1>1. /\ UNCHANGED <<at, op, task, front, flawed>> /\ Goings /\ at \in Sinks /\ StorageInv
        /\ step # "failed" /\ NextSink
    BY SinkGoes, SinkStorage DEF SinkStep, fabricVars, Goings, TypeInv
  <1>2. CASE s # at
    <2>1. PICK q \in Sinks : at = q
      BY <1>1
    <2>2. OthersKept(q)
      BY <2>1, SinkGrows
    <2> QED
      BY <1>1, <1>2, <2>1, <2>2 DEF QuietInv, Phase, Sound, OthersKept
  <1>3. CASE s = at
    <2>1. Phase(s) = step /\ Phase(s)' = step' /\ (Sound(s)' => Sound(s))
      BY <1>1, <1>3 DEF Phase, Sound
    <2>2. CASE Flush \/ WriteBreak \/ WriteHeader
      BY <1>1, <1>3, <2>2, FlushTakes, NoUnit
    <2>3. CASE EndFile \/ EncodeHeader \/ CloseFile
      BY <1>1, <1>3, <2>3, ReplacingSteps, OneUnit, NoUnit, UnitKinds DEF Replaces
    <2>4. CASE WriteBuffered \/ WriteThrough
      <3>1. step = "write" /\ step' = "write"
        BY <2>4 DEF WriteBuffered, WriteThrough, MayWrite, Goes
      <3>2. backing'[s] = backing[s] /\ (Sound(s) => backing[s] # 0)
        BY <1>1, <1>3, <2>1, <2>4, <3>1, WriteTakes DEF FileInv, HasFile
      <3> QED
        BY <2>1, <3>1, <3>2
    <2>5. CASE EmitBreak
      BY <1>1, <1>3, <2>1, <2>5, EmitBreakTakes DEF EmitBreak, Goes
    <2>6. CASE WriteThroughFails
      BY <2>1, <2>6 DEF WriteThroughFails, WriteFails, Goes, Sound
    <2>7. CASE PassOver \/ AllWritten \/ FlushFails \/ KeepFile \/ StepFails \/ NothingToFinalise
               \/ EmitBreakFails \/ WriteBreakFails \/ ReleaseFile \/ CreateFile
      <3>1. buffer'[s] = buffer[s]
        BY <2>7 DEF PassOver, AllWritten, FlushFails, KeepFile, StepFails, NothingToFinalise,
                    EmitBreakFails, WriteBreakFails, ReleaseFile, CreateFile
      <3>2. CASE step \in {"rotate", "break", "release", "create", "resource", "header", "finish"}
        BY <2>1, <3>1, <3>2 DEF QuietInv
      <3>3. CASE step \in {"write", "flush", "finalize"}
        <4>1. Sound(s)'
          BY <2>1, <2>7, <3>3 DEF PassOver, AllWritten, FlushFails, KeepFile, StepFails, NothingToFinalise,
                    EmitBreakFails, WriteBreakFails, ReleaseFile, CreateFile, MayCreate, Goes, WriteFails, Sound
        <4>2. UNCHANGED backing
          BY <2>7, <3>3 DEF PassOver, AllWritten, FlushFails, KeepFile, StepFails, NothingToFinalise,
                    EmitBreakFails, WriteBreakFails, ReleaseFile, CreateFile, MayCreate, Goes, WriteFails
        <4>3. Sound(s) /\ backing[s] = 0
          BY <2>1, <2>7, <3>3, <4>1, <4>2 DEF PassOver, AllWritten, FlushFails, KeepFile, StepFails, NothingToFinalise,
                    EmitBreakFails, WriteBreakFails, ReleaseFile, CreateFile, MayCreate, Goes, WriteFails
        <4> QED
          BY <3>1, <4>3 DEF QuietInv
      <3> QED
        BY <1>1, <3>2, <3>3 DEF Goings
    <2> QED
      BY <1>1, <2>2, <2>3, <2>4, <2>5, <2>6, <2>7 DEF NextSink
  <1> QED
    BY <1>2, <1>3

LEMMA RotateOnlyMakes ==
    ASSUME FabricStep, step' = "rotate"
    PROVE  UNCHANGED <<at, step>> \/ (step = "idle" /\ front[at'] = "none")
  <1>1. CASE BeginRetire \/ AnotherBatch
    BY <1>1 DEF BeginRetire, AnotherBatch, NextBatch, Returned, BackendUnchanged, Start, Call, sinkVars
  <1>2. CASE Offered
    BY <1>2 DEF Offered, Returned, BackendUnchanged, Start, Call, sinkVars
  <1>3. CASE EndConsume
    BY <1>3 DEF EndConsume, Returned, BackendUnchanged, Start, Call, sinkVars
  <1>4. CASE NotifyEpochChanged
    BY <1>4 DEF NotifyEpochChanged, Returned, BackendUnchanged, Start, Call, sinkVars
  <1>5. CASE SinkSynced
    BY <1>5 DEF SinkSynced, Returned, BackendUnchanged, Start, Call, sinkVars
  <1>6. CASE EndSync
    BY <1>6 DEF EndSync, Returned, BackendUnchanged, Start, Call, sinkVars
  <1>7. CASE SinkCreated
    BY <1>7 DEF SinkCreated, Returned, BackendUnchanged, Start, Call, sinkVars
  <1>8. CASE CreateSinkFails
    BY <1>8 DEF CreateSinkFails, Returned, BackendUnchanged, Start, Call, sinkVars
  <1>9. CASE SinkDestroyed
    BY <1>9 DEF SinkDestroyed, Returned, BackendUnchanged, Start, Call, sinkVars
  <1>10. CASE SinkFinalized
    BY <1>10 DEF SinkFinalized, Returned, BackendUnchanged, Start, Call, sinkVars
  <1>11. CASE FinalizeAgain
    BY <1>11 DEF FinalizeAgain, Returned, BackendUnchanged, Start, Call, sinkVars
  <1>12. CASE SinkGone
    BY <1>12 DEF SinkGone, Returned, BackendUnchanged, Start, Call, sinkVars
  <1>13. ASSUME NEW q \in Sinks, ClearLastStatus(q) PROVE UNCHANGED <<at, step>> \/ (step = "idle" /\ front[at'] = "none")
    BY <1>13 DEF ClearLastStatus, Returned, BackendUnchanged, Start, Call, sinkVars
  <1>14. ASSUME NEW q \in Sinks, Offer(q) PROVE UNCHANGED <<at, step>> \/ (step = "idle" /\ front[at'] = "none")
    BY <1>14 DEF Offer, Returned, BackendUnchanged, Start, Call, sinkVars
  <1>15. ASSUME NEW q \in Sinks, Sync(q) PROVE UNCHANGED <<at, step>> \/ (step = "idle" /\ front[at'] = "none")
    BY <1>15 DEF Sync, Returned, BackendUnchanged, Start, Call, sinkVars
  <1>16. ASSUME NEW q \in Sinks, CreateSink(q) PROVE UNCHANGED <<at, step>> \/ (step = "idle" /\ front[at'] = "none")
    BY <1>16 DEF CreateSink, Returned, BackendUnchanged, Start, Call, sinkVars
  <1>17. ASSUME NEW q \in Sinks, DestroySink(q) PROVE UNCHANGED <<at, step>> \/ (step = "idle" /\ front[at'] = "none")
    BY <1>17 DEF DestroySink, Returned, BackendUnchanged, Start, Call, sinkVars
  <1>18. ASSUME NEW q \in Sinks, FinalizeSink(q) PROVE UNCHANGED <<at, step>> \/ (step = "idle" /\ front[at'] = "none")
    BY <1>18 DEF FinalizeSink, Returned, BackendUnchanged, Start, Call, sinkVars
  <1>19. ASSUME NEW q \in Sinks, RemoveSink(q) PROVE UNCHANGED <<at, step>> \/ (step = "idle" /\ front[at'] = "none")
    BY <1>19 DEF RemoveSink, Returned, BackendUnchanged, Start, Call, sinkVars
  <1> QED
    BY <1>1, <1>2, <1>3, <1>4, <1>5, <1>6, <1>7, <1>8, <1>9, <1>10, <1>11, <1>12, <1>13, <1>14, <1>15, <1>16, <1>17, <1>18, <1>19 DEF FabricStep

LEMMA QuietFabricStep ==
    ASSUME TypeInv, ControlInv, FileInv, QuietInv, FabricStep
    PROVE  QuietInv'
  <1>1. CASE SinkGone
    <2>1. /\ buffer' = [buffer EXCEPT ![at] = <<>>] /\ backing' = [backing EXCEPT ![at] = 0]
          /\ step' = "idle" /\ at \in Sinks /\ flawed \subseteq flawed'
          /\ step # "failed" \/ at \in flawed'
      BY <1>1, GoneForgets DEF SinkGone, Returned
    <2>2. MessagesIn(<<>>) = {}
      BY NoUnit
    <2> QED
      BY <1>1, <2>1, <2>2 DEF QuietInv, Phase, Sound, TypeInv, StorageInv
  <1>2. CASE ~SinkGone
    <2>1. UNCHANGED <<buffer, containers, backing>>
      BY <1>2, FabricKeeps
    <2>2. ASSUME NEW s \in Sinks, Sound(s)', backing[s] = 0
          PROVE  MessagesIn(buffer[s]) = {}
      <3>1. Sound(s)
        <4>1. CASE BeginRetire \/ AnotherBatch
          BY <4>1, <1>2, <2>2 DEF BeginRetire, AnotherBatch, NextBatch, Sound, Phase, ControlInv, FrontsOf, TypeInv, Returned, BackendUnchanged, Start, Call, Fails, history, sinkVars
        <4>2. CASE Offered
          BY <4>2, <1>2, <2>2 DEF Offered, Sound, Phase, ControlInv, FrontsOf, TypeInv, Returned, BackendUnchanged, Start, Call, Fails, history, sinkVars
        <4>3. CASE EndConsume
          BY <4>3, <1>2, <2>2 DEF EndConsume, Sound, Phase, ControlInv, FrontsOf, TypeInv, Returned, BackendUnchanged, Start, Call, Fails, history, sinkVars
        <4>4. CASE NotifyEpochChanged
          BY <4>4, <1>2, <2>2 DEF NotifyEpochChanged, Sound, Phase, ControlInv, FrontsOf, TypeInv, Returned, BackendUnchanged, Start, Call, Fails, history, sinkVars
        <4>5. CASE SinkSynced
          BY <4>5, <1>2, <2>2 DEF SinkSynced, Sound, Phase, ControlInv, FrontsOf, TypeInv, Returned, BackendUnchanged, Start, Call, Fails, history, sinkVars
        <4>6. CASE EndSync
          BY <4>6, <1>2, <2>2 DEF EndSync, Sound, Phase, ControlInv, FrontsOf, TypeInv, Returned, BackendUnchanged, Start, Call, Fails, history, sinkVars
        <4>7. CASE SinkCreated
          BY <4>7, <1>2, <2>2 DEF SinkCreated, Sound, Phase, ControlInv, FrontsOf, TypeInv, Returned, BackendUnchanged, Start, Call, Fails, history, sinkVars
        <4>8. CASE CreateSinkFails
          BY <4>8, <1>2, <2>2 DEF CreateSinkFails, Sound, Phase, ControlInv, FrontsOf, TypeInv, Returned, BackendUnchanged, Start, Call, Fails, history, sinkVars
        <4>9. CASE SinkDestroyed
          BY <4>9, <1>2, <2>2 DEF SinkDestroyed, Sound, Phase, ControlInv, FrontsOf, TypeInv, Returned, BackendUnchanged, Start, Call, Fails, history, sinkVars
        <4>10. CASE SinkFinalized
          BY <4>10, <1>2, <2>2 DEF SinkFinalized, Sound, Phase, ControlInv, FrontsOf, TypeInv, Returned, BackendUnchanged, Start, Call, Fails, history, sinkVars
        <4>11. CASE FinalizeAgain
          BY <4>11, <1>2, <2>2 DEF FinalizeAgain, Sound, Phase, ControlInv, FrontsOf, TypeInv, Returned, BackendUnchanged, Start, Call, Fails, history, sinkVars
        <4>12. CASE SinkGone
          BY <4>12, <1>2, <2>2 DEF SinkGone, Sound, Phase, ControlInv, FrontsOf, TypeInv, Returned, BackendUnchanged, Start, Call, Fails, history, sinkVars
        <4>13. ASSUME NEW q \in Sinks, ClearLastStatus(q) PROVE Sound(s)
          BY <4>13, <1>2, <2>2 DEF ClearLastStatus, Sound, Phase, ControlInv, FrontsOf, TypeInv, Returned, BackendUnchanged, Start, Call, Fails, history, sinkVars
        <4>14. ASSUME NEW q \in Sinks, Offer(q) PROVE Sound(s)
          BY <4>14, <1>2, <2>2 DEF Offer, Sound, Phase, ControlInv, FrontsOf, TypeInv, Returned, BackendUnchanged, Start, Call, Fails, history, sinkVars
        <4>15. ASSUME NEW q \in Sinks, Sync(q) PROVE Sound(s)
          BY <4>15, <1>2, <2>2 DEF Sync, Sound, Phase, ControlInv, FrontsOf, TypeInv, Returned, BackendUnchanged, Start, Call, Fails, history, sinkVars
        <4>16. ASSUME NEW q \in Sinks, CreateSink(q) PROVE Sound(s)
          BY <4>16, <1>2, <2>2 DEF CreateSink, Sound, Phase, ControlInv, FrontsOf, TypeInv, Returned, BackendUnchanged, Start, Call, Fails, history, sinkVars
        <4>17. ASSUME NEW q \in Sinks, DestroySink(q) PROVE Sound(s)
          BY <4>17, <1>2, <2>2 DEF DestroySink, Sound, Phase, ControlInv, FrontsOf, TypeInv, Returned, BackendUnchanged, Start, Call, Fails, history, sinkVars
        <4>18. ASSUME NEW q \in Sinks, FinalizeSink(q) PROVE Sound(s)
          BY <4>18, <1>2, <2>2 DEF FinalizeSink, Sound, Phase, ControlInv, FrontsOf, TypeInv, Returned, BackendUnchanged, Start, Call, Fails, history, sinkVars
        <4>19. ASSUME NEW q \in Sinks, RemoveSink(q) PROVE Sound(s)
          BY <4>19, <1>2, <2>2 DEF RemoveSink, Sound, Phase, ControlInv, FrontsOf, TypeInv, Returned, BackendUnchanged, Start, Call, Fails, history, sinkVars
        <4> QED
          BY <4>1, <4>2, <4>3, <4>4, <4>5, <4>6, <4>7, <4>8, <4>9, <4>10, <4>11, <4>12, <4>13, <4>14, <4>15, <4>16, <4>17, <4>18, <4>19 DEF FabricStep
      <3> QED
        BY <2>2, <3>1 DEF QuietInv
    <2>3. ASSUME NEW s \in Sinks,
                 Phase(s)' \in {"rotate", "break", "release", "create", "resource", "header", "finish"}
          PROVE  MessagesIn(buffer[s]) = {}
      <3>1. CASE UNCHANGED <<at, step>>
        BY <2>3, <3>1 DEF QuietInv, Phase
      <3>2. CASE ~UNCHANGED <<at, step>>
        <4>1. /\ step' = "rotate" /\ at' = s
              /\ step' \in {"write", "idle", "flush", "rotate", "finalize"}
          BY <1>2, <2>3, <3>2, FabricKeeps DEF Phase
        <4>2. front[s] = "none" /\ step = "idle"
          BY <1>2, <3>2, <4>1, RotateOnlyMakes
        <4>3. Sound(s) /\ HasNone(s)
          BY <4>2 DEF Sound, HasNone, Phase, Active, ControlInv
        <4> QED
          BY <4>3 DEF FileInv, QuietInv
      <3> QED
        BY <3>1, <3>2
    <2> QED
      BY <2>1, <2>2, <2>3 DEF QuietInv
  <1> QED
    BY <1>1, <1>2

-----------------------------------------------------------------------------
(* Order: what is stored comes before what is about to be.                  *)

Rising(messages) == \A i, j \in DOMAIN messages : i < j => messages[i].n < messages[j].n
UpTo(messages, n) == \A i \in DOMAIN messages : messages[i].n <= n
Earlier(s, messages) == \A u \in Stored(s), i \in DOMAIN messages : u.n < messages[i].n
OrderInv ==
    /\ StoredInOrder
    /\ \A s \in Sinks : \A u \in Stored(s) : u.n <= sent
    /\ Rising(out) /\ UpTo(out, sent) /\ Rising(batch) /\ UpTo(batch, sent)
    /\ step = "write" => Earlier(at, out)
    /\ task = "offer" => \A s \in todo : Earlier(s, batch)

LEMMA MessageList ==
    ASSUME NEW b \in Seq(Known)
    PROVE  /\ Len(b) \in Nat /\ DOMAIN b = 1 .. Len(b) /\ \A i \in DOMAIN b : b[i] \in Known
           /\ b # <<>> => /\ 1 \in DOMAIN b /\ Head(b) = b[1] /\ Tail(b) \in Seq(Known)
                          /\ \A i \in DOMAIN Tail(b) :
                                Tail(b)[i] = b[i + 1] /\ i + 1 \in DOMAIN b /\ 1 < i + 1 /\ i \in Nat
  <1>1. Len(b) \in Nat /\ DOMAIN b = 1 .. Len(b) /\ \A i \in 1 .. Len(b) : b[i] \in Known
    BY LenProperties, ElementOfSeq
  <1>2. ASSUME b # <<>>
        PROVE  /\ 1 \in DOMAIN b /\ Head(b) = b[1] /\ Tail(b) \in Seq(Known)
               /\ \A i \in DOMAIN Tail(b) :
                     Tail(b)[i] = b[i + 1] /\ i + 1 \in DOMAIN b /\ 1 < i + 1 /\ i \in Nat
    <2>1. Len(b) # 0
      BY <1>2, EmptySeq
    <2>2. /\ Tail(b) \in Seq(Known) /\ Len(Tail(b)) = Len(b) - 1
          /\ \A i \in 1 .. Len(Tail(b)) : Tail(b)[i] = b[i + 1]
      BY <1>2, HeadTailProperties
    <2>3. DOMAIN Tail(b) = 1 .. Len(b) - 1
      BY <2>2, LenProperties
    <2> QED
      BY <1>1, <2>1, <2>2, <2>3
  <1> QED
    BY <1>1, <1>2

LEMMA NoMessage ==
    /\ Rising(<<>>) /\ \A n : UpTo(<<>>, n) /\ \A s : Earlier(s, <<>>)
  <1>1. DOMAIN <<>> = {}
    OBVIOUS
  <1> QED
    BY <1>1 DEF Rising, UpTo, Earlier

LEMMA RisingTail ==
    ASSUME NEW b \in Seq(Known), b # <<>>, Rising(b)
    PROVE  /\ Rising(Tail(b)) /\ \A i \in DOMAIN Tail(b) : Head(b).n < Tail(b)[i].n
           /\ \A n : UpTo(b, n) => UpTo(Tail(b), n) /\ Head(b).n <= n
  <1>1. /\ 1 \in DOMAIN b /\ Head(b) = b[1] /\ Tail(b) \in Seq(Known)
        /\ \A i \in DOMAIN Tail(b) :
              Tail(b)[i] = b[i + 1] /\ i + 1 \in DOMAIN b /\ 1 < i + 1 /\ i \in Nat
    BY MessageList
  <1> DEFINE t == Tail(b)
  <1>2. Rising(t)
    <2> SUFFICES ASSUME NEW i \in DOMAIN t, NEW j \in DOMAIN t, i < j PROVE t[i].n < t[j].n
      BY DEF Rising
    <2>1. i + 1 < j + 1 /\ i + 1 \in DOMAIN b /\ j + 1 \in DOMAIN b
      BY <1>1
    <2>2. b[i + 1].n < b[j + 1].n
      BY <2>1 DEF Rising
    <2> QED
      BY <1>1, <2>2
  <1>3. \A i \in DOMAIN t : Head(b).n < t[i].n
    BY <1>1 DEF Rising
  <1>4. \A n : UpTo(b, n) => UpTo(t, n) /\ Head(b).n <= n
    BY <1>1 DEF UpTo
  <1> QED
    BY <1>2, <1>3, <1>4

LEMMA StoredUnits ==
    ASSUME StorageInv, NEW s \in Sinks
    PROVE  Stored(s) \subseteq Unit /\ \A u \in Stored(s) : u.n \in Nat /\ u.part \in Nat
  <1>1. Stored(s) \subseteq Unit
    <2> DEFINE c == Contents(s)
               b == buffer[s]
    <2>1. c \in Files /\ b \in Seq(Unit)
      BY ContentsAre DEF StorageInv
    <2>2. Stored(s) = Held(c, b)
      BY StoredIs
    <2> HIDE DEF c, b
    <2>3. Held(c, b) \subseteq Unit
      BY <2>1, HeldIs
    <2> QED
      BY <2>2, <2>3
  <1> QED
    BY <1>1 DEF Unit

\* What a call has yet to write.
LEMMA OutGoes ==
    ASSUME NextSink
    PROVE  /\ out' \in {out, <<>>} \/ (step = "write" /\ out # <<>> /\ out' = Tail(out))
           /\ step' = "write" => /\ step = "write" /\ out # <<>> /\ out' = Tail(out)
                                 /\ WriteBuffered \/ WriteThrough => Passes(at, Head(out))
                                 /\ ~WriteBuffered /\ ~WriteThrough => ~Passes(at, Head(out))
           /\ WriteBuffered \/ WriteThrough => step = "write" /\ step' = "write"
           /\ WriteThroughFails => step = "write" /\ out # <<>> /\ step' = "failed"
  BY DEF NextSink, PassOver, WriteBuffered, WriteThrough, WriteThroughFails, AllWritten, Flush,
         FlushFails, KeepFile, EndFile, WriteBreak, WriteBreakFails, StepFails, ReleaseFile, CreateFile,
         EncodeHeader, WriteHeader, NothingToFinalise, EmitBreak, EmitBreakFails, CloseFile,
         MayWrite, MayCreate, WriteFails, Goes, Synced

LEMMA SinkStoredStep ==
    ASSUME TypeInv, QuietInv, OrderInv, SinkStep, NEW s \in Sinks, at = s
    PROVE  /\ InOrder(Contents(s)', buffer'[s])
           /\ \E new \in SUBSET Unit :
                /\ Stored(s)' = Stored(s) \cup new
                /\ WriteBuffered \/ WriteThrough => new = MessagesIn(Units(Head(out)))
                /\ ~WriteBuffered /\ ~WriteThrough /\ ~WriteThroughFails => new = {}
                /\ \A v \in new : /\ v.n <= sent
                                  /\ out # <<>> /\ v.n = Head(out).n
                                  /\ \A u \in Stored(s) : u.n < v.n
  <1>1. StorageInv /\ StorageInv' /\ NextSink
    BY SinkStorage DEF TypeInv, SinkStep
  <1>2. InOrder(Contents(s), buffer[s])
    BY DEF OrderInv, StoredInOrder
  <1>3. CASE Same(s) /\ ~WriteBuffered /\ ~WriteThrough
    <2>1. InOrder(Contents(s)', buffer'[s]) /\ Stored(s)' = Stored(s) \cup {} /\ {} \in SUBSET Unit
      BY <1>2, <1>3 DEF Same
    <2> QED
      BY <1>3, <2>1
  <1>4. ASSUME NEW z \in Seq(Unit), Takes(s, z), Ascending(z), out # <<>>, step = "write",
               MessagesIn(z) \subseteq MessagesIn(Units(Head(out)))
        PROVE  /\ InOrder(Contents(s)', buffer'[s])
               /\ Stored(s)' = Stored(s) \cup MessagesIn(z) /\ MessagesIn(z) \in SUBSET Unit
               /\ \A v \in MessagesIn(z) : /\ v.n <= sent
                                           /\ out # <<>> /\ v.n = Head(out).n
                                           /\ \A u \in Stored(s) : u.n < v.n
    <2>1. out \in Seq(Known) /\ Head(out) \in Known
      BY <1>1, <1>4, HeadOut DEF StorageInv
    <2>2. \A v \in MessagesIn(z) : v.n = Head(out).n
      BY <1>4, <2>1, UnitsAre
    <2>3. Head(out).n <= sent /\ \A u \in Stored(s) : u.n < Head(out).n
      <3>1. 1 \in DOMAIN out /\ Head(out) = out[1]
        BY <1>4, <2>1, MessageList
      <3> QED
        BY <1>4, <3>1 DEF OrderInv, UpTo, Earlier
    <2>4. \A u \in Stored(s), v \in MessagesIn(z) : Before(u, v)
      BY <2>2, <2>3 DEF Before
    <2>5. /\ Stored(s)' = Stored(s) \cup MessagesIn(z)
          /\ InOrder(Contents(s)', buffer'[s])
      BY <1>1, <1>2, <1>4, <2>4, TakesHeld
    <2> QED
      BY <1>4, <2>2, <2>3, <2>5, MessagesAre
  <1>5. CASE WriteBuffered \/ WriteThrough
    <2> DEFINE z == Units(Head(out))
    <2>1. out # <<>> /\ step = "write" /\ Takes(s, z)
      BY <1>1, <1>5, OutGoes, WriteTakes
    <2>2. Head(out) \in Known
      BY <1>1, <2>1, HeadOut
    <2>3. z \in Seq(Unit) /\ Ascending(z) /\ ~WriteThroughFails
      BY <1>1, <1>5, <2>2, UnitsAre, OutGoes
    <2> HIDE DEF z
    <2>4. MessagesIn(z) \subseteq MessagesIn(Units(Head(out)))
      BY DEF z
    <2>5. /\ InOrder(Contents(s)', buffer'[s])
          /\ Stored(s)' = Stored(s) \cup MessagesIn(z) /\ MessagesIn(z) \in SUBSET Unit
          /\ \A v \in MessagesIn(z) : /\ v.n <= sent
                                      /\ out # <<>> /\ v.n = Head(out).n
                                      /\ \A u \in Stored(s) : u.n < v.n
      BY <1>4, <2>1, <2>3, <2>4
    <2> QED
      BY <1>5, <2>3, <2>5 DEF z
  <1>6. CASE WriteThroughFails /\ ~WriteBuffered /\ ~WriteThrough
             /\ \E z \in Seq(Unit) : /\ Takes(s, z) /\ Ascending(z)
                                     /\ MessagesIn(z) \subseteq MessagesIn(Units(Head(out)))
    <2>1. PICK z \in Seq(Unit) : /\ Takes(s, z) /\ Ascending(z)
                                 /\ MessagesIn(z) \subseteq MessagesIn(Units(Head(out)))
      BY <1>6
    <2>2. out # <<>> /\ step = "write"
      BY <1>1, <1>6, OutGoes
    <2>3. /\ InOrder(Contents(s)', buffer'[s])
          /\ Stored(s)' = Stored(s) \cup MessagesIn(z) /\ MessagesIn(z) \in SUBSET Unit
          /\ \A v \in MessagesIn(z) : /\ v.n <= sent
                                      /\ out # <<>> /\ v.n = Head(out).n
                                      /\ \A u \in Stored(s) : u.n < v.n
      BY <1>4, <2>1, <2>2
    <2> QED
      BY <1>6, <2>3
  <1> QED
    BY <1>3, <1>5, <1>6, SinkGrows

LEMMA OthersStored ==
    ASSUME NEW s \in Sinks, OthersKept(s), NEW t \in Sinks \ {s}
    PROVE  Contents(t)' = Contents(t) /\ buffer'[t] = buffer[t] /\ Stored(t)' = Stored(t)
  BY StoredIs DEF OthersKept

LEMMA OrderSinkStep ==
    ASSUME TypeInv, ControlInv, QuietInv, OrderInv, SinkStep
    PROVE  OrderInv'
  <1>1. /\ UNCHANGED <<at, op, task, todo, batch, sent>> /\ at \in Sinks /\ NextSink
        /\ step # "idle" /\ at \notin todo /\ StorageInv
    BY SinkGoes, SinkStorage DEF SinkStep, fabricVars, TypeInv, ControlInv, Goings
  <1>2. PICK s \in Sinks : at = s
    BY <1>1
  <1>3. OthersKept(s) /\ InOrder(Contents(s)', buffer'[s])
    BY <1>2, SinkGrows, SinkStoredStep
  <1>4. PICK new \in SUBSET Unit :
          /\ Stored(s)' = Stored(s) \cup new
          /\ ~WriteBuffered /\ ~WriteThrough /\ ~WriteThroughFails => new = {}
          /\ \A v \in new : v.n <= sent /\ out # <<>> /\ v.n = Head(out).n
    BY <1>2, SinkStoredStep
  <1>5. \A t \in Sinks \ {s} : Contents(t)' = Contents(t) /\ buffer'[t] = buffer[t] /\ Stored(t)' = Stored(t)
    BY <1>3, OthersStored
  <1>6. StoredInOrder'
    BY <1>3, <1>5 DEF OrderInv, StoredInOrder
  <1>7. \A t \in Sinks : \A u \in Stored(t)' : u.n <= sent'
    BY <1>1, <1>4, <1>5 DEF OrderInv
  <1>8. Rising(out)' /\ UpTo(out, sent)'
    <2>1. CASE out' \in {out, <<>>}
      BY <1>1, <2>1, NoMessage DEF OrderInv, Rising, UpTo
    <2>2. CASE out # <<>> /\ out' = Tail(out)
      <3>1. out \in Seq(Known) /\ Rising(out) /\ UpTo(out, sent)
        BY DEF OrderInv, TypeInv, StorageInv
      <3>2. Rising(Tail(out)) /\ UpTo(Tail(out), sent)
        BY <2>2, <3>1, RisingTail
      <3> QED
        BY <1>1, <2>2, <3>2 DEF Rising, UpTo
    <2> QED
      BY <1>1, <2>1, <2>2, OutGoes
  <1>9. ASSUME step' = "write"
        PROVE  Earlier(s, out)'
    <2>1. out # <<>> /\ step = "write" /\ out' = Tail(out)
      BY <1>1, <1>9, OutGoes
    <2>2. out \in Seq(Known) /\ Rising(out) /\ Earlier(s, out)
      BY <1>2, <2>1 DEF OrderInv, TypeInv, StorageInv
    <2>3. \A i \in DOMAIN Tail(out) : Tail(out)[i] = out[i + 1] /\ i + 1 \in DOMAIN out
      BY <2>1, <2>2, MessageList
    <2>4. \A i \in DOMAIN Tail(out) : Head(out).n < Tail(out)[i].n
      BY <2>1, <2>2, RisingTail
    <2>5. ASSUME NEW u \in Stored(s)', NEW i \in DOMAIN Tail(out) PROVE u.n < Tail(out)[i].n
      <3>1. CASE u \in Stored(s)
        BY <2>2, <2>3, <3>1 DEF Earlier
      <3>2. CASE u \in new
        <4>1. u.n = Head(out).n
          BY <1>4, <3>2
        <4> QED
          BY <2>4, <4>1
      <3> QED
        BY <1>4, <3>1, <3>2
    <2> QED
      BY <2>1, <2>5 DEF Earlier
  <1>10. ASSUME task' = "offer", NEW t \in todo'
         PROVE  Earlier(t, batch)'
    <2>1. t \in todo /\ t \in Sinks \ {s} /\ batch' = batch /\ task = "offer"
      BY <1>1, <1>2, <1>10 DEF TypeInv
    <2>2. Stored(t)' = Stored(t) /\ Earlier(t, batch)
      BY <1>5, <2>1 DEF OrderInv
    <2> QED
      BY <2>1, <2>2 DEF Earlier
  <1>11. Rising(batch)' /\ UpTo(batch, sent)'
    BY <1>1 DEF OrderInv, Rising, UpTo
  <1>12. step' = "write" => Earlier(at, out)'
    BY <1>1, <1>2, <1>9 DEF Earlier, Stored, Filed, Contents
  <1> QED
    BY <1>6, <1>7, <1>8, <1>10, <1>11, <1>12 DEF OrderInv

\* What is handed over to whom.
Handed ==
    /\ step' = "write" => UNCHANGED <<at, step, out>> \/ (task = "offer" /\ at' \in todo /\ out' = batch)
    /\ task' = "offer" => \/ BeginRetire \/ AnotherBatch
                          \/ task = "offer" /\ todo' \subseteq todo /\ UNCHANGED batch
    /\ out' \in {out, batch, <<>>}
    /\ BeginRetire \/ AnotherBatch \/ (UNCHANGED sent /\ batch' \in {batch, <<>>})

LEMMA FabricHands == ASSUME FabricStep PROVE Handed
  <1>1. CASE BeginRetire \/ AnotherBatch
    BY <1>1 DEF BeginRetire, AnotherBatch, NextBatch, Handed, Returned, BackendUnchanged, Start, Call, Fails, history, sinkVars
  <1>2. CASE Offered
    BY <1>2 DEF Offered, Handed, Returned, BackendUnchanged, Start, Call, Fails, history, sinkVars
  <1>3. CASE EndConsume
    BY <1>3 DEF EndConsume, Handed, Returned, BackendUnchanged, Start, Call, Fails, history, sinkVars
  <1>4. CASE NotifyEpochChanged
    BY <1>4 DEF NotifyEpochChanged, Handed, Returned, BackendUnchanged, Start, Call, Fails, history, sinkVars
  <1>5. CASE SinkSynced
    BY <1>5 DEF SinkSynced, Handed, Returned, BackendUnchanged, Start, Call, Fails, history, sinkVars
  <1>6. CASE EndSync
    BY <1>6 DEF EndSync, Handed, Returned, BackendUnchanged, Start, Call, Fails, history, sinkVars
  <1>7. CASE SinkCreated
    BY <1>7 DEF SinkCreated, Handed, Returned, BackendUnchanged, Start, Call, Fails, history, sinkVars
  <1>8. CASE CreateSinkFails
    BY <1>8 DEF CreateSinkFails, Handed, Returned, BackendUnchanged, Start, Call, Fails, history, sinkVars
  <1>9. CASE SinkDestroyed
    BY <1>9 DEF SinkDestroyed, Handed, Returned, BackendUnchanged, Start, Call, Fails, history, sinkVars
  <1>10. CASE SinkFinalized
    BY <1>10 DEF SinkFinalized, Handed, Returned, BackendUnchanged, Start, Call, Fails, history, sinkVars
  <1>11. CASE FinalizeAgain
    BY <1>11 DEF FinalizeAgain, Handed, Returned, BackendUnchanged, Start, Call, Fails, history, sinkVars
  <1>12. CASE SinkGone
    BY <1>12 DEF SinkGone, Handed, Returned, BackendUnchanged, Start, Call, Fails, history, sinkVars
  <1>13. ASSUME NEW q \in Sinks, ClearLastStatus(q) PROVE Handed
    BY <1>13 DEF ClearLastStatus, Handed, Returned, BackendUnchanged, Start, Call, Fails, history, sinkVars
  <1>14. ASSUME NEW q \in Sinks, Offer(q) PROVE Handed
    BY <1>14 DEF Offer, Handed, Returned, BackendUnchanged, Start, Call, Fails, history, sinkVars
  <1>15. ASSUME NEW q \in Sinks, Sync(q) PROVE Handed
    BY <1>15 DEF Sync, Handed, Returned, BackendUnchanged, Start, Call, Fails, history, sinkVars
  <1>16. ASSUME NEW q \in Sinks, CreateSink(q) PROVE Handed
    BY <1>16 DEF CreateSink, Handed, Returned, BackendUnchanged, Start, Call, Fails, history, sinkVars
  <1>17. ASSUME NEW q \in Sinks, DestroySink(q) PROVE Handed
    BY <1>17 DEF DestroySink, Handed, Returned, BackendUnchanged, Start, Call, Fails, history, sinkVars
  <1>18. ASSUME NEW q \in Sinks, FinalizeSink(q) PROVE Handed
    BY <1>18 DEF FinalizeSink, Handed, Returned, BackendUnchanged, Start, Call, Fails, history, sinkVars
  <1>19. ASSUME NEW q \in Sinks, RemoveSink(q) PROVE Handed
    BY <1>19 DEF RemoveSink, Handed, Returned, BackendUnchanged, Start, Call, Fails, history, sinkVars
  <1> QED
    BY <1>1, <1>2, <1>3, <1>4, <1>5, <1>6, <1>7, <1>8, <1>9, <1>10, <1>11, <1>12, <1>13, <1>14, <1>15, <1>16, <1>17, <1>18, <1>19 DEF FabricStep

LEMMA BatchOrder ==
    ASSUME NEW b \in Batches, sent \in Nat
    PROVE  Rising(b) /\ UpTo(b, sent + Len(b)) /\ \A i \in DOMAIN b : sent < b[i].n
  <1>1. b \in Seq(Known) /\ Len(b) \in Nat /\ DOMAIN b = 1 .. Len(b) /\ \A i \in 1 .. Len(b) : b[i].n = sent + i
    BY BatchesAre
  <1> QED
    BY <1>1 DEF Rising, UpTo

LEMMA GoneStored ==
    ASSUME TypeInv, ControlInv, SinkGone, NEW s \in Sinks
    PROVE  /\ Stored(s)' \subseteq Stored(s)
           /\ InOrder(Contents(s), buffer[s]) => InOrder(Contents(s)', buffer'[s])
           /\ s # at \/ MessagesIn(buffer[s]) = {} => Stored(s)' = Stored(s)
  <1>1. /\ at \in Sinks /\ UNCHANGED containers /\ buffer' = [buffer EXCEPT ![at] = <<>>]
    BY GoneForgets
  <1>2. Contents(s)' = Contents(s) /\ Contents(s) \in Files /\ buffer[s] \in Seq(Unit)
    BY <1>1, ContentsAre DEF Contents, TypeInv, StorageInv
  <1>3. CASE s # at
    BY <1>1, <1>2, <1>3, StoredIs DEF TypeInv, StorageInv
  <1>4. CASE s = at
    <2>1. buffer'[s] = <<>>
      BY <1>1, <1>4 DEF TypeInv, StorageInv
    <2>2. /\ Held(Contents(s), <<>>) \subseteq Held(Contents(s), buffer[s])
          /\ MessagesIn(buffer[s]) = {} => Held(Contents(s), <<>>) = Held(Contents(s), buffer[s])
          /\ InOrder(Contents(s), buffer[s]) => InOrder(Contents(s), <<>>)
      BY <1>2, NoUnit, Resets
    <2> QED
      BY <1>2, <1>4, <2>1, <2>2, StoredIs
  <1> QED
    BY <1>3, <1>4

LEMMA FabricStored ==
    ASSUME TypeInv, ControlInv, FabricStep, NEW s \in Sinks
    PROVE  /\ Stored(s)' \subseteq Stored(s)
           /\ InOrder(Contents(s), buffer[s]) => InOrder(Contents(s)', buffer'[s])
           /\ ~SinkGone \/ s # at \/ MessagesIn(buffer[s]) = {} => Stored(s)' = Stored(s)
  <1>1. CASE SinkGone
    BY <1>1, GoneStored
  <1>2. CASE ~SinkGone
    <2>1. UNCHANGED <<buffer, containers>>
      BY <1>2, FabricKeeps
    <2>2. Contents(s)' = Contents(s) /\ buffer'[s] = buffer[s]
      BY <2>1 DEF Contents
    <2> QED
      BY <2>2, StoredIs
  <1> QED
    BY <1>1, <1>2

LEMMA OrderFabricStep ==
    ASSUME TypeInv, ControlInv, OrderInv, FabricStep
    PROVE  OrderInv'
  <1>1. StoredInOrder'
    BY FabricStored DEF OrderInv, StoredInOrder
  <1>2. StorageInv /\ Handed /\ sent \in Nat /\ batch \in Seq(Known) /\ out \in Seq(Known)
    BY FabricHands DEF TypeInv, StorageInv
  <1>3. CASE BeginRetire \/ AnotherBatch
    <2>1. PICK b \in Batches : /\ batch' = b /\ sent' = sent + Len(b)
                               /\ todo' \subseteq Sinks
                               /\ UNCHANGED sinkVars
      BY <1>3, NextBatchIs, TypesKept DEF TypeInv
    <2>2. /\ b \in Seq(Known) /\ Len(b) \in Nat /\ DOMAIN b = 1 .. Len(b)
          /\ Rising(b) /\ UpTo(b, sent + Len(b)) /\ \A i \in DOMAIN b : sent < b[i].n
      BY <1>2, BatchesAre, BatchOrder
    <2>3. \A s \in Sinks : Stored(s)' = Stored(s)
      BY <2>1 DEF sinkVars, Stored, Filed, Contents
    <2>4. \A s \in Sinks : \A u \in Stored(s) : u.n \in Nat /\ u.n <= sent
      BY <1>2, StoredUnits DEF OrderInv
    <2>5. \A s \in Sinks : \A u \in Stored(s)' : u.n <= sent'
      BY <1>2, <2>1, <2>2, <2>3, <2>4
    <2>6. Rising(out)' /\ UpTo(out, sent)'
      <3>1. \A i \in DOMAIN out : out[i].n \in Nat
        BY <1>2, MessageList DEF Known
      <3> QED
        BY <1>2, <2>1, <2>2, <3>1 DEF OrderInv, Rising, UpTo, sinkVars
    <2>7. Rising(batch)' /\ UpTo(batch, sent)'
      BY <2>1, <2>2 DEF Rising, UpTo
    <2>8. step' # "write"
      BY <1>3, <2>1 DEF BeginRetire, AnotherBatch, ControlInv, sinkVars
    <2>9. ASSUME NEW s \in todo' PROVE Earlier(s, batch)'
      <3>1. s \in Sinks
        BY <2>1
      <3>2. \A i \in DOMAIN b : b[i].n \in Nat
        BY <2>2, MessageList DEF Known
      <3>3. \A u \in Stored(s), i \in DOMAIN b : u.n < b[i].n
        BY <1>2, <2>2, <2>4, <3>1, <3>2
      <3> QED
        BY <2>1, <2>3, <3>1, <3>3 DEF Earlier
    <2> QED
      BY <1>1, <2>5, <2>6, <2>7, <2>8, <2>9 DEF OrderInv
  <1>4. CASE ~BeginRetire /\ ~AnotherBatch
    <2>1. UNCHANGED sent /\ batch' \in {batch, <<>>} /\ out' \in {out, batch, <<>>}
      BY <1>2, <1>4 DEF Handed
    <2>2. \A s \in Sinks : \A u \in Stored(s)' : u.n <= sent'
      BY <2>1, FabricStored DEF OrderInv
    <2>3. Rising(out)' /\ UpTo(out, sent)' /\ Rising(batch)' /\ UpTo(batch, sent)'
      BY <2>1, NoMessage DEF OrderInv, Rising, UpTo
    <2>4. ASSUME step' = "write" PROVE Earlier(at, out)'
      <3>1. PICK s \in Sinks : at' = s
        BY <2>4, FabricControl DEF ControlInv
      <3>2. Stored(s)' \subseteq Stored(s)
        BY FabricStored
      <3>3. Earlier(s, out')
        <4>1. CASE UNCHANGED <<at, step, out>>
          BY <2>4, <3>1, <4>1 DEF OrderInv
        <4>2. CASE task = "offer" /\ at' \in todo /\ out' = batch
          BY <3>1, <4>2 DEF OrderInv
        <4> QED
          BY <1>2, <2>4, <4>1, <4>2 DEF Handed
      <3>4. Earlier(s, out)'
        BY <3>2, <3>3 DEF Earlier
      <3> QED
        BY <3>1, <3>4 DEF Earlier, Stored, Filed, Contents
    <2>5. ASSUME task' = "offer", NEW s \in todo' PROVE Earlier(s, batch)'
      <3>1. task = "offer" /\ s \in todo /\ batch' = batch /\ s \in Sinks
        BY <1>2, <1>4, <2>5 DEF Handed, TypeInv
      <3>2. Earlier(s, batch) /\ Stored(s)' \subseteq Stored(s)
        BY <3>1, FabricStored DEF OrderInv
      <3> QED
        BY <3>1, <3>2 DEF Earlier
    <2> QED
      BY <1>1, <2>2, <2>3, <2>4, <2>5 DEF OrderInv
  <1> QED
    BY <1>3, <1>4

LEMMA OrderNext ==
    ASSUME TypeInv, ControlInv, QuietInv, OrderInv, [NextFabric]_<<sinkVars, fabricVars>>
    PROVE  OrderInv'
  <1>1. CASE IdleStep
    <2>1. /\ UNCHANGED <<buffer, containers, at, step, out, task, todo, batch, sent>>
          /\ \A s \in Sinks : Contents(s)' = Contents(s)
      BY <1>1, IdleKeeps DEF fabricVars
    <2> QED
      BY <2>1 DEF OrderInv, StoredInOrder, Rising, UpTo, Earlier, Stored, Filed, Contents
  <1> QED
    BY <1>1, OrderSinkStep, OrderFabricStep, StepsAre

LEMMA FileNext ==
    ASSUME TypeInv, ControlInv, FileInv, [NextFabric]_<<sinkVars, fabricVars>>
    PROVE  FileInv'
  <1>1. CASE IdleStep
    BY <1>1, IdleKeeps DEF fabricVars, FileInv, Sound, Phase, HasFile, HasNone, Finalising, Active
  <1> QED
    BY <1>1, FileSinkStep, FileFabricStep, StepsAre

LEMMA QuietNext ==
    ASSUME TypeInv, ControlInv, FileInv, QuietInv, [NextFabric]_<<sinkVars, fabricVars>>
    PROVE  QuietInv'
  <1>1. CASE IdleStep
    BY <1>1, IdleKeeps DEF fabricVars, QuietInv, Sound, Phase
  <1> QED
    BY <1>1, QuietSinkStep, QuietFabricStep, StepsAre

\* What a sink has stays, and what comes is behind it.
LEMMA NothingDroppedStep ==
    ASSUME TypeInv, ControlInv, QuietInv, OrderInv, [NextFabric]_<<sinkVars, fabricVars>>,
           NEW s \in attached \cap attached'
    PROVE  /\ Stored(s) \subseteq Stored(s)'
           /\ \A u \in Stored(s), v \in Stored(s)' \ Stored(s) : Before(u, v)
  <1>1. s \in Sinks
    BY DEF TypeInv
  <1>2. CASE SinkStep
    <2>1. at \in Sinks
      BY <1>2, SinkStorage DEF SinkStep, TypeInv
    <2>2. CASE s = at
      <3>1. PICK new \in SUBSET Unit : /\ Stored(s)' = Stored(s) \cup new
                                       /\ \A v \in new : \A u \in Stored(s) : u.n < v.n
        BY <1>1, <1>2, <2>2, SinkStoredStep
      <3> QED
        BY <3>1 DEF Before
    <2>3. CASE s # at
      <3>1. PICK q \in Sinks : at = q
        BY <2>1
      <3>2. OthersKept(q)
        BY <1>2, <3>1, SinkGrows
      <3> QED
        BY <1>1, <2>3, <3>1, <3>2, OthersStored
    <2> QED
      BY <2>2, <2>3
  <1>3. CASE FabricStep
    <2>1. SinkGone => s # at
      BY GoneForgets
    <2> QED
      BY <1>1, <1>3, <2>1, FabricStored
  <1>4. CASE IdleStep
    <2>1. Contents(s)' = Contents(s) /\ buffer' = buffer
      BY <1>1, <1>4, IdleKeeps
    <2>2. Stored(s)' = Stored(s)
      BY <2>1, StoredIs
    <2> QED
      BY <2>2
  <1> QED
    BY <1>2, <1>3, <1>4, StepsAre

-----------------------------------------------------------------------------
(* Completeness: what a sink was offered it has, or is about to get.        *)

\* A failed call does not count until the fabric heard of it, if it wrote no messages.
Counts(s) == s \notin flawed /\ (Phase(s) = "failed" => op # "consume")
Pending(s) ==
    IF Phase(s) = "write" THEN Passing(s, out)
    ELSE IF task = "offer" /\ s \in todo THEN Passing(s, batch) ELSE {}
CompleteInv ==
    /\ \A s \in Sinks : Counts(s) => Stored(s) \cup Pending(s) = offered[s]
    /\ task = "offer" => \A s \in Sinks \ flawed :
                            Active(s) => s \in todo \/ s \in served \/ Phase(s) # "idle"

LEMMA PassingSplits ==
    ASSUME NEW s \in Sinks, NEW b \in Seq(Known), b # <<>>
    PROVE  Passing(s, b) = (IF Passes(s, Head(b)) THEN MessagesIn(Units(Head(b))) ELSE {})
                             \cup Passing(s, Tail(b))
  <1> DEFINE t == Tail(b)
  <1>1. /\ Len(b) \in Nat /\ DOMAIN b = 1 .. Len(b) /\ 1 \in DOMAIN b /\ Head(b) = b[1]
        /\ t \in Seq(Known) /\ Len(t) = Len(b) - 1
        /\ \A i \in 1 .. Len(t) : t[i] = b[i + 1] /\ i + 1 \in 1 .. Len(b)
    BY MessageList, HeadTailProperties
  <1> HIDE DEF t
  <1>2. ASSUME NEW i \in 1 .. Len(b), i # 1 PROVE \E j \in 1 .. Len(t) : b[i] = t[j]
    <2> DEFINE j == i - 1
    <2>1. j \in 1 .. Len(t) /\ j + 1 = i
      BY <1>1, <1>2
    <2> HIDE DEF j
    <2> QED
      BY <1>1, <2>1
  <1>3. ASSUME NEW u
        PROVE  u \in Passing(s, b) <=> (Passes(s, Head(b)) /\ u \in MessagesIn(Units(Head(b))))
                                       \/ u \in Passing(s, t)
    <2>1. u \in Passing(s, b) <=> \E i \in 1 .. Len(b) : Passes(s, b[i]) /\ u \in MessagesIn(Units(b[i]))
      BY PassingAre
    <2>2. u \in Passing(s, t) <=> \E i \in 1 .. Len(t) : Passes(s, t[i]) /\ u \in MessagesIn(Units(t[i]))
      BY <1>1, PassingAre
    <2>3. ASSUME u \in Passing(s, b)
          PROVE  (Passes(s, Head(b)) /\ u \in MessagesIn(Units(Head(b)))) \/ u \in Passing(s, t)
      <3>1. PICK i \in 1 .. Len(b) : Passes(s, b[i]) /\ u \in MessagesIn(Units(b[i]))
        BY <2>1, <2>3
      <3>2. CASE i = 1
        BY <1>1, <3>1, <3>2
      <3>3. CASE i # 1
        BY <1>2, <2>2, <3>1, <3>3
      <3> QED
        BY <3>2, <3>3
    <2>4. ASSUME u \in Passing(s, t) PROVE u \in Passing(s, b)
      <3>1. PICK i \in 1 .. Len(t) : Passes(s, t[i]) /\ u \in MessagesIn(Units(t[i]))
        BY <2>2, <2>4
      <3>2. t[i] = b[i + 1] /\ i + 1 \in 1 .. Len(b)
        BY <1>1
      <3> QED
        BY <2>1, <3>1, <3>2
    <2>5. ASSUME Passes(s, Head(b)), u \in MessagesIn(Units(Head(b))) PROVE u \in Passing(s, b)
      BY <1>1, <2>1, <2>5
    <2> QED
      BY <2>3, <2>4, <2>5
  <1>4. \A u : u \in Passing(s, b) <=>
          u \in (IF Passes(s, Head(b)) THEN MessagesIn(Units(Head(b))) ELSE {}) \cup Passing(s, t)
    BY <1>3
  <1> QED
    BY <1>4 DEF t

LEMMA NonePasses == \A s \in Sinks : Passing(s, <<>>) = {}
  <1>1. DOMAIN <<>> = {}
    OBVIOUS
  <1> QED
    BY <1>1 DEF Passing, Range

LEMMA WriteEnds ==
    ASSUME NextSink, step = "write", step' = "done"
    PROVE  out = <<>>
  BY DEF NextSink, PassOver, WriteBuffered, WriteThrough, WriteThroughFails, AllWritten, Flush,
         FlushFails, KeepFile, EndFile, WriteBreak, WriteBreakFails, StepFails, ReleaseFile, CreateFile,
         EncodeHeader, WriteHeader, NothingToFinalise, EmitBreak, EmitBreakFails, CloseFile,
         MayWrite, MayCreate, WriteFails, Goes, Synced

LEMMA CompleteSinkStep ==
    ASSUME TypeInv, ControlInv, QuietInv, OrderInv, CompleteInv, SinkStep
    PROVE  CompleteInv'
  <1>1. /\ UNCHANGED <<at, op, task, todo, batch, served, front, flawed, offered>> /\ at \in Sinks
        /\ NextSink /\ Goings /\ step # "idle" /\ step' # "idle" /\ step # "failed" /\ at \notin todo
        /\ StorageInv /\ (step = "write" => op = "consume")
    BY SinkGoes, SinkStorage DEF SinkStep, fabricVars, TypeInv, ControlInv, Goings, Synced, StepsOf, Rotation
  <1>2. PICK s \in Sinks : at = s
    BY <1>1
  <1>3. PICK new \in SUBSET Unit :
          /\ Stored(s)' = Stored(s) \cup new
          /\ WriteBuffered \/ WriteThrough => new = MessagesIn(Units(Head(out)))
          /\ ~WriteBuffered /\ ~WriteThrough /\ ~WriteThroughFails => new = {}
    BY <1>2, SinkStoredStep
  <1>4. ASSUME NEW t \in Sinks \ {s} PROVE Stored(t)' = Stored(t)
    BY <1>2, SinkGrows, OthersStored
  <1>5. ASSUME NEW t \in Sinks \ {s}, Counts(t)' PROVE Stored(t)' \cup Pending(t)' = offered'[t]
    <2>1. Counts(t) /\ Pending(t)' = Pending(t)
      BY <1>1, <1>2, <1>5 DEF Counts, Phase, Pending
    <2> QED
      BY <1>1, <1>4, <2>1 DEF CompleteInv
  <1>6. ASSUME Counts(s)' PROVE Stored(s)' \cup Pending(s)' = offered'[s]
    <2>1. Counts(s) /\ Stored(s) \cup Pending(s) = offered[s] /\ (step' = "failed" => op # "consume")
      BY <1>1, <1>2, <1>6 DEF Counts, Phase, CompleteInv
    <2>2. CASE step = "write" /\ step' = "write"
      <3>1. /\ out # <<>> /\ out' = Tail(out) /\ out \in Seq(Known)
            /\ WriteBuffered \/ WriteThrough => Passes(s, Head(out))
            /\ ~WriteBuffered /\ ~WriteThrough => ~Passes(s, Head(out))
            /\ ~WriteThroughFails
        BY <1>1, <1>2, <2>2, OutGoes DEF StorageInv
      <3>2. Pending(s) = Passing(s, out) /\ Pending(s)' = Passing(s, Tail(out))
        BY <1>1, <1>2, <2>2, <3>1 DEF Pending, Phase
      <3>3. Passing(s, out) = (IF Passes(s, Head(out)) THEN MessagesIn(Units(Head(out))) ELSE {})
                                \cup Passing(s, Tail(out))
        BY <3>1, PassingSplits
      <3>4. new = IF Passes(s, Head(out)) THEN MessagesIn(Units(Head(out))) ELSE {}
        BY <1>3, <3>1
      <3> QED
        BY <1>1, <1>3, <2>1, <3>2, <3>3, <3>4
    <2>3. CASE step = "write" /\ step' = "done"
      <3>1. out = <<>> /\ new = {}
        BY <1>1, <1>3, <2>3, WriteEnds, OutGoes
      <3>2. Pending(s) = {} /\ Pending(s)' = {}
        BY <1>1, <1>2, <2>3, <3>1, NonePasses DEF Pending, Phase
      <3> QED
        BY <1>1, <1>3, <2>1, <3>1, <3>2
    <2>4. CASE step # "write"
      <3>1. new = {} /\ step' # "write"
        BY <1>1, <1>3, <2>4, OutGoes
      <3>2. Pending(s) = {} /\ Pending(s)' = {}
        BY <1>1, <1>2, <2>4, <3>1 DEF Pending, Phase
      <3> QED
        BY <1>1, <1>3, <2>1, <3>1, <3>2
    <2> QED
      BY <1>1, <2>1, <2>2, <2>3, <2>4 DEF Goings
  <1>7. ASSUME task' = "offer", NEW t \in Sinks \ flawed', Active(t)'
        PROVE  t \in todo' \/ t \in served' \/ Phase(t)' # "idle"
    BY <1>1, <1>2, <1>7 DEF CompleteInv, Active, Phase
  <1> QED
    BY <1>5, <1>6, <1>7 DEF CompleteInv

\* The messages of a batch that is handed over go from the fabric to the call.
Passed ==
    /\ task' = "offer" => task = "offer"
    /\ UNCHANGED offered
    /\ \A s \in Sinks : Counts(s)' => Counts(s) /\ Pending(s)' = Pending(s)
    /\ task' = "offer" => \A s \in Sinks \ flawed' :
          /\ Active(s)' => Active(s)
          /\ s \in todo \/ s \in served \/ Phase(s) # "idle"
               => s \in todo' \/ s \in served' \/ Phase(s)' # "idle"

LEMMA FabricPasses ==
    ASSUME TypeInv, ControlInv, FabricStep, ~BeginRetire, ~AnotherBatch
    PROVE  Passed
  <1>1. CASE Offered
    BY <1>1 DEF Offered, Passed, Counts, Pending, Phase, Active, ControlInv, TypeInv, Fronts, FrontsOf, StepsOf, Rotation, Calls, Returned, BackendUnchanged, Start, Call, Fails, history, sinkVars
  <1>2. CASE EndConsume
    BY <1>2 DEF EndConsume, Passed, Counts, Pending, Phase, Active, ControlInv, TypeInv, Fronts, FrontsOf, StepsOf, Rotation, Calls, Returned, BackendUnchanged, Start, Call, Fails, history, sinkVars
  <1>3. CASE NotifyEpochChanged
    BY <1>3 DEF NotifyEpochChanged, Passed, Counts, Pending, Phase, Active, ControlInv, TypeInv, Fronts, FrontsOf, StepsOf, Rotation, Calls, Returned, BackendUnchanged, Start, Call, Fails, history, sinkVars
  <1>4. CASE SinkSynced
    BY <1>4 DEF SinkSynced, Passed, Counts, Pending, Phase, Active, ControlInv, TypeInv, Fronts, FrontsOf, StepsOf, Rotation, Calls, Returned, BackendUnchanged, Start, Call, Fails, history, sinkVars
  <1>5. CASE EndSync
    BY <1>5 DEF EndSync, Passed, Counts, Pending, Phase, Active, ControlInv, TypeInv, Fronts, FrontsOf, StepsOf, Rotation, Calls, Returned, BackendUnchanged, Start, Call, Fails, history, sinkVars
  <1>6. CASE SinkCreated
    BY <1>6 DEF SinkCreated, Passed, Counts, Pending, Phase, Active, ControlInv, TypeInv, Fronts, FrontsOf, StepsOf, Rotation, Calls, Returned, BackendUnchanged, Start, Call, Fails, history, sinkVars
  <1>7. CASE CreateSinkFails
    BY <1>7 DEF CreateSinkFails, Passed, Counts, Pending, Phase, Active, ControlInv, TypeInv, Fronts, FrontsOf, StepsOf, Rotation, Calls, Returned, BackendUnchanged, Start, Call, Fails, history, sinkVars
  <1>8. CASE SinkDestroyed
    BY <1>8 DEF SinkDestroyed, Passed, Counts, Pending, Phase, Active, ControlInv, TypeInv, Fronts, FrontsOf, StepsOf, Rotation, Calls, Returned, BackendUnchanged, Start, Call, Fails, history, sinkVars
  <1>9. CASE SinkFinalized
    BY <1>9 DEF SinkFinalized, Passed, Counts, Pending, Phase, Active, ControlInv, TypeInv, Fronts, FrontsOf, StepsOf, Rotation, Calls, Returned, BackendUnchanged, Start, Call, Fails, history, sinkVars
  <1>10. CASE FinalizeAgain
    BY <1>10 DEF FinalizeAgain, Passed, Counts, Pending, Phase, Active, ControlInv, TypeInv, Fronts, FrontsOf, StepsOf, Rotation, Calls, Returned, BackendUnchanged, Start, Call, Fails, history, sinkVars
  <1>11. CASE SinkGone
    BY <1>11 DEF SinkGone, Passed, Counts, Pending, Phase, Active, ControlInv, TypeInv, Fronts, FrontsOf, StepsOf, Rotation, Calls, Returned, BackendUnchanged, Start, Call, Fails, history, sinkVars
  <1>12. ASSUME NEW q \in Sinks, ClearLastStatus(q) PROVE Passed
    BY <1>12 DEF ClearLastStatus, Passed, Counts, Pending, Phase, Active, ControlInv, TypeInv, Fronts, FrontsOf, StepsOf, Rotation, Calls, Returned, BackendUnchanged, Start, Call, Fails, history, sinkVars
  <1>13. ASSUME NEW q \in Sinks, Offer(q) PROVE Passed
    BY <1>13 DEF Offer, Passed, Counts, Pending, Phase, Active, ControlInv, TypeInv, Fronts, FrontsOf, StepsOf, Rotation, Calls, Returned, BackendUnchanged, Start, Call, Fails, history, sinkVars
  <1>14. ASSUME NEW q \in Sinks, Sync(q) PROVE Passed
    BY <1>14 DEF Sync, Passed, Counts, Pending, Phase, Active, ControlInv, TypeInv, Fronts, FrontsOf, StepsOf, Rotation, Calls, Returned, BackendUnchanged, Start, Call, Fails, history, sinkVars
  <1>15. ASSUME NEW q \in Sinks, CreateSink(q) PROVE Passed
    BY <1>15 DEF CreateSink, Passed, Counts, Pending, Phase, Active, ControlInv, TypeInv, Fronts, FrontsOf, StepsOf, Rotation, Calls, Returned, BackendUnchanged, Start, Call, Fails, history, sinkVars
  <1>16. ASSUME NEW q \in Sinks, DestroySink(q) PROVE Passed
    BY <1>16 DEF DestroySink, Passed, Counts, Pending, Phase, Active, ControlInv, TypeInv, Fronts, FrontsOf, StepsOf, Rotation, Calls, Returned, BackendUnchanged, Start, Call, Fails, history, sinkVars
  <1>17. ASSUME NEW q \in Sinks, FinalizeSink(q) PROVE Passed
    BY <1>17 DEF FinalizeSink, Passed, Counts, Pending, Phase, Active, ControlInv, TypeInv, Fronts, FrontsOf, StepsOf, Rotation, Calls, Returned, BackendUnchanged, Start, Call, Fails, history, sinkVars
  <1>18. ASSUME NEW q \in Sinks, RemoveSink(q) PROVE Passed
    BY <1>18 DEF RemoveSink, Passed, Counts, Pending, Phase, Active, ControlInv, TypeInv, Fronts, FrontsOf, StepsOf, Rotation, Calls, Returned, BackendUnchanged, Start, Call, Fails, history, sinkVars
  <1> QED
    BY <1>1, <1>2, <1>3, <1>4, <1>5, <1>6, <1>7, <1>8, <1>9, <1>10, <1>11, <1>12, <1>13, <1>14, <1>15, <1>16, <1>17, <1>18 DEF FabricStep

LEMMA FlawedStays ==
    ASSUME FabricStep, ~BeginRetire, ~AnotherBatch
    PROVE  flawed \subseteq flawed'
  <1>1. CASE Offered
    BY <1>1 DEF Offered, Returned, BackendUnchanged, Start, Call, Fails, history, sinkVars
  <1>2. CASE EndConsume
    BY <1>2 DEF EndConsume, Returned, BackendUnchanged, Start, Call, Fails, history, sinkVars
  <1>3. CASE NotifyEpochChanged
    BY <1>3 DEF NotifyEpochChanged, Returned, BackendUnchanged, Start, Call, Fails, history, sinkVars
  <1>4. CASE SinkSynced
    BY <1>4 DEF SinkSynced, Returned, BackendUnchanged, Start, Call, Fails, history, sinkVars
  <1>5. CASE EndSync
    BY <1>5 DEF EndSync, Returned, BackendUnchanged, Start, Call, Fails, history, sinkVars
  <1>6. CASE SinkCreated
    BY <1>6 DEF SinkCreated, Returned, BackendUnchanged, Start, Call, Fails, history, sinkVars
  <1>7. CASE CreateSinkFails
    BY <1>7 DEF CreateSinkFails, Returned, BackendUnchanged, Start, Call, Fails, history, sinkVars
  <1>8. CASE SinkDestroyed
    BY <1>8 DEF SinkDestroyed, Returned, BackendUnchanged, Start, Call, Fails, history, sinkVars
  <1>9. CASE SinkFinalized
    BY <1>9 DEF SinkFinalized, Returned, BackendUnchanged, Start, Call, Fails, history, sinkVars
  <1>10. CASE FinalizeAgain
    BY <1>10 DEF FinalizeAgain, Returned, BackendUnchanged, Start, Call, Fails, history, sinkVars
  <1>11. CASE SinkGone
    BY <1>11 DEF SinkGone, Returned, BackendUnchanged, Start, Call, Fails, history, sinkVars
  <1>12. ASSUME NEW q \in Sinks, ClearLastStatus(q) PROVE flawed \subseteq flawed'
    BY <1>12 DEF ClearLastStatus, Returned, BackendUnchanged, Start, Call, Fails, history, sinkVars
  <1>13. ASSUME NEW q \in Sinks, Offer(q) PROVE flawed \subseteq flawed'
    BY <1>13 DEF Offer, Returned, BackendUnchanged, Start, Call, Fails, history, sinkVars
  <1>14. ASSUME NEW q \in Sinks, Sync(q) PROVE flawed \subseteq flawed'
    BY <1>14 DEF Sync, Returned, BackendUnchanged, Start, Call, Fails, history, sinkVars
  <1>15. ASSUME NEW q \in Sinks, CreateSink(q) PROVE flawed \subseteq flawed'
    BY <1>15 DEF CreateSink, Returned, BackendUnchanged, Start, Call, Fails, history, sinkVars
  <1>16. ASSUME NEW q \in Sinks, DestroySink(q) PROVE flawed \subseteq flawed'
    BY <1>16 DEF DestroySink, Returned, BackendUnchanged, Start, Call, Fails, history, sinkVars
  <1>17. ASSUME NEW q \in Sinks, FinalizeSink(q) PROVE flawed \subseteq flawed'
    BY <1>17 DEF FinalizeSink, Returned, BackendUnchanged, Start, Call, Fails, history, sinkVars
  <1>18. ASSUME NEW q \in Sinks, RemoveSink(q) PROVE flawed \subseteq flawed'
    BY <1>18 DEF RemoveSink, Returned, BackendUnchanged, Start, Call, Fails, history, sinkVars
  <1> QED
    BY <1>1, <1>2, <1>3, <1>4, <1>5, <1>6, <1>7, <1>8, <1>9, <1>10, <1>11, <1>12, <1>13, <1>14, <1>15, <1>16, <1>17, <1>18 DEF FabricStep

LEMMA CompleteFabricStep ==
    ASSUME TypeInv, ControlInv, FileInv, QuietInv, CompleteInv, FabricStep
    PROVE  CompleteInv'
  <1>1. CASE BeginRetire \/ AnotherBatch
    <2>1. PICK b \in Batches :
            /\ batch' = b /\ task' = "offer"
            /\ offered' = [s \in Sinks |-> IF Active(s) THEN offered[s] \cup Passing(s, b)
                                           ELSE offered[s]]
            /\ todo' = {s \in (IF BeginRetire THEN attached ELSE served) : Active(s)}
            /\ UNCHANGED <<sinkVars, attached, front, flawed>>
      BY <1>1, NextBatchIs
    <2>2. /\ \A s \in Sinks : Phase(s) = "idle" /\ Phase(s)' = "idle" /\ s \notin todo
          /\ UNCHANGED step /\ step = "idle"
      BY <1>1, <2>1 DEF BeginRetire, AnotherBatch, ControlInv, Phase, sinkVars
    <2>3. \A s \in Sinks : Stored(s)' = Stored(s)
      BY <2>1 DEF sinkVars, Stored, Filed, Contents
    <2>4. ASSUME NEW s \in Sinks, s \notin flawed, Active(s) PROVE s \in todo'
      <3>1. CASE BeginRetire
        BY <2>1, <2>4, <3>1 DEF ControlInv
      <3>2. CASE AnotherBatch /\ ~BeginRetire
        <4>1. s \in served
          BY <2>2, <2>4, <3>2 DEF AnotherBatch, CompleteInv
        <4> QED
          BY <2>1, <2>4, <3>2, <4>1
      <3> QED
        BY <1>1, <3>1, <3>2
    <2>5. ASSUME NEW s \in Sinks, Counts(s)' PROVE Stored(s)' \cup Pending(s)' = offered'[s]
      <3>1. s \notin flawed /\ Counts(s)
        BY <2>1, <2>2, <2>5 DEF Counts
      <3>2. Stored(s) = offered[s]
        <4>1. Pending(s) = {}
          BY <2>2 DEF Pending
        <4> QED
          BY <3>1, <4>1 DEF CompleteInv
      <3>3. CASE Active(s)
        <4>1. Pending(s)' = Passing(s, b) /\ offered'[s] = offered[s] \cup Passing(s, b)
          BY <2>1, <2>2, <2>4, <3>1, <3>3 DEF Pending
        <4> QED
          BY <2>3, <3>2, <4>1
      <3>4. CASE ~Active(s)
        <4>1. Pending(s)' = {} /\ offered'[s] = offered[s]
          BY <2>1, <2>2, <3>4 DEF Pending
        <4> QED
          BY <2>3, <3>2, <4>1
      <3> QED
        BY <3>3, <3>4
    <2>6. ASSUME NEW s \in Sinks \ flawed', Active(s)' PROVE s \in todo'
      BY <2>1, <2>4, <2>6 DEF Active
    <2> QED
      BY <2>5, <2>6 DEF CompleteInv
  <1>2. CASE ~BeginRetire /\ ~AnotherBatch
    <2>1. Passed
      BY <1>2, FabricPasses
    <2>2. ASSUME NEW s \in Sinks, Counts(s)' PROVE Stored(s)' = Stored(s)
      <3>1. CASE SinkGone /\ s = at
        <4>1. step = "done" /\ Finalising /\ s \notin flawed
          BY <2>2, <3>1 DEF SinkGone, Returned, Counts, Finalising
        <4>2. Sound(s) /\ HasNone(s)
          BY <3>1, <4>1 DEF Sound, HasNone, Phase
        <4>3. MessagesIn(buffer[s]) = {}
          BY <4>2 DEF FileInv, QuietInv
        <4> QED
          BY <4>3, FabricStored
      <3>2. CASE ~SinkGone \/ s # at
        BY <3>2, FabricStored
      <3> QED
        BY <3>1, <3>2
    <2>3. \A s \in Sinks : Counts(s)' => Stored(s)' \cup Pending(s)' = offered'[s]
      BY <2>1, <2>2 DEF Passed, CompleteInv
    <2>4. task' = "offer" => \A s \in Sinks \ flawed' :
                                Active(s)' => s \in todo' \/ s \in served' \/ Phase(s)' # "idle"
      <3>1. flawed \subseteq flawed'
        BY <1>2, FlawedStays
      <3> QED
        BY <2>1, <3>1 DEF Passed, CompleteInv
    <2> QED
      BY <2>3, <2>4 DEF CompleteInv
  <1> QED
    BY <1>1, <1>2

LEMMA CompleteNext ==
    ASSUME TypeInv, ControlInv, FileInv, QuietInv, OrderInv, CompleteInv,
           [NextFabric]_<<sinkVars, fabricVars>>
    PROVE  CompleteInv'
  <1>1. CASE IdleStep
    <2>1. /\ UNCHANGED <<buffer, at, op, step, out, task, todo, batch, served, front, flawed, offered>>
          /\ \A s \in Sinks : Contents(s)' = Contents(s)
      BY <1>1, IdleKeeps DEF fabricVars
    <2>2. \A s \in Sinks : Stored(s)' = Stored(s)
      BY <2>1, StoredIs
    <2> QED
      BY <2>1, <2>2 DEF CompleteInv, Counts, Pending, Phase, Active
  <1> QED
    BY <1>1, CompleteSinkStep, CompleteFabricStep, StepsAre

LEMMA CompleteImplies ==
    ASSUME TypeInv, ControlInv, FileInv, QuietInv, CompleteInv
    PROVE  SinkComplete
  <1> SUFFICES ASSUME NEW s \in Sinks \ flawed
               PROVE  /\ s \in attached /\ task \in {"none", "sync"} /\ front[s] = "active"
                            => Stored(s) = offered[s]
                      /\ task = "none" /\ front[s] \in {"gone", "disabled"} => Filed(s) = offered[s]
    BY DEF SinkComplete
  <1>1. ASSUME task \in {"none", "sync"} PROVE Stored(s) = offered[s]
    <2>1. Phase(s) \in {"write", "failed"} /\ op = "consume" => task = "offer"
      BY DEF ControlInv, Calls, Phase
    <2>2. Phase(s) = "write" => op = "consume"
      BY DEF ControlInv, StepsOf, Rotation, Phase
    <2>3. Counts(s) /\ Pending(s) = {}
      BY <1>1, <2>1, <2>2 DEF Counts, Pending
    <2> QED
      BY <2>3 DEF CompleteInv
  <1>2. ASSUME task = "none", front[s] \in {"gone", "disabled"} PROVE Filed(s) = Stored(s)
    <2>1. Sound(s) /\ HasNone(s)
      BY <1>2 DEF ControlInv, Sound, HasNone, Phase, Active
    <2>2. MessagesIn(buffer[s]) = {}
      BY <2>1 DEF FileInv, QuietInv
    <2> QED
      BY <2>2 DEF Stored
  <1> QED
    BY <1>1, <1>2

-----------------------------------------------------------------------------
(* The shape of files.                                                      *)

\* What has come of a call when the break is in the file or on its way, ...
Ending(phase, ends) ==
    phase \in {"break", "release"} \/ (phase \in {"flush", "rotate", "finish"} /\ ends)

\* ... and how the files c with the open one k and the buffer b look like then.
Shaped(phase, ends, c, b, k) ==
    /\ \A r \in DOMAIN c : r # k => WellFormed(c[r], TRUE)
    /\ k = 0 \/ phase \in {"rotate", "release", "finish"} => b = <<>>
    /\ phase \in {"break", "release", "create", "resource", "header"} => ~ends
    /\ k # 0 => IF phase \in {"resource", "header"}
                THEN c[k] = <<>> /\ (phase = "header" => b = <<Header>>)
                ELSE c[k] # <<>> /\ WellFormed(c[k] \o b, Ending(phase, ends))
ShapeInv ==
    \A s \in Sinks : Sound(s) /\ s \notin late =>
        Shaped(Phase(s), Finalising, Contents(s), buffer[s], backing[s])

LEMMA ShapeImplies ==
    ASSUME TypeInv, ControlInv, ShapeInv
    PROVE  FilesWellFormed
  <1> SUFFICES ASSUME NEW s \in Sinks \ (flawed \cup late), task = "none", NEW r \in DOMAIN containers[s]
               PROVE  WellFormed(containers[s][r].content, r # backing[s])
    BY DEF FilesWellFormed
  <1> DEFINE c == Contents(s)
             b == buffer[s]
             k == backing[s]
  <1>1. Phase(s) = "idle" /\ Sound(s) /\ Shaped("idle", Finalising, c, b, k)
    BY DEF ControlInv, Phase, Sound, ShapeInv
  <1>2. c \in Files /\ b \in Seq(Unit) /\ r \in DOMAIN c /\ c[r] = containers[s][r].content
    BY ContentsAre DEF TypeInv, StorageInv
  <1> HIDE DEF c, b
  <1>3. CASE r # k
    BY <1>1, <1>2, <1>3 DEF Shaped
  <1>4. CASE r = k
    <2> DEFINE e == c[k]
    <2>1. e \in Seq(Unit) /\ k # 0
      BY <1>2, <1>4, FilesAre
    <2>2. e # <<>> /\ WellFormed(e \o b, FALSE)
      <3>1. Ending("idle", Finalising) = FALSE
        BY DEF Ending
      <3>2. e # <<>> /\ WellFormed(e \o b, Ending("idle", Finalising))
        BY <1>1, <2>1 DEF Shaped
      <3> QED
        BY <3>1, <3>2
    <2> HIDE DEF e
    <2>3. WellFormed(e, FALSE)
      BY <1>2, <2>1, <2>2, FrontOf
    <2>4. (r # k) = FALSE /\ containers[s][r].content = e
      BY <1>2, <1>4 DEF e
    <2> QED
      BY <2>3, <2>4
  <1> QED
    BY <1>3, <1>4

\* Something comes behind the open file and the buffer.
LEMMA ShapedTakes ==
    ASSUME NEW c \in Files, NEW c2 \in Files, NEW b \in Seq(Unit), NEW b2 \in Seq(Unit),
           NEW z \in Seq(Unit), Adds(c, b, c2, b2, z), NEW k, k = Len(c), k # 0,
           NEW phase, NEW phase2, NEW ends, Shaped(phase, ends, c, b, k),
           phase \notin {"resource", "header"}, phase2 \notin {"create", "resource", "header"},
           phase2 \in {"rotate", "release", "finish"} => b2 = <<>>,
           phase2 \in {"break", "release"} => ~ends,
           WellFormed((c[k] \o b) \o z, Ending(phase2, ends))
    PROVE  Shaped(phase2, ends, c2, b2, k)
  <1>1. c # <<>>
    BY EmptySeq
  <1>2. /\ DOMAIN c2 = DOMAIN c /\ k \in DOMAIN c
        /\ c2[k] \o b2 = (c[k] \o b) \o z
        /\ c[k] # <<>> => c2[k] # <<>>
        /\ \A r \in DOMAIN c : r # k => c2[r] = c[r]
    <2>1. Extended(c, b, c2, b2, z)
      BY <1>1, AddsText
    <2> QED
      BY <2>1 DEF Extended
  <1>3. \A r \in DOMAIN c2 : r # k => WellFormed(c2[r], TRUE)
    BY <1>2 DEF Shaped
  <1>4. c2[k] # <<>>
    BY <1>2 DEF Shaped
  <1>5. WellFormed(c2[k] \o b2, Ending(phase2, ends))
    BY <1>2
  <1> QED
    BY <1>3, <1>4, <1>5 DEF Shaped

\* The header gets into the file.
LEMMA ShapedHeader ==
    ASSUME NEW c \in Files, NEW c2 \in Files, NEW b2 \in Seq(Unit),
           Adds(c, <<Header>>, c2, b2, <<>>), NEW k, k = Len(c), k # 0, c[k] = <<>>, b2 = <<>>,
           \A r \in DOMAIN c : r # k => WellFormed(c[r], TRUE), NEW ends
    PROVE  Shaped("done", ends, c2, b2, k)
  <1> DEFINE h == <<Header>>
  <1>1. c # <<>> /\ <<>> \in Seq(Unit) /\ h \in Seq(Unit) /\ Len(h) = 1
    BY EmptySeq, OneUnit, UnitKinds
  <1>2. WellFormed(h, FALSE)
    BY HeaderFirst
  <1>3. Adds(c, h, c2, b2, <<>>)
    OBVIOUS
  <1> HIDE DEF h
  <1>4. /\ DOMAIN c2 = DOMAIN c /\ k \in DOMAIN c
        /\ c2[k] \o b2 = (c[k] \o h) \o <<>>
        /\ \A r \in DOMAIN c : r # k => c2[r] = c[r]
    <2>1. Extended(c, h, c2, b2, <<>>)
      BY <1>1, <1>3, AddsText
    <2> QED
      BY <2>1 DEF Extended
  <1>5. c2[k] \in Seq(Unit)
    BY <1>4, FilesAre
  <1>6. c2[k] = h /\ c2[k] \o b2 = h
    <2>1. (<<>> \o h) \o <<>> = h
      BY <1>1, ConcatEmptySeq
    <2> DEFINE e == c2[k]
    <2>2. e \in Seq(Unit) /\ e \o <<>> = h
      BY <1>4, <1>5, <2>1
    <2> HIDE DEF e
    <2>3. e = h
      BY <2>2, ConcatEmptySeq
    <2> QED
      BY <1>4, <2>1, <2>3 DEF e
  <1>7. \A r \in DOMAIN c2 : r # k => WellFormed(c2[r], TRUE)
    BY <1>4
  <1>8. h # <<>>
    BY DEF h
  <1>9. Ending("done", ends) = FALSE
    BY DEF Ending
  <1> QED
    BY <1>2, <1>6, <1>7, <1>8, <1>9 DEF Shaped

\* A file that is closed is complete.
LEMMA ShapedClosed ==
    ASSUME NEW c \in Files, NEW b \in Seq(Unit), NEW k, k \in {0, Len(c)}, NEW phase, NEW ends,
           Shaped(phase, ends, c, b, k), k # 0, phase \in {"release", "finish"},
           phase = "finish" => ends
    PROVE  \A r \in DOMAIN c : WellFormed(c[r], TRUE)
  <1>1. b = <<>> /\ Ending(phase, ends) = TRUE
    BY DEF Shaped, Ending
  <1>2. WellFormed(c[k] \o b, TRUE)
    BY <1>1 DEF Shaped
  <1>3. \A r \in DOMAIN c : r # k => WellFormed(c[r], TRUE)
    BY DEF Shaped
  <1>4. ASSUME k \in DOMAIN c PROVE WellFormed(c[k], TRUE)
    <2> DEFINE e == c[k]
    <2>1. e \in Seq(Unit)
      BY <1>4, FilesAre
    <2>2. WellFormed(e \o <<>>, TRUE)
      BY <1>1, <1>2
    <2> HIDE DEF e
    <2>3. e \o <<>> = e
      BY <2>1, ConcatEmptySeq
    <2> QED
      BY <2>2, <2>3 DEF e
  <1> QED
    BY <1>3, <1>4

\* A new file is the only one that is not complete.
LEMMA ShapedOpened ==
    ASSUME NEW c \in Files, NEW b \in Seq(Unit), NEW phase, NEW ends, Shaped(phase, ends, c, b, 0), ~ends
    PROVE  Shaped("resource", ends, Append(c, <<>>), b, Len(c) + 1)
  <1> DEFINE d == Append(c, <<>>)
             n == Len(c)
  <1>1. n \in Nat /\ DOMAIN c = 1 .. n
    BY FilesAre
  <1>2. /\ Len(d) = n + 1 /\ (\A i \in 1 .. n : d[i] = c[i]) /\ d[n + 1] = <<>>
        /\ d \in Files
    <2>1. <<>> \in Seq(Unit) /\ c \in Seq(Seq(Unit))
      BY NoUnit DEF Files
    <2> QED
      BY <2>1, AppendProperties, OpensFile
  <1>3. DOMAIN d = 1 .. n + 1
    BY <1>2, FilesAre
  <1> HIDE DEF d, n
  <1>4. \A r \in DOMAIN c : WellFormed(c[r], TRUE)
    <2>1. \A r \in DOMAIN c : r # 0
      BY <1>1
    <2> QED
      BY <2>1 DEF Shaped
  <1>5. \A r \in DOMAIN d : r # n + 1 => WellFormed(d[r], TRUE)
    <2> SUFFICES ASSUME NEW r \in DOMAIN d, r # n + 1 PROVE WellFormed(d[r], TRUE)
      OBVIOUS
    <2>1. r \in 1 .. n
      BY <1>1, <1>3
    <2>2. d[r] = c[r] /\ r \in DOMAIN c
      BY <1>1, <1>2, <2>1
    <2> QED
      BY <1>4, <2>2
  <1> QED
    BY <1>1, <1>2, <1>5 DEF Shaped, d, n

\* The break is in the buffer.
LEMMA ShapedBreak ==
    ASSUME NEW c \in Files, NEW b \in Seq(Unit), NEW k, k = Len(c), k # 0, NEW ends, ~ends,
           Shaped("rotate", ends, c, b, k)
    PROVE  Shaped("break", ends, c, <<Break>>, k)
  <1>1. b = <<>> /\ Ending("rotate", ends) = FALSE /\ Ending("break", ends) = TRUE
    BY DEF Shaped, Ending
  <1> DEFINE e == c[k]
  <1>2. e \in Seq(Unit)
    <2>1. c # <<>>
      BY EmptySeq
    <2> QED
      BY <2>1, FilesAre
  <1>3. e # <<>> /\ WellFormed(e \o <<>>, FALSE)
    BY <1>1 DEF Shaped
  <1> HIDE DEF e
  <1>4. WellFormed(e \o <<Break>>, TRUE)
    <2>1. e \o <<>> = e
      BY <1>2, ConcatEmptySeq
    <2> QED
      BY <1>2, <1>3, <2>1, BreakBehind
  <1> QED
    BY <1>1, <1>3, <1>4 DEF Shaped, e

\* The steps that write leave well-formed files well-formed.
LEMMA ShapeTaken ==
    ASSUME TypeInv, SinkStep, NEW s \in Sinks, at = s, backing[s] # 0, backing'[s] = backing[s],
           NEW z \in Seq(Unit), Takes(s, z),
           NEW phase2, Shaped(step, Finalising, Contents(s), buffer[s], backing[s]),
           step \notin {"resource", "header"}, phase2 \notin {"create", "resource", "header"},
           phase2 \in {"rotate", "release", "finish"} => buffer'[s] = <<>>,
           phase2 \in {"break", "release"} => ~Finalising,
           \A e \in Seq(Unit) : WellFormed(e, Ending(step, Finalising))
                                  => WellFormed(e \o z, Ending(phase2, Finalising))
    PROVE  Shaped(phase2, Finalising, Contents(s)', buffer'[s], backing'[s])
  <1> DEFINE c == Contents(s)
             b == buffer[s]
             c2 == Contents(s)'
             b2 == buffer'[s]
             k == backing[s]
             ends == Finalising
  <1>1. StorageInv /\ StorageInv'
    BY SinkStorage DEF TypeInv, SinkStep
  <1>2. c \in Files /\ b \in Seq(Unit) /\ c2 \in Files /\ b2 \in Seq(Unit) /\ k = Len(c) /\ k # 0
    BY <1>1, ContentsAre, StoredNext DEF StorageInv
  <1>3. Adds(c, b, c2, b2, z) /\ Shaped(step, ends, c, b, k)
    BY DEF Takes
  <1>4. phase2 \in {"rotate", "release", "finish"} => b2 = <<>>
    OBVIOUS
  <1>5. phase2 \in {"break", "release"} => ~ends
    OBVIOUS
  <1>6. WellFormed((c[k] \o b) \o z, Ending(phase2, ends))
    <2>1. WellFormed(c[k] \o b, Ending(step, ends))
      BY <1>2, <1>3 DEF Shaped
    <2>2. c[k] \o b \in Seq(Unit)
      <3>1. c # <<>>
        BY <1>2, EmptySeq
      <3>2. c[k] \in Seq(Unit)
        BY <1>2, <3>1, FilesAre
      <3> QED
        BY <1>2, <3>2, Joined
    <2> QED
      BY <2>1, <2>2
  <1>7. backing'[s] = k
    OBVIOUS
  <1> HIDE DEF c, b, c2, b2, k, ends
  <1>8. Shaped(phase2, ends, c2, b2, k)
    BY <1>2, <1>3, <1>4, <1>5, <1>6, ShapedTakes
  <1> QED
    BY <1>7, <1>8 DEF c2, b2, ends

LEMMA ShapeOfCall ==
    ASSUME TypeInv, ControlInv, FileInv, SinkStep, NEW s \in Sinks, at = s,
           Sound(s)', s \notin late', s \notin late,
           Shaped(step, Finalising, Contents(s), buffer[s], backing[s])
    PROVE  Shaped(step', Finalising, Contents(s)', buffer'[s], backing'[s])
  <1> DEFINE c == Contents(s)
             b == buffer[s]
             k == backing[s]
             ends == Finalising
  <1>1. /\ StorageInv /\ NextSink /\ step # "failed" /\ step' # "failed" /\ Sound(s)
        /\ step \in StepsOf(op) /\ <<task, op>> \in Calls /\ flawed' = flawed /\ at' = at
    BY SinkGoes DEF SinkStep, fabricVars, TypeInv, ControlInv, Goings, Sound, Phase
  <1>2. StorageInv'
    BY <1>1, SinkStorage
  <1>3. c \in Files /\ b \in Seq(Unit) /\ k \in {0, Len(c)} /\ Len(c) \in Nat
    BY <1>1, ContentsAre DEF StorageInv
  <1>4. (HasFile(s) => k # 0) /\ (HasNone(s) => k = 0) /\ Phase(s) = step
    BY <1>1 DEF FileInv, Phase
  <1>5. /\ step \in {"finalize", "finish"} => ends
        /\ step = "write" => op = "consume" /\ ~ends
    BY <1>1 DEF StepsOf, Rotation, Calls, Finalising
  <1>6. CASE WriteBuffered \/ WriteThrough
    <2> DEFINE z == Units(Head(out))
    <2>1. step = "write" /\ step' = "write" /\ out # <<>>
      BY <1>1, <1>6, OutGoes DEF WriteBuffered, WriteThrough, MayWrite
    <2>2. Head(out) \in Known /\ Takes(s, z) /\ backing'[s] = backing[s] /\ backing[s] # 0
      BY <1>1, <1>4, <1>6, <2>1, HeadOut, WriteTakes DEF HasFile
    <2>3. Ending("write", Finalising) = FALSE
      BY DEF Ending
    <2>4. z \in Seq(Unit) /\ \A e \in Seq(Unit) : WellFormed(e, FALSE) => WellFormed(e \o z, FALSE)
      BY <2>2, UnitsAre, MessageBehind
    <2> HIDE DEF z
    <2> QED
      BY <2>1, <2>2, <2>3, <2>4, ShapeTaken
  <1>7. CASE Flush /\ k # 0
    <2>1. step = "flush" /\ step' = "rotate"
      BY <1>7 DEF Flush, Goes
    <2>2. Takes(s, <<>>) /\ backing'[s] = backing[s] /\ backing[s] # 0 /\ buffer'[s] = <<>>
      BY <1>1, <1>7, FlushTakes
    <2>3. Ending("flush", Finalising) = Ending("rotate", Finalising)
      BY DEF Ending
    <2>4. <<>> \in Seq(Unit) /\ \A e \in Seq(Unit) : e \o <<>> = e
      BY NoUnit, ConcatEmptySeq
    <2> QED
      BY <2>1, <2>2, <2>3, <2>4, ShapeTaken
  <1>8. CASE Flush /\ k = 0
    <2>1. step = "flush" /\ step' = "rotate" /\ UNCHANGED <<buffer, containers, backing>>
      BY <1>8 DEF Flush, Goes, Writes
    <2>2. Contents(s)' = Contents(s)
      BY <2>1 DEF Contents
    <2> QED
      BY <1>8, <2>1, <2>2 DEF Shaped
  <1>9. CASE WriteBreak
    <2>1. step = "break" /\ step' = "release"
      BY <1>9 DEF WriteBreak, Goes
    <2>2. Takes(s, <<>>) /\ backing'[s] = backing[s] /\ backing[s] # 0 /\ buffer'[s] = <<>>
      BY <1>1, <1>4, <1>9, <2>1, FlushTakes DEF HasFile
    <2>3. Ending("break", Finalising) = Ending("release", Finalising) /\ ~Finalising
      BY <2>1 DEF Ending, Shaped
    <2>4. <<>> \in Seq(Unit) /\ \A e \in Seq(Unit) : e \o <<>> = e
      BY NoUnit, ConcatEmptySeq
    <2> QED
      BY <2>1, <2>2, <2>3, <2>4, ShapeTaken
  <1>10. CASE EmitBreak
    <2> DEFINE z == <<Break>>
    <2>1. step = "finalize" /\ step' = "flush" /\ Finalising
      BY <1>5, <1>10 DEF EmitBreak, Goes
    <2>2. Takes(s, z) /\ backing'[s] = backing[s] /\ backing[s] # 0
      BY <1>1, <1>10, EmitBreakTakes
    <2>3. Ending("finalize", Finalising) = FALSE /\ Ending("flush", Finalising) = TRUE
      BY <2>1 DEF Ending
    <2>4. z \in Seq(Unit) /\ \A e \in Seq(Unit) : WellFormed(e, FALSE) => WellFormed(e \o z, TRUE)
      BY OneUnit, UnitKinds, BreakBehind
    <2> HIDE DEF z
    <2> QED
      BY <2>1, <2>2, <2>3, <2>4, ShapeTaken
  <1>11. CASE WriteHeader
    <2>1. step = "header" /\ step' = "done" /\ ~Finalising
      BY <1>11 DEF WriteHeader, Goes, Shaped, Synced
    <2>2. Takes(s, <<>>) /\ backing'[s] = backing[s] /\ backing[s] # 0 /\ buffer'[s] = <<>>
      BY <1>1, <1>4, <1>11, <2>1, FlushTakes DEF HasFile
    <2>3. /\ c[k] = <<>> /\ b = <<Header>> /\ k = Len(c) /\ k # 0
          /\ \A r \in DOMAIN c : r # k => WellFormed(c[r], TRUE)
      BY <1>3, <2>1, <2>2 DEF Shaped
    <2> DEFINE c2 == Contents(s)'
               b2 == buffer'[s]
    <2>4. c2 \in Files /\ b2 \in Seq(Unit) /\ b2 = <<>> /\ Adds(c, <<Header>>, c2, b2, <<>>)
      BY <1>2, <2>2, <2>3, StoredNext DEF Takes
    <2>5. backing'[s] = k
      BY <2>2
    <2> HIDE DEF c, b, k, c2, b2, ends
    <2>6. Shaped("done", ends, c2, b2, k)
      BY <1>3, <2>3, <2>4, ShapedHeader
    <2> QED
      BY <2>1, <2>5, <2>6 DEF c2, b2, ends
  <1>12. CASE ReleaseFile
    <2>1. step = "release" /\ step' = "create" /\ k # 0 /\ ~Finalising /\ buffer' = buffer
          /\ backing'[s] = 0
      BY <1>1, <1>4, <1>12 DEF ReleaseFile, Goes, HasFile, Shaped, StorageInv
    <2>2. Contents(s)' = Contents(s)
      BY <1>1, <1>12, KeepingSteps DEF KeepsStored, Keeps
    <2>3. \A r \in DOMAIN c : WellFormed(c[r], TRUE)
      <3> DEFINE phase == "release"
      <3>1. Shaped(phase, ends, c, b, k) /\ k # 0
        BY <2>1
      <3>2. phase \in {"release", "finish"} /\ (phase = "finish" => ends)
        OBVIOUS
      <3> HIDE DEF c, b, k, ends, phase
      <3> QED
        BY <1>3, <3>1, <3>2, ShapedClosed
    <2>4. b = <<>>
      BY <2>1 DEF Shaped
    <2> QED
      BY <2>1, <2>2, <2>3, <2>4 DEF Shaped
  <1>13. CASE CloseFile
    <2>1. step = "finish" /\ step' = "done" /\ ends
      BY <1>5, <1>13 DEF CloseFile, Goes
    <2>2. Contents(s)' = Contents(s) /\ buffer'[s] = <<>> /\ backing'[s] = 0 /\ k # 0
      BY <1>1, <1>4, <1>13, <2>1, ReplacingSteps DEF Replaces, HasFile
    <2>3. \A r \in DOMAIN c : WellFormed(c[r], TRUE)
      <3>1. Shaped("finish", ends, c, b, k) /\ k # 0
        BY <2>1, <2>2
      <3> HIDE DEF c, b, k, ends
      <3> QED
        BY <1>3, <2>1, <3>1, ShapedClosed
    <2> QED
      BY <2>1, <2>2, <2>3 DEF Shaped
  <1>14. CASE CreateFile
    <2>1. /\ step' = "resource" /\ step \in {"create", "rotate"} /\ (step = "rotate" => k = 0)
      BY <1>14 DEF CreateFile, MayCreate, Goes
    <2>2. k = 0 /\ ~ends
      BY <1>4, <2>1 DEF HasNone, HasFile, Finalising, Shaped
    <2>3. Contents(s)' = Append(c, <<>>) /\ buffer'[s] = b /\ backing'[s] = Len(c) + 1
      BY <1>1, <1>14, CreateOpens DEF Opens
    <2>4. Shaped("resource", ends, Append(c, <<>>), b, Len(c) + 1)
      <3>1. Shaped(step, ends, c, b, 0)
        BY <2>2
      <3> HIDE DEF c, b, k, ends
      <3> QED
        BY <1>3, <2>2, <3>1, ShapedOpened
    <2> QED
      BY <2>1, <2>3, <2>4
  <1>15. CASE EndFile
    <2>1. step = "rotate" /\ step' = "break" /\ k # 0 /\ ~ends
      BY <1>15 DEF EndFile, Goes
    <2>2. Contents(s)' = c /\ buffer'[s] = <<Break>> /\ backing'[s] = k
      BY <1>1, <1>15, ReplacingSteps DEF Replaces
    <2>3. Shaped("break", ends, c, <<Break>>, k)
      <3>1. Shaped("rotate", ends, c, b, k) /\ k = Len(c)
        BY <1>3, <2>1
      <3> HIDE DEF c, b, k, ends
      <3> QED
        BY <1>3, <2>1, <3>1, ShapedBreak
    <2> QED
      BY <2>1, <2>2, <2>3
  <1>16. CASE EncodeHeader
    <2>1. step = "resource" /\ step' = "header"
      BY <1>16 DEF EncodeHeader, Goes
    <2>2. Contents(s)' = c /\ buffer'[s] = <<Header>> /\ backing'[s] = k /\ k # 0
      BY <1>1, <1>4, <1>16, <2>1, ReplacingSteps DEF Replaces, HasFile
    <2> QED
      BY <2>1, <2>2 DEF Shaped
  <1>17. CASE PassOver \/ AllWritten \/ NothingToFinalise
    <2>1. /\ UNCHANGED <<buffer, containers, backing>>
          /\ \/ step = "write" /\ step' \in {"write", "done"}
             \/ step = "finalize" /\ step' = "done"
      BY <1>17 DEF PassOver, AllWritten, NothingToFinalise, Goes
    <2>2. Contents(s)' = Contents(s)
      BY <2>1 DEF Contents
    <2>3. Ending(step, ends) = FALSE /\ Ending(step', ends) = FALSE
      BY <2>1 DEF Ending
    <2> QED
      BY <2>1, <2>2, <2>3 DEF Shaped
  <1>18. CASE KeepFile
    <2>1. /\ UNCHANGED <<buffer, containers, backing>> /\ k # 0 /\ step = "rotate"
          /\ step' = IF NoHeader THEN "resource" ELSE Synced
      BY <1>18 DEF KeepFile, Goes
    <2>2. Contents(s)' = Contents(s) /\ c[k] # <<>> /\ c[k] = File.content
      <3>1. k = Len(containers[s]) /\ k \in 1 .. Len(containers[s])
        BY <1>1, <1>3, <2>1, ContentsAre DEF StorageInv
      <3> QED
        BY <1>1, <2>1, <3>1, ContentsAre DEF Contents, File, Shaped, StorageInv
    <2>3. step' = (IF ends THEN "finish" ELSE "done") /\ b = <<>>
      BY <2>1, <2>2 DEF NoHeader, Synced, Shaped
    <2>4. Ending(step', ends) = Ending(step, ends)
      BY <2>1, <2>3 DEF Ending
    <2> QED
      BY <2>1, <2>2, <2>3, <2>4 DEF Shaped
  <1>19. ~FlushFails /\ ~WriteBreakFails /\ ~StepFails /\ ~EmitBreakFails /\ ~WriteThroughFails
    BY <1>1 DEF FlushFails, WriteBreakFails, StepFails, EmitBreakFails, WriteThroughFails, WriteFails, Goes
  <1> QED
    BY <1>1, <1>6, <1>7, <1>8, <1>9, <1>10, <1>11, <1>12, <1>13, <1>14, <1>15, <1>16, <1>17, <1>18, <1>19 DEF NextSink

LEMMA LateStays ==
    ASSUME NextSink
    PROVE  late \subseteq late'
  BY DEF NextSink, PassOver, WriteBuffered, WriteThrough, WriteThroughFails, AllWritten, Flush,
         FlushFails, KeepFile, EndFile, WriteBreak, WriteBreakFails, StepFails, ReleaseFile, CreateFile,
         EncodeHeader, WriteHeader, NothingToFinalise, EmitBreak, EmitBreakFails, CloseFile, WriteFails

LEMMA SinkKeepsOthers ==
    ASSUME TypeInv, SinkStep, NEW s \in Sinks, at = s
    PROVE  OthersKept(s)
  <1>1. StorageInv /\ NextSink
    BY DEF TypeInv, SinkStep
  <1> QED
    BY <1>1, KeepingSteps, WriteTakes, FailedWriteTakes, FlushTakes, EmitBreakTakes, CreateOpens,
       ReplacingSteps DEF NextSink, KeepsStored, Keeps, Takes, Opens, Replaces

LEMMA ShapeSinkStep ==
    ASSUME TypeInv, ControlInv, FileInv, ShapeInv, SinkStep
    PROVE  ShapeInv'
  <1> SUFFICES ASSUME NEW t \in Sinks, Sound(t)', t \notin late'
               PROVE  Shaped(Phase(t)', Finalising', Contents(t)', buffer'[t], backing'[t])
    BY DEF ShapeInv
  <1>1. /\ UNCHANGED <<at, op, flawed>> /\ at \in Sinks /\ NextSink /\ step # "failed"
        /\ Finalising' = Finalising
    BY SinkGoes, SinkStorage DEF SinkStep, fabricVars, TypeInv, Goings, Finalising
  <1>2. PICK s \in Sinks : at = s
    BY <1>1
  <1>3. t \notin late /\ Sound(t)
    BY <1>1, <1>2, LateStays DEF Sound, Phase
  <1>4. Shaped(Phase(t), Finalising, Contents(t), buffer[t], backing[t])
    BY <1>3 DEF ShapeInv
  <1>5. CASE t # s
    <2>1. Contents(t)' = Contents(t) /\ buffer'[t] = buffer[t] /\ backing'[t] = backing[t]
      BY <1>2, <1>5, SinkKeepsOthers DEF OthersKept
    <2>2. Phase(t) = "idle" /\ Phase(t)' = "idle"
      BY <1>1, <1>2, <1>5 DEF Phase
    <2> QED
      BY <1>1, <1>4, <2>1, <2>2
  <1>6. CASE t = s
    <2>1. Phase(t) = step /\ Phase(t)' = step'
      BY <1>1, <1>2, <1>6 DEF Phase
    <2> QED
      BY <1>1, <1>2, <1>3, <1>4, <1>6, <2>1, ShapeOfCall
  <1> QED
    BY <1>5, <1>6

\* How far the call of a sink that never failed is before and after a step of the fabric.
Phased(s) ==
    /\ Sound(s)
    /\ \/ Phase(s)' = Phase(s) /\ (Phase(s) = "idle" \/ op' = op)
       \/ Phase(s) = "done" /\ Phase(s)' = "idle"
       \/ Phase(s) = "idle" /\ Phase(s)' \in {"write", "finalize"}
       \/ Phase(s) = "idle" /\ Phase(s)' = "flush" /\ op' = "sync"
       \/ Phase(s) = "idle" /\ Phase(s)' = "rotate" /\ op' = "make" /\ front[s] = "none"

LEMMA FabricPhases ==
    ASSUME TypeInv, ControlInv, FabricStep, NEW s \in Sinks, Sound(s)'
    PROVE  Phased(s)
  <1>1. CASE BeginRetire \/ AnotherBatch
    BY <1>1 DEF BeginRetire, AnotherBatch, NextBatch, Phased, Sound, Phase, ControlInv, TypeInv, Fronts, FrontsOf, Returned, BackendUnchanged, Start, Call, Fails, history, sinkVars
  <1>2. CASE Offered
    BY <1>2 DEF Offered, Phased, Sound, Phase, ControlInv, TypeInv, Fronts, FrontsOf, Returned, BackendUnchanged, Start, Call, Fails, history, sinkVars
  <1>3. CASE EndConsume
    BY <1>3 DEF EndConsume, Phased, Sound, Phase, ControlInv, TypeInv, Fronts, FrontsOf, Returned, BackendUnchanged, Start, Call, Fails, history, sinkVars
  <1>4. CASE NotifyEpochChanged
    BY <1>4 DEF NotifyEpochChanged, Phased, Sound, Phase, ControlInv, TypeInv, Fronts, FrontsOf, Returned, BackendUnchanged, Start, Call, Fails, history, sinkVars
  <1>5. CASE SinkSynced
    BY <1>5 DEF SinkSynced, Phased, Sound, Phase, ControlInv, TypeInv, Fronts, FrontsOf, Returned, BackendUnchanged, Start, Call, Fails, history, sinkVars
  <1>6. CASE EndSync
    BY <1>6 DEF EndSync, Phased, Sound, Phase, ControlInv, TypeInv, Fronts, FrontsOf, Returned, BackendUnchanged, Start, Call, Fails, history, sinkVars
  <1>7. CASE SinkCreated
    BY <1>7 DEF SinkCreated, Phased, Sound, Phase, ControlInv, TypeInv, Fronts, FrontsOf, Returned, BackendUnchanged, Start, Call, Fails, history, sinkVars
  <1>8. CASE CreateSinkFails
    BY <1>8 DEF CreateSinkFails, Phased, Sound, Phase, ControlInv, TypeInv, Fronts, FrontsOf, Returned, BackendUnchanged, Start, Call, Fails, history, sinkVars
  <1>9. CASE SinkDestroyed
    BY <1>9 DEF SinkDestroyed, Phased, Sound, Phase, ControlInv, TypeInv, Fronts, FrontsOf, Returned, BackendUnchanged, Start, Call, Fails, history, sinkVars
  <1>10. CASE SinkFinalized
    BY <1>10 DEF SinkFinalized, Phased, Sound, Phase, ControlInv, TypeInv, Fronts, FrontsOf, Returned, BackendUnchanged, Start, Call, Fails, history, sinkVars
  <1>11. CASE FinalizeAgain
    BY <1>11 DEF FinalizeAgain, Phased, Sound, Phase, ControlInv, TypeInv, Fronts, FrontsOf, Returned, BackendUnchanged, Start, Call, Fails, history, sinkVars
  <1>12. CASE SinkGone
    BY <1>12 DEF SinkGone, Phased, Sound, Phase, ControlInv, TypeInv, Fronts, FrontsOf, Returned, BackendUnchanged, Start, Call, Fails, history, sinkVars
  <1>13. ASSUME NEW q \in Sinks, ClearLastStatus(q) PROVE Phased(s)
    BY <1>13 DEF ClearLastStatus, Phased, Sound, Phase, ControlInv, TypeInv, Fronts, FrontsOf, Returned, BackendUnchanged, Start, Call, Fails, history, sinkVars
  <1>14. ASSUME NEW q \in Sinks, Offer(q) PROVE Phased(s)
    BY <1>14 DEF Offer, Phased, Sound, Phase, ControlInv, TypeInv, Fronts, FrontsOf, Returned, BackendUnchanged, Start, Call, Fails, history, sinkVars
  <1>15. ASSUME NEW q \in Sinks, Sync(q) PROVE Phased(s)
    BY <1>15 DEF Sync, Phased, Sound, Phase, ControlInv, TypeInv, Fronts, FrontsOf, Returned, BackendUnchanged, Start, Call, Fails, history, sinkVars
  <1>16. ASSUME NEW q \in Sinks, CreateSink(q) PROVE Phased(s)
    BY <1>16 DEF CreateSink, Phased, Sound, Phase, ControlInv, TypeInv, Fronts, FrontsOf, Returned, BackendUnchanged, Start, Call, Fails, history, sinkVars
  <1>17. ASSUME NEW q \in Sinks, DestroySink(q) PROVE Phased(s)
    BY <1>17 DEF DestroySink, Phased, Sound, Phase, ControlInv, TypeInv, Fronts, FrontsOf, Returned, BackendUnchanged, Start, Call, Fails, history, sinkVars
  <1>18. ASSUME NEW q \in Sinks, FinalizeSink(q) PROVE Phased(s)
    BY <1>18 DEF FinalizeSink, Phased, Sound, Phase, ControlInv, TypeInv, Fronts, FrontsOf, Returned, BackendUnchanged, Start, Call, Fails, history, sinkVars
  <1>19. ASSUME NEW q \in Sinks, RemoveSink(q) PROVE Phased(s)
    BY <1>19 DEF RemoveSink, Phased, Sound, Phase, ControlInv, TypeInv, Fronts, FrontsOf, Returned, BackendUnchanged, Start, Call, Fails, history, sinkVars
  <1> QED
    BY <1>1, <1>2, <1>3, <1>4, <1>5, <1>6, <1>7, <1>8, <1>9, <1>10, <1>11, <1>12, <1>13, <1>14, <1>15, <1>16, <1>17, <1>18, <1>19 DEF FabricStep

LEMMA ShapeFabricStep ==
    ASSUME TypeInv, ControlInv, FileInv, ShapeInv, FabricStep
    PROVE  ShapeInv'
  <1> SUFFICES ASSUME NEW s \in Sinks, Sound(s)', s \notin late'
               PROVE  Shaped(Phase(s)', Finalising', Contents(s)', buffer'[s], backing'[s])
    BY DEF ShapeInv
  <1>1. Phased(s)
    BY FabricPhases
  <1>2. UNCHANGED <<containers, late>> /\ Contents(s)' = Contents(s)
    <2>1. UNCHANGED <<containers, late>>
      BY FabricKeeps, GoneForgets
    <2> QED
      BY <2>1 DEF Contents
  <1> DEFINE c == Contents(s)
             b == buffer[s]
             k == backing[s]
  <1>3. Shaped(Phase(s), Finalising, c, b, k)
    BY <1>1, <1>2 DEF Phased, ShapeInv
  <1>4. (HasNone(s) => k = 0)
    BY <1>1 DEF Phased, FileInv
  <1>5. CASE SinkGone /\ s = at
    <2>1. step = "done" /\ Finalising /\ step' = "idle" /\ buffer'[s] = <<>> /\ backing'[s] = 0
      BY <1>1, <1>5, GoneForgets DEF SinkGone, Returned, Phased, Sound, Phase, Finalising
    <2>2. k = 0
      BY <1>4, <1>5, <2>1 DEF HasNone, Phase
    <2>3. Phase(s)' = "idle"
      BY <2>1 DEF Phase
    <2> QED
      BY <1>2, <1>3, <2>1, <2>2, <2>3 DEF Shaped
  <1>6. CASE ~SinkGone \/ s # at
    <2>1. buffer'[s] = b /\ backing'[s] = k
      <3>1. CASE ~SinkGone
        BY <3>1, FabricKeeps
      <3>2. CASE SinkGone /\ s # at
        BY <3>2, GoneForgets DEF OthersKept
      <3> QED
        BY <1>6, <3>1, <3>2
    <2>2. Shaped(Phase(s)', Finalising', c, b, k)
      <3>1. CASE Phase(s)' = Phase(s) /\ Phase(s) # "idle" /\ op' = op
        BY <1>3, <3>1 DEF Finalising
      <3>2. CASE /\ Phase(s) \in {"idle", "done"}
                 /\ Phase(s)' \in {"idle", "write", "finalize"} \/ (Phase(s)' = "flush" /\ op' = "sync")
        <4>1. Ending(Phase(s), Finalising) = FALSE /\ Ending(Phase(s)', Finalising') = FALSE
          BY <3>2 DEF Ending, Finalising
        <4> HIDE DEF c, b, k
        <4> QED
          BY <1>3, <3>2, <4>1 DEF Shaped
      <3>3. CASE Phase(s) = "idle" /\ Phase(s)' = "rotate" /\ op' = "make" /\ front[s] = "none"
        <4>1. k = 0
          BY <1>4, <3>3 DEF HasNone, Active
        <4> HIDE DEF c, b, k
        <4> QED
          BY <1>3, <3>3, <4>1 DEF Shaped
      <3> QED
        BY <1>1, <3>1, <3>2, <3>3 DEF Phased
    <2> QED
      BY <1>2, <2>1, <2>2
  <1> QED
    BY <1>5, <1>6

LEMMA ShapeNext ==
    ASSUME TypeInv, ControlInv, FileInv, ShapeInv, [NextFabric]_<<sinkVars, fabricVars>>
    PROVE  ShapeInv'
  <1>1. CASE IdleStep
    <2>1. /\ UNCHANGED <<buffer, backing, at, op, step, late, flawed>>
          /\ \A s \in Sinks : Contents(s)' = Contents(s)
      BY <1>1, IdleKeeps DEF fabricVars
    <2> QED
      BY <2>1 DEF ShapeInv, Sound, Phase, Finalising
  <1> QED
    BY <1>1, ShapeSinkStep, ShapeFabricStep, StepsAre

-----------------------------------------------------------------------------
(* The theorems.                                                            *)

FabricInv ==
    TypeInv /\ ControlInv /\ FileInv /\ QuietInv /\ OrderInv /\ CompleteInv /\ ShapeInv

LEMMA FabricInit == InitFabric => FabricInv
  <1> SUFFICES ASSUME InitFabric PROVE FabricInv
    OBVIOUS
  <1>1. TypeInv /\ ControlInv
    BY TypeInit
  <1>2. /\ \A s \in Sinks : /\ buffer[s] = <<>> /\ backing[s] = 0 /\ containers[s] = <<>>
                            /\ front[s] = "none" /\ offered[s] = {} /\ Phase(s) = "idle"
        /\ out = <<>> /\ batch = <<>> /\ task = "none" /\ step = "idle" /\ todo = {}
    BY DEF InitFabric, InitSinks, Phase
  <1>3. FileInv /\ QuietInv
    <2>1. MessagesIn(<<>>) = {}
      BY NoUnit
    <2> QED
      BY <1>2, <2>1 DEF FileInv, QuietInv, HasFile, HasNone, Active
  <1>4. ASSUME NEW s \in Sinks
        PROVE  DOMAIN Contents(s) = {} /\ Stored(s) = {}
    <2>1. DOMAIN containers[s] = {}
      BY <1>2
    <2>2. DOMAIN Contents(s) = {}
      BY <2>1 DEF Contents
    <2>3. MessagesIn(buffer[s]) = {}
      BY <1>2, NoUnit
    <2> QED
      BY <2>2, <2>3 DEF Stored, Filed, Range
  <1>5. OrderInv
    <2>1. StoredInOrder
      BY <1>2, <1>4, NoUnit DEF StoredInOrder, InOrder
    <2> QED
      BY <1>2, <1>4, <2>1, NoMessage DEF OrderInv
  <1>6. CompleteInv
    BY <1>2, <1>4 DEF CompleteInv, Counts, Pending
  <1>7. ShapeInv
    BY <1>2, <1>4 DEF ShapeInv, Shaped
  <1> QED
    BY <1>1, <1>3, <1>5, <1>6, <1>7 DEF FabricInv

LEMMA FabricNext ==
    ASSUME FabricInv, [NextFabric]_<<sinkVars, fabricVars>>
    PROVE  FabricInv'
  BY TypeNext, ControlNext, FileNext, QuietNext, OrderNext, CompleteNext, ShapeNext DEF FabricInv

\* The calls of the fabric, the files of its sinks, and the place of every message in the
\* files, the buffer and what is handed over are as the code that runs next needs them.
THEOREM FabricInvariant == SpecFabric => []FabricInv
  <1>1. FabricInv /\ [NextFabric]_<<sinkVars, fabricVars>> => FabricInv'
    BY FabricNext
  <1> QED
    BY <1>1, FabricInit, PTL DEF SpecFabric

\* Failures, retries and rotations never repeat or reorder what a sink stores:
\* output_buffer's bulk writes, do_rotate() and the sync of the fabric keep it in order.
THEOREM StoredStaysInOrder == SpecFabric => []StoredInOrder
  <1>1. FabricInv => StoredInOrder
    BY DEF FabricInv, OrderInv
  <1> QED
    BY <1>1, FabricInvariant, PTL

\* A sink that never failed has exactly the messages that retire_log_records() took
\* for it, and has them in files when it is finalised or destroyed.
THEOREM SinksAreComplete == SpecFabric => []SinkComplete
  <1>1. FabricInv => SinkComplete
    BY CompleteImplies DEF FabricInv
  <1> QED
    BY <1>1, FabricInvariant, PTL

\* The files of a sink that never failed have a header, messages without a gap and, once
\* they are closed, a break, unless try_finalize() had to replace the file.
THEOREM FilesAreWellFormed == SpecFabric => []FilesWellFormed
  <1>1. FabricInv => FilesWellFormed
    BY ShapeImplies DEF FabricInv
  <1> QED
    BY <1>1, FabricInvariant, PTL

\* While a sink is attached no step of it or of the fabric drops what it has: its buffer
\* is only reset once it is written.
THEOREM NothingIsDropped == SpecFabric => NothingDropped
  <1>1. ASSUME FabricInv, [NextFabric]_<<sinkVars, fabricVars>>
        PROVE  [\A s \in attached \cap attached' :
                  /\ Stored(s) \subseteq Stored(s)'
                  /\ \A u \in Stored(s), v \in Stored(s)' \ Stored(s) : Before(u, v)]_<<sinkVars, fabricVars>>
    BY <1>1, NothingDroppedStep DEF FabricInv
  <1> QED
    BY <1>1, FabricInvariant, PTL DEF SpecFabric, NothingDropped
=============================================================================
