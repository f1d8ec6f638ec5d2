--------------------------- MODULE RootFile_proofs ---------------------------
(* Theorems about RootFile, for any number of handles, any contents and any  *)
(* number of revisions, and about the layout of its slots, for all blocks.   *)
EXTENDS RootFile, SlotLayout, TLAPS

-----------------------------------------------------------------------------
(* The blocks of the two slots are disjoint, fill the file behind the       *)
(* magic, and writing one of them leaves all others as they are.            *)

\* Sizes and offsets are numbers, and a block has a page and is behind the magic.
LEMMA LayoutNumbers ==
    ASSUME NEW idx \in Indices, NEW odd \in Streams
    PROVE  /\ BlockSize(idx) \in Nat \ {0}
           /\ BlockOffset(idx, odd) \in Nat /\ BlockOffset(idx, odd) >= 2
  <1>1. CASE idx < 5
    <2>1. idx = 0 \/ idx = 1 \/ idx = 2 \/ idx = 3 \/ idx = 4
      BY <1>1 DEF Indices
    <2> QED
      BY <2>1 DEF BlockSize, BlockOffset, Power, Streams
  <1>2. CASE ~(idx < 5)
    BY <1>2 DEF BlockSize, BlockOffset, Indices, Streams
  <1> QED
    BY <1>1, <1>2

\* The block of stream 1 follows the one of stream 0, and the next index follows both.
LEMMA BlocksFollow ==
    ASSUME NEW idx \in Indices
    PROVE  /\ BlockOffset(idx, 1) = BlockOffset(idx, 0) + BlockSize(idx)
           /\ BlockOffset(idx + 1, 0) = BlockOffset(idx, 1) + BlockSize(idx)
  <1>1. CASE idx < 5
    <2>1. idx = 0 \/ idx = 1 \/ idx = 2 \/ idx = 3 \/ idx = 4
      BY <1>1 DEF Indices
    <2> QED
      BY <2>1 DEF BlockSize, BlockOffset, Power
  <1>2. CASE ~(idx < 5)
    BY <1>2 DEF BlockSize, BlockOffset, Indices
  <1> QED
    BY <1>1, <1>2

\* A block of a lower index ends before one of a higher index begins.
LEMMA IndicesOrdered ==
    ASSUME NEW i \in Indices, NEW j \in Indices, i < j
    PROVE  BlockOffset(i + 1, 0) <= BlockOffset(j, 0)
  <1>1. CASE i < 5
    <2>1. i = 0 \/ i = 1 \/ i = 2 \/ i = 3 \/ i = 4
      BY <1>1 DEF Indices
    <2>2. j < 5 => j = 1 \/ j = 2 \/ j = 3 \/ j = 4
      BY DEF Indices
    <2>3. CASE j < 5
      BY <2>1, <2>2, <2>3 DEF BlockOffset, Power
    <2>4. CASE ~(j < 5)
      BY <2>1, <2>4 DEF BlockOffset, Power, Indices
    <2> QED
      BY <2>3, <2>4
  <1>2. CASE ~(i < 5)
    BY <1>2 DEF BlockOffset, Indices
  <1> QED
    BY <1>1, <1>2

\* No page belongs to two blocks, of the same stream or of both, or to the magic: a write
\* to one slot cannot damage the other one.  Nothing in index_to_block_offset() says so.
THEOREM BlocksDisjoint ==
    ASSUME NEW i \in Indices, NEW a \in Streams, NEW j \in Indices, NEW b \in Streams,
           <<i, a>> # <<j, b>>
    PROVE  Block(i, a) \cap Block(j, b) = {} /\ Block(i, a) \cap Magic = {}
  <1>1. ASSUME NEW k \in Indices, NEW c \in Streams
        PROVE  /\ BlockOffset(k, c) \in Nat /\ BlockSize(k) \in Nat
               /\ BlockOffset(k, 0) <= BlockOffset(k, c)
               /\ BlockOffset(k, c) + BlockSize(k) <= BlockOffset(k + 1, 0)
    BY BlocksFollow, LayoutNumbers DEF Streams
  <1>2. ASSUME NEW k \in Indices, NEW c \in Streams, NEW l \in Indices, NEW d \in Streams,
               k < l
        PROVE  Block(k, c) \cap Block(l, d) = {}
    <2>1. BlockOffset(k, c) + BlockSize(k) <= BlockOffset(l, d)
      <3>1. BlockOffset(k + 1, 0) \in Nat /\ BlockOffset(l, 0) \in Nat
        BY LayoutNumbers DEF Indices, Streams
      <3>2. BlockOffset(k + 1, 0) <= BlockOffset(l, 0)
        BY <1>2, IndicesOrdered
      <3> QED
        BY <1>1, <3>1, <3>2
    <2> QED
      BY <1>1, <2>1 DEF Block
  <1>3. ASSUME i = j PROVE Block(i, a) \cap Block(j, b) = {}
    <2>1. Block(i, 0) \cap Block(i, 1) = {}
      BY BlocksFollow, <1>1, 0 \in Streams, 1 \in Streams DEF Block, Streams
    <2> QED
      BY <1>3, <2>1 DEF Streams
  <1>4. Block(i, a) \cap Block(j, b) = {}
    <2>1. i < j \/ j < i \/ i = j
      BY DEF Indices
    <2>2. ASSUME j < i PROVE Block(j, b) \cap Block(i, a) = {}
      BY <1>2, <2>2
    <2> QED
      BY <1>2, <1>3, <2>1, <2>2
  <1>5. Block(i, a) \cap Magic = {}
    BY LayoutNumbers DEF Block, Magic
  <1> QED
    BY <1>4, <1>5

\* Every page behind the magic is of some block: the streams leave no gaps, so that the
\* file is no longer than the blocks written.
THEOREM BlocksFill ==
    ASSUME NEW p \in Nat \ Magic
    PROVE  \E idx \in Indices, odd \in Streams : p \in Block(idx, odd)
  <1>1. CASE p < 64
    <2>1. p \in Block(0, 0) \cup Block(0, 1) \cup Block(1, 0) \cup Block(1, 1)
             \cup Block(2, 0) \cup Block(2, 1) \cup Block(3, 0) \cup Block(3, 1)
             \cup Block(4, 0) \cup Block(4, 1)
      BY <1>1 DEF Block, BlockOffset, BlockSize, Power, Magic
    <2> QED
      BY <2>1 DEF Indices, Streams
  <1>2. CASE p >= 64
    <2> DEFINE idx == (p \div 32) + 3
    <2>1. idx \in Nat /\ idx >= 5 /\ 32 * (idx - 3) <= p /\ p < 32 * (idx - 3) + 32
      BY <1>2
    <2>2. p \in Block(idx, 0) \cup Block(idx, 1)
      <3> HIDE DEF idx
      <3> QED
        BY <2>1 DEF Block, BlockOffset, BlockSize
    <2> QED
      BY <2>1, <2>2 DEF Indices, Streams
  <1> QED
    BY <1>1, <1>2

\* Writing a block is seen when that block is read, and nowhere else: what a crash leaves
\* of a write is a matter of the slot that was written alone.
THEOREM WritesStayApart ==
    ASSUME NEW S, NEW file \in [Nat -> S], NEW i \in Indices, NEW a \in Streams,
           NEW content \in [0 .. BlockSize(i) - 1 -> S]
    PROVE  /\ ReadBlock(Written(file, i, a, content), i, a) = content
           /\ \A j \in Indices, b \in Streams : <<j, b>> # <<i, a>> =>
                 ReadBlock(Written(file, i, a, content), j, b) = ReadBlock(file, j, b)
           /\ \A p \in Magic : Written(file, i, a, content)[p] = file[p]
  <1> DEFINE new == Written(file, i, a, content)
  <1>1. \A p \in Nat : new[p] = IF p \in Block(i, a)
                                THEN content[p - BlockOffset(i, a)] ELSE file[p]
    BY DEF Written
  <1>2. /\ BlockOffset(i, a) \in Nat /\ BlockSize(i) \in Nat
        /\ \A j \in Indices, b \in Streams : BlockOffset(j, b) \in Nat /\ BlockSize(j) \in Nat
    BY LayoutNumbers
  <1> HIDE DEF new
  <1>3. ReadBlock(new, i, a) = content
    <2>1. ASSUME NEW k \in 0 .. BlockSize(i) - 1
          PROVE  new[BlockOffset(i, a) + k] = content[k]
      <3>1. BlockOffset(i, a) + k \in Nat /\ BlockOffset(i, a) + k \in Block(i, a)
        BY <1>2 DEF Block
      <3>2. (BlockOffset(i, a) + k) - BlockOffset(i, a) = k
        BY <1>2
      <3> QED
        BY <1>1, <3>1, <3>2
    <2> QED
      BY <2>1 DEF ReadBlock
  <1>4. ASSUME NEW j \in Indices, NEW b \in Streams, <<j, b>> # <<i, a>>
        PROVE  ReadBlock(new, j, b) = ReadBlock(file, j, b)
    <2>1. ASSUME NEW k \in 0 .. BlockSize(j) - 1
          PROVE  new[BlockOffset(j, b) + k] = file[BlockOffset(j, b) + k]
      <3>1. BlockOffset(j, b) + k \in Nat /\ BlockOffset(j, b) + k \in Block(j, b)
        BY <1>2 DEF Block
      <3>2. BlockOffset(j, b) + k \notin Block(i, a)
        BY <3>1, <1>4, BlocksDisjoint
      <3> QED
        BY <1>1, <3>1, <3>2
    <2> QED
      BY <2>1 DEF ReadBlock
  <1>5. \A p \in Magic : new[p] = file[p]
    <2>1. Block(i, a) \cap Magic = {}
      BY LayoutNumbers DEF Block, Magic
    <2> QED
      BY <1>1, <2>1 DEF Magic
  <1> QED
    BY <1>3, <1>4, <1>5 DEF new

-----------------------------------------------------------------------------
(* The slots of a root file and its transactions.                           *)

LEMMA Parity ==
    /\ \A n \in Nat : n % 2 \in {0, 1}
    /\ \A n \in Nat : (n + 1) % 2 # n % 2
    /\ 0 % 2 = 0
  OBVIOUS

\* Tidying changes neither the revision nor what was tidied before.
LEMMA TidyFacts ==
    /\ \A c \in Contents : Tidy(c) \in Contents /\ Tidy(c).revision = c.revision
    /\ \A c \in Contents : Tidy(Tidy(c)) = Tidy(c)
    /\ Tidy(Pristine) = Pristine
  BY TidiedAssumption DEF Tidy, Contents, Pristine

\* Contents that agree have one revision; they do so still after a tidying, and
\* with contents that list nothing only those agree.
LEMMA SameFacts ==
    ASSUME NEW s \in Contents, NEW c, Same(c, s)
    PROVE  /\ c \in Contents /\ c.revision = s.revision
           /\ Same(Tidy(c), s)
           /\ s = Pristine => c = Pristine
  BY TidyFacts DEF Same

USE DEF Same

LEMMA Kinds ==
    /\ Pristine \in Contents
    /\ Torn \notin Contents /\ Closed \notin Contents /\ Nobody \notin Handles
    /\ Pristine.revision = 0
    /\ \A c \in Contents : c.revision \in Nat /\ c.entries \in Data
    /\ \A n \in Nat, d \in Data : [revision |-> n, entries |-> d] \in Contents
  BY DataAssumption, TornAssumption, ClosedAssumption, NobodyAssumption
  DEF Contents, Pristine

-----------------------------------------------------------------------------
(* Fetching.                                                                *)

\* Slots that decode hold contents of their parity.
LEMMA SlotContents ==
    ASSUME TypeOKRoot, SlotParity, NEW i \in Decodable
    PROVE  /\ i \in {0, 1} /\ slots[i] \in Contents /\ slots[i].revision \in Nat
           /\ slots[i].revision % 2 = i
  BY Kinds DEF TypeOKRoot, SlotParity, Decodable

\* A fetch keeps what the handle remembers or returns a slot, whichever is
\* newest, and its correction does not apply (fetch_content_impl()).
LEMMA FetchNewest ==
    ASSUME TypeOKRoot, SlotParity, NEW c \in Contents
    PROVE  /\ Fetched(c) \in Contents
           /\ c.revision <= Fetched(c).revision
           /\ \A i \in Decodable : slots[i].revision <= Fetched(c).revision
           /\ Fetched(c) = Tidy(c) \/ \E i \in Decodable : Fetched(c) = Tidy(slots[i])
           /\ Tidy(Fetched(c)) = Fetched(c)
  <1> DEFINE a == Adopt(c, 0)
             f == Adopt(a, 1)
  <1>1. a \in Contents /\ f \in Contents
    BY SlotContents DEF Adopt, Newer
  <1>2. f.revision % 2 = Origin(c)
    BY SlotContents, Kinds, <1>1 DEF Origin, Adopt, Newer
  <1>3. /\ Fetched(c) = Tidy(f) /\ Fetched(c) \in Contents
        /\ Fetched(c).revision = f.revision /\ Tidy(Fetched(c)) = Fetched(c)
    BY <1>1, <1>2, TidyFacts DEF Fetched
  <1>4. c.revision \in Nat /\ a.revision \in Nat /\ f.revision \in Nat
    BY <1>1, Kinds
  <1>5. c.revision <= a.revision /\ a.revision <= f.revision
    BY <1>4, SlotContents DEF Adopt, Newer
  <1>6. ASSUME NEW i \in Decodable PROVE slots[i].revision <= f.revision
    <2>1. CASE i = 0
      BY <2>1, <1>4, <1>5, SlotContents DEF Adopt, Newer
    <2>2. CASE i = 1
      BY <2>2, <1>4, <1>5, SlotContents DEF Adopt, Newer
    <2> QED
      BY <2>1, <2>2, SlotContents
  <1>7. f = c \/ \E i \in Decodable : f = slots[i]
    BY DEF Adopt, Newer
  <1> QED
    BY <1>1, <1>3, <1>4, <1>5, <1>6, <1>7

\* Without a rewrite in place a fetch returns what a slot holds, for a handle
\* that looks again and for a new one.
LEMMA FetchReturnsSlot ==
    ASSUME RootInv, ~rewound, ~Rewriting, NEW c \in Contents, Decodable # {},
           c = Pristine \/ \E h \in Handles : Open(h) /\ c = cache[h]
    PROVE  \E i \in Decodable : Same(Fetched(c), slots[i])
  <1>1. /\ Fetched(c) \in Contents /\ c.revision <= Fetched(c).revision
        /\ \A i \in Decodable : slots[i].revision <= Fetched(c).revision
        /\ Fetched(c) = Tidy(c) \/ \E i \in Decodable : Fetched(c) = Tidy(slots[i])
    BY FetchNewest DEF RootInv
  <1>2. \A i \in Decodable : slots[i].revision \in Nat
    BY SlotContents DEF RootInv
  <1>3. CASE c = Pristine /\ Fetched(c) = Tidy(c)
    <2>1. PICK i \in Decodable : TRUE
      OBVIOUS
    <2>2. slots[i].revision = 0
      BY <1>1, <1>2, <1>3, Kinds, TidyFacts
    <2> QED
      BY <2>2, <1>3, TidyFacts DEF RootInv, OriginInv, Same
  <1>4. ASSUME NEW h \in Handles, Open(h), c = cache[h], Fetched(c) = Tidy(c)
        PROVE  \E i \in Decodable : Same(Fetched(c), slots[i])
    <2>1. PICK i \in Decodable : c.revision < slots[i].revision \/ Same(c, slots[i])
      BY <1>4 DEF RootInv, NoStrayCache
    <2>2. ~(c.revision < slots[i].revision)
      BY <1>1, <1>2, <1>4, Kinds, TidyFacts
    <2> QED
      BY <2>1, <2>2, <1>4, SlotContents, SameFacts DEF RootInv
  <1> QED
    BY <1>1, <1>3, <1>4 DEF Same

-----------------------------------------------------------------------------
(* The initial state.                                                       *)

LEMMA InitRootInv == InitRoot => RootInv
  <1> SUFFICES ASSUME InitRoot PROVE RootInv
    OBVIOUS
  <1>1. TypeOKRoot
    BY Kinds DEF InitRoot, TypeOKRoot
  <1>2. Decodable = {} /\ \A h \in Handles : ~Open(h)
    BY DEF InitRoot, Decodable, Open
  <1>3. SlotParity /\ HolderInv /\ InitialisedInv /\ OriginInv
    BY <1>2, Kinds DEF InitRoot, SlotParity, HolderInv, InitialisedInv, OriginInv
  <1>4. Openable /\ NoStrayCache /\ DraftInv /\ WrittenInv
    BY <1>2 DEF InitRoot, Openable, NoStrayCache, DraftInv, WrittenInv
  <1> QED
    BY <1>1, <1>3, <1>4 DEF RootInv

-----------------------------------------------------------------------------
(* Steps that only change what a handle remembers.                          *)

\* A handle other than the holder comes to remember something that is not news.
LEMMA NewCache ==
    ASSUME RootInv, ready,
           NEW h \in Handles, h # holder,
           NEW c \in Contents,
           cache' = [cache EXCEPT ![h] = c],
           UNCHANGED <<root, slots, holder, stage, draft, ready, rewound>>,
           c.revision = 0 => c = Pristine,
           ~rewound /\ ~Rewriting =>
               \E i \in Decodable : c.revision < slots[i].revision \/ Same(c, slots[i]),
           holder = Nobody \/ \E g \in Handles \ {holder} : Open(g) /\ c = cache[g]
    PROVE  RootInv'
  <1>1. TypeOKRoot'
    BY DEF RootInv, TypeOKRoot
  <1>2. /\ \A g \in Handles \ {h} : cache'[g] = cache[g]
        /\ cache'[h] = c /\ c # Closed
    BY Kinds DEF RootInv, TypeOKRoot
  <1>3. Decodable' = Decodable /\ holder \in Handles \cup {Nobody}
    BY DEF Decodable, RootInv, TypeOKRoot
  <1>4. holder # Nobody => cache'[holder] = cache[holder]
    BY <1>2, <1>3
  <1>5. InPlace' = InPlace /\ Rewriting' = Rewriting
    BY <1>3, <1>4, Kinds DEF InPlace, Rewriting, Open
  <1>6. SlotParity' /\ OriginInv' /\ InitialisedInv'
    BY <1>2, <1>3 DEF RootInv, SlotParity, OriginInv, InitialisedInv, Open
  <1>7. HolderInv'
    BY <1>4 DEF RootInv, HolderInv, Open
  <1>8. Openable' /\ WrittenInv'
    BY <1>3, <1>5 DEF RootInv, Openable, WrittenInv, SlotOf
  <1>9. NoStrayCache'
    BY <1>2, <1>3, <1>5 DEF RootInv, NoStrayCache, Open
  <1>10. DraftInv'
    <2> SUFFICES ASSUME ~rewound, holder # Nobody, Open(holder)
                 PROVE  DraftInv'
      BY <1>4 DEF DraftInv, Open
    <2>1. PICK g \in Handles \ {holder} : Open(g) /\ c = cache[g]
      OBVIOUS
    <2>2. RewriteInv => RewriteInv'
      BY <1>2, <1>3, <1>4, <2>1 DEF RewriteInv, Open
    <2>3. CommitInv => CommitInv'
      BY <1>2, <1>3, <2>1 DEF CommitInv, Open
    <2> QED
      BY <1>3, <2>2, <2>3 DEF RootInv, DraftInv
  <1> QED
    BY <1>1, <1>6, <1>7, <1>8, <1>9, <1>10 DEF RootInv

\* Nothing is being rewritten while nobody holds the lock.
LEMMA Idle ==
    ASSUME RootInv, holder = Nobody
    PROVE  stage = "none" /\ ~Rewriting
  BY DEF RootInv, HolderInv, Rewriting

\* What a fetch returns lists nothing if it is revision 0.
LEMMA FetchOrigin ==
    ASSUME RootInv, NEW c \in Contents, c.revision = 0 => c = Pristine
    PROVE  Fetched(c).revision = 0 => Fetched(c) = Pristine
  <1>1. /\ c.revision \in Nat /\ Tidy(c).revision = c.revision
        /\ c.revision = 0 => Tidy(c) = Pristine
    BY Kinds, TidyFacts
  <1>2. ASSUME NEW i \in Decodable
        PROVE  /\ Tidy(slots[i]).revision = slots[i].revision
               /\ slots[i].revision = 0 => Tidy(slots[i]) = Pristine
    BY SlotContents, TidyFacts DEF RootInv, OriginInv
  <1> QED
    BY <1>1, <1>2, FetchNewest DEF RootInv

LEMMA OpenExistingInv ==
    ASSUME RootInv, NEW h \in Handles, OpenExisting(h)
    PROVE  RootInv'
  <1>1. Fetched(Pristine) \in Contents
    BY FetchNewest, Kinds DEF RootInv
  <1>2. ready /\ h # holder
    BY Kinds DEF OpenExisting, RootInv, InitialisedInv
  <1>3. ~rewound => \E i \in Decodable : Same(Fetched(Pristine), slots[i])
    BY Idle, FetchReturnsSlot, Kinds DEF OpenExisting
  <1> QED
    BY <1>1, <1>2, <1>3, NewCache, FetchOrigin, Kinds DEF OpenExisting

LEMMA RefreshInv ==
    ASSUME RootInv, NEW h \in Handles, Refresh(h)
    PROVE  RootInv'
  <1>1. cache[h] \in Contents /\ Fetched(cache[h]) \in Contents
    BY FetchNewest DEF Refresh, Open, RootInv, TypeOKRoot
  <1>2. ready /\ h # holder
    BY Kinds DEF Refresh, RootInv, InitialisedInv
  <1>3. ~rewound => \E i \in Decodable : Same(Fetched(cache[h]), slots[i])
    BY <1>1, Idle, FetchReturnsSlot DEF Refresh
  <1>4. cache[h].revision = 0 => cache[h] = Pristine
    BY DEF Refresh, RootInv, OriginInv
  <1> QED
    BY <1>1, <1>2, <1>3, <1>4, NewCache, FetchOrigin DEF Refresh

LEMMA CloneInv ==
    ASSUME RootInv, NEW h \in Handles, NEW g \in Handles, Clone(h, g)
    PROVE  RootInv'
  <1>1. cache[h] \in Contents /\ ready
    BY DEF Clone, Open, RootInv, TypeOKRoot, InitialisedInv
  <1>2. cache[h].revision = 0 => cache[h] = Pristine
    BY DEF Clone, RootInv, OriginInv
  <1>3. ~rewound /\ ~Rewriting =>
            \E i \in Decodable : cache[h].revision < slots[i].revision \/ Same(cache[h], slots[i])
    BY DEF Clone, RootInv, NoStrayCache
  <1>4. h \in Handles \ {holder} /\ g # holder /\ Open(h)
    BY DEF Clone
  <1> QED
    BY <1>1, <1>2, <1>3, <1>4, NewCache DEF Clone

-----------------------------------------------------------------------------
(* Opening a new file and leaving.                                          *)

LEMMA OpenNewInv ==
    ASSUME RootInv, NEW h \in Handles, OpenNew(h)
    PROVE  RootInv'
  <1>1. /\ ~ready /\ Decodable = {} /\ Decodable' = {}
        /\ \A g \in Handles : ~Open(g) /\ ~Open(g)'
    BY DEF OpenNew, RootInv, InitialisedInv, Decodable, Open
  <1>2. TypeOKRoot'
    BY Kinds DEF OpenNew, RootInv, TypeOKRoot
  <1>3. SlotParity' /\ HolderInv' /\ InitialisedInv' /\ OriginInv'
    BY <1>1, Kinds DEF OpenNew, SlotParity, HolderInv, InitialisedInv, OriginInv
  <1>4. Openable' /\ NoStrayCache' /\ DraftInv' /\ WrittenInv'
    BY <1>1 DEF OpenNew, Openable, NoStrayCache, DraftInv, WrittenInv
  <1> QED
    BY <1>2, <1>3, <1>4 DEF RootInv

LEMMA WriteMagicInv ==
    ASSUME RootInv, NEW h \in Handles, WriteMagic(h)
    PROVE  RootInv'
  <1>1. ~Open(h) /\ ~Open(h)' /\ ~ready /\ h # Nobody
    BY Kinds DEF WriteMagic, RootInv, HolderInv, Open
  <1>2. Decodable = {} /\ Decodable' = {} /\ \A g \in Handles : ~Open(g) /\ ~Open(g)'
    BY <1>1 DEF WriteMagic, RootInv, InitialisedInv, Decodable, Open
  <1>3. TypeOKRoot'
    BY Kinds DEF WriteMagic, RootInv, TypeOKRoot
  <1>4. SlotParity' /\ HolderInv' /\ InitialisedInv' /\ OriginInv'
    BY <1>1, <1>2, Kinds DEF WriteMagic, SlotParity, RootInv, HolderInv, InitialisedInv, OriginInv
  <1>5. Openable' /\ NoStrayCache' /\ DraftInv' /\ WrittenInv'
    BY <1>1, <1>2 DEF WriteMagic, Openable, NoStrayCache, DraftInv, WrittenInv
  <1> QED
    BY <1>3, <1>4, <1>5 DEF RootInv

\* An open holder that is about to write rewrites in place or commits.
LEMMA WriteKind ==
    ASSUME RootInv, ~rewound, holder # Nobody, Open(holder), stage \in {"ready", "torn"}
    PROVE  /\ InPlace => RewriteInv
           /\ ~InPlace => CommitInv
           /\ Rewriting <=> InPlace
           /\ holder \in Handles /\ cache[holder] \in Contents
  <1>1. holder \in Handles /\ cache[holder] \in Contents /\ draft \in Contents
    BY DEF RootInv, TypeOKRoot, Open
  <1>2. RewriteInv => InPlace
    BY <1>1 DEF RewriteInv, InPlace
  <1>3. CommitInv => ~InPlace
    <2> SUFFICES ASSUME CommitInv PROVE draft.revision # cache[holder].revision
      BY DEF InPlace
    <2>1. PICK i \in Decodable :
              /\ slots[i].revision + 1 = draft.revision
              /\ cache[holder].revision < slots[i].revision \/ Same(cache[holder], slots[i])
      BY <1>1 DEF CommitInv
    <2>2. slots[i] \in Contents /\ slots[i].revision \in Nat /\ cache[holder].revision \in Nat
      BY <1>1, <2>1, SlotContents, Kinds DEF RootInv
    <2>3. cache[holder].revision <= slots[i].revision
      BY <2>1, <2>2, SameFacts
    <2> QED
      BY <2>1, <2>2, <2>3
  <1>4. RewriteInv \/ CommitInv
    BY DEF RootInv, DraftInv
  <1> QED
    BY <1>1, <1>2, <1>3, <1>4 DEF Rewriting

\* A crash or an orderly end of a handle, at any point of what it does.
LEMMA LeaveInv ==
    ASSUME RootInv, NEW h \in Handles, Leave(h)
    PROVE  RootInv'
  <1>1. /\ TypeOKRoot'
        /\ cache'[h] = Closed /\ \A g \in Handles \ {h} : cache'[g] = cache[g]
        /\ Decodable' = Decodable /\ slots' = slots /\ ready' = ready /\ root' = root
        /\ rewound => rewound'
    BY Kinds DEF Leave, RootInv, TypeOKRoot, Decodable
  <1>2. /\ ~Open(h)'
        /\ \A g \in Handles \ {h} : Open(g)' = Open(g)
        /\ \A g \in Handles : Open(g)' => g # h /\ Open(g)
    BY <1>1 DEF Open
  <1>3. SlotParity' /\ OriginInv'
    BY <1>1, <1>2, Kinds DEF Leave, RootInv, SlotParity, OriginInv
  <1>4. InitialisedInv'
    BY <1>1, <1>2 DEF Leave, RootInv, InitialisedInv
  <1>5. CASE holder = h
    <2>1. holder' = Nobody /\ stage' = "none" /\ draft' = Pristine /\ ~Rewriting'
      BY <1>5 DEF Leave, Rewriting
    <2>2. HolderInv' /\ DraftInv' /\ WrittenInv'
      BY <2>1, Kinds DEF HolderInv, DraftInv, WrittenInv
    <2>3. ASSUME ~rewound', Rewriting
          PROVE  stage = "ready" /\ InPlace /\ ~rewound /\ RewriteInv
      BY <1>5, <2>3, WriteKind, Kinds DEF Leave, Rewriting, InPlace
    <2>4. Openable'
      BY <1>1, <2>3 DEF RootInv, Openable, RewriteInv
    <2>5. NoStrayCache'
      <3> SUFFICES ASSUME ~rewound', NEW g \in Handles, Open(g)'
                   PROVE  \E i \in Decodable : cache[g].revision < slots[i].revision
                                               \/ Same(cache[g], slots[i])
        BY <1>1, <1>2 DEF NoStrayCache
      <3>1. g # h /\ Open(g) /\ ~rewound
        BY <1>1, <1>2
      <3>2. CASE Rewriting
        BY <1>5, <2>3, <3>1, <3>2 DEF RewriteInv
      <3>3. CASE ~Rewriting
        BY <3>1, <3>3 DEF RootInv, NoStrayCache
      <3> QED
        BY <3>2, <3>3
    <2> QED
      BY <1>1, <1>3, <1>4, <2>2, <2>4, <2>5 DEF RootInv
  <1>6. CASE holder # h
    <2>1. UNCHANGED <<holder, stage, draft, rewound>>
      BY <1>6 DEF Leave
    <2>2. /\ holder # Nobody => holder \in Handles /\ cache'[holder] = cache[holder]
                                /\ Open(holder)' = Open(holder)
          /\ InPlace' = InPlace /\ Rewriting' = Rewriting
      BY <1>1, <1>2, <1>6, <2>1, Kinds DEF RootInv, TypeOKRoot, InPlace, Rewriting
    <2>3. HolderInv'
      BY <1>1, <2>1, <2>2 DEF RootInv, HolderInv
    <2>4. Openable' /\ WrittenInv'
      BY <1>1, <2>1, <2>2 DEF RootInv, Openable, WrittenInv, SlotOf
    <2>5. NoStrayCache'
      BY <1>1, <1>2, <2>1, <2>2 DEF RootInv, NoStrayCache
    <2>6. /\ holder # Nobody /\ RewriteInv => RewriteInv'
          /\ CommitInv => CommitInv'
      BY <1>1, <1>2, <2>1, <2>2 DEF RewriteInv, CommitInv
    <2>7. DraftInv'
      BY <1>1, <2>1, <2>2, <2>6 DEF RootInv, DraftInv
    <2> QED
      BY <1>1, <1>3, <1>4, <2>3, <2>4, <2>5, <2>7 DEF RootInv
  <1> QED
    BY <1>5, <1>6

-----------------------------------------------------------------------------
(* Transactions.                                                            *)

LEMMA BeginInv ==
    ASSUME RootInv, NEW h \in Handles, Begin(h)
    PROVE  RootInv'
  <1> DEFINE c == Fetched(cache[h])
  <1>1. /\ cache[h] \in Contents /\ c \in Contents
        /\ \A i \in Decodable : slots[i].revision <= c.revision
    BY FetchNewest DEF Begin, Open, RootInv, TypeOKRoot
  <1>2. ~rewound => \E i \in Decodable : Same(c, slots[i])
    BY <1>1, Idle, FetchReturnsSlot DEF Begin
  <1>3. c.revision = 0 => c = Pristine
    BY <1>1, FetchOrigin DEF Begin, RootInv, OriginInv
  <1>4. /\ TypeOKRoot' /\ holder' = h /\ stage' = "begun" /\ draft' = c
        /\ cache'[h] = c /\ \A g \in Handles \ {h} : cache'[g] = cache[g]
        /\ Decodable' = Decodable /\ slots' = slots /\ ready' = ready /\ root' = root
        /\ rewound' = rewound /\ ~Rewriting /\ ~Rewriting'
    BY <1>1, Idle DEF Begin, RootInv, TypeOKRoot, Decodable, Rewriting
  <1>5. ready /\ h # Nobody /\ root # "absent" /\ Open(h)'
    BY <1>1, <1>4, Kinds DEF Begin, RootInv, InitialisedInv, Open
  <1>6. SlotParity' /\ OriginInv' /\ InitialisedInv'
    BY <1>3, <1>4, <1>5 DEF RootInv, SlotParity, OriginInv, InitialisedInv, Open
  <1>7. HolderInv' /\ WrittenInv'
    BY <1>4, <1>5 DEF HolderInv, WrittenInv
  <1>8. Openable'
    BY <1>4 DEF Begin, Openable
  <1>9. NoStrayCache'
    BY <1>2, <1>4 DEF RootInv, NoStrayCache, Open
  <1>10. DraftInv'
    BY <1>1, <1>2, <1>4 DEF DraftInv
  <1> QED
    BY <1>4, <1>6, <1>7, <1>8, <1>9, <1>10 DEF RootInv

LEMMA PrepareInv ==
    ASSUME RootInv, NEW h \in Handles, NEW d \in Data, Prepare(h, d)
    PROVE  RootInv'
  <1>1. /\ draft \in Contents /\ draft.revision \in Nat /\ cache[h] \in Contents
        /\ cache[h].revision \in Nat /\ h # Nobody
        /\ \A i \in Decodable : slots[i].revision \in Nat
        /\ \A g \in Handles : Open(g) => cache[g].revision \in Nat
    BY Kinds, SlotContents DEF Prepare, Open, RootInv, TypeOKRoot
  <1>2. /\ TypeOKRoot' /\ draft'.revision = draft.revision + 1 /\ stage' = "ready"
        /\ Decodable' = Decodable /\ slots' = slots /\ cache' = cache
        /\ holder = h /\ holder' = h /\ ready' = ready /\ root' = root
        /\ rewound' = rewound /\ ~Rewriting
    BY <1>1, Kinds DEF Prepare, RootInv, TypeOKRoot, Decodable, Rewriting
  <1>3. SlotParity' /\ OriginInv' /\ InitialisedInv' /\ HolderInv'
    BY <1>1, <1>2 DEF Prepare, RootInv, SlotParity, OriginInv, InitialisedInv,
                      HolderInv, Open
  <1>4. Openable' /\ NoStrayCache' /\ WrittenInv'
    BY <1>2 DEF RootInv, Openable, NoStrayCache, WrittenInv, Open
  <1>5. ASSUME ~rewound
        PROVE  /\ \E i \in Decodable : Same(draft, slots[i])
               /\ \A i \in Decodable : slots[i].revision <= draft.revision
    <2>1. CASE stage = "begun"
      BY <1>1, <1>2, <1>5, <2>1 DEF Prepare, RootInv, DraftInv
    <2>2. CASE stage = "written"
      <3>1. SlotOf(draft.revision) \in {0, 1}
        BY <1>1, Parity DEF SlotOf
      <3>2. slots[SlotOf(draft.revision)] = draft /\ draft # Torn
        BY <1>1, <1>5, <2>2, Kinds DEF RootInv, WrittenInv
      <3> QED
        BY <1>5, <2>2, <3>1, <3>2 DEF RootInv, WrittenInv, Decodable
    <2> QED
      BY <2>1, <2>2 DEF Prepare
  <1>6. ASSUME ~rewound PROVE CommitInv'
    <2>1. PICK i \in Decodable : Same(draft, slots[i])
      BY <1>5, <1>6
    <2>0. draft.revision = slots[i].revision /\ slots[i] \in Contents
      BY <2>1, SlotContents, SameFacts DEF RootInv
    <2>2. ASSUME NEW g \in Handles, Open(g)
          PROVE  cache[g].revision < slots[i].revision \/ Same(cache[g], slots[i])
      <3>1. PICK j \in Decodable : cache[g].revision < slots[j].revision \/ Same(cache[g], slots[j])
        BY <1>2, <1>6, <2>2 DEF RootInv, NoStrayCache
      <3>2. slots[j].revision <= slots[i].revision
        BY <1>5, <1>6, <2>0
      <3>3. slots[j].revision = slots[i].revision => j = i
        BY SlotContents DEF RootInv
      <3> QED
        <4>1. CASE cache[g].revision < slots[j].revision
          BY <1>1, <2>2, <3>2, <4>1
        <4>2. CASE Same(cache[g], slots[j])
          <5>1. cache[g].revision = slots[j].revision
            BY <4>2, SlotContents, SameFacts DEF RootInv
          <5>2. CASE j = i
            BY <4>2, <5>2
          <5>3. CASE j # i
            BY <1>1, <3>2, <3>3, <5>1, <5>3
          <5> QED
            BY <5>2, <5>3
        <4> QED
          BY <3>1, <4>1, <4>2
    <2>3. \A j \in Decodable : slots[j].revision < draft.revision + 1
      BY <1>1, <1>5, <1>6
    <2> QED
      BY <1>2, <2>0, <2>2, <2>3 DEF CommitInv, Open
  <1>7. DraftInv'
    BY <1>1, <1>2, <1>5, <1>6 DEF DraftInv
  <1> QED
    BY <1>2, <1>3, <1>4, <1>7 DEF RootInv

LEMMA PrepareInPlaceInv ==
    ASSUME RootInv, NEW h \in Handles, NEW d \in Data, PrepareInPlace(h, d)
    PROVE  RootInv'
  <1>1. /\ draft \in Contents /\ draft.revision \in Nat /\ h # Nobody /\ cache[h] = draft
        /\ \A i \in Decodable : slots[i].revision \in Nat
        /\ \A g \in Handles : Open(g) => cache[g].revision \in Nat
    BY Kinds, SlotContents DEF PrepareInPlace, Open, RootInv, TypeOKRoot, HolderInv
  <1>2. /\ TypeOKRoot' /\ draft'.revision = draft.revision /\ draft'.entries = d
        /\ draft' \in Contents /\ stage' = "ready" /\ Decodable' = Decodable
        /\ slots' = slots /\ cache'[h] = draft' /\ Open(h)'
        /\ \A g \in Handles \ {h} : cache'[g] = cache[g] /\ (Open(g)' <=> Open(g))
        /\ holder = h /\ holder' = h /\ ready' = ready /\ root' = root
    BY <1>1, Kinds DEF PrepareInPlace, RootInv, TypeOKRoot, Decodable, Open
  <1>3. Rewriting'
    BY <1>2 DEF Rewriting, InPlace
  <1>4. draft'.revision = 0 => draft' = Pristine
    BY <1>1, <1>2, Kinds DEF PrepareInPlace, RootInv, OriginInv, Pristine, Contents
  <1>5. SlotParity' /\ OriginInv' /\ InitialisedInv' /\ HolderInv'
    BY <1>1, <1>2, <1>4 DEF PrepareInPlace, RootInv, SlotParity, OriginInv,
                            InitialisedInv, HolderInv
  <1>6. Openable' /\ NoStrayCache' /\ WrittenInv'
    BY <1>2, <1>3 DEF Openable, NoStrayCache, WrittenInv
  <1>7. DraftInv'
    <2> SUFFICES ASSUME ~rewound'
                 PROVE  RewriteInv' /\ \A i \in Decodable : slots[i].revision <= draft.revision
      BY <1>2 DEF DraftInv
    <2>1. /\ ~rewound
          /\ ~\E g \in Handles \ {h} : Open(g) /\ cache[g].revision >= draft.revision
      BY DEF PrepareInPlace
    <2>2. \A g \in Handles \ {h} : Open(g) => cache[g].revision < draft.revision
      BY <1>1, <2>1
    <2>3. /\ \E i \in Decodable : Same(draft, slots[i])
          /\ \A i \in Decodable : slots[i].revision <= draft.revision
      BY <1>1, <2>1 DEF PrepareInPlace, RootInv, DraftInv
    <2>4. \E i \in Decodable : slots[i].revision = draft.revision
      BY <2>3, SlotContents, SameFacts DEF RootInv
    <2> QED
      BY <1>2, <2>2, <2>3, <2>4 DEF RewriteInv
  <1> QED
    BY <1>2, <1>5, <1>6, <1>7 DEF RootInv

-----------------------------------------------------------------------------
(* Writing a slot.                                                          *)

\* What a write, complete or not, makes of the two slots.
LEMMA SlotWritten ==
    ASSUME RootInv, UNCHANGED <<cache, draft>>,
           NEW c \in PartlyWritten \cup {draft},
           slots' = [slots EXCEPT ![SlotOf(draft.revision)] = c]
    PROVE  /\ SlotOf(draft.revision) \in {0, 1}
           /\ slots' \in [{0, 1} -> Contents \cup {Torn}]
           /\ slots'[SlotOf(draft.revision)] = c
           /\ \A i \in {0, 1} \ {SlotOf(draft.revision)} : slots'[i] = slots[i]
           /\ Decodable' = {i \in {0, 1} : slots'[i] # Torn}
           /\ c # Torn => c \in Contents /\ c.revision = draft.revision
           /\ \A i \in Decodable' : \/ slots'[i].revision = draft.revision
                                   \/ (i \in Decodable /\ slots'[i] = slots[i])
           /\ SlotParity' /\ OriginInv'
  <1> DEFINE s == SlotOf(draft.revision)
  <1>1. draft \in Contents /\ draft.revision \in Nat /\ draft.entries \in Data
    BY Kinds DEF RootInv, TypeOKRoot
  <1>2. s \in {0, 1} /\ draft.revision % 2 = s
    BY <1>1, Parity DEF SlotOf
  <1>3. c # Torn => c \in Contents /\ c.revision = draft.revision
    BY <1>1, Kinds, MixesAssumption DEF PartlyWritten, Contents
  <1>4. draft.revision = 0 => c = Torn \/ c = Pristine
    <2>1. draft.revision = 0 => draft = Pristine
      BY DEF RootInv, OriginInv
    <2>2. Pristine.entries = NoEntries
      BY DEF Pristine
    <2> QED
      BY <2>1, <2>2, MixesAssumption DEF PartlyWritten
  <1>5. slots \in [{0, 1} -> Contents \cup {Torn}]
    BY DEF RootInv, TypeOKRoot
  <1>6. /\ slots' \in [{0, 1} -> Contents \cup {Torn}]
        /\ slots'[s] = c /\ \A i \in {0, 1} \ {s} : slots'[i] = slots[i]
    BY <1>2, <1>3, <1>5
  <1>7. Decodable' = {i \in {0, 1} : slots'[i] # Torn}
    BY DEF Decodable
  <1>8. SlotParity'
    BY <1>2, <1>3, <1>6 DEF SlotParity, Decodable, RootInv
  <1>9. OriginInv'
    BY <1>3, <1>4, <1>6 DEF OriginInv, Decodable, RootInv, Open
  <1>10. ASSUME NEW i \in Decodable'
         PROVE  slots'[i].revision = draft.revision \/ (i \in Decodable /\ slots'[i] = slots[i])
    <2>1. i \in {0, 1} /\ slots'[i] # Torn
      BY <1>7
    <2>2. CASE i = s
      BY <1>3, <1>6, <2>1, <2>2
    <2>3. CASE i # s
      BY <1>6, <2>1, <2>3 DEF Decodable
    <2> QED
      BY <2>2, <2>3
  <1> QED
    BY <1>2, <1>3, <1>6, <1>7, <1>8, <1>9, <1>10

\* The slot that a commit does not write keeps what the file and every handle
\* rely on.
LEMMA CommitKeeps ==
    ASSUME RootInv, ~rewound, holder # Nobody, Open(holder), ~InPlace,
           stage \in {"ready", "torn"}, UNCHANGED <<cache, draft>>,
           NEW c \in PartlyWritten \cup {draft},
           slots' = [slots EXCEPT ![SlotOf(draft.revision)] = c]
    PROVE  /\ \E i \in Decodable' :
                 /\ i # SlotOf(draft.revision)
                 /\ slots'[i].revision + 1 = draft.revision
                 /\ \A g \in Handles : Open(g) =>
                       cache[g].revision < slots'[i].revision \/ Same(cache[g], slots'[i])
           /\ \A i \in Decodable' : slots'[i].revision <= draft.revision
  <1>1. draft.revision \in Nat /\ \A i \in Decodable : slots[i].revision \in Nat
    BY Kinds, SlotContents DEF RootInv, TypeOKRoot
  <1>2. PICK i \in Decodable :
            /\ slots[i].revision + 1 = draft.revision
            /\ \A g \in Handles : Open(g) =>
                  cache[g].revision < slots[i].revision \/ Same(cache[g], slots[i])
    BY WriteKind DEF CommitInv
  <1>3. i \in {0, 1} /\ i # SlotOf(draft.revision)
    BY <1>1, <1>2, SlotContents, Parity DEF RootInv, SlotOf
  <1>4. i \in Decodable' /\ slots'[i] = slots[i]
    BY <1>3, SlotWritten DEF Decodable
  <1>5. \A j \in Decodable : slots[j].revision <= draft.revision
    BY DEF RootInv, DraftInv
  <1>6. ASSUME NEW j \in Decodable' PROVE slots'[j].revision <= draft.revision
    <2>1. slots'[j].revision = draft.revision \/ (j \in Decodable /\ slots'[j] = slots[j])
      BY <1>6, SlotWritten
    <2> QED
      BY <1>1, <1>5, <2>1
  <1> QED
    BY <1>2, <1>3, <1>4, <1>6

\* Whoever writes without an open handle initialises the file.
LEMMA Initialising ==
    ASSUME RootInv, holder # Nobody, ~Open(holder), stage \in {"ready", "torn"}
    PROVE  /\ ~ready /\ Decodable = {} /\ draft = Pristine
           /\ \A g \in Handles : ~Open(g)
           /\ PartlyWritten = {Torn}
  <1>1. ~ready /\ draft = Pristine
    BY DEF RootInv, HolderInv
  <1>2. Pristine.entries = NoEntries
    BY DEF Pristine
  <1> QED
    BY <1>1, <1>2, MixesAssumption DEF RootInv, InitialisedInv, PartlyWritten

LEMMA TearInv ==
    ASSUME RootInv, NEW h \in Handles, Tear(h)
    PROVE  RootInv'
  <1>1. PICK c \in PartlyWritten : slots' = [slots EXCEPT ![SlotOf(draft.revision)] = c]
    BY DEF Tear
  <1>2. /\ holder = h /\ holder # Nobody /\ stage = "ready" /\ stage' = "torn"
        /\ UNCHANGED <<root, cache, holder, draft, ready, rewound>>
        /\ InPlace' = InPlace /\ Rewriting' = Rewriting
        /\ \A g \in Handles : Open(g)' = Open(g)
    BY Kinds DEF Tear, InPlace, Rewriting, Open
  <1>3. SlotParity' /\ OriginInv'
    BY <1>1, <1>2, SlotWritten
  <1>4. TypeOKRoot'
    BY <1>1, <1>2, SlotWritten DEF RootInv, TypeOKRoot
  <1>5. HolderInv'
    BY <1>2 DEF RootInv, HolderInv
  <1>6. ~Open(h) => Decodable' = {}
    BY <1>1, <1>2, SlotWritten, Initialising DEF Decodable
  <1>7. InitialisedInv'
    BY <1>2, <1>6 DEF RootInv, InitialisedInv
  <1>8. ASSUME ~rewound, Open(h), ~InPlace
        PROVE  Openable' /\ NoStrayCache' /\ DraftInv'
    <2>1. /\ \E i \in Decodable' :
                 /\ slots'[i].revision + 1 = draft.revision
                 /\ \A g \in Handles : Open(g) =>
                       cache[g].revision < slots'[i].revision \/ Same(cache[g], slots'[i])
          /\ \A i \in Decodable' : slots'[i].revision <= draft.revision
      BY <1>1, <1>2, <1>8, CommitKeeps
    <2>2. CommitInv'
      BY <1>2, <2>1 DEF CommitInv
    <2>3. Openable' /\ NoStrayCache'
      BY <1>2, <2>1 DEF Openable, NoStrayCache
    <2> QED
      BY <1>2, <2>1, <2>2, <2>3 DEF DraftInv
  <1>9. ASSUME ~rewound, Open(h), InPlace
        PROVE  Openable' /\ NoStrayCache' /\ DraftInv'
    <2>1. RewriteInv'
      BY <1>2, <1>9, WriteKind DEF RewriteInv
    <2>2. ASSUME NEW i \in Decodable' PROVE slots'[i].revision <= draft.revision
      <3>1. draft.revision \in Nat /\ \A j \in Decodable : slots[j].revision <= draft.revision
        BY <1>2, <1>9, Kinds DEF RootInv, DraftInv, TypeOKRoot
      <3>2. slots'[i].revision = draft.revision \/ (i \in Decodable /\ slots'[i] = slots[i])
        BY <1>1, <1>2, <2>2, SlotWritten
      <3> QED
        BY <3>1, <3>2
    <2>3. Rewriting'
      BY <1>2, <1>9 DEF Rewriting
    <2> QED
      BY <1>2, <2>1, <2>2, <2>3 DEF Openable, NoStrayCache, DraftInv
  <1>10. ASSUME ~Open(h) PROVE Openable' /\ NoStrayCache' /\ DraftInv'
    BY <1>2, <1>10, Initialising DEF Openable, NoStrayCache, DraftInv
  <1>11. ASSUME rewound PROVE Openable' /\ NoStrayCache' /\ DraftInv'
    BY <1>2, <1>11 DEF Openable, NoStrayCache, DraftInv
  <1>12. WrittenInv'
    BY <1>2 DEF WrittenInv
  <1> QED
    BY <1>3, <1>4, <1>5, <1>7, <1>8, <1>9, <1>10, <1>11, <1>12 DEF RootInv

\* A complete write makes the draft what the file and its handles agree on.
LEMMA DraftWritten ==
    ASSUME RootInv, holder # Nobody, stage \in {"ready", "torn"}, ~rewound,
           UNCHANGED <<cache, draft>>,
           slots' = [slots EXCEPT ![SlotOf(draft.revision)] = draft]
    PROVE  /\ SlotOf(draft.revision) \in Decodable'
           /\ slots'[SlotOf(draft.revision)] = draft
           /\ \A i \in Decodable' : slots'[i].revision <= draft.revision
           /\ \A g \in Handles : Open(g) =>
                 \E i \in Decodable' :
                     cache[g].revision < slots'[i].revision \/ Same(cache[g], slots'[i])
  <1> DEFINE s == SlotOf(draft.revision)
  <1>1. /\ draft \in Contents /\ draft.revision \in Nat /\ draft # Torn
        /\ draft \in PartlyWritten \cup {draft}
    BY Kinds DEF RootInv, TypeOKRoot
  <1>2. s \in Decodable' /\ slots'[s] = draft
    BY <1>1, SlotWritten DEF Decodable
  <1>3. CASE ~Open(holder)
    <2>1. \A g \in Handles : ~Open(g)
      BY <1>3, Initialising
    <2>2. ASSUME NEW i \in Decodable' PROVE slots'[i].revision = draft.revision
      BY <1>1, <1>3, <2>2, SlotWritten, Initialising
    <2> QED
      BY <1>1, <1>2, <2>1, <2>2
  <1>4. CASE Open(holder) /\ InPlace
    <2>1. /\ cache[holder] = draft
          /\ \A g \in Handles \ {holder} : Open(g) => cache[g].revision < draft.revision
      BY <1>4, WriteKind DEF RewriteInv
    <2>2. \A i \in Decodable : slots[i].revision <= draft.revision
      BY <1>4 DEF RootInv, DraftInv
    <2>3. ASSUME NEW i \in Decodable' PROVE slots'[i].revision <= draft.revision
      <3>1. slots'[i].revision = draft.revision \/ (i \in Decodable /\ slots'[i] = slots[i])
        BY <1>1, <2>3, SlotWritten
      <3> QED
        BY <1>1, <2>2, <3>1
    <2> QED
      BY <1>2, <2>1, <2>3
  <1>5. CASE Open(holder) /\ ~InPlace
    <2>1. /\ \E i \in Decodable' :
                 \A g \in Handles : Open(g) =>
                     cache[g].revision < slots'[i].revision \/ Same(cache[g], slots'[i])
          /\ \A i \in Decodable' : slots'[i].revision <= draft.revision
      BY <1>1, <1>5, CommitKeeps
    <2> QED
      BY <1>2, <2>1
  <1> QED
    BY <1>3, <1>4, <1>5

LEMMA CompleteInv ==
    ASSUME RootInv, NEW h \in Handles, Complete(h)
    PROVE  RootInv'
  <1>1. /\ holder = h /\ holder # Nobody /\ stage = "torn" /\ stage' = "written"
        /\ UNCHANGED <<root, cache, holder, draft, rewound>> /\ ready'
        /\ slots' = [slots EXCEPT ![SlotOf(draft.revision)] = draft]
        /\ \A g \in Handles : Open(g)' = Open(g)
        /\ ~Rewriting' /\ SlotOf(draft.revision)' = SlotOf(draft.revision)
    BY Kinds DEF Complete, Rewriting, Open, SlotOf
  <1>2. TypeOKRoot' /\ SlotParity' /\ OriginInv'
    BY <1>1, SlotWritten DEF Complete, RootInv, TypeOKRoot
  <1>3. HolderInv' /\ InitialisedInv'
    BY <1>1 DEF RootInv, HolderInv, InitialisedInv
  <1>4. Openable' /\ NoStrayCache' /\ DraftInv' /\ WrittenInv'
    BY <1>1, DraftWritten DEF Openable, NoStrayCache, DraftInv, WrittenInv
  <1> QED
    BY <1>2, <1>3, <1>4 DEF RootInv

LEMMA FailToWriteInv ==
    ASSUME RootInv, NEW h \in Handles, FailToWrite(h)
    PROVE  RootInv'
  <1>1. /\ holder = h /\ holder # Nobody /\ stage \in {"ready", "torn"} /\ stage' = "failed"
        /\ UNCHANGED <<root, cache, holder, draft>>
        /\ rewound' = (rewound \/ (InPlace /\ slots'[SlotOf(draft.revision)] # draft))
        /\ \A g \in Handles : Open(g)' = Open(g)
        /\ ~Rewriting'
    BY Kinds DEF FailToWrite, Rewriting, Open
  <1>2. WrittenInv'
    BY <1>1 DEF WrittenInv
  <1>3. ASSUME slots' = [slots EXCEPT ![SlotOf(draft.revision)] = draft], ready'
        PROVE  RootInv'
    <2>1. TypeOKRoot' /\ SlotParity' /\ OriginInv'
      BY <1>1, <1>3, SlotWritten DEF RootInv, TypeOKRoot
    <2>2. HolderInv' /\ InitialisedInv'
      BY <1>1, <1>3 DEF RootInv, HolderInv, InitialisedInv
    <2>3. ~rewound' => ~rewound
      BY <1>1
    <2>4. Openable' /\ NoStrayCache' /\ DraftInv'
      BY <1>1, <1>3, <2>3, DraftWritten DEF Openable, NoStrayCache, DraftInv
    <2> QED
      BY <1>2, <2>1, <2>2, <2>4 DEF RootInv
  <1>4. ASSUME NEW c \in PartlyWritten, UNCHANGED ready,
               slots' = [slots EXCEPT ![SlotOf(draft.revision)] = c]
        PROVE  RootInv'
    <2>1. TypeOKRoot' /\ SlotParity' /\ OriginInv'
      BY <1>1, <1>4, SlotWritten DEF RootInv, TypeOKRoot
    <2>2. ~Open(h) => Decodable' = {}
      BY <1>1, <1>4, SlotWritten, Initialising DEF Decodable
    <2>3. HolderInv' /\ InitialisedInv'
      BY <1>1, <1>4, <2>2 DEF RootInv, HolderInv, InitialisedInv
    <2>4. CASE rewound'
      BY <1>1, <1>2, <2>1, <2>3, <2>4 DEF RootInv, Openable, NoStrayCache, DraftInv
    <2>5. CASE ~rewound' /\ ~Open(h)
      <3>1. Openable' /\ NoStrayCache' /\ DraftInv'
        BY <1>1, <1>4, <2>5, Initialising DEF Openable, NoStrayCache, DraftInv
      <3> QED
        BY <1>2, <2>1, <2>3, <3>1 DEF RootInv
    <2>6. CASE ~rewound' /\ Open(h) /\ ~InPlace
      <3>1. /\ \E i \in Decodable' :
                   \A g \in Handles : Open(g) =>
                       cache[g].revision < slots'[i].revision \/ Same(cache[g], slots'[i])
            /\ \A i \in Decodable' : slots'[i].revision <= draft.revision
        BY <1>1, <1>4, <2>6, CommitKeeps
      <3>2. Openable' /\ NoStrayCache' /\ DraftInv'
        BY <1>1, <3>1 DEF Openable, NoStrayCache, DraftInv
      <3> QED
        BY <1>2, <2>1, <2>3, <3>2 DEF RootInv
    <2>7. CASE ~rewound' /\ Open(h) /\ InPlace
      <3>1. ~rewound /\ slots'[SlotOf(draft.revision)] = draft
        BY <1>1, <2>7
      <3>2. slots' = [slots EXCEPT ![SlotOf(draft.revision)] = draft]
        BY <1>1, <1>4, <3>1, SlotWritten
      <3>3. Openable' /\ NoStrayCache' /\ DraftInv'
        BY <1>1, <3>1, <3>2, DraftWritten DEF Openable, NoStrayCache, DraftInv
      <3> QED
        BY <1>2, <2>1, <2>3, <3>3 DEF RootInv
    <2> QED
      BY <2>4, <2>5, <2>6, <2>7
  <1>5. ASSUME stage = "ready", UNCHANGED <<slots, ready>>
        PROVE  RootInv'
    <2>1. TypeOKRoot' /\ SlotParity' /\ OriginInv' /\ Decodable' = Decodable
      BY <1>1, <1>5 DEF RootInv, TypeOKRoot, SlotParity, OriginInv, Decodable
    <2>2. HolderInv' /\ InitialisedInv'
      BY <1>1, <1>5, <2>1 DEF RootInv, HolderInv, InitialisedInv
    <2>3. ASSUME ~rewound', Rewriting PROVE RewriteInv /\ slots[SlotOf(draft.revision)] = draft
      BY <1>1, <1>5, <2>3, WriteKind, Kinds DEF Rewriting, InPlace
    <2>4. SlotOf(draft.revision) \in {0, 1} /\ draft # Torn
      BY Parity, Kinds DEF RootInv, TypeOKRoot, SlotOf
    <2>5. Openable' /\ NoStrayCache' /\ DraftInv'
      BY <1>1, <1>5, <2>1, <2>3, <2>4
      DEF RootInv, Openable, NoStrayCache, DraftInv, RewriteInv, Decodable
    <2> QED
      BY <1>2, <2>1, <2>2, <2>5 DEF RootInv
  <1> QED
    BY <1>3, <1>4, <1>5 DEF FailToWrite

\* The lock is released and the handle remembers what it has or what it wrote.
LEMMA ReleaseInv ==
    ASSUME RootInv, NEW h \in Handles, NEW c, Release(h, c),
           \/ stage = "written" /\ c = draft
           \/ c = cache[h] /\ (stage = "written" => Open(h))
           \/ c = Tidy(draft) /\ stage \in {"begun", "written"} /\ Open(h)
    PROVE  RootInv'
  <1>1. /\ holder = h /\ h # Nobody /\ stage \in {"begun", "written", "failed"}
        /\ holder' = Nobody /\ stage' = "none" /\ draft' = Pristine
        /\ UNCHANGED <<root, slots, ready, rewound>>
        /\ cache' = [cache EXCEPT ![h] = c]
        /\ ~Rewriting /\ ~Rewriting' /\ Decodable' = Decodable
    BY Kinds DEF Release, Rewriting, Decodable
  <1>2. draft \in Contents /\ draft # Closed /\ c \in Contents \cup {Closed}
    BY Kinds, TidyFacts DEF RootInv, TypeOKRoot
  <1>3. TypeOKRoot'
    BY <1>1, <1>2, Kinds DEF RootInv, TypeOKRoot
  <1>4. /\ cache'[h] = c /\ \A g \in Handles \ {h} : cache'[g] = cache[g]
    BY <1>1, <1>2 DEF RootInv, TypeOKRoot
  <1>5. stage = "written" /\ ~rewound =>
            SlotOf(draft.revision) \in Decodable /\ slots[SlotOf(draft.revision)] = draft
    BY <1>2, Kinds, Parity DEF RootInv, WrittenInv, SlotOf, Decodable
  <1>6. c # Closed => ready
    <2>1. c # Closed /\ c = cache[h] => ready
      BY DEF RootInv, InitialisedInv, Open
    <2>2. stage = "written" => ready
      BY DEF RootInv, InitialisedInv
    <2>3. Open(h) => ready
      BY DEF RootInv, InitialisedInv
    <2> QED
      BY <2>1, <2>2, <2>3
  <1>7. SlotParity' /\ HolderInv' /\ DraftInv' /\ WrittenInv' /\ Openable'
    BY <1>1, <1>3 DEF RootInv, SlotParity, HolderInv, DraftInv, WrittenInv, Openable
  <1>8. InitialisedInv'
    BY <1>1, <1>4, <1>6 DEF RootInv, InitialisedInv, Open
  <1>9. OriginInv'
    BY <1>1, <1>2, <1>4, Kinds, TidyFacts DEF RootInv, OriginInv, Open
  <1>10. NoStrayCache'
    <2>1. ASSUME ~rewound, c # Closed
          PROVE  \E i \in Decodable : c.revision < slots[i].revision \/ Same(c, slots[i])
      <3>1. CASE c = cache[h]
        BY <1>1, <2>1, <3>1 DEF RootInv, NoStrayCache, Open
      <3>2. CASE stage = "written" /\ c \in {draft, Tidy(draft)}
        BY <1>5, <2>1, <3>2
      <3>3. CASE stage = "begun" /\ c = Tidy(draft)
        <4>1. PICK i \in Decodable : Same(draft, slots[i])
          BY <1>1, <2>1, <3>3 DEF RootInv, DraftInv, HolderInv
        <4>2. Same(Tidy(draft), slots[i])
          BY <4>1, SlotContents, SameFacts DEF RootInv
        <4> QED
          BY <3>3, <4>2
      <3> QED
        BY <3>1, <3>2, <3>3
    <2> QED
      BY <1>1, <1>4, <2>1 DEF RootInv, NoStrayCache, Open
  <1> QED
    BY <1>3, <1>7, <1>8, <1>9, <1>10 DEF RootInv

-----------------------------------------------------------------------------
(* The invariant and what follows from it.                                  *)

LEMMA CommitStep == RootInv /\ NextCommit => RootInv'
  <1> SUFFICES ASSUME RootInv, NextCommit PROVE RootInv'
    OBVIOUS
  <1>1. PICK h \in Handles :
            \/ OpenExisting(h) \/ OpenNew(h) \/ WriteMagic(h) \/ Refresh(h) \/ Leave(h)
            \/ \E g \in Handles : Clone(h, g)
            \/ Begin(h) \/ Tear(h) \/ Complete(h) \/ FailToWrite(h)
            \/ \E d \in Data : Prepare(h, d)
            \/ Remember(h) \/ Forget(h) \/ RememberTidied(h)
    BY DEF NextCommit
  <1>2. CASE OpenExisting(h) BY <1>2, OpenExistingInv
  <1>3. CASE OpenNew(h) BY <1>3, OpenNewInv
  <1>4. CASE WriteMagic(h) BY <1>4, WriteMagicInv
  <1>5. CASE Refresh(h) BY <1>5, RefreshInv
  <1>6. CASE Leave(h) BY <1>6, LeaveInv
  <1>7. CASE \E g \in Handles : Clone(h, g) BY <1>7, CloneInv
  <1>8. CASE Begin(h) BY <1>8, BeginInv
  <1>9. CASE Tear(h) BY <1>9, TearInv
  <1>10. CASE Complete(h) BY <1>10, CompleteInv
  <1>11. CASE FailToWrite(h) BY <1>11, FailToWriteInv
  <1>12. CASE \E d \in Data : Prepare(h, d) BY <1>12, PrepareInv
  <1>13. CASE Remember(h) BY <1>13, ReleaseInv DEF Remember
  <1>14. CASE Forget(h) BY <1>14, ReleaseInv DEF Forget
  <1>15. CASE RememberTidied(h) BY <1>15, ReleaseInv DEF RememberTidied
  <1> QED
    BY <1>1, <1>2, <1>3, <1>4, <1>5, <1>6, <1>7, <1>8, <1>9, <1>10, <1>11, <1>12,
       <1>13, <1>14, <1>15

LEMMA RootInvStep == RootInv /\ [NextRoot]_rootVars => RootInv'
  <1> SUFFICES ASSUME RootInv, [NextRoot]_rootVars PROVE RootInv'
    OBVIOUS
  <1>1. CASE UNCHANGED rootVars
    BY <1>1 DEF rootVars, RootInv, TypeOKRoot, SlotParity, HolderInv, InitialisedInv,
                OriginInv, Openable, NoStrayCache, DraftInv, WrittenInv, RewriteInv,
                CommitInv, Rewriting, InPlace, Decodable, Open, SlotOf
  <1> QED
    BY <1>1, CommitStep, PrepareInPlaceInv DEF NextRoot

\* In every reachable state all parts of the invariant hold: among them that
\* the file can be opened once it was initialised, whatever crashed since, and
\* that no handle remembers contents that the file contradicts.
THEOREM RootCorrect == SpecRoot => []RootInv
  <1>1. InitRoot => RootInv
    BY InitRootInv
  <1>2. RootInv /\ [NextRoot]_rootVars => RootInv'
    BY RootInvStep
  <1> QED
    BY <1>1, <1>2, PTL DEF SpecRoot

\* fetch_content_impl() never finds a revision in the wrong slot.
THEOREM ParityKept == SpecRoot => []SlotParity
  <1>1. RootInv => SlotParity
    BY DEF RootInv
  <1> QED
    BY <1>1, RootCorrect, PTL

\* An initialised database can be opened after any sequence of crashes and
\* failed writes, if nothing was rewritten in place.
THEOREM StaysOpenable == SpecRoot => []Openable
  <1>1. RootInv => Openable
    BY DEF RootInv
  <1> QED
    BY <1>1, RootCorrect, PTL

\* But for erased entries a revision number never means two contents.
THEOREM CachesAgree == SpecRoot => []NoStrayCache
  <1>1. RootInv => NoStrayCache
    BY DEF RootInv
  <1> QED
    BY <1>1, RootCorrect, PTL

\* No update is lost: each transaction starts from the newest contents, but for
\* erased entries.
THEOREM NoLostUpdate == SpecRoot => []BuildsOnNewest
  <1>1. RootInv => BuildsOnNewest
    <2> SUFFICES ASSUME RootInv, stage = "begun", ~rewound, NEW i \in {0, 1}, Newest(i)
                 PROVE  Same(draft, slots[i])
      BY DEF BuildsOnNewest
    <2>1. holder # Nobody /\ Open(holder)
      BY DEF RootInv, HolderInv
    <2>2. PICK j \in Decodable : Same(draft, slots[j])
      BY <2>1 DEF RootInv, DraftInv
    <2>3. slots[i].revision <= slots[j].revision /\ slots[j].revision <= slots[i].revision
      <3>1. slots[j].revision = draft.revision
        BY <2>2, SlotContents, SameFacts DEF RootInv
      <3> QED
        BY <2>1, <2>2, <3>1 DEF RootInv, DraftInv, Newest
    <2>4. i = j
      BY <2>3, SlotContents DEF RootInv, Newest
    <2> QED
      BY <2>2, <2>4
  <1> QED
    BY <1>1, RootCorrect, PTL

\* The newest revision survives every step of every writer, and so a crash
\* after any of them.
THEOREM NewestSurvives == SpecRoot => NewestNeverLost
  <1> DEFINE Kept == ~rewound' /\ ~Rewriting => \A i \in Safe :
                         \E j \in Safe' : slots'[j].revision >= slots[i].revision
  <1>1. RootInv /\ [NextRoot]_rootVars => [Kept]_rootVars
    <2> SUFFICES ASSUME RootInv, NextRoot PROVE Kept
      BY Zenon DEF rootVars
    <2> SUFFICES ASSUME ~rewound', ~Rewriting, NEW i \in Safe
                 PROVE  \E j \in Safe' : slots'[j].revision >= slots[i].revision
      BY Zenon
    <2>1. i \in Decodable /\ i \in {0, 1} /\ slots[i] # Torn /\ slots[i].revision \in Nat
      <3>1. i \in Decodable
        BY DEF Safe
      <3> QED
        BY <3>1, SlotContents DEF Decodable, RootInv
    <2>2. ASSUME slots' = slots, stage' # "torn"
          PROVE  \E j \in Safe' : slots'[j].revision >= slots[i].revision
      BY <2>1, <2>2 DEF Safe, Decodable
    <2>3. ASSUME slots' = slots, stage' = stage, draft' = draft
          PROVE  \E j \in Safe' : slots'[j].revision >= slots[i].revision
      <3>1. Safe' = Safe
        BY <2>3 DEF Safe, Decodable, SlotOf
      <3> QED
        BY <2>1, <2>3, <3>1
    <2>4. ASSUME NEW h \in Handles,
                 Tear(h) \/ Complete(h) \/ (FailToWrite(h) /\ slots' # slots)
          PROVE  \E j \in Safe' : slots'[j].revision >= slots[i].revision
      <3>1. /\ holder = h /\ holder # Nobody /\ stage \in {"ready", "torn"} /\ ~rewound
            /\ UNCHANGED <<cache, draft>>
            /\ SlotOf(draft.revision)' = SlotOf(draft.revision)
            /\ draft.revision \in Nat
        BY <2>4, Kinds DEF Tear, Complete, FailToWrite, RootInv, TypeOKRoot, SlotOf
      <3>2. Open(holder) /\ ~InPlace
        BY <2>1, <3>1, Initialising DEF Rewriting
      <3>3. slots[i].revision <= draft.revision
        BY <2>1, <3>1, <3>2 DEF RootInv, DraftInv
      <3>4. PICK c \in PartlyWritten \cup {draft} :
                slots' = [slots EXCEPT ![SlotOf(draft.revision)] = c]
        BY <2>4 DEF Tear, Complete, FailToWrite
      <3>5. PICK k \in Decodable' :
                k # SlotOf(draft.revision) /\ slots'[k].revision + 1 = draft.revision
        BY <3>1, <3>2, <3>4, CommitKeeps
      <3>6. k \in {0, 1} /\ slots'[k] = slots[k] /\ k \in Decodable
        BY <3>1, <3>4, <3>5, SlotWritten DEF Decodable
      <3>7. k \in Safe' /\ slots[k].revision \in Nat
        BY <3>1, <3>5, <3>6, SlotContents DEF Safe, RootInv
      <3>8. CASE slots[i].revision < draft.revision
        BY <2>1, <3>1, <3>5, <3>6, <3>7, <3>8
      <3>9. CASE slots[i].revision = draft.revision
        <4>1. stage = "torn"
          BY <2>1, <3>1, <3>2, <3>9, WriteKind DEF CommitInv
        <4>2. i = SlotOf(draft.revision)
          BY <2>1, <3>9, SlotContents DEF RootInv, SlotOf
        <4> QED
          BY <4>1, <4>2 DEF Safe
      <3> QED
        BY <2>1, <3>1, <3>3, <3>8, <3>9
    <2>5. \/ slots' = slots /\ stage' # "torn"
          \/ slots' = slots /\ stage' = stage /\ draft' = draft
          \/ \E h \in Handles : Tear(h) \/ Complete(h) \/ (FailToWrite(h) /\ slots' # slots)
      <3>1. ASSUME NEW h \in Handles,
                   \/ OpenExisting(h) \/ Refresh(h) \/ \E g \in Handles : Clone(h, g)
                   \/ OpenNew(h) \/ WriteMagic(h) \/ Begin(h)
                   \/ \E d \in Data : Prepare(h, d) \/ PrepareInPlace(h, d)
                   \/ Remember(h) \/ Forget(h) \/ RememberTidied(h)
            PROVE  \/ slots' = slots /\ stage' # "torn"
                   \/ slots' = slots /\ stage' = stage /\ draft' = draft
        BY <3>1 DEF OpenExisting, Refresh, Clone, OpenNew, WriteMagic, Begin, Prepare,
                    PrepareInPlace, Remember, Forget, RememberTidied, Release
      <3>2. ASSUME NEW h \in Handles, Leave(h)
            PROVE  \/ slots' = slots /\ stage' # "torn"
                   \/ slots' = slots /\ stage' = stage /\ draft' = draft
        BY <3>2 DEF Leave
      <3>3. ASSUME NEW h \in Handles, FailToWrite(h)
            PROVE  stage' # "torn"
        BY <3>3 DEF FailToWrite
      <3> QED
        BY <3>1, <3>2, <3>3 DEF NextRoot, NextCommit
    <2> QED
      BY <2>2, <2>3, <2>4, <2>5
  <1> QED
    BY <1>1, RootCorrect, PTL DEF SpecRoot, NewestNeverLost

-----------------------------------------------------------------------------
(* The root file is a Registry.                                             *)

LEMMA ListedNone == Safe = {} => Listed = Torn
  BY DEF Listed

\* What the file lists are the entries of its newest safe slot.
LEMMA ListedNewest ==
    RootInv => \A i \in {0, 1} :
        i \in Safe /\ (\A j \in Safe : slots[j].revision <= slots[i].revision)
            => Listed = slots[i].entries
  <1> SUFFICES ASSUME RootInv, NEW i \in {0, 1}, i \in Safe,
                      \A j \in Safe : slots[j].revision <= slots[i].revision
               PROVE  Listed = slots[i].entries
    OBVIOUS
  <1> DEFINE k == CHOOSE k \in Safe : \A j \in Safe : slots[j].revision <= slots[k].revision
  <1>1. k \in Safe /\ \A j \in Safe : slots[j].revision <= slots[k].revision
    OBVIOUS
  <1> HIDE DEF k
  <1>2. k \in Decodable /\ i \in Decodable
    BY <1>1 DEF Safe
  <1>3. k = i
    <2>1. slots[k].revision \in Nat /\ slots[k].revision % 2 = k
      BY <1>2, SlotContents DEF RootInv
    <2>2. slots[i].revision \in Nat /\ slots[i].revision % 2 = i
      BY <1>2, SlotContents DEF RootInv
    <2>3. slots[k].revision = slots[i].revision
      BY <1>1, <2>1, <2>2
    <2> QED
      BY <2>1, <2>2, <2>3
  <1> QED
    BY <1>3 DEF Listed, k

\* Without rewrites in place and with contents that fit one block.
CommitsInv ==
    /\ RootInv
    /\ ~rewound /\ ~Rewriting
    /\ stage = "torn" => slots[SlotOf(draft.revision)] = Torn

OneBlock == \A d \in Data : Mixes[d] = {}

LEMMA OnlyTorn ==
    ASSUME RootInv, OneBlock
    PROVE  PartlyWritten = {Torn}
  BY Kinds DEF PartlyWritten, OneBlock, RootInv, TypeOKRoot

LEMMA CommitsInvStep ==
    ASSUME OneBlock, CommitsInv, [NextCommit]_rootVars
    PROVE  CommitsInv'
  <1>1. RootInv'
    BY RootInvStep DEF CommitsInv, NextRoot
  <1>2. CASE UNCHANGED rootVars
    BY <1>1, <1>2 DEF rootVars, CommitsInv, Rewriting, InPlace, Open, SlotOf
  <1>3. ASSUME NEW h \in Handles, NEW d \in Data, Prepare(h, d)
        PROVE  CommitsInv'
    <2>1. /\ draft'.revision = draft.revision + 1 /\ draft.revision \in Nat /\ stage' = "ready"
          /\ holder = h /\ holder' = h /\ cache' = cache /\ Open(h) /\ rewound' = rewound
          /\ slots' = slots /\ h # Nobody /\ Decodable' = Decodable
      BY <1>3, Kinds DEF Prepare, CommitsInv, RootInv, TypeOKRoot, Decodable
    <2>2. PICK j \in Decodable : cache[h].revision < slots[j].revision \/ Same(cache[h], slots[j])
      BY <2>1 DEF CommitsInv, RootInv, NoStrayCache
    <2>3. slots[j].revision <= draft.revision
      BY <1>3, <2>1 DEF Prepare, CommitsInv, RootInv, DraftInv
    <2>4. cache[h].revision \in Nat /\ slots[j].revision \in Nat /\ slots[j] \in Contents
      BY <2>1, Kinds, SlotContents DEF CommitsInv, RootInv, TypeOKRoot, Open
    <2>5. cache[h].revision <= draft.revision
      BY <2>1, <2>2, <2>3, <2>4, SameFacts
    <2>6. draft'.revision # cache'[h].revision
      BY <2>1, <2>4, <2>5
    <2>7. ~InPlace'
      BY <2>1, <2>6 DEF InPlace
    <2> QED
      BY <1>1, <2>1, <2>7 DEF CommitsInv, Rewriting
  <1>4. ASSUME NEW h \in Handles, Leave(h) \/ FailToWrite(h) \/ Begin(h)
               \/ Complete(h) \/ Remember(h) \/ Forget(h) \/ RememberTidied(h) \/ OpenNew(h)
        PROVE  CommitsInv'
    <2>1. stage' \notin {"ready", "torn"} \/ (UNCHANGED <<holder, stage, draft, slots>>
                                              /\ Leave(h) /\ holder # h)
      BY <1>4 DEF Leave, FailToWrite, Begin, Complete, Remember, Forget, RememberTidied,
                Release, OpenNew
    <2>2. ~rewound'
      <3>1. stage \in {"ready", "torn"} => ~InPlace
        BY DEF CommitsInv, Rewriting
      <3> QED
        BY <1>4, <3>1 DEF CommitsInv, Leave, FailToWrite, Begin, Complete, Remember, Forget,
                          RememberTidied, Release, OpenNew
    <2>3. CASE stage' \notin {"ready", "torn"}
      BY <1>1, <2>2, <2>3 DEF CommitsInv, Rewriting
    <2>4. CASE UNCHANGED <<holder, stage, draft, slots>> /\ Leave(h) /\ holder # h
      <3>1. holder \in Handles => cache'[holder] = cache[holder]
        BY <2>4 DEF Leave, CommitsInv, RootInv, TypeOKRoot
      <3>2. Rewriting' => Rewriting
        BY <2>4, <3>1 DEF Rewriting, InPlace, Open
      <3> QED
        BY <1>1, <2>2, <2>4, <3>2 DEF CommitsInv, SlotOf
    <2> QED
      BY <2>1, <2>3, <2>4
  <1>5. ASSUME NEW h \in Handles, NEW g \in Handles,
               OpenExisting(h) \/ Refresh(h) \/ Clone(g, h)
        PROVE  CommitsInv'
    <2>1. UNCHANGED <<holder, stage, draft, slots, rewound>> /\ holder # h
      BY <1>5, Kinds DEF OpenExisting, Refresh, Clone
    <2>2. holder \in Handles => cache'[holder] = cache[holder]
      BY <1>5, <2>1 DEF OpenExisting, Refresh, Clone, CommitsInv, RootInv, TypeOKRoot
    <2>3. Rewriting' => Rewriting
      BY <2>1, <2>2 DEF Rewriting, InPlace, Open
    <2> QED
      BY <1>1, <2>1, <2>3 DEF CommitsInv, SlotOf
  <1>6. ASSUME NEW h \in Handles, WriteMagic(h) PROVE CommitsInv'
    <2>1. ~Open(holder) /\ holder' = holder /\ cache' = cache /\ stage' = "ready"
          /\ rewound' = rewound
      BY <1>6, Kinds DEF WriteMagic, CommitsInv, RootInv, HolderInv
    <2> QED
      BY <1>1, <2>1 DEF CommitsInv, Rewriting, InPlace, Open
  <1>7. ASSUME NEW h \in Handles, Tear(h) PROVE CommitsInv'
    <2>1. slots' = [slots EXCEPT ![SlotOf(draft.revision)] = Torn]
      BY <1>7, OnlyTorn DEF Tear, CommitsInv
    <2>2. Torn \in PartlyWritten \cup {draft}
      BY DEF PartlyWritten
    <2>3. slots'[SlotOf(draft.revision)] = Torn
      BY <1>7, <2>1, <2>2, SlotWritten DEF Tear, CommitsInv
    <2> QED
      BY <1>1, <1>7, <2>3 DEF Tear, CommitsInv, Rewriting, InPlace, Open, SlotOf
  <1> QED
    BY <1>2, <1>3, <1>4, <1>5, <1>6, <1>7 DEF NextCommit

LEMMA SafeDecodable == CommitsInv => Safe = Decodable
  BY DEF CommitsInv, Safe, Decodable

\* What the file lists does not change as long as the slots do not.
LEMMA SameSlotsSameList ==
    ASSUME CommitsInv, CommitsInv', slots' = slots
    PROVE  Listed' = Listed
  <1>1. (CommitsInv => Safe = Decodable)'
    BY SafeDecodable, PTL
  <1>2. Safe' = Safe
    BY <1>1, SafeDecodable DEF Decodable
  <1> QED
    BY <1>2 DEF Listed

\* A torn slot takes nothing off the list: it was the older one.
LEMMA TornKeepsList ==
    ASSUME CommitsInv, CommitsInv', holder # Nobody, stage = "ready",
           UNCHANGED <<cache, draft>>,
           slots' = [slots EXCEPT ![SlotOf(draft.revision)] = Torn]
    PROVE  Listed' = Listed
  <1>1. (CommitsInv => Safe = Decodable)' /\ (Safe = {} => Listed = Torn)'
    BY SafeDecodable, ListedNone, PTL
  <1>2. (RootInv => \A i \in {0, 1} :
           i \in Safe /\ (\A j \in Safe : slots[j].revision <= slots[i].revision)
               => Listed = slots[i].entries)'
    BY ListedNewest, PTL
  <1>3. Torn \in PartlyWritten \cup {draft} /\ RootInv
    BY DEF PartlyWritten, CommitsInv
  <1>4. Safe = Decodable /\ Safe' = Decodable'
    BY <1>1, SafeDecodable
  <1>5. CASE ~Open(holder)
    <2>1. Decodable = {}
      BY <1>3, <1>5, Initialising
    <2>2. Decodable' = {}
      BY <1>3, <2>1, SlotWritten DEF Decodable
    <2> QED
      BY <1>1, <1>4, <2>1, <2>2, ListedNone
  <1>6. CASE Open(holder)
    <2>1. ~InPlace /\ ~rewound
      BY DEF CommitsInv, Rewriting
    <2>2. PICK i \in Decodable' : /\ i # SlotOf(draft.revision)
                                  /\ slots'[i].revision + 1 = draft.revision
      BY <1>3, <1>6, <2>1, CommitKeeps
    <2>3. i \in {0, 1} /\ i \in Decodable /\ slots'[i] = slots[i] /\ slots[i].revision \in Nat
      BY <1>3, <2>2, SlotWritten, SlotContents DEF Decodable, RootInv
    <2>4. \A j \in Decodable : slots[j].revision < draft.revision
      BY <1>3, <1>6, <2>1, WriteKind DEF CommitInv
    <2>5. \A j \in Decodable : slots[j].revision <= slots[i].revision
      BY <1>3, <2>2, <2>3, <2>4, SlotContents DEF RootInv
    <2>6. \A j \in Decodable' : j \in Decodable /\ slots'[j] = slots[j]
      BY <1>3, SlotWritten DEF Decodable
    <2>7. Listed = slots[i].entries
      BY <1>3, <1>4, <2>3, <2>5, ListedNewest
    <2>8. Listed' = slots'[i].entries
      BY <1>2, <1>4, <2>2, <2>3, <2>5, <2>6 DEF CommitsInv
    <2> QED
      BY <2>3, <2>7, <2>8
  <1> QED
    BY <1>5, <1>6

\* A complete slot is what the file lists from then on.
LEMMA CompleteListed ==
    ASSUME CommitsInv, CommitsInv', holder # Nobody, stage \in {"ready", "torn"},
           UNCHANGED <<cache, draft>>,
           slots' = [slots EXCEPT ![SlotOf(draft.revision)] = draft]
    PROVE  Listed' = draft.entries
  <1> DEFINE s == SlotOf(draft.revision)
  <1>1. (CommitsInv => Safe = Decodable)'
    BY SafeDecodable, PTL
  <1>2. (RootInv => \A i \in {0, 1} :
           i \in Safe /\ (\A j \in Safe : slots[j].revision <= slots[i].revision)
               => Listed = slots[i].entries)'
    BY ListedNewest, PTL
  <1>3. /\ s \in Decodable' /\ slots'[s] = draft
        /\ \A i \in Decodable' : slots'[i].revision <= draft.revision
    BY DraftWritten DEF CommitsInv
  <1>4. s \in {0, 1}
    BY <1>3 DEF Decodable
  <1> QED
    BY <1>1, <1>2, <1>3, <1>4 DEF CommitsInv

\* A transaction begins with what the file lists.
LEMMA BeginListed ==
    ASSUME CommitsInv, CommitsInv', NEW h \in Handles, Begin(h)
    PROVE  /\ Listed' = Listed /\ Listed # Torn
           /\ draft'.entries = Tidied[Listed]
  <1>1. Listed' = Listed /\ slots' = slots
    BY SameSlotsSameList DEF Begin
  <1>2. holder' = h /\ h # Nobody /\ stage' = "begun" /\ Open(h)'
    <2>1. cache[h] \in Contents /\ Fetched(cache[h]) \in Contents
      BY FetchNewest DEF Begin, Open, CommitsInv, RootInv, TypeOKRoot
    <2> QED
      BY <2>1, Kinds DEF Begin, Open, CommitsInv, RootInv, TypeOKRoot
  <1>3. PICK i \in Decodable' : Same(draft', slots'[i])
    BY <1>2 DEF CommitsInv, RootInv, DraftInv
  <1>4. i \in Decodable /\ Same(draft', slots[i]) /\ draft'.revision = slots[i].revision
    <2>1. i \in Decodable /\ Same(draft', slots[i])
      BY <1>1, <1>3 DEF Decodable
    <2> QED
      BY <2>1, SlotContents, SameFacts DEF CommitsInv, RootInv
  <1>5. \A j \in Decodable : slots[j].revision <= slots[i].revision
    BY <1>1, <1>2, <1>4 DEF CommitsInv, RootInv, DraftInv, Decodable
  <1>6. Listed = slots[i].entries
    BY <1>4, <1>5, SafeDecodable, ListedNewest DEF CommitsInv, Decodable
  <1>7. slots[i].entries \in Data
    BY <1>4, SlotContents, Kinds DEF CommitsInv, RootInv
  <1>8. draft'.entries = Tidied[slots[i].entries]
    <2>1. cache[h] \in Contents /\ draft' = Fetched(cache[h])
      BY DEF Begin, Open, CommitsInv, RootInv, TypeOKRoot
    <2>2. Tidy(draft') = draft'
      BY <2>1, FetchNewest DEF CommitsInv, RootInv
    <2>3. draft' = Tidy(slots[i])
      BY <1>4, <2>2 DEF Same
    <2> QED
      BY <2>3 DEF Tidy
  <1> QED
    BY <1>1, <1>6, <1>7, <1>8, TornAssumption

LEMMA RegistryStep ==
    ASSUME OneBlock, CommitsInv, CommitsInv', [NextCommit]_rootVars
    PROVE  [Abstract!NextRegistry]_(Abstract!registryVars)
  <1> USE DEF Abstract!registryVars
  <1>1. CASE UNCHANGED rootVars
    BY <1>1, SameSlotsSameList DEF rootVars
  <1>2. ASSUME NEW h \in Handles, NEW g \in Handles,
               OpenExisting(h) \/ Refresh(h) \/ Clone(g, h) \/ WriteMagic(h)
        PROVE  UNCHANGED <<Listed, holder, draft.entries>>
    BY <1>2, SameSlotsSameList DEF OpenExisting, Refresh, Clone, WriteMagic
  <1>3. ASSUME NEW h \in Handles, OpenNew(h) PROVE Abstract!Acquire(h)
    <2>1. Decodable = {}
      BY <1>3 DEF OpenNew, CommitsInv, RootInv, InitialisedInv
    <2>2. Listed = Torn /\ Listed' = Listed
      BY <1>3, <2>1, SafeDecodable, ListedNone, SameSlotsSameList DEF OpenNew
    <2> QED
      BY <1>3, <2>2 DEF OpenNew, Abstract!Acquire, Pristine
  <1>4. ASSUME NEW h \in Handles, Begin(h) PROVE Abstract!Acquire(h)
    BY <1>4, BeginListed DEF Begin, Abstract!Acquire
  <1>5. ASSUME NEW h \in Handles, NEW d \in Data, Prepare(h, d) PROVE Abstract!Change(h, d)
    BY <1>5, SameSlotsSameList DEF Prepare, Abstract!Change
  <1>6. ASSUME NEW h \in Handles, Leave(h) \/ Remember(h) \/ Forget(h) \/ RememberTidied(h), holder = h
        PROVE  Abstract!Release(h)
    BY <1>6, SameSlotsSameList 
    DEF Leave, Remember, Forget, RememberTidied, Release, Abstract!Release, Pristine
  <1>7. ASSUME NEW h \in Handles, Leave(h) \/ Remember(h) \/ Forget(h) \/ RememberTidied(h), holder # h
        PROVE  UNCHANGED <<Listed, holder, draft.entries>>
    BY <1>7, SameSlotsSameList DEF Leave, Remember, Forget, RememberTidied, Release
  <1>8. ASSUME NEW h \in Handles, Tear(h) PROVE UNCHANGED <<Listed, holder, draft.entries>>
    <2>1. slots' = [slots EXCEPT ![SlotOf(draft.revision)] = Torn]
      BY <1>8, OnlyTorn DEF Tear, CommitsInv
    <2> QED
      BY <1>8, <2>1, TornKeepsList, NobodyAssumption DEF Tear
  <1>9. ASSUME NEW h \in Handles, Complete(h) PROVE Abstract!Commit(h)
    BY <1>9, CompleteListed, NobodyAssumption DEF Complete, Abstract!Commit
  <1>10. ASSUME NEW h \in Handles, FailToWrite(h)
         PROVE  Abstract!Commit(h) \/ UNCHANGED <<Listed, holder, draft.entries>>
    <2>1. /\ holder = h /\ holder # Nobody /\ stage \in {"ready", "torn"}
          /\ UNCHANGED <<root, cache, holder, draft>>
      BY <1>10, NobodyAssumption DEF FailToWrite
    <2>2. CASE slots' = [slots EXCEPT ![SlotOf(draft.revision)] = draft]
      BY <2>1, <2>2, CompleteListed DEF Abstract!Commit
    <2>3. CASE slots' = [slots EXCEPT ![SlotOf(draft.revision)] = Torn]
      <3>1. CASE stage = "ready"
        BY <2>1, <2>3, <3>1, TornKeepsList
      <3>2. CASE stage = "torn"
        <4>1. slots \in [{0, 1} -> Contents \cup {Torn}]
          BY DEF CommitsInv, RootInv, TypeOKRoot
        <4>2. slots' = slots
          BY <2>3, <3>2, <4>1 DEF CommitsInv
        <4> QED
          BY <2>1, <4>2, SameSlotsSameList
      <3> QED
        BY <2>1, <3>1, <3>2
    <2>4. CASE slots' = slots
      BY <2>1, <2>4, SameSlotsSameList
    <2> QED
      BY <1>10, <2>2, <2>3, <2>4, OnlyTorn DEF FailToWrite, CommitsInv
  <1>11. ASSUME NEW h \in Handles,
                \/ Abstract!Acquire(h) \/ Abstract!Commit(h) \/ Abstract!Release(h)
                \/ \E d \in Data : Abstract!Change(h, d)
         PROVE  Abstract!NextRegistry
    BY <1>11 DEF Abstract!NextRegistry
  <1> QED
    BY <1>1, <1>2, <1>3, <1>4, <1>5, <1>6, <1>7, <1>8, <1>9, <1>10, <1>11 DEF NextCommit

\* As long as contents fit one block and nothing is rewritten in place, all that
\* handles, crashes and failed writes do to the file are steps of a Registry:
\* the list is replaced at once, by its lock's holder, who began with it.
THEOREM RefinesRegistry == OneBlock => (SpecCommits => ImplementsRegistry)
  <1> SUFFICES ASSUME OneBlock PROVE SpecCommits => ImplementsRegistry
    OBVIOUS
  <1>1. InitRoot => CommitsInv
    BY InitRootInv DEF InitRoot, CommitsInv, Rewriting
  <1>2. CommitsInv /\ [NextCommit]_rootVars => CommitsInv'
    BY CommitsInvStep
  <1>3. InitRoot => Abstract!InitRegistry
    <2>1. InitRoot => Safe = {}
      BY DEF InitRoot, Safe, Decodable
    <2> QED
      BY <2>1, ListedNone DEF InitRoot, Abstract!InitRegistry, Pristine
  <1>4. CommitsInv /\ CommitsInv' /\ [NextCommit]_rootVars
            => [Abstract!NextRegistry]_(Abstract!registryVars)
    BY RegistryStep
  <1> QED
    BY <1>1, <1>2, <1>3, <1>4, PTL DEF SpecCommits, ImplementsRegistry, Abstract!SpecRegistry
=============================================================================
