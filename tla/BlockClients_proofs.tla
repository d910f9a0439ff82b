------------------------ MODULE BlockClients_proofs ------------------------
(***************************************************************************)
(* The safety of the block manager under every client, for any number of   *)
(* requests and blocks and any block size of at least two: the invariant   *)
(* IInv of BlockClients is inductive, and implies the properties.          *)
(***************************************************************************)
EXTENDS BlockClients, TLAPS, SequenceTheorems, FiniteSetTheorems

(***************************************************************************)
(* Blocks and tokens; sequences.                                           *)
(***************************************************************************)
\* A quotient by the block size rounds down, by less than a block.
LEMMA DivBounds ==
  ASSUME NEW n \in Nat
  PROVE  /\ n \div BlockSize \in Nat
         /\ (n \div BlockSize) * BlockSize <= n
         /\ n < (n \div BlockSize) * BlockSize + BlockSize
  BY BlockSizeAssumption

\* The number of blocks of a whole number of blocks is that number.
LEMMA DivOfMultiple ==
  ASSUME NEW n \in Nat
  PROVE  (n * BlockSize) \div BlockSize = n
  BY BlockSizeAssumption

\* More tokens fill no fewer blocks.
LEMMA DivMonotone ==
  ASSUME NEW m \in Nat, NEW n \in Nat, m <= n
  PROVE  m \div BlockSize <= n \div BlockSize
  BY BlockSizeAssumption

\* More blocks hold no fewer tokens.
LEMMA MulMonotone ==
  ASSUME NEW m \in Nat, NEW n \in Nat, m <= n
  PROVE  m * BlockSize <= n * BlockSize
  BY BlockSizeAssumption

\* A token needs a block of its own exactly when it is the first of a block:
\* the test of can_append and may_append.
LEMMA BlocksForGrows ==
  ASSUME NEW n \in Nat, n > 0
  PROVE  BlocksFor(n) = IF n % BlockSize = 1 THEN BlocksFor(n - 1) + 1 ELSE BlocksFor(n - 1)
  BY BlockSizeAssumption DEF BlocksFor

\* Every block before the last one of n tokens is full, and does not hold them all.
LEMMA LastBlockStarts ==
  ASSUME NEW n \in Nat, n > 0, NEW k \in Nat, k < BlocksFor(n)
  PROVE  k * BlockSize < n
  BY BlockSizeAssumption DEF BlocksFor

\* Taking element k out of a sequence keeps the others in their order.
LEMMA SplicedList ==
  ASSUME NEW S, NEW s \in Seq(S), NEW k \in 1 .. Len(s)
  PROVE  LET t == SubSeq(s, 1, k - 1) \o SubSeq(s, k + 1, Len(s)) IN
         /\ t \in Seq(S)
         /\ Len(t) = Len(s) - 1
         /\ \A i \in 1 .. Len(s) - 1 : t[i] = IF i < k THEN s[i] ELSE s[i + 1]
<1> DEFINE u == SubSeq(s, 1, k - 1)
           v == SubSeq(s, k + 1, Len(s))
<1>1. u \in Seq(S) /\ Len(u) = k - 1 /\ \A i \in 1 .. k - 1 : u[i] = s[i]
  OBVIOUS
<1>2. v \in Seq(S) /\ Len(v) = Len(s) - k /\ \A i \in 1 .. Len(s) - k : v[i] = s[i + k]
  OBVIOUS
<1>3. Len(s) \in Nat /\ k \in Nat /\ k >= 1 /\ k <= Len(s)
  OBVIOUS
<1> HIDE DEF u, v
<1>4. u \o v \in Seq(S)
  BY <1>1, <1>2
<1>5. Len(u \o v) = Len(s) - 1
  <2>1. Len(u \o v) = Len(u) + Len(v)
    BY <1>1, <1>2, ConcatProperties
  <2> QED BY <2>1, <1>1, <1>2, <1>3
<1>6. ASSUME NEW i \in 1 .. Len(s) - 1
      PROVE  (u \o v)[i] = IF i < k THEN s[i] ELSE s[i + 1]
  <2>1. (u \o v)[i] = IF i <= Len(u) THEN u[i] ELSE v[i - Len(u)]
    BY <1>1, <1>2, <1>3
  <2>2. CASE i < k
    BY <2>1, <2>2, <1>1, <1>3
  <2>3. CASE i >= k
    <3>1. (u \o v)[i] = v[i - (k - 1)]
      BY <2>1, <2>3, <1>1, <1>3
    <3>2. i - (k - 1) \in 1 .. Len(s) - k
      BY <2>3, <1>3
    <3>3. v[i - (k - 1)] = s[i - (k - 1) + k]
      BY <3>2, <1>2
    <3>4. i - (k - 1) + k = i + 1
      BY <1>3
    <3> QED BY <2>3, <3>1, <3>3, <3>4, <1>3
  <2>4. i < k \/ i >= k
    BY <1>3
  <2> QED BY <2>2, <2>3, <2>4
<1> QED BY <1>4, <1>5, <1>6 DEF u, v

\* Two adjacent pieces of a sequence join to a prefix.
LEMMA JoinedPrefix ==
  ASSUME NEW S, NEW s \in Seq(S), NEW m \in Nat, NEW n \in Nat, m <= n, n <= Len(s)
  PROVE  SubSeq(s, 1, m) \o SubSeq(s, m + 1, n) = SubSeq(s, 1, n)
  OBVIOUS

(***************************************************************************)
(* Tables and reference counts.                                            *)
(***************************************************************************)
\* A block has finitely many holders.
LEMMA HoldersFinite ==
  ASSUME NEW b
  PROVE  IsFiniteSet(Holders(b)) /\ Cardinality(Holders(b)) \in Nat
<1>1. Holders(b) \in SUBSET Requests
  BY DEF Holders
<1>2. IsFiniteSet(Holders(b))
  BY <1>1, ClientAssumption, FS_Subset DEF ClientAssumption
<1> QED BY <1>2, FS_CardinalityType

\* A block without references is in no table.
LEMMA UnreferencedIsUnheld ==
  ASSUME RefCountExact, NEW b \in Blocks, refCount[b] = 0
  PROVE  \A r \in Requests : ~Holds(r, b)
<1>1. Cardinality(Holders(b)) = 0
  BY DEF RefCountExact
<1>2. Holders(b) = {}
  BY <1>1, HoldersFinite, FS_EmptySet
<1> QED BY <1>2 DEF Holders

\* A block in a table has a reference.
LEMMA HeldIsReferenced ==
  ASSUME RefCountExact, NEW b \in Blocks, NEW r \in Requests, Holds(r, b)
  PROVE  refCount[b] > 0
<1>1. Holders(b) # {}
  BY DEF Holders
<1>2. Cardinality(Holders(b)) # 0
  BY <1>1, HoldersFinite, FS_EmptySet
<1> QED BY <1>2, HoldersFinite DEF RefCountExact

\* What appending a block to the table of r changes.
LEMMA AddedBlock ==
  ASSUME TypeOK, NEW r \in Requests, NEW b \in Blocks,
         blockTable' = [blockTable EXCEPT ![r] = Append(@, b)]
  PROVE  /\ \A q \in Requests : q # r => blockTable'[q] = blockTable[q]
         /\ blockTable'[r] \in Seq(Blocks)
         /\ Len(blockTable'[r]) = Len(blockTable[r]) + 1
         /\ \A i \in 1 .. Len(blockTable[r]) : blockTable'[r][i] = blockTable[r][i]
         /\ blockTable'[r][Len(blockTable[r]) + 1] = b
         /\ \A q \in Requests, c \in Blocks : Holds(q, c)' <=> Holds(q, c) \/ (q = r /\ c = b)
<1>1. blockTable[r] \in Seq(Blocks) /\ Len(blockTable[r]) \in Nat
  BY LenProperties DEF TypeOK, RequestTypeOK
<1>2. blockTable'[r] = Append(blockTable[r], b)
  BY DEF TypeOK, RequestTypeOK
<1>3. \A q \in Requests : q # r => blockTable'[q] = blockTable[q]
  BY DEF TypeOK, RequestTypeOK
<1>4. /\ blockTable'[r] \in Seq(Blocks)
      /\ Len(blockTable'[r]) = Len(blockTable[r]) + 1
      /\ \A i \in 1 .. Len(blockTable[r]) : blockTable'[r][i] = blockTable[r][i]
      /\ blockTable'[r][Len(blockTable[r]) + 1] = b
  BY <1>1, <1>2, AppendProperties
<1>5. ASSUME NEW q \in Requests, NEW c \in Blocks
      PROVE  Holds(q, c)' <=> Holds(q, c) \/ (q = r /\ c = b)
  <2>1. CASE q # r
    BY <2>1, <1>3 DEF Holds
  <2>2. CASE q = r
    <3>1. \A i \in 1 .. Len(blockTable'[r]) :
            i \in 1 .. Len(blockTable[r]) \/ i = Len(blockTable[r]) + 1
      BY <1>1, <1>4
    <3>2. /\ 1 .. Len(blockTable[r]) \subseteq 1 .. Len(blockTable'[r])
          /\ Len(blockTable[r]) + 1 \in 1 .. Len(blockTable'[r])
      BY <1>1, <1>4
    <3> QED BY <2>2, <3>1, <3>2, <1>4 DEF Holds
  <2> QED BY <2>1, <2>2
<1> QED BY <1>3, <1>4, <1>5

\* Appending a block and counting the reference keeps the counts exact.
LEMMA AddedHolder ==
  ASSUME TypeOK, RefCountExact, NEW r \in Requests, NEW b \in Blocks, ~Holds(r, b),
         blockTable' = [blockTable EXCEPT ![r] = Append(@, b)],
         refCount' = [refCount EXCEPT ![b] = refCount[b] + 1]
  PROVE  RefCountExact'
<1>0. \A q \in Requests, c \in Blocks : Holds(q, c)' <=> Holds(q, c) \/ (q = r /\ c = b)
  BY AddedBlock
<1>1. ASSUME NEW c \in Blocks
      PROVE  refCount'[c] = Cardinality(Holders(c)')
  <2>1. CASE c = b
    <3>1. Holders(b)' = Holders(b) \cup {r}
      BY <1>0 DEF Holders
    <3>2. r \notin Holders(b)
      BY DEF Holders
    <3>3. Cardinality(Holders(b)') = Cardinality(Holders(b)) + 1
      BY <3>1, <3>2, HoldersFinite, FS_AddElement
    <3> QED BY <2>1, <3>3 DEF TypeOK, RequestTypeOK, PoolTypeOK, RefCountExact
  <2>2. CASE c # b
    <3>1. Holders(c)' = Holders(c)
      BY <2>2, <1>0 DEF Holders
    <3> QED BY <2>2, <3>1 DEF TypeOK, RequestTypeOK, PoolTypeOK, RefCountExact
  <2> QED BY <2>1, <2>2
<1>2. ASSUME NEW q \in Requests,
             NEW i \in 1 .. Len(blockTable'[q]), NEW j \in 1 .. Len(blockTable'[q]),
             blockTable'[q][i] = blockTable'[q][j]
      PROVE  i = j
  <2>1. CASE q # r
    BY <2>1, <1>2, AddedBlock DEF RefCountExact
  <2>2. CASE q = r
    <3> DEFINE n == Len(blockTable[r])
    <3>1. n \in Nat /\ Len(blockTable'[r]) = n + 1
      BY AddedBlock, LenProperties DEF TypeOK, RequestTypeOK
    <3>2. \A k \in 1 .. n : blockTable[r][k] # b
      BY DEF Holds
    <3>3. CASE i = n + 1 \/ j = n + 1
      BY <2>2, <3>1, <3>2, <3>3, <1>2, AddedBlock
    <3>4. CASE i \in 1 .. n /\ j \in 1 .. n
      BY <2>2, <3>4, <1>2, AddedBlock DEF RefCountExact
    <3> QED BY <2>2, <3>1, <3>3, <3>4
  <2> QED BY <2>1, <2>2
<1> QED BY <1>1, <1>2 DEF RefCountExact

\* What taking the last block from the table of r changes.
LEMMA DroppedBlock ==
  ASSUME TypeOK, RefCountExact, NEW r \in Requests, blockTable[r] # << >>,
         NEW n \in Nat, n = Len(blockTable[r]), NEW b \in Blocks, b = blockTable[r][n],
         blockTable' = [blockTable EXCEPT ![r] = SubSeq(@, 1, n - 1)]
  PROVE  /\ n \in Nat \ {0} /\ b \in Blocks /\ Holds(r, b)
         /\ \A q \in Requests : q # r => blockTable'[q] = blockTable[q]
         /\ blockTable'[r] \in Seq(Blocks)
         /\ Len(blockTable'[r]) = n - 1
         /\ \A i \in 1 .. n - 1 : blockTable'[r][i] = blockTable[r][i]
         /\ \A q \in Requests, c \in Blocks : Holds(q, c)' <=> Holds(q, c) /\ ~(q = r /\ c = b)
<1>1. blockTable[r] \in Seq(Blocks) /\ n \in Nat \ {0}
  BY EmptySeq DEF TypeOK, RequestTypeOK
<1>2. b \in Blocks /\ Holds(r, b)
  BY <1>1 DEF Holds
<1>3. blockTable'[r] = SubSeq(blockTable[r], 1, n - 1)
  BY DEF TypeOK, RequestTypeOK
<1>4. \A q \in Requests : q # r => blockTable'[q] = blockTable[q]
  BY DEF TypeOK, RequestTypeOK
<1>5. /\ blockTable'[r] \in Seq(Blocks)
      /\ Len(blockTable'[r]) = n - 1
      /\ \A i \in 1 .. n - 1 : blockTable'[r][i] = blockTable[r][i]
  BY <1>1, <1>3
<1>6. ASSUME NEW q \in Requests, NEW c \in Blocks
      PROVE  Holds(q, c)' <=> Holds(q, c) /\ ~(q = r /\ c = b)
  <2>1. CASE q # r
    BY <2>1, <1>4 DEF Holds
  <2>2. CASE q = r /\ c = b
    <3>1. \A i \in 1 .. n - 1 : blockTable[r][i] # b
      BY <1>1 DEF RefCountExact
    <3> QED BY <2>2, <3>1, <1>5 DEF Holds
  <2>3. CASE q = r /\ c # b
    <3>1. \A i \in 1 .. n : i \in 1 .. n - 1 \/ i = n
      BY <1>1
    <3>2. 1 .. n - 1 \subseteq 1 .. n
      BY <1>1
    <3> QED BY <2>3, <3>1, <3>2, <1>1, <1>5 DEF Holds
  <2> QED BY <2>1, <2>2, <2>3
<1> QED BY <1>1, <1>2, <1>4, <1>5, <1>6

\* Taking the last block and uncounting the reference keeps the counts exact.
LEMMA DroppedHolder ==
  ASSUME TypeOK, RefCountExact, NEW r \in Requests, blockTable[r] # << >>,
         NEW n \in Nat, n = Len(blockTable[r]), NEW b \in Blocks, b = blockTable[r][n],
         blockTable' = [blockTable EXCEPT ![r] = SubSeq(@, 1, n - 1)],
         refCount' = [refCount EXCEPT ![b] = refCount[b] - 1]
  PROVE  RefCountExact'
<1>0. /\ n \in Nat \ {0} /\ b \in Blocks /\ Holds(r, b)
      /\ \A q \in Requests, c \in Blocks : Holds(q, c)' <=> Holds(q, c) /\ ~(q = r /\ c = b)
  BY DroppedBlock
<1>1. ASSUME NEW c \in Blocks
      PROVE  refCount'[c] = Cardinality(Holders(c)')
  <2>1. CASE c = b
    <3>1. Holders(b)' = Holders(b) \ {r}
      BY <1>0 DEF Holders
    <3>2. r \in Holders(b)
      BY <1>0 DEF Holders
    <3>3. IsFiniteSet(Holders(b))
      BY HoldersFinite
    <3>4. Cardinality(Holders(b) \ {r}) = Cardinality(Holders(b)) - 1
      BY <3>2, <3>3, FS_RemoveElement, Zenon
    <3> QED BY <2>1, <3>1, <3>4 DEF TypeOK, RequestTypeOK, PoolTypeOK, RefCountExact
  <2>2. CASE c # b
    <3>1. Holders(c)' = Holders(c)
      BY <2>2, <1>0 DEF Holders
    <3> QED BY <2>2, <3>1 DEF TypeOK, RequestTypeOK, PoolTypeOK, RefCountExact
  <2> QED BY <2>1, <2>2
<1>2. ASSUME NEW q \in Requests,
             NEW i \in 1 .. Len(blockTable'[q]), NEW j \in 1 .. Len(blockTable'[q]),
             blockTable'[q][i] = blockTable'[q][j]
      PROVE  i = j
  <2>1. CASE q # r
    BY <2>1, <1>2, DroppedBlock DEF RefCountExact
  <2>2. CASE q = r
    <3>1. i \in 1 .. n - 1 /\ j \in 1 .. n - 1
      BY <2>2, DroppedBlock
    <3>2. blockTable[r][i] = blockTable[r][j]
      BY <2>2, <3>1, <1>2, DroppedBlock
    <3>3. i \in 1 .. n /\ j \in 1 .. n
      BY <1>0, <3>1
    <3> QED BY <3>2, <3>3 DEF RefCountExact
  <2> QED BY <2>1, <2>2
<1> QED BY <1>1, <1>2 DEF RefCountExact

(***************************************************************************)
(* The free list.                                                          *)
(***************************************************************************)
\* Evicting the head takes that block and no other off the free list.
LEMMA FreePopped ==
  ASSUME PoolTypeOK, FreeUsedAgree, freeList # << >>, NEW b, b = Head(freeList),
         freeList' = Tail(freeList)
  PROVE  /\ b \in Blocks /\ InFree(b)
         /\ freeList' \in Seq(Blocks)
         /\ Len(freeList') = Len(freeList) - 1
         /\ \A i, j \in 1 .. Len(freeList') : freeList'[i] = freeList'[j] => i = j
         /\ \A c \in Blocks : InFree(c)' <=> InFree(c) /\ c # b
<1>1. Len(freeList) \in Nat \ {0} /\ b = freeList[1]
  BY EmptySeq DEF PoolTypeOK
<1>2. /\ freeList' \in Seq(Blocks)
      /\ Len(freeList') = Len(freeList) - 1
      /\ \A i \in 1 .. Len(freeList) - 1 : freeList'[i] = freeList[i + 1]
  BY HeadTailProperties DEF PoolTypeOK
<1>3. b \in Blocks /\ InFree(b)
  BY <1>1 DEF PoolTypeOK, InFree
<1>4. ASSUME NEW i \in 1 .. Len(freeList'), NEW j \in 1 .. Len(freeList'),
             freeList'[i] = freeList'[j]
      PROVE  i = j
  <2>1. i + 1 \in 1 .. Len(freeList) /\ j + 1 \in 1 .. Len(freeList)
    BY <1>1, <1>2
  <2>2. freeList[i + 1] = freeList[j + 1]
    BY <1>1, <1>2, <1>4
  <2>3. i + 1 = j + 1
    BY <2>1, <2>2 DEF FreeUsedAgree
  <2> QED BY <2>3
<1>5. ASSUME NEW c \in Blocks, InFree(c)'
      PROVE  InFree(c) /\ c # b
  <2>1. PICK i \in 1 .. Len(freeList) - 1 : freeList[i + 1] = c
    BY <1>5, <1>2 DEF InFree
  <2>2. i + 1 \in 1 .. Len(freeList) /\ i + 1 # 1
    BY <1>1
  <2>3. 1 \in 1 .. Len(freeList)
    BY <1>1
  <2>4. freeList[i + 1] # freeList[1]
    BY <2>2, <2>3 DEF FreeUsedAgree
  <2> QED BY <2>1, <2>2, <2>4, <1>1 DEF InFree
<1>6. ASSUME NEW c \in Blocks, InFree(c), c # b
      PROVE  InFree(c)'
  <2>1. PICK i \in 1 .. Len(freeList) : freeList[i] = c
    BY <1>6 DEF InFree
  <2>2. i - 1 \in 1 .. Len(freeList) - 1
    BY <2>1, <1>1, <1>6
  <2>3. freeList'[i - 1] = freeList[(i - 1) + 1]
    BY <2>2, <1>2
  <2>4. (i - 1) + 1 = i
    BY <1>1
  <2> QED BY <2>1, <2>2, <2>3, <2>4, <1>2 DEF InFree
<1> QED BY <1>2, <1>3, <1>4, <1>5, <1>6

\* Splicing takes one block and no other off the free list (_lru_remove).
LEMMA FreeSpliced ==
  ASSUME PoolTypeOK, FreeUsedAgree, NEW b \in Blocks, InFree(b), LruRemove(b)
  PROVE  /\ freeList' \in Seq(Blocks)
         /\ Len(freeList') = Len(freeList) - 1
         /\ \A i, j \in 1 .. Len(freeList') : freeList'[i] = freeList'[j] => i = j
         /\ \A c \in Blocks : InFree(c)' <=> InFree(c) /\ c # b
<1> DEFINE k == CHOOSE i \in 1 .. Len(freeList) : freeList[i] = b
<1>1. k \in 1 .. Len(freeList) /\ freeList[k] = b
  BY DEF InFree
<1>2. freeList' = SubSeq(freeList, 1, k - 1) \o SubSeq(freeList, k + 1, Len(freeList))
  BY DEF LruRemove
<1> HIDE DEF k
<1>3. freeList \in Seq(Blocks) /\ Len(freeList) \in Nat
  BY LenProperties DEF PoolTypeOK
<1>4. /\ freeList' \in Seq(Blocks)
      /\ Len(freeList') = Len(freeList) - 1
      /\ \A i \in 1 .. Len(freeList) - 1 :
           freeList'[i] = IF i < k THEN freeList[i] ELSE freeList[i + 1]
  BY <1>1, <1>2, <1>3, SplicedList
<1>5. ASSUME NEW i \in 1 .. Len(freeList) - 1
      PROVE  \E m \in 1 .. Len(freeList) :
               /\ freeList'[i] = freeList[m] /\ m # k
               /\ m = IF i < k THEN i ELSE i + 1
  BY <1>1, <1>3, <1>4
<1>6. ASSUME NEW i \in 1 .. Len(freeList'), NEW j \in 1 .. Len(freeList'),
             freeList'[i] = freeList'[j]
      PROVE  i = j
  <2>1. PICK m \in 1 .. Len(freeList) :
          freeList'[i] = freeList[m] /\ m = IF i < k THEN i ELSE i + 1
    BY <1>4, <1>5
  <2>2. PICK n \in 1 .. Len(freeList) :
          freeList'[j] = freeList[n] /\ n = IF j < k THEN j ELSE j + 1
    BY <1>4, <1>5
  <2>3. m = n
    BY <2>1, <2>2, <1>6 DEF FreeUsedAgree
  <2> QED BY <2>1, <2>2, <2>3, <1>1, <1>3
<1>7. ASSUME NEW c \in Blocks, InFree(c)'
      PROVE  InFree(c) /\ c # b
  <2>1. PICK i \in 1 .. Len(freeList) - 1 : freeList'[i] = c
    BY <1>7, <1>4 DEF InFree
  <2>2. PICK m \in 1 .. Len(freeList) : freeList[m] = c /\ m # k
    BY <2>1, <1>5
  <2> QED BY <2>2, <1>1 DEF InFree, FreeUsedAgree
<1>8. ASSUME NEW c \in Blocks, InFree(c), c # b
      PROVE  InFree(c)'
  <2>1. PICK m \in 1 .. Len(freeList) : freeList[m] = c
    BY <1>8 DEF InFree
  <2>2. m # k
    BY <2>1, <1>1, <1>8
  <2>3. CASE m < k
    <3>1. m \in 1 .. Len(freeList) - 1
      BY <2>3, <1>1, <1>3
    <3> QED BY <2>1, <2>3, <3>1, <1>4 DEF InFree
  <2>4. CASE m > k
    <3>1. m - 1 \in 1 .. Len(freeList) - 1 /\ ~(m - 1 < k) /\ (m - 1) + 1 = m
      BY <2>4, <1>1, <1>3
    <3> QED BY <2>1, <3>1, <1>4 DEF InFree
  <2> QED BY <2>2, <2>3, <2>4, <1>1
<1> QED BY <1>4, <1>6, <1>7, <1>8

\* Pushing adds one block to the free list, which keeps no block twice.
LEMMA FreePushed ==
  ASSUME PoolTypeOK, FreeUsedAgree, NEW b \in Blocks, ~InFree(b),
         freeList' = Append(freeList, b)
  PROVE  /\ freeList' \in Seq(Blocks)
         /\ \A i, j \in 1 .. Len(freeList') : freeList'[i] = freeList'[j] => i = j
         /\ \A c \in Blocks : InFree(c)' <=> InFree(c) \/ c = b
<1> DEFINE n == Len(freeList)
<1>1. freeList \in Seq(Blocks) /\ n \in Nat
  BY LenProperties DEF PoolTypeOK
<1>2. /\ freeList' \in Seq(Blocks)
      /\ Len(freeList') = n + 1
      /\ \A i \in 1 .. n : freeList'[i] = freeList[i]
      /\ freeList'[n + 1] = b
  BY <1>1, AppendProperties
<1>3. \A i \in 1 .. Len(freeList') : i \in 1 .. n \/ i = n + 1
  BY <1>1, <1>2
<1>4. 1 .. n \subseteq 1 .. Len(freeList') /\ n + 1 \in 1 .. Len(freeList')
  BY <1>1, <1>2
<1>5. \A i \in 1 .. n : freeList[i] # b
  BY DEF InFree
<1> HIDE DEF n
<1>6. ASSUME NEW c \in Blocks
      PROVE  InFree(c)' <=> InFree(c) \/ c = b
  BY <1>2, <1>3, <1>4 DEF InFree, n
<1>7. ASSUME NEW i \in 1 .. Len(freeList'), NEW j \in 1 .. Len(freeList'),
             freeList'[i] = freeList'[j]
      PROVE  i = j
  <2>1. CASE i \in 1 .. n /\ j \in 1 .. n
    BY <2>1, <1>2, <1>7 DEF FreeUsedAgree, n
  <2>2. CASE i = n + 1 \/ j = n + 1
    BY <2>2, <1>2, <1>3, <1>5, <1>7
  <2> QED BY <2>1, <2>2, <1>3
<1> QED BY <1>2, <1>6, <1>7

(***************************************************************************)
(* Eviction, cache hits, release.                                          *)
(***************************************************************************)
\* _allocate_block hands out a block that nobody holds and leaves pool and index
\* consistent.
LEMMA EvictedBlock ==
  ASSUME TypeOK, FreeUsedAgree, RefCountExact, IndexSound,
         NEW b, b = Head(freeList), AllocateBlock(b)
  PROVE  /\ b \in Blocks /\ refCount[b] = 0
         /\ \A q \in Requests : ~Holds(q, b)
         /\ PoolTypeOK' /\ CacheTypeOK' /\ FreeUsedAgree' /\ IndexSound'
         /\ refCount' = [refCount EXCEPT ![b] = refCount[b] + 1]
<1>1. freeList # << >> /\ freeList' = Tail(freeList)
  BY DEF AllocateBlock
<1>2. /\ b \in Blocks /\ InFree(b)
      /\ freeList' \in Seq(Blocks)
      /\ \A i, j \in 1 .. Len(freeList') : freeList'[i] = freeList'[j] => i = j
      /\ \A c \in Blocks : InFree(c)' <=> InFree(c) /\ c # b
  <2> PoolTypeOK
    BY DEF TypeOK
  <2> QED BY <1>1, FreePopped
<1>3. refCount[b] = 0
  BY <1>2 DEF FreeUsedAgree
<1>4. \A q \in Requests : ~Holds(q, b)
  BY <1>2, <1>3, UnreferencedIsUnheld
<1>5. refCount' = [refCount EXCEPT ![b] = refCount[b] + 1]
  BY <1>3 DEF AllocateBlock
<1>6. PoolTypeOK'
  BY <1>2 DEF TypeOK, PoolTypeOK, AllocateBlock
<1>7. FreeUsedAgree'
  <2>1. ASSUME NEW c \in Blocks
        PROVE  (InFree(c)' <=> refCount'[c] = 0) /\ (c \in used' <=> refCount'[c] # 0)
    BY <1>2 DEF AllocateBlock, TypeOK, PoolTypeOK, FreeUsedAgree
  <2> QED BY <1>2, <2>1 DEF FreeUsedAgree
<1>8. /\ hashToBlock' = [x \in DOMAIN hashToBlock \ {blockHash[b]} |-> hashToBlock[x]]
      /\ blockHash' = [blockHash EXCEPT ![b] = << >>]
  BY DEF AllocateBlock, IndexWithout, NoHash
<1>9. CacheTypeOK'
  <2>1. << >> \in Seq(Token)
    BY EmptySeq
  <2> QED BY <1>2, <1>8, <2>1 DEF TypeOK, CacheTypeOK
<1>10. IndexSound'
  <2>1. ASSUME NEW h \in DOMAIN hashToBlock'
        PROVE  blockHash'[hashToBlock'[h]] = h
    <3>1. h \in DOMAIN hashToBlock /\ h # blockHash[b] /\ hashToBlock'[h] = hashToBlock[h]
      BY <1>8
    <3>2. blockHash[hashToBlock[h]] = h /\ hashToBlock[h] \in Blocks
      BY <3>1 DEF IndexSound, IndexNotStale, TypeOK, CacheTypeOK
    <3>3. hashToBlock[h] # b
      BY <3>1, <3>2
    <3> QED BY <3>1, <3>2, <3>3, <1>8 DEF TypeOK, CacheTypeOK
  <2>2. NoHash \notin DOMAIN hashToBlock'
    BY <1>8 DEF IndexSound
  <2> QED BY <2>1, <2>2 DEF IndexSound, IndexNotStale
<1> QED BY <1>2, <1>3, <1>4, <1>5, <1>6, <1>7, <1>9, <1>10

\* A cache hit keeps free list, used set and reference counts in step.
LEMMA TouchedBlock ==
  ASSUME TypeOK, FreeUsedAgree, NEW b \in Blocks,
         refCount' = [refCount EXCEPT ![b] = @ + 1],
         IF InFree(b) THEN LruRemove(b) /\ used' = used \cup {b}
                      ELSE UNCHANGED <<freeList, used>>
  PROVE  PoolTypeOK' /\ FreeUsedAgree'
<1>1. PoolTypeOK
  BY DEF TypeOK
<1>2. CASE InFree(b)
  <2>1. /\ freeList' \in Seq(Blocks)
        /\ \A i, j \in 1 .. Len(freeList') : freeList'[i] = freeList'[j] => i = j
        /\ \A c \in Blocks : InFree(c)' <=> InFree(c) /\ c # b
    BY <1>1, <1>2, FreeSpliced
  <2>2. PoolTypeOK'
    BY <1>1, <1>2, <2>1 DEF PoolTypeOK
  <2>3. ASSUME NEW c \in Blocks
        PROVE  (InFree(c)' <=> refCount'[c] = 0) /\ (c \in used' <=> refCount'[c] # 0)
    BY <1>1, <1>2, <2>1 DEF PoolTypeOK, FreeUsedAgree
  <2> QED BY <2>1, <2>2, <2>3 DEF FreeUsedAgree
<1>3. CASE ~InFree(b)
  <2>1. \A c \in Blocks : InFree(c)' <=> InFree(c)
    BY <1>3 DEF InFree
  <2>2. PoolTypeOK'
    BY <1>1, <1>3 DEF PoolTypeOK
  <2>3. ASSUME NEW c \in Blocks
        PROVE  (InFree(c)' <=> refCount'[c] = 0) /\ (c \in used' <=> refCount'[c] # 0)
    BY <1>1, <1>3, <2>1 DEF PoolTypeOK, FreeUsedAgree
  <2> QED BY <1>3, <2>2, <2>3 DEF FreeUsedAgree
<1> QED BY <1>2, <1>3

\* Releasing a reference keeps free list, used set and reference counts in step.
LEMMA ReleasedBlock ==
  ASSUME TypeOK, FreeUsedAgree, NEW b \in Blocks, refCount[b] > 0,
         refCount' = [refCount EXCEPT ![b] = @ - 1],
         IF refCount[b] = 1 THEN used' = used \ {b} /\ freeList' = Append(freeList, b)
                            ELSE UNCHANGED <<freeList, used>>
  PROVE  PoolTypeOK' /\ FreeUsedAgree'
<1>1. PoolTypeOK
  BY DEF TypeOK
<1>2. ~InFree(b)
  BY DEF FreeUsedAgree
<1>3. CASE refCount[b] = 1
  <2>1. /\ freeList' \in Seq(Blocks)
        /\ \A i, j \in 1 .. Len(freeList') : freeList'[i] = freeList'[j] => i = j
        /\ \A c \in Blocks : InFree(c)' <=> InFree(c) \/ c = b
    BY <1>1, <1>2, <1>3, FreePushed
  <2>2. PoolTypeOK'
    BY <1>1, <1>3, <2>1 DEF PoolTypeOK
  <2>3. ASSUME NEW c \in Blocks
        PROVE  (InFree(c)' <=> refCount'[c] = 0) /\ (c \in used' <=> refCount'[c] # 0)
    BY <1>1, <1>3, <2>1 DEF PoolTypeOK, FreeUsedAgree
  <2> QED BY <2>1, <2>2, <2>3 DEF FreeUsedAgree
<1>4. CASE refCount[b] # 1
  <2>1. \A c \in Blocks : InFree(c)' <=> InFree(c)
    BY <1>4 DEF InFree
  <2>2. PoolTypeOK'
    BY <1>1, <1>4 DEF PoolTypeOK
  <2>3. ASSUME NEW c \in Blocks
        PROVE  (InFree(c)' <=> refCount'[c] = 0) /\ (c \in used' <=> refCount'[c] # 0)
    BY <1>1, <1>4, <2>1 DEF PoolTypeOK, FreeUsedAgree
  <2> QED BY <1>4, <2>2, <2>3 DEF FreeUsedAgree
<1> QED BY <1>3, <1>4

(***************************************************************************)
(* hash_blocks.                                                            *)
(***************************************************************************)
\* The chain of i full blocks has i * BlockSize tokens.
LEMMA ChainProperties ==
  ASSUME TypeOK, NEW r \in Requests, NEW i \in Nat, i * BlockSize <= NumTokens(r)
  PROVE  /\ Chain(r, i) \in Seq(Token)
         /\ Len(Chain(r, i)) = i * BlockSize
         /\ i > 0 => Chain(r, i) # NoHash
<1>1. tokenIds[r] \in Seq(Token) /\ Len(tokenIds[r]) \in Nat
  BY LenProperties DEF TypeOK, RequestTypeOK
<1>2. i * BlockSize \in Nat /\ (i > 0 => i * BlockSize > 0)
  BY BlockSizeAssumption
<1>3. \A k \in 1 .. i * BlockSize : tokenIds[r][k] \in Token
  BY <1>1, <1>2 DEF NumTokens
<1>4. /\ SubSeq(tokenIds[r], 1, i * BlockSize) \in Seq(Token)
      /\ Len(SubSeq(tokenIds[r], 1, i * BlockSize)) = i * BlockSize
  BY <1>1, <1>2, <1>3, SubSeqProperties
<1>5. Len(<< >>) = 0
  OBVIOUS
<1>6. Chain(r, i) = SubSeq(tokenIds[r], 1, i * BlockSize)
  BY DEF Chain
<1> HIDE DEF Chain
<1>7. Chain(r, i) \in Seq(Token) /\ Len(Chain(r, i)) = i * BlockSize
  BY <1>4, <1>6
<1> QED BY <1>2, <1>5, <1>7 DEF NoHash

\* What hash_blocks is called with: the blocks to be indexed are in the table.
HashRange(r) ==
  /\ FirstToHash(r) \in Nat \ {0} /\ LastToHash(r) \in Nat
  /\ FirstToHash(r) - 1 <= LastToHash(r)
  /\ FirstToHash(r) - 1 = numCached[r] \div BlockSize
  /\ LastToHash(r) <= Len(blockTable[r])
  /\ LastToHash(r) * BlockSize <= NumTokens(r)

\* A table as long as the tokens need has all the blocks hash_blocks indexes.
LEMMA HashRangeFits ==
  ASSUME TypeOK, NEW r \in Requests,
         numCached[r] + numScheduled[r] <= NumTokens(r), Len(blockTable[r]) = NumBlocks(r)
  PROVE  HashRange(r)
<1> DEFINE c == numCached[r]
           n == numCached[r] + numScheduled[r]
<1>1. c \in Nat /\ n \in Nat /\ c <= n /\ NumTokens(r) \in Nat
  BY LenProperties DEF TypeOK, RequestTypeOK, NumTokens
<1>2. /\ c \div BlockSize \in Nat /\ n \div BlockSize \in Nat
      /\ c \div BlockSize <= n \div BlockSize
      /\ (n \div BlockSize) * BlockSize <= n
  BY <1>1, DivBounds, DivMonotone
<1>3. n \div BlockSize <= BlocksFor(NumTokens(r))
  <2>1. NumTokens(r) + BlockSize - 1 \in Nat /\ n <= NumTokens(r) + BlockSize - 1
    BY <1>1, BlockSizeAssumption
  <2> QED BY <1>1, <2>1, DivMonotone DEF BlocksFor
<1>4. (n \div BlockSize) * BlockSize \in Nat
  BY <1>2, BlockSizeAssumption
<1>5. FirstToHash(r) = c \div BlockSize + 1 /\ LastToHash(r) = n \div BlockSize
  BY DEF FirstToHash, LastToHash
<1> HIDE DEF c
<1> QED BY <1>1, <1>2, <1>3, <1>4, <1>5 DEF HashRange, NumBlocks, c

\* Seeding the hash with that of the block before gives the hash of the whole
\* prefix.
LEMMA ExtendedHashIsChain ==
  ASSUME TypeOK, HeadsHashed, EnablePrefixCaching, NEW r \in Requests, ~CallOf(r), HashRange(r),
         NEW i \in FirstToHash(r) .. LastToHash(r)
  PROVE  ExtendedHash(r, i) = Chain(r, i)
<1> DEFINE f == FirstToHash(r) - 1
           s == tokenIds[r]
<1>1. /\ f \in Nat /\ i \in Nat /\ f < i /\ f <= Len(blockTable[r])
      /\ i <= LastToHash(r) /\ LastToHash(r) \in Nat
  BY DEF HashRange
<1>2. s \in Seq(Token) /\ Len(s) \in Nat /\ Len(blockTable[r]) \in Nat
  BY LenProperties DEF TypeOK, RequestTypeOK
<1>3. /\ f * BlockSize \in Nat /\ i * BlockSize \in Nat
      /\ f * BlockSize <= i * BlockSize /\ i * BlockSize <= Len(s)
  <2>1. f * BlockSize \in Nat /\ i * BlockSize \in Nat /\ LastToHash(r) * BlockSize \in Nat
    BY <1>1, BlockSizeAssumption
  <2>2. f * BlockSize <= i * BlockSize /\ i * BlockSize <= LastToHash(r) * BlockSize
    BY <1>1, MulMonotone
  <2>3. LastToHash(r) * BlockSize <= Len(s)
    BY DEF HashRange, NumTokens
  <2> QED BY <1>2, <2>1, <2>2, <2>3
<1>4. SeedHash(r) = SubSeq(s, 1, f * BlockSize)
  <2>1. CASE f = 0
    <3>1. SubSeq(s, 1, f * BlockSize) = << >>
      BY <2>1, <1>2, BlockSizeAssumption, SubSeqEmpty
    <3>2. FirstToHash(r) = 1
      BY <2>1 DEF HashRange
    <3>3. SeedHash(r) = << >>
      BY <3>2 DEF SeedHash, NoHash
    <3> QED BY <3>1, <3>3
  <2>2. CASE f > 0
    <3>1. f \in 1 .. Len(blockTable[r]) /\ f <= HashedUpTo(r)
      BY <2>2, <1>1, <1>2 DEF HashedUpTo, Allocating, CallOf, HashRange
    <3>2. blockHash[blockTable[r][f]] = Chain(r, f)
      BY <3>1 DEF HeadsHashed, CallOf
    <3>3. FirstToHash(r) # 1
      BY <2>2 DEF HashRange
    <3>4. SeedHash(r) = blockHash[blockTable[r][f]]
      BY <3>3 DEF SeedHash
    <3>5. Chain(r, f) = SubSeq(s, 1, f * BlockSize)
      BY DEF Chain
    <3> QED BY <3>2, <3>4, <3>5
  <2>3. f = 0 \/ f > 0
    BY DEF HashRange
  <2> QED BY <2>1, <2>2, <2>3
<1> HIDE DEF f, s
<1>5. SubSeq(s, 1, f * BlockSize) \o SubSeq(s, f * BlockSize + 1, i * BlockSize)
        = SubSeq(s, 1, i * BlockSize)
  BY <1>2, <1>3, JoinedPrefix
<1> QED BY <1>4, <1>5 DEF ExtendedHash, Chain, f, s

\* hash_blocks gives the blocks it indexes the hash of their prefix, touches no
\* other, and leaves the index pointing where its hashes are.
LEMMA HashedBlocks ==
  ASSUME TypeOK, RefCountExact, IndexSound, TailsFresh, HeadsHashed,
         NEW r \in Requests, ~CallOf(r), HashRange(r), HashBlocks(r)
  PROVE  /\ CacheTypeOK' /\ IndexNotStale' /\ NoHash \notin DOMAIN hashToBlock'
         /\ \A i \in 1 .. Len(blockTable[r]) :
              i \notin FirstToHash(r) .. LastToHash(r)
                => blockHash'[blockTable[r][i]] = blockHash[blockTable[r][i]]
         /\ EnablePrefixCaching => \A i \in FirstToHash(r) .. LastToHash(r) :
              blockHash'[blockTable[r][i]] = Chain(r, i)
         /\ \A q \in Requests : q # r => \A i \in 1 .. Len(blockTable[q]) :
              blockHash'[blockTable[q][i]] = blockHash[blockTable[q][i]]
<1> DEFINE filled == IF EnablePrefixCaching THEN FirstToHash(r) .. LastToHash(r) ELSE {}
           Index(b) == CHOOSE i \in filled : blockTable[r][i] = b
           AtHash(h) == CHOOSE i \in filled : ExtendedHash(r, i) = h
           new == {ExtendedHash(r, i) : i \in filled}
<1>1. /\ blockHash' = [b \in Blocks |->
             IF \E i \in filled : blockTable[r][i] = b
             THEN ExtendedHash(r, Index(b)) ELSE blockHash[b]]
      /\ hashToBlock' = [h \in DOMAIN hashToBlock \cup new |->
             IF h \in new THEN blockTable[r][AtHash(h)] ELSE hashToBlock[h]]
  BY DEF HashBlocks
<1>2. /\ filled \subseteq 1 .. Len(blockTable[r])
      /\ \A i \in filled : i > HashedUpTo(r) /\ i \in Nat /\ i > 0
      /\ \A i \in filled : EnablePrefixCaching /\ i \in FirstToHash(r) .. LastToHash(r)
  BY DEF HashRange, HashedUpTo, Allocating, CallOf
<1>3. \A i \in filled : ExtendedHash(r, i) = Chain(r, i)
  BY <1>2, ExtendedHashIsChain
<1>4. \A i \in filled : Chain(r, i) \in Seq(Token) /\ Chain(r, i) # NoHash
  <2>1. \A i \in filled : i * BlockSize <= NumTokens(r)
    <3>1. ASSUME NEW i \in filled
          PROVE  i * BlockSize <= NumTokens(r)
      <4>1. i \in Nat /\ LastToHash(r) \in Nat /\ i <= LastToHash(r)
        BY <1>2 DEF HashRange
      <4>2. i * BlockSize <= LastToHash(r) * BlockSize
        BY <4>1, MulMonotone
      <4>3. i * BlockSize \in Nat /\ LastToHash(r) * BlockSize \in Nat /\ NumTokens(r) \in Nat
        BY <4>1, BlockSizeAssumption, LenProperties DEF TypeOK, RequestTypeOK, NumTokens
      <4> QED BY <4>2, <4>3 DEF HashRange
    <3> QED BY <3>1
  <2> QED BY <1>2, <2>1, ChainProperties
<1>5. \A i \in 1 .. Len(blockTable[r]) : blockTable[r][i] \in Blocks
  BY DEF TypeOK, RequestTypeOK
<1>6. \A i \in filled : Index(blockTable[r][i]) = i
  BY <1>2 DEF RefCountExact
<1>7. \A i \in filled : blockHash'[blockTable[r][i]] = Chain(r, i)
  BY <1>1, <1>2, <1>3, <1>5, <1>6
<1>8. ASSUME NEW b \in Blocks, ~ \E i \in filled : blockTable[r][i] = b
      PROVE  blockHash'[b] = blockHash[b]
  BY <1>1, <1>8
<1> HIDE DEF filled
<1>9. \A h \in new : AtHash(h) \in filled /\ Chain(r, AtHash(h)) = h
  BY <1>3
<1>10. \A h \in new : h \in Seq(Token) /\ h # NoHash
  BY <1>3, <1>4
<1>11. CacheTypeOK'
  <2>1. ASSUME NEW b \in Blocks
        PROVE  blockHash'[b] \in Seq(Token)
    <3>1. CASE \E i \in filled : blockTable[r][i] = b
      BY <3>1, <1>4, <1>7
    <3>2. CASE ~ \E i \in filled : blockTable[r][i] = b
      BY <3>2, <1>8 DEF TypeOK, CacheTypeOK
    <3> QED BY <3>1, <3>2
  <2>2. blockHash' \in [Blocks -> Seq(Token)]
    BY <1>1, <2>1
  <2>3. DOMAIN hashToBlock' \subseteq Seq(Token)
    BY <1>1, <1>10 DEF TypeOK, CacheTypeOK
  <2>4. ASSUME NEW h \in DOMAIN hashToBlock'
        PROVE  hashToBlock'[h] \in Blocks
    BY <1>1, <1>2, <1>5, <1>9 DEF TypeOK, CacheTypeOK
  <2>5. hashToBlock' \in [DOMAIN hashToBlock' -> Blocks]
    BY <1>1, <2>4
  <2> QED BY <2>2, <2>3, <2>5 DEF CacheTypeOK
<1>12. ASSUME NEW h \in DOMAIN hashToBlock'
       PROVE  blockHash'[hashToBlock'[h]] = h
  <2>1. CASE h \in new
    <3>1. hashToBlock'[h] = blockTable[r][AtHash(h)]
      BY <2>1, <1>1
    <3> QED BY <2>1, <3>1, <1>7, <1>9
  <2>2. CASE h \notin new
    <3>1. h \in DOMAIN hashToBlock /\ hashToBlock'[h] = hashToBlock[h]
      BY <2>2, <1>1
    <3>2. hashToBlock[h] \in Blocks /\ blockHash[hashToBlock[h]] = h /\ h # NoHash
      BY <3>1 DEF TypeOK, CacheTypeOK, IndexSound, IndexNotStale
    <3>3. ~ \E i \in filled : blockTable[r][i] = hashToBlock[h]
      BY <3>2, <1>2 DEF TailsFresh
    <3> QED BY <3>1, <3>2, <3>3, <1>8
  <2> QED BY <2>1, <2>2
<1>13. NoHash \notin DOMAIN hashToBlock'
  BY <1>1, <1>10 DEF IndexSound
<1>14. ASSUME NEW i \in 1 .. Len(blockTable[r]), i \notin FirstToHash(r) .. LastToHash(r)
       PROVE  blockHash'[blockTable[r][i]] = blockHash[blockTable[r][i]]
  <2>1. i \notin filled
    BY <1>2, <1>14
  <2>2. ~ \E j \in filled : blockTable[r][j] = blockTable[r][i]
    BY <2>1, <1>2 DEF RefCountExact
  <2> QED BY <2>2, <1>5, <1>8
<1>15. ASSUME NEW q \in Requests, q # r, NEW i \in 1 .. Len(blockTable[q])
       PROVE  blockHash'[blockTable[q][i]] = blockHash[blockTable[q][i]]
  <2>1. Holds(q, blockTable[q][i]) /\ blockTable[q][i] \in Blocks
    BY DEF Holds, TypeOK, RequestTypeOK
  <2>2. ~ \E j \in filled : blockTable[r][j] = blockTable[q][i]
    BY <2>1, <1>2, <1>15 DEF TailsFresh
  <2> QED BY <2>1, <2>2, <1>8
<1>16. EnablePrefixCaching => filled = FirstToHash(r) .. LastToHash(r)
  BY DEF filled
<1> QED BY <1>7, <1>11, <1>12, <1>13, <1>14, <1>15, <1>16 DEF IndexNotStale

(***************************************************************************)
(* The clients: one lemma per action, then the theorems.                   *)
(***************************************************************************)
\* Operators on tokens do not change while the tokens do not.
LEMMA SameTokens ==
  ASSUME NEW r, UNCHANGED tokenIds
  PROVE  /\ NumTokens(r)' = NumTokens(r)
         /\ NumBlocks(r)' = NumBlocks(r)
         /\ \A i : Chain(r, i)' = Chain(r, i)
BY DEF NumTokens, NumBlocks, BlocksFor, Chain

\* What an allocate knows of its request.
LEMMA AllocateFacts ==
  ASSUME IInv, call.op = "allocate"
  PROVE  /\ call.seq \in Requests /\ call.hits \in Nat /\ call.target \in Nat /\ call.cached \in Nat
         /\ Len(blockTable[call.seq]) \in Nat /\ NumTokens(call.seq) \in Nat
         /\ HashedUpTo(call.seq) = call.hits
         /\ call.hits * BlockSize < NumTokens(call.seq)
         /\ \A i \in 1 .. call.hits :
              /\ Len(Chain(call.seq, i)) = i * BlockSize
              /\ Chain(call.seq, i) # NoHash
<1> DEFINE r == call.seq
<1>1. /\ r \in Requests /\ call.hits \in Nat /\ call.target \in Nat /\ call.cached \in Nat
      /\ HashedUpTo(r) = call.hits
  BY DEF IInv, TypeOK, CallTypeOK, NoCall, HashedUpTo, Allocating
<1>2. Len(blockTable[r]) \in Nat /\ NumTokens(r) \in Nat
  BY <1>1, LenProperties DEF IInv, TypeOK, RequestTypeOK, NumTokens
<1>3. call.hits * BlockSize < NumTokens(r)
  <2>1. call.hits < BlocksFor(NumTokens(r)) /\ NumTokens(r) > 0
    BY <1>1 DEF IInv, CallOk, TablesFit, NumBlocks
  <2> QED BY <1>1, <1>2, <2>1, LastBlockStarts
<1>4. ASSUME NEW i \in 1 .. call.hits
      PROVE  Len(Chain(r, i)) = i * BlockSize /\ Chain(r, i) # NoHash
  <2>1. i \in Nat /\ i > 0 /\ i <= call.hits
    BY <1>1
  <2>2. i * BlockSize <= call.hits * BlockSize
    BY <1>1, <2>1, MulMonotone
  <2>3. i * BlockSize \in Nat /\ call.hits * BlockSize \in Nat
    BY <1>1, <2>1, BlockSizeAssumption
  <2>4. i * BlockSize <= NumTokens(r)
    BY <1>2, <1>3, <2>2, <2>3
  <2> QED BY <1>1, <2>1, <2>4, ChainProperties DEF IInv
<1> QED BY <1>1, <1>2, <1>3, <1>4

\* Taking a cached block preserves the invariant: the block is not yet in the
\* table, for its hash is of a longer chain than those of the blocks there.
LEMMA TakeCachedStep ==
  ASSUME IInv, TakeCached, UNCHANGED <<tokenIds, numScheduled, status>>
  PROVE  IInv'
<1> DEFINE r == call.seq
           i == Len(blockTable[r]) + 1
           b == hashToBlock[Chain(r, i)]
<1> USE DEF IInv
<1>1. call.op = "allocate"
  BY DEF TakeCached
<1>2. /\ r \in Requests /\ call.hits \in Nat /\ HashedUpTo(r) = call.hits
      /\ i \in 1 .. call.hits /\ i \in Nat
      /\ Len(blockTable[r]) \in Nat /\ i = Len(blockTable[r]) + 1
  BY <1>1, AllocateFacts DEF TakeCached, NextIndex
<1>3. /\ refCount' = [refCount EXCEPT ![b] = refCount[b] + 1]
      /\ blockTable' = [blockTable EXCEPT ![r] = Append(@, b)]
      /\ IF InFree(b) THEN LruRemove(b) /\ used' = used \cup {b}
                      ELSE UNCHANGED <<freeList, used>>
      /\ UNCHANGED <<blockHash, hashToBlock, reqToBlockIds, call, numCached>>
  BY DEF TakeCached, NextIndex, cacheVars
<1>4. EnablePrefixCaching
  BY <1>1, <1>2 DEF CallOk
<1>5. /\ Chain(r, i) # NoHash /\ Chain(r, i) \in DOMAIN hashToBlock
      /\ b \in Blocks /\ blockHash[b] = Chain(r, i)
  <2>1. Chain(r, i) # NoHash
    BY <1>1, <1>2, AllocateFacts
  <2>2. Chain(r, i) \in DOMAIN hashToBlock
    BY <1>1, <1>2 DEF CallOk
  <2> QED BY <2>1, <2>2 DEF IndexSound, IndexNotStale, TypeOK, CacheTypeOK
<1>6. ~Holds(r, b)
  <2> SUFFICES ASSUME NEW j \in 1 .. Len(blockTable[r]), blockTable[r][j] = b
               PROVE  FALSE
    BY DEF Holds
  <2>1. j \in 1 .. call.hits /\ j # i /\ j \in Nat
    BY <1>2
  <2>2. blockHash[b] = Chain(r, j)
    BY <1>1, <1>2, <1>4, <2>1 DEF HeadsHashed
  <2>3. j * BlockSize = i * BlockSize
    BY <1>1, <1>2, <1>5, <2>1, <2>2, AllocateFacts
  <2>4. (j * BlockSize) \div BlockSize = j /\ (i * BlockSize) \div BlockSize = i
    BY <1>2, <2>1, DivOfMultiple
  <2> QED BY <2>1, <2>3, <2>4
<1> HIDE DEF r, i, b
<1>7. /\ \A q \in Requests : q # r => blockTable'[q] = blockTable[q]
      /\ blockTable'[r] \in Seq(Blocks)
      /\ Len(blockTable'[r]) = i
      /\ \A k \in 1 .. Len(blockTable[r]) : blockTable'[r][k] = blockTable[r][k]
      /\ blockTable'[r][i] = b
  <2>1. /\ \A q \in Requests : q # r => blockTable'[q] = blockTable[q]
        /\ blockTable'[r] \in Seq(Blocks)
        /\ Len(blockTable'[r]) = Len(blockTable[r]) + 1
        /\ \A k \in 1 .. Len(blockTable[r]) : blockTable'[r][k] = blockTable[r][k]
        /\ blockTable'[r][Len(blockTable[r]) + 1] = b
    BY <1>2, <1>3, <1>5, AddedBlock
  <2> QED BY <2>1 DEF i
<1>7a. \A q \in Requests, c \in Blocks : Holds(q, c)' <=> Holds(q, c) \/ (q = r /\ c = b)
  BY <1>2, <1>3, <1>5, AddedBlock
<1>8. RefCountExact'
  BY <1>2, <1>3, <1>5, <1>6, AddedHolder
<1>9. PoolTypeOK' /\ FreeUsedAgree'
  BY <1>3, <1>5, TouchedBlock
<1>10. TypeOK'
  BY <1>3, <1>7, <1>9 DEF TypeOK, RequestTypeOK, CacheTypeOK, CallTypeOK
<1>11. CallOk'
  <2>1. /\ call' = call /\ call.seq = r /\ status' = status
        /\ numCached' = numCached /\ numScheduled' = numScheduled /\ hashToBlock' = hashToBlock
    BY <1>3 DEF r
  <2>2. i <= call.target
    BY <1>1, <1>2, AllocateFacts DEF CallOk
  <2>3. /\ NumBlocks(call.seq)' = NumBlocks(r)
        /\ \A k : Chain(call.seq, k)' = Chain(r, k)
    BY <2>1 DEF NumBlocks, NumTokens, BlocksFor, Chain
  <2>4. \A k \in 1 .. call.hits : k > i => Chain(r, k) \in DOMAIN hashToBlock
    BY <1>1, <1>2, <2>1 DEF CallOk
  <2> QED BY <1>1, <1>7, <2>1, <2>2, <2>3, <2>4 DEF CallOk
<1>12. TablesFit'
  <2>1. ASSUME NEW q \in Requests
        PROVE  NumTokens(q)' > 0 /\ (~CallOf(q)' => TableFits(q)')
    <3>1. CASE q = r
      BY <3>1, <1>1, <1>3, SameTokens DEF TablesFit, CallOf, r
    <3>2. CASE q # r
      BY <3>2, <1>3, <1>7, SameTokens DEF TablesFit, TableFits, CallOf
    <3> QED BY <3>1, <3>2
  <2> QED BY <2>1 DEF TablesFit
<1>13. IndexSound'
  BY <1>3 DEF IndexSound, IndexNotStale
<1>14. \A q \in Requests : HashedUpTo(q)' = HashedUpTo(q)
  BY <1>3 DEF HashedUpTo, Allocating
<1>15. TailsFresh'
  <2> SUFFICES ASSUME NEW q \in Requests, NEW k \in 1 .. Len(blockTable'[q]), k > HashedUpTo(q),
                      NEW c, c = blockTable'[q][k]
               PROVE  /\ blockHash'[c] = NoHash
                      /\ \A p \in Requests : Holds(p, c)' => p = q
    BY <1>14 DEF TailsFresh, Holds
  <2>1. k \in 1 .. Len(blockTable[q]) /\ c = blockTable[q][k]
    <3>1. CASE q # r
      BY <3>1, <1>7
    <3>2. CASE q = r
      BY <3>2, <1>2, <1>7
    <3> QED BY <3>1, <3>2
  <2>2. c \in Blocks /\ blockHash[c] = NoHash /\ \A p \in Requests : Holds(p, c) => p = q
    BY <2>1 DEF TailsFresh, TypeOK, RequestTypeOK
  <2>3. c # b
    BY <2>2, <1>5
  <2> QED BY <2>2, <2>3, <1>3, <1>7a
<1>16. HeadsHashed'
  <2> SUFFICES ASSUME NEW q \in Requests, NEW k \in 1 .. Len(blockTable'[q]),
                      k <= HashedUpTo(q)', ~(call'.op = "deallocate" /\ call'.seq = q)
               PROVE  blockHash'[blockTable'[q][k]] = Chain(q, k)'
    BY DEF HeadsHashed
  <2>0. k <= HashedUpTo(q) /\ call' = call /\ blockHash' = blockHash /\ Chain(q, k)' = Chain(q, k)
    BY <1>3, <1>14, SameTokens
  <2>1. CASE q # r
    BY <2>0, <2>1, <1>4, <1>7 DEF HeadsHashed
  <2>2. CASE q = r /\ k = i
    BY <2>0, <2>2, <1>5, <1>7
  <2>3. CASE q = r /\ k # i
    <3>1. k \in 1 .. Len(blockTable[r])
      BY <2>3, <1>2, <1>7
    <3> QED BY <2>0, <2>3, <3>1, <1>4, <1>7 DEF HeadsHashed
  <2> QED BY <2>1, <2>2, <2>3
<1>17. MirrorOk'
  BY <1>1, <1>3, <1>7 DEF MirrorOk, CallOf, r
<1> QED BY <1>8, <1>9, <1>10, <1>11, <1>12, <1>13, <1>15, <1>16, <1>17

\* Appending an evicted block preserves what the invariant says of pool, index
\* and tables.
LEMMA FreshBlockAppended ==
  ASSUME IInv, NEW r \in Requests, NEW b, b = Head(freeList), AllocateBlock(b),
         blockTable' = [blockTable EXCEPT ![r] = Append(@, b)],
         UNCHANGED <<tokenIds, numCached, call>>,
         Len(blockTable[r]) + 1 > HashedUpTo(r)
  PROVE  /\ PoolTypeOK' /\ CacheTypeOK' /\ blockTable' \in [Requests -> Seq(Blocks)]
         /\ FreeUsedAgree' /\ RefCountExact' /\ IndexSound' /\ TailsFresh' /\ HeadsHashed'
         /\ \A q \in Requests : q # r => blockTable'[q] = blockTable[q]
         /\ Len(blockTable'[r]) = Len(blockTable[r]) + 1
<1> TypeOK /\ FreeUsedAgree /\ RefCountExact /\ IndexSound /\ TailsFresh /\ HeadsHashed
  BY DEF IInv
<1>1. /\ b \in Blocks /\ refCount[b] = 0
      /\ \A q \in Requests : ~Holds(q, b)
      /\ PoolTypeOK' /\ CacheTypeOK' /\ FreeUsedAgree' /\ IndexSound'
      /\ refCount' = [refCount EXCEPT ![b] = refCount[b] + 1]
  BY EvictedBlock
<1>2. blockHash' = [blockHash EXCEPT ![b] = NoHash]
  BY DEF AllocateBlock
<1>3. /\ \A q \in Requests : q # r => blockTable'[q] = blockTable[q]
      /\ blockTable'[r] \in Seq(Blocks)
      /\ Len(blockTable'[r]) = Len(blockTable[r]) + 1
      /\ \A k \in 1 .. Len(blockTable[r]) : blockTable'[r][k] = blockTable[r][k]
      /\ blockTable'[r][Len(blockTable[r]) + 1] = b
  BY <1>1, AddedBlock
<1>4. \A q \in Requests, c \in Blocks : Holds(q, c)' <=> Holds(q, c) \/ (q = r /\ c = b)
  BY <1>1, AddedBlock
<1>5. RefCountExact'
  BY <1>1, AddedHolder
<1>6. blockTable' \in [Requests -> Seq(Blocks)]
  BY <1>3 DEF TypeOK, RequestTypeOK
<1>7. \A q \in Requests : HashedUpTo(q)' = HashedUpTo(q)
  BY DEF HashedUpTo, Allocating
<1>8. \A q \in Requests : \A k \in 1 .. Len(blockTable'[q]) :
        \/ k \in 1 .. Len(blockTable[q]) /\ blockTable'[q][k] = blockTable[q][k]
        \/ q = r /\ k = Len(blockTable[r]) + 1 /\ blockTable'[q][k] = b
  <2> SUFFICES ASSUME NEW q \in Requests, NEW k \in 1 .. Len(blockTable'[q])
               PROVE  \/ k \in 1 .. Len(blockTable[q]) /\ blockTable'[q][k] = blockTable[q][k]
                      \/ q = r /\ k = Len(blockTable[r]) + 1 /\ blockTable'[q][k] = b
    OBVIOUS
  <2>1. CASE q # r
    BY <2>1, <1>3
  <2>2. CASE q = r
    <3>1. Len(blockTable[r]) \in Nat
      BY LenProperties DEF TypeOK, RequestTypeOK
    <3>2. k \in 1 .. Len(blockTable[r]) \/ k = Len(blockTable[r]) + 1
      BY <2>2, <3>1, <1>3
    <3> QED BY <2>2, <3>2, <1>3
  <2> QED BY <2>1, <2>2
<1>9. \A q \in Requests : \A k \in 1 .. Len(blockTable[q]) :
        /\ blockTable[q][k] \in Blocks /\ blockTable[q][k] # b
        /\ blockHash'[blockTable[q][k]] = blockHash[blockTable[q][k]]
  BY <1>1, <1>2 DEF Holds, TypeOK, RequestTypeOK, CacheTypeOK
<1>10. TailsFresh'
  <2> SUFFICES ASSUME NEW q \in Requests, NEW k \in 1 .. Len(blockTable'[q]), k > HashedUpTo(q)',
                      NEW c, c = blockTable'[q][k]
               PROVE  /\ blockHash'[c] = NoHash
                      /\ \A p \in Requests : Holds(p, c)' => p = q
    BY DEF TailsFresh, Holds
  <2>1. CASE q = r /\ c = b
    BY <2>1, <1>1, <1>2, <1>4 DEF TypeOK, CacheTypeOK
  <2>2. CASE k \in 1 .. Len(blockTable[q]) /\ c = blockTable[q][k]
    <3>1. blockHash[c] = NoHash /\ \A p \in Requests : Holds(p, c) => p = q
      BY <2>2, <1>7 DEF TailsFresh
    <3> QED BY <2>2, <3>1, <1>4, <1>9
  <2> QED BY <2>1, <2>2, <1>8
<1>11. HeadsHashed'
  <2> SUFFICES ASSUME EnablePrefixCaching,
                      NEW q \in Requests, NEW k \in 1 .. Len(blockTable'[q]),
                      k <= HashedUpTo(q)', ~(call'.op = "deallocate" /\ call'.seq = q)
               PROVE  blockHash'[blockTable'[q][k]] = Chain(q, k)'
    BY DEF HeadsHashed
  <2>1. Chain(q, k)' = Chain(q, k) /\ k <= HashedUpTo(q)
    BY <1>7, SameTokens
  <2>2. ~(q = r /\ k = Len(blockTable[r]) + 1)
    <3>1. Len(blockTable[r]) \in Nat
      BY LenProperties DEF TypeOK, RequestTypeOK
    <3>2. HashedUpTo(r) \in Int
      BY BlockSizeAssumption
         DEF TypeOK, RequestTypeOK, CallTypeOK, HashedUpTo, Allocating, NoCall
    <3> QED BY <2>1, <3>1, <3>2
  <2>3. k \in 1 .. Len(blockTable[q]) /\ blockTable'[q][k] = blockTable[q][k]
    BY <2>2, <1>8
  <2> QED BY <2>1, <2>3, <1>9 DEF HeadsHashed
<1> QED BY <1>1, <1>3, <1>5, <1>6, <1>10, <1>11

\* Taking an evicted block in allocate preserves the invariant.
LEMMA TakeFreshStep ==
  ASSUME IInv, TakeFresh, UNCHANGED <<tokenIds, numScheduled, status>>
  PROVE  IInv'
<1>1. call.op = "allocate"
  BY DEF TakeFresh
<1>2. PICK r \in Requests : r = call.seq
  BY <1>1, AllocateFacts
<1>3. /\ Len(blockTable[r]) + 1 > HashedUpTo(r)
      /\ Len(blockTable[r]) + 1 <= call.target
      /\ AllocateBlock(Head(freeList))
      /\ blockTable' = [blockTable EXCEPT ![r] = Append(@, Head(freeList))]
      /\ UNCHANGED <<tokenIds, numScheduled, status, reqToBlockIds, call, numCached>>
  BY <1>1, <1>2, AllocateFacts DEF TakeFresh, NextIndex
<1>4. /\ PoolTypeOK' /\ CacheTypeOK' /\ blockTable' \in [Requests -> Seq(Blocks)]
      /\ FreeUsedAgree' /\ RefCountExact' /\ IndexSound' /\ TailsFresh' /\ HeadsHashed'
      /\ \A q \in Requests : q # r => blockTable'[q] = blockTable[q]
      /\ Len(blockTable'[r]) = Len(blockTable[r]) + 1
  BY <1>3, FreshBlockAppended
<1>5. TypeOK'
  BY <1>3, <1>4 DEF IInv, TypeOK, RequestTypeOK, CallTypeOK
<1>6. CallOk'
  <2>1. call'.seq = r /\ NumBlocks(r)' = NumBlocks(r) /\ \A k : Chain(r, k)' = Chain(r, k)
    BY <1>2, <1>3, SameTokens
  <2>2. NumBlocks(call.seq)' = NumBlocks(r)
    BY <1>2, <1>3 DEF NumBlocks, NumTokens, BlocksFor
  <2>3. \A k \in 1 .. call.hits : ~(k > Len(blockTable'[r]))
    BY <1>1, <1>2, <1>3, <1>4, AllocateFacts
  <2> QED BY <1>1, <1>2, <1>3, <1>4, <2>1, <2>2, <2>3 DEF IInv, CallOk
<1>7. TablesFit'
  <2>1. ASSUME NEW q \in Requests
        PROVE  NumTokens(q)' > 0 /\ (~CallOf(q)' => TableFits(q)')
    <3>1. CASE q = r
      BY <3>1, <1>1, <1>2, <1>3, SameTokens DEF IInv, TablesFit, CallOf
    <3>2. CASE q # r
      BY <3>2, <1>3, <1>4, SameTokens DEF IInv, TablesFit, TableFits, CallOf
    <3> QED BY <3>1, <3>2
  <2> QED BY <2>1 DEF TablesFit
<1>8. MirrorOk'
  BY <1>1, <1>2, <1>3, <1>4 DEF IInv, MirrorOk, CallOf
<1> QED BY <1>4, <1>5, <1>6, <1>7, <1>8 DEF IInv

\* The request whose blocks are being released.
Deallocating(r) == call.op = "deallocate" /\ call.seq = r

\* Releasing one block in deallocate preserves the invariant.
LEMMA ReleaseBlockStep ==
  ASSUME IInv, ReleaseBlock, UNCHANGED <<tokenIds, numScheduled, status>>
  PROVE  IInv'
<1>1. call.op = "deallocate"
  BY DEF ReleaseBlock
<1>2. PICK r \in Requests : r = call.seq
  BY <1>1 DEF IInv, TypeOK, CallTypeOK, NoCall
<1>3. /\ blockTable[r] # << >>
      /\ blockTable[r] \in Seq(Blocks)
      /\ UNCHANGED <<blockHash, hashToBlock, reqToBlockIds, call, numCached>>
  BY <1>2 DEF ReleaseBlock, cacheVars, IInv, TypeOK, RequestTypeOK
<1>3a. PICK n \in Nat : n = Len(blockTable[r])
  BY <1>3, LenProperties
<1>3b. PICK b \in Blocks : b = blockTable[r][n]
  BY <1>3, <1>3a, EmptySeq
<1>4. /\ refCount' = [refCount EXCEPT ![b] = refCount[b] - 1]
      /\ blockTable' = [blockTable EXCEPT ![r] = SubSeq(@, 1, n - 1)]
      /\ IF refCount[b] = 1
         THEN used' = used \ {b} /\ freeList' = Append(freeList, b)
         ELSE UNCHANGED <<freeList, used>>
  BY <1>2, <1>3a, <1>3b DEF ReleaseBlock
<1>5. /\ Holds(r, b)
      /\ \A q \in Requests : q # r => blockTable'[q] = blockTable[q]
      /\ blockTable'[r] \in Seq(Blocks)
      /\ Len(blockTable'[r]) = n - 1
      /\ \A i \in 1 .. n - 1 : blockTable'[r][i] = blockTable[r][i]
  BY <1>3, <1>3a, <1>3b, <1>4, DroppedBlock DEF IInv
<1>6. /\ n \in Nat \ {0} /\ b \in Blocks /\ Holds(r, b)
      /\ \A q \in Requests, c \in Blocks : Holds(q, c)' <=> Holds(q, c) /\ ~(q = r /\ c = b)
  <2>1. TypeOK /\ RefCountExact
    BY DEF IInv
  <2>2. blockTable' = [blockTable EXCEPT ![r] = SubSeq(@, 1, n - 1)]
    BY <1>4
  <2> QED BY <2>1, <2>2, <1>3, <1>3a, <1>3b, DroppedBlock
<1>7. RefCountExact'
  BY <1>3, <1>3a, <1>3b, <1>4, DroppedHolder DEF IInv
<1>8. PoolTypeOK' /\ FreeUsedAgree'
  <2>1. refCount[b] > 0
    BY <1>5, HeldIsReferenced DEF IInv
  <2> QED BY <1>4, <2>1, ReleasedBlock DEF IInv
<1>9. TypeOK'
  BY <1>3, <1>4, <1>5, <1>8 DEF IInv, TypeOK, RequestTypeOK, CacheTypeOK, CallTypeOK
<1>10. CallOk'
  BY <1>1, <1>3 DEF IInv, CallOk
<1>11. TablesFit'
  <2>1. ASSUME NEW q \in Requests
        PROVE  NumTokens(q)' > 0 /\ (~CallOf(q)' => TableFits(q)')
    <3>1. CASE q = r
      BY <3>1, <1>1, <1>2, <1>3, SameTokens DEF IInv, TablesFit, CallOf
    <3>2. CASE q # r
      BY <3>2, <1>3, <1>5, SameTokens DEF IInv, TablesFit, TableFits, CallOf
    <3> QED BY <3>1, <3>2
  <2> QED BY <2>1 DEF TablesFit
<1>12. IndexSound'
  BY <1>3 DEF IInv, IndexSound, IndexNotStale
<1>13. \A q \in Requests : \A k \in 1 .. Len(blockTable'[q]) :
         k \in 1 .. Len(blockTable[q]) /\ blockTable'[q][k] = blockTable[q][k]
  <2> SUFFICES ASSUME NEW q \in Requests, NEW k \in 1 .. Len(blockTable'[q])
               PROVE  k \in 1 .. Len(blockTable[q]) /\ blockTable'[q][k] = blockTable[q][k]
    OBVIOUS
  <2>1. CASE q # r
    BY <2>1, <1>5
  <2>2. CASE q = r
    <3>1. k \in 1 .. n - 1 /\ k \in 1 .. n
      BY <2>2, <1>5
    <3> QED BY <2>2, <3>1, <1>3a, <1>5
  <2> QED BY <2>1, <2>2
<1>14. \A q \in Requests : HashedUpTo(q)' = HashedUpTo(q)
  BY <1>3 DEF HashedUpTo, Allocating
<1>15. TailsFresh'
  <2> SUFFICES ASSUME NEW q \in Requests, NEW k \in 1 .. Len(blockTable'[q]), k > HashedUpTo(q)',
                      NEW c, c = blockTable'[q][k]
               PROVE  /\ blockHash'[c] = NoHash
                      /\ \A p \in Requests : Holds(p, c)' => p = q
    BY DEF TailsFresh, Holds
  <2>1. c = blockTable[q][k] /\ k \in 1 .. Len(blockTable[q]) /\ c \in Blocks
    BY <1>13 DEF IInv, TypeOK, RequestTypeOK
  <2>2. blockHash[c] = NoHash /\ \A p \in Requests : Holds(p, c) => p = q
    BY <2>1, <1>14 DEF IInv, TailsFresh
  <2> QED BY <2>1, <2>2, <1>3, <1>6
<1>16. HeadsHashed'
  <2> SUFFICES ASSUME EnablePrefixCaching,
                      NEW q \in Requests, NEW k \in 1 .. Len(blockTable'[q]),
                      k <= HashedUpTo(q)', ~(call'.op = "deallocate" /\ call'.seq = q)
               PROVE  blockHash'[blockTable'[q][k]] = Chain(q, k)'
    BY DEF HeadsHashed
  <2>1. Chain(q, k)' = Chain(q, k) /\ k <= HashedUpTo(q)
    BY <1>14, SameTokens
  <2> QED BY <2>1, <1>3, <1>13 DEF IInv, HeadsHashed
<1>17. MirrorOk'
  BY <1>1, <1>2, <1>3, <1>5 DEF IInv, MirrorOk, CallOf
<1> QED BY <1>7, <1>8, <1>9, <1>10, <1>11, <1>12, <1>15, <1>16, <1>17 DEF IInv

\* A step that changes no table, pool or index preserves what the invariant says
\* of them, if it changes what counts as hashed only for empty tables.
LEMMA PoolUntouched ==
  ASSUME IInv, UNCHANGED <<tokenIds, blockTable, poolVars, cacheVars>>,
         \A q \in Requests :
           blockTable[q] # << >> =>
             HashedUpTo(q)' = HashedUpTo(q) /\ (Deallocating(q) => Deallocating(q)')
  PROVE  /\ PoolTypeOK' /\ CacheTypeOK'
         /\ FreeUsedAgree' /\ RefCountExact' /\ IndexSound' /\ TailsFresh' /\ HeadsHashed'
<1>1. UNCHANGED <<freeList, used, refCount, blockHash, hashToBlock>>
  BY DEF poolVars, cacheVars
<1>2. PoolTypeOK' /\ CacheTypeOK'
  BY <1>1 DEF IInv, TypeOK, PoolTypeOK, CacheTypeOK
<1>3. FreeUsedAgree'
  BY <1>1 DEF IInv, FreeUsedAgree, InFree
<1>4. RefCountExact'
  BY <1>1 DEF IInv, RefCountExact, Holders, Holds
<1>5. IndexSound'
  BY <1>1 DEF IInv, IndexSound, IndexNotStale
<1>6. \A q \in Requests : \A k \in 1 .. Len(blockTable[q]) : blockTable[q] # << >>
  BY EmptySeq DEF IInv, TypeOK, RequestTypeOK
<1>7. TailsFresh'
  <2> SUFFICES ASSUME NEW q \in Requests, NEW k \in 1 .. Len(blockTable[q]), k > HashedUpTo(q)'
               PROVE  /\ blockHash[blockTable[q][k]] = NoHash
                      /\ \A p \in Requests : Holds(p, blockTable[q][k]) => p = q
    BY <1>1 DEF TailsFresh, Holds
  <2> QED BY <1>6 DEF IInv, TailsFresh
<1>8. HeadsHashed'
  <2> SUFFICES ASSUME EnablePrefixCaching,
                      NEW q \in Requests, NEW k \in 1 .. Len(blockTable[q]),
                      k <= HashedUpTo(q)', ~Deallocating(q)'
               PROVE  blockHash[blockTable[q][k]] = Chain(q, k)
    BY <1>1, SameTokens DEF HeadsHashed, Deallocating
  <2> QED BY <1>6 DEF IInv, HeadsHashed, Deallocating
<1> QED BY <1>2, <1>3, <1>4, <1>5, <1>7, <1>8

\* The end of allocate preserves the invariant.
LEMMA AllocateReturnStep ==
  ASSUME IInv, AllocateReturn, UNCHANGED <<tokenIds, numScheduled, status>>
  PROVE  IInv'
<1>1. call.op = "allocate"
  BY DEF AllocateReturn
<1>2. PICK r \in Requests : r = call.seq
  BY <1>1, AllocateFacts
<1>3. /\ Len(blockTable[r]) = call.target
      /\ numCached' = [numCached EXCEPT ![r] = call.cached]
      /\ reqToBlockIds' = [reqToBlockIds EXCEPT ![r] = blockTable[r]]
      /\ call' = NoCall
      /\ UNCHANGED <<poolVars, cacheVars, blockTable>>
  BY <1>2 DEF AllocateReturn
<1>4. /\ call.hits \in Nat /\ call.cached = call.hits * BlockSize /\ call.cached \in Nat
      /\ call.cached < NumTokens(r) /\ call.target = NumBlocks(r)
      /\ status[r] = "waiting" /\ numScheduled[r] = 0
  BY <1>1, <1>2, AllocateFacts DEF IInv, CallOk
<1>5. \A q \in Requests : ~CallOf(q)' /\ ~Allocating(q)' /\ ~Deallocating(q)
  BY <1>1, <1>3 DEF CallOf, Allocating, NoCall, Deallocating
<1>6. \A q \in Requests : HashedUpTo(q)' = HashedUpTo(q)
  <2> SUFFICES ASSUME NEW q \in Requests
               PROVE  numCached'[q] \div BlockSize = HashedUpTo(q)
    BY <1>5 DEF HashedUpTo
  <2>1. CASE q = r
    <3>1. numCached'[r] \div BlockSize = call.hits
      BY <1>3, <1>4, DivOfMultiple DEF IInv, TypeOK, RequestTypeOK
    <3> QED BY <2>1, <3>1, <1>1, <1>2 DEF HashedUpTo, Allocating
  <2>2. CASE q # r
    BY <2>2, <1>2, <1>3 DEF HashedUpTo, Allocating, IInv, TypeOK, RequestTypeOK
  <2> QED BY <2>1, <2>2
<1>7. /\ PoolTypeOK' /\ CacheTypeOK'
      /\ FreeUsedAgree' /\ RefCountExact' /\ IndexSound' /\ TailsFresh' /\ HeadsHashed'
  BY <1>3, <1>5, <1>6, PoolUntouched
<1>8. TypeOK'
  BY <1>3, <1>4, <1>7 DEF IInv, TypeOK, RequestTypeOK, CallTypeOK
<1>9. CallOk'
  BY <1>3 DEF CallOk, NoCall
<1>10. TablesFit'
  <2>1. ASSUME NEW q \in Requests
        PROVE  NumTokens(q)' > 0 /\ TableFits(q)'
    <3>1. CASE q = r
      BY <3>1, <1>3, <1>4, SameTokens DEF IInv, TypeOK, RequestTypeOK, TablesFit, TableFits
    <3>2. CASE q # r
      BY <3>2, <1>2, <1>3, SameTokens
         DEF IInv, TypeOK, RequestTypeOK, TablesFit, TableFits, CallOf
    <3> QED BY <3>1, <3>2
  <2> QED BY <2>1 DEF TablesFit
<1>11. MirrorOk'
  BY <1>2, <1>3 DEF IInv, TypeOK, RequestTypeOK, MirrorOk, CallOf
<1> QED BY <1>7, <1>8, <1>9, <1>10, <1>11 DEF IInv

\* The end of deallocate preserves the invariant.
LEMMA DeallocateReturnStep ==
  ASSUME IInv, DeallocateReturn, UNCHANGED <<tokenIds, numScheduled, status>>
  PROVE  IInv'
<1>1. call.op = "deallocate"
  BY DEF DeallocateReturn
<1>2. PICK r \in Requests : r = call.seq
  BY <1>1 DEF IInv, TypeOK, CallTypeOK, NoCall
<1>3. /\ blockTable[r] = << >>
      /\ numCached' = [numCached EXCEPT ![r] = 0]
      /\ reqToBlockIds' = [reqToBlockIds EXCEPT ![r] = << >>]
      /\ call' = NoCall
      /\ UNCHANGED <<poolVars, cacheVars, blockTable>>
  BY <1>2 DEF DeallocateReturn
<1>4. \A q \in Requests : ~CallOf(q)' /\ ~Allocating(q) /\ ~Allocating(q)'
  BY <1>1, <1>3 DEF CallOf, Allocating, NoCall
<1>5. \A q \in Requests : q # r => ~CallOf(q) /\ numCached'[q] = numCached[q]
  BY <1>2, <1>3 DEF CallOf, IInv, TypeOK, RequestTypeOK
<1>6. /\ PoolTypeOK' /\ CacheTypeOK'
      /\ FreeUsedAgree' /\ RefCountExact' /\ IndexSound' /\ TailsFresh' /\ HeadsHashed'
  <2>1. \A q \in Requests : blockTable[q] # << >> =>
          HashedUpTo(q)' = HashedUpTo(q) /\ (Deallocating(q) => Deallocating(q)')
    BY <1>2, <1>3, <1>4, <1>5 DEF HashedUpTo, Deallocating
  <2> QED BY <1>3, <2>1, PoolUntouched
<1>7. TypeOK'
  BY <1>3, <1>6, EmptySeq DEF IInv, TypeOK, RequestTypeOK, CallTypeOK
<1>8. CallOk'
  BY <1>3 DEF CallOk, NoCall
<1>9. TablesFit'
  <2>1. ASSUME NEW q \in Requests
        PROVE  NumTokens(q)' > 0 /\ TableFits(q)'
    <3>1. CASE q = r
      BY <3>1, <1>1, <1>2, <1>3, SameTokens
         DEF IInv, TypeOK, RequestTypeOK, TablesFit, TableFits, CallOk
    <3>2. CASE q # r
      BY <3>2, <1>3, <1>5, SameTokens DEF IInv, TablesFit, TableFits
    <3> QED BY <3>1, <3>2
  <2> QED BY <2>1 DEF TablesFit
<1>10. MirrorOk'
  BY <1>3, <1>5 DEF IInv, TypeOK, RequestTypeOK, MirrorOk
<1> QED BY <1>6, <1>7, <1>8, <1>9, <1>10 DEF IInv

\* Starting an allocate with what can_allocate returned preserves the invariant.
LEMMA AdmitStep ==
  ASSUME IInv, NEW r \in Requests, Admit(r)
  PROVE  IInv'
<1>1. PICK n \in 0 .. NumBlocks(r) - 1 : CanAllocate(r, n) /\ Allocate(r, n)
  BY DEF Admit
<1>2. /\ status[r] = "waiting" /\ blockTable[r] = << >> /\ call = NoCall
      /\ call' = [op |-> "allocate", seq |-> r, hits |-> n, target |-> NumBlocks(r),
                  cached |-> n * BlockSize]
      /\ UNCHANGED <<tokenIds, blockTable, numCached, numScheduled, status,
                     poolVars, cacheVars, reqToBlockIds>>
  BY <1>1 DEF Admit, Allocate, CallAllocate, Idle
<1>3. \A q \in Requests : ~CallOf(q) /\ ~Allocating(q)
  BY <1>2 DEF CallOf, Allocating, NoCall
<1>4. NumTokens(r) \in Nat /\ NumTokens(r) > 0 /\ NumBlocks(r) \in Nat
  <2>1. NumTokens(r) \in Nat /\ NumTokens(r) > 0
    BY LenProperties DEF IInv, TypeOK, RequestTypeOK, TablesFit, NumTokens
  <2> QED BY <2>1, BlockSizeAssumption DEF NumBlocks, BlocksFor
<1>5. n \in Nat /\ n < NumBlocks(r) /\ n * BlockSize \in Nat
  BY <1>4, BlockSizeAssumption
<1>6. numCached[r] = 0 /\ numScheduled[r] = 0
  <2>1. Len(<< >>) = 0 /\ NumBlocks(r) # 0
    BY <1>4, <1>5
  <2> QED BY <1>2, <1>3, <2>1 DEF IInv, TablesFit, TableFits
<1>7. /\ PoolTypeOK' /\ CacheTypeOK'
      /\ FreeUsedAgree' /\ RefCountExact' /\ IndexSound' /\ TailsFresh' /\ HeadsHashed'
  <2>1. \A q \in Requests : blockTable[q] # << >> =>
          HashedUpTo(q)' = HashedUpTo(q) /\ (Deallocating(q) => Deallocating(q)')
    BY <1>2, <1>3 DEF HashedUpTo, Allocating, Deallocating, NoCall
  <2> QED BY <1>2, <2>1, PoolUntouched
<1>8. TypeOK'
  <2>1. CallTypeOK'
    BY <1>2, <1>4, <1>5 DEF CallTypeOK
  <2> QED BY <1>2, <1>7, <2>1 DEF IInv, TypeOK, RequestTypeOK
<1>9. CallOk'
  <2>1. \A i \in 1 .. n : EnablePrefixCaching /\ Chain(r, i) \in DOMAIN hashToBlock
    BY <1>1, <1>5 DEF CanAllocate, CachedBlocks, IsHit
  <2>2. EnablePrefixCaching \/ n = 0
    BY <1>1 DEF CanAllocate, CachedBlocks
  <2>3. NumBlocks(r)' = NumBlocks(r) /\ \A i : Chain(r, i)' = Chain(r, i)
    BY <1>2, SameTokens
  <2>4. UNCHANGED hashToBlock
    BY <1>2 DEF cacheVars
  <2>5. call'.op = "allocate" /\ call'.seq = r /\ call'.hits = n /\ call'.target = NumBlocks(r)
        /\ call'.cached = n * BlockSize
    BY <1>2
  <2>6. Len(blockTable'[r]) = 0 /\ 0 <= NumBlocks(r)
    BY <1>2, <1>4
  <2> QED
    BY <1>2, <1>5, <1>6, <2>1, <2>2, <2>3, <2>4, <2>5, <2>6 DEF CallOk, NumBlocks, NumTokens, Chain, BlocksFor
<1>10. TablesFit'
  BY <1>2, <1>3, SameTokens DEF IInv, TablesFit, TableFits
<1>11. MirrorOk'
  BY <1>2, <1>3 DEF IInv, MirrorOk
<1> QED BY <1>7, <1>8, <1>9, <1>10, <1>11 DEF IInv

\* Scheduling a chunk of a prompt preserves the invariant.
LEMMA ScheduleChunkStep ==
  ASSUME IInv, NEW r \in Requests, ScheduleChunk(r)
  PROVE  IInv'
<1>1. /\ call = NoCall /\ status[r] = "waiting" /\ blockTable[r] # << >> /\ numScheduled[r] = 0
      /\ UNCHANGED <<tokenIds, blockTable, numCached, poolVars, cacheVars, reqToBlockIds, call>>
  BY DEF ScheduleChunk, Idle, bmVars
<1>2. PICK k \in 1 .. NumTokens(r) - numCached[r] :
        /\ numScheduled' = [numScheduled EXCEPT ![r] = k]
        /\ status' = IF numCached[r] + k = NumTokens(r)
                     THEN [status EXCEPT ![r] = "running"] ELSE status
  BY DEF ScheduleChunk
<1>3. NumTokens(r) \in Nat /\ numCached[r] \in Nat /\ k \in Nat /\ k > 0
      /\ numCached[r] + k <= NumTokens(r)
  BY LenProperties DEF IInv, TypeOK, RequestTypeOK, NumTokens
<1>4. \A q \in Requests : ~CallOf(q)
  BY <1>1 DEF CallOf, NoCall
<1>5. /\ PoolTypeOK' /\ CacheTypeOK'
      /\ FreeUsedAgree' /\ RefCountExact' /\ IndexSound' /\ TailsFresh' /\ HeadsHashed'
  <2>1. \A q \in Requests : HashedUpTo(q)' = HashedUpTo(q) /\ (Deallocating(q) => Deallocating(q)')
    BY <1>1 DEF HashedUpTo, Allocating, Deallocating
  <2> QED BY <1>1, <2>1, PoolUntouched
<1>6. TypeOK'
  BY <1>1, <1>2, <1>3, <1>5 DEF IInv, TypeOK, RequestTypeOK, CallTypeOK
<1>7. CallOk'
  BY <1>1 DEF CallOk, NoCall
<1>8. TablesFit'
  <2>1. ASSUME NEW q \in Requests
        PROVE  NumTokens(q)' > 0 /\ TableFits(q)'
    <3>1. CASE q = r
      <4>1. Len(blockTable[r]) = NumBlocks(r) /\ NumTokens(r) > 0
        BY <1>1, <1>4 DEF IInv, TablesFit, TableFits
      <4>2. /\ NumTokens(r)' = NumTokens(r) /\ NumBlocks(r)' = NumBlocks(r)
            /\ numCached'[r] = numCached[r] /\ blockTable'[r] = blockTable[r]
            /\ numScheduled'[r] = k
        BY <1>1, <1>2, SameTokens DEF IInv, TypeOK, RequestTypeOK
      <4>3. CASE numCached[r] + k = NumTokens(r)
        BY <3>1, <1>2, <1>3, <4>1, <4>2, <4>3 DEF IInv, TypeOK, RequestTypeOK, TableFits
      <4>4. CASE numCached[r] + k # NumTokens(r)
        BY <3>1, <1>1, <1>2, <1>3, <4>1, <4>2, <4>4 DEF TableFits
      <4> QED BY <4>3, <4>4
    <3>2. CASE q # r
      BY <3>2, <1>1, <1>2, <1>4, SameTokens DEF IInv, TypeOK, RequestTypeOK, TablesFit, TableFits
    <3> QED BY <3>1, <3>2
  <2> QED BY <2>1 DEF TablesFit
<1>9. MirrorOk'
  BY <1>1, <1>4 DEF IInv, MirrorOk
<1> QED BY <1>5, <1>6, <1>7, <1>8, <1>9 DEF IInv

\* Appending a token leaves the chains of the full blocks as they are.
LEMMA AppendedToken ==
  ASSUME TypeOK, NEW r \in Requests, NEW token \in Token, AppendToken(r, token)
  PROVE  /\ tokenIds' \in [Requests -> Seq(Token)]
         /\ \A q \in Requests : q # r => tokenIds'[q] = tokenIds[q]
         /\ NumTokens(r)' = NumTokens(r) + 1
         /\ \A i \in Nat : i * BlockSize <= NumTokens(r) => Chain(r, i)' = Chain(r, i)
<1>1. tokenIds[r] \in Seq(Token) /\ Len(tokenIds[r]) \in Nat
  BY LenProperties DEF TypeOK, RequestTypeOK
<1>2. tokenIds'[r] = Append(tokenIds[r], token)
  BY DEF AppendToken, TypeOK, RequestTypeOK
<1>3. \A q \in Requests : q # r => tokenIds'[q] = tokenIds[q]
  BY DEF AppendToken, TypeOK, RequestTypeOK
<1>4. tokenIds'[r] \in Seq(Token) /\ Len(tokenIds'[r]) = Len(tokenIds[r]) + 1
  BY <1>1, <1>2, AppendProperties
<1>5. tokenIds' \in [Requests -> Seq(Token)]
  BY <1>3, <1>4 DEF AppendToken, TypeOK, RequestTypeOK
<1>6. ASSUME NEW i \in Nat, i * BlockSize <= NumTokens(r)
      PROVE  Chain(r, i)' = Chain(r, i)
  <2> DEFINE n == i * BlockSize
  <2>1. n \in Nat /\ n <= Len(tokenIds[r])
    BY <1>6, BlockSizeAssumption DEF NumTokens
  <2> HIDE DEF n
  <2>2. SubSeq(Append(tokenIds[r], token), 1, n) = SubSeq(tokenIds[r], 1, n)
    BY <1>1, <2>1
  <2> QED BY <1>2, <2>2 DEF Chain, n
<1> QED BY <1>3, <1>4, <1>5, <1>6 DEF NumTokens

\* What postprocess does for one request before it looks at the token preserves
\* what the invariant says of pool, index and tables.
LEMMA Committed ==
  ASSUME IInv, NEW r \in Requests, call = NoCall, status[r] # "finished", numScheduled[r] > 0,
         Commit(r), UNCHANGED <<blockTable, poolVars>>, call'.op # "allocate",
         tokenIds' = tokenIds \/ \E token \in Token : AppendToken(r, token)
  PROVE  /\ PoolTypeOK' /\ CacheTypeOK'
         /\ FreeUsedAgree' /\ RefCountExact' /\ IndexSound' /\ TailsFresh' /\ HeadsHashed'
         /\ tokenIds' \in [Requests -> Seq(Token)]
         /\ numCached' \in [Requests -> Nat] /\ numScheduled' \in [Requests -> Nat]
         /\ numCached'[r] = numCached[r] + numScheduled[r] /\ numScheduled'[r] = 0
         /\ Len(blockTable[r]) = NumBlocks(r)
         /\ \A q \in Requests : q # r =>
              /\ numCached'[q] = numCached[q] /\ numScheduled'[q] = numScheduled[q]
              /\ tokenIds'[q] = tokenIds[q]
<1>1. /\ numCached' = [numCached EXCEPT ![r] = numCached[r] + numScheduled[r]]
      /\ numScheduled' = [numScheduled EXCEPT ![r] = 0]
      /\ HashBlocks(r)
  BY DEF Commit
<1>2. \A q \in Requests : ~CallOf(q) /\ ~Allocating(q) /\ ~Allocating(q)' /\ ~Deallocating(q)
  BY DEF CallOf, Allocating, Deallocating, NoCall
<1>3. Len(blockTable[r]) = NumBlocks(r) /\ numCached[r] + numScheduled[r] <= NumTokens(r)
  <2>1. numCached[r] \in Nat /\ numScheduled[r] \in Nat /\ NumTokens(r) \in Nat
    BY LenProperties DEF IInv, TypeOK, RequestTypeOK, NumTokens
  <2>2. status[r] \in {"waiting", "running"}
    BY DEF IInv, TypeOK, RequestTypeOK
  <2> QED BY <1>2, <2>1, <2>2 DEF IInv, TablesFit, TableFits
<1>4. HashRange(r)
  BY <1>3, HashRangeFits DEF IInv
<1>5. /\ CacheTypeOK' /\ IndexNotStale' /\ NoHash \notin DOMAIN hashToBlock'
      /\ \A i \in 1 .. Len(blockTable[r]) :
           i \notin FirstToHash(r) .. LastToHash(r)
             => blockHash'[blockTable[r][i]] = blockHash[blockTable[r][i]]
      /\ EnablePrefixCaching => \A i \in FirstToHash(r) .. LastToHash(r) :
           blockHash'[blockTable[r][i]] = Chain(r, i)
      /\ \A q \in Requests : q # r => \A i \in 1 .. Len(blockTable[q]) :
           blockHash'[blockTable[q][i]] = blockHash[blockTable[q][i]]
  <2>1. TypeOK /\ RefCountExact /\ IndexSound /\ TailsFresh /\ HeadsHashed
    BY DEF IInv
  <2> QED BY <1>1, <1>2, <1>4, <2>1, HashedBlocks
<1>6. /\ numCached' \in [Requests -> Nat] /\ numScheduled' \in [Requests -> Nat]
      /\ numCached'[r] = numCached[r] + numScheduled[r] /\ numScheduled'[r] = 0
      /\ \A q \in Requests : q # r =>
           numCached'[q] = numCached[q] /\ numScheduled'[q] = numScheduled[q]
  BY <1>1 DEF IInv, TypeOK, RequestTypeOK
<1>7. /\ tokenIds' \in [Requests -> Seq(Token)]
      /\ \A q \in Requests : q # r => tokenIds'[q] = tokenIds[q]
      /\ \A i \in Nat : i * BlockSize <= NumTokens(r) => Chain(r, i)' = Chain(r, i)
  <2>1. CASE tokenIds' = tokenIds
    BY <2>1, SameTokens DEF IInv, TypeOK, RequestTypeOK
  <2>2. CASE \E token \in Token : AppendToken(r, token)
    BY <2>2, AppendedToken DEF IInv
  <2> QED BY <2>1, <2>2
<1>8. UNCHANGED <<freeList, used, refCount, blockTable>>
  BY DEF poolVars
<1>9. PoolTypeOK' /\ FreeUsedAgree' /\ RefCountExact' /\ IndexSound'
  <2>1. PoolTypeOK'
    BY <1>8 DEF IInv, TypeOK, PoolTypeOK
  <2>2. FreeUsedAgree'
    BY <1>8 DEF IInv, FreeUsedAgree, InFree
  <2>3. RefCountExact'
    BY <1>8 DEF IInv, RefCountExact, Holders, Holds
  <2> QED BY <1>5, <2>1, <2>2, <2>3 DEF IndexSound
<1>10. /\ HashedUpTo(r) = FirstToHash(r) - 1 /\ HashedUpTo(r)' = LastToHash(r)
       /\ \A q \in Requests : q # r => HashedUpTo(q)' = HashedUpTo(q)
  BY <1>2, <1>4, <1>6 DEF HashedUpTo, HashRange, LastToHash
<1>11. TailsFresh'
  <2> SUFFICES ASSUME NEW q \in Requests, NEW k \in 1 .. Len(blockTable[q]), k > HashedUpTo(q)',
                      NEW c, c = blockTable[q][k]
               PROVE  /\ blockHash'[c] = NoHash
                      /\ \A p \in Requests : Holds(p, c) => p = q
    BY <1>8 DEF TailsFresh, Holds
  <2>1. k > HashedUpTo(q) /\ blockHash'[c] = blockHash[c]
    <3>1. CASE q # r
      BY <3>1, <1>5, <1>10
    <3>2. CASE q = r
      <4>1. k > LastToHash(r) /\ k \notin FirstToHash(r) .. LastToHash(r) /\ k > FirstToHash(r) - 1
        BY <3>2, <1>4, <1>10 DEF HashRange
      <4> QED BY <3>2, <4>1, <1>5, <1>10
    <3> QED BY <3>1, <3>2
  <2> QED BY <2>1 DEF IInv, TailsFresh
<1>12. HeadsHashed'
  <2> SUFFICES ASSUME EnablePrefixCaching,
                      NEW q \in Requests, NEW k \in 1 .. Len(blockTable[q]), k <= HashedUpTo(q)'
               PROVE  blockHash'[blockTable[q][k]] = Chain(q, k)'
    BY <1>8 DEF HeadsHashed
  <2>1. CASE q # r
    <3>1. Chain(q, k)' = Chain(q, k)
      BY <2>1, <1>7 DEF Chain
    <3>2. blockHash[blockTable[q][k]] = Chain(q, k)
      BY <2>1, <1>2, <1>10 DEF IInv, HeadsHashed, Deallocating
    <3> QED BY <2>1, <3>1, <3>2, <1>5
  <2>2. CASE q = r
    <3>1. /\ k \in Nat /\ k <= LastToHash(r) /\ LastToHash(r) \in Nat
          /\ FirstToHash(r) \in Nat
      BY <2>2, <1>4, <1>10 DEF HashRange
    <3>2. k * BlockSize <= NumTokens(r)
      <4>1. k * BlockSize <= LastToHash(r) * BlockSize
        BY <3>1, MulMonotone
      <4>2. k * BlockSize \in Nat /\ LastToHash(r) * BlockSize \in Nat /\ NumTokens(r) \in Nat
        BY <3>1, BlockSizeAssumption, LenProperties DEF IInv, TypeOK, RequestTypeOK, NumTokens
      <4> QED BY <4>1, <4>2, <1>4 DEF HashRange
    <3>3. Chain(r, k)' = Chain(r, k)
      BY <3>1, <3>2, <1>7
    <3>4. CASE k \in FirstToHash(r) .. LastToHash(r)
      BY <2>2, <3>3, <3>4, <1>5
    <3>5. CASE k \notin FirstToHash(r) .. LastToHash(r)
      <4>1. k <= HashedUpTo(r)
        BY <3>1, <3>5, <1>10
      <4>2. blockHash[blockTable[r][k]] = Chain(r, k)
        BY <2>2, <4>1, <1>2 DEF IInv, HeadsHashed, Deallocating
      <4> QED BY <2>2, <3>3, <3>5, <4>2, <1>5
    <3> QED BY <3>4, <3>5
  <2> QED BY <2>1, <2>2
<1> QED BY <1>3, <1>5, <1>6, <1>7, <1>9, <1>11, <1>12

\* postprocess of a chunk that leaves prompt tokens preserves the invariant.
LEMMA PostprocessChunkStep ==
  ASSUME IInv, NEW r \in Requests, PostprocessChunk(r)
  PROVE  IInv'
<1>1. /\ call = NoCall /\ numScheduled[r] > 0 /\ status[r] = "waiting" /\ Commit(r)
      /\ UNCHANGED <<tokenIds, blockTable, poolVars, reqToBlockIds, call, status>>
  BY DEF PostprocessChunk, Idle
<1>2. /\ PoolTypeOK' /\ CacheTypeOK'
      /\ FreeUsedAgree' /\ RefCountExact' /\ IndexSound' /\ TailsFresh' /\ HeadsHashed'
      /\ numCached' \in [Requests -> Nat] /\ numScheduled' \in [Requests -> Nat]
      /\ numCached'[r] = numCached[r] + numScheduled[r] /\ numScheduled'[r] = 0
      /\ \A q \in Requests : q # r =>
           numCached'[q] = numCached[q] /\ numScheduled'[q] = numScheduled[q]
  <2>1. call'.op # "allocate" /\ status[r] # "finished" /\ tokenIds' = tokenIds
    BY <1>1 DEF NoCall
  <2> QED BY <1>1, <2>1, Committed
<1>3. \A q \in Requests : ~CallOf(q)
  BY <1>1 DEF CallOf, NoCall
<1>4. TypeOK'
  BY <1>1, <1>2 DEF IInv, TypeOK, RequestTypeOK, CallTypeOK
<1>5. CallOk'
  BY <1>1 DEF CallOk, NoCall
<1>6. TablesFit'
  <2>1. ASSUME NEW q \in Requests
        PROVE  NumTokens(q)' > 0 /\ TableFits(q)'
    <3>1. CASE q = r
      <4>1. numCached[r] + numScheduled[r] < NumTokens(r) /\ Len(blockTable[r]) = NumBlocks(r)
            /\ NumTokens(r) > 0
        BY <1>1, <1>3 DEF IInv, TablesFit, TableFits
      <4>2. numCached[r] + numScheduled[r] \in Nat
        BY DEF IInv, TypeOK, RequestTypeOK
      <4> QED BY <3>1, <4>1, <4>2, <1>1, <1>2, SameTokens DEF TableFits
    <3>2. CASE q # r
      BY <3>2, <1>1, <1>2, <1>3, SameTokens DEF IInv, TablesFit, TableFits
    <3> QED BY <3>1, <3>2
  <2> QED BY <2>1 DEF TablesFit
<1>7. MirrorOk'
  BY <1>1, <1>3 DEF IInv, MirrorOk
<1> QED BY <1>2, <1>4, <1>5, <1>6, <1>7 DEF IInv

\* postprocess that appends a token preserves the invariant.
LEMMA PostprocessTokenStep ==
  ASSUME IInv, NEW r \in Requests, PostprocessToken(r)
  PROVE  IInv'
<1>1. /\ call = NoCall /\ numScheduled[r] > 0 /\ status[r] = "running" /\ Commit(r)
      /\ UNCHANGED <<blockTable, poolVars, reqToBlockIds, call, status>>
  BY DEF PostprocessToken, Idle
<1>2. PICK token \in Token : AppendToken(r, token)
  BY DEF PostprocessToken
<1>3. /\ PoolTypeOK' /\ CacheTypeOK'
      /\ FreeUsedAgree' /\ RefCountExact' /\ IndexSound' /\ TailsFresh' /\ HeadsHashed'
      /\ tokenIds' \in [Requests -> Seq(Token)]
      /\ numCached' \in [Requests -> Nat] /\ numScheduled' \in [Requests -> Nat]
      /\ numCached'[r] = numCached[r] + numScheduled[r] /\ numScheduled'[r] = 0
      /\ Len(blockTable[r]) = NumBlocks(r)
      /\ \A q \in Requests : q # r =>
           /\ numCached'[q] = numCached[q] /\ numScheduled'[q] = numScheduled[q]
           /\ tokenIds'[q] = tokenIds[q]
  <2>1. call'.op # "allocate" /\ status[r] # "finished"
    BY <1>1 DEF NoCall
  <2> QED BY <1>1, <1>2, <2>1, Committed
<1>4. \A q \in Requests : ~CallOf(q)
  BY <1>1 DEF CallOf, NoCall
<1>5. NumTokens(r)' = NumTokens(r) + 1
  BY <1>2, AppendedToken DEF IInv
<1>6. TypeOK'
  BY <1>1, <1>3 DEF IInv, TypeOK, RequestTypeOK, CallTypeOK
<1>7. CallOk'
  BY <1>1 DEF CallOk, NoCall
<1>8. TablesFit'
  <2>1. ASSUME NEW q \in Requests
        PROVE  NumTokens(q)' > 0 /\ TableFits(q)'
    <3>1. CASE q = r
      <4>1. numCached[r] + numScheduled[r] = NumTokens(r) /\ NumTokens(r) > 0
        BY <1>1, <1>4 DEF IInv, TablesFit, TableFits
      <4>2. NumTokens(r) \in Nat
        BY LenProperties DEF IInv, TypeOK, RequestTypeOK, NumTokens
      <4>3. NumTokens(r)' - 1 = NumTokens(r) /\ NumTokens(r)' > 0
        BY <4>2, <1>5
      <4>4. Len(blockTable'[r]) = BlocksFor(NumTokens(r)' - 1)
        BY <4>3, <1>1, <1>3 DEF NumBlocks
      <4> QED BY <3>1, <4>1, <4>3, <4>4, <1>1, <1>3 DEF TableFits
    <3>2. CASE q # r
      <4>1. NumTokens(q)' = NumTokens(q) /\ NumBlocks(q)' = NumBlocks(q)
        BY <3>2, <1>3 DEF NumTokens, NumBlocks, BlocksFor
      <4> QED BY <3>2, <4>1, <1>1, <1>3, <1>4 DEF IInv, TablesFit, TableFits
    <3> QED BY <3>1, <3>2
  <2> QED BY <2>1 DEF TablesFit
<1>9. MirrorOk'
  BY <1>1, <1>4 DEF IInv, MirrorOk
<1> QED BY <1>3, <1>6, <1>7, <1>8, <1>9 DEF IInv

\* postprocess that ends the request preserves the invariant.
LEMMA PostprocessLastStep ==
  ASSUME IInv, NEW r \in Requests, PostprocessLast(r)
  PROVE  IInv'
<1>1. /\ call = NoCall /\ call' = [op |-> "deallocate", seq |-> r]
      /\ numScheduled[r] > 0 /\ status[r] = "running" /\ Commit(r)
      /\ status' = [status EXCEPT ![r] = "finished"]
      /\ UNCHANGED <<blockTable, poolVars, reqToBlockIds>>
  BY DEF PostprocessLast, Deallocate, Idle
<1>2. PICK token \in Token : AppendToken(r, token)
  BY DEF PostprocessLast
<1>3. /\ PoolTypeOK' /\ CacheTypeOK'
      /\ FreeUsedAgree' /\ RefCountExact' /\ IndexSound' /\ TailsFresh' /\ HeadsHashed'
      /\ tokenIds' \in [Requests -> Seq(Token)]
      /\ numCached' \in [Requests -> Nat] /\ numScheduled' \in [Requests -> Nat]
      /\ \A q \in Requests : q # r =>
           /\ numCached'[q] = numCached[q] /\ numScheduled'[q] = numScheduled[q]
           /\ tokenIds'[q] = tokenIds[q]
  <2>1. call'.op # "allocate" /\ status[r] # "finished"
    BY <1>1
  <2> QED BY <1>1, <1>2, <2>1, Committed
<1>4. \A q \in Requests : ~CallOf(q)
  BY <1>1 DEF CallOf, NoCall
<1>5. NumTokens(r)' = NumTokens(r) + 1 /\ NumTokens(r) \in Nat
  BY <1>2, AppendedToken, LenProperties DEF IInv, TypeOK, RequestTypeOK, NumTokens
<1>6. TypeOK'
  BY <1>1, <1>3 DEF IInv, TypeOK, RequestTypeOK, CallTypeOK
<1>7. CallOk'
  BY <1>1 DEF IInv, TypeOK, RequestTypeOK, CallOk
<1>8. TablesFit'
  <2>1. ASSUME NEW q \in Requests
        PROVE  NumTokens(q)' > 0 /\ (~CallOf(q)' => TableFits(q)')
    <3>1. CASE q = r
      BY <3>1, <1>1, <1>5 DEF CallOf, NumTokens
    <3>2. CASE q # r
      <4>1. NumTokens(q)' = NumTokens(q) /\ NumBlocks(q)' = NumBlocks(q)
        BY <3>2, <1>3 DEF NumTokens, NumBlocks, BlocksFor
      <4> QED BY <3>2, <4>1, <1>1, <1>3, <1>4
        DEF IInv, TypeOK, RequestTypeOK, TablesFit, TableFits
    <3> QED BY <3>1, <3>2
  <2> QED BY <2>1 DEF TablesFit
<1>9. MirrorOk'
  BY <1>1, <1>4 DEF IInv, MirrorOk
<1> QED BY <1>3, <1>6, <1>7, <1>8, <1>9 DEF IInv

\* preempt and abort preserve the invariant: nothing but the status changes
\* before the release begins.
LEMMA GivenUp ==
  ASSUME IInv, NEW r \in Requests, NEW s \in {"waiting", "finished"},
         call = NoCall, call' = [op |-> "deallocate", seq |-> r],
         status' = [status EXCEPT ![r] = s], s = "waiting" => numScheduled[r] = 0,
         UNCHANGED <<tokenIds, blockTable, numCached, numScheduled,
                     poolVars, cacheVars, reqToBlockIds>>
  PROVE  IInv'
<1>1. \A q \in Requests : ~CallOf(q) /\ ~Allocating(q) /\ ~Allocating(q)' /\ ~Deallocating(q)
  BY DEF CallOf, Allocating, Deallocating, NoCall
<1>2. /\ PoolTypeOK' /\ CacheTypeOK'
      /\ FreeUsedAgree' /\ RefCountExact' /\ IndexSound' /\ TailsFresh' /\ HeadsHashed'
  <2>1. \A q \in Requests : HashedUpTo(q)' = HashedUpTo(q) /\ (Deallocating(q) => Deallocating(q)')
    BY <1>1 DEF HashedUpTo
  <2> QED BY <2>1, PoolUntouched
<1>3. TypeOK'
  BY <1>2 DEF IInv, TypeOK, RequestTypeOK, CallTypeOK
<1>4. CallOk'
  BY DEF IInv, TypeOK, RequestTypeOK, CallOk
<1>5. TablesFit'
  <2>1. ASSUME NEW q \in Requests
        PROVE  NumTokens(q)' > 0 /\ (~CallOf(q)' => TableFits(q)')
    <3>1. CASE q = r
      BY <3>1, SameTokens DEF IInv, TablesFit, CallOf
    <3>2. CASE q # r
      BY <3>2, <1>1, SameTokens DEF IInv, TypeOK, RequestTypeOK, TablesFit, TableFits
    <3> QED BY <3>1, <3>2
  <2> QED BY <2>1 DEF TablesFit
<1>6. MirrorOk'
  BY <1>1 DEF IInv, MirrorOk
<1> QED BY <1>2, <1>3, <1>4, <1>5, <1>6 DEF IInv

\* Scheduling a decode turn preserves the invariant; a block is appended exactly
\* when the newest token needs one.
LEMMA ScheduleDecodeStep ==
  ASSUME IInv, NEW r \in Requests, ScheduleDecode(r)
  PROVE  IInv'
<1>1. /\ call = NoCall /\ status[r] = "running" /\ numScheduled[r] = 0 /\ MayAppend(r)
      /\ numScheduled' = [numScheduled EXCEPT ![r] = 1]
      /\ UNCHANGED <<tokenIds, numCached, call, status>>
  BY DEF ScheduleDecode, Idle
<1>2. \A q \in Requests : ~CallOf(q) /\ ~Allocating(q)
  BY <1>1 DEF CallOf, Allocating, NoCall
<1>3. /\ NumTokens(r) \in Nat /\ NumTokens(r) > 0 /\ numCached[r] = NumTokens(r) - 1
      /\ Len(blockTable[r]) = BlocksFor(NumTokens(r) - 1)
  BY <1>1, <1>2, LenProperties DEF IInv, TypeOK, RequestTypeOK, TablesFit, TableFits, NumTokens
<1>4. CallOk'
  BY <1>1 DEF CallOk, NoCall
<1>5. ASSUME /\ blockTable' \in [Requests -> Seq(Blocks)]
             /\ \A q \in Requests : q # r => blockTable'[q] = blockTable[q]
             /\ Len(blockTable'[r]) = NumBlocks(r)
      PROVE  TablesFit'
  <2>1. ASSUME NEW q \in Requests
        PROVE  NumTokens(q)' > 0 /\ TableFits(q)'
    <3>1. CASE q = r
      BY <3>1, <1>1, <1>3, <1>5, SameTokens DEF IInv, TypeOK, RequestTypeOK, TableFits
    <3>2. CASE q # r
      BY <3>2, <1>1, <1>2, <1>5, SameTokens DEF IInv, TypeOK, RequestTypeOK, TablesFit, TableFits
    <3> QED BY <3>1, <3>2
  <2> QED BY <2>1 DEF TablesFit
<1>6. CASE NeedsBlock(r)
  <2>1. /\ AllocateBlock(Head(freeList))
        /\ blockTable' = [blockTable EXCEPT ![r] = Append(@, Head(freeList))]
        /\ reqToBlockIds' = [reqToBlockIds EXCEPT ![r] = blockTable'[r]]
    BY <1>1, <1>6 DEF MayAppend
  <2>2. Len(blockTable[r]) + 1 > HashedUpTo(r)
    <3>1. NumTokens(r) - 1 \in Nat /\ NumTokens(r) - 1 + BlockSize - 1 \in Nat
          /\ NumTokens(r) - 1 <= NumTokens(r) - 1 + BlockSize - 1
      BY <1>3, BlockSizeAssumption
    <3>2. /\ (NumTokens(r) - 1) \div BlockSize <= BlocksFor(NumTokens(r) - 1)
          /\ (NumTokens(r) - 1) \div BlockSize \in Nat /\ BlocksFor(NumTokens(r) - 1) \in Nat
      BY <3>1, DivMonotone, DivBounds DEF BlocksFor
    <3> QED BY <3>2, <1>2, <1>3 DEF HashedUpTo
  <2>3. /\ PoolTypeOK' /\ CacheTypeOK' /\ blockTable' \in [Requests -> Seq(Blocks)]
        /\ FreeUsedAgree' /\ RefCountExact' /\ IndexSound' /\ TailsFresh' /\ HeadsHashed'
        /\ \A q \in Requests : q # r => blockTable'[q] = blockTable[q]
        /\ Len(blockTable'[r]) = Len(blockTable[r]) + 1
    BY <1>1, <2>1, <2>2, FreshBlockAppended
  <2>4. TypeOK'
    BY <1>1, <2>1, <2>3 DEF IInv, TypeOK, RequestTypeOK, CallTypeOK
  <2>5. TablesFit'
    <3>1. Len(blockTable[r]) + 1 = NumBlocks(r)
      BY <1>3, <1>6, BlocksForGrows DEF NeedsBlock, NumBlocks
    <3> QED BY <3>1, <2>3, <1>5
  <2>6. MirrorOk'
    BY <1>1, <1>2, <2>1, <2>3 DEF IInv, TypeOK, RequestTypeOK, MirrorOk
  <2> QED BY <1>4, <2>3, <2>4, <2>5, <2>6 DEF IInv
<1>7. CASE ~NeedsBlock(r)
  <2>1. UNCHANGED <<poolVars, cacheVars, blockTable, reqToBlockIds>>
    BY <1>1, <1>7 DEF MayAppend
  <2>2. /\ PoolTypeOK' /\ CacheTypeOK'
        /\ FreeUsedAgree' /\ RefCountExact' /\ IndexSound' /\ TailsFresh' /\ HeadsHashed'
    <3>1. \A q \in Requests : HashedUpTo(q)' = HashedUpTo(q) /\ (Deallocating(q) => Deallocating(q)')
      BY <1>1 DEF HashedUpTo, Allocating, Deallocating
    <3> QED BY <1>1, <2>1, <3>1, PoolUntouched
  <2>3. TypeOK'
    BY <1>1, <2>1, <2>2 DEF IInv, TypeOK, RequestTypeOK, CallTypeOK
  <2>4. TablesFit'
    <3>1. Len(blockTable[r]) = NumBlocks(r)
      BY <1>3, <1>7, BlocksForGrows DEF NeedsBlock, NumBlocks
    <3>2. blockTable \in [Requests -> Seq(Blocks)]
      BY DEF IInv, TypeOK, RequestTypeOK
    <3> QED BY <3>1, <3>2, <2>1, <1>5
  <2>5. MirrorOk'
    BY <1>2, <2>1 DEF IInv, MirrorOk
  <2> QED BY <1>4, <2>2, <2>3, <2>4, <2>5 DEF IInv
<1> QED BY <1>6, <1>7

\* The invariant holds initially.
LEMMA InitIInv == Init => IInv
<1> SUFFICES ASSUME Init
             PROVE  IInv
  OBVIOUS
<1>1. /\ tokenIds \in [Requests -> Prompts]
      /\ blockTable = [r \in Requests |-> << >>]
      /\ numCached = [r \in Requests |-> 0]
      /\ numScheduled = [r \in Requests |-> 0]
      /\ status = [r \in Requests |-> "waiting"]
      /\ freeList = [i \in 1 .. NumKvBlocks |-> i - 1]
      /\ used = {}
      /\ refCount = [b \in Blocks |-> 0]
      /\ blockHash = [b \in Blocks |-> << >>]
      /\ hashToBlock = [h \in {} |-> 0]
      /\ reqToBlockIds = [r \in Requests |-> << >>]
      /\ call = NoCall
  BY DEF Init, BlockManagerInit, NoHash
<1>2. NumKvBlocks \in Nat /\ Len(<< >>) = 0
  BY PoolAssumption
<1>3. \A r \in Requests : tokenIds[r] \in Seq(Token) /\ tokenIds[r] # << >>
  BY <1>1, ClientAssumption
<1>4. freeList \in Seq(Blocks) /\ Len(freeList) = NumKvBlocks
      /\ \A i \in 1 .. NumKvBlocks : freeList[i] = i - 1
  <2>1. \A i \in 1 .. NumKvBlocks : i - 1 \in Blocks
    BY <1>2 DEF Blocks
  <2> QED BY <1>1, <1>2, <2>1, IsASeq
<1>5. TypeOK
  <2>1. RequestTypeOK
    BY <1>1, <1>3, EmptySeq DEF RequestTypeOK
  <2>2. PoolTypeOK
    BY <1>1, <1>4 DEF PoolTypeOK
  <2>3. CacheTypeOK
    BY <1>1, EmptySeq DEF CacheTypeOK
  <2> QED BY <1>1, <2>1, <2>2, <2>3 DEF TypeOK, CallTypeOK
<1>6. FreeUsedAgree
  <2>1. ASSUME NEW b \in Blocks
        PROVE  InFree(b)
    <3>1. b + 1 \in 1 .. NumKvBlocks /\ (b + 1) - 1 = b
      BY <1>2 DEF Blocks
    <3> QED BY <3>1, <1>4 DEF InFree
  <2> QED BY <2>1, <1>1, <1>2, <1>4 DEF FreeUsedAgree
<1>7. \A r \in Requests : ~CallOf(r) /\ Len(blockTable[r]) = 0
  BY <1>1, <1>2 DEF CallOf, NoCall
<1>8. RefCountExact
  <2>1. \A b \in Blocks : Holders(b) = {}
    BY <1>7 DEF Holders, Holds
  <2>2. \A b \in Blocks : Cardinality(Holders(b)) = 0
    BY <2>1, FS_EmptySet
  <2> QED BY <1>1, <1>7, <2>2 DEF RefCountExact
<1>9. CallOk
  BY <1>1 DEF CallOk, NoCall
<1>10. TablesFit
  <2>1. \A r \in Requests : NumTokens(r) > 0
    BY <1>3, EmptySeq DEF NumTokens
  <2> QED BY <1>1, <2>1 DEF TablesFit, TableFits
<1>11. IndexSound
  BY <1>1 DEF IndexSound, IndexNotStale
<1>12. TailsFresh /\ HeadsHashed
  BY <1>7 DEF TailsFresh, HeadsHashed
<1>13. MirrorOk
  BY <1>1 DEF MirrorOk
<1> QED BY <1>5, <1>6, <1>8, <1>9, <1>10, <1>11, <1>12, <1>13 DEF IInv

\* Every step preserves the invariant.
LEMMA NextIInv == IInv /\ [Next]_vars => IInv'
<1> SUFFICES ASSUME IInv, [Next]_vars
             PROVE  IInv'
  OBVIOUS
<1>1. CASE CallStep /\ UNCHANGED status
  <2>1. UNCHANGED <<tokenIds, numScheduled, status>>
    BY <1>1 DEF CallStep
  <2>2. CASE TakeCached
    BY <2>1, <2>2, TakeCachedStep
  <2>3. CASE TakeFresh
    BY <2>1, <2>3, TakeFreshStep
  <2>4. CASE AllocateReturn
    BY <2>1, <2>4, AllocateReturnStep
  <2>5. CASE ReleaseBlock
    BY <2>1, <2>5, ReleaseBlockStep
  <2>6. CASE DeallocateReturn
    BY <2>1, <2>6, DeallocateReturnStep
  <2> QED BY <1>1, <2>2, <2>3, <2>4, <2>5, <2>6 DEF CallStep
<1>2. ASSUME NEW r \in Requests, Preempt(r)
      PROVE  IInv'
  BY <1>2, GivenUp DEF Preempt, Deallocate, Idle
<1>3. ASSUME NEW r \in Requests, Abort(r)
      PROVE  IInv'
  BY <1>3, GivenUp DEF Abort, Deallocate, Idle
<1>4. CASE UNCHANGED vars
  <2>1. UNCHANGED <<tokenIds, blockTable, numCached, numScheduled, poolVars, cacheVars,
                    reqToBlockIds, call, status>>
    BY <1>4 DEF vars, bmVars
  <2>2. \A q \in Requests : HashedUpTo(q)' = HashedUpTo(q) /\ (Deallocating(q) => Deallocating(q)')
    BY <2>1 DEF HashedUpTo, Allocating, Deallocating
  <2>3. /\ PoolTypeOK' /\ CacheTypeOK'
        /\ FreeUsedAgree' /\ RefCountExact' /\ IndexSound' /\ TailsFresh' /\ HeadsHashed'
    BY <2>1, <2>2, PoolUntouched
  <2>4. TypeOK'
    BY <2>1, <2>3 DEF IInv, TypeOK, RequestTypeOK, CallTypeOK
  <2>5. CallOk'
    BY <2>1 DEF IInv, CallOk, NumBlocks, NumTokens, BlocksFor, Chain, cacheVars
  <2>6. TablesFit'
    BY <2>1, SameTokens DEF IInv, TablesFit, TableFits, CallOf
  <2>7. MirrorOk'
    BY <2>1 DEF IInv, MirrorOk, CallOf
  <2> QED BY <2>3, <2>4, <2>5, <2>6, <2>7 DEF IInv
<1> QED
  BY <1>1, <1>2, <1>3, <1>4, AdmitStep, ScheduleChunkStep, ScheduleDecodeStep,
     PostprocessChunkStep, PostprocessTokenStep, PostprocessLastStep DEF Next

----------------------------------------------------------------------------
\* The inductive invariant holds in every reachable state.
THEOREM Invariance == Spec => []IInv
BY InitIInv, NextIInv, PTL DEF Spec

\* The variables stay in their ranges; in particular no reference count goes
\* below zero and no index entry or table leaves the pool.
THEOREM TypeCorrect == Spec => []TypeOK
<1>1. IInv => TypeOK
  BY DEF IInv
<1> QED BY <1>1, Invariance, PTL

\* Free list, used_block_ids and reference counts agree at every step of every
\* call, however requests come and go.
THEOREM FreeListAgrees == Spec => []FreeUsedAgree
<1>1. IInv => FreeUsedAgree
  BY DEF IInv
<1> QED BY <1>1, Invariance, PTL

\* A reference count is the number of tables that have the block, so no block
\* is freed under a reader and none is lost.
THEOREM ReferencesExact == Spec => []RefCountExact
<1>1. IInv => RefCountExact
  BY DEF IInv
<1> QED BY <1>1, Invariance, PTL

\* The prefix-cache index never points at a block that has been evicted and
\* reused.
THEOREM IndexNeverStale == Spec => []IndexNotStale
<1>1. IInv => IndexNotStale
  BY DEF IInv, IndexSound
<1> QED BY <1>1, Invariance, PTL

\* A block that may still be written has one holder.
THEOREM WritesStayPrivate == Spec => []WritesArePrivate
<1>1. IInv => WritesArePrivate
  <2> SUFFICES ASSUME IInv, NEW r \in Requests, ~CallOf(r), NEW i \in 1 .. Len(blockTable[r]),
                      i > numCached[r] \div BlockSize
               PROVE  Holders(blockTable[r][i]) = {r}
    BY DEF WritesArePrivate
  <2>1. i > HashedUpTo(r)
    BY DEF HashedUpTo, Allocating, CallOf
  <2>2. \A q \in Requests : Holds(q, blockTable[r][i]) => q = r
    BY <2>1 DEF IInv, TailsFresh
  <2>3. Holds(r, blockTable[r][i])
    BY DEF Holds
  <2> QED BY <2>2, <2>3 DEF Holders
<1> QED BY <1>1, Invariance, PTL

\* The computed blocks of a request carry the hash of its own prefix: what the
\* index promises to whoever hits them.
THEOREM PrefixesSound == Spec => []PrefixSound
<1>1. IInv => PrefixSound
  <2> SUFFICES ASSUME IInv, EnablePrefixCaching, NEW r \in Requests, ~CallOf(r),
                      NEW i \in 1 .. numCached[r] \div BlockSize
               PROVE  blockHash[blockTable[r][i]] = Chain(r, i)
    BY DEF PrefixSound
  <2> DEFINE n == NumTokens(r)
  <2>1. n \in Nat /\ n > 0 /\ numCached[r] \in Nat /\ numScheduled[r] \in Nat
    BY LenProperties DEF IInv, TypeOK, RequestTypeOK, TablesFit, NumTokens
  <2>2. numCached[r] \div BlockSize <= Len(blockTable[r])
    <3>1. \/ blockTable[r] = << >> /\ numCached[r] = 0
          \/ Len(blockTable[r]) = BlocksFor(n) /\ numCached[r] <= n
          \/ Len(blockTable[r]) = BlocksFor(n - 1) /\ numCached[r] = n - 1
      BY <2>1 DEF IInv, TypeOK, RequestTypeOK, TablesFit, TableFits, NumBlocks
    <3>2. ASSUME NEW m \in Nat, numCached[r] <= m
          PROVE  numCached[r] \div BlockSize <= BlocksFor(m)
      <4>1. m + BlockSize - 1 \in Nat /\ numCached[r] <= m + BlockSize - 1
        BY <2>1, <3>2, BlockSizeAssumption
      <4> QED BY <2>1, <4>1, DivMonotone DEF BlocksFor
    <3>3. CASE blockTable[r] = << >> /\ numCached[r] = 0
      BY <3>3, BlockSizeAssumption
    <3> QED BY <2>1, <3>1, <3>2, <3>3
  <2>3. i \in 1 .. Len(blockTable[r]) /\ i <= HashedUpTo(r)
    <3>1. numCached[r] \div BlockSize \in Nat /\ Len(blockTable[r]) \in Nat
      BY <2>1, DivBounds, LenProperties DEF IInv, TypeOK, RequestTypeOK
    <3> QED BY <2>2, <3>1 DEF HashedUpTo, Allocating, CallOf
  <2> QED BY <2>3 DEF IInv, HeadsHashed, CallOf
<1> QED BY <1>1, Invariance, PTL

\* req_to_block_ids is the table of every request between calls.
THEOREM MirrorsInSync == Spec => []MirrorInSync
<1>1. IInv => MirrorInSync
  <2> SUFFICES ASSUME IInv, Idle
               PROVE  reqToBlockIds = blockTable
    BY DEF MirrorInSync
  <2>1. \A r \in Requests : reqToBlockIds[r] = blockTable[r]
    BY DEF IInv, MirrorOk, CallOf, Idle, NoCall
  <2> QED BY <2>1 DEF IInv, TypeOK, RequestTypeOK
<1> QED BY <1>1, Invariance, PTL

----------------------------------------------------------------------------
(***************************************************************************)
(* can_allocate counts enough free blocks for the whole of allocate.       *)
(***************************************************************************)
\* The used entries an allocate has still to take are finitely many.
LEMMA UsedHitsFinite ==
  ASSUME IInv, call.op = "allocate"
  PROVE  /\ IsFiniteSet(UsedHits(call.seq))
         /\ Cardinality(UsedHits(call.seq)) \in Nat
         /\ FreeCount \in Nat
<1>1. NextIndex(call.seq) \in Int /\ call.hits \in Int
  BY AllocateFacts DEF NextIndex
<1>2. IsFiniteSet(NextIndex(call.seq) .. call.hits)
  BY <1>1, FS_Interval
<1>3. UsedHits(call.seq) \in SUBSET (NextIndex(call.seq) .. call.hits)
  BY DEF UsedHits
<1>4. IsFiniteSet(UsedHits(call.seq))
  BY <1>2, <1>3, FS_Subset
<1> QED BY <1>4, FS_CardinalityType, LenProperties DEF FreeCount, IInv, TypeOK, PoolTypeOK

\* A hit on a free block costs one free block and saves none of the used hits; a
\* hit on a used block is one of them.
LEMMA TakeCachedAffordable ==
  ASSUME IInv, EnoughFree, TakeCached, UNCHANGED <<tokenIds, numScheduled, status>>
  PROVE  EnoughFree'
<1> DEFINE r == call.seq
           i == NextIndex(r)
           b == hashToBlock[Chain(r, i)]
           U == UsedHits(r)
           V == UsedHits(r)'
<1>1. call.op = "allocate" /\ call'.op = "allocate" /\ call' = call
  BY DEF TakeCached
<1>2. /\ r \in Requests /\ i \in Nat /\ i <= call.hits
      /\ call.hits \in Nat /\ call.target \in Nat
      /\ Len(blockTable[r]) \in Nat /\ i = Len(blockTable[r]) + 1 /\ i \in 1 .. call.hits
  BY <1>1, AllocateFacts DEF TakeCached, NextIndex
<1>3. b \in Blocks
  <2>1. Chain(r, i) \in DOMAIN hashToBlock
    BY <1>1, <1>2 DEF IInv, CallOk
  <2> QED BY <2>1 DEF IInv, TypeOK, CacheTypeOK
<1>4. /\ blockTable' = [blockTable EXCEPT ![r] = Append(@, b)]
      /\ IF InFree(b) THEN LruRemove(b) /\ used' = used \cup {b}
                      ELSE UNCHANGED <<freeList, used>>
      /\ UNCHANGED <<blockHash, hashToBlock>>
  BY DEF TakeCached, cacheVars
<1>5. Len(blockTable'[r]) = Len(blockTable[r]) + 1 /\ NextIndex(r)' = i + 1
  <2> TypeOK /\ RefCountExact
    BY DEF IInv
  <2> HIDE DEF r, b
  <2>1. Len(blockTable'[r]) = Len(blockTable[r]) + 1
    BY <1>2, <1>3, <1>4, AddedBlock
  <2> QED BY <1>1, <1>2, <2>1 DEF NextIndex, r
<1>6. /\ IsFiniteSet(U) /\ Cardinality(U) \in Nat /\ FreeCount \in Nat
      /\ FreeCount + Cardinality(U) >= call.target - Len(blockTable[r])
  BY <1>1, UsedHitsFinite DEF EnoughFree
<1>7. V = {j \in i + 1 .. call.hits : hashToBlock[Chain(r, j)] \in used'}
  BY <1>1, <1>4, <1>5, SameTokens DEF UsedHits
<1>8. U = {j \in i .. call.hits : hashToBlock[Chain(r, j)] \in used}
  BY DEF UsedHits
<1> SUFFICES FreeCount' + Cardinality(V) >= call.target - Len(blockTable'[r])
  BY <1>1 DEF EnoughFree
<1> HIDE DEF r, i, b, U, V
<1> DEFINE togo == call.target - Len(blockTable[r])
<1>9. togo \in Int /\ call.target - Len(blockTable'[r]) = togo - 1
  <2> DEFINE n == Len(blockTable[r])
             m == Len(blockTable'[r])
  <2>1. call.target \in Int /\ n \in Int /\ m = n + 1
    BY <1>2, <1>5
  <2> HIDE DEF n, m
  <2>2. call.target - n \in Int /\ call.target - m = (call.target - n) - 1
    BY <2>1
  <2> QED BY <2>2 DEF n, m, togo
<1>10. FreeCount + Cardinality(U) >= togo
  BY <1>6
<1> HIDE DEF togo
<1>11. IsFiniteSet(V) /\ Cardinality(V) \in Nat
  <2>1. i + 1 \in Int /\ call.hits \in Int
    BY <1>2
  <2> DEFINE m == i + 1
             n == call.hits
  <2> HIDE DEF m, n
  <2>2. IsFiniteSet(m .. n)
    BY <2>1, FS_Interval DEF m, n
  <2>3. V \in SUBSET (m .. n)
    BY <1>7 DEF m, n
  <2> QED BY <2>2, <2>3, FS_Subset, FS_CardinalityType
<1>12. CASE InFree(b)
  <2>1. FreeCount' = FreeCount - 1
    BY <1>3, <1>4, <1>12, FreeSpliced DEF IInv, TypeOK, FreeCount
  <2>2. b \notin used
    BY <1>3, <1>12 DEF IInv, FreeUsedAgree
  <2>3. \A j \in U : j # i
    BY <1>8, <2>2 DEF b
  <2>4. U \in SUBSET V
    BY <1>2, <1>4, <1>7, <1>8, <1>12, <2>3
  <2>5. Cardinality(U) <= Cardinality(V)
    BY <1>11, <2>4, FS_Subset
  <2> QED BY <1>6, <1>11, <1>9, <1>10, <2>1, <2>5
<1>13. CASE ~InFree(b)
  <2>1. FreeCount' = FreeCount /\ used' = used
    BY <1>4, <1>13 DEF FreeCount
  <2>2. b \in used
    BY <1>3, <1>13 DEF IInv, FreeUsedAgree
  <2>3. i \in U /\ V = U \ {i}
    BY <1>2, <1>7, <1>8, <2>1, <2>2 DEF b
  <2>4. Cardinality(V) = Cardinality(U) - 1
    BY <1>6, <2>3, FS_RemoveElement
  <2> QED BY <1>6, <1>11, <1>9, <1>10, <2>1, <2>4
<1> QED BY <1>12, <1>13

\* A fresh block costs one free block, and no hit is left to be taken.
LEMMA TakeFreshAffordable ==
  ASSUME IInv, EnoughFree, TakeFresh, UNCHANGED <<tokenIds, numScheduled, status>>
  PROVE  EnoughFree'
<1> DEFINE r == call.seq
           n == Len(blockTable[r])
<1>1. call.op = "allocate" /\ call' = call
  BY DEF TakeFresh
<1>2. /\ r \in Requests /\ n \in Nat /\ n + 1 > call.hits
      /\ call.hits \in Nat /\ call.target \in Nat
      /\ freeList # << >> /\ freeList' = Tail(freeList)
      /\ blockTable' = [blockTable EXCEPT ![r] = Append(@, Head(freeList))]
  BY <1>1, AllocateFacts DEF TakeFresh, NextIndex, AllocateBlock
<1>3. Head(freeList) \in Blocks /\ FreeCount' = FreeCount - 1
  BY <1>2, FreePopped DEF IInv, TypeOK, FreeCount
<1>4. Len(blockTable'[r]) = n + 1
  BY <1>2, <1>3, AddedBlock DEF IInv, r
<1>5. UsedHits(r) = {} /\ UsedHits(r)' = {}
  BY <1>1, <1>2, <1>4 DEF UsedHits, NextIndex
<1>6. Cardinality(UsedHits(call.seq)) = 0 /\ Cardinality(UsedHits(call.seq))' = 0
  BY <1>1, <1>5, FS_EmptySet
<1>7. FreeCount \in Nat /\ FreeCount >= call.target - n
  BY <1>1, <1>2, <1>6, UsedHitsFinite DEF EnoughFree
<1> QED BY <1>1, <1>2, <1>3, <1>4, <1>6, <1>7 DEF EnoughFree

\* can_allocate's test is EnoughFree at the start of the call.
LEMMA AdmitAffordable ==
  ASSUME IInv, NEW r \in Requests, Admit(r)
  PROVE  EnoughFree'
<1>1. PICK n \in 0 .. NumBlocks(r) - 1 : CanAllocate(r, n) /\ Allocate(r, n)
  BY DEF Admit
<1>2. /\ blockTable[r] = << >>
      /\ call' = [op |-> "allocate", seq |-> r, hits |-> n, target |-> NumBlocks(r),
                  cached |-> n * BlockSize]
      /\ UNCHANGED <<tokenIds, blockTable, freeList, used, hashToBlock>>
  BY <1>1 DEF Admit, Allocate, CallAllocate, poolVars, cacheVars
<1>3. NumBlocks(r) \in Nat
  <2>1. NumTokens(r) \in Nat
    BY LenProperties DEF IInv, TypeOK, RequestTypeOK, NumTokens
  <2> QED BY <2>1, BlockSizeAssumption DEF NumBlocks, BlocksFor
<1>4. Len(blockTable[r]) = 0
  BY <1>2
<1>5. UsedHits(call.seq)' = {i \in 1 .. n : hashToBlock[Chain(r, i)] \in used}
  BY <1>2, <1>4, SameTokens DEF UsedHits, NextIndex
<1> DEFINE c == Cardinality({i \in 1 .. n : hashToBlock[Chain(r, i)] \in used})
<1>6. FreeCount >= NumBlocks(r) - c
  BY <1>1 DEF CanAllocate, NewBlocks
<1>7. c \in Nat
  <2>1. IsFiniteSet(1 .. n)
    BY <1>3, FS_Interval
  <2>2. {i \in 1 .. n : hashToBlock[Chain(r, i)] \in used} \in SUBSET (1 .. n)
    OBVIOUS
  <2> QED BY <2>1, <2>2, FS_Subset, FS_CardinalityType
<1>8. FreeCount \in Nat /\ FreeCount' = FreeCount
  BY <1>2, LenProperties DEF FreeCount, IInv, TypeOK, PoolTypeOK
<1>9. Cardinality(UsedHits(call.seq))' = c /\ call'.seq = r /\ call'.target = NumBlocks(r)
  BY <1>2, <1>5
<1> HIDE DEF c
<1> QED BY <1>2, <1>3, <1>4, <1>6, <1>7, <1>8, <1>9 DEF EnoughFree

\* Every step preserves what pays for an allocate: no other step leaves one in
\* progress.
LEMMA NextEnoughFree == IInv /\ EnoughFree /\ [Next]_vars => EnoughFree'
<1> SUFFICES ASSUME IInv, EnoughFree, [Next]_vars
             PROVE  EnoughFree'
  OBVIOUS
<1>1. CASE CallStep /\ UNCHANGED status
  <2>1. UNCHANGED <<tokenIds, numScheduled, status>>
    BY <1>1 DEF CallStep
  <2>2. CASE AllocateReturn \/ DeallocateReturn
    BY <2>2 DEF AllocateReturn, DeallocateReturn, NoCall, EnoughFree
  <2>3. CASE ReleaseBlock
    BY <2>3 DEF ReleaseBlock, EnoughFree
  <2> QED BY <1>1, <2>1, <2>2, <2>3, TakeCachedAffordable, TakeFreshAffordable DEF CallStep
<1>2. ASSUME NEW r \in Requests, ~Admit(r),
             \/ ScheduleChunk(r) \/ ScheduleDecode(r) \/ PostprocessChunk(r)
             \/ PostprocessToken(r) \/ PostprocessLast(r) \/ Preempt(r) \/ Abort(r)
      PROVE  EnoughFree'
  <2>1. call'.op # "allocate"
    BY <1>2 DEF ScheduleChunk, ScheduleDecode, PostprocessChunk, PostprocessToken,
                PostprocessLast, Preempt, Abort, Deallocate, Idle, NoCall, bmVars
  <2> QED BY <2>1 DEF EnoughFree
<1>3. CASE UNCHANGED vars
  BY <1>3 DEF vars, bmVars, poolVars, cacheVars, EnoughFree, UsedHits, NextIndex, FreeCount, Chain
<1> QED BY <1>1, <1>2, <1>3, AdmitAffordable DEF Next

\* allocate never finds the free list empty (block_manager.py:101) nor an entry
\* gone that can_allocate found: the count can_allocate makes is enough.
THEOREM AllocateSucceeds == Spec => []AllocateNeverFails
<1>1. Init => EnoughFree
  BY DEF Init, BlockManagerInit, NoCall, EnoughFree
<1>2. IInv /\ EnoughFree => AllocateNeverFails
  <2> SUFFICES ASSUME IInv, EnoughFree, call.op = "allocate"
               PROVE  LET i == NextIndex(call.seq) IN
                      /\ i <= call.hits => Chain(call.seq, i) \in DOMAIN hashToBlock
                      /\ i > call.hits /\ i <= call.target => FreeCount > 0
    BY DEF AllocateNeverFails
  <2> DEFINE i == NextIndex(call.seq)
  <2>1. /\ call.hits \in Nat /\ call.target \in Nat /\ Len(blockTable[call.seq]) \in Nat
        /\ i = Len(blockTable[call.seq]) + 1
    BY AllocateFacts DEF NextIndex
  <2> HIDE DEF i
  <2>2. i <= call.hits => Chain(call.seq, i) \in DOMAIN hashToBlock
    BY <2>1 DEF IInv, CallOk
  <2>3. ASSUME i > call.hits, i <= call.target
        PROVE  FreeCount > 0
    <3>1. UsedHits(call.seq) = {}
      BY <2>1, <2>3 DEF UsedHits, i
    <3>2. Cardinality(UsedHits(call.seq)) = 0
      BY <3>1, FS_EmptySet
    <3> QED BY <2>1, <2>3, <3>2, UsedHitsFinite DEF EnoughFree
  <2> QED BY <2>2, <2>3 DEF i
<1> QED BY <1>1, <1>2, NextEnoughFree, Invariance, PTL DEF Spec

============================================================================
