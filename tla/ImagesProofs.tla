----------------------------- MODULE ImagesProofs -----------------------------
(***************************************************************************)
(* Proofs about internal/xoras/images: the proxy of MetadataProxy, for any *)
(* number of readers and descriptors, any limit and any answers of         *)
(* storage, and the walk of ImageWalk, for any graph of descriptors and    *)
(* any changes that others make to it while the walk runs.                 *)
(***************************************************************************)
EXTENDS MetadataProxy, ImageWalk, SequenceTheorems, TLAPS

-----------------------------------------------------------------------------
(* The proxy.                                                              *)

\* What a reader at work knows: it has not read more than its descriptor
\* declares, and what it reads from the cache is there.
Reading ==
  \A r \in Readers : phase[r] = "reading" =>
    /\ desc[r] \in Sizes /\ desc[r] <= Limit
    /\ pos[r] <= desc[r] /\ checked[r] = "none"
    /\ ~tee[r] => content[desc[r]] # NoData

\* What a reader has accepted was of a descriptor.
Accepted == \A r \in Readers : checked[r] = "accepted" => desc[r] \in Sizes

ProxyInv == ProxyTypeOK /\ Reading /\ Accepted /\ CacheWhole /\ AcceptedIsKept

\* Data in the cache is never replaced or dropped by a step.
Keeps == \A d \in Sizes : content[d] # NoData => content'[d] = content[d]

-----------------------------------------------------------------------------

LEMMA Initially == ProxyInit => ProxyInv
  BY ProxyAssumption
  DEF ProxyInit, ProxyInv, ProxyTypeOK, Reading, Accepted, CacheWhole, AcceptedIsKept, Data, NotAsked

\* A reader that starts, on data of storage or of the cache.
LEMMA BeginSafe ==
  ASSUME ProxyInv, NEW r \in Readers, NEW d \in Sizes, NEW fromStorage \in BOOLEAN, NEW data \in Data,
         d <= Limit, ~fromStorage => content[d] # NoData,
         Begin(r, d, fromStorage, data)
  PROVE  ProxyInv' /\ Keeps
<1> USE ProxyAssumption DEF ProxyInv, Begin
<1>1. ProxyTypeOK' BY DEF ProxyTypeOK
<1>2. Reading' BY DEF ProxyTypeOK, Reading
<1>3. Accepted' BY DEF ProxyTypeOK, Accepted
<1>4. CacheWhole' BY DEF CacheWhole
<1>5. AcceptedIsKept' BY DEF ProxyTypeOK, AcceptedIsKept
<1>6. Keeps BY DEF Keeps
<1> QED BY <1>1, <1>2, <1>3, <1>4, <1>5, <1>6

\* A reader that ends without success leaves everything else as it is.
LEMMA FailedEndSafe ==
  ASSUME ProxyInv, NEW r \in Readers, End(r, "failed"), UNCHANGED content
  PROVE  ProxyInv' /\ Keeps
<1> USE DEF ProxyInv, End
<1>1. ProxyTypeOK' BY DEF ProxyTypeOK
<1>2. Reading' BY DEF ProxyTypeOK, Reading
<1>3. Accepted' BY DEF ProxyTypeOK, Accepted
<1>4. CacheWhole' BY DEF CacheWhole
<1>5. AcceptedIsKept' BY DEF ProxyTypeOK, AcceptedIsKept
<1>6. Keeps BY DEF Keeps
<1> QED BY <1>1, <1>2, <1>3, <1>4, <1>5, <1>6

LEMMA FetchFailsSafe ==
  ASSUME ProxyInv, NEW r \in Readers, NEW d \in Sizes, FetchFails(r, d)
  PROVE  ProxyInv' /\ Keeps
<1> USE ProxyAssumption DEF ProxyInv, FetchFails
<1>1. ProxyTypeOK' BY DEF ProxyTypeOK
<1>2. Reading' BY DEF ProxyTypeOK, Reading
<1>3. Accepted' BY DEF ProxyTypeOK, Accepted
<1>4. CacheWhole' BY DEF CacheWhole
<1>5. AcceptedIsKept' BY DEF ProxyTypeOK, AcceptedIsKept
<1>6. Keeps BY DEF Keeps
<1> QED BY <1>1, <1>2, <1>3, <1>4, <1>5, <1>6

\* A reader takes a byte that its descriptor still has room for.
LEMMA ByteSafe ==
  ASSUME ProxyInv, NEW r \in Readers, phase[r] = "reading", pos[r] # desc[r],
         pos' = [pos EXCEPT ![r] = @ + 1],
         UNCHANGED <<content, phase, desc, tee, stream, checked>>
  PROVE  ProxyInv' /\ Keeps
<1> USE ProxyAssumption DEF ProxyInv
<1>1. ProxyTypeOK' BY DEF ProxyTypeOK
<1>2. Reading'
  <2>1. pos[r] \in Nat /\ desc[r] \in Nat /\ pos[r] <= desc[r]
    BY DEF ProxyTypeOK, Reading
  <2>2. pos[r] + 1 <= desc[r] BY <2>1
  <2>3. /\ pos'[r] = pos[r] + 1
        /\ \A q \in Readers \ {r} : pos'[q] = pos[q]
    BY DEF ProxyTypeOK
  <2> QED BY <2>2, <2>3 DEF Reading
<1>3. Accepted' BY DEF ProxyTypeOK, Accepted
<1>4. CacheWhole' BY DEF CacheWhole
<1>5. AcceptedIsKept' BY DEF ProxyTypeOK, AcceptedIsKept
<1>6. Keeps BY DEF Keeps
<1> QED BY <1>1, <1>2, <1>3, <1>4, <1>5, <1>6

\* The end of a stream: what is kept is of the declared size.
LEMMA ReadEndSafe ==
  ASSUME ProxyInv, NEW r \in Readers, ReadEnd(r)
  PROVE  ProxyInv' /\ Keeps
<1> DEFINE kept == tee[r] /\ pos[r] = desc[r] /\ content[desc[r]] = NoData
           data == [len |-> pos[r], genuine |-> stream[r].genuine]
           result == IF pos[r] = desc[r] /\ stream[r].genuine THEN "accepted" ELSE "failed"
<1>1. /\ desc[r] \in Sizes /\ desc[r] <= Limit /\ pos[r] \in Nat
      /\ ~tee[r] => content[desc[r]] # NoData
  BY DEF ProxyInv, ProxyTypeOK, Reading, ReadEnd
<1>2. data \in Data
  <2>1. stream[r] \in Data BY DEF ProxyInv, ProxyTypeOK
  <2>2. pos[r] \in 0..Longest
    BY <1>1, <2>1, ProxyAssumption DEF ReadEnd, Readable, Data
  <2> QED BY <2>1, <2>2 DEF Data
<1>3. data # NoData BY <1>2, ProxyAssumption
<1>4. content' = IF kept THEN [content EXCEPT ![desc[r]] = data] ELSE content
  BY DEF ReadEnd
<1>5. /\ phase' = [phase EXCEPT ![r] = "idle"] /\ checked' = [checked EXCEPT ![r] = result]
      /\ UNCHANGED <<desc, tee, stream, pos>>
  BY DEF ReadEnd, End
<1>6. content \in [Sizes -> Data \union {NoData}] BY DEF ProxyInv, ProxyTypeOK
<1>7. \A d \in Sizes : content[d] # NoData => content'[d] = content[d]
  BY <1>1, <1>4, <1>6
<1>8. result = "accepted" => content'[desc[r]] # NoData /\ pos[r] = desc[r] /\ stream[r].genuine
  BY <1>1, <1>3, <1>4, <1>6
<1> HIDE DEF kept, data, result
<1>9. result \in {"accepted", "failed"} BY DEF result
<1>10. ProxyTypeOK'
  <2>1. content' \in [Sizes -> Data \union {NoData}] BY <1>1, <1>2, <1>4, <1>6
  <2> QED BY <2>1, <1>5, <1>9 DEF ProxyInv, ProxyTypeOK
<1>11. Reading' BY <1>1, <1>5, <1>7 DEF ProxyInv, ProxyTypeOK, Reading
<1>12. Accepted' BY <1>1, <1>5 DEF ProxyInv, ProxyTypeOK, Accepted
<1>13. CacheWhole'
  <2>1. kept => data.len = desc[r] BY DEF kept, data
  <2> QED BY <1>1, <1>4, <1>6, <2>1 DEF ProxyInv, CacheWhole
<1>14. AcceptedIsKept'
  BY <1>5, <1>7, <1>8 DEF ProxyInv, ProxyTypeOK, Accepted, AcceptedIsKept
<1> QED BY <1>7, <1>10, <1>11, <1>12, <1>13, <1>14 DEF ProxyInv, Keeps

LEMMA StepSafe == ProxyInv /\ [ProxyNext]_proxyVars => ProxyInv' /\ Keeps
<1> SUFFICES ASSUME ProxyInv, [ProxyNext]_proxyVars PROVE ProxyInv' /\ Keeps
  OBVIOUS
<1>1. CASE UNCHANGED proxyVars
  BY <1>1 DEF proxyVars, ProxyInv, ProxyTypeOK, Reading, Accepted, CacheWhole, AcceptedIsKept, Keeps, Readable
<1>2. ASSUME NEW r \in Readers, NEW d \in Sizes, FetchCached(r, d) PROVE ProxyInv' /\ Keeps
  <2>1. content[d] \in Data BY <1>2 DEF FetchCached, ProxyInv, ProxyTypeOK
  <2> QED BY <1>2, <2>1, BeginSafe DEF FetchCached
<1>3. ASSUME NEW r \in Readers, NEW d \in Sizes, NEW data \in Data, FetchStored(r, d, data)
      PROVE  ProxyInv' /\ Keeps
  BY <1>3, BeginSafe DEF FetchStored
<1>4. ASSUME NEW r \in Readers, NEW d \in Sizes, FetchFails(r, d) PROVE ProxyInv' /\ Keeps
  BY <1>4, FetchFailsSafe
<1>5. ASSUME NEW r \in Readers, Read(r) PROVE ProxyInv' /\ Keeps
  BY <1>5, ByteSafe, FailedEndSafe DEF Read
<1>6. ASSUME NEW r \in Readers, ReadEnd(r) PROVE ProxyInv' /\ Keeps
  BY <1>6, ReadEndSafe
<1>7. ASSUME NEW r \in Readers, CloseEarly(r) PROVE ProxyInv' /\ Keeps
  BY <1>7, FailedEndSafe DEF CloseEarly
<1> QED BY <1>1, <1>2, <1>3, <1>4, <1>5, <1>6, <1>7 DEF ProxyNext

-----------------------------------------------------------------------------

\* The invariant holds whatever the readers do (metadataProxy.Fetch).
THEOREM Invariance == ProxySpec => []ProxyInv
  BY Initially, StepSafe, PTL DEF ProxySpec

\* Every variable of the proxy keeps its type (metadataProxy).
THEOREM TypeCorrect == ProxySpec => []ProxyTypeOK
  BY Invariance, PTL DEF ProxyInv

\* However many goroutines read through the proxy, give up or are sent too little
\* or too much, what it keeps is of the size that the descriptor declares, within
\* the limit (metadataProxy.Fetch).
THEOREM CacheIsWhole == ProxySpec => []CacheWhole
  BY Invariance, PTL DEF ProxyInv

\* What a reader has accepted is genuine and kept (metadataProxy.Fetch).
THEOREM AcceptedStays == ProxySpec => []AcceptedIsKept
  BY Invariance, PTL DEF ProxyInv

\* The first of several readers of a manifest decides what is kept, for good
\* (LoadOrStore in metadataProxy.Fetch).
THEOREM FirstWins == ProxySpec => KeptForGood
<1>1. ProxyInv /\ [ProxyNext]_proxyVars => [Keeps]_proxyVars
  BY StepSafe
<1>2. ProxySpec => [][Keeps]_proxyVars
  BY <1>1, Invariance, PTL DEF ProxySpec
<1> QED BY <1>2 DEF KeptForGood, Keeps

-----------------------------------------------------------------------------
(* The order of places.                                                    *)

Positions == Nat \ {0}

LEMMA PrefixByPlace ==
  ASSUME NEW p \in Seq(Positions), NEW q \in Seq(Positions)
  PROVE  IsPrefix(p, q) <=> Len(p) <= Len(q) /\ \A i \in 1..Len(p) : p[i] = q[i]
<1>1. SubSeq(p, 1, Len(p)) = p BY SubSeqFull
<1>2. CASE Len(p) <= Len(q)
  <2>1. \A i \in 1..Len(p) : q[i] \in Positions BY <1>2
  <2>2. /\ SubSeq(q, 1, Len(p)) \in Seq(Positions)
        /\ Len(SubSeq(q, 1, Len(p))) = IF 1 <= Len(p) THEN Len(p) - 1 + 1 ELSE 0
        /\ \A i \in 1..(Len(p) - 1 + 1) : SubSeq(q, 1, Len(p))[i] = q[1 + i - 1]
    BY <2>1, SubSeqProperties
  <2> DEFINE s == SubSeq(q, 1, Len(p))
  <2>3. s \in Seq(Positions) /\ Len(s) = Len(p) /\ \A i \in 1..Len(p) : s[i] = q[i] BY <2>2
  <2>4. (p = s) <=> \A i \in 1..Len(p) : p[i] = q[i]
    <3> HIDE DEF s
    <3>1. ASSUME \A i \in 1..Len(p) : p[i] = q[i] PROVE p = s
      BY <2>3, <3>1, SeqEqual
    <3> QED BY <2>3, <3>1
  <2> QED BY <1>1, <1>2, <2>4 DEF IsPrefix
<1>3. CASE ~(Len(p) <= Len(q)) BY <1>3 DEF IsPrefix
<1> QED BY <1>2, <1>3

\* Of p and q, q comes first at place i.
Branches(q, p, i) == i \in DOMAIN q \intersect DOMAIN p /\ q[i] < p[i] /\ \A j \in 1..(i - 1) : q[j] = p[j]

LEMMA EarlierByPlace ==
  ASSUME NEW p \in Seq(Positions), NEW q \in Seq(Positions)
  PROVE  Earlier(q, p) <=> (IsPrefix(q, p) /\ q # p) \/ \E i \in DOMAIN q \intersect DOMAIN p : Branches(q, p, i)
BY DEF Earlier, IsStrictPrefix, Branches

\* Into an index, to its first entry: only the index comes to be earlier.
LEMMA EarlierInto ==
  ASSUME NEW p \in Seq(Positions), NEW q \in Seq(Positions), Earlier(q, Append(p, 1))
  PROVE  Earlier(q, p) \/ q = p
<1> DEFINE t == Append(p, 1)
<1>1. t \in Seq(Positions) /\ Len(t) = Len(p) + 1 /\ t[Len(p) + 1] = 1 /\ \A i \in 1..Len(p) : t[i] = p[i]
  BY DEF Positions
<1>2. CASE IsPrefix(q, t) /\ q # t
  <2>1. Len(q) <= Len(t) /\ \A i \in 1..Len(q) : q[i] = t[i] BY <1>1, <1>2, PrefixByPlace
  <2>2. Len(q) # Len(t) 
    <3> HIDE DEF t
    <3> QED BY <1>1, <1>2, <2>1, SeqEqual
  <2>3. IsPrefix(q, p) BY <1>1, <2>1, <2>2, PrefixByPlace
  <2> QED BY <2>3, EarlierByPlace
<1>3. CASE \E i \in DOMAIN q \intersect DOMAIN t : Branches(q, t, i)
  <2> PICK i \in DOMAIN q \intersect DOMAIN t : Branches(q, t, i) BY <1>3
  <2>1. i \in 1..Len(q) /\ i \in 1..(Len(p) + 1) /\ q[i] < t[i] /\ \A j \in 1..(i - 1) : q[j] = t[j]
    <3> HIDE DEF t
    <3> QED BY <1>1 DEF Branches
  <2>2. i # Len(p) + 1
    BY <1>1, <2>1 DEF Positions
  <2>3. i \in DOMAIN q \intersect DOMAIN p /\ Branches(q, p, i)
    <3> HIDE DEF t
    <3> QED BY <1>1, <2>1, <2>2 DEF Branches
  <2> QED BY <2>3, EarlierByPlace
<1> QED
  <2> HIDE DEF t
  <2> QED BY <1>1, <1>2, <1>3, EarlierByPlace DEF t

\* From an entry to the next: what is below the entry comes to be earlier.
LEMMA EarlierNext ==
  ASSUME NEW p \in Seq(Positions), NEW q \in Seq(Positions), NEW i \in Positions,
         Earlier(q, Append(p, i + 1))
  PROVE  Earlier(q, Append(p, i)) \/ IsPrefix(Append(p, i), q)
<1> DEFINE t == Append(p, i + 1)
           s == Append(p, i)
<1>1. /\ t \in Seq(Positions) /\ Len(t) = Len(p) + 1 /\ t[Len(p) + 1] = i + 1 /\ \A k \in 1..Len(p) : t[k] = p[k]
      /\ s \in Seq(Positions) /\ Len(s) = Len(p) + 1 /\ s[Len(p) + 1] = i /\ \A k \in 1..Len(p) : s[k] = p[k]
  BY DEF Positions
<1> SUFFICES ASSUME Earlier(q, t) PROVE Earlier(q, s) \/ IsPrefix(s, q)
  OBVIOUS
<1> HIDE DEF s, t
<1>2. CASE IsPrefix(q, t) /\ q # t
  <2>1. Len(q) <= Len(t) /\ \A k \in 1..Len(q) : q[k] = t[k] BY <1>1, <1>2, PrefixByPlace
  <2>2. Len(q) # Len(t) BY <1>1, <1>2, <2>1, SeqEqual
  <2>3. Len(q) <= Len(s) /\ q # s /\ \A k \in 1..Len(q) : q[k] = s[k] BY <1>1, <2>1, <2>2
  <2>4. IsPrefix(q, s) BY <1>1, <2>3, PrefixByPlace
  <2> QED BY <1>1, <2>3, <2>4, EarlierByPlace
<1>3. CASE \E k \in DOMAIN q \intersect DOMAIN t : Branches(q, t, k)
  <2> PICK k \in DOMAIN q \intersect DOMAIN t : Branches(q, t, k) BY <1>3
  <2>1. k \in 1..Len(q) /\ k \in 1..(Len(p) + 1) /\ q[k] < t[k] /\ \A j \in 1..(k - 1) : q[j] = t[j]
    BY <1>1 DEF Branches
  <2>2. CASE k = Len(p) + 1 /\ q[k] = i
    <3>1. Len(s) <= Len(q) /\ \A j \in 1..Len(s) : s[j] = q[j] BY <1>1, <2>1, <2>2
    <3> QED BY <1>1, <3>1, PrefixByPlace
  <2>3. CASE ~(k = Len(p) + 1 /\ q[k] = i)
    <3>1. q[k] < s[k]
      <4>1. CASE k \in 1..Len(p)
        BY <1>1, <2>1, <4>1
      <4>2. CASE k = Len(p) + 1
        <5>1. q[k] \in Nat /\ i \in Nat BY <2>1 DEF Positions
        <5>2. q[k] < i + 1 /\ q[k] # i BY <1>1, <2>1, <2>3, <4>2
        <5> QED BY <1>1, <4>2, <5>1, <5>2
      <4> QED BY <2>1, <4>1, <4>2
    <3>2. k \in DOMAIN q \intersect DOMAIN s /\ Branches(q, s, k)
      BY <1>1, <2>1, <3>1 DEF Branches
    <3> QED BY <1>1, <3>2, EarlierByPlace
  <2> QED BY <2>2, <2>3
<1> QED BY <1>1, <1>2, <1>3, EarlierByPlace

\* Back from the last entry to the index: all that is below the index was earlier.
LEMMA EarlierBack ==
  ASSUME NEW p \in Seq(Positions), NEW q \in Seq(Positions), NEW i \in Positions,
         IsStrictPrefix(p, q) => q[Len(p) + 1] <= i,
         Earlier(q, p) \/ IsPrefix(p, q)
  PROVE  Earlier(q, Append(p, i)) \/ IsPrefix(Append(p, i), q)
<1> DEFINE s == Append(p, i)
<1>1. s \in Seq(Positions) /\ Len(s) = Len(p) + 1 /\ s[Len(p) + 1] = i /\ \A k \in 1..Len(p) : s[k] = p[k]
  BY DEF Positions
<1> SUFFICES Earlier(q, s) \/ IsPrefix(s, q)
  OBVIOUS
<1> HIDE DEF s
<1>2. CASE IsPrefix(q, p)
  <2>1. Len(q) <= Len(p) /\ \A k \in 1..Len(q) : q[k] = p[k] BY <1>2, PrefixByPlace
  <2>2. IsPrefix(q, s) /\ q # s BY <1>1, <2>1, PrefixByPlace
  <2> QED BY <1>1, <2>2, EarlierByPlace
<1>3. CASE \E k \in DOMAIN q \intersect DOMAIN p : Branches(q, p, k)
  <2> PICK k \in DOMAIN q \intersect DOMAIN p : Branches(q, p, k) BY <1>3
  <2>1. k \in DOMAIN q \intersect DOMAIN s /\ Branches(q, s, k)
    BY <1>1 DEF Branches
  <2> QED BY <1>1, <2>1, EarlierByPlace
<1>4. CASE IsPrefix(p, q) /\ p # q
  <2>1. Len(p) <= Len(q) /\ \A k \in 1..Len(p) : p[k] = q[k] BY <1>4, PrefixByPlace
  <2>2. Len(p) # Len(q) BY <1>4, <2>1, SeqEqual
  <2>3. q[Len(p) + 1] <= i BY <1>4 DEF IsStrictPrefix
  <2>4. CASE q[Len(p) + 1] = i
    <3>1. Len(s) <= Len(q) /\ \A j \in 1..Len(s) : s[j] = q[j] BY <1>1, <2>1, <2>2, <2>4
    <3> QED BY <1>1, <3>1, PrefixByPlace
  <2>5. CASE q[Len(p) + 1] < i
    <3>1. Len(p) + 1 \in DOMAIN q \intersect DOMAIN s BY <1>1, <2>1, <2>2
    <3>2. Branches(q, s, Len(p) + 1) BY <1>1, <2>1, <2>5, <3>1 DEF Branches
    <3> QED BY <1>1, <3>1, <3>2, EarlierByPlace
  <2>6. q[Len(p) + 1] \in Nat /\ i \in Nat BY <2>1, <2>2 DEF Positions
  <2> QED BY <2>3, <2>4, <2>5, <2>6
<1>5. p = q => IsPrefix(q, p) BY PrefixByPlace
<1> QED BY <1>2, <1>3, <1>4, <1>5, EarlierByPlace

-----------------------------------------------------------------------------
(* The descriptor at a place.                                              *)

entryOf(k, d, i) == Entry(d, i)
ByEntry == INSTANCE FoldFacts WITH op <- entryOf

LEMMA NodeFold == \A p : Node(p) = ByEntry!Fold(0, root, p)
<1> SUFFICES ASSUME NEW p PROVE Node(p) = ByEntry!Fold(0, root, p)
  OBVIOUS
<1> QED BY DEF Node, FoldLeft, MapThenFoldSet, Max, entryOf, ByEntry!Fold, ByEntry!FoldLeft,
     ByEntry!MapThenFoldSet, ByEntry!Max

LEMMA NodeRoot == Node(<<>>) = root
<1>1. ByEntry!Fold(0, root, <<>>) = root BY ByEntry!FoldEmpty
<1> QED BY <1>1, NodeFold

LEMMA NodeEntry ==
  ASSUME NEW p \in Seq(Positions), NEW i \in Positions
  PROVE  Node(Append(p, i)) = Node(p).manifests[i]
<1>1. ByEntry!Fold(0, root, Append(p, i)) = entryOf(0, ByEntry!Fold(0, root, p), i)
  BY ByEntry!FoldAppend
<1>2. Node(Append(p, i)) = entryOf(0, Node(p), i) BY <1>1, NodeFold
<1> QED BY <1>2 DEF entryOf, Entry

LEMMA UptoPlace ==
  ASSUME NEW p \in Seq(Positions), NEW n \in 0..Len(p)
  PROVE  /\ Upto(p, n) \in Seq(Positions) /\ Len(Upto(p, n)) = n
         /\ \A i \in 1..n : Upto(p, n)[i] = p[i]
<1>1. \A i \in 1..n : p[i] \in Positions OBVIOUS
<1>2. /\ SubSeq(p, 1, n) \in Seq(Positions)
      /\ Len(SubSeq(p, 1, n)) = IF 1 <= n THEN n - 1 + 1 ELSE 0
      /\ \A i \in 1..(n - 1 + 1) : SubSeq(p, 1, n)[i] = p[1 + i - 1]
  BY <1>1, SubSeqProperties
<1> QED BY <1>1, <1>2 DEF Upto

LEMMA UptoPrefix ==
  ASSUME NEW p \in Seq(Positions), NEW q \in Seq(Positions), IsPrefix(p, q), NEW n \in 0..Len(p)
  PROVE  Upto(q, n) = Upto(p, n)
<1>1. Len(p) <= Len(q) /\ \A i \in 1..Len(p) : p[i] = q[i] BY PrefixByPlace
<1>2. n \in 0..Len(q) BY <1>1
<1> DEFINE s == Upto(p, n)
           t == Upto(q, n)
<1>3. /\ s \in Seq(Positions) /\ Len(s) = n /\ \A i \in 1..n : s[i] = p[i]
      /\ t \in Seq(Positions) /\ Len(t) = n /\ \A i \in 1..n : t[i] = q[i]
  BY <1>2, UptoPlace
<1> HIDE DEF s, t
<1>4. \A i \in 1..n : s[i] = t[i] BY <1>1, <1>3
<1>5. s = t BY <1>3, <1>4, SeqEqual
<1> QED BY <1>5 DEF s, t

LEMMA UptoAll ==
  ASSUME NEW p \in Seq(Positions)
  PROVE  Upto(p, Len(p)) = p
BY SubSeqFull DEF Upto

\* An entry's place, and the index it is of.
LEMMA EntryPlace ==
  ASSUME NEW p \in Seq(Positions), NEW i \in Positions
  PROVE  /\ Append(p, i) \in Seq(Positions) /\ Len(Append(p, i)) = Len(p) + 1
         /\ Append(p, i)[Len(p) + 1] = i
         /\ \A n \in 0..Len(p) : Upto(Append(p, i), n) = Upto(p, n)
<1> DEFINE t == Append(p, i)
<1>1. t \in Seq(Positions) /\ Len(t) = Len(p) + 1 /\ t[Len(p) + 1] = i /\ \A k \in 1..Len(p) : t[k] = p[k]
  OBVIOUS
<1>2. IsPrefix(p, t)
  <2> HIDE DEF t
  <2> QED BY <1>1, PrefixByPlace
<1>3. \A n \in 0..Len(p) : Upto(t, n) = Upto(p, n)
  <2> HIDE DEF t
  <2> QED BY <1>1, <1>2, UptoPrefix
<1> QED BY <1>1, <1>3

LEMMA FrontPlace ==
  ASSUME NEW p \in Seq(Positions), p # <<>>
  PROVE  /\ Front(p) \in Seq(Positions) /\ Last(p) \in Positions /\ Len(Front(p)) = Len(p) - 1
         /\ p = Append(Front(p), Last(p)) /\ Front(p) = Upto(p, Len(p) - 1)
         /\ Last(p) = p[Len(p)]
<1>1. Len(p) - 1 \in 0..Len(p) /\ Len(p) \in 1..Len(p) BY EmptySeq
<1> DEFINE s == Upto(p, Len(p) - 1)
<1>2. s \in Seq(Positions) /\ Len(s) = Len(p) - 1 /\ \A i \in 1..(Len(p) - 1) : s[i] = p[i]
  BY <1>1, UptoPlace
<1>3. Front(p) = s BY DEF Front, Upto
<1>4. Last(p) = p[Len(p)] /\ Last(p) \in Positions BY <1>1 DEF Last
<1> HIDE DEF s
<1> DEFINE t == Append(s, Last(p))
<1>5. t \in Seq(Positions) /\ Len(t) = Len(p) /\ \A i \in 1..Len(p) : t[i] = p[i]
  BY <1>1, <1>2, <1>4
<1>6. p = t
  <2> HIDE DEF t
  <2> QED BY <1>5, SeqEqual
<1> QED BY <1>2, <1>3, <1>4, <1>6 DEF s

-----------------------------------------------------------------------------
(* The inductive invariant of the walk.                                    *)

\* The walk has gone through indexes that could be read.
OnTheWay ==
  /\ Node(at) \in Descs
  /\ \A n \in 0..(Len(at) - 1) : Enters(Node(Upto(at, n)), at[n + 1], Maybe("ok"))

\* The walk is past a place.
Passed(p) == Earlier(p, at) \/ (left /\ IsPrefix(at, p))

\* Every image it is past has been yielded, and it is past no error.
Met ==
  answer = "none" =>
    \A p \in Places : Passed(p) => (SureImage(p) => p \in found) /\ ~SureError(p)

\* What has been yielded could be read; only a listing goes on after an image.
Yielded ==
  /\ \A p \in found : ImageIn(p, Maybe("ok"))
  /\ ~listing => found = IF answer = "image" THEN {at} ELSE {}

WalkInv == WalkTypeOK /\ OnTheWay /\ Met /\ Yielded /\ FirstImageIsFound

LEMMA PlacesAre == Places \subseteq Seq(Positions)
<1>1. \A m \in Nat : 1..m \subseteq Positions BY DEF Positions
<1> QED BY <1>1, WalkAssumption DEF Places, SeqOf

\* A place below p is reached through p.
LEMMA ReachedThrough ==
  ASSUME NEW p \in Seq(Positions), NEW q \in Seq(Positions), NEW S,
         IsPrefix(p, q), p # q, Reached(q, S)
  PROVE  Enters(Node(p), q[Len(p) + 1], S)
<1>1. Len(p) <= Len(q) /\ \A i \in 1..Len(p) : p[i] = q[i] BY PrefixByPlace
<1>2. Len(p) # Len(q) BY <1>1, SeqEqual
<1>3. Len(p) \in 0..(Len(q) - 1) BY <1>1, <1>2
<1>4. Upto(q, Len(p)) = p
  <2>1. Len(p) \in 0..Len(p) OBVIOUS
  <2> QED BY <2>1, UptoPrefix, UptoAll
<1> QED BY <1>3, <1>4 DEF Reached

LEMMA ReachedHere ==
  ASSUME WalkTypeOK, OnTheWay, Node(at).media \in Walked
  PROVE  Reached(at, Maybe("ok"))
BY DEF OnTheWay, Reached

\* A step that does not change the graph changes none of what the properties say of
\* places.
LEMMA SameGraph ==
  ASSUME UNCHANGED <<root, accepted, changed>>
  PROVE  /\ \A p : Node(p)' = Node(p)
         /\ \A d, i : Enters(d, i, Maybe("ok"))' = Enters(d, i, Maybe("ok"))
         /\ \A p : SureImage(p)' = SureImage(p) /\ SureError(p)' = SureError(p)
         /\ \A p : ImageIn(p, Maybe("ok"))' = ImageIn(p, Maybe("ok"))
         /\ \A p : UnreadableIn(p, Maybe("ok"), Maybe("broken"))' = UnreadableIn(p, Maybe("ok"), Maybe("broken"))
<1>1. \A p : Node(p)' = Node(p) BY DEF Node
<1>2. \A st : Surely(st)' = Surely(st) /\ Maybe(st)' = Maybe(st) BY DEF Surely, Maybe
<1>3. \A d, i, S : Enters(d, i, S)' = Enters(d, i, S) BY DEF Enters
<1>4. \A d, i : Enters(d, i, Maybe("ok"))' = Enters(d, i, Maybe("ok")) BY <1>2 DEF Enters
<1>5. \A d, i : Enters(d, i, Surely("ok"))' = Enters(d, i, Surely("ok")) BY <1>2 DEF Enters
<1>6. \A p : Reached(p, Maybe("ok"))' = Reached(p, Maybe("ok")) BY <1>1, <1>2, <1>3 DEF Reached
<1>7. \A p : Reached(p, Surely("ok"))' = Reached(p, Surely("ok")) BY <1>1, <1>2, <1>3 DEF Reached
<1>8. \A p : SureImage(p)' = SureImage(p) BY <1>1, <1>2, <1>7 DEF SureImage, ImageIn
<1>9. \A p : SureError(p)' = SureError(p) BY <1>1, <1>2, <1>7 DEF SureError, UnreadableIn
<1>10. \A p : ImageIn(p, Maybe("ok"))' = ImageIn(p, Maybe("ok")) BY <1>1, <1>2, <1>6 DEF ImageIn
<1>11. \A p : UnreadableIn(p, Maybe("ok"), Maybe("broken"))' = UnreadableIn(p, Maybe("ok"), Maybe("broken"))
  BY <1>1, <1>2, <1>6 DEF UnreadableIn
<1> QED BY <1>1, <1>4, <1>8, <1>9, <1>10, <1>11

LEMMA StaysOnTheWay ==
  ASSUME OnTheWay, UNCHANGED <<root, accepted, at, changed>>
  PROVE  OnTheWay'
<1>1. /\ \A p : Node(p)' = Node(p)
      /\ \A d, i : Enters(d, i, Maybe("ok"))' = Enters(d, i, Maybe("ok"))
  BY SameGraph
<1>2. \A n : Node(Upto(at, n))' = Node(Upto(at, n)) /\ Node(at)' = Node(at) BY <1>1 DEF Upto
<1> QED BY <1>1, <1>2 DEF OnTheWay, Upto

LEMMA WalkInitially == WalkInit => WalkInv
<1> SUFFICES ASSUME WalkInit PROVE WalkInv
  OBVIOUS
<1>1. WalkTypeOK
  <2>1. root \in Descs BY WalkAssumption DEF WalkInit
  <2>2. listing \in BOOLEAN /\ accepted \subseteq Platforms
    <3>1. \A want : MatchPlatform(want) \subseteq Platforms BY DEF MatchPlatform
    <3> QED BY <3>1 DEF WalkInit
  <2>3. at \in Seq(Nat \ {0}) /\ left \in BOOLEAN /\ found \subseteq Seq(Nat \ {0}) /\ changed \subseteq Descs
    <3>1. <<>> \in Seq(Nat \ {0}) OBVIOUS
    <3>2. at = <<>> /\ left = FALSE /\ found = {} /\ changed = {} BY DEF WalkInit
    <3> QED BY <3>1, <3>2
  <2>4. answer = "none" BY DEF WalkInit
  <2> QED BY <2>1, <2>2, <2>3, <2>4 DEF WalkTypeOK
<1>2. OnTheWay
  <2>1. Len(at) = 0 /\ Node(at) = root BY NodeRoot DEF WalkInit
  <2> QED BY <1>1, <2>1 DEF OnTheWay, WalkTypeOK
<1>3. Met
  <2>1. ASSUME NEW p \in Seq(Positions) PROVE ~Earlier(p, <<>>)
    <3>1. ~(IsPrefix(p, <<>>) /\ p # <<>>)
      <4>1. ASSUME IsPrefix(p, <<>>) PROVE p = <<>>
        <5>1. Len(p) <= 0 BY <4>1 DEF IsPrefix
        <5> QED BY <5>1, EmptySeq
      <4> QED BY <4>1
    <3>2. DOMAIN p \intersect DOMAIN <<>> = {} OBVIOUS
    <3> QED BY <3>1, <3>2 DEF Earlier, IsStrictPrefix
  <2> QED BY <2>1, PlacesAre DEF Met, Passed, WalkInit
<1>4. Yielded BY DEF Yielded, WalkInit
<1>5. FirstImageIsFound BY DEF FirstImageIsFound, WalkInit
<1> QED BY <1>1, <1>2, <1>3, <1>4, <1>5 DEF WalkInv

-----------------------------------------------------------------------------
(* The steps.                                                              *)

\* The walk leaves a place: nothing below it can be an image or an error for sure.
LEMMA LeaveSafe ==
  ASSUME WalkInv, answer = "none", ~left, Leave,
         \A i : ~Enters(Node(at), i, Surely("ok")), ~SureError(at), SureImage(at) => at \in found',
         \/ found' = found
         \/ listing /\ found' = found \union {at} /\ ImageIn(at, Maybe("ok"))
  PROVE  WalkInv'
<1>1. /\ \A p : Node(p)' = Node(p)
      /\ \A d, i : Enters(d, i, Maybe("ok"))' = Enters(d, i, Maybe("ok"))
      /\ \A p : SureImage(p)' = SureImage(p) /\ SureError(p)' = SureError(p)
      /\ \A p : ImageIn(p, Maybe("ok"))' = ImageIn(p, Maybe("ok"))
  BY SameGraph DEF Leave
<1>2. at \in Seq(Positions) BY DEF WalkInv, WalkTypeOK, Positions
<1>3. WalkTypeOK' BY DEF WalkInv, WalkTypeOK, Leave
<1>4. OnTheWay' BY StaysOnTheWay DEF WalkInv, Leave
<1>5. Met'
  <2> SUFFICES ASSUME NEW p \in Places, Passed(p)'
               PROVE  (SureImage(p) => p \in found') /\ ~SureError(p)
    BY <1>1 DEF Met, Places
  <2>1. p \in Seq(Positions) BY PlacesAre
  <2>2. CASE Earlier(p, at)
    BY <2>2 DEF WalkInv, Met, Passed
  <2>3. CASE p = at BY <2>3
  <2>4. CASE IsPrefix(at, p) /\ p # at
    <3>1. \A S : Reached(p, S) => Enters(Node(at), p[Len(at) + 1], S)
      BY <1>2, <2>1, <2>4, ReachedThrough
    <3>2. ~Reached(p, Surely("ok")) BY <3>1
    <3> QED BY <3>2 DEF SureImage, ImageIn, SureError, UnreadableIn
  <2>5. Earlier(p, at) \/ IsPrefix(at, p) BY DEF Passed, Leave, Earlier, IsStrictPrefix, IsPrefix
  <2> QED BY <2>2, <2>3, <2>4, <2>5
<1>6. Yielded' BY <1>1 DEF WalkInv, Yielded, Leave
<1>7. FirstImageIsFound' BY <1>6 DEF Yielded, FirstImageIsFound, Leave
<1> QED BY <1>3, <1>4, <1>5, <1>6, <1>7 DEF WalkInv

\* The walk ends with the first image.
LEMMA ImageSafe ==
  ASSUME WalkInv, answer = "none", ~left, ~listing, Answer("image"),
         ImageIn(at, Maybe("ok")), found' = found \union {at}
  PROVE  WalkInv'
<1>1. /\ \A p : Node(p)' = Node(p)
      /\ \A d, i : Enters(d, i, Maybe("ok"))' = Enters(d, i, Maybe("ok"))
      /\ \A p : SureImage(p)' = SureImage(p) /\ SureError(p)' = SureError(p)
      /\ \A p : ImageIn(p, Maybe("ok"))' = ImageIn(p, Maybe("ok"))
  BY SameGraph DEF Answer
<1>2. found = {} /\ found' = {at} BY DEF WalkInv, Yielded
<1>3. WalkTypeOK' BY DEF WalkInv, WalkTypeOK, Answer
<1>4. OnTheWay' BY StaysOnTheWay DEF WalkInv, Answer
<1>5. Met' BY DEF Met, Answer
<1>6. Yielded' BY <1>1, <1>2 DEF Yielded, Answer
<1>7. FirstImageIsFound'
  <2>1. \A p \in Places : SureImage(p) \/ SureError(p) => ~Earlier(p, at)
    BY <1>2 DEF WalkInv, Met, Passed
  <2>2. \A p \in Places' : SureImage(p)' \/ SureError(p)' => ~Earlier(p, at')
    BY <1>1, <2>1 DEF Places, Answer
  <2> QED BY <1>1, <1>2, <1>6, <2>2 DEF FirstImageIsFound, Yielded, Answer
<1> QED BY <1>3, <1>4, <1>5, <1>6, <1>7 DEF WalkInv

\* The walk ends with what could not be read.
LEMMA ErrorSafe ==
  ASSUME WalkInv, answer = "none", ~left, Answer("error"), found' = found,
         UnreadableIn(at, Maybe("ok"), Maybe("broken"))
  PROVE  WalkInv'
<1>1. /\ \A p : Node(p)' = Node(p)
      /\ \A d, i : Enters(d, i, Maybe("ok"))' = Enters(d, i, Maybe("ok"))
      /\ \A p : SureImage(p)' = SureImage(p) /\ SureError(p)' = SureError(p)
      /\ \A p : ImageIn(p, Maybe("ok"))' = ImageIn(p, Maybe("ok"))
      /\ \A p : UnreadableIn(p, Maybe("ok"), Maybe("broken"))' = UnreadableIn(p, Maybe("ok"), Maybe("broken"))
  BY SameGraph DEF Answer
<1>3. WalkTypeOK' BY DEF WalkInv, WalkTypeOK, Answer
<1>4. OnTheWay' BY StaysOnTheWay DEF WalkInv, Answer
<1>5. Met' BY DEF Met, Answer
<1>6. Yielded' BY <1>1 DEF WalkInv, Yielded, Answer
<1>7. FirstImageIsFound'
  <2>1. \A p \in Places : Earlier(p, at) => (SureImage(p) => p \in found) /\ ~SureError(p)
    BY DEF WalkInv, Met, Passed
  <2>2. ~listing => found = {} BY DEF WalkInv, Yielded
  <2>3. \A p \in Places' : (SureImage(p)' \/ SureError(p)') /\ Earlier(p, at') => listing' /\ SureImage(p)'
    BY <1>1, <2>1, <2>2 DEF Places, Answer, WalkInv, WalkTypeOK
  <2>4. UnreadableIn(at, Maybe("ok"), Maybe("broken"))' BY <1>1 DEF Answer
  <2> QED BY <1>1, <1>6, <2>3, <2>4 DEF FirstImageIsFound, Yielded, Answer
<1> QED BY <1>3, <1>4, <1>5, <1>6, <1>7 DEF WalkInv


LEMMA YieldErrorSafe ==
  ASSUME WalkInv, answer = "none", ~left, NEW err, YieldError(Node(at), err),
         \/ Node(at).media \in Walked /\ err \in Reads(Node(at))
         \/ Node(at).media \notin Walked /\ at = <<>> /\ err = "unsupported"
  PROVE  WalkInv'
<1> DEFINE d == Node(at)
<1>1. d \in Descs /\ WalkTypeOK /\ OnTheWay /\ err # "ok" /\ found' = found
  BY DEF WalkInv, OnTheWay, YieldError
<1>2. d.media \in Walked /\ err = "missing" => d \notin Surely("ok") /\ d \notin Surely("broken")
  <2>1. d.media \in Walked => err \in Reads(d) OBVIOUS
  <2> HIDE DEF d
  <2> QED BY <2>1 DEF Reads, Surely
<1>3. CASE IgnoreImageOrIndexNotFound(d, err)
  <2>1. err = "missing" /\ d.media \in Walked /\ Leave
    BY <1>3 DEF IgnoreImageOrIndexNotFound, YieldError
  <2>2. d \notin Surely("ok") /\ d \notin Surely("broken") BY <1>2, <2>1
  <2>3. \A i : ~Enters(d, i, Surely("ok")) BY <2>2 DEF Enters
  <2>4. ~SureImage(at) /\ ~SureError(at) BY <2>1, <2>2 DEF SureImage, ImageIn, SureError, UnreadableIn
  <2> QED BY <1>1, <2>1, <2>3, <2>4, LeaveSafe
<1>4. CASE ~IgnoreImageOrIndexNotFound(d, err)
  <2>1. Answer("error") BY <1>4 DEF YieldError
  <2>2. CASE d.media \in Walked
    <3>1. err # "missing" BY <1>4, <2>2 DEF IgnoreImageOrIndexNotFound
    <3>2. d \in Maybe("broken")
      <4>1. err \in Reads(d) BY <2>2
      <4> HIDE DEF d
      <4> QED BY <1>1, <3>1, <4>1, WalkAssumption DEF Maybe, Reads
    <3>3. Reached(at, Maybe("ok")) BY <1>1, <2>2, ReachedHere
    <3>4. UnreadableIn(at, Maybe("ok"), Maybe("broken")) BY <3>2, <3>3 DEF UnreadableIn
    <3> QED BY <1>1, <2>1, <3>4, ErrorSafe
  <2>3. CASE d.media \notin Walked
    <3>1. at = <<>> /\ Len(at) = 0 BY <2>3
    <3>2. Reached(at, Maybe("ok")) BY <1>1, <3>1 DEF Reached
    <3>3. UnreadableIn(at, Maybe("ok"), Maybe("broken")) BY <2>3, <3>2 DEF UnreadableIn
    <3> QED BY <1>1, <2>1, <3>3, ErrorSafe
  <2> QED BY <2>2, <2>3
<1> QED BY <1>3, <1>4


LEMMA VisitOtherSafe ==
  ASSUME WalkInv, answer = "none", ~left, VisitOther(Node(at))
  PROVE  WalkInv'
<1> DEFINE d == Node(at)
<1>1. d.media \notin Walked BY DEF VisitOther
<1>2. CASE at # <<>> /\ Leave /\ UNCHANGED found
  <2>1. \A i : ~Enters(d, i, Surely("ok")) BY <1>1 DEF Enters, Walked
  <2>2. \A S : ~Reached(at, S) BY <1>1, <1>2 DEF Reached
  <2>3. ~SureImage(at) /\ ~SureError(at) BY <2>2 DEF SureImage, ImageIn, SureError, UnreadableIn
  <2> QED BY <1>2, <2>1, <2>3, LeaveSafe
<1>3. CASE at = <<>> /\ YieldError(d, "unsupported")
  BY <1>1, <1>3, YieldErrorSafe
<1> QED BY <1>2, <1>3 DEF VisitOther

\* The walk goes into an index that could be read.
LEMMA IntoIndexSafe ==
  ASSUME WalkInv, answer = "none", ~left, Node(at).media = "index", "ok" \in Reads(Node(at)),
         Node(at).manifests # <<>>, Node(at).platform \in accepted \union {NoPlatform},
         at' = Append(at, 1), UNCHANGED <<root, listing, accepted, left, found, answer, changed>>
  PROVE  WalkInv'
<1> DEFINE d == Node(at)
<1>1. /\ \A p : Node(p)' = Node(p)
      /\ \A n, i : Enters(n, i, Maybe("ok"))' = Enters(n, i, Maybe("ok"))
      /\ \A p : SureImage(p)' = SureImage(p) /\ SureError(p)' = SureError(p)
      /\ \A p : ImageIn(p, Maybe("ok"))' = ImageIn(p, Maybe("ok"))
  BY SameGraph
<1>2. at \in Seq(Positions) /\ 1 \in Positions /\ WalkTypeOK /\ OnTheWay /\ d \in Descs
  BY DEF WalkInv, WalkTypeOK, OnTheWay, Positions
<1>3. d.manifests \in Seq(Descs) /\ 1 \in DOMAIN d.manifests
  <2>1. d.manifests \in Seq(Descs) BY <1>2, WalkAssumption
  <2> QED BY <2>1, EmptySeq
<1>4. Enters(d, 1, Maybe("ok"))
  <2>1. d \in Maybe("ok")
    <3> HIDE DEF d
    <3> QED BY <1>2 DEF Maybe, Reads, d
  <2> QED BY <1>3, <2>1 DEF Enters
<1>5. /\ at' \in Seq(Positions) /\ Len(at') = Len(at) + 1 /\ at'[Len(at) + 1] = 1
      /\ \A n \in 0..Len(at) : Upto(at', n) = Upto(at, n)
      /\ \A n \in 1..Len(at) : at'[n] = at[n]
  BY <1>2, EntryPlace
<1>6. WalkTypeOK' BY <1>2, <1>5 DEF WalkTypeOK, Positions
<1>7. OnTheWay'
  <2>1. Node(at') = d.manifests[1] BY <1>2, NodeEntry
  <2>2. Node(at)' \in Descs'
    <3>1. Node(at)' = Node(at') BY <1>1 DEF Node
    <3> QED BY <1>3, <2>1, <3>1
  <2>3. ASSUME NEW n \in 0..(Len(at') - 1)
        PROVE  Enters(Node(Upto(at', n)), at'[n + 1], Maybe("ok"))
    <3>1. n \in 0..Len(at) /\ Upto(at', n) = Upto(at, n) BY <1>2, <1>5
    <3>2. CASE n = Len(at)
      <4>1. Upto(at', n) = at BY <1>2, <3>1, <3>2, UptoAll
      <4> QED BY <1>4, <1>5, <3>2, <4>1
    <3>3. CASE n # Len(at)
      <4>1. n \in 0..(Len(at) - 1) /\ at'[n + 1] = at[n + 1] BY <1>2, <1>5, <3>1, <3>3
      <4> QED BY <1>2, <3>1, <4>1 DEF OnTheWay
    <3> QED BY <3>2, <3>3
  <2>4. \A n : Node(Upto(at, n))' = Node(Upto(at', n)) BY <1>1 DEF Node, Upto
  <2> QED BY <1>1, <2>2, <2>3, <2>4 DEF OnTheWay
<1>8. Met'
  <2> SUFFICES ASSUME NEW p \in Places, Passed(p)'
               PROVE  (SureImage(p) => p \in found) /\ ~SureError(p)
    BY <1>1 DEF Met, Places
  <2>1. p \in Seq(Positions) BY PlacesAre
  <2>2. Earlier(p, Append(at, 1)) BY DEF Passed, Earlier, IsStrictPrefix, IsPrefix
  <2>3. Earlier(p, at) \/ p = at BY <1>2, <2>1, <2>2, EarlierInto
  <2>4. CASE Earlier(p, at) BY <2>4 DEF WalkInv, Met, Passed
  <2>5. CASE p = at
    <3>1. ~SureImage(p) BY <2>5 DEF SureImage, ImageIn
    <3>2. ~SureError(p)
      <4>1. d \notin Surely("broken")
        <5> HIDE DEF d
        <5> QED BY DEF Surely, Reads, d
      <4> QED BY <2>5, <4>1 DEF SureError, UnreadableIn, Walked
    <3> QED BY <3>1, <3>2
  <2> QED BY <2>3, <2>4, <2>5
<1>9. Yielded' BY <1>1 DEF WalkInv, Yielded
<1>10. FirstImageIsFound' BY <1>9 DEF Yielded, FirstImageIsFound
<1> QED BY <1>6, <1>7, <1>8, <1>9, <1>10 DEF WalkInv

LEMMA VisitIndexSafe ==
  ASSUME WalkInv, answer = "none", ~left, VisitIndex(Node(at))
  PROVE  WalkInv'
<1> DEFINE d == Node(at)
<1>1. d.media = "index" /\ d.media \in Walked /\ d \in Descs
  BY DEF VisitIndex, Walked, WalkInv, OnTheWay
<1>2. PICK err \in Reads(d) :
       \/ YieldError(d, err)
       \/ /\ err = "ok" /\ UNCHANGED found
          /\ \/ /\ d.manifests # <<>> /\ d.platform \in accepted \union {NoPlatform}
                /\ at' = Append(at, 1)
                /\ UNCHANGED <<root, listing, accepted, left, answer, changed>>
             \/ /\ d.manifests = <<>> \/ d.platform \notin accepted \union {NoPlatform}
                /\ Leave
  BY DEF VisitIndex
<1>3. CASE YieldError(d, err) BY <1>1, <1>3, YieldErrorSafe
<1>4. CASE /\ err = "ok" /\ UNCHANGED found
           /\ d.manifests # <<>> /\ d.platform \in accepted \union {NoPlatform}
           /\ at' = Append(at, 1)
           /\ UNCHANGED <<root, listing, accepted, left, answer, changed>>
  BY <1>1, <1>2, <1>4, IntoIndexSafe
<1>5. CASE /\ err = "ok" /\ UNCHANGED found
           /\ d.manifests = <<>> \/ d.platform \notin accepted \union {NoPlatform}
           /\ Leave
  <2>1. \A i : ~Enters(d, i, Surely("ok")) BY <1>5 DEF Enters
  <2>2. ~SureImage(at) BY <1>1 DEF SureImage, ImageIn
  <2>3. ~SureError(at)
    <3>1. d \notin Surely("broken")
      <4> HIDE DEF d
      <4> QED BY <1>2, <1>5 DEF Surely, Reads
    <3> QED BY <1>1, <3>1 DEF SureError, UnreadableIn
  <2> QED BY <1>5, <2>1, <2>2, <2>3, LeaveSafe
<1> QED BY <1>2, <1>3, <1>4, <1>5

LEMMA VisitManifestSafe ==
  ASSUME WalkInv, answer = "none", ~left, VisitManifest(Node(at))
  PROVE  WalkInv'
<1> DEFINE d == Node(at)
<1>1. d.media = "manifest" /\ d.media \in Walked /\ d \in Descs /\ WalkTypeOK /\ OnTheWay
  BY DEF VisitManifest, Walked, WalkInv, OnTheWay
<1>2. PICK err \in Reads(d) :
       \/ YieldError(d, err)
       \/ /\ err = "ok" /\ ~(d.kbake /\ d.platform \in accepted)
          /\ Leave /\ UNCHANGED found
       \/ /\ err = "ok" /\ d.kbake /\ d.platform \in accepted
          /\ found' = found \union {at}
          /\ \/ listing /\ Leave
             \/ ~listing /\ Answer("image")
  BY DEF VisitManifest
<1>3. CASE YieldError(d, err) BY <1>1, <1>3, YieldErrorSafe
<1>4. err = "ok" => d \notin Surely("broken") /\ d \in Maybe("ok")
  <2> HIDE DEF d
  <2> QED BY <1>1, <1>2 DEF Surely, Maybe, Reads
<1>5. err = "ok" => (\A i : ~Enters(d, i, Surely("ok"))) /\ ~SureError(at)
  BY <1>1, <1>4 DEF Enters, SureError, UnreadableIn
<1>6. CASE err = "ok" /\ ~(d.kbake /\ d.platform \in accepted) /\ Leave /\ UNCHANGED found
  <2>1. ~SureImage(at) BY <1>6 DEF SureImage, ImageIn
  <2> QED BY <1>5, <1>6, <2>1, LeaveSafe
<1>7. CASE /\ err = "ok" /\ d.kbake /\ d.platform \in accepted
           /\ found' = found \union {at}
           /\ \/ listing /\ Leave
              \/ ~listing /\ Answer("image")
  <2>1. ImageIn(at, Maybe("ok"))
    <3>1. Reached(at, Maybe("ok")) BY <1>1, ReachedHere
    <3> QED BY <1>1, <1>4, <1>7, <3>1 DEF ImageIn
  <2>2. CASE listing /\ Leave BY <1>5, <1>7, <2>1, <2>2, LeaveSafe
  <2>3. CASE ~listing /\ Answer("image") BY <1>7, <2>1, <2>3, ImageSafe
  <2> QED BY <1>7, <2>2, <2>3
<1> QED BY <1>2, <1>3, <1>6, <1>7


\* The walk goes on to an entry, or back to its index, without another place to be past.
LEMMA OnSafe ==
  ASSUME WalkInv, answer = "none", at' \in Seq(Positions), left' \in BOOLEAN, OnTheWay',
         UNCHANGED <<root, listing, accepted, found, answer, changed>>,
         \A p \in Places : Passed(p)' /\ (SureImage(p) \/ SureError(p)) => Passed(p)
  PROVE  WalkInv'
<1>1. /\ \A p : SureImage(p)' = SureImage(p) /\ SureError(p)' = SureError(p)
      /\ \A p : ImageIn(p, Maybe("ok"))' = ImageIn(p, Maybe("ok"))
  BY SameGraph
<1>2. WalkTypeOK' BY DEF WalkInv, WalkTypeOK, Positions
<1>3. Met' BY <1>1 DEF Met, WalkInv, Places
<1>4. Yielded' BY <1>1 DEF WalkInv, Yielded
<1>5. FirstImageIsFound' BY <1>4 DEF Yielded, FirstImageIsFound
<1> QED BY <1>2, <1>3, <1>4, <1>5 DEF WalkInv

LEMMA NextEntrySafe == ASSUME WalkInv, NextEntry PROVE WalkInv'
<1> DEFINE front == Front(at)
           i == Last(at)
<1>1. WalkTypeOK /\ OnTheWay /\ at \in Seq(Positions) /\ at # <<>> /\ left
  BY DEF WalkInv, WalkTypeOK, NextEntry, Positions
<1>2. /\ front \in Seq(Positions) /\ i \in Positions /\ Len(front) = Len(at) - 1
      /\ at = Append(front, i) /\ front = Upto(at, Len(at) - 1) /\ i = at[Len(at)]
  BY <1>1, FrontPlace
<1>3. \A n \in 0..Len(front) : Upto(at, n) = Upto(front, n)
  <2> HIDE DEF front, i
  <2> QED BY <1>2, EntryPlace
<1> HIDE DEF front, i
<1>4. Len(at) \in Nat \ {0} /\ Len(front) \in Nat
  BY <1>1, <1>2, EmptySeq
<1>5. Enters(Node(front), i, Maybe("ok"))
  <2>1. Len(at) - 1 \in 0..(Len(at) - 1) /\ (Len(at) - 1) + 1 = Len(at) BY <1>4
  <2> QED BY <1>1, <1>2, <2>1 DEF OnTheWay
<1>6. Node(front) \in Descs /\ Node(front).media = "index" /\ Node(front).manifests \in Seq(Descs)
  <2>1. Node(front) \in Descs /\ Node(front).media = "index" BY <1>5 DEF Enters, Maybe
  <2> QED BY <2>1, WalkAssumption
<1>7. \A n \in 0..(Len(front) - 1) : Enters(Node(Upto(front, n)), front[n + 1], Maybe("ok"))
  <2> SUFFICES ASSUME NEW n \in 0..(Len(front) - 1)
               PROVE  Enters(Node(Upto(front, n)), front[n + 1], Maybe("ok"))
    OBVIOUS
  <2>1. n \in 0..(Len(at) - 1) /\ n \in 0..Len(front) /\ n + 1 \in 1..Len(front) BY <1>2, <1>4
  <2>2. at[n + 1] = front[n + 1] BY <1>2, <2>1
  <2>3. Enters(Node(Upto(at, n)), at[n + 1], Maybe("ok")) BY <1>1, <2>1 DEF OnTheWay
  <2> QED BY <1>3, <2>1, <2>2, <2>3
<1>8. /\ \A p : Node(p)' = Node(p)
      /\ \A d, k : Enters(d, k, Maybe("ok"))' = Enters(d, k, Maybe("ok"))
  BY SameGraph DEF NextEntry
<1>9. UNCHANGED <<root, listing, accepted, found, answer, changed>> /\ answer = "none"
  BY DEF NextEntry
<1>10. \A n : Node(Upto(at, n))' = Node(Upto(at', n)) BY <1>8 DEF Node, Upto
<1>11. Node(at)' = Node(at') BY <1>8 DEF Node
<1>12. CASE i < Len(Node(front).manifests) /\ at' = Append(front, i + 1) /\ left' = FALSE
  <2>1. i + 1 \in Positions /\ i + 1 \in DOMAIN Node(front).manifests /\ Node(front).manifests[i + 1] \in Descs
    BY <1>2, <1>6, <1>12 DEF Positions
  <2>2. /\ at' \in Seq(Positions) /\ Len(at') = Len(front) + 1 /\ at'[Len(front) + 1] = i + 1
        /\ \A n \in 0..Len(front) : Upto(at', n) = Upto(front, n)
        /\ \A n \in 1..Len(front) : at'[n] = front[n]
    <3>1. /\ Append(front, i + 1) \in Seq(Positions) /\ Len(Append(front, i + 1)) = Len(front) + 1
          /\ Append(front, i + 1)[Len(front) + 1] = i + 1
          /\ \A n \in 0..Len(front) : Upto(Append(front, i + 1), n) = Upto(front, n)
      BY <1>2, <2>1, EntryPlace
    <3>2. \A n \in 1..Len(front) : Append(front, i + 1)[n] = front[n] BY <1>2, <2>1
    <3> QED BY <1>12, <3>1, <3>2
  <2>3. Node(at') \in Descs
    <3>1. Node(at') = Node(front).manifests[i + 1] BY <1>2, <1>12, <2>1, NodeEntry
    <3> QED BY <2>1, <3>1
  <2>4. \A n \in 0..(Len(at') - 1) : Enters(Node(Upto(at', n)), at'[n + 1], Maybe("ok"))
    <3> SUFFICES ASSUME NEW n \in 0..(Len(at') - 1)
                 PROVE  Enters(Node(Upto(at', n)), at'[n + 1], Maybe("ok"))
      OBVIOUS
    <3>1. n \in 0..Len(front) /\ Upto(at', n) = Upto(front, n) BY <1>4, <2>2
    <3>2. CASE n = Len(front)
      <4>1. Upto(at', n) = front BY <1>2, <3>1, <3>2, UptoAll
      <4>2. Enters(Node(front), i + 1, Maybe("ok")) BY <1>5, <2>1 DEF Enters
      <4> QED BY <2>2, <3>2, <4>1, <4>2
    <3>3. CASE n # Len(front)
      <4>1. n \in 0..(Len(front) - 1) /\ n + 1 \in 1..Len(front) BY <1>4, <3>1, <3>3
      <4>2. at'[n + 1] = front[n + 1] BY <2>2, <4>1
      <4> QED BY <1>7, <3>1, <4>1, <4>2
    <3> QED BY <3>2, <3>3
  <2>5. OnTheWay'
    <3>1. Node(at)' \in Descs' BY <1>11, <2>3
    <3> QED BY <1>8, <1>10, <2>4, <3>1 DEF OnTheWay
  <2>6. ASSUME NEW p \in Places, Passed(p)' PROVE Passed(p)
    <3>1. Earlier(p, Append(front, i + 1))
      <4>1. Earlier(p, at') BY <1>12, <2>6 DEF Passed, Earlier, IsStrictPrefix, IsPrefix
      <4> QED BY <1>12, <4>1
    <3>2. p \in Seq(Positions) BY PlacesAre
    <3>3. Earlier(p, Append(front, i)) \/ IsPrefix(Append(front, i), p)
      BY <1>2, <3>1, <3>2, EarlierNext
    <3> QED BY <1>1, <1>2, <3>3 DEF Passed
  <2>7. left' \in BOOLEAN BY <1>12
  <2> QED BY <1>9, <2>2, <2>5, <2>6, <2>7, OnSafe
<1>13. CASE i >= Len(Node(front).manifests) /\ at' = front /\ left' = TRUE
  <2>1. OnTheWay'
    <3>1. Node(at)' \in Descs' BY <1>6, <1>11, <1>13
    <3>2. \A n \in 0..(Len(at') - 1) : Enters(Node(Upto(at', n)), at'[n + 1], Maybe("ok"))
      BY <1>7, <1>13
    <3> QED BY <1>8, <1>10, <3>1, <3>2 DEF OnTheWay
  <2>2. ASSUME NEW p \in Places, Passed(p)', SureImage(p) \/ SureError(p) PROVE Passed(p)
    <3>1. p \in Seq(Positions) /\ Reached(p, Surely("ok"))
      BY <2>2, PlacesAre DEF SureImage, ImageIn, SureError, UnreadableIn
    <3>2. Earlier(p, front) \/ IsPrefix(front, p)
      <4>1. Earlier(p, at') \/ IsPrefix(at', p) BY <2>2 DEF Passed, Earlier, IsStrictPrefix, IsPrefix
      <4> QED BY <1>13, <4>1
    <3>3. IsStrictPrefix(front, p) => p[Len(front) + 1] <= i
      <4> SUFFICES ASSUME IsPrefix(front, p), front # p PROVE p[Len(front) + 1] <= i
        BY DEF IsStrictPrefix
      <4>1. Enters(Node(front), p[Len(front) + 1], Surely("ok")) BY <1>2, <3>1, ReachedThrough
      <4>2. p[Len(front) + 1] \in 1..Len(Node(front).manifests) BY <1>6, <4>1 DEF Enters
      <4> QED BY <1>2, <1>6, <1>13, <4>2 DEF Positions
    <3>4. Earlier(p, Append(front, i)) \/ IsPrefix(Append(front, i), p)
      BY <1>2, <3>1, <3>2, <3>3, EarlierBack
    <3> QED BY <1>1, <1>2, <3>4 DEF Passed
  <2>3. at' \in Seq(Positions) /\ left' \in BOOLEAN BY <1>2, <1>13
  <2> QED BY <1>9, <2>1, <2>2, <2>3, OnSafe
<1> QED BY <1>12, <1>13 DEF NextEntry, front, i

LEMMA EndWalkSafe == ASSUME WalkInv, EndWalk PROVE WalkInv'
<1>1. /\ answer = "none" /\ left /\ at = <<>> /\ found' = found
      /\ answer' = (IF listing THEN "list" ELSE "missing")
      /\ UNCHANGED <<root, listing, accepted, at, left, changed>>
  BY DEF EndWalk, Answer
<1>2. /\ \A p : Node(p)' = Node(p)
      /\ \A d, i : Enters(d, i, Maybe("ok"))' = Enters(d, i, Maybe("ok"))
      /\ \A p : SureImage(p)' = SureImage(p) /\ SureError(p)' = SureError(p)
      /\ \A p : ImageIn(p, Maybe("ok"))' = ImageIn(p, Maybe("ok"))
  BY <1>1, SameGraph
<1>3. WalkTypeOK' BY <1>1 DEF WalkInv, WalkTypeOK
<1>4. OnTheWay' BY <1>1, StaysOnTheWay DEF WalkInv
<1>5. Met' BY <1>1 DEF Met
<1>6. Yielded' BY <1>1, <1>2 DEF WalkInv, Yielded
<1>7. FirstImageIsFound'
  <2>1. \A p \in Places : (SureImage(p) => p \in found) /\ ~SureError(p)
    <3> SUFFICES ASSUME NEW p \in Places PROVE Passed(p)
      BY <1>1 DEF WalkInv, Met
    <3>1. p \in Seq(Positions) /\ <<>> \in Seq(Positions) BY PlacesAre
    <3>2. Len(<<>>) = 0 /\ Len(p) \in Nat BY <3>1
    <3> DEFINE start == <<>>
    <3>3. IsPrefix(start, p)
      <4>1. start \in Seq(Positions) /\ Len(start) <= Len(p) /\ \A i \in 1..Len(start) : start[i] = p[i]
        BY <3>1, <3>2
      <4> HIDE DEF start
      <4> QED BY <3>1, <4>1, PrefixByPlace
    <3> QED BY <1>1, <3>3 DEF Passed
  <2>2. ~listing => found = {} BY <1>1 DEF WalkInv, Yielded
  <2> QED BY <1>1, <1>2, <1>6, <2>1, <2>2 DEF FirstImageIsFound, Yielded, Places
<1> QED BY <1>3, <1>4, <1>5, <1>6, <1>7 DEF WalkInv

\* A descriptor that a walk can reach is one of Descs.
LEMMA ReachedInDescs ==
  ASSUME root \in Descs, NEW p \in Seq(Positions), Reached(p, Descs)
  PROVE  Node(p) \in Descs
<1>1. CASE p = <<>> BY <1>1, NodeRoot
<1>2. CASE p # <<>>
  <2> DEFINE front == Front(p)
             i == Last(p)
  <2>1. /\ front \in Seq(Positions) /\ i \in Positions /\ p = Append(front, i)
        /\ front = Upto(p, Len(p) - 1) /\ i = p[Len(p)]
    BY <1>2, FrontPlace
  <2>2. Len(p) - 1 \in 0..(Len(p) - 1) /\ (Len(p) - 1) + 1 = Len(p) BY <1>2, EmptySeq
  <2> HIDE DEF front, i
  <2>3. Enters(Node(front), i, Descs) BY <2>1, <2>2 DEF Reached
  <2>4. Node(front) \in Descs /\ Node(front).media = "index" /\ i \in DOMAIN Node(front).manifests
    BY <2>3 DEF Enters
  <2>5. Node(front).manifests \in Seq(Descs) BY <2>4, WalkAssumption
  <2>6. Node(front).manifests[i] \in Descs BY <2>4, <2>5
  <2> QED BY <2>1, <2>6, NodeEntry
<1> QED BY <1>1, <1>2

\* Others change the graph: less is for sure, and more may be.
LEMMA ChangeSafe == ASSUME WalkInv, Change PROVE WalkInv'
<1>1. /\ answer = "none" /\ UNCHANGED <<root, listing, accepted, at, left, found, answer>>
      /\ changed \subseteq changed'
  BY DEF Change
<1>2. changed' \subseteq Descs
  <2> PICK place \in Places : Reached(place, Descs) /\ changed' = changed \union {Node(place)}
    BY DEF Change
  <2>1. Node(place) \in Descs BY PlacesAre, ReachedInDescs DEF WalkInv, WalkTypeOK
  <2> QED BY <2>1 DEF WalkInv, WalkTypeOK
<1>3. \A p : Node(p)' = Node(p) BY <1>1 DEF Node
<1>4. \A st : Surely(st)' \subseteq Surely(st) /\ Maybe(st) \subseteq Maybe(st)'
  BY <1>1 DEF Surely, Maybe
<1>5. \A d, i : Enters(d, i, Maybe("ok")) => Enters(d, i, Maybe("ok"))'
  BY <1>1, <1>4 DEF Enters
<1>6. \A d, i : Enters(d, i, Surely("ok"))' => Enters(d, i, Surely("ok"))
  BY <1>1, <1>4 DEF Enters
<1>7. \A p : Reached(p, Maybe("ok")) => Reached(p, Maybe("ok"))'
  BY <1>3, <1>5 DEF Reached, Upto
<1>8. \A p : Reached(p, Surely("ok"))' => Reached(p, Surely("ok"))
  BY <1>3, <1>6 DEF Reached, Upto
<1>9. \A p : ImageIn(p, Maybe("ok")) => ImageIn(p, Maybe("ok"))'
  BY <1>1, <1>3, <1>4, <1>7 DEF ImageIn
<1>10. \A p : SureImage(p)' => SureImage(p)
  BY <1>1, <1>3, <1>4, <1>8 DEF SureImage, ImageIn
<1>11. \A p : SureError(p)' => SureError(p)
  BY <1>1, <1>3, <1>4, <1>8 DEF SureError, UnreadableIn
<1>12. WalkTypeOK' BY <1>1, <1>2 DEF WalkInv, WalkTypeOK
<1>13. OnTheWay'
  <2>1. Node(at)' \in Descs' BY <1>1, <1>3 DEF WalkInv, OnTheWay
  <2>2. \A n : Node(Upto(at, n))' = Node(Upto(at, n)) BY <1>1, <1>3 DEF Upto
  <2> QED BY <1>1, <1>5, <2>1, <2>2 DEF WalkInv, OnTheWay, Upto
<1>14. Met'
  <2>1. \A p : Passed(p)' = Passed(p) BY <1>1 DEF Passed
  <2> QED BY <1>1, <1>10, <1>11, <2>1 DEF WalkInv, Met, Places
<1>15. Yielded' BY <1>1, <1>9 DEF WalkInv, Yielded
<1>16. FirstImageIsFound' BY <1>1, <1>15 DEF Yielded, FirstImageIsFound
<1> QED BY <1>12, <1>13, <1>14, <1>15, <1>16 DEF WalkInv

LEMMA WalkStep == WalkInv /\ [WalkNext]_walkVars => WalkInv'
<1> SUFFICES ASSUME WalkInv, [WalkNext]_walkVars PROVE WalkInv'
  OBVIOUS
<1>1. CASE VisitNode
  BY <1>1, VisitOtherSafe, VisitIndexSafe, VisitManifestSafe DEF VisitNode
<1>2. CASE NextEntry BY <1>2, NextEntrySafe
<1>3. CASE EndWalk BY <1>3, EndWalkSafe
<1>4. CASE Change BY <1>4, ChangeSafe
<1>5. CASE UNCHANGED walkVars
  <2>1. UNCHANGED <<root, listing, accepted, at, left, found, answer, changed>> BY <1>5 DEF walkVars
  <2>2. /\ \A p : Node(p)' = Node(p)
        /\ \A d, i : Enters(d, i, Maybe("ok"))' = Enters(d, i, Maybe("ok"))
        /\ \A p : SureImage(p)' = SureImage(p) /\ SureError(p)' = SureError(p)
        /\ \A p : ImageIn(p, Maybe("ok"))' = ImageIn(p, Maybe("ok"))
        /\ \A p : UnreadableIn(p, Maybe("ok"), Maybe("broken"))' = UnreadableIn(p, Maybe("ok"), Maybe("broken"))
    BY <2>1, SameGraph
  <2>3. WalkTypeOK' BY <2>1 DEF WalkInv, WalkTypeOK
  <2>4. OnTheWay' BY <2>1, StaysOnTheWay DEF WalkInv
  <2>5. Met' BY <2>1, <2>2 DEF WalkInv, Met, Passed, Places
  <2>6. Yielded' BY <2>1, <2>2 DEF WalkInv, Yielded
  <2>7. FirstImageIsFound'
    <3>1. UnreadableIn(at, Maybe("ok"), Maybe("broken"))' = UnreadableIn(at, Maybe("ok"), Maybe("broken"))
      BY <2>1, <2>2
    <3> QED BY <2>1, <2>2, <3>1 DEF WalkInv, FirstImageIsFound, Places
  <2> QED BY <2>3, <2>4, <2>5, <2>6, <2>7 DEF WalkInv
<1> QED BY <1>1, <1>2, <1>3, <1>4, <1>5 DEF WalkNext

\* A walk, whatever the graph and however others change it while it runs, ends with
\* the first image for the platform, with an error that nothing comes before, or with
\* "not found" when there is nothing, of the parts that were left alone; a listing has
\* all the images of those parts (images.ResolveGraph, images.Platforms).
THEOREM FirstImage == WalkSpec => []FirstImageIsFound
<1>1. WalkInv => FirstImageIsFound BY DEF WalkInv
<1> QED BY <1>1, WalkInitially, WalkStep, PTL DEF WalkSpec
=============================================================================
