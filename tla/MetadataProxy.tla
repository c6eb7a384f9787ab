---------------------------- MODULE MetadataProxy ----------------------------
(***************************************************************************)
(* The proxy a pull reads indexes and manifests through                    *)
(* (internal/xoras/images/metadata.go), shared by the goroutines of the    *)
(* copy: what one of them has read to its end is kept and served to the    *)
(* others.  Readers read a byte at a time, some give up before the end,    *)
(* and each checks what it has read as content.FetchAll and the stores do: *)
(* that the declared size is there, nothing after it, and the digest.      *)
(*                                                                         *)
(* A descriptor is named by its size.  What storage sends for one may be   *)
(* short, long, or other bytes.  Blobs that are no metadata are passed on  *)
(* and do not appear here.                                                 *)
(***************************************************************************)
EXTENDS Naturals

CONSTANTS
  Readers,
  Sizes,    \* the descriptors: the sizes of manifests
  Limit,    \* MaxMetadataBytes
  Longest,  \* a bound on what storage sends
  NoData

Data == [len : 0..Longest, genuine : BOOLEAN]
NotAsked == 0

ASSUME ProxyAssumption ==
  Sizes \subseteq Nat /\ Limit \in Nat /\ Longest \in Nat /\ NoData \notin Data

VARIABLES
  content,   \* the cache: descriptor -> data, or NoData
  phase,     \* each reader: "idle", or "reading"
  desc,      \* the descriptor it has asked for
  tee,       \* it reads from storage, and into the buffer of the proxy
  stream,    \* the data it reads
  pos,       \* how much of it it has read
  checked    \* what became of its last reading: "none", "accepted", "failed"

proxyVars == <<content, phase, desc, tee, stream, pos, checked>>

ProxyTypeOK ==
  /\ content \in [Sizes -> Data \union {NoData}]
  /\ phase \in [Readers -> {"idle", "reading"}]
  /\ desc \in [Readers -> Sizes \union {NotAsked}]
  /\ tee \in [Readers -> BOOLEAN]
  /\ stream \in [Readers -> Data]
  /\ pos \in [Readers -> Nat]
  /\ checked \in [Readers -> {"none", "accepted", "failed"}]

ProxyInit ==
  /\ content = [d \in Sizes |-> NoData]
  /\ phase = [r \in Readers |-> "idle"]
  /\ desc = [r \in Readers |-> NotAsked]
  /\ tee = [r \in Readers |-> FALSE]
  /\ stream = [r \in Readers |-> [len |-> 0, genuine |-> FALSE]]
  /\ pos = [r \in Readers |-> 0]
  /\ checked = [r \in Readers |-> "none"]

\* How much of its stream a reader can get.
Readable(r) ==
  IF tee[r] /\ Limit < stream[r].len THEN Limit ELSE stream[r].len

Begin(r, d, fromStorage, data) ==
  /\ phase' = [phase EXCEPT ![r] = "reading"]
  /\ desc' = [desc EXCEPT ![r] = d]
  /\ tee' = [tee EXCEPT ![r] = fromStorage]
  /\ stream' = [stream EXCEPT ![r] = data]
  /\ pos' = [pos EXCEPT ![r] = 0]
  /\ checked' = [checked EXCEPT ![r] = "none"]
  /\ UNCHANGED content

End(r, result) ==
  /\ phase' = [phase EXCEPT ![r] = "idle"]
  /\ checked' = [checked EXCEPT ![r] = result]
  /\ UNCHANGED <<desc, tee, stream, pos>>

\* Fetch of what the cache has.
FetchCached(r, d) ==
  /\ phase[r] = "idle" /\ d <= Limit
  /\ content[d] # NoData
  /\ Begin(r, d, FALSE, content[d])

\* Fetch of what it has not: the answer of storage, which does not touch the
\* cache, may be anything.
FetchStored(r, d, data) ==
  /\ phase[r] = "idle" /\ d <= Limit
  /\ content[d] = NoData
  /\ Begin(r, d, TRUE, data)

\* Storage fails, or the content is larger than the limit.
FetchFails(r, d) ==
  /\ phase[r] = "idle"
  /\ content[d] = NoData \/ d > Limit
  /\ desc' = [desc EXCEPT ![r] = d]
  /\ checked' = [checked EXCEPT ![r] = "failed"]
  /\ UNCHANGED <<content, phase, tee, stream, pos>>

\* A byte; one after the declared size ends the reading.
Read(r) ==
  /\ phase[r] = "reading" /\ pos[r] < Readable(r)
  /\ IF pos[r] = desc[r]
     THEN End(r, "failed") /\ UNCHANGED content
     ELSE /\ pos' = [pos EXCEPT ![r] = @ + 1]
          /\ UNCHANGED <<content, phase, desc, tee, stream, checked>>

\* Mutant of ReadEnd: what was read is kept whatever its size.
ReadEndKeepsAll(r) ==
  /\ phase[r] = "reading" /\ pos[r] = Readable(r)
  /\ content' = IF tee[r] /\ content[desc[r]] = NoData
                THEN [content EXCEPT ![desc[r]] = [len |-> pos[r], genuine |-> stream[r].genuine]]
                ELSE content
  /\ End(r, IF pos[r] = desc[r] /\ stream[r].genuine THEN "accepted" ELSE "failed")

\* Mutant of ReadEnd: content as large as the limit is not kept.
ReadEndBelowLimit(r) ==
  /\ phase[r] = "reading" /\ pos[r] = Readable(r)
  /\ content' = IF tee[r] /\ pos[r] = desc[r] /\ pos[r] < Limit /\ content[desc[r]] = NoData
                THEN [content EXCEPT ![desc[r]] = [len |-> pos[r], genuine |-> stream[r].genuine]]
                ELSE content
  /\ End(r, IF pos[r] = desc[r] /\ stream[r].genuine THEN "accepted" ELSE "failed")

\* The end of the stream: data of the declared size is kept, unless another
\* reader was first, and only then does the reader check its digest.
ReadEnd(r) ==
  /\ phase[r] = "reading" /\ pos[r] = Readable(r)
  /\ content' = IF tee[r] /\ pos[r] = desc[r] /\ content[desc[r]] = NoData
                THEN [content EXCEPT ![desc[r]] = [len |-> pos[r], genuine |-> stream[r].genuine]]
                ELSE content
  /\ End(r, IF pos[r] = desc[r] /\ stream[r].genuine THEN "accepted" ELSE "failed")

\* The reader closes before the end, or a read fails.
CloseEarly(r) ==
  /\ phase[r] = "reading"
  /\ End(r, "failed")
  /\ UNCHANGED content

ProxyNext ==
  \E r \in Readers :
    \/ \E d \in Sizes :
         \/ FetchCached(r, d)
         \/ \E data \in Data : FetchStored(r, d, data)
         \/ FetchFails(r, d)
    \/ Read(r) \/ ReadEnd(r) \/ CloseEarly(r)

ProxySpec == ProxyInit /\ [][ProxyNext]_proxyVars

-----------------------------------------------------------------------------
(* Properties.                                                             *)

\* Only whole content is kept: however readers overlap, give up or are sent too
\* little, the cache has for a descriptor as many bytes as it declares, and
\* nothing larger than the limit.
CacheWhole ==
  \A d \in Sizes : content[d] # NoData => content[d].len = d /\ d <= Limit

\* What a reader accepts is the genuine content, and is in the cache from then
\* on, so that a manifest that was read once is not asked of the registry again;
\* that holds for content exactly as large as the limit too.
AcceptedIsKept ==
  \A r \in Readers :
    checked[r] = "accepted" =>
      stream[r].genuine /\ pos[r] = desc[r] /\ content[desc[r]] # NoData

\* Data once kept stays: of two readers that fetched the same manifest at once
\* the first to end decides what all later ones get (LoadOrStore).
KeptForGood == [][\A d \in Sizes : content[d] # NoData => content'[d] = content[d]]_proxyVars
=============================================================================
