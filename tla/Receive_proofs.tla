-------------------------- MODULE Receive_proofs --------------------------
(***************************************************************************)
(* Proofs about Receive, for every set of stations and of what they send,  *)
(* every size of the cache, every lifetime of its entries and every range  *)
(* of sequence numbers.                                                    *)
(*                                                                         *)
(* Of the cache of fragments it is said what an entry holds whatever       *)
(* numbers come back (Assembled), and, until one comes back to an entry of *)
(* the cache, what each entry holds and of which MSDU (Joined, Waiting)    *)
(* and who has the buffers (OwnBuffers).  That the entry which             *)
(* ieee80211_frag_cache_invalidate clears is then the one which            *)
(* ieee80211_frag_cache_get extended is the order of the entries of one    *)
(* MSDU (Ordered).  Of the filter it is said which frame of a station it   *)
(* still knows (Remembers, KnowsLast, UpOnce).                             *)
(***************************************************************************)
EXTENDS Receive, SequenceTheorems, WellFoundedInduction, TLAPS

\* The stations: where in an MSDU they are, and that time is not behind them.
Stations ==
    \A s \in Sender :
        /\ air[s].frag < air[s].shape.n /\ air[s].since <= jiffies
        /\ air[s].msdu <= MaxMsdu[s]

\* Fragments of one station and one number, in order, none after last.
InOrder(d, src, seq, last_frag) ==
    /\ \A k \in 1 .. Len(d) :
          d[k].src = src /\ d[k].msdu % SeqMod = seq /\ d[k].frag <= last_frag
    /\ \A j, k \in 1 .. Len(d) : j < k => d[j].frag < d[k].frag

\* What an entry holds whatever numbers came back.
Assembled ==
    \A i \in Entry : InUse(frag_cache[i]) =>
        LET e == frag_cache[i] IN InOrder(e.data, e.src, e.seq, e.last_frag)

\* An entry holds the first fragments of one MSDU of one station.
Joined ==
    \A i \in Entry : InUse(frag_cache[i]) =>
        LET e == frag_cache[i]
            p == e.data[1]
        IN  /\ e.src \in Sender /\ e.time <= jiffies
            /\ Len(e.data) = e.last_frag + 1 /\ p.src = e.src
            /\ \A k \in 1 .. Len(e.data) : e.data[k] = [p EXCEPT !.frag = k - 1]

\* An entry that ieee80211_frag_cache_find may return for a frame of s.
Live(i, s) ==
    /\ InUse(frag_cache[i]) /\ ~Expired(frag_cache[i], jiffies)
    /\ frag_cache[i].seq = SeqOf(s) /\ frag_cache[i].src = s

\* Such an entry is of the MSDU that s is sending, fits and is not complete.
Waiting ==
    \A i \in Entry, s \in Sender : Live(i, s) =>
        LET e == frag_cache[i]
        IN  /\ e.data[1].msdu = air[s].msdu /\ e.data[1].n = air[s].shape.n
            /\ e.last_frag <= air[s].frag /\ e.last_frag + 1 < air[s].shape.n
            /\ e.last_frag < air[s].shape.room

\* If there are several, the first ones got the latest fragments.
Ordered ==
    \A s \in Sender, i, j \in Entry :
        Live(i, s) /\ Live(j, s) /\ i < j
            => frag_cache[i].last_frag >= frag_cache[j].last_frag

\* The buffers, as CacheOwnsItsBuffers has them.
OwnBuffers ==
    /\ Buffers(frag_cache) = {b \in Buffer : skb[b] = "cache"}
    /\ \A i, j \in Entry : InUse(frag_cache[i]) /\ frag_cache[i].skb = frag_cache[j].skb
                               => i = j

CacheInv == TypeOK /\ Stations /\ Joined /\ Waiting /\ Ordered /\ OwnBuffers

\* The cache while no number has come back to an entry of it.
CacheUnmet == TypeOK /\ Stations /\ (NobodyMet => CacheInv)

\* An entry of the filter is its station's, or nobody's.
Owned ==
    /\ \A k \in Sender : filter[k].by \in {k, Anybody}
    /\ \A k \in Sender \cup {Anybody} : filter[k].by = Anybody => filter[k].seq = -1

\* What the filter knows of a station is a frame the station sent.
Remembers(s) ==
    LET e == FilterOf(s)
    IN  e.by = s => /\ e.time <= jiffies /\ e.msdu <= air[s].msdu
                    /\ e.seq = e.msdu % SeqMod

\* If it is of the current MSDU, then it is the current fragment or the one before,
\* or one was lost.
KnowsLast(s) ==
    LET e == FilterOf(s)
    IN  iw_mode # "monitor" /\ e.by = s /\ e.msdu = air[s].msdu
        => /\ e.frag <= air[s].frag
           /\ e.frag = air[s].frag => air[s].copies > 0
           /\ e.frag < air[s].frag => air[s].copies = 0 \/ air[s].lost
           /\ e.frag + 1 < air[s].frag => air[s].lost

\* After an MSDU went up the filter knows its last fragment.
UpOnce(s) ==
    LET e == FilterOf(s)
    IN  ~air[s].loose /\ iw_mode # "monitor" /\ air[s].ups > 0 =>
          /\ air[s].ups = 1 /\ air[s].copies > 0
          /\ air[s].frag + 1 = air[s].shape.n
          /\ e.by = s /\ e.msdu = air[s].msdu /\ e.seq = SeqOf(s) /\ e.frag = air[s].frag
          /\ air[s].since <= e.time

Known(s) == Remembers(s) /\ KnowsLast(s) /\ UpOnce(s)

FilterInv == TypeOK /\ Stations /\ Owned /\ \A s \in Sender : Known(s)

(***************************************************************************)
(* Numbers.                                                                *)
(***************************************************************************)
LEMMA LeastNat ==
    ASSUME NEW T, T \subseteq Nat, T # {}
    PROVE  \E x \in T : \A y \in T : x <= y
<1> DEFINE R == {ss \in Nat \X Nat : ss[1] < ss[2]}
<1>1. IsWellFoundedOn(R, Nat)
  BY NatLessThanWellFounded, Zenon DEF OpToRel
<1> HIDE DEF R
<1>2. PICK m \in T : \A y \in T : ~(<<y, m>> \in R)
  BY <1>1, WFMin
<1>3. \A y \in T : ~(y < m)
  BY <1>2 DEF R
<1> QED
  BY <1>2, <1>3

LEMMA Bounds ==
    /\ CACHE_LEN \in Nat \ {0} /\ RETRY_TIME \in Nat \ {0} /\ SeqMod \in Nat \ {0}
    /\ FRAG_LIFE \in Nat /\ COPY_TIME \in Nat /\ MaxTime \in Nat
    /\ COPY_TIME < RETRY_TIME
    /\ \A s \in Sender : MaxMsdu[s] \in Nat /\ Shape[s] \subseteq ShapeType /\ s # Anybody
BY ReceiveAssumption DEF ReceiveAssumption, Anybody

\* A sequence number comes back after SeqMod others.
LEMMA NumberComesBack ==
    ASSUME NEW m \in Nat, NEW n \in Nat, m < n, m % SeqMod = n % SeqMod
    PROVE  m + SeqMod <= n
<1> DEFINE a == m \div SeqMod  b == n \div SeqMod
<1>1. SeqMod \in Nat \ {0}
  BY Bounds
<1>2. /\ a \in Int /\ b \in Int
      /\ m = SeqMod * a + (m % SeqMod) /\ n = SeqMod * b + (n % SeqMod)
  BY <1>1
<1> HIDE DEF a, b
<1>3. n - m = SeqMod * (b - a)
  BY <1>1, <1>2
<1>4. b - a >= 1
  <2> SUFFICES ASSUME b - a <= 0 PROVE FALSE
    BY <1>2
  <2> DEFINE k == a - b
  <2>1. k \in Nat /\ b - a = -k
    BY <1>2
  <2> HIDE DEF k
  <2>2. SeqMod * k >= 0 /\ SeqMod * (-k) = -(SeqMod * k)
    BY <1>1, <2>1
  <2> QED
    BY <1>1, <1>3, <2>1, <2>2
<1>5. PICK k \in Nat : b - a = k + 1
  BY <1>2, <1>4
<1>6. SeqMod * (k + 1) = SeqMod * k + SeqMod /\ SeqMod * k >= 0 /\ SeqMod * k \in Int
  BY <1>1, <1>5
<1> QED
  BY <1>1, <1>3, <1>5, <1>6

LEMMA Numbered ==
    ASSUME NEW m \in Nat
    PROVE  m % SeqMod \in SeqNum
BY Bounds DEF SeqNum

(***************************************************************************)
(* ieee80211_frag_cache_find: the first of what it looks for.              *)
(***************************************************************************)
Hits(c, t, s, ks) ==
    {i \in Entry : /\ InUse(c[i]) /\ ~Expired(c[i], t)
                   /\ c[i].seq = SeqOf(s) /\ c[i].src = s /\ c[i].last_frag + 1 \in ks}

LEMMA Finds ==
    ASSUME NEW c, NEW t, NEW s, NEW ks
    PROVE  LET hit == Find(c, t, s, ks)
           IN  /\ hit = None => Hits(c, t, s, ks) = {}
               /\ hit # None => /\ hit \in Hits(c, t, s, ks)
                                /\ \A i \in Hits(c, t, s, ks) : hit <= i
               /\ None \notin Entry
<1> DEFINE H == Hits(c, t, s, ks)
<1>1. Find(c, t, s, ks) = IF H = {} THEN None ELSE Min(H)
  BY Zenon DEF Find, Hits
<1>2. H \subseteq Entry /\ Entry \subseteq Nat /\ None \notin Entry
  BY Bounds DEF Hits, Entry, None
<1> HIDE DEF H
<1>3. H # {} => Min(H) \in H /\ \A i \in H : Min(H) <= i
  <2> HAVE H # {}
  <2>1. \E x \in H : \A y \in H : x <= y
    BY <1>2, LeastNat
  <2> QED
    BY <2>1 DEF Min
<1>4. CASE H = {}
  BY <1>1, <1>2, <1>4 DEF H
<1>5. CASE H # {}
  <2>1. Min(H) \in Entry
    BY <1>2, <1>3, <1>5
  <2> QED
    BY <1>1, <1>2, <1>3, <1>5, <2>1 DEF H
<1> QED
  BY <1>4, <1>5

(***************************************************************************)
(* Types, and what an arrival does to the stations.                        *)
(***************************************************************************)
AirRecord == [msdu : Nat, shape : ShapeType, frag : 0..2, copies : Nat,
              since : 0..MaxTime, ups : Nat, lost : BOOLEAN, loose : BOOLEAN,
              met : BOOLEAN]
FilterRecord == [seq : SeqNum \cup {-1}, frag : -1..2, time : 0..MaxTime,
                 by : Sender \cup {Anybody}, msdu : Nat]
CacheRecord == [skb : Buffer \cup {NoSkb}, src : Sender \cup {Anybody}, seq : SeqNum,
                last_frag : 0..2, time : 0..MaxTime, data : Seq(Piece)]
SkbState == {"free", "cache", "lost"}

AirType    == air \in [Sender -> AirRecord]
FilterType == filter \in [Sender \cup {Anybody} -> FilterRecord]
CacheType  == frag_cache \in [Entry -> CacheRecord]
SkbType    == skb \in [Buffer -> SkbState]
RestType   == /\ iw_mode \in Mode /\ open_wep \in OpenWep /\ crypt \in BOOLEAN
              /\ frag_next_idx \in Entry /\ jiffies \in 0 .. MaxTime

LEMMA TypeParts ==
    TypeOK <=> AirType /\ FilterType /\ CacheType /\ SkbType /\ RestType
BY DEF TypeOK, AirType, FilterType, CacheType, SkbType, RestType, AirRecord,
       FilterRecord, CacheRecord, SkbState

\* One more copy of s's fragment arrived; the filter may not know others any more.
Heard(s) ==
    \A t \in Sender :
        /\ air'[t].msdu = air[t].msdu /\ air'[t].shape = air[t].shape
        /\ air'[t].frag = air[t].frag /\ air'[t].met = air[t].met
        /\ air[t].lost => air'[t].lost
        /\ air[t].loose => air'[t].loose
        /\ t # s => /\ air'[t].copies = air[t].copies /\ air'[t].since = air[t].since
                    /\ air'[t].ups = air[t].ups
        /\ t = s => /\ air'[t].copies = air[t].copies + 1
                    /\ air'[t].since = IF air[t].copies = 0 THEN jiffies ELSE air[t].since

LEMMA ArrivedRecord ==
    ASSUME NEW a \in AirRecord, jiffies \in 0 .. MaxTime
    PROVE  /\ Arrived(a) \in AirRecord
           /\ Arrived(a).msdu = a.msdu /\ Arrived(a).shape = a.shape
           /\ Arrived(a).frag = a.frag /\ Arrived(a).ups = a.ups /\ Arrived(a).met = a.met
           /\ Arrived(a).lost = a.lost /\ Arrived(a).loose = a.loose
           /\ Arrived(a).copies = a.copies + 1
           /\ Arrived(a).since = IF a.copies = 0 THEN jiffies ELSE a.since
<1> DEFINE n == a.copies + 1  m == IF a.copies = 0 THEN jiffies ELSE a.since
<1>1. n \in Nat
  BY DEF AirRecord
<1>2. m \in 0 .. MaxTime
  BY DEF AirRecord
<1>3. Arrived(a) = [a EXCEPT !.copies = n, !.since = m]
  BY DEF Arrived
<1> HIDE DEF n, m
<1>4. /\ Arrived(a) \in AirRecord
      /\ Arrived(a).msdu = a.msdu /\ Arrived(a).shape = a.shape
      /\ Arrived(a).frag = a.frag /\ Arrived(a).ups = a.ups /\ Arrived(a).met = a.met
      /\ Arrived(a).lost = a.lost /\ Arrived(a).loose = a.loose
      /\ Arrived(a).copies = n /\ Arrived(a).since = m
  BY <1>1, <1>2, <1>3 DEF AirRecord
<1> QED
  BY <1>4 DEF n, m

LEMMA LoosenedRecord ==
    ASSUME NEW a \in AirRecord
    PROVE  /\ Loosened(a) \in AirRecord
           /\ Loosened(a).msdu = a.msdu /\ Loosened(a).shape = a.shape
           /\ Loosened(a).frag = a.frag /\ Loosened(a).ups = a.ups
           /\ Loosened(a).lost = a.lost /\ Loosened(a).copies = a.copies
           /\ Loosened(a).since = a.since /\ Loosened(a).met = a.met
           /\ Loosened(a).loose <=> a.loose \/ a.frag > 0 \/ a.copies > 0
BY DEF Loosened, AirRecord

LEMMA PassedAir ==
    ASSUME AirType, RestType, NEW s \in Sender, NEW up \in {0, 1},
           Passed(s, up)
    PROVE  /\ AirType' /\ Heard(s) /\ air'[s].ups = air[s].ups + up
           /\ iw_mode # "adhoc" =>
                \A t \in Sender \ {s} :
                   air'[t].loose <=> air[t].loose \/ air[t].frag > 0 \/ air[t].copies > 0
           /\ filter' = filter /\ iw_mode = "adhoc" /\ filter[s] = Forgotten => air'[s].loose
<1> DEFINE b == filter' = filter /\ filter[s] = Forgotten /\ iw_mode = "adhoc"
           r == [Arrived(air[s]) EXCEPT !.ups = @ + up, !.loose = @ \/ b]
<1>1. \A t \in Sender : air[t] \in AirRecord
  BY DEF AirType
<1>2. jiffies \in 0 .. MaxTime
  BY DEF RestType
<1>3. air' = [t \in Sender |-> IF t = s THEN r
                               ELSE IF iw_mode = "adhoc" THEN air[t] ELSE Loosened(air[t])]
  BY DEF Passed
<1>4. /\ r \in AirRecord /\ r.msdu = air[s].msdu /\ r.shape = air[s].shape
      /\ r.frag = air[s].frag /\ r.lost = air[s].lost /\ r.ups = air[s].ups + up
      /\ r.met = air[s].met
      /\ r.loose <=> air[s].loose \/ b
      /\ r.copies = air[s].copies + 1
      /\ r.since = IF air[s].copies = 0 THEN jiffies ELSE air[s].since
  <2> DEFINE a == Arrived(air[s])  u == a.ups + up  l == a.loose \/ b
  <2>1. /\ a \in AirRecord /\ a.msdu = air[s].msdu /\ a.shape = air[s].shape
        /\ a.frag = air[s].frag /\ a.lost = air[s].lost /\ a.ups = air[s].ups
        /\ a.met = air[s].met /\ a.loose = air[s].loose /\ a.copies = air[s].copies + 1
        /\ a.since = IF air[s].copies = 0 THEN jiffies ELSE air[s].since
    BY <1>1, <1>2, ArrivedRecord
  <2>2. r = [a EXCEPT !.ups = u, !.loose = l]
    BY Zenon DEF a
  <2>3. l \in BOOLEAN /\ u \in Nat /\ u = air[s].ups + up /\ (l <=> air[s].loose \/ b)
    BY <2>1 DEF AirRecord
  <2> HIDE DEF a, b, r, u, l
  <2>4. /\ r \in AirRecord /\ r.msdu = a.msdu /\ r.shape = a.shape /\ r.frag = a.frag
        /\ r.lost = a.lost /\ r.copies = a.copies /\ r.since = a.since
        /\ r.ups = u /\ r.loose = l /\ r.met = a.met
    BY <2>1, <2>2, <2>3 DEF AirRecord
  <2> QED
    BY <2>1, <2>3, <2>4
<1> HIDE DEF r
<1>5. \A t \in Sender : t # s =>
         /\ air'[t] \in AirRecord /\ air'[t].msdu = air[t].msdu
         /\ air'[t].shape = air[t].shape /\ air'[t].frag = air[t].frag
         /\ air'[t].met = air[t].met /\ air'[t].ups = air[t].ups /\ air'[t].lost = air[t].lost
         /\ air'[t].copies = air[t].copies /\ air'[t].since = air[t].since
         /\ air[t].loose => air'[t].loose
  BY <1>1, <1>3, LoosenedRecord
<1>6. air'[s] = r
  BY <1>3
<1>7. AirType'
  BY <1>3, <1>4, <1>5, <1>6 DEF AirType
<1>8. Heard(s)
  BY <1>4, <1>5, <1>6 DEF Heard
<1>9. iw_mode # "adhoc" =>
         \A t \in Sender \ {s} :
            air'[t].loose <=> air[t].loose \/ air[t].frag > 0 \/ air[t].copies > 0
  BY <1>1, <1>3, LoosenedRecord
<1>10. b => air'[s].loose
  BY <1>4, <1>6
<1> QED
  BY <1>4, <1>6, <1>7, <1>8, <1>9, <1>10

LEMMA PassedFilter ==
    ASSUME FilterType, AirType, RestType, NEW s \in Sender, NEW up, Passed(s, up)
    PROVE  FilterType'
<1> DEFINE e == [seq |-> SeqOf(s), frag |-> air[s].frag, time |-> jiffies, by |-> s,
                 msdu |-> air[s].msdu]
<1>1. SeqOf(s) \in SeqNum
  BY Numbered DEF SeqOf, AirType, AirRecord
<1>2. e \in FilterRecord
  BY <1>1 DEF FilterRecord, AirType, AirRecord, RestType
<1>3. \/ filter' = [filter EXCEPT ![IF iw_mode = "adhoc" THEN s ELSE Anybody] = e]
      \/ filter' = filter
  BY DEF Passed, remember_packet
<1> HIDE DEF e
<1> QED
  BY <1>2, <1>3 DEF FilterType

LEMMA CurrentPiece ==
    ASSUME AirType, NEW s \in Sender
    PROVE  Current(s) \in Piece
BY DEF AirType, AirRecord, Current, Piece, ShapeType

LEMMA EmptyEntry == Unused \in CacheRecord /\ ~InUse(Unused)
BY Bounds DEF Unused, CacheRecord, SeqNum, InUse, Piece

LEMMA SweptType ==
    ASSUME NEW c \in [Entry -> CacheRecord], NEW t, NEW hit
    PROVE  Swept(c, t, hit) \in [Entry -> CacheRecord]
BY EmptyEntry DEF Swept

LEMMA GivenType ==
    ASSUME SkbType, NEW freed, NEW moved, NEW to \in SkbState
    PROVE  Given(freed, moved, to) \in [Buffer -> SkbState]
BY DEF Given, SkbType, SkbState

LEMMA PlainAir ==
    ASSUME AirType, RestType, NEW s \in Sender,
           \/ air' = [air EXCEPT ![s] = Arrived(@)]
           \/ air' = [air EXCEPT ![s] = [Arrived(@) EXCEPT !.lost = TRUE]]
    PROVE  /\ AirType' /\ Heard(s) /\ air'[s].ups = air[s].ups
           /\ \A t \in Sender : air'[t].loose = air[t].loose
<1> DEFINE a == Arrived(air[s])
<1>1. air[s] \in AirRecord /\ jiffies \in 0 .. MaxTime
  BY DEF AirType, RestType
<1>2. /\ a \in AirRecord /\ a.msdu = air[s].msdu /\ a.shape = air[s].shape
      /\ a.frag = air[s].frag /\ a.ups = air[s].ups /\ a.lost = air[s].lost
      /\ a.met = air[s].met
      /\ a.loose = air[s].loose /\ a.copies = air[s].copies + 1
      /\ a.since = IF air[s].copies = 0 THEN jiffies ELSE air[s].since
  BY <1>1, ArrivedRecord
<1> HIDE DEF a
<1>3. PICK r : /\ air' = [air EXCEPT ![s] = r] /\ r \in AirRecord
               /\ r.msdu = a.msdu /\ r.shape = a.shape /\ r.frag = a.frag
               /\ r.ups = a.ups /\ r.loose = a.loose /\ r.copies = a.copies
               /\ r.since = a.since /\ r.met = a.met /\ (a.lost => r.lost)
  <2>1. CASE air' = [air EXCEPT ![s] = a]
    BY <1>2, <2>1
  <2>2. CASE air' = [air EXCEPT ![s] = [a EXCEPT !.lost = TRUE]]
    <3> DEFINE r == [a EXCEPT !.lost = TRUE]
    <3>1. /\ r \in AirRecord
          /\ r.msdu = a.msdu /\ r.shape = a.shape /\ r.frag = a.frag
          /\ r.ups = a.ups /\ r.loose = a.loose /\ r.copies = a.copies
          /\ r.since = a.since /\ r.lost = TRUE /\ r.met = a.met
      BY <1>2 DEF AirRecord
    <3> QED
      BY <2>2, <3>1
  <2> QED
    BY <2>1, <2>2 DEF a
<1>4. air'[s] = r /\ \A t \in Sender : t # s => air'[t] = air[t]
  BY <1>3 DEF AirType
<1>5. AirType'
  BY <1>3 DEF AirType
<1> QED
  BY <1>2, <1>3, <1>4, <1>5 DEF Heard

\* What a frame of s does to the stations and the filter, whatever way it takes.
LEMMA Hears ==
    ASSUME TypeOK, NEW s \in Sender, ieee80211_rx(s)
    PROVE  AirType' /\ FilterType' /\ Heard(s) /\ Arrives(s)
<1>1. AirType /\ FilterType /\ RestType
  BY TypeParts
<1>2. Arrives(s) /\ air[s].copies < MaxCopies[s]
  <2>1. Arrives(s)
    BY DEF ieee80211_rx, RxMonitor, RxNoKey, RxDuplicate, RxManagement, RxForeign,
           RxUndecryptable, RxWhole, RxHead, RxNoEntry, RxMiddle, RxTail, RxUnfitHead,
           RxUnfit, Fragment, PassesFilter
  <2> QED
    BY <2>1 DEF Arrives
<1>3. CASE RxMonitor(s) \/ RxNoKey(s) \/ RxDuplicate(s)
  <2>1. FilterType'
    BY <1>1, <1>3 DEF RxMonitor, RxNoKey, RxDuplicate, FilterType
  <2>2. \/ air' = [air EXCEPT ![s] = Arrived(@)]
        \/ air' = [air EXCEPT ![s] = [Arrived(@) EXCEPT !.lost = TRUE]]
    BY <1>3, Zenon DEF RxMonitor, RxNoKey, RxDuplicate
  <2> QED
    BY <1>1, <1>2, <2>1, <2>2, PlainAir
<1>4. CASE \E up \in {0, 1} : Passed(s, up)
  BY <1>1, <1>2, <1>4, PassedAir, PassedFilter
<1>5. CASE RxManagement(s) \/ RxForeign(s) \/ RxUndecryptable(s) \/ RxHead(s) \/ RxNoEntry(s)
           \/ RxMiddle(s) \/ RxUnfitHead(s) \/ RxUnfit(s)
  BY <1>4, <1>5, Zenon DEF RxManagement, RxForeign, RxUndecryptable, RxHead, RxNoEntry,
     RxMiddle, RxUnfitHead, RxUnfit, Unfit
<1>6. CASE RxWhole(s) \/ RxTail(s)
  BY <1>4, <1>6 DEF RxWhole, RxTail
<1> QED
  BY <1>3, <1>5, <1>6 DEF ieee80211_rx

LEMMA AppendType ==
    ASSUME TypeOK, NEW s \in Sender, NEW hit, NEW d \in Seq(Piece)
    PROVE  cache_append(s, hit, d) \in [Entry -> CacheRecord]
<1> DEFINE c == Swept(frag_cache, jiffies, hit)  c1 == cache_append(s, hit, d)
<1>1. air[s].frag \in 0 .. 2
  BY TypeParts DEF AirType, AirRecord
<1>2. c \in [Entry -> CacheRecord]
  BY TypeParts, SweptType DEF CacheType
<1>3. c1 = [c EXCEPT ![hit].last_frag = air[s].frag, ![hit].data = @ \o d]
  BY DEF cache_append
<1> HIDE DEF c, c1
<1>4. CASE hit \in Entry
  <2>1. c[hit].data \in Seq(Piece)
    BY <1>2, <1>4 DEF CacheRecord
  <2> DEFINE dd == c[hit].data \o d
  <2>2. dd \in Seq(Piece)
    BY <2>1
  <2>3. c1 = [c EXCEPT ![hit] = [c[hit] EXCEPT !.last_frag = air[s].frag, !.data = dd]]
    BY <1>2, <1>3, <1>4
  <2> HIDE DEF dd
  <2>4. [c[hit] EXCEPT !.last_frag = air[s].frag, !.data = dd] \in CacheRecord
    BY <1>1, <1>2, <1>4, <2>2 DEF CacheRecord
  <2>5. c1 \in [Entry -> CacheRecord]
    BY <1>2, <1>4, <2>3, <2>4
  <2> QED
    BY <2>5 DEF c1
<1>5. CASE hit \notin Entry
  <2>1. c1 = c
    BY <1>2, <1>3, <1>5
  <2> QED
    BY <1>2, <2>1 DEF c1
<1> QED
  BY <1>4, <1>5

LEMMA HeadType ==
    ASSUME TypeOK, NEW s \in Sender, NEW b \in Buffer, NEW d \in Seq(Piece)
    PROVE  cache_head(s, b, d) \in [Entry -> CacheRecord]
<1> DEFINE e == [skb |-> b, src |-> s, seq |-> SeqOf(s), last_frag |-> 0,
                 time |-> jiffies, data |-> d]
<1>1. SeqOf(s) \in SeqNum
  BY TypeParts, Numbered DEF SeqOf, AirType, AirRecord
<1>2. e \in CacheRecord
  BY <1>1, TypeParts DEF CacheRecord, RestType
<1>3. cache_head(s, b, d) = [frag_cache EXCEPT ![frag_next_idx] = e]
  BY DEF cache_head
<1> HIDE DEF e
<1> QED
  BY <1>2, <1>3, TypeParts DEF CacheType

LEMMA InvalidateType ==
    ASSUME NEW c1 \in [Entry -> CacheRecord], NEW t, NEW s
    PROVE  cache_invalidate(c1, t, s) \in [Entry -> CacheRecord]
<1> DEFINE l == Find(c1, t, s, 1..3)  c2 == Swept(c1, t, l)
<1>1. c2 \in [Entry -> CacheRecord]
  BY SweptType
<1>2. cache_invalidate(c1, t, s) = c2 \/ cache_invalidate(c1, t, s) = [c2 EXCEPT ![l] = Unused]
  BY DEF cache_invalidate
<1> HIDE DEF c2, l
<1> QED
  BY <1>1, <1>2, EmptyEntry

LEMMA CacheTypes ==
    ASSUME TypeOK, NEW s \in Sender, ieee80211_rx(s)
    PROVE  CacheType' /\ SkbType' /\ frag_next_idx' \in Entry /\ jiffies' \in 0 .. MaxTime
<1>1. /\ AirType /\ CacheType /\ SkbType
      /\ frag_next_idx \in Entry /\ jiffies \in 0 .. MaxTime
  BY TypeParts DEF RestType
<1>2. <<Current(s)>> \in Seq(Piece) /\ <<>> \in Seq(Piece)
  BY <1>1, CurrentPiece
<1>3. CASE UNCHANGED <<jiffies, cacheVars>>
  BY <1>1, <1>3 DEF cacheVars, CacheType, SkbType
<1>4. CASE RxHead(s) \/ RxUnfitHead(s)
  <2>1. frag_next_idx' = (frag_next_idx + 1) % CACHE_LEN /\ jiffies' = jiffies
    BY <1>4 DEF RxHead, RxUnfitHead, next_idx
  <2>2. frag_next_idx' \in Entry
    BY <1>1, <2>1, Bounds DEF Entry
  <2>3. CacheType' /\ SkbType'
    <3>1. CASE RxHead(s)
      <4>1. PICK b \in Buffer :
               /\ frag_cache' = cache_head(s, b, <<Current(s)>>)
               /\ skb' = Given(Buffers(frag_cache) \ Buffers(frag_cache'), {b}, "cache")
        BY <3>1, Zenon DEF RxHead
      <4> QED
        BY <1>1, <1>2, <4>1, HeadType, GivenType DEF CacheType, SkbType, SkbState
    <3>2. CASE RxUnfitHead(s)
      <4>1. PICK b \in Buffer : Unfit(s, cache_head(s, b, <<>>))
        BY <3>2, Zenon DEF RxUnfitHead
      <4> DEFINE c1 == cache_head(s, b, <<>>)
      <4>2. c1 \in [Entry -> CacheRecord]
        BY <1>2, HeadType
      <4>3. /\ frag_cache' = cache_invalidate(c1, jiffies', s)
            /\ \E moved : skb' = Given(Buffers(frag_cache) \ Buffers(frag_cache'), moved, "lost")
        BY <4>1, Zenon DEF Unfit
      <4> HIDE DEF c1
      <4> QED
        BY <1>1, <4>2, <4>3, InvalidateType, GivenType DEF CacheType, SkbType, SkbState
    <3> QED
      BY <1>4, <3>1, <3>2
  <2> QED
    BY <1>1, <2>1, <2>2, <2>3
<1>5. CASE RxNoEntry(s)
  <2>1. jiffies' = jiffies /\ frag_next_idx' = frag_next_idx
    BY <1>5 DEF RxNoEntry, cacheVars
  <2>2. \/ frag_cache' = frag_cache /\ skb' = skb
        \/ /\ frag_cache' = Swept(frag_cache, jiffies, None)
           /\ skb' = Given(Buffers(frag_cache) \ Buffers(frag_cache'), {}, "lost")
    BY <1>5 DEF RxNoEntry, cacheVars
  <2> QED
    BY <1>1, <2>1, <2>2, SweptType, GivenType DEF CacheType, SkbType, SkbState
<1> DEFINE hit == Find(frag_cache, jiffies, s, {air[s].frag})
           c1 == cache_append(s, hit, <<Current(s)>>)
<1>6. c1 \in [Entry -> CacheRecord]
  BY <1>2, AppendType
<1>7. CASE RxMiddle(s)
  <2>1. /\ jiffies' = jiffies /\ frag_next_idx' = frag_next_idx /\ frag_cache' = c1
        /\ skb' = Given(Buffers(frag_cache) \ Buffers(frag_cache'), {}, "lost")
    BY <1>7 DEF RxMiddle
  <2> QED
    BY <1>1, <1>6, <2>1, GivenType DEF CacheType, SkbType, SkbState
<1>8. CASE RxTail(s)
  <2>1. /\ jiffies' \in 0 .. MaxTime /\ frag_next_idx' = frag_next_idx
        /\ frag_cache' = cache_invalidate(c1, jiffies', s)
    BY <1>8 DEF RxTail
  <2>2. CacheType'
    BY <1>6, <2>1, InvalidateType DEF CacheType
  <2>3. SkbType'
    <3> DEFINE l == Find(c1, jiffies', s, 1..3)
               g == Given(Buffers(frag_cache) \ Buffers(frag_cache'),
                          IF l = None THEN {} ELSE {c1[l].skb}, "lost")
               x == c1[hit].skb
    <3>1. g \in [Buffer -> SkbState] /\ "free" \in SkbState
      BY <1>1, GivenType DEF SkbState
    <3>2. \E refused \in Refusals(s) : skb' = [g EXCEPT ![x] = IF refused THEN @ ELSE "free"]
      BY <1>8, Zenon DEF RxTail
    <3> HIDE DEF g, x
    <3>3. skb' = g \/ skb' = [g EXCEPT ![x] = "free"]
      BY <3>1, <3>2
    <3> QED
      BY <3>1, <3>3 DEF SkbType
  <2> QED
    BY <1>1, <2>1, <2>2, <2>3
<1>9. CASE RxUnfit(s)
  <2> DEFINE c2 == cache_append(s, hit, <<>>)
  <2>1. c2 \in [Entry -> CacheRecord]
    BY <1>2, AppendType
  <2>2. jiffies' \in 0 .. MaxTime /\ frag_next_idx' = frag_next_idx
    BY <1>9 DEF RxUnfit
  <2>3. Unfit(s, c2)
    BY <1>9, Zenon DEF RxUnfit
  <2> HIDE DEF c2
  <2>4. /\ frag_cache' = cache_invalidate(c2, jiffies', s)
        /\ \E moved : skb' = Given(Buffers(frag_cache) \ Buffers(frag_cache'), moved, "lost")
    BY <2>3, Zenon DEF Unfit
  <2> QED
    BY <1>1, <2>1, <2>2, <2>4, InvalidateType, GivenType DEF CacheType, SkbType, SkbState
<1>10. CASE RxMonitor(s) \/ RxNoKey(s) \/ RxDuplicate(s) \/ RxManagement(s) \/ RxForeign(s)
            \/ RxUndecryptable(s) \/ RxWhole(s)
  BY <1>3, <1>10, Zenon DEF RxMonitor, RxNoKey, RxDuplicate, RxManagement, RxForeign,
     RxUndecryptable, RxWhole
<1> QED
  BY <1>4, <1>5, <1>7, <1>8, <1>9, <1>10, Zenon DEF ieee80211_rx

(***************************************************************************)
(* Type correctness.                                                       *)
(***************************************************************************)
LEMMA FreshRecord ==
    ASSUME NEW m \in Nat, NEW sh \in ShapeType, NEW met \in BOOLEAN
    PROVE  LET f == Fresh(m, sh, met)
           IN  /\ f \in AirRecord /\ f.msdu = m /\ f.shape = sh /\ f.frag = 0
               /\ f.copies = 0 /\ f.since = 0 /\ f.ups = 0
               /\ f.lost = FALSE /\ f.loose = FALSE /\ f.met = met
BY Bounds DEF Fresh, AirRecord

\* What the other actions do to the stations.
LEMMA NextFragment ==
    ASSUME AirType, NEW s \in Sender, SendsNextFragment(s)
    PROVE  /\ AirType' /\ air[s].frag + 1 < air[s].shape.n
           /\ \A t \in Sender : t # s => air'[t] = air[t]
           /\ air'[s].msdu = air[s].msdu /\ air'[s].shape = air[s].shape
           /\ air'[s].frag = air[s].frag + 1 /\ air'[s].copies = 0 /\ air'[s].since = 0
           /\ air'[s].met = air[s].met
           /\ air'[s].ups = air[s].ups /\ air'[s].loose = air[s].loose
           /\ air'[s].lost <=> air[s].lost \/ air[s].copies = 0
<1> DEFINE l == air[s].lost \/ air[s].copies = 0  f == air[s].frag + 1
<1>1. air[s] \in AirRecord
  BY DEF AirType
<1>2. f < air[s].shape.n
  BY DEF SendsNextFragment, More
<1>3. f \in 0 .. 2
  BY <1>1, <1>2 DEF AirRecord, ShapeType
<1>4. air' = [air EXCEPT ![s] = [air[s] EXCEPT !.frag = f, !.copies = 0, !.since = 0,
                                              !.lost = l]]
  BY DEF SendsNextFragment, AirType
<1>5. l \in BOOLEAN
  BY <1>1 DEF AirRecord
<1> DEFINE r == [air[s] EXCEPT !.frag = f, !.copies = 0, !.since = 0, !.lost = l]
<1> HIDE DEF l, f
<1>6. /\ r \in AirRecord /\ r.msdu = air[s].msdu /\ r.shape = air[s].shape
      /\ r.frag = f /\ r.copies = 0 /\ r.since = 0 /\ r.ups = air[s].ups
      /\ r.loose = air[s].loose /\ r.lost = l /\ r.met = air[s].met
  <2>1. 0 \in Nat /\ 0 \in 0 .. MaxTime
    BY Bounds
  <2> QED
    BY <1>1, <1>3, <1>5, <2>1 DEF AirRecord
<1>7. air' = [air EXCEPT ![s] = r]
  BY <1>4
<1> HIDE DEF r
<1>8. AirType' /\ air'[s] = r /\ \A t \in Sender : t # s => air'[t] = air[t]
  BY <1>6, <1>7 DEF AirType
<1> QED
  BY <1>2, <1>6, <1>8 DEF l, f

LEMMA NextMsdu ==
    ASSUME AirType, NEW s \in Sender, SendsNextMsdu(s)
    PROVE  /\ AirType' /\ air[s].msdu < MaxMsdu[s]
           /\ \A t \in Sender : t # s => air'[t] = air[t]
           /\ air'[s].msdu = air[s].msdu + 1 /\ air'[s].shape \in ShapeType
           /\ air'[s].frag = 0 /\ air'[s].copies = 0 /\ air'[s].since = 0
           /\ air'[s].ups = 0 /\ ~air'[s].lost /\ ~air'[s].loose
           /\ air'[s].met <=> air[s].met \/ Waits(s, (air[s].msdu + 1) % SeqMod)
<1> DEFINE w == air[s].met \/ Waits(s, (air[s].msdu + 1) % SeqMod)
<1>1. air[s] \in AirRecord
  BY DEF AirType
<1>2. PICK sh \in Shape[s] : air' = [air EXCEPT ![s] = Fresh(air[s].msdu + 1, sh, w)]
  BY Zenon DEF SendsNextMsdu
<1>3. sh \in ShapeType /\ air[s].msdu + 1 \in Nat
  BY <1>1, Bounds DEF AirRecord
<1>0. w \in BOOLEAN
  BY <1>1 DEF AirRecord
<1> DEFINE r == Fresh(air[s].msdu + 1, sh, w)
<1> HIDE DEF w
<1>4. /\ r \in AirRecord /\ r.msdu = air[s].msdu + 1 /\ r.shape = sh /\ r.frag = 0
      /\ r.copies = 0 /\ r.since = 0 /\ r.ups = 0 /\ r.lost = FALSE /\ r.loose = FALSE
      /\ r.met = w
  BY <1>0, <1>3, FreshRecord, ZenonT(40)
<1> HIDE DEF r
<1>5. air' = [air EXCEPT ![s] = r]
  BY <1>2 DEF r
<1>6. AirType' /\ air'[s] = r /\ \A t \in Sender : t # s => air'[t] = air[t]
  BY <1>4, <1>5 DEF AirType
<1>7. air[s].msdu < MaxMsdu[s]
  BY <1>1, Bounds DEF SendsNextMsdu, AirRecord
<1> QED
  BY <1>3, <1>4, <1>6, <1>7 DEF w

LEMMA Forgets ==
    ASSUME AirType, FilterType, RestType, StartProtocol
    PROVE  /\ AirType' /\ FilterType'
           /\ \A t \in Sender :
                 /\ air'[t].msdu = air[t].msdu /\ air'[t].shape = air[t].shape
                 /\ air'[t].frag = air[t].frag /\ air'[t].copies = air[t].copies
                 /\ air'[t].since = air[t].since /\ air'[t].lost = air[t].lost
                 /\ air'[t].ups = air[t].ups /\ air'[t].met = air[t].met
                 /\ iw_mode = "adhoc" => air'[t].loose = air[t].loose
                 /\ iw_mode # "adhoc" =>
                       (air'[t].loose <=> air[t].loose \/ air[t].frag > 0 \/ air[t].copies > 0)
<1>1. Forgotten \in FilterRecord
  BY Bounds DEF Forgotten, FilterRecord
<1>2. FilterType'
  BY <1>1 DEF StartProtocol, FilterType
<1>3. \A t \in Sender : air[t] \in AirRecord
  BY DEF AirType
<1>4. air' = IF iw_mode = "adhoc" THEN air ELSE [s \in Sender |-> Loosened(air[s])]
  BY DEF StartProtocol
<1> QED
  BY <1>2, <1>3, <1>4, LoosenedRecord DEF AirType

LEMMA InitTypes ==
    ASSUME Init
    PROVE  TypeOK /\ Stations
<1>1. /\ Forgotten \in FilterRecord /\ Unused \in CacheRecord
      /\ filter = [k \in Sender \cup {Anybody} |-> Forgotten]
      /\ frag_cache = [i \in Entry |-> Unused]
  BY Bounds, EmptyEntry DEF Forgotten, FilterRecord, Init
<1>2. FilterType /\ CacheType
  BY <1>1 DEF FilterType, CacheType
<1>3. SkbType
  BY DEF Init, SkbType, SkbState
<1>4. RestType
  <2>1. 0 \in Entry /\ 0 \in 0 .. MaxTime
    BY Bounds DEF Entry
  <2> QED
    BY <2>1 DEF Init, RestType
<1>5. \A s \in Sender : \E sh \in ShapeType : air[s] = Fresh(0, sh, FALSE)
  BY DEF Init
<1>6. AirType
  <2>1. air \in [Sender -> {Fresh(0, sh, FALSE) : sh \in ShapeType}]
    BY DEF Init
  <2>2. {Fresh(0, sh, FALSE) : sh \in ShapeType} \subseteq AirRecord
    BY FreshRecord, ZenonT(40)
  <2> QED
    BY <2>1, <2>2 DEF AirType
<1>8. Stations
  <2> SUFFICES ASSUME NEW s \in Sender
               PROVE  /\ air[s].frag < air[s].shape.n /\ air[s].since <= jiffies
                      /\ air[s].msdu <= MaxMsdu[s]
    BY DEF Stations
  <2>1. PICK sh \in ShapeType : air[s] = Fresh(0, sh, FALSE)
    BY <1>5
  <2>2. /\ air[s].msdu = 0 /\ air[s].shape = sh /\ air[s].frag = 0 /\ air[s].since = 0
    BY <2>1 DEF Fresh
  <2>3. jiffies = 0
    BY DEF Init
  <2>4. air[s].shape.n \in 1 .. 3 /\ MaxMsdu[s] \in Nat
    BY <2>1, <2>2, Bounds DEF ShapeType
  <2> QED
    BY <2>2, <2>3, <2>4
<1> QED
  BY <1>2, <1>3, <1>4, <1>6, <1>8, TypeParts

LEMMA TypeStep ==
    ASSUME TypeOK, Stations, [Next]_vars
    PROVE  TypeOK' /\ Stations'
<1>1. AirType /\ FilterType /\ CacheType /\ SkbType /\ RestType
  BY TypeParts
<1>2. /\ jiffies \in 0 .. MaxTime
      /\ \A s \in Sender : air[s] \in AirRecord /\ MaxMsdu[s] \in Nat
  BY <1>1, Bounds DEF RestType, AirType
<1>3. ASSUME NEW s \in Sender, ieee80211_rx(s), UNCHANGED <<iw_mode, open_wep, crypt>>
      PROVE  TypeOK' /\ Stations'
  <2>1. AirType' /\ FilterType' /\ Heard(s) /\ Arrives(s)
    BY <1>3, Hears
  <2>2. CacheType' /\ SkbType' /\ frag_next_idx' \in Entry /\ jiffies' \in 0 .. MaxTime
    BY <1>3, CacheTypes
  <2>4. RestType'
    BY <1>1, <1>3, <2>2 DEF RestType
  <2>5. TypeOK'
    <3>1. TypeOK' <=> AirType' /\ FilterType' /\ CacheType' /\ SkbType' /\ RestType'
      BY TypeParts, PTL
    <3> QED
      BY <2>1, <2>2, <2>4, <3>1
  <2>6. jiffies <= jiffies'
    <3>1. jiffies' = jiffies \/ jiffies' \in {jiffies, jiffies + 1} \cap (0 .. MaxTime)
      BY <1>3, Zenon DEF ieee80211_rx, RxMonitor, RxNoKey, RxDuplicate, RxManagement,
         RxForeign, RxUndecryptable, RxWhole, RxHead, RxNoEntry, RxMiddle, RxTail,
         RxUnfitHead, RxUnfit
    <3> QED
      BY <1>2, <3>1
  <2>7. Stations'
    <3> SUFFICES ASSUME NEW t \in Sender
                 PROVE  /\ air'[t].frag < air'[t].shape.n /\ air'[t].since <= jiffies'
                        /\ air'[t].msdu <= MaxMsdu[t]
      BY DEF Stations
    <3>1. air'[t].frag < air'[t].shape.n /\ air'[t].msdu <= MaxMsdu[t]
      BY <2>1 DEF Heard, Stations
    <3>2. air'[t].since <= jiffies'
      <4>1. air'[t].since = air[t].since \/ air'[t].since = jiffies
        BY <2>1 DEF Heard
      <4>2. air[t].since <= jiffies /\ air[t].since \in Int
        BY <1>2 DEF Stations, AirRecord
      <4> QED
        BY <1>2, <2>2, <2>6, <4>1, <4>2
    <3> QED
      BY <3>1, <3>2
  <2> QED
    BY <2>5, <2>7
<1>4. ASSUME NEW s \in Sender, SendsNextFragment(s) \/ SendsNextMsdu(s),
             UNCHANGED <<iw_mode, open_wep, crypt, filter, cacheVars, jiffies, last>>
      PROVE  TypeOK' /\ Stations'
  <2>1. AirType' /\ \A t \in Sender : t # s => air'[t] = air[t]
    BY <1>1, <1>4, NextFragment, NextMsdu
  <2>2. TypeOK'
    BY <1>1, <1>4, <2>1, TypeParts DEF TypeOK, AirType, AirRecord, cacheVars
  <2>3. \/ air'[s].msdu = air[s].msdu /\ air'[s].frag < air'[s].shape.n
        \/ /\ air'[s].msdu = air[s].msdu + 1 /\ air[s].msdu < MaxMsdu[s]
           /\ air'[s].shape \in ShapeType /\ air'[s].frag = 0
    BY <1>1, <1>4, NextFragment, NextMsdu
  <2>4. air'[s].since = 0
    BY <1>1, <1>4, NextFragment, NextMsdu
  <2>5. Stations'
    BY <1>2, <1>4, <2>1, <2>3, <2>4 DEF Stations, AirRecord, ShapeType
  <2> QED
    BY <2>2, <2>5
<1>5. ASSUME TimePasses, UNCHANGED <<iw_mode, open_wep, crypt, filter, cacheVars, last>>
      PROVE  TypeOK' /\ Stations'
  <2>1. jiffies' = jiffies + 1 /\ jiffies' \in 0 .. MaxTime /\ air' = air
    BY <1>2, <1>5, Bounds DEF TimePasses
  <2>2. TypeOK'
    BY <1>5, <2>1 DEF TypeOK, cacheVars
  <2>3. Stations'
    BY <1>2, <2>1 DEF Stations, AirRecord
  <2> QED
    BY <2>2, <2>3
<1>6. ASSUME StartProtocol, UNCHANGED <<iw_mode, open_wep, jiffies, last>>
      PROVE  TypeOK' /\ Stations'
  <2>1. AirType' /\ FilterType'
    BY <1>1, <1>6, Forgets
  <2>2. UNCHANGED <<iw_mode, open_wep, jiffies, cacheVars, crypt>>
    BY <1>6 DEF StartProtocol
  <2>3. TypeOK'
    BY <2>1, <2>2 DEF TypeOK, AirType, AirRecord, FilterType, FilterRecord, cacheVars
  <2>4. \A t \in Sender : /\ air'[t].frag = air[t].frag /\ air'[t].shape = air[t].shape
                          /\ air'[t].since = air[t].since /\ air'[t].msdu = air[t].msdu
    BY <1>1, <1>6, Forgets
  <2>5. Stations'
    BY <2>2, <2>4 DEF Stations
  <2> QED
    BY <2>3, <2>5
<1>7. ASSUME SetKey, UNCHANGED <<iw_mode, open_wep, jiffies, air, last>>
      PROVE  TypeOK' /\ Stations'
  BY <1>7 DEF SetKey, TypeOK, Stations, cacheVars
<1>8. CASE UNCHANGED vars
  BY <1>8 DEF vars, TypeOK, Stations
<1> QED
  BY <1>3, <1>4, <1>5, <1>6, <1>7, <1>8 DEF Next

\* The receive path keeps its types: the filter, the cache and its buffers stay what
\* the code declares, and no station is past the end
\* of its MSDU or ahead of jiffies.
THEOREM TypeCorrect == Spec => [](TypeOK /\ Stations)
<1>1. Init => TypeOK /\ Stations
  BY InitTypes
<1>2. (TypeOK /\ Stations) /\ [Next]_vars => (TypeOK /\ Stations)'
  BY TypeStep
<1> QED
  BY <1>1, <1>2, PTL DEF Spec

(***************************************************************************)
(* What the entries of the cache hold.                                     *)
(***************************************************************************)
\* The stations stay with their MSDUs.
Onward ==
    /\ jiffies <= jiffies'
    /\ \A s \in Sender :
          /\ air'[s].msdu = air[s].msdu /\ air'[s].shape = air[s].shape
          /\ air[s].frag <= air'[s].frag

\* The facts about types that the lemmas below keep needing.
Kinded ==
    /\ jiffies \in Nat /\ jiffies <= MaxTime
    /\ \A i \in Entry :
          /\ frag_cache[i] \in CacheRecord
          /\ frag_cache[i].seq \in SeqNum /\ frag_cache[i].last_frag \in 0 .. 2
          /\ frag_cache[i].time \in Nat /\ frag_cache[i].data \in Seq(Piece)
    /\ \A s \in Sender :
          /\ air[s] \in AirRecord /\ air[s].msdu \in Nat /\ air[s].frag \in 0 .. 2
          /\ air[s].shape.n \in 1 .. 3 /\ air[s].shape.room \in 0 .. 3
          /\ air[s].copies \in Nat /\ SeqOf(s) \in SeqNum

LEMMA Kinds == TypeOK => Kinded
<1> SUFFICES ASSUME TypeOK PROVE Kinded
  OBVIOUS
<1>1. AirType /\ CacheType /\ RestType
  BY TypeParts
<1>2. \A i \in Entry :
         /\ frag_cache[i] \in CacheRecord
         /\ frag_cache[i].seq \in SeqNum /\ frag_cache[i].last_frag \in 0 .. 2
         /\ frag_cache[i].time \in Nat /\ frag_cache[i].data \in Seq(Piece)
  BY <1>1 DEF CacheType, CacheRecord
<1>3. \A s \in Sender :
         /\ air[s] \in AirRecord /\ air[s].msdu \in Nat /\ air[s].frag \in 0 .. 2
         /\ air[s].shape.n \in 1 .. 3 /\ air[s].shape.room \in 0 .. 3 /\ air[s].copies \in Nat
  BY <1>1 DEF AirType, AirRecord, ShapeType
<1>4. \A s \in Sender : SeqOf(s) \in SeqNum
  BY <1>3, Numbered DEF SeqOf
<1>6. jiffies \in Nat /\ jiffies <= MaxTime
  BY <1>1, Bounds DEF RestType
<1> QED
  BY <1>2, <1>3, <1>4, <1>6 DEF Kinded

LEMMA KindsNext == TypeOK' => Kinded'
BY Kinds, PTL

\* Entries that stay as they are, or are emptied, stay right.
LEMMA KeptEntries ==
    ASSUME TypeOK, TypeOK', Joined, Waiting, Ordered, Onward,
           \A i \in Entry : frag_cache'[i] = frag_cache[i] \/ ~InUse(frag_cache'[i])
    PROVE  Joined' /\ Waiting' /\ Ordered'
<1>1. \A s \in Sender : SeqOf(s)' = SeqOf(s)
  BY DEF Onward, SeqOf
<1>2. \A i \in Entry, s \in Sender :
         Live(i, s)' => Live(i, s) /\ frag_cache'[i] = frag_cache[i]
  BY <1>1, Kinds, KindsNext, Bounds DEF Kinded, Live, Expired, InUse, Onward
<1>3. Joined'
  <2> SUFFICES ASSUME NEW i \in Entry, InUse(frag_cache'[i])
               PROVE  LET e == frag_cache'[i]
                          p == e.data[1]
                      IN  /\ e.src \in Sender /\ e.time <= jiffies'
                          /\ Len(e.data) = e.last_frag + 1 /\ p.src = e.src
                          /\ \A k \in 1 .. Len(e.data) : e.data[k] = [p EXCEPT !.frag = k - 1]
    BY Zenon DEF Joined
  <2> DEFINE e == frag_cache[i]  p == e.data[1]
  <2>1. frag_cache'[i] = e /\ InUse(e)
    BY Zenon
  <2>2. /\ e.src \in Sender /\ e.time <= jiffies
        /\ Len(e.data) = e.last_frag + 1 /\ p.src = e.src
        /\ \A k \in 1 .. Len(e.data) : e.data[k] = [p EXCEPT !.frag = k - 1]
    BY <2>1, Zenon DEF Joined
  <2>3. e.time \in Nat /\ jiffies \in Nat /\ jiffies' \in Nat /\ jiffies <= jiffies'
    BY Kinds, KindsNext DEF Kinded, Onward
  <2> HIDE DEF e
  <2>4. e.time <= jiffies'
    BY <2>2, <2>3
  <2> QED
    BY <2>1, <2>2, <2>4, Zenon
<1>4. Waiting'
  <2> SUFFICES ASSUME NEW i \in Entry, NEW s \in Sender, Live(i, s)'
               PROVE  LET e == frag_cache'[i]
                      IN  /\ e.data[1].msdu = air'[s].msdu /\ e.data[1].n = air'[s].shape.n
                          /\ e.last_frag <= air'[s].frag /\ e.last_frag + 1 < air'[s].shape.n
                          /\ e.last_frag < air'[s].shape.room
    BY Zenon DEF Waiting
  <2>1. Live(i, s) /\ frag_cache'[i] = frag_cache[i]
    BY <1>2
  <2>2. LET e == frag_cache[i]
        IN  /\ e.data[1].msdu = air[s].msdu /\ e.data[1].n = air[s].shape.n
            /\ e.last_frag <= air[s].frag /\ e.last_frag + 1 < air[s].shape.n
            /\ e.last_frag < air[s].shape.room
    BY <2>1, Zenon DEF Waiting
  <2> QED
    BY <2>1, <2>2, Kinds, KindsNext DEF Kinded, Onward
<1>5. Ordered'
  <2> SUFFICES ASSUME NEW s \in Sender, NEW i \in Entry, NEW j \in Entry,
                      Live(i, s)', Live(j, s)', i < j
               PROVE  frag_cache'[i].last_frag >= frag_cache'[j].last_frag
    BY Zenon DEF Ordered
  <2>1. Live(i, s) /\ Live(j, s) /\ frag_cache'[i] = frag_cache[i]
           /\ frag_cache'[j] = frag_cache[j]
    BY <1>2
  <2> QED
    BY <2>1 DEF Ordered
<1> QED
  BY <1>3, <1>4, <1>5

\* The first fragment: a new entry, which has the fewest fragments of all.
LEMMA HeadEntries ==
    ASSUME CacheInv, TypeOK', Onward, NEW s \in Sender, NEW b, NEW idx \in Entry,
           frag_cache' = [frag_cache EXCEPT ![idx] =
                             [skb |-> b, src |-> s, seq |-> SeqOf(s), last_frag |-> 0,
                              time |-> jiffies, data |-> <<Current(s)>>]],
           air[s].frag = 0, air[s].shape.n > 1, Fits(s)
    PROVE  Joined' /\ Waiting' /\ Ordered'
<1> DEFINE e == [skb |-> b, src |-> s, seq |-> SeqOf(s), last_frag |-> 0,
                 time |-> jiffies, data |-> <<Current(s)>>]
<1>1. TypeOK /\ Joined /\ Waiting /\ Ordered /\ Kinded /\ Kinded'
  BY Kinds, KindsNext DEF CacheInv
<1>2. \A t \in Sender : SeqOf(t)' = SeqOf(t)
  BY DEF Onward, SeqOf
<1>3. frag_cache'[idx] = e /\ \A i \in Entry : i # idx => frag_cache'[i] = frag_cache[i]
  BY <1>1, TypeParts DEF CacheType
<1>4. /\ e.src = s /\ e.seq = SeqOf(s) /\ e.last_frag = 0 /\ e.time = jiffies
      /\ e.data = <<Current(s)>> /\ e.skb = b
  OBVIOUS
<1> HIDE DEF e
<1>5. \A i \in Entry, t \in Sender : i # idx /\ Live(i, t)' => Live(i, t)
  BY <1>1, <1>2, <1>3, Bounds DEF Kinded, Live, Expired, InUse, Onward
<1>6. \A t \in Sender : Live(idx, t)' => t = s
  BY <1>3, <1>4 DEF Live
<1>7. /\ Current(s).msdu = air[s].msdu /\ Current(s).n = air[s].shape.n
      /\ Current(s).src = s /\ Current(s).frag = 0
      /\ Current(s) = [Current(s) EXCEPT !.frag = 1 - 1]
  BY DEF Current
<1>8. Joined'
  <2> SUFFICES ASSUME NEW i \in Entry, InUse(frag_cache'[i])
               PROVE  LET d == frag_cache'[i]
                          p == d.data[1]
                      IN  /\ d.src \in Sender /\ d.time <= jiffies'
                          /\ Len(d.data) = d.last_frag + 1 /\ p.src = d.src
                          /\ \A k \in 1 .. Len(d.data) : d.data[k] = [p EXCEPT !.frag = k - 1]
    BY Zenon DEF Joined
  <2>1. CASE i = idx
    <3>1. frag_cache'[i] = e
      BY <1>3, <2>1
    <3>2. Len(e.data) = 1 /\ e.data[1] = Current(s)
      BY <1>4
    <3>3. \A k \in 1 .. Len(e.data) : e.data[k] = [e.data[1] EXCEPT !.frag = k - 1]
      <4> SUFFICES ASSUME NEW k \in 1 .. 1
                   PROVE  e.data[k] = [e.data[1] EXCEPT !.frag = k - 1]
        BY <3>2
      <4>1. k = 1
        OBVIOUS
      <4> QED
        BY <1>7, <3>2, <4>1
    <3>4. e.time <= jiffies'
      BY <1>1, <1>4 DEF Kinded, Onward
    <3>5. Len(e.data) = e.last_frag + 1 /\ e.src \in Sender /\ e.data[1].src = e.src
      BY <1>4, <1>7, <3>2
    <3> QED
      BY <3>1, <3>3, <3>4, <3>5, Zenon
  <2>2. CASE i # idx
    <3> DEFINE d == frag_cache[i]  p == d.data[1]
    <3>1. frag_cache'[i] = d /\ InUse(d)
      BY <1>3, <2>2
    <3>2. /\ d.src \in Sender /\ d.time <= jiffies
          /\ Len(d.data) = d.last_frag + 1 /\ p.src = d.src
          /\ \A k \in 1 .. Len(d.data) : d.data[k] = [p EXCEPT !.frag = k - 1]
      BY <1>1, <3>1, Zenon DEF Joined
    <3>3. d.time \in Nat /\ jiffies \in Nat /\ jiffies' \in Nat /\ jiffies <= jiffies'
      BY <1>1 DEF Kinded, Onward
    <3> HIDE DEF d
    <3>4. d.time <= jiffies'
      BY <3>2, <3>3
    <3> QED
      BY <3>1, <3>2, <3>4, ZenonT(40)
  <2> QED
    BY <2>1, <2>2
<1>9. Waiting'
  <2> SUFFICES ASSUME NEW i \in Entry, NEW t \in Sender, Live(i, t)'
               PROVE  LET d == frag_cache'[i]
                      IN  /\ d.data[1].msdu = air'[t].msdu /\ d.data[1].n = air'[t].shape.n
                          /\ d.last_frag <= air'[t].frag /\ d.last_frag + 1 < air'[t].shape.n
                          /\ d.last_frag < air'[t].shape.room
    BY Zenon DEF Waiting
  <2>1. CASE i = idx
    <3>1. t = s /\ frag_cache'[i] = e /\ e.data[1] = Current(s) /\ e.last_frag = 0
      BY <1>3, <1>4, <1>6, <2>1
    <3> QED
      BY <1>1, <1>7, <3>1 DEF Kinded, Onward, Fits
  <2>2. CASE i # idx
    <3>1. Live(i, t) /\ frag_cache'[i] = frag_cache[i]
      BY <1>3, <1>5, <2>2
    <3>2. LET d == frag_cache[i]
          IN  /\ d.data[1].msdu = air[t].msdu /\ d.data[1].n = air[t].shape.n
              /\ d.last_frag <= air[t].frag /\ d.last_frag + 1 < air[t].shape.n
              /\ d.last_frag < air[t].shape.room
      BY <1>1, <3>1, Zenon DEF Waiting
    <3>3. /\ air'[t].msdu = air[t].msdu /\ air'[t].shape = air[t].shape
          /\ frag_cache[i].last_frag <= air'[t].frag
      <4>1. /\ frag_cache[i].last_frag \in 0 .. 2
            /\ air[t].frag \in 0 .. 2 /\ air'[t].frag \in 0 .. 2
        BY <1>1, Zenon DEF Kinded
      <4>2. /\ air'[t].msdu = air[t].msdu /\ air'[t].shape = air[t].shape
            /\ air[t].frag <= air'[t].frag
        BY Zenon DEF Onward
      <4> QED
        BY <3>2, <4>1, <4>2
    <3> QED
      BY <3>1, <3>2, <3>3, Zenon
  <2> QED
    BY <2>1, <2>2
<1>10. Ordered'
  <2> SUFFICES ASSUME NEW t \in Sender, NEW i \in Entry, NEW j \in Entry,
                      Live(i, t)', Live(j, t)', i < j
               PROVE  frag_cache'[i].last_frag >= frag_cache'[j].last_frag
    BY Zenon DEF Ordered
  <2>1. CASE i # idx /\ j # idx
    BY <1>1, <1>3, <1>5, <2>1 DEF Ordered
  <2>2. CASE j = idx
    <3>1. frag_cache'[j].last_frag = 0 /\ frag_cache'[i].last_frag \in 0 .. 2
      BY <1>1, <1>3, <1>4, <2>2 DEF Kinded
    <3> QED
      BY <3>1
  <2>3. CASE i = idx
    <3>1. j # idx
      BY <2>3, Bounds DEF Entry
    <3>2. t = s /\ Live(j, t) /\ frag_cache'[j] = frag_cache[j] /\ frag_cache'[i].last_frag = 0
      BY <1>3, <1>4, <1>5, <1>6, <2>3, <3>1
    <3>3. frag_cache[j].last_frag <= 0
      BY <1>1, <3>2 DEF Waiting
    <3>4. frag_cache[j].last_frag \in 0 .. 2
      BY <1>1 DEF Kinded
    <3> QED
      BY <3>2, <3>3, <3>4
  <2> QED
    BY <2>1, <2>2, <2>3
<1> QED
  BY <1>8, <1>9, <1>10

\* Sweeping leaves an entry as it is, or empties it.
LEMMA Sweeps ==
    ASSUME NEW c \in [Entry -> CacheRecord], NEW t, NEW hit
    PROVE  /\ \A i \in Entry : Swept(c, t, hit)[i] = c[i] \/ ~InUse(Swept(c, t, hit)[i])
           /\ \A i \in Entry : InUse(Swept(c, t, hit)[i]) => Swept(c, t, hit)[i] = c[i]
           /\ \A i \in Entry : i < hit /\ Expired(c[i], t) => ~InUse(Swept(c, t, hit)[i])
           /\ hit \in Entry => Swept(c, t, hit)[hit] = c[hit]
<1>1. \A i \in Entry :
         Swept(c, t, hit)[i] = IF i < hit /\ Expired(c[i], t) THEN Unused ELSE c[i]
  BY DEF Swept
<1>2. hit \in Entry => ~(hit < hit)
  BY Bounds DEF Entry
<1> QED
  BY <1>1, <1>2, EmptyEntry

\* What c1 is after ieee80211_frag_cache_get found the entry hit for a frame of s; its
\* payload was appended, if it fitted.
Extended(s, hit, c1) ==
    LET e == frag_cache[hit]
        x == c1[hit]
    IN  /\ hit \in Entry /\ Live(hit, s) /\ e.last_frag + 1 = air[s].frag
        /\ x.skb = e.skb /\ x.src = s /\ x.seq = SeqOf(s) /\ x.time = e.time
        /\ x.last_frag = air[s].frag
        /\ \A i \in Entry : i # hit => c1[i] = frag_cache[i] \/ ~InUse(c1[i])
        /\ \A i \in Entry : i < hit /\ Live(i, s) => frag_cache[i].last_frag >= air[s].frag

Appended(s, hit, c1) ==
    LET e == frag_cache[hit]
        x == c1[hit]
    IN  /\ Len(x.data) = air[s].frag + 1
        /\ \A k \in 1 .. Len(x.data) : x.data[k] = [x.data[1] EXCEPT !.frag = k - 1]
        /\ x.data[1] = e.data[1] /\ e.data[1].src = s
        /\ e.data[1].msdu = air[s].msdu /\ e.data[1].n = air[s].shape.n

LEMMA Appends ==
    ASSUME CacheInv, NEW s \in Sender, NEW hit, NEW a \in Seq(Piece),
           hit = Find(frag_cache, jiffies, s, {air[s].frag}), hit # None
    PROVE  /\ Extended(s, hit, cache_append(s, hit, a))
           /\ a = <<Current(s)>> => Appended(s, hit, cache_append(s, hit, a))
<1> DEFINE e == frag_cache[hit]
           c1 == cache_append(s, hit, a)
           w == Swept(frag_cache, jiffies, hit)
           d == e.data \o a
<1>1. TypeOK /\ Joined /\ Waiting /\ Ordered /\ Kinded /\ CacheType
  BY Kinds, TypeParts DEF CacheInv
<1>2. hit \in Hits(frag_cache, jiffies, s, {air[s].frag})
      /\ \A i \in Hits(frag_cache, jiffies, s, {air[s].frag}) : hit <= i
  BY Finds
<1>3. hit \in Entry /\ Live(hit, s) /\ e.last_frag + 1 = air[s].frag
  BY <1>2 DEF Hits, Live
<1>4. w \in [Entry -> CacheRecord] /\ w[hit] = e /\ e \in CacheRecord
  BY <1>1, <1>3, SweptType, Sweeps DEF CacheType
<1>5. \A i \in Entry : w[i] = frag_cache[i] \/ ~InUse(w[i])
  BY <1>1, Sweeps DEF CacheType
<1>6. c1 = [w EXCEPT ![hit].last_frag = air[s].frag, ![hit].data = @ \o a]
  BY DEF cache_append
<1> HIDE DEF w, c1
<1>7. c1[hit] = [e EXCEPT !.last_frag = air[s].frag, !.data = d]
  BY <1>3, <1>4, <1>6
<1>8. \A i \in Entry : i # hit => c1[i] = w[i]
  BY <1>3, <1>4, <1>6
<1>9. /\ e.src = s /\ e.seq = SeqOf(s) /\ InUse(e)
      /\ e.data[1].src = s /\ e.data[1].msdu = air[s].msdu /\ e.data[1].n = air[s].shape.n
      /\ Len(e.data) = air[s].frag /\ air[s].frag \in 1 .. 2 /\ e.data \in Seq(Piece)
      /\ \A k \in 1 .. Len(e.data) : e.data[k] = [e.data[1] EXCEPT !.frag = k - 1]
  <2>1. e.src = s /\ e.seq = SeqOf(s) /\ InUse(e)
    BY <1>3 DEF Live
  <2>2. e.data[1].msdu = air[s].msdu /\ e.data[1].n = air[s].shape.n
    BY <1>1, <1>3 DEF Waiting
  <2>3. /\ e.data[1].src = e.src /\ Len(e.data) = e.last_frag + 1
        /\ \A k \in 1 .. Len(e.data) : e.data[k] = [e.data[1] EXCEPT !.frag = k - 1]
    BY <1>1, <1>3, <2>1, Zenon DEF Joined
  <2>4. e.last_frag \in 0 .. 2 /\ air[s].frag \in 0 .. 2 /\ e.data \in Seq(Piece)
    BY <1>1, <1>3 DEF Kinded
  <2> HIDE DEF e
  <2> QED
    BY <1>3, <2>1, <2>2, <2>3, <2>4
<1>10. /\ c1[hit].skb = e.skb /\ c1[hit].src = s /\ c1[hit].seq = SeqOf(s)
       /\ c1[hit].time = e.time /\ c1[hit].last_frag = air[s].frag /\ c1[hit].data = d
  BY <1>4, <1>7, <1>9 DEF CacheRecord
<1>11. ASSUME a = <<Current(s)>>
       PROVE  /\ Len(d) = air[s].frag + 1 /\ d[1] = e.data[1]
              /\ \A k \in 1 .. Len(d) : d[k] = [d[1] EXCEPT !.frag = k - 1]
  <2> DEFINE q == e.data  c == Current(s)
  <2>1. c \in Piece /\ q \in Seq(Piece) /\ Len(q) = air[s].frag /\ air[s].frag \in 1 .. 2
    BY <1>1, <1>9, CurrentPiece, TypeParts
  <2>2. c = [src |-> s, msdu |-> air[s].msdu, frag |-> air[s].frag, n |-> air[s].shape.n]
    BY DEF Current
  <2>3. q[1] \in Piece /\ q[1].src = s /\ q[1].msdu = air[s].msdu /\ q[1].n = air[s].shape.n
    BY <1>9, <2>1
  <2>4. c = [q[1] EXCEPT !.frag = air[s].frag]
    <3> DEFINE f == air[s].frag  p == q[1]
    <3> HIDE DEF q, c, f, p
    <3>1. p \in Piece /\ p.src = s /\ p.msdu = air[s].msdu /\ p.n = air[s].shape.n
      BY <2>3 DEF p
    <3>2. [p EXCEPT !.frag = f] = [src |-> s, msdu |-> air[s].msdu, frag |-> f,
                                   n |-> air[s].shape.n]
      BY <3>1 DEF Piece
    <3> QED
      BY <2>2, <3>2 DEF f, p
  <2>5. \A k \in 1 .. Len(q) : q[k] = [q[1] EXCEPT !.frag = k - 1]
    BY <1>9, Zenon
  <2> HIDE DEF q, c, e
  <2>6. /\ Len(Append(q, c)) = Len(q) + 1 /\ Append(q, c)[Len(q) + 1] = c
        /\ \A k \in 1 .. Len(q) : Append(q, c)[k] = q[k]
    BY <2>1
  <2>7. d = Append(q, c)
    BY <1>11, <2>1, AppendIsConcat, Zenon DEF d, q, c
  <2> HIDE DEF d
  <2>8. /\ Len(d) = air[s].frag + 1 /\ d[1] = q[1] /\ d[air[s].frag + 1] = c
        /\ \A k \in 1 .. air[s].frag : d[k] = q[k]
    BY <2>1, <2>6, <2>7
  <2>9. \A k \in 1 .. Len(d) : d[k] = [d[1] EXCEPT !.frag = k - 1]
    <3> SUFFICES ASSUME NEW k \in 1 .. Len(d) PROVE d[k] = [d[1] EXCEPT !.frag = k - 1]
      OBVIOUS
    <3>1. CASE k = air[s].frag + 1
      <4>1. k - 1 = air[s].frag
        BY <2>1, <3>1
      <4> QED
        BY <2>4, <2>8, <3>1, <4>1
    <3>2. CASE k # air[s].frag + 1
      <4>1. k \in 1 .. air[s].frag
        BY <2>1, <2>8, <3>2
      <4> QED
        BY <2>1, <2>5, <2>8, <4>1
    <3> QED
      BY <3>1, <3>2
  <2> QED
    BY <2>8, <2>9 DEF q
<1>12. \A i \in Entry : i < hit /\ Live(i, s) => frag_cache[i].last_frag >= air[s].frag
  <2> SUFFICES ASSUME NEW i \in Entry, i < hit, Live(i, s)
               PROVE  frag_cache[i].last_frag >= air[s].frag
    OBVIOUS
  <2>1. frag_cache[i].last_frag >= e.last_frag
    BY <1>1, <1>3 DEF Ordered
  <2>2. i \notin Hits(frag_cache, jiffies, s, {air[s].frag})
    <3>1. i \in Int /\ hit \in Int
      BY <1>3, Bounds DEF Entry
    <3>2. ~(hit <= i)
      BY <3>1
    <3> QED
      BY <1>2, <3>2, Zenon
  <2>3. frag_cache[i].last_frag + 1 # air[s].frag
    BY <2>2 DEF Hits, Live
  <2>4. frag_cache[i].last_frag \in 0 .. 2 /\ e.last_frag \in 0 .. 2 /\ air[s].frag \in 0 .. 2
    BY <1>1, <1>3 DEF Kinded
  <2> HIDE DEF e
  <2> QED
    BY <1>3, <2>1, <2>3, <2>4
<1>13. \A i \in Entry : i # hit => c1[i] = frag_cache[i] \/ ~InUse(c1[i])
  BY <1>5, <1>8
<1> HIDE DEF d, e
<1>14. a = <<Current(s)>> =>
         /\ Len(c1[hit].data) = air[s].frag + 1 /\ c1[hit].data[1] = e.data[1]
         /\ \A k \in 1 .. Len(c1[hit].data) :
               c1[hit].data[k] = [c1[hit].data[1] EXCEPT !.frag = k - 1]
  BY <1>10, <1>11, Zenon
<1>15. Extended(s, hit, c1)
  BY <1>3, <1>10, <1>12, <1>13, Zenon DEF Extended, e
<1>16. a = <<Current(s)>> => Appended(s, hit, c1)
  BY <1>9, <1>14, Zenon DEF Appended, e
<1> QED
  BY <1>15, <1>16, Zenon DEF c1

\* A fragment in the middle: the entry found comes before all that wait for more.
LEMMA MiddleEntries ==
    ASSUME CacheInv, TypeOK', Onward, NEW s \in Sender, NEW hit,
           hit = Find(frag_cache, jiffies, s, {air[s].frag}), hit # None, More(s), Fits(s),
           frag_cache' = cache_append(s, hit, <<Current(s)>>)
    PROVE  Joined' /\ Waiting' /\ Ordered'
<1> DEFINE e == frag_cache[hit]  x == frag_cache'[hit]
<1>1. TypeOK /\ Joined /\ Waiting /\ Ordered /\ Kinded /\ Kinded'
  BY Kinds, KindsNext DEF CacheInv
<1>2. \A t \in Sender : SeqOf(t)' = SeqOf(t)
  BY DEF Onward, SeqOf
<1>0. Extended(s, hit, frag_cache') /\ Appended(s, hit, frag_cache')
  <2>1. <<Current(s)>> \in Seq(Piece)
    BY <1>1, CurrentPiece, TypeParts
  <2> QED
    BY <2>1, Appends
<1>3. /\ hit \in Entry /\ Live(hit, s) /\ e.last_frag + 1 = air[s].frag
      /\ x.skb = e.skb /\ x.src = s /\ x.seq = SeqOf(s) /\ x.time = e.time
      /\ x.last_frag = air[s].frag /\ Len(x.data) = air[s].frag + 1
      /\ \A k \in 1 .. Len(x.data) : x.data[k] = [x.data[1] EXCEPT !.frag = k - 1]
      /\ x.data[1] = e.data[1] /\ e.data[1].src = s
      /\ e.data[1].msdu = air[s].msdu /\ e.data[1].n = air[s].shape.n
  BY <1>0, Zenon DEF Extended, Appended
<1>4. /\ \A i \in Entry : i # hit => frag_cache'[i] = frag_cache[i] \/ ~InUse(frag_cache'[i])
      /\ \A i \in Entry : i < hit /\ Live(i, s) => frag_cache[i].last_frag >= air[s].frag
  BY <1>0, Zenon DEF Extended
<1>5. \A i \in Entry, t \in Sender :
         i # hit /\ Live(i, t)' => Live(i, t) /\ frag_cache'[i] = frag_cache[i]
  <2> SUFFICES ASSUME NEW i \in Entry, NEW t \in Sender, i # hit, Live(i, t)'
               PROVE  Live(i, t) /\ frag_cache'[i] = frag_cache[i]
    OBVIOUS
  <2> DEFINE d == frag_cache[i]
  <2>1. /\ InUse(frag_cache'[i]) /\ ~Expired(frag_cache'[i], jiffies')
        /\ frag_cache'[i].seq = SeqOf(t)' /\ frag_cache'[i].src = t
    BY Zenon DEF Live
  <2>2. frag_cache'[i] = d
    BY <1>4, <2>1, Zenon
  <2>3. jiffies \in Nat /\ jiffies' \in Nat /\ jiffies <= jiffies' /\ d.time \in Nat
    BY <1>1, Zenon DEF Kinded, Onward
  <2>4. InUse(d) /\ ~Expired(d, jiffies') /\ d.seq = SeqOf(t) /\ d.src = t
    BY <1>2, <2>1, <2>2, Zenon
  <2> HIDE DEF d
  <2>5. ~Expired(d, jiffies)
    BY <2>3, <2>4, Bounds DEF Expired
  <2> QED
    BY <2>2, <2>4, <2>5, Zenon DEF Live, d
<1>6. \A t \in Sender : Live(hit, t)' => t = s
  BY <1>3 DEF Live
<1>7. Joined'
  <2> SUFFICES ASSUME NEW i \in Entry, InUse(frag_cache'[i])
               PROVE  LET d == frag_cache'[i]
                          p == d.data[1]
                      IN  /\ d.src \in Sender /\ d.time <= jiffies'
                          /\ Len(d.data) = d.last_frag + 1 /\ p.src = d.src
                          /\ \A k \in 1 .. Len(d.data) : d.data[k] = [p EXCEPT !.frag = k - 1]
    BY Zenon DEF Joined
  <2> DEFINE d == frag_cache[i]  p == d.data[1]
  <2>1. InUse(d)
    BY <1>3, <1>4 DEF Live
  <2>2. /\ d.src \in Sender /\ d.time <= jiffies
        /\ Len(d.data) = d.last_frag + 1 /\ p.src = d.src
        /\ \A k \in 1 .. Len(d.data) : d.data[k] = [p EXCEPT !.frag = k - 1]
    BY <1>1, <2>1, Zenon DEF Joined
  <2>3. d.time \in Nat /\ jiffies \in Nat /\ jiffies' \in Nat /\ jiffies <= jiffies'
    BY <1>1 DEF Kinded, Onward
  <2>5. d.time <= jiffies'
    <3> HIDE DEF d
    <3> QED
      BY <2>2, <2>3
  <2>6. CASE i # hit
    <3>1. frag_cache'[i] = d
      BY <1>4, <2>6
    <3> HIDE DEF d
    <3> QED
      BY <2>2, <2>5, <3>1, Zenon
  <2>7. CASE i = hit
    <3>1. d = e /\ frag_cache'[i] = x
      BY <2>7, Zenon
    <3> HIDE DEF d, e, x
    <3>2. /\ x.time = d.time /\ x.src \in Sender /\ x.data[1].src = x.src
          /\ Len(x.data) = x.last_frag + 1
          /\ \A k \in 1 .. Len(x.data) : x.data[k] = [x.data[1] EXCEPT !.frag = k - 1]
      BY <1>3, <3>1, Zenon
    <3>3. x.time <= jiffies'
      BY <2>5, <3>2, Zenon
    <3> QED
      BY <3>1, <3>2, <3>3, Zenon
  <2> QED
    BY <2>6, <2>7
<1>8. \A t \in Sender : /\ air'[t].msdu = air[t].msdu /\ air'[t].shape = air[t].shape
                        /\ air[t].frag <= air'[t].frag
                        /\ air[t].frag \in 0 .. 2 /\ air'[t].frag \in 0 .. 2
                        /\ air[t].shape.n \in 1 .. 3 /\ air[t].shape.room \in 0 .. 3
  BY <1>1, Zenon DEF Kinded, Onward
<1>9. Waiting'
  <2> SUFFICES ASSUME NEW i \in Entry, NEW t \in Sender, Live(i, t)'
               PROVE  LET d == frag_cache'[i]
                      IN  /\ d.data[1].msdu = air'[t].msdu /\ d.data[1].n = air'[t].shape.n
                          /\ d.last_frag <= air'[t].frag /\ d.last_frag + 1 < air'[t].shape.n
                          /\ d.last_frag < air'[t].shape.room
    BY Zenon DEF Waiting
  <2>1. CASE i = hit
    <3>1. t = s /\ frag_cache'[i] = x
      BY <1>6, <2>1, Zenon
    <3>2. x.data[1].msdu = air'[s].msdu /\ x.data[1].n = air'[s].shape.n
      BY <1>3, <1>8, Zenon
    <3>3. /\ x.last_frag = air[s].frag /\ air[s].frag + 1 < air[s].shape.n
          /\ air[s].frag < air[s].shape.room
      BY <1>3, Zenon DEF More, Fits
    <3> HIDE DEF x
    <3>4. /\ x.last_frag <= air'[s].frag /\ x.last_frag + 1 < air'[s].shape.n
          /\ x.last_frag < air'[s].shape.room
      BY <1>8, <3>3
    <3> QED
      BY <3>1, <3>2, <3>4, Zenon
  <2>2. CASE i # hit
    <3>1. Live(i, t) /\ frag_cache'[i] = frag_cache[i]
      BY <1>5, <2>2, Zenon
    <3> DEFINE d == frag_cache[i]
    <3>2. /\ d.data[1].msdu = air[t].msdu /\ d.data[1].n = air[t].shape.n
          /\ d.last_frag <= air[t].frag /\ d.last_frag + 1 < air[t].shape.n
          /\ d.last_frag < air[t].shape.room
      BY <1>1, <3>1, Zenon DEF Waiting
    <3>3. d.last_frag \in 0 .. 2
      BY <1>1 DEF Kinded
    <3> HIDE DEF d
    <3>4. /\ d.data[1].msdu = air'[t].msdu /\ d.data[1].n = air'[t].shape.n
          /\ d.last_frag <= air'[t].frag /\ d.last_frag + 1 < air'[t].shape.n
          /\ d.last_frag < air'[t].shape.room
      BY <1>8, <3>2, <3>3
    <3> QED
      BY <3>1, <3>4, Zenon DEF d
  <2> QED
    BY <2>1, <2>2
<1>10. Ordered'
  <2> SUFFICES ASSUME NEW t \in Sender, NEW i \in Entry, NEW j \in Entry,
                      Live(i, t)', Live(j, t)', i < j
               PROVE  frag_cache'[i].last_frag >= frag_cache'[j].last_frag
    BY Zenon DEF Ordered
  <2>1. CASE i # hit /\ j # hit
    <3>1. /\ Live(i, t) /\ frag_cache'[i] = frag_cache[i]
          /\ Live(j, t) /\ frag_cache'[j] = frag_cache[j]
      BY <1>5, <2>1, Zenon
    <3>2. frag_cache[i].last_frag >= frag_cache[j].last_frag
      BY <1>1, <3>1 DEF Ordered
    <3> QED
      BY <3>1, <3>2, Zenon
  <2>2. CASE j = hit
    <3>1. i # hit
      BY <2>2, Bounds DEF Entry
    <3>2. t = s /\ Live(i, t) /\ frag_cache'[i] = frag_cache[i]
      BY <1>5, <1>6, <2>2, <3>1, Zenon
    <3>3. frag_cache[i].last_frag >= air[s].frag
      BY <1>4, <2>2, <3>2, Zenon
    <3>4. frag_cache'[j].last_frag = air[s].frag
      BY <1>3, <2>2, Zenon
    <3> QED
      BY <3>2, <3>3, <3>4, Zenon
  <2>3. CASE i = hit
    <3>1. j # hit
      BY <2>3, Bounds DEF Entry
    <3>2. t = s /\ Live(j, t) /\ frag_cache'[j] = frag_cache[j]
      BY <1>5, <1>6, <2>3, <3>1, Zenon
    <3>3. frag_cache[j].last_frag <= air[s].frag
      BY <1>1, <3>2, Zenon DEF Waiting
    <3>4. frag_cache'[i].last_frag = air[s].frag
      BY <1>3, <2>3, Zenon
    <3>5. frag_cache[j].last_frag \in 0 .. 2 /\ air[s].frag \in 0 .. 2
      BY <1>1, Zenon DEF Kinded
    <3>6. air[s].frag >= frag_cache[j].last_frag
      BY <3>3, <3>5
    <3> QED
      BY <3>2, <3>4, <3>6, Zenon
  <2> QED
    BY <2>1, <2>2, <2>3
<1> QED
  BY <1>7, <1>9, <1>10

\* What c2 is after ieee80211_frag_cache_invalidate cleared the entry left, of the
\* cache c1 whose entry hit got the last fragment.
Cleared(hit, left, c1, c2) ==
    /\ ~InUse(c2[hit])
    /\ \A i \in Entry : c2[i] = frag_cache[i] \/ ~InUse(c2[i])
    /\ left # None => /\ left \in Entry /\ ~InUse(c2[left]) /\ InUse(frag_cache[left])
                      /\ c1[left].skb = frag_cache[left].skb

\* The last fragment, or one that does not fit: the entry that
\* ieee80211_frag_cache_invalidate clears is the one that ieee80211_frag_cache_get
\* extended, unless that one expired and was freed.
LEMMA TailEntries ==
    ASSUME CacheInv, NEW s \in Sender, NEW hit, NEW c1, NEW left, NEW now \in Nat,
           hit = Find(frag_cache, jiffies, s, {air[s].frag}), hit # None, ~More(s) \/ ~Fits(s),
           NEW a \in Seq(Piece), c1 = cache_append(s, hit, a), jiffies <= now,
           left = Find(c1, now, s, 1 .. 3)
    PROVE  Cleared(hit, left, c1, cache_invalidate(c1, now, s))
<1> DEFINE e == frag_cache[hit]  x == c1[hit]  w == Swept(c1, now, left)
           c2 == cache_invalidate(c1, now, s)
<1>1. TypeOK /\ Stations /\ Waiting /\ Kinded /\ CacheType
  BY Kinds, TypeParts DEF CacheInv
<1>2. Extended(s, hit, c1)
  BY Appends, Zenon
<1>3. /\ hit \in Entry /\ Live(hit, s)
      /\ x.skb = e.skb /\ x.src = s /\ x.seq = SeqOf(s) /\ x.last_frag = air[s].frag
      /\ \A i \in Entry : i # hit => c1[i] = frag_cache[i] \/ ~InUse(c1[i])
      /\ \A i \in Entry : i < hit /\ Live(i, s) => frag_cache[i].last_frag >= air[s].frag
  BY <1>2, Zenon DEF Extended
<1>4. /\ air[s].frag + 1 >= air[s].shape.n \/ air[s].frag >= air[s].shape.room
      /\ air[s].frag \in 0 .. 2 /\ air[s].shape.n \in 1 .. 3 /\ air[s].shape.room \in 0 .. 3
  BY <1>1 DEF Kinded, Stations, More, Fits
<1>5. InUse(x) /\ InUse(e)
  BY <1>3 DEF Live, InUse
<1>6. c1 \in [Entry -> CacheRecord]
  BY <1>1, AppendType
<1>7. /\ \A i \in Entry : w[i] = c1[i] \/ ~InUse(w[i])
      /\ \A i \in Entry : i < left /\ Expired(c1[i], now) => ~InUse(w[i])
      /\ w \in [Entry -> CacheRecord]
  <2>1. \A i \in Entry : w[i] = c1[i] \/ ~InUse(w[i])
    BY <1>6, Sweeps, ZenonT(40)
  <2>2. \A i \in Entry : i < left /\ Expired(c1[i], now) => ~InUse(w[i])
    BY <1>6, Sweeps, ZenonT(40)
  <2>3. w \in [Entry -> CacheRecord]
    BY <1>6, SweptType, ZenonT(40)
  <2> QED
    BY <2>1, <2>2, <2>3
<1>8. c2 = IF left = None THEN w ELSE [w EXCEPT ![left] = Unused]
  BY DEF cache_invalidate
<1> DEFINE H == Hits(c1, now, s, 1 .. 3)
<1>9. /\ left = None => H = {}
      /\ left # None => left \in H /\ \A i \in H : left <= i
  BY Finds, Zenon
<1>10. left # None => left \in Entry /\ InUse(c1[left]) /\ ~Expired(c1[left], now)
                      /\ c1[left].seq = SeqOf(s) /\ c1[left].src = s
  BY <1>9 DEF Hits
<1> HIDE DEF w, c2, x, e
\* No entry before hit is left: it would wait for the same fragment.
<1>11. left # None => ~(left < hit)
  <2> SUFFICES ASSUME left # None, left < hit PROVE FALSE
    OBVIOUS
  <2> DEFINE d == frag_cache[left]
  <2>1. left \in Entry /\ left # hit
    BY <1>3, <1>10, Bounds DEF Entry
  <2>2. c1[left] = d
    BY <1>3, <1>10, <2>1, Zenon
  <2>3. InUse(d) /\ ~Expired(d, now) /\ d.seq = SeqOf(s) /\ d.src = s
    BY <1>10, <2>2, Zenon
  <2>4. d.time \in Nat /\ jiffies \in Nat
    BY <1>1, <2>1, Zenon DEF Kinded
  <2> HIDE DEF d
  <2>5. ~Expired(d, jiffies)
    BY <2>3, <2>4, Bounds DEF Expired
  <2>6. Live(left, s)
    BY <2>3, <2>5, Zenon DEF Live, d
  <2>7. d.last_frag >= air[s].frag
    BY <1>3, <2>1, <2>6, Zenon DEF d
  <2>8. d.last_frag + 1 < air[s].shape.n /\ d.last_frag < air[s].shape.room
    BY <1>1, <2>1, <2>6, Zenon DEF Waiting, d
  <2>9. d.last_frag \in 0 .. 2
    BY <1>1, <2>1, Zenon DEF Kinded, d
  <2> QED
    BY <1>4, <2>7, <2>8, <2>9
<1>12. hit < left \/ left = hit
  <2>1. hit \in Int /\ None \in Int /\ hit < None
    BY <1>3, Bounds DEF Entry, None
  <2>2. CASE left = None
    BY <2>1, <2>2
  <2>3. CASE left # None
    <3>1. left \in Int
      BY <1>10, <2>3, Bounds DEF Entry
    <3> QED
      BY <1>11, <2>1, <2>3, <3>1
  <2> QED
    BY <2>2, <2>3
<1>13. hit < left => Expired(x, now)
  <2> SUFFICES ASSUME hit < left, ~Expired(x, now) PROVE FALSE
    OBVIOUS
  <2>1. x.last_frag + 1 \in 1 .. 3
    BY <1>3, <1>4
  <2>2. hit \in H
    BY <1>3, <1>5, <2>1 DEF Hits, x
  <2>3. left # None /\ left <= hit
    BY <1>9, <2>2
  <2>4. left \in Int /\ hit \in Int
    BY <1>3, <1>10, <2>3, Bounds DEF Entry
  <2> QED
    BY <2>3, <2>4
<1>14. \A i \in Entry : c2[i] = w[i] \/ ~InUse(c2[i])
  BY <1>7, <1>8, EmptyEntry
<1>15. left # None => ~InUse(c2[left])
  BY <1>7, <1>8, <1>10, EmptyEntry
<1>16. ~InUse(c2[hit])
  <2>1. CASE left = hit
    <3>1. left # None
      BY <2>1, Zenon
    <3> QED
      BY <1>15, <2>1, <3>1, Zenon
  <2>2. CASE hit < left
    <3>1. ~InUse(w[hit])
      BY <1>3, <1>7, <1>13, <2>2, Zenon DEF x
    <3> QED
      BY <1>3, <1>14, <3>1, Zenon
  <2> QED
    BY <1>12, <2>1, <2>2
<1>17. \A i \in Entry : c2[i] = frag_cache[i] \/ ~InUse(c2[i])
  <2> SUFFICES ASSUME NEW i \in Entry, InUse(c2[i]) PROVE c2[i] = frag_cache[i]
    OBVIOUS
  <2>1. i # hit
    BY <1>16
  <2>2. c2[i] = w[i]
    BY <1>14, Zenon
  <2>3. w[i] = c1[i]
    BY <1>7, <2>2, Zenon
  <2>4. c1[i] = frag_cache[i]
    BY <1>3, <2>1, <2>2, <2>3, Zenon
  <2> QED
    BY <2>2, <2>3, <2>4, Zenon
<1>18. left # None => InUse(frag_cache[left]) /\ c1[left].skb = frag_cache[left].skb
  <2>1. CASE left = hit
    BY <1>3, <1>5, <2>1, Zenon DEF x, e
  <2>2. CASE left # hit
    BY <1>3, <1>10, <2>2, Zenon
  <2> QED
    BY <2>1, <2>2
<1> QED
  BY <1>10, <1>15, <1>16, <1>17, <1>18, Zenon DEF c2, Cleared

\* A first fragment that does not fit: the entry it is given is the one that
\* ieee80211_frag_cache_invalidate finds, for no other waits for this MSDU.
LEMMA UnfitHeadEntries ==
    ASSUME CacheInv, NEW s \in Sender, NEW b \in Buffer, NEW c1,
           c1 = cache_head(s, b, <<>>), air[s].frag = 0, ~Fits(s)
    PROVE  LET c2 == cache_invalidate(c1, jiffies, s)
           IN  /\ Find(c1, jiffies, s, 1 .. 3) = frag_next_idx
               /\ \A i \in Entry : c2[i] = frag_cache[i] \/ ~InUse(c2[i])
               /\ c1[frag_next_idx].skb = b
<1> DEFINE idx == frag_next_idx  left == Find(c1, jiffies, s, 1 .. 3)
           w == Swept(c1, jiffies, left)  c2 == cache_invalidate(c1, jiffies, s)
           e == [skb |-> b, src |-> s, seq |-> SeqOf(s), last_frag |-> 0,
                 time |-> jiffies, data |-> <<>>]
<1>1. TypeOK /\ Stations /\ Waiting /\ Kinded /\ CacheType /\ idx \in Entry
  BY Kinds, TypeParts DEF CacheInv, RestType
<1>2. c1 \in [Entry -> CacheRecord]
  <2>1. <<>> \in Seq(Piece)
    OBVIOUS
  <2> QED
    BY <1>1, <2>1, HeadType
<1>3. c1 = [frag_cache EXCEPT ![idx] = e]
  BY DEF cache_head
<1>4. /\ e.skb = b /\ e.src = s /\ e.seq = SeqOf(s) /\ e.last_frag = 0 /\ e.time = jiffies
  OBVIOUS
<1> HIDE DEF e
<1>5. c1[idx] = e /\ \A i \in Entry : i # idx => c1[i] = frag_cache[i]
  BY <1>1, <1>3 DEF CacheType
<1>6. InUse(e) /\ ~Expired(e, jiffies)
  <2>1. jiffies \in Nat /\ FRAG_LIFE \in Nat /\ NoSkb \notin Buffer
    BY <1>1, Bounds DEF Kinded, NoSkb, Buffer
  <2> QED
    BY <1>4, <2>1 DEF InUse, Expired
<1> DEFINE H == Hits(c1, jiffies, s, 1 .. 3)
<1>7. /\ left = None => H = {}
      /\ left # None => left \in H /\ \A i \in H : left <= i
  BY Finds, Zenon
<1>8. idx \in H
  BY <1>1, <1>4, <1>5, <1>6 DEF Hits
<1>9. left = idx
  <2>1. left \in H /\ left <= idx
    BY <1>7, <1>8
  <2> SUFFICES ASSUME left # idx PROVE FALSE
    OBVIOUS
  <2>2. left \in Entry /\ c1[left] = frag_cache[left] /\ Live(left, s)
    BY <1>5, <2>1 DEF Hits, Live
  <2>3. frag_cache[left].last_frag < air[s].shape.room
    BY <1>1, <2>2, Zenon DEF Waiting
  <2>4. frag_cache[left].last_frag \in 0 .. 2 /\ air[s].shape.room \in 0 .. 3
    BY <1>1, <2>2, Zenon DEF Kinded
  <2>5. ~(0 < air[s].shape.room)
    BY DEF Fits
  <2> QED
    BY <2>3, <2>4, <2>5
<1>10. /\ \A i \in Entry : w[i] = c1[i] \/ ~InUse(w[i])
       /\ w \in [Entry -> CacheRecord]
  BY <1>2, Sweeps, SweptType
<1>11. left # None
  BY <1>1, <1>9, Bounds DEF Entry, None
<1>12. c2 = [w EXCEPT ![idx] = Unused]
  BY <1>9, <1>11 DEF cache_invalidate
<1> HIDE DEF w, c2, left, H
<1>13. \A i \in Entry : c2[i] = frag_cache[i] \/ ~InUse(c2[i])
  <2> SUFFICES ASSUME NEW i \in Entry PROVE c2[i] = frag_cache[i] \/ ~InUse(c2[i])
    OBVIOUS
  <2>1. CASE i = idx
    BY <1>1, <1>10, <1>12, <2>1, EmptyEntry
  <2>2. CASE i # idx
    <3>1. c2[i] = w[i] /\ c1[i] = frag_cache[i]
      BY <1>5, <1>10, <1>12, <2>2
    <3> QED
      BY <1>10, <3>1
  <2> QED
    BY <2>1, <2>2
<1> QED
  BY <1>4, <1>5, <1>9, <1>13 DEF c2, left

\* The next MSDU: no live entry was left with its number.
LEMMA NextMsduEntries ==
    ASSUME TypeOK, TypeOK', Joined, Waiting, Ordered, NEW s \in Sender, SendsNextMsdu(s),
           frag_cache' = frag_cache, jiffies' = jiffies, ~air'[s].met
    PROVE  Joined' /\ Waiting' /\ Ordered'
<1>1. /\ \A t \in Sender : t # s => air'[t] = air[t]
      /\ air'[s].msdu = air[s].msdu + 1
      /\ ~Waits(s, (air[s].msdu + 1) % SeqMod)
  BY NextMsdu, TypeParts
<1>2. \A t \in Sender : t # s => SeqOf(t)' = SeqOf(t)
  BY <1>1 DEF SeqOf
<1>3. SeqOf(s)' = (air[s].msdu + 1) % SeqMod
  BY <1>1 DEF SeqOf
<1>4. Joined'
  BY DEF Joined
<1>5. \A i \in Entry : ~Live(i, s)'
  BY <1>1, <1>3 DEF Live, Waits
<1>6. \A i \in Entry, t \in Sender : Live(i, t)' => t # s /\ Live(i, t)
  BY <1>2, <1>5 DEF Live
<1>7. Waiting'
  BY <1>1, <1>6 DEF Waiting
<1>8. Ordered'
  BY <1>6 DEF Ordered
<1> QED
  BY <1>4, <1>7, <1>8

(***************************************************************************)
(* Who has the buffers.                                                    *)
(***************************************************************************)
LEMMA Holders ==
    ASSUME NEW c \in [Entry -> CacheRecord]
    PROVE  /\ \A x : x \in Buffers(c) <=> \E i \in Entry : InUse(c[i]) /\ c[i].skb = x
           /\ Buffers(c) \subseteq Buffer
           /\ \A i \in Entry : c[i].skb \in Buffer => InUse(c[i])
<1>1. Buffers(c) = {e.skb : e \in {x \in {c[i] : i \in Entry} : InUse(x)}}
  BY DEF Buffers, Range
<1>2. \A i \in Entry : c[i].skb \in Buffer \cup {NoSkb}
  BY DEF CacheRecord
<1>3. NoSkb \notin Buffer
  BY Bounds DEF NoSkb, Buffer
<1> QED
  BY <1>1, <1>2, <1>3 DEF InUse

\* No entry is new: the buffers of the entries that were emptied are not the cache's.
LEMMA KeptBuffers ==
    ASSUME CacheType, CacheType', OwnBuffers,
           \A i \in Entry : InUse(frag_cache'[i]) =>
               InUse(frag_cache[i]) /\ frag_cache'[i].skb = frag_cache[i].skb,
           \A x \in Buffer : /\ x \in Buffers(frag_cache') => skb'[x] = skb[x]
                             /\ x \notin Buffers(frag_cache') => skb'[x] # "cache"
    PROVE  OwnBuffers'
<1>1. /\ \A x : x \in Buffers(frag_cache) <=>
               \E i \in Entry : InUse(frag_cache[i]) /\ frag_cache[i].skb = x
      /\ Buffers(frag_cache') \subseteq Buffer
      /\ \A x : x \in Buffers(frag_cache') <=>
               \E i \in Entry : InUse(frag_cache'[i]) /\ frag_cache'[i].skb = x
  BY Holders DEF CacheType
<1>2. /\ \A x \in Buffer : x \in Buffers(frag_cache) <=> skb[x] = "cache"
      /\ \A i, j \in Entry :
            InUse(frag_cache[i]) /\ frag_cache[i].skb = frag_cache[j].skb => i = j
  BY DEF OwnBuffers
<1>3. Buffers(frag_cache') \subseteq Buffers(frag_cache)
  BY <1>1
<1>4. Buffers(frag_cache') = {x \in Buffer : skb'[x] = "cache"}
  BY <1>1, <1>2, <1>3
<1>5. \A i, j \in Entry :
         InUse(frag_cache'[i]) /\ frag_cache'[i].skb = frag_cache'[j].skb => i = j
  <2> SUFFICES ASSUME NEW i \in Entry, NEW j \in Entry, InUse(frag_cache'[i]),
                      frag_cache'[i].skb = frag_cache'[j].skb
               PROVE  i = j
    OBVIOUS
  <2>1. InUse(frag_cache'[j])
    BY DEF InUse
  <2> QED
    BY <1>2, <2>1, Zenon
<1> QED
  BY <1>4, <1>5 DEF OwnBuffers

\* An entry that is emptied gives its buffer up.
LEMMA GivenUp ==
    ASSUME CacheType, CacheType', OwnBuffers,
           \A i \in Entry : InUse(frag_cache'[i]) =>
               InUse(frag_cache[i]) /\ frag_cache'[i].skb = frag_cache[i].skb,
           NEW i \in Entry, InUse(frag_cache[i]), ~InUse(frag_cache'[i])
    PROVE  frag_cache[i].skb \notin Buffers(frag_cache')
<1> SUFFICES ASSUME frag_cache[i].skb \in Buffers(frag_cache') PROVE FALSE
  OBVIOUS
<1>1. PICK j \in Entry : InUse(frag_cache'[j]) /\ frag_cache'[j].skb = frag_cache[i].skb
  BY Holders DEF CacheType
<1>2. frag_cache[j].skb = frag_cache[i].skb /\ i # j
  BY <1>1
<1> QED
  BY <1>2 DEF OwnBuffers

\* What the calls that allocate nothing do with the buffers.
LEMMA FreedBuffers ==
    ASSUME CacheType, CacheType', SkbType, OwnBuffers,
           \A i \in Entry : InUse(frag_cache'[i]) =>
               InUse(frag_cache[i]) /\ frag_cache'[i].skb = frag_cache[i].skb,
           NEW moved, \A x \in moved : x \notin Buffers(frag_cache'),
           skb' = Given(Buffers(frag_cache) \ Buffers(frag_cache'), moved, "lost")
    PROVE  OwnBuffers'
<1>1. \A x \in Buffer : skb'[x] = IF x \in moved THEN "lost"
                                  ELSE IF x \in Buffers(frag_cache) \ Buffers(frag_cache')
                                  THEN "free" ELSE skb[x]
  BY DEF Given
<1>2. \A x \in Buffer : x \in Buffers(frag_cache) <=> skb[x] = "cache"
  BY DEF OwnBuffers
<1>3. \A x \in Buffer : /\ x \in Buffers(frag_cache') => skb'[x] = skb[x]
                        /\ x \notin Buffers(frag_cache') => skb'[x] # "cache"
  BY <1>1, <1>2
<1> QED
  BY <1>3, KeptBuffers

LEMMA HeadBuffers ==
    ASSUME CacheType, CacheType', SkbType, OwnBuffers,
           NEW idx \in Entry, NEW b \in Buffer, skb[b] = "free", NEW e, e.skb = b,
           frag_cache' = [frag_cache EXCEPT ![idx] = e],
           skb' = Given(Buffers(frag_cache) \ Buffers(frag_cache'), {b}, "cache")
    PROVE  OwnBuffers'
<1>1. /\ \A x : x \in Buffers(frag_cache) <=>
               \E i \in Entry : InUse(frag_cache[i]) /\ frag_cache[i].skb = x
      /\ \A i \in Entry : frag_cache[i].skb \in Buffer => InUse(frag_cache[i])
      /\ Buffers(frag_cache') \subseteq Buffer
      /\ \A x : x \in Buffers(frag_cache') <=>
               \E i \in Entry : InUse(frag_cache'[i]) /\ frag_cache'[i].skb = x
      /\ \A i \in Entry : frag_cache'[i].skb \in Buffer => InUse(frag_cache'[i])
  BY Holders DEF CacheType
<1>2. /\ \A x \in Buffer : x \in Buffers(frag_cache) <=> skb[x] = "cache"
      /\ \A i, j \in Entry :
            InUse(frag_cache[i]) /\ frag_cache[i].skb = frag_cache[j].skb => i = j
  BY DEF OwnBuffers
<1>3. frag_cache'[idx] = e /\ \A i \in Entry : i # idx => frag_cache'[i] = frag_cache[i]
  BY DEF CacheType
<1>4. \A x \in Buffer : skb'[x] = IF x = b THEN "cache"
                                  ELSE IF x \in Buffers(frag_cache) \ Buffers(frag_cache')
                                       THEN "free" ELSE skb[x]
  BY DEF Given
<1>5. b \notin Buffers(frag_cache) /\ b \in Buffers(frag_cache')
  BY <1>1, <1>2, <1>3
<1>6. \A x \in Buffers(frag_cache') : x # b => x \in Buffers(frag_cache)
  BY <1>1, <1>3, ZenonT(40)
<1>7. Buffers(frag_cache') = {x \in Buffer : skb'[x] = "cache"}
  <2>1. \A x \in Buffer : x \in Buffers(frag_cache') <=> skb'[x] = "cache"
    BY <1>2, <1>4, <1>5, <1>6
  <2> QED
    BY <1>1, <2>1
<1>8. \A i, j \in Entry :
         InUse(frag_cache'[i]) /\ frag_cache'[i].skb = frag_cache'[j].skb => i = j
  <2> SUFFICES ASSUME NEW i \in Entry, NEW j \in Entry, InUse(frag_cache'[i]),
                      frag_cache'[i].skb = frag_cache'[j].skb
               PROVE  i = j
    OBVIOUS
  <2>1. ASSUME NEW k \in Entry, k # idx PROVE frag_cache'[k].skb # b
    BY <1>1, <1>3, <1>5, <2>1
  <2>2. CASE i # idx /\ j # idx
    BY <1>2, <1>3, <2>2, Zenon
  <2>3. CASE i = idx \/ j = idx
    BY <1>3, <2>1, <2>3
  <2> QED
    BY <2>2, <2>3
<1> QED
  BY <1>7, <1>8 DEF OwnBuffers

LEMMA TailBuffers ==
    ASSUME CacheType, CacheType', SkbType, OwnBuffers,
           \A i \in Entry : InUse(frag_cache'[i]) =>
               InUse(frag_cache[i]) /\ frag_cache'[i].skb = frag_cache[i].skb,
           NEW hit \in Entry, InUse(frag_cache[hit]), ~InUse(frag_cache'[hit]),
           NEW moved, NEW kept,
           \A x \in moved : \E i \in Entry : /\ x = frag_cache[i].skb /\ InUse(frag_cache[i])
                                             /\ ~InUse(frag_cache'[i]),
           skb' = [Given(Buffers(frag_cache) \ Buffers(frag_cache'), moved, "lost")
                      EXCEPT ![frag_cache[hit].skb] = IF kept THEN @ ELSE "free"]
    PROVE  OwnBuffers'
<1> DEFINE g == Given(Buffers(frag_cache) \ Buffers(frag_cache'), moved, "lost")
           b == frag_cache[hit].skb
<1>1. \A x \in Buffer : g[x] = IF x \in moved THEN "lost"
                               ELSE IF x \in Buffers(frag_cache) \ Buffers(frag_cache')
                                    THEN "free" ELSE skb[x]
  BY DEF Given
<1>2. g \in [Buffer -> SkbState]
  BY GivenType DEF SkbState
<1>3. skb' = [g EXCEPT ![b] = IF kept THEN g[b] ELSE "free"]
  OBVIOUS
<1>4. b \notin Buffers(frag_cache') /\ \A x \in moved : x \notin Buffers(frag_cache')
  BY GivenUp
<1>5. \A x \in Buffer : x \in Buffers(frag_cache) <=> skb[x] = "cache"
  BY DEF OwnBuffers
<1> HIDE DEF g, b
<1>6. \A x \in Buffer : skb'[x] = g[x] \/ (x = b /\ skb'[x] = "free")
  BY <1>2, <1>3
<1>7. \A x \in Buffer : /\ x \in Buffers(frag_cache') => skb'[x] = skb[x]
                        /\ x \notin Buffers(frag_cache') => skb'[x] # "cache"
  BY <1>1, <1>4, <1>5, <1>6
<1> QED
  BY <1>7, KeptBuffers

(***************************************************************************)
(* The cache, step by step.                                                *)
(***************************************************************************)
LEMMA RxOnward ==
    ASSUME TypeOK, TypeOK', NEW s \in Sender, ieee80211_rx(s)
    PROVE  Onward
<1>1. RestType /\ Kinded /\ Kinded'
  BY TypeParts, Kinds, KindsNext
<1>2. Heard(s)
  BY Hears
<1>3. jiffies' = jiffies \/ jiffies' \in {jiffies, jiffies + 1} \cap (0 .. MaxTime)
  BY Zenon DEF ieee80211_rx, RxMonitor, RxNoKey, RxDuplicate, RxManagement,
     RxForeign, RxUndecryptable, RxWhole, RxHead, RxNoEntry, RxMiddle, RxTail,
     RxUnfitHead, RxUnfit
<1>4. jiffies <= jiffies'
  BY <1>1, <1>3 DEF Kinded
<1>5. \A t \in Sender : /\ air'[t].msdu = air[t].msdu /\ air'[t].shape = air[t].shape
                        /\ air'[t].frag = air[t].frag
  BY <1>2 DEF Heard
<1>6. \A t \in Sender : air[t].frag <= air'[t].frag
  <2>1. \A t \in Sender : air[t].frag \in Int
    BY <1>1 DEF Kinded
  <2> QED
    BY <1>5, <2>1
<1> QED
  BY <1>4, <1>5, <1>6, Zenon DEF Onward

LEMMA CacheUnchanged ==
    ASSUME CacheInv, TypeOK', Onward, UNCHANGED cacheVars
    PROVE  Joined' /\ Waiting' /\ Ordered' /\ OwnBuffers'
<1>1. Joined' /\ Waiting' /\ Ordered'
  BY KeptEntries DEF CacheInv, cacheVars
<1>2. OwnBuffers'
  BY DEF CacheInv, cacheVars, OwnBuffers
<1> QED
  BY <1>1, <1>2

LEMMA RxCache ==
    ASSUME CacheInv, TypeOK', NEW s \in Sender, ieee80211_rx(s)
    PROVE  Joined' /\ Waiting' /\ Ordered' /\ OwnBuffers'
<1> DEFINE hit == Find(frag_cache, jiffies, s, {air[s].frag})
<1>1. /\ TypeOK /\ Stations /\ Joined /\ Waiting /\ Ordered /\ OwnBuffers
      /\ CacheType /\ CacheType' /\ SkbType /\ Kinded /\ Kinded'
      /\ frag_next_idx \in Entry
  <2>1. TypeOK' => CacheType'
    BY TypeParts, PTL
  <2> QED
    BY <2>1, TypeParts, Kinds, KindsNext DEF CacheInv, RestType
<1>2. Onward
  BY <1>1, RxOnward
<1>0. <<Current(s)>> \in Seq(Piece) /\ <<>> \in Seq(Piece)
  BY <1>1, CurrentPiece, TypeParts
<1>3. CASE UNCHANGED cacheVars
  BY <1>2, <1>3, CacheUnchanged
<1>4. CASE RxHead(s)
  <2>1. PICK b \in Buffer :
           /\ skb[b] = "free"
           /\ frag_cache' = cache_head(s, b, <<Current(s)>>)
           /\ skb' = Given(Buffers(frag_cache) \ Buffers(frag_cache'), {b}, "cache")
    BY <1>4, Zenon DEF RxHead, Allocates
  <2> DEFINE e == [skb |-> b, src |-> s, seq |-> SeqOf(s), last_frag |-> 0,
                   time |-> jiffies, data |-> <<Current(s)>>]
  <2>2. frag_cache' = [frag_cache EXCEPT ![frag_next_idx] = e] /\ e.skb = b
    BY <2>1, Zenon DEF cache_head
  <2>3. air[s].frag = 0 /\ air[s].shape.n > 1 /\ Fits(s)
    BY <1>4 DEF RxHead, Fragment
  <2>4. Joined' /\ Waiting' /\ Ordered'
    BY <1>1, <1>2, <2>2, <2>3, HeadEntries
  <2> HIDE DEF e
  <2>5. OwnBuffers'
    BY <1>1, <2>1, <2>2, HeadBuffers
  <2> QED
    BY <2>4, <2>5
<1>8. CASE RxUnfitHead(s)
  <2>1. PICK b \in Buffer : skb[b] = "free" /\ Unfit(s, cache_head(s, b, <<>>))
    BY <1>8, Zenon DEF RxUnfitHead, Allocates
  <2>2. air[s].frag = 0 /\ ~Fits(s) /\ jiffies' = jiffies
    BY <1>8 DEF RxUnfitHead
  <2> DEFINE c1 == cache_head(s, b, <<>>)
             left == Find(c1, jiffies, s, 1 .. 3)
  <2>3. /\ left = frag_next_idx /\ c1[left].skb = b
        /\ \A i \in Entry : LET c2 == cache_invalidate(c1, jiffies, s)
                            IN  c2[i] = frag_cache[i] \/ ~InUse(c2[i])
    BY <2>2, UnfitHeadEntries
  <2>4. left # None
    BY <1>1, <2>3, Bounds DEF Entry, None
  <2>5. /\ frag_cache' = cache_invalidate(c1, jiffies, s)
        /\ skb' = Given(Buffers(frag_cache) \ Buffers(frag_cache'), {b}, "lost")
    BY <2>1, <2>2, <2>3, <2>4 DEF Unfit
  <2> HIDE DEF c1, left
  <2>6. \A i \in Entry : frag_cache'[i] = frag_cache[i] \/ ~InUse(frag_cache'[i])
    BY <2>3, <2>5
  <2>7. Joined' /\ Waiting' /\ Ordered'
    BY <1>1, <1>2, <2>6, KeptEntries
  <2>8. b \notin Buffers(frag_cache')
    <3>1. b \notin Buffers(frag_cache)
      BY <1>1, <2>1 DEF OwnBuffers
    <3>2. Buffers(frag_cache') \subseteq Buffers(frag_cache)
      BY <1>1, <2>6, Holders DEF CacheType
    <3> QED
      BY <3>1, <3>2
  <2>9. OwnBuffers'
    BY <1>1, <2>5, <2>6, <2>8, FreedBuffers
  <2> QED
    BY <2>7, <2>9
<1>5. CASE RxNoEntry(s)
  <2>1. CASE UNCHANGED cacheVars
    BY <1>3, <2>1
  <2>2. CASE /\ frag_cache' = Swept(frag_cache, jiffies, None)
             /\ skb' = Given(Buffers(frag_cache) \ Buffers(frag_cache'), {}, "lost")
    <3>1. \A i \in Entry : frag_cache'[i] = frag_cache[i] \/ ~InUse(frag_cache'[i])
      BY <1>1, <2>2, Sweeps DEF CacheType
    <3>2. Joined' /\ Waiting' /\ Ordered'
      BY <1>1, <1>2, <3>1, KeptEntries
    <3>3. OwnBuffers'
      BY <1>1, <2>2, <3>1, FreedBuffers
    <3> QED
      BY <3>2, <3>3
  <2> QED
    BY <1>5, <2>1, <2>2 DEF RxNoEntry, cacheVars
<1>6. CASE RxMiddle(s)
  <2>1. /\ hit # None /\ More(s) /\ Fits(s)
        /\ frag_cache' = cache_append(s, hit, <<Current(s)>>)
        /\ skb' = Given(Buffers(frag_cache) \ Buffers(frag_cache'), {}, "lost")
    BY <1>6, Zenon DEF RxMiddle
  <2> DEFINE h == hit
  <2>2. h = Find(frag_cache, jiffies, s, {air[s].frag})
    OBVIOUS
  <2>3. Extended(s, h, frag_cache')
    BY <1>0, <2>1, Appends
  <2> HIDE DEF h
  <2>4. Joined' /\ Waiting' /\ Ordered'
    BY <1>2, <2>1, <2>2, MiddleEntries DEF h
  <2>5. \A i \in Entry : InUse(frag_cache'[i]) =>
           InUse(frag_cache[i]) /\ frag_cache'[i].skb = frag_cache[i].skb
    <3>1. /\ h \in Entry /\ Live(h, s) /\ frag_cache'[h].skb = frag_cache[h].skb
          /\ \A i \in Entry : i # h => frag_cache'[i] = frag_cache[i] \/ ~InUse(frag_cache'[i])
      BY <2>3, Zenon DEF Extended
    <3> QED
      BY <3>1 DEF Live
  <2>6. skb' = Given(Buffers(frag_cache) \ Buffers(frag_cache'), {}, "lost")
    BY <2>1, Zenon
  <2>7. OwnBuffers'
    BY <1>1, <2>5, <2>6, FreedBuffers
  <2> QED
    BY <2>4, <2>7
<1>7. ASSUME NEW a \in Seq(Piece), hit # None, ~More(s) \/ ~Fits(s),
             frag_cache' = cache_invalidate(cache_append(s, hit, a), jiffies', s)
      PROVE  LET c1   == cache_append(s, hit, a)
                 left == Find(c1, jiffies', s, 1 .. 3)
             IN  /\ Joined' /\ Waiting' /\ Ordered'
                 /\ hit \in Entry /\ InUse(frag_cache[hit]) /\ ~InUse(frag_cache'[hit])
                 /\ c1[hit].skb = frag_cache[hit].skb
                 /\ \A i \in Entry : InUse(frag_cache'[i]) =>
                       InUse(frag_cache[i]) /\ frag_cache'[i].skb = frag_cache[i].skb
                 /\ \A x \in (IF left = None THEN {} ELSE {c1[left].skb}) :
                       \E i \in Entry : /\ x = frag_cache[i].skb /\ InUse(frag_cache[i])
                                        /\ ~InUse(frag_cache'[i])
  <2> DEFINE c1 == cache_append(s, hit, a)
             left == Find(c1, jiffies', s, 1 .. 3)
  <2>2. Extended(s, hit, c1)
    BY <1>7, Appends
  <2>3. jiffies' \in Nat /\ jiffies <= jiffies'
    BY <1>1, <1>2 DEF Kinded, Onward
  <2> HIDE DEF hit, c1, left
  <2>4. /\ ~InUse(frag_cache'[hit])
        /\ \A i \in Entry : frag_cache'[i] = frag_cache[i] \/ ~InUse(frag_cache'[i])
        /\ left # None => /\ left \in Entry /\ ~InUse(frag_cache'[left])
                          /\ InUse(frag_cache[left]) /\ c1[left].skb = frag_cache[left].skb
    <3>1. /\ hit = Find(frag_cache, jiffies, s, {air[s].frag})
          /\ c1 = cache_append(s, hit, a)
          /\ left = Find(c1, jiffies', s, 1 .. 3)
      BY Zenon DEF hit, c1, left
    <3>0. PICK now \in Nat : now = jiffies'
      BY <2>3
    <3>2. jiffies <= now /\ left = Find(c1, now, s, 1 .. 3)
      BY <2>3, <3>0, <3>1, Zenon
    <3>3. hit # None /\ (~More(s) \/ ~Fits(s))
      BY <1>7
    <3>4. Cleared(hit, left, c1, cache_invalidate(c1, now, s))
      BY <3>1, <3>2, <3>3, TailEntries
    <3>5. frag_cache' = cache_invalidate(c1, now, s)
      BY <1>7, <3>0, Zenon DEF c1
    <3>6. Cleared(hit, left, c1, frag_cache')
      BY <3>4, <3>5, Zenon
    <3> QED
      BY <3>6, Zenon DEF Cleared
  <2>5. hit \in Entry /\ Live(hit, s) /\ c1[hit].skb = frag_cache[hit].skb
    BY <2>2, Zenon DEF Extended
  <2>6. Joined' /\ Waiting' /\ Ordered'
    BY <1>1, <1>2, <2>4, KeptEntries
  <2>7. \A x \in (IF left = None THEN {} ELSE {c1[left].skb}) :
           \E i \in Entry : /\ x = frag_cache[i].skb /\ InUse(frag_cache[i])
                            /\ ~InUse(frag_cache'[i])
    BY <2>4
  <2>8. InUse(frag_cache[hit])
    BY <2>5 DEF Live
  <2>9. \A i \in Entry : InUse(frag_cache'[i]) =>
           InUse(frag_cache[i]) /\ frag_cache'[i].skb = frag_cache[i].skb
    BY <2>4
  <2> QED
    BY <2>4, <2>5, <2>6, <2>7, <2>8, <2>9, Zenon DEF c1, left
<1>9. CASE RxTail(s)
  <2> DEFINE c1 == cache_append(s, hit, <<Current(s)>>)
             left == Find(c1, jiffies', s, 1 .. 3)
             moved == IF left = None THEN {} ELSE {c1[left].skb}
  <2>1. /\ hit # None /\ ~More(s) /\ frag_cache' = cache_invalidate(c1, jiffies', s)
        /\ \E refused \in Refusals(s) :
              skb' = [Given(Buffers(frag_cache) \ Buffers(frag_cache'), moved, "lost")
                         EXCEPT ![c1[hit].skb] = IF refused THEN @ ELSE "free"]
    BY <1>9, Zenon DEF RxTail
  <2>2. /\ Joined' /\ Waiting' /\ Ordered'
        /\ hit \in Entry /\ InUse(frag_cache[hit]) /\ ~InUse(frag_cache'[hit])
        /\ c1[hit].skb = frag_cache[hit].skb
        /\ \A i \in Entry : InUse(frag_cache'[i]) =>
              InUse(frag_cache[i]) /\ frag_cache'[i].skb = frag_cache[i].skb
        /\ \A x \in moved : \E i \in Entry : /\ x = frag_cache[i].skb /\ InUse(frag_cache[i])
                                             /\ ~InUse(frag_cache'[i])
    BY <1>0, <1>7, <2>1, Zenon
  <2> HIDE DEF hit, c1, left, moved
  <2>3. PICK kept :
           skb' = [Given(Buffers(frag_cache) \ Buffers(frag_cache'), moved, "lost")
                      EXCEPT ![frag_cache[hit].skb] = IF kept THEN @ ELSE "free"]
    BY <2>1, <2>2
  <2>4. OwnBuffers'
    BY <1>1, <2>2, <2>3, TailBuffers
  <2> QED
    BY <2>2, <2>4
<1>10. CASE RxUnfit(s)
  <2> DEFINE c1 == cache_append(s, hit, <<>>)
             left == Find(c1, jiffies', s, 1 .. 3)
             moved == IF left = None THEN {} ELSE {c1[left].skb}
  <2>1. hit # None /\ ~Fits(s) /\ Unfit(s, c1)
    BY <1>10, Zenon DEF RxUnfit
  <2>2. /\ frag_cache' = cache_invalidate(c1, jiffies', s)
        /\ skb' = Given(Buffers(frag_cache) \ Buffers(frag_cache'), moved, "lost")
    BY <2>1, Zenon DEF Unfit
  <2>3. /\ Joined' /\ Waiting' /\ Ordered'
        /\ \A i \in Entry : InUse(frag_cache'[i]) =>
              InUse(frag_cache[i]) /\ frag_cache'[i].skb = frag_cache[i].skb
        /\ \A x \in moved : \E i \in Entry : /\ x = frag_cache[i].skb /\ InUse(frag_cache[i])
                                             /\ ~InUse(frag_cache'[i])
    BY <1>0, <1>7, <2>1, <2>2, Zenon
  <2> HIDE DEF hit, c1, left, moved
  <2>4. \A x \in moved : x \notin Buffers(frag_cache')
    BY <1>1, <2>3, GivenUp
  <2>5. OwnBuffers'
    BY <1>1, <2>2, <2>3, <2>4, FreedBuffers
  <2> QED
    BY <2>3, <2>5
<1>11. CASE RxMonitor(s) \/ RxNoKey(s) \/ RxDuplicate(s) \/ RxManagement(s) \/ RxForeign(s)
            \/ RxUndecryptable(s) \/ RxWhole(s)
  BY <1>3, <1>11, Zenon DEF RxMonitor, RxNoKey, RxDuplicate, RxManagement, RxForeign,
     RxUndecryptable, RxWhole
<1> QED
  BY <1>4, <1>5, <1>6, <1>8, <1>9, <1>10, <1>11, Zenon DEF ieee80211_rx

LEMMA CacheStep ==
    ASSUME CacheInv, [Next]_vars, NobodyMet'
    PROVE  CacheInv'
<1>1. TypeOK /\ Stations /\ Joined /\ Waiting /\ Ordered /\ OwnBuffers /\ Kinded
      /\ AirType /\ FilterType /\ RestType
  BY Kinds, TypeParts DEF CacheInv
<1>2. TypeOK' /\ Stations' /\ Kinded'
  BY <1>1, TypeStep, KindsNext
<1> SUFFICES Joined' /\ Waiting' /\ Ordered' /\ OwnBuffers'
  BY <1>2 DEF CacheInv
<1>3. CASE Onward /\ UNCHANGED cacheVars
  BY <1>2, <1>3, CacheUnchanged
<1>4. ASSUME NEW s \in Sender, ieee80211_rx(s)
      PROVE  Joined' /\ Waiting' /\ Ordered' /\ OwnBuffers'
  BY <1>2, <1>4, RxCache
<1>5. ASSUME NEW s \in Sender, SendsNextFragment(s), UNCHANGED <<cacheVars, jiffies>>
      PROVE  Joined' /\ Waiting' /\ Ordered' /\ OwnBuffers'
  <2>1. /\ \A t \in Sender : t # s => air'[t] = air[t]
        /\ air'[s].msdu = air[s].msdu /\ air'[s].shape = air[s].shape
        /\ air'[s].frag = air[s].frag + 1
    BY <1>1, <1>5, NextFragment
  <2>2. Onward
    BY <1>1, <1>5, <2>1 DEF Onward, Kinded
  <2> QED
    BY <1>3, <1>5, <2>2
<1>6. ASSUME NEW s \in Sender, SendsNextMsdu(s), UNCHANGED <<cacheVars, jiffies>>
      PROVE  Joined' /\ Waiting' /\ Ordered' /\ OwnBuffers'
  <2>1. frag_cache' = frag_cache /\ skb' = skb /\ jiffies' = jiffies
    BY <1>6 DEF cacheVars
  <2>2. Joined' /\ Waiting' /\ Ordered'
    BY <1>1, <1>2, <1>6, <2>1, NextMsduEntries DEF NobodyMet
  <2> QED
    BY <1>1, <2>1, <2>2 DEF OwnBuffers
<1>7. ASSUME TimePasses, UNCHANGED cacheVars
      PROVE  Joined' /\ Waiting' /\ Ordered' /\ OwnBuffers'
  <2>1. Onward
    BY <1>1, <1>7 DEF TimePasses, Onward, Kinded
  <2> QED
    BY <1>3, <1>7, <2>1
<1>8. ASSUME StartProtocol, UNCHANGED jiffies
      PROVE  Joined' /\ Waiting' /\ Ordered' /\ OwnBuffers'
  <2>1. \A t \in Sender : /\ air'[t].msdu = air[t].msdu /\ air'[t].shape = air[t].shape
                          /\ air'[t].frag = air[t].frag
    BY <1>1, <1>8, Forgets
  <2>2. UNCHANGED cacheVars
    BY <1>8 DEF StartProtocol
  <2>3. Onward
    BY <1>1, <1>8, <2>1 DEF Onward, Kinded
  <2> QED
    BY <1>3, <2>2, <2>3
<1>9. CASE UNCHANGED <<cacheVars, jiffies, air>>
  <2>1. Onward
    BY <1>1, <1>9 DEF Onward, Kinded
  <2> QED
    BY <1>3, <1>9, <2>1
<1>10. CASE SetKey /\ UNCHANGED <<iw_mode, open_wep, jiffies, air, last>>
  BY <1>9, <1>10 DEF SetKey
<1>11. CASE UNCHANGED vars
  BY <1>9, <1>11 DEF vars, cacheVars
<1> QED
  BY <1>4, <1>5, <1>6, <1>7, <1>8, <1>10, <1>11 DEF Next

LEMMA InitCache ==
    ASSUME Init
    PROVE  CacheInv
<1>1. TypeOK /\ Stations /\ CacheType
  BY InitTypes, TypeParts
<1>2. /\ \A i \in Entry : ~InUse(frag_cache[i])
      /\ \A b \in Buffer : skb[b] = "free"
  BY EmptyEntry DEF Init
<1>3. Joined /\ Waiting /\ Ordered
  BY <1>2 DEF Joined, Waiting, Ordered, Live
<1>4. OwnBuffers
  <2>1. Buffers(frag_cache) = {}
    BY <1>1, <1>2, Holders DEF CacheType
  <2> QED
    BY <1>2, <2>1 DEF OwnBuffers
<1> QED
  BY <1>1, <1>3, <1>4 DEF CacheInv

\* A number that came back to an entry is not forgotten.
LEMMA MetStays ==
    ASSUME TypeOK, [Next]_vars, NobodyMet'
    PROVE  NobodyMet
<1>1. AirType /\ FilterType /\ RestType
  BY TypeParts
<1>2. ASSUME NEW s \in Sender, ieee80211_rx(s) PROVE NobodyMet
  BY <1>2, Hears DEF Heard, NobodyMet
<1>3. ASSUME NEW s \in Sender, SendsNextFragment(s) PROVE NobodyMet
  BY <1>1, <1>3, NextFragment DEF NobodyMet
<1>4. ASSUME NEW s \in Sender, SendsNextMsdu(s) PROVE NobodyMet
  BY <1>1, <1>4, NextMsdu DEF NobodyMet
<1>5. CASE StartProtocol
  BY <1>1, <1>5, Forgets DEF NobodyMet
<1>6. CASE air' = air
  BY <1>6 DEF NobodyMet
<1> QED
  BY <1>2, <1>3, <1>4, <1>5, <1>6 DEF Next, TimePasses, vars

LEMMA CacheIsRight == Spec => []CacheUnmet
<1>1. Init => CacheUnmet
  BY InitCache DEF CacheUnmet, CacheInv
<1>2. CacheUnmet /\ [Next]_vars => CacheUnmet'
  BY TypeStep, CacheStep, MetStays DEF CacheUnmet
<1> QED
  BY <1>1, <1>2, PTL DEF Spec

\* Until a number comes back to an entry left behind, ieee80211_rx neither loses a
\* buffer of the cache that an entry still points to nor keeps one it gave away, and no
\* two entries share one, whatever arrives: also when ieee80211_frag_cache_invalidate
\* searches again, later, for the entry that ieee80211_frag_cache_get extended.
THEOREM BuffersAreOwned == Spec => []CacheOwnsItsBuffers
<1>1. CacheUnmet => CacheOwnsItsBuffers
  BY DEF CacheUnmet, CacheInv, OwnBuffers, CacheOwnsItsBuffers
<1> QED
  BY <1>1, CacheIsRight, PTL

(***************************************************************************)
(* What goes up is whole.                                                  *)
(***************************************************************************)
Whole(d) ==
    /\ Len(d) = d[1].n
    /\ \A k \in DOMAIN d : d[k] = [d[1] EXCEPT !.frag = k - 1]

\* An MSDU of one fragment.
LEMMA AloneIsWhole ==
    ASSUME TypeOK, Stations, NEW s \in Sender, air[s].shape.n = 1
    PROVE  Whole(<<Current(s)>>)
<1> DEFINE c == Current(s)
<1>1. c \in Piece /\ c.n = 1 /\ c.frag = 0
  <2>1. air[s].frag \in 0 .. 2 /\ air[s].frag < 1
    BY TypeParts DEF AirType, AirRecord, Stations
  <2> QED
    BY <2>1, TypeParts, CurrentPiece DEF Current
<1> HIDE DEF c
<1>2. c = [c EXCEPT !.frag = 0]
  BY <1>1 DEF Piece
<1>3. /\ Len(<<c>>) = 1 /\ <<c>>[1] = c /\ DOMAIN <<c>> = {1}
  OBVIOUS
<1>4. Whole(<<c>>)
  BY <1>1, <1>2, <1>3 DEF Whole
<1> QED
  BY <1>4 DEF c

\* The fragments of an entry, with the last one.
LEMMA TailIsWhole ==
    ASSUME CacheInv, NEW s \in Sender, NEW hit, ~More(s),
           hit = Find(frag_cache, jiffies, s, {air[s].frag}), hit # None
    PROVE  Whole(cache_append(s, hit, <<Current(s)>>)[hit].data)
<1> DEFINE c1 == cache_append(s, hit, <<Current(s)>>)  d == c1[hit].data
<1>1. TypeOK /\ Stations
  BY DEF CacheInv
<1>0. <<Current(s)>> \in Seq(Piece)
  BY <1>1, CurrentPiece, TypeParts
<1>2. Extended(s, hit, c1) /\ Appended(s, hit, c1)
  BY <1>0, Appends
<1>3. c1 \in [Entry -> CacheRecord]
  BY <1>0, <1>1, AppendType
<1> HIDE DEF c1
<1>4. /\ hit \in Entry /\ Len(d) = air[s].frag + 1 /\ d[1].n = air[s].shape.n
      /\ \A k \in 1 .. Len(d) : d[k] = [d[1] EXCEPT !.frag = k - 1]
  BY <1>2, Zenon DEF Extended, Appended
<1>5. d \in Seq(Piece)
  BY <1>3, <1>4 DEF CacheRecord
<1>6. air[s].frag + 1 = air[s].shape.n
  <2>1. /\ air[s].frag \in 0 .. 2 /\ air[s].shape.n \in 1 .. 3
        /\ air[s].frag < air[s].shape.n
    BY <1>1, TypeParts DEF AirType, AirRecord, ShapeType, Stations
  <2> QED
    BY <2>1 DEF More
<1> HIDE DEF d
<1>7. DOMAIN d = 1 .. Len(d)
  BY <1>5
<1>8. Whole(d)
  BY <1>4, <1>6, <1>7, Zenon DEF Whole
<1> QED
  BY <1>8 DEF d, c1

\* An entry with one more fragment, or none.
LEMMA Assembles ==
    ASSUME TypeOK, Assembled, NEW s \in Sender, NEW hit,
           hit = Find(frag_cache, jiffies, s, {air[s].frag}), hit # None,
           NEW a \in {<<Current(s)>>, <<>>}
    PROVE  LET c1 == cache_append(s, hit, a)
           IN  /\ c1 \in [Entry -> CacheRecord]
               /\ \A i \in Entry : InUse(c1[i]) =>
                     InOrder(c1[i].data, c1[i].src, c1[i].seq, c1[i].last_frag)
               /\ hit \in Entry /\ InUse(c1[hit])
<1> DEFINE e == frag_cache[hit]  w == Swept(frag_cache, jiffies, hit)
           c1 == cache_append(s, hit, a)  f == air[s].frag
<1>1. Kinded /\ CacheType /\ Current(s) \in Piece /\ a \in Seq(Piece)
  <2>1. Kinded /\ CacheType /\ Current(s) \in Piece
    BY Kinds, CurrentPiece, TypeParts
  <2>2. <<Current(s)>> \in Seq(Piece)
    BY <2>1
  <2>3. <<>> \in Seq(Piece)
    OBVIOUS
  <2> QED
    BY <2>1, <2>2, <2>3
<1>2. hit \in Hits(frag_cache, jiffies, s, {f})
  BY Finds
<1>3. hit \in Entry /\ InUse(e) /\ e.src = s /\ e.seq = SeqOf(s) /\ e.last_frag + 1 = f
  BY <1>2 DEF Hits
<1>4. w \in [Entry -> CacheRecord] /\ w[hit] = e /\ e \in CacheRecord
  BY <1>1, <1>3, SweptType, Sweeps DEF CacheType
<1>5. \A i \in Entry : InUse(w[i]) => w[i] = frag_cache[i]
  BY <1>1, Sweeps DEF CacheType
<1>6. c1 \in [Entry -> CacheRecord]
  BY <1>1, AppendType
<1>7. c1 = [w EXCEPT ![hit].last_frag = f, ![hit].data = @ \o a]
  BY DEF cache_append
<1> DEFINE d == e.data \o a
<1> HIDE DEF w, c1
<1>8. c1[hit] = [e EXCEPT !.last_frag = f, !.data = d]
  BY <1>3, <1>4, <1>7
<1>9. \A i \in Entry : i # hit => c1[i] = w[i]
  BY <1>3, <1>4, <1>7
<1>10. /\ c1[hit].skb = e.skb /\ c1[hit].src = s /\ c1[hit].seq = SeqOf(s)
       /\ c1[hit].last_frag = f /\ c1[hit].data = d
  BY <1>3, <1>4, <1>8 DEF CacheRecord
<1>11. InUse(c1[hit])
  BY <1>3, <1>10 DEF InUse
<1>12. InOrder(d, s, SeqOf(s), f)
  <2> DEFINE q == e.data  c == Current(s)
  <2>1. q \in Seq(Piece) /\ c \in Piece /\ f \in 0 .. 2 /\ e.last_frag \in 0 .. 2
    BY <1>1, <1>3 DEF Kinded
  <2>2. InOrder(q, s, SeqOf(s), e.last_frag)
    BY <1>3, Zenon DEF Assembled
  <2>3. c.src = s /\ c.msdu % SeqMod = SeqOf(s) /\ c.frag = f
    BY DEF Current, SeqOf
  <2> HIDE DEF q, c, e, f
  <2>4. e.last_frag + 1 = f
    BY <1>3 DEF f
  <2>5. \A k \in 1 .. Len(q) : /\ q[k].src = s /\ q[k].msdu % SeqMod = SeqOf(s)
                               /\ q[k].frag < f /\ q[k].frag \in Int
    <3> SUFFICES ASSUME NEW k \in 1 .. Len(q)
                 PROVE  /\ q[k].src = s /\ q[k].msdu % SeqMod = SeqOf(s)
                        /\ q[k].frag < f /\ q[k].frag \in Int
      OBVIOUS
    <3>1. q[k] \in Piece
      BY <2>1
    <3>2. q[k].frag \in 0 .. 2
      BY <3>1 DEF Piece
    <3>3. q[k].src = s /\ q[k].msdu % SeqMod = SeqOf(s) /\ q[k].frag <= e.last_frag
      BY <2>2, Zenon DEF InOrder
    <3> QED
      BY <2>1, <2>4, <3>2, <3>3
  <2>6. \A j, k \in 1 .. Len(q) : j < k => q[j].frag < q[k].frag
    BY <2>2, Zenon DEF InOrder
  <2>7. CASE a = <<c>>
    <3>1. /\ Len(Append(q, c)) = Len(q) + 1 /\ Append(q, c)[Len(q) + 1] = c
          /\ \A k \in 1 .. Len(q) : Append(q, c)[k] = q[k]
      BY <2>1
    <3>2. d = Append(q, c)
      BY <2>1, <2>7, AppendIsConcat, Zenon DEF d, q
    <3>3. Len(q) \in Nat
      BY <2>1
    <3> HIDE DEF d
    <3>4. \A k \in 1 .. Len(d) : \/ k \in 1 .. Len(q) /\ d[k] = q[k]
                                 \/ k = Len(q) + 1 /\ d[k] = c
      BY <3>1, <3>2, <3>3
    <3>5. \A k \in 1 .. Len(d) : d[k].src = s /\ d[k].msdu % SeqMod = SeqOf(s) /\ d[k].frag <= f
      BY <2>1, <2>3, <2>5, <3>4
    <3>6. \A j, k \in 1 .. Len(d) : j < k => d[j].frag < d[k].frag
      <4> SUFFICES ASSUME NEW j \in 1 .. Len(d), NEW k \in 1 .. Len(d), j < k
                   PROVE  d[j].frag < d[k].frag
        OBVIOUS
      <4>1. j \in 1 .. Len(q) /\ d[j] = q[j]
        BY <3>1, <3>2, <3>3, <3>4
      <4>2. CASE k \in 1 .. Len(q) /\ d[k] = q[k]
        BY <2>6, <4>1, <4>2
      <4>3. CASE k = Len(q) + 1 /\ d[k] = c
        BY <2>3, <2>5, <4>1, <4>3
      <4> QED
        BY <3>4, <4>2, <4>3
    <3> QED
      BY <3>5, <3>6, Zenon DEF InOrder
  <2>8. CASE a = <<>>
    <3>1. d = q
      BY <2>1, <2>8 DEF d, q
    <3>2. \A k \in 1 .. Len(q) : q[k].src = s /\ q[k].msdu % SeqMod = SeqOf(s) /\ q[k].frag <= f
      BY <2>1, <2>5
    <3> HIDE DEF d
    <3> QED
      BY <2>6, <3>1, <3>2, Zenon DEF InOrder
  <2> QED
    BY <2>7, <2>8 DEF c
<1> HIDE DEF d, e, f
<1>13. ASSUME NEW i \in Entry, InUse(c1[i])
       PROVE  InOrder(c1[i].data, c1[i].src, c1[i].seq, c1[i].last_frag)
  <2>1. CASE i = hit
    BY <1>10, <1>12, <2>1, Zenon
  <2>2. CASE i # hit
    <3>1. c1[i] = frag_cache[i] /\ InUse(frag_cache[i])
      BY <1>5, <1>9, <1>13, <2>2
    <3> QED
      BY <3>1, Zenon DEF Assembled
  <2> QED
    BY <2>1, <2>2
<1> QED
  BY <1>3, <1>6, <1>11, <1>13, Zenon DEF c1

\* What an entry holds comes from one station, has one number and is in order, whether
\* the number came back or not.
LEMMA AssembledStep ==
    ASSUME TypeOK, Assembled, [Next]_vars
    PROVE  Assembled'
<1>1. CacheType /\ CacheType
  BY TypeParts
<1>2. CASE \A i \in Entry : frag_cache'[i] = frag_cache[i] \/ ~InUse(frag_cache'[i])
  <2> SUFFICES ASSUME NEW i \in Entry, InUse(frag_cache'[i])
               PROVE  InOrder(frag_cache'[i].data, frag_cache'[i].src, frag_cache'[i].seq,
                              frag_cache'[i].last_frag)
    BY Zenon DEF Assembled
  <2>1. frag_cache'[i] = frag_cache[i] /\ InUse(frag_cache[i])
    BY <1>2, Zenon
  <2> QED
    BY <2>1, Zenon DEF Assembled
\* Clearing entries changes nothing for the others.
<1>3. ASSUME NEW c1 \in [Entry -> CacheRecord], NEW t, NEW s,
             \A i \in Entry : InUse(c1[i]) =>
                 InOrder(c1[i].data, c1[i].src, c1[i].seq, c1[i].last_frag),
             frag_cache' = cache_invalidate(c1, t, s) \/ frag_cache' = c1
      PROVE  Assembled'
  <2> DEFINE l == Find(c1, t, s, 1 .. 3)  w == Swept(c1, t, l)
  <2>1. w \in [Entry -> CacheRecord] /\ \A i \in Entry : w[i] = c1[i] \/ ~InUse(w[i])
    BY Sweeps, SweptType, Zenon
  <2>2. frag_cache' = w \/ frag_cache' = [w EXCEPT ![l] = Unused] \/ frag_cache' = c1
    BY <1>3 DEF cache_invalidate
  <2> HIDE DEF w, l
  <2>3. \A i \in Entry : frag_cache'[i] = c1[i] \/ ~InUse(frag_cache'[i])
    BY <2>1, <2>2, EmptyEntry
  <2> SUFFICES ASSUME NEW i \in Entry, InUse(frag_cache'[i])
               PROVE  InOrder(frag_cache'[i].data, frag_cache'[i].src, frag_cache'[i].seq,
                              frag_cache'[i].last_frag)
    BY Zenon DEF Assembled
  <2>4. frag_cache'[i] = c1[i] /\ InUse(c1[i])
    BY <2>3, Zenon
  <2> QED
    BY <1>3, <2>4, Zenon
<1>4. ASSUME NEW s \in Sender, NEW b \in Buffer, NEW d \in {<<Current(s)>>, <<>>},
             air[s].frag = 0
      PROVE  LET c1 == cache_head(s, b, d)
             IN  /\ c1 \in [Entry -> CacheRecord]
                 /\ \A i \in Entry : InUse(c1[i]) =>
                       InOrder(c1[i].data, c1[i].src, c1[i].seq, c1[i].last_frag)
  <2> DEFINE e == [skb |-> b, src |-> s, seq |-> SeqOf(s), last_frag |-> 0,
                   time |-> jiffies, data |-> d]
             c1 == cache_head(s, b, d)
  <2>1. c1 \in [Entry -> CacheRecord]
    <3>1. Current(s) \in Piece
      BY CurrentPiece, TypeParts
    <3>2. <<Current(s)>> \in Seq(Piece)
      BY <3>1
    <3>3. <<>> \in Seq(Piece)
      OBVIOUS
    <3>4. d \in Seq(Piece)
      BY <3>2, <3>3
    <3> QED
      BY <3>4, HeadType
  <2>2. c1 = [frag_cache EXCEPT ![frag_next_idx] = e]
    BY DEF cache_head
  <2>3. e.src = s /\ e.seq = SeqOf(s) /\ e.last_frag = 0 /\ e.data = d
    OBVIOUS
  <2> HIDE DEF e, c1
  <2>4. InOrder(d, s, SeqOf(s), 0)
    <3>1. Current(s).src = s /\ Current(s).msdu % SeqMod = SeqOf(s) /\ Current(s).frag = 0
      BY <1>4 DEF Current, SeqOf
    <3> DEFINE c == Current(s)
    <3>2. c.src = s /\ c.msdu % SeqMod = SeqOf(s) /\ c.frag = 0
      BY <3>1
    <3> HIDE DEF c
    <3>3. \A k \in 1 .. Len(<<c>>) : k = 1 /\ <<c>>[k] = c
      OBVIOUS
    <3>4. InOrder(<<c>>, s, SeqOf(s), 0)
      BY <3>2, <3>3 DEF InOrder
    <3>5. InOrder(<<>>, s, SeqOf(s), 0)
      BY DEF InOrder
    <3> QED
      BY <3>4, <3>5 DEF c
  <2>5. \A i \in Entry : c1[i] = e \/ c1[i] = frag_cache[i]
    BY <1>1, <2>2 DEF CacheType
  <2>6. ASSUME NEW i \in Entry, InUse(c1[i])
        PROVE  InOrder(c1[i].data, c1[i].src, c1[i].seq, c1[i].last_frag)
    <3>1. CASE c1[i] = e
      BY <2>3, <2>4, <3>1, Zenon
    <3>2. CASE c1[i] = frag_cache[i]
      BY <2>6, <3>2, Zenon DEF Assembled
    <3> QED
      BY <2>5, <3>1, <3>2
  <2> QED
    BY <2>1, <2>6, Zenon DEF c1
<1>5. CASE UNCHANGED frag_cache
  BY <1>2, <1>5
<1>6. ASSUME NEW s \in Sender, RxHead(s) \/ RxUnfitHead(s) PROVE Assembled'
  <2>1. air[s].frag = 0
    BY <1>6 DEF RxHead, RxUnfitHead
  <2>2. \E b \in Buffer, d \in {<<Current(s)>>, <<>>} :
           \/ frag_cache' = cache_head(s, b, d)
           \/ frag_cache' = cache_invalidate(cache_head(s, b, d), jiffies', s)
    BY <1>6, Zenon DEF RxHead, RxUnfitHead, Unfit
  <2> QED
    BY <1>3, <1>4, <2>1, <2>2, Zenon
<1>7. ASSUME NEW s \in Sender, RxMiddle(s) \/ RxTail(s) \/ RxUnfit(s) PROVE Assembled'
  <2> DEFINE hit == Find(frag_cache, jiffies, s, {air[s].frag})
  <2>1. hit # None
    BY <1>7, Zenon DEF RxMiddle, RxTail, RxUnfit
  <2>2. \E a \in {<<Current(s)>>, <<>>} :
           \/ frag_cache' = cache_append(s, hit, a)
           \/ frag_cache' = cache_invalidate(cache_append(s, hit, a), jiffies', s)
    BY <1>7, Zenon DEF RxMiddle, RxTail, RxUnfit, Unfit
  <2> HIDE DEF hit
  <2> QED
    BY <1>3, <2>1, <2>2, Assembles, Zenon DEF hit
<1>8. ASSUME NEW s \in Sender, RxNoEntry(s) PROVE Assembled'
  <2>1. frag_cache' = frag_cache \/ frag_cache' = Swept(frag_cache, jiffies, None)
    BY <1>8 DEF RxNoEntry, cacheVars
  <2> QED
    BY <1>1, <1>2, <2>1, Sweeps DEF CacheType
<1>9. ASSUME NEW s \in Sender,
             \/ RxMonitor(s) \/ RxNoKey(s) \/ RxDuplicate(s) \/ RxManagement(s) \/ RxForeign(s)
             \/ RxUndecryptable(s) \/ RxWhole(s)
      PROVE  UNCHANGED frag_cache
  BY <1>9, Zenon DEF RxMonitor, RxNoKey, RxDuplicate, RxManagement, RxForeign,
     RxUndecryptable, RxWhole, cacheVars
<1>10. ASSUME NEW s \in Sender, ieee80211_rx(s) PROVE Assembled'
  BY <1>5, <1>6, <1>7, <1>8, <1>9, <1>10, Zenon DEF ieee80211_rx
<1> QED
  BY <1>5, <1>10 DEF Next, vars, cacheVars, StartProtocol, SetKey

\* What the first part of FramesAreWhole says.
Ordinary(d) ==
    \A j, k \in DOMAIN d :
        /\ d[j].src = d[k].src /\ d[j].msdu % SeqMod = d[k].msdu % SeqMod
        /\ j < k => d[j].frag < d[k].frag

LEMMA TailIsOrdinary ==
    ASSUME TypeOK, Assembled, NEW s \in Sender, NEW hit,
           hit = Find(frag_cache, jiffies, s, {air[s].frag}), hit # None
    PROVE  Ordinary(cache_append(s, hit, <<Current(s)>>)[hit].data)
<1> DEFINE c1 == cache_append(s, hit, <<Current(s)>>)  e == c1[hit]  d == e.data
<1>1. c1 \in [Entry -> CacheRecord] /\ hit \in Entry
      /\ InOrder(d, e.src, e.seq, e.last_frag)
  BY Assembles, Zenon
<1> HIDE DEF c1
<1>2. d \in Seq(Piece)
  BY <1>1 DEF CacheRecord
<1> HIDE DEF d, e
<1>3. DOMAIN d = 1 .. Len(d)
  BY <1>2
<1>4. Ordinary(d)
  BY <1>1, <1>3 DEF InOrder, Ordinary
<1> QED
  BY <1>4 DEF d, e, c1

LEMMA Calls ==
    ASSUME NEW what, NEW ret, NEW fate
    PROVE  /\ Call(what, ret, fate).what = what
           /\ \A d : /\ [Call(what, ret, fate) EXCEPT !.data = d].data = d
                    /\ [Call(what, ret, fate) EXCEPT !.data = d].what = what
           /\ \A copy, f, g :
                 LET call == [Call(what, ret, fate) EXCEPT !.copy = copy, !.frame = f,
                                                           !.against = g]
                 IN  /\ call.what = what /\ call.copy = copy
                     /\ call.frame = f /\ call.against = g
BY DEF Call

Right(d) == Ordinary(d) /\ (NobodyMet => Whole(d))

UpIsRight == last.what = "up" => Right(last.data)

LEMMA WholeStep ==
    ASSUME CacheUnmet, Assembled, UpIsRight, [Next]_vars
    PROVE  UpIsRight'
<1>1. TypeOK /\ Stations /\ (NobodyMet => CacheInv) /\ (NobodyMet' => NobodyMet)
  BY MetStays DEF CacheUnmet
<1> SUFFICES last'.what = "up" => Ordinary(last'.data) /\ (NobodyMet => Whole(last'.data))
  BY <1>1, Zenon DEF UpIsRight, Right, Ordinary, Whole
<1>2. CASE last' = last
  BY <1>2, Zenon DEF UpIsRight, Right
<1>3. CASE last'.what # "up"
  BY <1>3
<1>4. ASSUME NEW s \in Sender, RxWhole(s), last'.what = "up"
      PROVE  Ordinary(last'.data) /\ Whole(last'.data)
  <2>1. air[s].shape.n = 1 /\ air[s] \in AirRecord
    BY <1>1, <1>4, TypeParts DEF RxWhole, AirType
  <2>2. Whole(<<Current(s)>>)
    BY <1>1, <2>1, AloneIsWhole
  <2>3. \/ last' = Call("other", 0, "alive")
        \/ last' = [Call("up", 1, "stack") EXCEPT !.data = <<Current(s)>>]
    BY <1>4, Zenon DEF RxWhole
  <2>4. last'.what = "other" \/ last'.data = <<Current(s)>>
    BY <2>3 DEF Call
  <2>5. Ordinary(<<Current(s)>>)
    BY DEF Ordinary
  <2> QED
    BY <1>4, <2>2, <2>4, <2>5
<1>5. ASSUME NEW s \in Sender, RxTail(s), last'.what = "up"
      PROVE  Ordinary(last'.data) /\ (NobodyMet => Whole(last'.data))
  <2> DEFINE hit == Find(frag_cache, jiffies, s, {air[s].frag})
             c1 == cache_append(s, hit, <<Current(s)>>)
             d == c1[hit].data
  <2>1. /\ hit # None /\ ~More(s)
        /\ \/ \E fate : last' = Call("other", 0, fate)
           \/ \E fate : last' = [Call("up", 1, fate) EXCEPT !.data = d]
    BY <1>5, Zenon DEF RxTail
  <2>2. Ordinary(d) /\ (NobodyMet => Whole(d))
    BY <1>1, <2>1, TailIsWhole, TailIsOrdinary
  <2> HIDE DEF d
  <2>3. last'.what = "other" \/ last'.data = d
    <3>1. \A fate : /\ Call("other", 0, fate).what = "other"
                   /\ [Call("up", 1, fate) EXCEPT !.data = d].data = d
      BY Calls
    <3> QED
      BY <2>1, <3>1, Zenon
  <2> QED
    BY <1>5, <2>2, <2>3
<1>6. ASSUME NEW s \in Sender, ieee80211_rx(s), ~RxWhole(s), ~RxTail(s)
      PROVE  last'.what # "up"
  <2>1. \A ret, fate : Call("other", ret, fate).what = "other"
    BY Calls
  <2>2. ASSUME RxDuplicate(s) PROVE last'.what = "duplicate"
    <3> DEFINE c == air[s].copies > 0 \/ air[s].lost
               f == [by |-> s, msdu |-> air[s].msdu]
               g == [by |-> FilterOf(s).by, msdu |-> FilterOf(s).msdu]
    <3>1. last' = [Call("duplicate", 0, "alive") EXCEPT !.copy = c, !.frame = f, !.against = g]
      BY <2>2, Zenon DEF RxDuplicate
    <3> HIDE DEF c, f, g
    <3> QED
      BY <3>1, Calls
  <2>3. ASSUME \/ RxMonitor(s) \/ RxNoKey(s) \/ RxManagement(s) \/ RxForeign(s)
               \/ RxUndecryptable(s) \/ RxHead(s) \/ RxNoEntry(s) \/ RxMiddle(s)
        PROVE  last'.what = "other"
    <3>1. \E ret, fate : last' = Call("other", ret, fate)
      BY <2>3, Zenon DEF RxMonitor, RxNoKey, RxManagement, RxForeign, RxUndecryptable,
         RxHead, RxNoEntry, RxMiddle
    <3> QED
      BY <2>1, <3>1, Zenon
  <2>4. ASSUME RxUnfitHead(s) PROVE last'.what = "other"
    BY <2>1, <2>4, Zenon DEF RxUnfitHead, Unfit
  <2>5. ASSUME RxUnfit(s) PROVE last'.what = "other"
    BY <2>1, <2>5, Zenon DEF RxUnfit, Unfit
  <2> QED
    BY <1>6, <2>2, <2>3, <2>4, <2>5 DEF ieee80211_rx
<1> QED
  BY <1>2, <1>3, <1>4, <1>5, <1>6 DEF Next, vars

\* What ieee80211_rx gives the stack is of one station, of one sequence number and in
\* order, whatever the cache dropped, replaced or left behind before and however fast
\* numbers come back; and it is one MSDU with all its fragments as long as no number
\* came back to a live entry, which ieee80211_frag_cache_find would go on with.
THEOREM UpIsWhole == Spec => []FramesAreWhole
<1>1. Init => Assembled /\ UpIsRight
  <2> HAVE Init
  <2>1. \A i \in Entry : ~InUse(frag_cache[i])
    BY EmptyEntry DEF Init
  <2>2. last.what = "other"
    BY DEF Init, Call
  <2> QED
    BY <2>1, <2>2 DEF Assembled, UpIsRight
<1>2. CacheUnmet /\ Assembled /\ UpIsRight /\ [Next]_vars => (Assembled /\ UpIsRight)'
  BY AssembledStep, WholeStep DEF CacheUnmet
<1>3. UpIsRight => FramesAreWhole
  BY Zenon DEF UpIsRight, Right, Ordinary, Whole, FramesAreWhole
<1> QED
  BY <1>1, <1>2, <1>3, CacheIsRight, PTL DEF Spec

(***************************************************************************)
(* What the filter of duplicates knows.                                    *)
(***************************************************************************)
FilterKinded ==
    \A s \in Sender :
        /\ FilterOf(s).frag \in -1 .. 2 /\ FilterOf(s).time \in Nat
        /\ FilterOf(s).msdu \in Nat
        /\ air[s].since \in Nat /\ air[s].ups \in Nat
        /\ air[s].lost \in BOOLEAN /\ air[s].loose \in BOOLEAN
        /\ air[s].since <= MaxTime

LEMMA FilterKinds == TypeOK => FilterKinded
<1> SUFFICES ASSUME TypeOK, NEW s \in Sender
             PROVE  /\ FilterOf(s).frag \in -1 .. 2 /\ FilterOf(s).time \in Nat
                    /\ FilterOf(s).msdu \in Nat
                    /\ air[s].since \in Nat /\ air[s].ups \in Nat
                    /\ air[s].lost \in BOOLEAN /\ air[s].loose \in BOOLEAN
                    /\ air[s].since <= MaxTime
  BY DEF FilterKinded
<1>1. FilterOf(s) \in FilterRecord /\ air[s] \in AirRecord
  BY TypeParts DEF FilterType, FilterOf, AirType
<1> QED
  BY <1>1, Bounds DEF FilterRecord, AirRecord

LEMMA FilterKindsNext == TypeOK' => FilterKinded'
BY FilterKinds, PTL

\* A station that nothing happens to, of which the filter keeps what it knows.
SameStation(t) ==
    /\ FilterOf(t)' = FilterOf(t)
    /\ air'[t].msdu = air[t].msdu /\ air'[t].shape = air[t].shape
    /\ air'[t].frag = air[t].frag /\ air'[t].copies = air[t].copies
    /\ air'[t].since = air[t].since /\ air'[t].ups = air[t].ups
    /\ air[t].lost => air'[t].lost
    /\ air[t].loose => air'[t].loose

TimeGoesOn == iw_mode' = iw_mode /\ jiffies <= jiffies'

LEMMA KeptMemory ==
    ASSUME TypeOK, TypeOK', TimeGoesOn, NEW t \in Sender, Remembers(t),
           FilterOf(t)' = FilterOf(t),
           air'[t].msdu \in {air[t].msdu, air[t].msdu + 1}
    PROVE  Remembers(t)'
<1> DEFINE e == FilterOf(t)
<1>1. Kinded /\ Kinded' /\ FilterKinded
  BY Kinds, KindsNext, FilterKinds
<1>2. /\ e.time \in Nat /\ e.msdu \in Nat
      /\ jiffies \in Nat /\ jiffies' \in Nat /\ air[t].msdu \in Nat
  BY <1>1 DEF Kinded, FilterKinded
<1>3. FilterOf(t)' = e
  OBVIOUS
<1> SUFFICES ASSUME e.by = t
             PROVE  /\ e.time <= jiffies' /\ e.msdu <= air'[t].msdu
                    /\ e.seq = e.msdu % SeqMod
  BY <1>3, Zenon DEF Remembers
<1>4. e.time <= jiffies /\ e.msdu <= air[t].msdu /\ e.seq = e.msdu % SeqMod
  BY Zenon DEF Remembers
<1> HIDE DEF e
<1> QED
  BY <1>2, <1>4 DEF TimeGoesOn

LEMMA KeptStation ==
    ASSUME TypeOK, TypeOK', TimeGoesOn, NEW t \in Sender, Known(t), SameStation(t)
    PROVE  Known(t)'
<1> DEFINE e == FilterOf(t)
<1>1. /\ FilterOf(t)' = e /\ iw_mode' = iw_mode /\ SeqOf(t)' = SeqOf(t)
      /\ air'[t].msdu = air[t].msdu
  BY DEF SameStation, TimeGoesOn, SeqOf
<1>2. Remembers(t)'
  BY <1>1, KeptMemory DEF Known
<1> HIDE DEF e
<1>3. KnowsLast(t)'
  <2>1. KnowsLast(t)
    BY DEF Known
  <2> SUFFICES ASSUME iw_mode # "monitor", e.by = t, e.msdu = air[t].msdu
               PROVE  /\ e.frag <= air'[t].frag
                      /\ e.frag = air'[t].frag => air'[t].copies > 0
                      /\ e.frag < air'[t].frag => air'[t].copies = 0 \/ air'[t].lost
                      /\ e.frag + 1 < air'[t].frag => air'[t].lost
    BY <1>1, Zenon DEF KnowsLast
  <2>2. /\ e.frag <= air[t].frag
        /\ e.frag = air[t].frag => air[t].copies > 0
        /\ e.frag < air[t].frag => air[t].copies = 0 \/ air[t].lost
        /\ e.frag + 1 < air[t].frag => air[t].lost
    BY <2>1, Zenon DEF KnowsLast, e
  <2> QED
    BY <2>2, Zenon DEF SameStation
<1>4. UpOnce(t)'
  <2>1. UpOnce(t)
    BY DEF Known
  <2>2. /\ air[t].loose => air'[t].loose
        /\ air'[t].ups = air[t].ups /\ air'[t].copies = air[t].copies
        /\ air'[t].frag = air[t].frag /\ air'[t].shape = air[t].shape
        /\ air'[t].since = air[t].since
    BY DEF SameStation
  <2> QED
    BY <1>1, <2>1, <2>2, Zenon DEF UpOnce, e
<1> QED
  BY <1>2, <1>3, <1>4 DEF Known

\* Nothing is claimed of a station whose last frame the filter does not know, unless
\* an MSDU of it went up.
LEMMA UnknownStation ==
    ASSUME NEW t \in Sender, FilterOf(t)'.by # t, air'[t].loose \/ air'[t].ups = 0
    PROVE  Known(t)'
<1>1. Remembers(t)' /\ KnowsLast(t)'
  BY Zenon DEF Remembers, KnowsLast
<1>2. UpOnce(t)'
  BY DEF UpOnce
<1> QED
  BY <1>1, <1>2 DEF Known

(***************************************************************************)
(* What an arrival makes of it.                                            *)
(***************************************************************************)
\* Dropped before the filter or by it, or remembered; an MSDU goes up with its last
\* fragment only.
LEMMA RxWays ==
    ASSUME TypeOK, Stations, NEW s \in Sender, ieee80211_rx(s)
    PROVE  \/ /\ filter' = filter /\ (iw_mode = "monitor" \/ air'[s].lost)
              /\ air'[s].ups = air[s].ups
              /\ \A t \in Sender : air'[t].loose = air[t].loose
           \/ /\ PassesFilter(s)
              /\ \E up \in {0, 1} :
                    Passed(s, up) /\ (up = 1 => air[s].frag + 1 = air[s].shape.n)
<1>1. AirType /\ RestType /\ Arrives(s) /\ air[s].copies < MaxCopies[s]
  BY TypeParts, Hears DEF Arrives
<1>2. /\ air[s] \in AirRecord /\ air[s].frag \in 0 .. 2 /\ air[s].shape.n \in 1 .. 3
      /\ air[s].frag < air[s].shape.n
  BY <1>1 DEF AirType, AirRecord, ShapeType, Stations
<1>3. CASE RxMonitor(s) \/ RxNoKey(s) \/ RxDuplicate(s)
  <2>1. filter' = filter
    BY <1>3 DEF RxMonitor, RxNoKey, RxDuplicate
  <2>2. \/ iw_mode = "monitor" /\ air' = [air EXCEPT ![s] = Arrived(@)]
        \/ air' = [air EXCEPT ![s] = [Arrived(@) EXCEPT !.lost = TRUE]]
    BY <1>3, Zenon DEF RxMonitor, RxNoKey, RxDuplicate
  <2>3. air'[s].ups = air[s].ups /\ \A t \in Sender : air'[t].loose = air[t].loose
    BY <1>1, <2>2, PlainAir
  <2>4. air' = [air EXCEPT ![s] = [Arrived(@) EXCEPT !.lost = TRUE]] => air'[s].lost
    <3> DEFINE a == Arrived(air[s])
    <3>1. a \in AirRecord
      BY <1>1, <1>2, ArrivedRecord DEF RestType
    <3> HIDE DEF a
    <3>2. [a EXCEPT !.lost = TRUE].lost = TRUE
      BY <3>1 DEF AirRecord
    <3>3. [air EXCEPT ![s] = [Arrived(@) EXCEPT !.lost = TRUE]][s] = [a EXCEPT !.lost = TRUE]
      BY <1>1 DEF AirType, a
    <3> QED
      BY <3>2, <3>3
  <2> QED
    BY <2>1, <2>2, <2>3, <2>4
<1>4. CASE RxManagement(s) \/ RxForeign(s) \/ RxUndecryptable(s) \/ RxHead(s) \/ RxNoEntry(s)
           \/ RxMiddle(s) \/ RxUnfitHead(s) \/ RxUnfit(s)
  <2>1. PassesFilter(s) /\ Passed(s, 0)
    BY <1>4, Zenon DEF RxManagement, RxForeign, RxUndecryptable, RxHead, RxNoEntry, RxMiddle,
       RxUnfitHead, RxUnfit, Unfit, Fragment
  <2> QED
    BY <2>1
<1>5. CASE RxWhole(s)
  <2>1. PassesFilter(s) /\ air[s].shape.n = 1 /\ \E up \in {0, 1} : Passed(s, up)
    BY <1>5 DEF RxWhole
  <2>2. air[s].frag + 1 = air[s].shape.n
    BY <1>2, <2>1
  <2> QED
    BY <2>1, <2>2
<1>6. CASE RxTail(s)
  <2>1. PassesFilter(s) /\ ~More(s) /\ \E up \in {0, 1} : Passed(s, up)
    BY <1>6 DEF RxTail, Fragment
  <2>2. air[s].frag + 1 = air[s].shape.n
    BY <1>2, <2>1 DEF More
  <2> QED
    BY <2>1, <2>2
<1> QED
  BY <1>3, <1>4, <1>5, <1>6 DEF ieee80211_rx

\* A frame that is not remembered, of a station that is.
LEMMA DroppedStation ==
    ASSUME TypeOK, TypeOK', TimeGoesOn, NEW s \in Sender, Known(s), Heard(s),
           filter' = filter, iw_mode = "monitor" \/ air'[s].lost,
           air'[s].ups = air[s].ups, air'[s].loose = air[s].loose
    PROVE  Known(s)'
<1> DEFINE e == FilterOf(s)
<1>1. Kinded /\ FilterKinded
  BY Kinds, FilterKinds
<1>2. /\ air'[s].msdu = air[s].msdu /\ air'[s].shape = air[s].shape
      /\ air'[s].frag = air[s].frag /\ air'[s].copies = air[s].copies + 1
      /\ air'[s].since = IF air[s].copies = 0 THEN jiffies ELSE air[s].since
  BY DEF Heard
<1>3. FilterOf(s)' = e /\ iw_mode' = iw_mode /\ SeqOf(s)' = SeqOf(s)
  BY <1>2 DEF FilterOf, TimeGoesOn, SeqOf
<1>4. Remembers(s)'
  BY <1>2, <1>3, KeptMemory DEF Known
<1>5. air[s].copies \in Nat /\ air'[s].copies > 0
  BY <1>1, <1>2 DEF Kinded
<1> HIDE DEF e
<1>6. KnowsLast(s)'
  <2> SUFFICES ASSUME iw_mode # "monitor", e.by = s, e.msdu = air[s].msdu
               PROVE  /\ e.frag <= air'[s].frag
                      /\ e.frag = air'[s].frag => air'[s].copies > 0
                      /\ e.frag < air'[s].frag => air'[s].copies = 0 \/ air'[s].lost
                      /\ e.frag + 1 < air'[s].frag => air'[s].lost
    BY <1>2, <1>3, Zenon DEF KnowsLast
  <2>1. e.frag <= air[s].frag
    BY Zenon DEF Known, KnowsLast, e
  <2> QED
    BY <1>2, <1>5, <2>1
<1>7. UpOnce(s)'
  <2> SUFFICES ASSUME ~air[s].loose, iw_mode # "monitor", air[s].ups > 0
               PROVE  /\ air'[s].ups = 1 /\ air'[s].copies > 0
                      /\ air'[s].frag + 1 = air'[s].shape.n
                      /\ e.by = s /\ e.msdu = air'[s].msdu /\ e.seq = SeqOf(s)
                      /\ e.frag = air'[s].frag
                      /\ air'[s].since <= e.time
    BY <1>3, Zenon DEF UpOnce
  <2>1. /\ air[s].ups = 1 /\ air[s].copies > 0
        /\ air[s].frag + 1 = air[s].shape.n
        /\ e.by = s /\ e.msdu = air[s].msdu /\ e.seq = SeqOf(s) /\ e.frag = air[s].frag
        /\ air[s].since <= e.time
    BY Zenon DEF Known, UpOnce, e
  <2>2. air'[s].since = air[s].since
    BY <1>2, <1>5, <2>1
  <2> QED
    BY <1>2, <1>5, <2>1, <2>2
<1> QED
  BY <1>4, <1>6, <1>7 DEF Known

\* A frame that passed the filter and is remembered.
LEMMA PassedStation ==
    ASSUME TypeOK, TypeOK', Stations, TimeGoesOn, NEW s \in Sender, Known(s), Heard(s),
           PassesFilter(s), NEW up \in {0, 1}, air'[s].ups = air[s].ups + up,
           up = 1 => air[s].frag + 1 = air[s].shape.n,
           FilterOf(s)' = [seq |-> SeqOf(s), frag |-> air[s].frag, time |-> jiffies,
                           by |-> s, msdu |-> air[s].msdu]
    PROVE  Known(s)'
<1> DEFINE e == FilterOf(s)
<1>1. Kinded /\ Kinded' /\ FilterKinded /\ FilterKinded'
  BY Kinds, KindsNext, FilterKinds, FilterKindsNext
<1>2. /\ air'[s].msdu = air[s].msdu /\ air'[s].shape = air[s].shape
      /\ air'[s].frag = air[s].frag /\ air'[s].copies = air[s].copies + 1
      /\ air'[s].since = IF air[s].copies = 0 THEN jiffies ELSE air[s].since
      /\ air[s].loose => air'[s].loose
  BY DEF Heard
<1>3. /\ FilterOf(s)'.seq = SeqOf(s) /\ FilterOf(s)'.frag = air[s].frag
      /\ FilterOf(s)'.time = jiffies /\ FilterOf(s)'.by = s
      /\ FilterOf(s)'.msdu = air[s].msdu
      /\ iw_mode' = iw_mode /\ SeqOf(s)' = SeqOf(s)
  BY <1>2 DEF TimeGoesOn, SeqOf
<1>4. /\ air[s].msdu \in Nat /\ air[s].copies \in Nat /\ air'[s].copies > 0
      /\ air[s].frag \in Int /\ air[s].since \in Nat /\ air[s].ups \in Nat
      /\ jiffies \in Nat /\ jiffies' \in Nat /\ jiffies <= jiffies' /\ air[s].since <= jiffies
  BY <1>1, <1>2 DEF Kinded, FilterKinded, TimeGoesOn, Stations
<1>5. Remembers(s)'
  <2>1. SeqOf(s) = air[s].msdu % SeqMod /\ air[s].msdu <= air'[s].msdu
    BY <1>2, <1>4 DEF SeqOf
  <2> QED
    BY <1>3, <1>4, <2>1, Zenon DEF Remembers
<1>6. KnowsLast(s)'
  <2> SUFFICES /\ air[s].frag <= air'[s].frag
               /\ air[s].frag = air'[s].frag => air'[s].copies > 0
               /\ air[s].frag < air'[s].frag => air'[s].copies = 0 \/ air'[s].lost
               /\ air[s].frag + 1 < air'[s].frag => air'[s].lost
    BY <1>3, Zenon DEF KnowsLast
  <2> QED
    BY <1>2, <1>4
<1>7. UpOnce(s)'
  <2> SUFFICES ASSUME ~air'[s].loose, iw_mode # "monitor", air'[s].ups > 0
               PROVE  /\ air'[s].ups = 1 /\ air'[s].copies > 0
                      /\ air'[s].frag + 1 = air'[s].shape.n
                      /\ air[s].frag = air'[s].frag
                      /\ air'[s].since <= jiffies
    BY <1>2, <1>3, Zenon DEF UpOnce
  \* The filter would have known another copy of what went up.
  <2>1. air[s].ups = 0
    <3> SUFFICES ASSUME air[s].ups > 0 PROVE FALSE
      BY <1>4
    <3>1. /\ e.seq = SeqOf(s) /\ e.frag = air[s].frag
          /\ air[s].since <= e.time /\ air[s].copies > 0
      BY <1>2, Zenon DEF Known, UpOnce
    <3>2. jiffies <= air[s].since + COPY_TIME
      BY <3>1 DEF PassesFilter, Arrives
    <3>3. e.time \in Nat
      BY <1>1 DEF FilterKinded
    <3> HIDE DEF e
    <3>4. jiffies < e.time + RETRY_TIME
      BY <1>4, <3>1, <3>2, <3>3, Bounds
    <3> QED
      BY <3>1, <3>4 DEF PassesFilter, is_duplicate_packet, e
  <2>2. air'[s].ups = 1 /\ up = 1
    BY <2>1
  <2>3. air'[s].since <= jiffies
    BY <1>2, <1>4
  <2> QED
    BY <1>2, <1>4, <2>2, <2>3
<1> QED
  BY <1>5, <1>6, <1>7 DEF Known

LEMMA RxFilter ==
    ASSUME FilterInv, TypeOK', NEW s \in Sender, ieee80211_rx(s), iw_mode' = iw_mode
    PROVE  Owned' /\ \A t \in Sender : Known(t)'
<1>1. /\ TypeOK /\ Stations /\ Owned /\ Kinded /\ FilterKinded
      /\ AirType /\ FilterType /\ RestType /\ \A t \in Sender : Known(t)
  BY TypeParts, Kinds, FilterKinds DEF FilterInv
<1>2. Heard(s) /\ Arrives(s) /\ air[s].copies < MaxCopies[s]
  BY <1>1, Hears DEF Arrives
<1>3. TimeGoesOn
  BY <1>1, RxOnward DEF Onward, TimeGoesOn
<1>4. \A t \in Sender : t # s => /\ air'[t].msdu = air[t].msdu /\ air'[t].shape = air[t].shape
                                 /\ air'[t].frag = air[t].frag
                                 /\ air'[t].copies = air[t].copies
                                 /\ air'[t].since = air[t].since /\ air'[t].ups = air[t].ups
                                 /\ air[t].lost => air'[t].lost
                                 /\ air[t].loose => air'[t].loose
  BY <1>2 DEF Heard
<1>5. CASE /\ filter' = filter /\ (iw_mode = "monitor" \/ air'[s].lost)
           /\ air'[s].ups = air[s].ups
           /\ \A t \in Sender : air'[t].loose = air[t].loose
  <2>1. Owned'
    BY <1>1, <1>5 DEF Owned
  <2>2. Known(s)'
    BY <1>1, <1>2, <1>3, <1>5, DroppedStation
  <2>3. \A t \in Sender : FilterOf(t)' = FilterOf(t)
    BY <1>5 DEF FilterOf
  <2>4. \A t \in Sender : t # s => Known(t)'
    BY <1>1, <1>3, <1>4, <2>3, KeptStation DEF SameStation
  <2> QED
    BY <2>1, <2>2, <2>4
<1>6. ASSUME PassesFilter(s), NEW up \in {0, 1}, Passed(s, up),
             up = 1 => air[s].frag + 1 = air[s].shape.n
      PROVE  Owned' /\ \A t \in Sender : Known(t)'
  <2> DEFINE e == [seq |-> SeqOf(s), frag |-> air[s].frag, time |-> jiffies, by |-> s,
                   msdu |-> air[s].msdu]
  <2>1. /\ air'[s].ups = air[s].ups + up
        /\ iw_mode # "adhoc" =>
             \A t \in Sender \ {s} :
                air'[t].loose <=> air[t].loose \/ air[t].frag > 0 \/ air[t].copies > 0
        /\ filter' = filter /\ iw_mode = "adhoc" /\ filter[s] = Forgotten => air'[s].loose
    BY <1>1, <1>2, <1>6, PassedAir
  <2>2. \/ filter' = [filter EXCEPT ![IF iw_mode = "adhoc" THEN s ELSE Anybody] = e]
        \/ iw_mode = "adhoc" /\ filter[s] = Forgotten /\ filter' = filter
    BY <1>6, Zenon DEF Passed, remember_packet
  <2>3. s # Anybody /\ \A t \in Sender : t # Anybody
    BY Bounds
  <2>4. e.seq = SeqOf(s) /\ e.by = s
    OBVIOUS
  <2>5. Owned'
    <3> HIDE DEF e
    <3>1. CASE filter' = filter
      BY <1>1, <3>1 DEF Owned
    <3>2. CASE filter' = [filter EXCEPT ![IF iw_mode = "adhoc" THEN s ELSE Anybody] = e]
      BY <1>1, <2>3, <2>4, <3>2 DEF Owned, FilterType
    <3> QED
      BY <2>2, <3>1, <3>2
  <2>6. CASE iw_mode = "adhoc" /\ filter[s] = Forgotten /\ filter' = filter
    <3>1. FilterOf(s)'.by # s /\ air'[s].loose
      BY <1>3, <2>1, <2>3, <2>6 DEF FilterOf, TimeGoesOn, Forgotten
    <3>2. Known(s)'
      BY <3>1, UnknownStation
    <3>3. \A t \in Sender : FilterOf(t)' = FilterOf(t)
      BY <1>3, <2>6 DEF FilterOf, TimeGoesOn
    <3>4. \A t \in Sender : t # s => Known(t)'
      BY <1>1, <1>3, <1>4, <3>3, KeptStation DEF SameStation
    <3> QED
      BY <2>5, <3>2, <3>4
  <2>7. CASE filter' = [filter EXCEPT ![IF iw_mode = "adhoc" THEN s ELSE Anybody] = e]
    <3> HIDE DEF e
    <3>1. FilterOf(s)' = e
      BY <1>1, <1>3, <2>7 DEF FilterOf, TimeGoesOn, FilterType
    <3>2. Known(s)'
      <4>1. FilterOf(s)' = [seq |-> SeqOf(s), frag |-> air[s].frag, time |-> jiffies,
                            by |-> s, msdu |-> air[s].msdu]
        BY <3>1, Zenon DEF e
      <4> QED
        BY <1>1, <1>2, <1>3, <1>6, <2>1, <4>1, PassedStation
    <3>3. ASSUME NEW t \in Sender, t # s
          PROVE  Known(t)'
      <4>1. CASE iw_mode = "adhoc"
        <5>1. FilterOf(t)' = FilterOf(t)
          BY <1>1, <1>3, <2>7, <3>3, <4>1 DEF FilterOf, TimeGoesOn, FilterType
        <5> QED
          BY <1>1, <1>3, <1>4, <3>3, <5>1, KeptStation DEF SameStation
      <4>2. CASE iw_mode # "adhoc"
        <5>1. FilterOf(t)'.by # t
          BY <1>1, <1>3, <2>4, <2>7, <3>3, <4>2 DEF FilterOf, TimeGoesOn, FilterType
        <5>2. air'[t].loose \/ air'[t].ups = 0
          <6> SUFFICES ASSUME ~air'[t].loose PROVE air[t].ups = 0
            BY <1>4, <3>3
          <6>1. ~air[t].loose /\ ~(air[t].copies > 0)
            BY <2>1, <3>3, <4>2
          <6>2. UpOnce(t) /\ iw_mode # "monitor" /\ air[t].ups \in Nat
            BY <1>1, <1>6 DEF Known, PassesFilter, FilterKinded
          <6>3. ~(air[t].ups > 0)
            BY <6>1, <6>2, Zenon DEF UpOnce
          <6> QED
            BY <6>2, <6>3
        <5> QED
          BY <5>1, <5>2, UnknownStation
      <4> QED
        BY <4>1, <4>2
    <3> QED
      BY <2>5, <3>2, <3>3
  <2> QED
    BY <2>2, <2>6, <2>7
<1> QED
  BY <1>1, <1>5, <1>6, RxWays

\* A station goes on to its next fragment: what the filter knows is the one before.
LEMMA FragmentFilter ==
    ASSUME TypeOK, TypeOK', NEW s \in Sender, Known(s), SendsNextFragment(s),
           filter' = filter, jiffies' = jiffies, iw_mode' = iw_mode, TimeGoesOn
    PROVE  Known(s)'
<1> DEFINE e == FilterOf(s)
<1>1. Kinded /\ Kinded' /\ FilterKinded
  BY Kinds, KindsNext, FilterKinds
<1>2. /\ air'[s].msdu = air[s].msdu /\ air[s].frag + 1 < air[s].shape.n
      /\ air'[s].frag = air[s].frag + 1 /\ air'[s].copies = 0
      /\ air'[s].ups = air[s].ups /\ air'[s].loose = air[s].loose
      /\ air'[s].lost <=> air[s].lost \/ air[s].copies = 0
  BY TypeParts, NextFragment
<1>3. FilterOf(s)' = e /\ SeqOf(s)' = SeqOf(s)
  BY <1>2 DEF FilterOf, SeqOf
<1>4. Remembers(s)'
  BY <1>2, <1>3, KeptMemory DEF Known
<1>5. e.frag \in Int /\ air[s].frag \in Int /\ air[s].copies \in Nat /\ air[s].shape.n \in Int
  BY <1>1 DEF Kinded, FilterKinded
<1> HIDE DEF e
<1>6. KnowsLast(s)'
  <2> SUFFICES ASSUME iw_mode # "monitor", e.by = s, e.msdu = air[s].msdu
               PROVE  /\ e.frag <= air'[s].frag
                      /\ e.frag = air'[s].frag => air'[s].copies > 0
                      /\ e.frag < air'[s].frag => air'[s].copies = 0 \/ air'[s].lost
                      /\ e.frag + 1 < air'[s].frag => air'[s].lost
    BY <1>2, <1>3, Zenon DEF KnowsLast
  <2>1. /\ e.frag <= air[s].frag
        /\ e.frag < air[s].frag => air[s].copies = 0 \/ air[s].lost
    BY Zenon DEF Known, KnowsLast, e
  <2> QED
    BY <1>2, <1>5, <2>1
<1>7. UpOnce(s)'
  <2> SUFFICES ASSUME ~air[s].loose, iw_mode # "monitor", air[s].ups > 0
               PROVE  FALSE
    BY <1>2, Zenon DEF UpOnce
  <2>1. air[s].frag + 1 = air[s].shape.n
    BY Zenon DEF Known, UpOnce
  <2> QED
    BY <1>2, <1>5, <2>1
<1> QED
  BY <1>4, <1>6, <1>7 DEF Known

\* A station goes on to its next MSDU, of which the filter knows nothing.
LEMMA MsduFilter ==
    ASSUME TypeOK, TypeOK', NEW s \in Sender, Known(s), SendsNextMsdu(s),
           filter' = filter, jiffies' = jiffies, iw_mode' = iw_mode, TimeGoesOn
    PROVE  Known(s)'
<1> DEFINE e == FilterOf(s)
<1>1. Kinded /\ FilterKinded
  BY Kinds, FilterKinds
<1>2. air'[s].msdu = air[s].msdu + 1 /\ air'[s].ups = 0
  BY TypeParts, NextMsdu
<1>3. FilterOf(s)' = e
  BY DEF FilterOf
<1>4. Remembers(s)'
  BY <1>2, <1>3, KeptMemory DEF Known
<1>5. e.msdu \in Nat /\ air[s].msdu \in Nat
  BY <1>1 DEF Kinded, FilterKinded
<1> HIDE DEF e
<1>6. e.by = s => e.msdu # air'[s].msdu
  <2>1. e.by = s => e.msdu <= air[s].msdu
    BY Zenon DEF Known, Remembers, e
  <2> QED
    BY <1>2, <1>5, <2>1
<1>7. KnowsLast(s)'
  BY <1>3, <1>6, Zenon DEF KnowsLast
<1>8. UpOnce(s)'
  BY <1>2 DEF UpOnce
<1> QED
  BY <1>4, <1>7, <1>8 DEF Known

LEMMA FilterStep ==
    ASSUME FilterInv, [Next]_vars
    PROVE  FilterInv'
<1>1. /\ TypeOK /\ Stations /\ Owned /\ Kinded /\ FilterKinded
      /\ AirType /\ FilterType /\ RestType /\ \A t \in Sender : Known(t)
  BY TypeParts, Kinds, FilterKinds DEF FilterInv
<1>2. TypeOK' /\ Stations' /\ Kinded'
  BY <1>1, TypeStep, KindsNext
<1> SUFFICES Owned' /\ \A t \in Sender : Known(t)'
  BY <1>2 DEF FilterInv
<1>3. ASSUME filter' = filter, TimeGoesOn, NEW s, \A t \in Sender : t # s => air'[t] = air[t]
      PROVE  Owned' /\ \A t \in Sender : t # s => Known(t)'
  <2>1. \A t \in Sender : FilterOf(t)' = FilterOf(t)
    BY <1>3 DEF FilterOf, TimeGoesOn
  <2>2. \A t \in Sender : t # s => SameStation(t)
    BY <1>3, <2>1 DEF SameStation
  <2>3. \A t \in Sender : t # s => Known(t)'
    BY <1>1, <1>2, <1>3, <2>2, KeptStation
  <2> QED
    BY <1>1, <1>3, <2>3 DEF Owned
<1>4. CASE filter' = filter /\ TimeGoesOn /\ air' = air
  <2>1. \A t \in Sender : SameStation(t)
    BY <1>4 DEF SameStation, FilterOf, TimeGoesOn
  <2>2. \A t \in Sender : Known(t)'
    BY <1>1, <1>2, <1>4, <2>1, KeptStation
  <2> QED
    BY <1>1, <1>4, <2>2 DEF Owned
<1>5. ASSUME NEW s \in Sender, ieee80211_rx(s), iw_mode' = iw_mode
      PROVE  Owned' /\ \A t \in Sender : Known(t)'
  BY <1>2, <1>5, RxFilter
<1>6. UNCHANGED <<jiffies, iw_mode>> => TimeGoesOn
  BY <1>1 DEF TimeGoesOn, Kinded
<1>7. ASSUME NEW s \in Sender, SendsNextFragment(s) \/ SendsNextMsdu(s),
             UNCHANGED <<iw_mode, filter, jiffies>>
      PROVE  Owned' /\ \A t \in Sender : Known(t)'
  <2>1. \A t \in Sender : t # s => air'[t] = air[t]
    BY <1>1, <1>7, NextFragment, NextMsdu
  <2>2. TimeGoesOn /\ filter' = filter /\ jiffies' = jiffies /\ iw_mode' = iw_mode
    BY <1>6, <1>7, <2>1
  <2>3. Known(s)'
    BY <1>1, <1>2, <1>7, <2>2, FragmentFilter, MsduFilter
  <2> QED
    BY <1>3, <2>1, <2>2, <2>3
<1>8. CASE TimePasses /\ UNCHANGED <<iw_mode, filter>>
  <2>1. TimeGoesOn
    BY <1>1, <1>8 DEF TimePasses, TimeGoesOn, Kinded
  <2> QED
    BY <1>4, <1>8, <2>1 DEF TimePasses
<1>9. CASE StartProtocol /\ UNCHANGED <<iw_mode, jiffies>>
  <2>1. filter' = [filter EXCEPT ![Anybody] = Forgotten] /\ TimeGoesOn
    BY <1>6, <1>9 DEF StartProtocol
  <2>2. \A t \in Sender :
           /\ air'[t].msdu = air[t].msdu /\ air'[t].shape = air[t].shape
           /\ air'[t].frag = air[t].frag /\ air'[t].copies = air[t].copies
           /\ air'[t].since = air[t].since /\ air'[t].lost = air[t].lost
           /\ air'[t].ups = air[t].ups
           /\ iw_mode = "adhoc" => air'[t].loose = air[t].loose
           /\ iw_mode # "adhoc" =>
                 (air'[t].loose <=> air[t].loose \/ air[t].frag > 0 \/ air[t].copies > 0)
    BY <1>1, <1>9, Forgets
  <2>3. \A t \in Sender : t # Anybody
    BY Bounds
  <2>4. Owned'
    BY <1>1, <2>1, <2>3 DEF Owned, FilterType, Forgotten
  <2>5. ASSUME NEW t \in Sender
        PROVE  Known(t)'
    <3>1. CASE iw_mode = "adhoc"
      <4>1. FilterOf(t)' = FilterOf(t)
        BY <1>1, <2>1, <2>3, <3>1 DEF FilterOf, TimeGoesOn, FilterType
      <4> QED
        BY <1>1, <1>2, <2>1, <2>2, <3>1, <4>1, KeptStation DEF SameStation
    <3>2. CASE iw_mode # "adhoc"
      <4>1. FilterOf(t)'.by # t
        BY <1>1, <2>1, <2>3, <3>2 DEF FilterOf, TimeGoesOn, FilterType, Forgotten
      <4>2. air'[t].loose \/ air'[t].ups = 0 \/ iw_mode = "monitor"
        <5> SUFFICES ASSUME ~air'[t].loose, iw_mode # "monitor" PROVE air[t].ups = 0
          BY <2>2
        <5>1. ~air[t].loose /\ ~(air[t].copies > 0)
          BY <2>2, <3>2
        <5>2. UpOnce(t) /\ air[t].ups \in Nat
          BY <1>1 DEF Known, FilterKinded
        <5>3. ~(air[t].ups > 0)
          BY <5>1, <5>2, Zenon DEF UpOnce
        <5> QED
          BY <5>2, <5>3
      <4>3. CASE iw_mode = "monitor"
        <5>1. iw_mode' = "monitor"
          BY <2>1, <4>3 DEF TimeGoesOn
        <5>2. Remembers(t)' /\ KnowsLast(t)' /\ UpOnce(t)'
          BY <4>1, <5>1, Zenon DEF Remembers, KnowsLast, UpOnce
        <5> QED
          BY <5>2 DEF Known
      <4> QED
        BY <4>1, <4>2, <4>3, UnknownStation
    <3> QED
      BY <3>1, <3>2
  <2> QED
    BY <2>4, <2>5
<1>10. CASE SetKey /\ UNCHANGED <<iw_mode, jiffies, air>>
  BY <1>4, <1>6, <1>10 DEF SetKey
<1>11. CASE UNCHANGED vars
  BY <1>4, <1>6, <1>11 DEF vars
<1> QED
  BY <1>5, <1>7, <1>8, <1>9, <1>10, <1>11 DEF Next

LEMMA InitFilter ==
    ASSUME Init
    PROVE  FilterInv
<1>1. TypeOK /\ Stations
  BY InitTypes
<1>2. \A k \in Sender \cup {Anybody} : filter[k].by = Anybody /\ filter[k].seq = -1
  BY DEF Init, Forgotten
<1>3. \A s \in Sender : s # Anybody /\ air[s].ups = 0
  BY Bounds DEF Init, Fresh
<1>4. Owned
  BY <1>2 DEF Owned
<1>5. ASSUME NEW s \in Sender
      PROVE  Known(s)
  <2>1. FilterOf(s).by # s
    BY <1>2, <1>3 DEF FilterOf
  <2>2. Remembers(s) /\ KnowsLast(s)
    BY <2>1, Zenon DEF Remembers, KnowsLast
  <2>3. UpOnce(s)
    BY <1>3 DEF UpOnce
  <2> QED
    BY <2>2, <2>3 DEF Known
<1> QED
  BY <1>1, <1>4, <1>5 DEF FilterInv

LEMMA FilterIsRight == Spec => []FilterInv
<1>1. Init => FilterInv
  BY InitFilter
<1>2. FilterInv /\ [Next]_vars => FilterInv'
  BY FilterStep
<1> QED
  BY <1>1, <1>2, PTL DEF Spec

\* A station's MSDU goes to the stack at most once, however often its fragments
\* arrive and whatever other stations send, while is_duplicate_packet remembers the
\* station's last frame.
THEOREM UpAtMostOnce == Spec => []AtMostOnce
<1>1. FilterInv => AtMostOnce
  <2> SUFFICES ASSUME FilterInv, NEW s \in Sender, air[s].ups > 1,
                      iw_mode # "monitor", ~air[s].loose
               PROVE  FALSE
    BY DEF AtMostOnce
  <2>1. UpOnce(s) /\ air[s].ups \in Nat
    BY FilterKinds DEF FilterInv, Known, FilterKinded
  <2>2. air[s].ups > 0
    BY <2>1
  <2>3. air[s].ups = 1
    BY <2>1, <2>2, Zenon DEF UpOnce
  <2> QED
    BY <2>3
<1> QED
  BY <1>1, FilterIsRight, PTL

(***************************************************************************)
(* What the filter drops.                                                  *)
(***************************************************************************)
\* The first copy of a frame, none of whose fragments was lost, is not taken for a
\* copy of what the filter knows of its station, unless that has the number of the
\* frame without being of its MSDU.
LEMMA FirstPasses ==
    ASSUME FilterInv, NEW s \in Sender, iw_mode # "monitor", is_duplicate_packet(s),
           ~(air[s].copies > 0), ~air[s].lost
    PROVE  \/ FilterOf(s).by # s /\ iw_mode # "adhoc"
           \/ FilterOf(s).by = s /\ FilterOf(s).msdu + SeqMod <= air[s].msdu
<1> DEFINE e == FilterOf(s)
<1>1. Owned /\ Remembers(s) /\ KnowsLast(s) /\ Kinded /\ FilterKinded
  BY Kinds, FilterKinds DEF FilterInv, Known
<1>2. /\ e.frag \in Int /\ air[s].frag \in Int /\ SeqOf(s) \in Nat
      /\ e.msdu \in Nat /\ air[s].msdu \in Nat
  BY <1>1 DEF Kinded, FilterKinded, SeqNum
<1>3. /\ e.seq = SeqOf(s)
      /\ e.frag = air[s].frag \/ e.frag + 1 # air[s].frag
  BY Zenon DEF is_duplicate_packet
<1>4. CASE e.by = s
  <2>1. e.msdu <= air[s].msdu /\ e.seq = e.msdu % SeqMod
    BY <1>1, <1>4, Zenon DEF Remembers
  <2>2. e.msdu # air[s].msdu
    <3> SUFFICES ASSUME e.msdu = air[s].msdu PROVE FALSE
      OBVIOUS
    <3>1. /\ e.frag <= air[s].frag
          /\ e.frag = air[s].frag => air[s].copies > 0
          /\ e.frag + 1 < air[s].frag => air[s].lost
      BY <1>1, <1>4, Zenon DEF KnowsLast
    <3> HIDE DEF e
    <3> QED
      BY <1>2, <1>3, <3>1
  <2> HIDE DEF e
  <2>3. e.msdu % SeqMod = air[s].msdu % SeqMod /\ e.msdu < air[s].msdu
    BY <1>2, <1>3, <2>1, <2>2 DEF SeqOf
  <2>4. e.msdu + SeqMod <= air[s].msdu
    BY <1>2, <2>3, NumberComesBack
  <2> QED
    BY <1>4, <2>4 DEF e
<1>5. CASE e.by # s /\ iw_mode = "adhoc"
  <2>1. e = filter[s]
    BY <1>5 DEF FilterOf
  <2>2. filter[s].by = Anybody /\ filter[s].seq = -1
    BY <1>1, <1>5, <2>1 DEF Owned
  <2> QED
    BY <1>2, <1>3, <2>1, <2>2
<1> QED
  BY <1>4, <1>5

LEMMA JudgedStep ==
    ASSUME FilterInv, DuplicatesAreCopies, [Next]_vars
    PROVE  DuplicatesAreCopies'
<1>1. CASE last' = last /\ iw_mode' = iw_mode
  BY <1>1 DEF DuplicatesAreCopies
<1>2. ASSUME NEW s \in Sender, RxDuplicate(s), iw_mode' = iw_mode
      PROVE  DuplicatesAreCopies'
  <2> DEFINE c == air[s].copies > 0 \/ air[s].lost
             f == [by |-> s, msdu |-> air[s].msdu]
             g == [by |-> FilterOf(s).by, msdu |-> FilterOf(s).msdu]
  <2>1. /\ last' = [Call("duplicate", 0, "alive") EXCEPT !.copy = c, !.frame = f,
                                                         !.against = g]
        /\ iw_mode # "monitor" /\ is_duplicate_packet(s)
    BY <1>2, Zenon DEF RxDuplicate
  <2>2. last'.copy = c /\ last'.frame = f /\ last'.against = g
    <3> HIDE DEF c, f, g
    <3> QED
      BY <2>1, Calls
  <2>3. \/ c
        \/ FilterOf(s).by # s /\ iw_mode # "adhoc"
        \/ FilterOf(s).by = s /\ FilterOf(s).msdu + SeqMod <= air[s].msdu
    BY <2>1, FirstPasses
  <2>4. f.by = s /\ f.msdu = air[s].msdu /\ g.by = FilterOf(s).by /\ g.msdu = FilterOf(s).msdu
    OBVIOUS
  <2> HIDE DEF c, f, g
  <2> QED
    BY <1>2, <2>2, <2>3, <2>4, Zenon DEF DuplicatesAreCopies
<1>3. ASSUME NEW s \in Sender, ieee80211_rx(s), ~RxDuplicate(s)
      PROVE  DuplicatesAreCopies'
  <2>1. ASSUME NEW ret, NEW fate, last' = Call("other", ret, fate)
        PROVE  last'.what # "duplicate"
    BY <2>1 DEF Call
  <2>2. ASSUME NEW fate, NEW d, last' = [Call("up", 1, fate) EXCEPT !.data = d]
        PROVE  last'.what # "duplicate"
    <3>1. [Call("up", 1, fate) EXCEPT !.data = d].what = "up"
      BY Calls
    <3> QED
      BY <2>2, <3>1
  <2>3. ASSUME \/ RxMonitor(s) \/ RxNoKey(s) \/ RxManagement(s) \/ RxForeign(s)
               \/ RxUndecryptable(s) \/ RxHead(s) \/ RxNoEntry(s) \/ RxMiddle(s)
        PROVE  \E ret, fate : last' = Call("other", ret, fate)
    BY <2>3, Zenon DEF RxMonitor, RxNoKey, RxManagement, RxForeign, RxUndecryptable,
       RxHead, RxNoEntry, RxMiddle
  <2>4. ASSUME RxUnfitHead(s) \/ RxUnfit(s)
        PROVE  \E ret, fate : last' = Call("other", ret, fate)
    BY <2>4, Zenon DEF RxUnfitHead, RxUnfit, Unfit
  <2>5. ASSUME RxWhole(s) \/ RxTail(s)
        PROVE  \/ \E ret, fate : last' = Call("other", ret, fate)
               \/ \E fate, d : last' = [Call("up", 1, fate) EXCEPT !.data = d]
    BY <2>5, Zenon DEF RxWhole, RxTail
  <2>6. last'.what # "duplicate"
    BY <1>3, <2>1, <2>2, <2>3, <2>4, <2>5, Zenon DEF ieee80211_rx
  <2> QED
    BY <2>6 DEF DuplicatesAreCopies
<1>4. CASE StartProtocol /\ UNCHANGED <<iw_mode, last>>
  BY <1>1, <1>4
<1>5. CASE SetKey /\ UNCHANGED <<iw_mode, last>>
  BY <1>1, <1>5
<1>6. CASE UNCHANGED vars
  BY <1>1, <1>6 DEF vars
<1> QED
  BY <1>1, <1>2, <1>3, <1>4, <1>5, <1>6 DEF Next

\* is_duplicate_packet does not look at the Retry bit.  Even so it drops the first copy
\* of a frame only when a fragment before it was lost, when what it remembers is an
\* older MSDU of the station with the same number, or, out of an IBSS, when the device's
\* one entry is of another station that used the number.
THEOREM OnlyCopiesAreDropped == Spec => []DuplicatesAreCopies
<1>1. Init => DuplicatesAreCopies
  BY DEF Init, Call, DuplicatesAreCopies
<1>2. FilterInv /\ DuplicatesAreCopies /\ [Next]_vars => DuplicatesAreCopies'
  BY JudgedStep
<1> QED
  BY <1>1, <1>2, FilterIsRight, PTL DEF Spec
=============================================================================
