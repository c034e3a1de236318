------------------------------- MODULE Receive -------------------------------
(***************************************************************************)
(* The receive path of ieee80211_rx.c: ieee80211_rx with the filter of     *)
(* duplicates and the cache of fragments, as the receive tasklet of        *)
(* r8187_core.c calls it.  Stations send MSDUs fragment by fragment: a     *)
(* fragment may reach the driver several times (a lost acknowledgement) or *)
(* never (a lost urb), but a station goes on only after it was             *)
(* acknowledged, and what different stations send interleaves freely.  Its *)
(* sequence numbers come back after SeqMod MSDUs, however fast those were. *)
(*                                                                         *)
(* Addresses other than the transmitter's, headers and payloads are left   *)
(* out; what a decryption returns is a choice.  One unit of time stands    *)
(* for the shorter of the two timeouts, and jiffies may move inside a call.*)
(***************************************************************************)
EXTENDS Integers, Sequences, FiniteSets, FiniteSetsExt, Functions

CONSTANTS
    Sender,       \* stations in range
    Mode,         \* iw_mode of the interface, chosen once
    OpenWep,      \* ieee->open_wep, chosen once
    Shape,        \* what the MSDUs of each station are: see ShapeType
    CACHE_LEN,    \* IEEE80211_FRAG_CACHE_LEN
    FRAG_LIFE,    \* 2 * HZ
    RETRY_TIME,   \* IEEE_PACKET_RETRY_TIME, 5 * HZ
    COPY_TIME,    \* the copies of a fragment arrive within milliseconds
    SeqMod,       \* sequence numbers (4096)
    MaxMsdu,      \* bound: last MSDU of each station
    MaxCopies,    \* bound: transmissions of a fragment of each that arrive
    Starved,      \* bound: stations whose frames may find no memory
    MaxTime,      \* bound: last moment
    KeyTime       \* bound: keys change before it

\* kind: a management frame, data of our BSS, other frames that carry a
\* sequence number (data of another BSS, frames without data).  room: how many
\* of its fragments fit into a buffer of the cache.
ShapeType == [kind : {"mgmt", "data", "other"}, n : 1..3, wep : BOOLEAN,
              eapol : BOOLEAN, room : 0..3]

ASSUME ReceiveAssumption ==
    /\ Mode \subseteq {"adhoc", "infra", "monitor"}
    /\ Shape \in [Sender -> SUBSET ShapeType]
    /\ {CACHE_LEN, RETRY_TIME, SeqMod} \subseteq Nat \ {0}
    /\ {FRAG_LIFE, COPY_TIME, MaxTime, KeyTime} \subseteq Nat
    /\ COPY_TIME < RETRY_TIME
    /\ "anybody" \notin Sender
    /\ {MaxMsdu, MaxCopies} \subseteq [Sender -> Nat] /\ Starved \subseteq Sender
    /\ OpenWep \subseteq BOOLEAN

VARIABLES
    iw_mode, open_wep,
    crypt,          \* the key that the frames select is set
    filter,         \* last_seq_num ... of the device, or of each IBSS station
    frag_cache, frag_next_idx,
    skb,            \* what became of each buffer the cache allocates
    jiffies,
    air,            \* what each station is sending, and what became of it
    last            \* the last call of ieee80211_rx

vars == <<iw_mode, open_wep, crypt, filter, frag_cache, frag_next_idx, skb,
          jiffies, air, last>>

Entry == 0 .. CACHE_LEN - 1
None == CACHE_LEN
Buffer == 0 .. CACHE_LEN + 1
NoSkb == CACHE_LEN + 2
SeqNum == 0 .. SeqMod - 1
Anybody == "anybody"

Piece == [src : Sender, msdu : Nat, frag : 0..2, n : 1..3]
Unused == [skb |-> NoSkb, src |-> Anybody, seq |-> 0, last_frag |-> 0,
           time |-> 0, data |-> <<>>]
Forgotten == [seq |-> -1, frag |-> -1, time |-> 0, by |-> Anybody, msdu |-> 0]

TypeOK ==
    /\ iw_mode \in Mode /\ open_wep \in OpenWep /\ crypt \in BOOLEAN
    /\ filter \in [Sender \cup {Anybody} ->
           [seq : SeqNum \cup {-1}, frag : -1..2, time : 0..MaxTime,
            by : Sender \cup {Anybody}, msdu : Nat]]
    /\ frag_cache \in [Entry ->
           [skb : Buffer \cup {NoSkb}, src : Sender \cup {Anybody}, seq : SeqNum,
            last_frag : 0..2, time : 0..MaxTime, data : Seq(Piece)]]
    /\ frag_next_idx \in Entry
    /\ skb \in [Buffer -> {"free", "cache", "lost"}]
    /\ jiffies \in 0 .. MaxTime
    /\ air \in [Sender -> [msdu : Nat, shape : ShapeType, frag : 0..2,
                           copies : Nat, since : 0..MaxTime,
                           ups : Nat, lost : BOOLEAN, loose : BOOLEAN,
                           met : BOOLEAN]]

\* met: a number of the station came back while an entry of the cache had it.
Fresh(m, sh, met) == [msdu |-> m, shape |-> sh, frag |-> 0, copies |-> 0,
                      since |-> 0, ups |-> 0, lost |-> FALSE, loose |-> FALSE,
                      met |-> met]
NoFrame == [by |-> Anybody, msdu |-> 0]
Call(what, ret, fate) == [what |-> what, ret |-> ret, skb |-> fate, data |-> <<>>,
                          copy |-> TRUE, frame |-> NoFrame, against |-> NoFrame]

\* alloc_ieee80211 clears the device and sets last_seq_num to -1.
Init ==
    /\ iw_mode \in Mode /\ open_wep \in OpenWep /\ crypt = FALSE
    /\ filter = [k \in Sender \cup {Anybody} |-> Forgotten]
    /\ frag_cache = [i \in Entry |-> Unused] /\ frag_next_idx = 0
    /\ skb = [b \in Buffer |-> "free"]
    /\ jiffies = 0
    /\ air \in [Sender -> {Fresh(0, sh, FALSE) : sh \in ShapeType}]
    /\ \A s \in Sender : air[s].shape \in Shape[s]
    /\ last = Call("other", 1, "freed")

(***************************************************************************)
(* The stations.                                                           *)
(***************************************************************************)
SeqOf(s) == air[s].msdu % SeqMod
More(s) == air[s].frag + 1 < air[s].shape.n
Current(s) == [src |-> s, msdu |-> air[s].msdu, frag |-> air[s].frag,
               n |-> air[s].shape.n]

\* The hardware acknowledges a fragment before the driver sees it, so a
\* station goes on also after one the driver never got.
SendsNextFragment(s) ==
    /\ More(s)
    /\ air' = [air EXCEPT ![s].frag = @ + 1, ![s].copies = 0, ![s].since = 0,
                          ![s].lost = @ \/ air[s].copies = 0]

InUse(e) == e.skb # NoSkb
Expired(e, t) == InUse(e) /\ t > e.time + FRAG_LIFE

\* The cache holds a live entry with that number of s.
Waits(s, seq) ==
    \E i \in Entry : /\ InUse(frag_cache[i]) /\ ~Expired(frag_cache[i], jiffies)
                      /\ frag_cache[i].src = s /\ frag_cache[i].seq = seq

\* The station gives up, or is done with, its MSDU.
SendsNextMsdu(s) ==
    LET m == air[s].msdu + 1
    IN  /\ m <= MaxMsdu[s]
        /\ \E sh \in Shape[s] :
              air' = [air EXCEPT ![s] =
                         Fresh(m, sh, air[s].met \/ Waits(s, m % SeqMod))]

TimePasses ==
    /\ jiffies < MaxTime
    /\ jiffies' = jiffies + 1
    /\ UNCHANGED air

\* One more copy of the fragment in the air; since is when the first one came.
Arrived(a) == [a EXCEPT !.copies = @ + 1, !.since = IF a.copies = 0 THEN jiffies ELSE @]

(***************************************************************************)
(* is_duplicate_packet.                                                    *)
(***************************************************************************)
\* Mutant of FilterOf: one entry whatever the mode.
FilterOf_shared(s) == filter[Anybody]

FilterOf(s) == filter[IF iw_mode = "adhoc" THEN s ELSE Anybody]

\* Mutant of is_duplicate_packet: no test for the next fragment.
is_duplicate_seq(s) ==
    FilterOf(s).seq = SeqOf(s) /\ jiffies < FilterOf(s).time + RETRY_TIME

is_duplicate_packet(s) ==
    LET e == FilterOf(s)
    IN  /\ e.seq = SeqOf(s) /\ jiffies < e.time + RETRY_TIME
        /\ e.frag = air[s].frag \/ e.frag + 1 # air[s].frag

\* An IBSS station gets its entry when its first frame arrives, if the kernel
\* has memory for it.
remember_packet(s) ==
    LET e == [seq |-> SeqOf(s), frag |-> air[s].frag, time |-> jiffies, by |-> s,
           msdu |-> air[s].msdu]
    IN  \/ filter' = [filter EXCEPT ![IF iw_mode = "adhoc" THEN s ELSE Anybody] = e]
        \/ iw_mode = "adhoc" /\ filter[s] = Forgotten /\ s \in Starved /\ UNCHANGED filter

Loosened(a) == [a EXCEPT !.loose = @ \/ a.frag > 0 \/ a.copies > 0]

\* Bookkeeping of a frame that passed the filter: up is 1 when it completed an
\* MSDU that went to the stack; loose marks the stations whose last frame the
\* filter may not know any more.
Passed(s, up) ==
    /\ remember_packet(s)
    /\ air' = [t \in Sender |->
          IF t = s THEN [Arrived(air[s]) EXCEPT !.ups = @ + up,
                             !.loose = @ \/ (filter' = filter /\ filter[s] = Forgotten
                                             /\ iw_mode = "adhoc")]
          ELSE IF iw_mode = "adhoc" THEN air[t] ELSE Loosened(air[t])]

(***************************************************************************)
(* The cache of fragments.                                                 *)
(***************************************************************************)
Buffers(c) == {e.skb : e \in {x \in Range(c) : InUse(x)}}

\* Mutant of Find: whichever fragment the entry expects.
Find_any(c, t, s, ks) ==
    LET hits == {i \in Entry : /\ InUse(c[i]) /\ ~Expired(c[i], t)
                               /\ c[i].seq = SeqOf(s) /\ c[i].src = s}
    IN  IF hits = {} THEN None ELSE Min(hits)

\* ieee80211_frag_cache_find: the first entry of the frame that expects one of
\* the fragments ks next; the expired entries it walks over are freed.
Find(c, t, s, ks) ==
    LET hits == {i \in Entry : /\ InUse(c[i]) /\ ~Expired(c[i], t)
                               /\ c[i].seq = SeqOf(s) /\ c[i].src = s
                               /\ c[i].last_frag + 1 \in ks}
    IN  IF hits = {} THEN None ELSE Min(hits)

Swept(c, t, hit) ==
    [i \in Entry |-> IF i < hit /\ Expired(c[i], t) THEN Unused ELSE c[i]]

\* ieee80211_frag_cache_get for the first fragment: the next entry in turn,
\* whatever it holds, with the buffer b and what fits of the fragment in it.
cache_head(s, b, d) ==
    [frag_cache EXCEPT ![frag_next_idx] =
        [skb |-> b, src |-> s, seq |-> SeqOf(s), last_frag |-> 0,
         time |-> jiffies, data |-> d]]

next_idx == (frag_next_idx + 1) % CACHE_LEN

\* ieee80211_frag_cache_get for a later one, found at hit, and what fits of it.
cache_append(s, hit, d) ==
    [Swept(frag_cache, jiffies, hit) EXCEPT
        ![hit].last_frag = air[s].frag, ![hit].data = @ \o d]

\* Mutant of cache_invalidate: the entry stays.
cache_invalidate_none(c, t, s) == Swept(c, t, None)

\* ieee80211_frag_cache_invalidate: forgets an entry without freeing it.
cache_invalidate(c, t, s) ==
    LET hit == Find(c, t, s, 1..3)
        c1  == Swept(c, t, hit)
    IN  IF hit = None THEN c1 ELSE [c1 EXCEPT ![hit] = Unused]

Given(freed, moved, to) ==
    [b \in Buffer |-> IF b \in moved THEN to
                      ELSE IF b \in freed THEN "free" ELSE skb[b]]

(***************************************************************************)
(* ieee80211_rx, one action for each way through it.                       *)
(***************************************************************************)
cacheVars == <<frag_cache, frag_next_idx, skb>>

\* After a buffer was freed twice, used after it was freed, or left in the cache
\* after it went up, nothing is known.
Intact ==
    /\ ~(last.skb = "freed" /\ (last.ret = 0 \/ last.what = "up"))
    /\ \A b \in Buffers(frag_cache) : skb[b] = "cache"

Arrives(s) ==
    /\ Intact
    /\ air[s].copies < MaxCopies[s]
    /\ air[s].copies > 0 => jiffies <= air[s].since + COPY_TIME

\* ieee80211_monitor_rx: the frame goes up as it is.
RxMonitor(s) ==
    /\ Arrives(s) /\ iw_mode = "monitor"
    /\ last' = Call("other", 1, "stack")
    /\ air' = [air EXCEPT ![s] = Arrived(@)]
    /\ UNCHANGED <<jiffies, filter, cacheVars>>

\* An encrypted frame without a key for it, dropped before the filter sees it.
Encrypted(s) == air[s].shape.wep
NoKey(s) == Encrypted(s) /\ ~crypt

RxNoKey(s) ==
    /\ Arrives(s) /\ iw_mode # "monitor" /\ NoKey(s)
    /\ last' = Call("other", 0, "alive")
    /\ air' = [air EXCEPT ![s] = [Arrived(@) EXCEPT !.lost = TRUE]]
    /\ UNCHANGED <<jiffies, filter, cacheVars>>

RxDuplicate(s) ==
    /\ Arrives(s) /\ iw_mode # "monitor" /\ ~NoKey(s) /\ is_duplicate_packet(s)
    /\ last' = [Call("duplicate", 0, "alive") EXCEPT
                    !.copy = air[s].copies > 0 \/ air[s].lost,
                    !.frame = [by |-> s, msdu |-> air[s].msdu],
                    !.against = [by |-> FilterOf(s).by, msdu |-> FilterOf(s).msdu]]
    /\ air' = [air EXCEPT ![s] = [Arrived(@) EXCEPT !.lost = TRUE]]
    /\ UNCHANGED <<jiffies, filter, cacheVars>>

PassesFilter(s) ==
    /\ Arrives(s) /\ iw_mode # "monitor" /\ ~NoKey(s) /\ ~is_duplicate_packet(s)

\* ieee80211_rx_frame_mgmt consumes the frame.
RxManagement(s) ==
    /\ PassesFilter(s) /\ air[s].shape.kind = "mgmt"
    /\ Passed(s, 0)
    /\ last' = Call("other", 1, "freed")
    /\ UNCHANGED <<jiffies, cacheVars>>

RxForeign(s) ==
    /\ PassesFilter(s) /\ air[s].shape.kind = "other"
    /\ Passed(s, 0)
    /\ last' = Call("other", 0, "alive")
    /\ UNCHANGED <<jiffies, cacheVars>>

\* ieee80211_rx_frame_decrypt fails, or TKIP countermeasures are on.
RxUndecryptable(s) ==
    /\ PassesFilter(s) /\ air[s].shape.kind = "data" /\ Encrypted(s)
    /\ Passed(s, 0)
    /\ last' = Call("other", 0, "alive")
    /\ UNCHANGED <<jiffies, cacheVars>>

\* What stops a complete MSDU: ieee80211_rx_frame_decrypt_msdu (the MIC of
\* TKIP), or no encryption although a key is set (EAPOL excepted).
Refusals(s) ==
    IF Encrypted(s) THEN BOOLEAN
    ELSE {crypt /\ ~open_wep /\ ~air[s].shape.eapol}

RxWhole(s) ==
    /\ PassesFilter(s) /\ air[s].shape.kind = "data" /\ air[s].shape.n = 1
    /\ \E refused \in Refusals(s) :
          /\ last' = IF refused THEN Call("other", 0, "alive")
                     ELSE [Call("up", 1, "stack") EXCEPT !.data = <<Current(s)>>]
          /\ Passed(s, IF refused THEN 0 ELSE 1)
    /\ UNCHANGED <<jiffies, cacheVars>>

Fragment(s) == PassesFilter(s) /\ air[s].shape.kind = "data" /\ air[s].shape.n > 1

\* What the cache already holds of the MSDU leaves room for this fragment.
Fits(s) == air[s].frag < air[s].shape.room

\* dev_alloc_skb returns b.
Allocates(b) == skb[b] = "free" /\ \A x \in Buffer : x < b => skb[x] # "free"

RxHead(s) ==
    /\ Fragment(s) /\ air[s].frag = 0 /\ Fits(s)
    /\ \E b \in Buffer :
          /\ Allocates(b)
          /\ frag_cache' = cache_head(s, b, <<Current(s)>>)
          /\ frag_next_idx' = next_idx
          /\ skb' = Given(Buffers(frag_cache) \ Buffers(frag_cache'), {b}, "cache")
    /\ Passed(s, 0)
    /\ last' = Call("other", 1, "freed")
    /\ UNCHANGED jiffies

\* dev_alloc_skb fails, or no entry waits for this fragment.
RxNoEntry(s) ==
    /\ Fragment(s)
    /\ IF air[s].frag = 0 THEN s \in Starved /\ UNCHANGED cacheVars
       ELSE /\ Find(frag_cache, jiffies, s, {air[s].frag}) = None
            /\ frag_cache' = Swept(frag_cache, jiffies, None)
            /\ skb' = Given(Buffers(frag_cache) \ Buffers(frag_cache'), {}, "lost")
            /\ UNCHANGED frag_next_idx
    /\ Passed(s, 0)
    /\ last' = Call("other", 0, "alive")
    /\ UNCHANGED jiffies

RxMiddle(s) ==
    LET hit == Find(frag_cache, jiffies, s, {air[s].frag})
    IN  /\ Fragment(s) /\ air[s].frag > 0 /\ hit # None /\ Fits(s) /\ More(s)
        /\ frag_cache' = cache_append(s, hit, <<Current(s)>>)
        /\ skb' = Given(Buffers(frag_cache) \ Buffers(frag_cache'), {}, "lost")
        /\ Passed(s, 0)
        /\ last' = Call("other", 1, "freed")
        /\ UNCHANGED <<jiffies, frag_next_idx>>

\* The last fragment: the buffer of the entry goes up (the stack frees it some
\* time), or is forgotten when the MSDU is refused, and the entry of the frame that
\* is found then is cleared.  jiffies may move between the two searches, and the
\* entry expire.
RxTail(s) ==
    LET hit  == Find(frag_cache, jiffies, s, {air[s].frag})
        c1   == cache_append(s, hit, <<Current(s)>>)
        left == Find(c1, jiffies', s, 1..3)
    IN  /\ Fragment(s) /\ air[s].frag > 0 /\ hit # None /\ Fits(s) /\ ~More(s)
        /\ jiffies' \in {jiffies, jiffies + 1} \cap (0 .. MaxTime)
        /\ frag_cache' = cache_invalidate(c1, jiffies', s)
        /\ \E refused \in Refusals(s) :
             LET late == Expired(c1[hit], jiffies')
             IN  /\ skb' = [Given(Buffers(frag_cache) \ Buffers(frag_cache'),
                                  IF left = None THEN {} ELSE {c1[left].skb}, "lost")
                              EXCEPT ![c1[hit].skb] = IF refused THEN @ ELSE "free"]
                 /\ last' = IF refused THEN Call("other", 0, "freed")
                            ELSE [Call("up", 1, IF late THEN "freed" ELSE "stack")
                                    EXCEPT !.data = c1[hit].data]
                 /\ Passed(s, IF refused THEN 0 ELSE 1)
        /\ UNCHANGED frag_next_idx

\* "reassembled frame did not fit skb": the frame is dropped, and the entry that is
\* found then is cleared, its buffer lost.
Unfit(s, c1) ==
    LET left == Find(c1, jiffies', s, 1..3)
    IN  /\ frag_cache' = cache_invalidate(c1, jiffies', s)
        /\ skb' = Given(Buffers(frag_cache) \ Buffers(frag_cache'),
                        IF left = None THEN {} ELSE {c1[left].skb}, "lost")
        /\ Passed(s, 0)
        /\ last' = Call("other", 0, "alive")

RxUnfitHead(s) ==
    /\ Fragment(s) /\ air[s].frag = 0 /\ ~Fits(s)
    /\ UNCHANGED jiffies
    /\ \E b \in Buffer : Allocates(b) /\ Unfit(s, cache_head(s, b, <<>>))
    /\ frag_next_idx' = next_idx

RxUnfit(s) ==
    LET hit == Find(frag_cache, jiffies, s, {air[s].frag})
    IN  /\ Fragment(s) /\ air[s].frag > 0 /\ hit # None /\ ~Fits(s)
        /\ jiffies' \in {jiffies, jiffies + 1} \cap (0 .. MaxTime)
        /\ Unfit(s, cache_append(s, hit, <<>>))
        /\ UNCHANGED frag_next_idx

ieee80211_rx(s) ==
    \/ RxMonitor(s) \/ RxNoKey(s) \/ RxDuplicate(s) \/ RxManagement(s)
    \/ RxForeign(s) \/ RxUndecryptable(s) \/ RxWhole(s) \/ RxHead(s)
    \/ RxNoEntry(s) \/ RxMiddle(s) \/ RxTail(s)
    \/ RxUnfitHead(s) \/ RxUnfit(s)

(***************************************************************************)
(* The rest of the system.                                                 *)
(***************************************************************************)
\* ieee80211_start_protocol forgets the last frame; wireless extensions set and
\* clear the key.
StartProtocol ==
    /\ filter' = [filter EXCEPT ![Anybody] = Forgotten]
    /\ air' = IF iw_mode = "adhoc" THEN air ELSE [s \in Sender |-> Loosened(air[s])]
    /\ UNCHANGED <<cacheVars, crypt>>

SetKey ==
    /\ jiffies < KeyTime
    /\ crypt' = ~crypt
    /\ UNCHANGED <<filter, cacheVars>>

Next ==
    \/ \E s \in Sender : ieee80211_rx(s) /\ UNCHANGED <<iw_mode, open_wep, crypt>>
    \/ /\ (\E s \in Sender : SendsNextFragment(s) \/ SendsNextMsdu(s))
       /\ UNCHANGED <<iw_mode, open_wep, crypt, filter, cacheVars, jiffies, last>>
    \/ TimePasses
       /\ UNCHANGED <<iw_mode, open_wep, crypt, filter, cacheVars, last>>
    \/ StartProtocol /\ UNCHANGED <<iw_mode, open_wep, jiffies, last>>
    \/ SetKey /\ UNCHANGED <<iw_mode, open_wep, jiffies, air, last>>

Spec == Init /\ [][Next]_vars

(***************************************************************************)
(* Properties.                                                             *)
(***************************************************************************)
\* No number of a station has come back to an entry left behind.
NobodyMet == \A s \in Sender : ~air[s].met

\* What goes to the stack comes from one station, has one sequence number and is in
\* order; and it is one MSDU and whole, unless a number came back while an entry
\* left behind with it was alive: ieee80211_frag_cache_find takes that one then.
FramesAreWhole ==
    last.what = "up" =>
        /\ \A j, k \in DOMAIN last.data :
              /\ last.data[j].src = last.data[k].src
              /\ last.data[j].msdu % SeqMod = last.data[k].msdu % SeqMod
              /\ j < k => last.data[j].frag < last.data[k].frag
        /\ NobodyMet =>
              /\ Len(last.data) = last.data[1].n
              /\ \A k \in DOMAIN last.data :
                    last.data[k] = [last.data[1] EXCEPT !.frag = k - 1]

\* The driver holds exactly the buffers its cache points to, each from one
\* entry: what was handed to the stack, freed or replaced is no longer there,
\* and the entry that ieee80211_frag_cache_invalidate clears is the one that
\* ieee80211_frag_cache_get extended, unless a number came back to an entry left
\* behind: then it may clear that one.
CacheOwnsItsBuffers ==
    NobodyMet =>
        /\ Buffers(frag_cache) = {b \in Buffer : skb[b] = "cache"}
        /\ \A i, j \in Entry : InUse(frag_cache[i]) /\ frag_cache[i].skb = frag_cache[j].skb
                                   => i = j

\* A station's MSDU goes up at most once, however often its fragments arrive,
\* as long as the filter kept its last frame: in an IBSS unless kmalloc failed,
\* in a BSS until another station's frame passes.
AtMostOnce ==
    \A s \in Sender :
        air[s].ups > 1 => iw_mode = "monitor" \/ air[s].loose

\* is_duplicate_packet, which does not look at the Retry bit, drops the first copy
\* of a frame only when an earlier fragment of it is missing, when it remembers an
\* older MSDU of the station with the same number, or, in a BSS, another station's.
DuplicatesAreCopies ==
    last.what = "duplicate" =>
        \/ last.copy
        \/ last.against.by # last.frame.by /\ iw_mode # "adhoc"
        \/ /\ last.against.by = last.frame.by
           /\ last.against.msdu + SeqMod <= last.frame.msdu

\* "Returning 0 indicates to caller that we have not handled the SKB--so it is
\* still allocated" (the end of ieee80211_rx; the receive tasklet then frees it).
DroppedIsAllocated == last.ret = 0 => last.skb = "alive"
=============================================================================
