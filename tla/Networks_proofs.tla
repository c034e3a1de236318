-------------------------- MODULE Networks_proofs --------------------------
(***************************************************************************)
(* Proofs about Networks, for every pool of entries, every set of names,   *)
(* beacons and channels, in both modes.                                    *)
(*                                                                         *)
(* The inductive invariant is Inv: the types, the two lists as one         *)
(* partition of the pool (Lists), and Distinct: two listed entries differ  *)
(* in what is_same_network compares.  A beacon changes one entry: one that *)
(* is_same_network found, in nothing that it compares, or a new one, after *)
(* it found none (BeaconStep).  The action properties follow from that and *)
(* from what Oldest and new_net choose.                                    *)
(***************************************************************************)
EXTENDS Networks, SequenceTheorems, FiniteSetTheorems, WellFoundedInduction, TLAPS

(***************************************************************************)
(* Numbers.                                                                *)
(***************************************************************************)
LEMMA LeastNat ==
    ASSUME NEW T, T \subseteq Nat, T # {}
    PROVE  \E x \in T : \A y \in T : x <= y
<1> DEFINE R == {ss \in Nat \X Nat : ss[1] < ss[2]}
<1>1. IsWellFoundedOn(R, Nat)
  BY NatLessThanWellFounded, Zenon DEF OpToRel
<1> HIDE DEF R
<1>2. PICK m \in T : \A y \in T : ~(<<y, m>> \in R)
  BY <1>1, WFMin
<1>3. \A y \in T : ~(y < m)
  BY <1>2 DEF R
<1> QED
  BY <1>2, <1>3

LEMMA LastIsThere ==
    ASSUME NEW k \in Nat, NEW I, I \subseteq 1 .. k, I # {}
    PROVE  LastOf(I) \in I
<1> DEFINE T == {k - i : i \in I}
<1>1. \A i \in I : k - i \in Nat
  OBVIOUS
<1>2. T \subseteq Nat
  BY <1>1
<1>3. T # {}
  OBVIOUS
<1> HIDE DEF T
<1>4. PICK x \in T : \A y \in T : x <= y
  BY <1>2, <1>3, LeastNat
<1>5. PICK i \in I : x = k - i
  BY <1>4 DEF T
<1>6. \A j \in I : k - i <= k - j
  BY <1>4, <1>5 DEF T
<1>7. \A j \in I : j <= i
  BY <1>6
<1> QED
  BY <1>7 DEF LastOf

(***************************************************************************)
(* Sequences without repetitions.                                          *)
(***************************************************************************)
LEMMA AppendNew ==
    ASSUME NEW S, NEW s \in Seq(S), NEW e \in S, IsInjective(s), e \notin ToSet(s)
    PROVE  /\ Append(s, e) \in Seq(S) /\ IsInjective(Append(s, e))
           /\ ToSet(Append(s, e)) = ToSet(s) \cup {e}
<1> DEFINE t == Append(s, e)
<1>1. /\ t \in Seq(S) /\ Len(t) = Len(s) + 1 /\ t[Len(s) + 1] = e
      /\ \A i \in 1 .. Len(s) : t[i] = s[i]
  BY AppendProperties
<1>2. /\ Len(s) \in Nat /\ DOMAIN s = 1 .. Len(s)
      /\ DOMAIN t = 1 .. Len(s) + 1
  BY <1>1, LenProperties
<1>3. \A i \in 1 .. Len(s) : s[i] # e
  BY <1>2 DEF ToSet
<1> HIDE DEF t
<1>4. IsInjective(t)
  BY <1>1, <1>2, <1>3 DEF IsInjective
<1>5. ToSet(t) = ToSet(s) \cup {e}
  <2>1. ToSet(t) \subseteq ToSet(s) \cup {e}
    BY <1>1, <1>2 DEF ToSet
  <2>2. ToSet(s) \subseteq ToSet(t)
    BY <1>1, <1>2 DEF ToSet
  <2>3. e \in ToSet(t)
    <3>1. Len(s) + 1 \in DOMAIN t
      BY <1>2
    <3> QED
      BY <1>1, <3>1 DEF ToSet
  <2> QED
    BY <2>1, <2>2, <2>3
<1> QED
  BY <1>1, <1>4, <1>5 DEF t

LEMMA TailOfList ==
    ASSUME NEW S, NEW s \in Seq(S), s # <<>>, IsInjective(s)
    PROVE  /\ Head(s) \in S /\ Head(s) \in ToSet(s) /\ Tail(s) \in Seq(S)
           /\ IsInjective(Tail(s)) /\ ToSet(Tail(s)) = ToSet(s) \ {Head(s)}
<1> DEFINE t == Tail(s)
<1>1. /\ Head(s) \in S /\ t \in Seq(S) /\ Len(t) = Len(s) - 1
      /\ \A i \in 1 .. Len(t) : t[i] = s[i + 1]
  BY HeadTailProperties
<1>2. /\ Len(s) \in Nat \ {0} /\ DOMAIN s = 1 .. Len(s) /\ DOMAIN t = 1 .. Len(s) - 1
  BY <1>1, LenProperties, EmptySeq
<1>3. Head(s) = s[1]
  BY <1>2
<1> HIDE DEF t
<1>4. IsInjective(t)
  BY <1>1, <1>2, SMTT(40) DEF IsInjective
<1>5. ToSet(t) \subseteq ToSet(s) \ {s[1]}
  BY <1>1, <1>2 DEF ToSet, IsInjective
<1>6. ToSet(s) \ {s[1]} \subseteq ToSet(t)
  <2> SUFFICES ASSUME NEW i \in 1 .. Len(s), s[i] # s[1] PROVE s[i] \in ToSet(t)
    BY <1>2 DEF ToSet
  <2>0. i # 1
    OBVIOUS
  <2>1. i - 1 \in DOMAIN t /\ t[i - 1] = s[i]
    BY <1>1, <1>2, <2>0
  <2> QED
    BY <2>1 DEF ToSet
<1>7. s[1] \in ToSet(s)
  BY <1>2 DEF ToSet
<1> QED
  BY <1>1, <1>3, <1>4, <1>5, <1>6, <1>7 DEF t

LEMMA RemoveAtList ==
    ASSUME NEW S, NEW s \in Seq(S), NEW k \in DOMAIN s, IsInjective(s)
    PROVE  /\ RemoveAt(s, k) \in Seq(S) /\ IsInjective(RemoveAt(s, k))
           /\ ToSet(RemoveAt(s, k)) = ToSet(s) \ {s[k]}
<1> DEFINE a == SubSeq(s, 1, k - 1)  b == SubSeq(s, k + 1, Len(s))  t == a \o b
<1>1. /\ Len(s) \in Nat /\ DOMAIN s = 1 .. Len(s) /\ k \in 1 .. Len(s)
      /\ \A i \in 1 .. Len(s) : s[i] \in S
  BY LenProperties, ElementOfSeq
<1>2. /\ a \in Seq(S) /\ Len(a) = k - 1 /\ \A i \in 1 .. k - 1 : a[i] = s[i]
  <2>1. /\ a \in Seq(S) /\ Len(a) = (IF 1 <= k - 1 THEN k - 1 - 1 + 1 ELSE 0)
        /\ \A i \in 1 .. k - 1 - 1 + 1 : a[i] = s[1 + i - 1]
    BY <1>1, SubSeqProperties
  <2> QED
    BY <1>1, <2>1
<1>3. /\ b \in Seq(S) /\ Len(b) = Len(s) - k /\ \A i \in 1 .. Len(s) - k : b[i] = s[k + i]
  <2>1. /\ b \in Seq(S)
        /\ Len(b) = (IF k + 1 <= Len(s) THEN Len(s) - (k + 1) + 1 ELSE 0)
        /\ \A i \in 1 .. Len(s) - (k + 1) + 1 : b[i] = s[k + 1 + i - 1]
    BY <1>1, SubSeqProperties
  <2> QED
    BY <1>1, <2>1
<1>4. /\ t \in Seq(S) /\ Len(t) = Len(a) + Len(b)
      /\ \A i \in 1 .. Len(a) + Len(b) : t[i] = IF i <= Len(a) THEN a[i] ELSE b[i - Len(a)]
  BY <1>2, <1>3, ConcatProperties
<1>5. DOMAIN t = 1 .. Len(s) - 1
  BY <1>1, <1>2, <1>3, <1>4, LenProperties
<1> HIDE DEF a, b, t
<1>6. \A i \in 1 .. Len(s) - 1 : t[i] = s[IF i < k THEN i ELSE i + 1]
  <2> TAKE i \in 1 .. Len(s) - 1
  <2>1. i \in 1 .. Len(a) + Len(b) /\ Len(a) = k - 1
    BY <1>1, <1>2, <1>3
  <2>2. CASE i < k
    BY <1>1, <1>2, <1>4, <2>1, <2>2
  <2>3. CASE ~(i < k)
    <3>1. t[i] = b[i - (k - 1)] /\ i - (k - 1) \in 1 .. Len(s) - k
      BY <1>1, <1>4, <2>1, <2>3
    <3>2. b[i - (k - 1)] = s[k + (i - (k - 1))] /\ k + (i - (k - 1)) = i + 1
      BY <1>1, <1>3, <3>1
    <3> QED
      BY <2>3, <3>1, <3>2
  <2> QED
    BY <2>2, <2>3
<1>7. IsInjective(t)
  <2> SUFFICES ASSUME NEW i \in 1 .. Len(s) - 1, NEW j \in 1 .. Len(s) - 1, t[i] = t[j]
               PROVE  i = j
    BY <1>5 DEF IsInjective
  <2> DEFINE p(x) == IF x < k THEN x ELSE x + 1
  <2>1. p(i) \in DOMAIN s /\ p(j) \in DOMAIN s
    BY <1>1
  <2>2. s[p(i)] = s[p(j)]
    BY <1>6
  <2>3. p(i) = p(j)
    BY <2>1, <2>2 DEF IsInjective
  <2> QED
    BY <1>1, <2>3
<1>8. ToSet(t) \subseteq ToSet(s) \ {s[k]}
  BY <1>1, <1>5, <1>6 DEF IsInjective, ToSet
<1>9. ToSet(s) \ {s[k]} \subseteq ToSet(t)
  <2> SUFFICES ASSUME NEW i \in 1 .. Len(s), s[i] # s[k] PROVE s[i] \in ToSet(t)
    BY <1>1 DEF ToSet
  <2>1. CASE i < k
    <3>1. i \in DOMAIN t /\ t[i] = s[i]
      BY <1>1, <1>5, <1>6, <2>1
    <3> QED
      BY <3>1 DEF ToSet
  <2>2. CASE i > k
    <3>1. i - 1 \in DOMAIN t /\ t[i - 1] = s[i]
      BY <1>1, <1>5, <1>6, <2>2
    <3> QED
      BY <3>1 DEF ToSet
  <2> QED
    BY <1>1, <2>1, <2>2
<1>10. RemoveAt(s, k) = t
  BY DEF RemoveAt, t, a, b
<1> QED
  BY <1>4, <1>7, <1>8, <1>9, <1>10

\* A finite set written as a sequence: each element once.
LEMMA SetAsSeq ==
    ASSUME NEW S, IsFiniteSet(S)
    PROVE  /\ SetToSeq(S) \in Seq(S) /\ IsInjective(SetToSeq(S))
           /\ ToSet(SetToSeq(S)) = S
<1> DEFINE n == Cardinality(S)  f == SetToSeq(S)
<1>1. n \in Nat /\ ExistsBijection(1 .. n, S)
  BY FS_CardinalityType
<1>2. \E g \in [1 .. n -> S] : IsInjective(g)
  BY <1>1 DEF ExistsBijection, Bijection, Injection
<1>3. f \in [1 .. n -> S] /\ IsInjective(f)
  BY <1>2 DEF SetToSeq
<1>4. f \in Injection(1 .. n, S)
  BY <1>3 DEF Injection
<1>5. IsFiniteSet(1 .. n) /\ Cardinality(1 .. n) = n
  BY <1>1, FS_Interval
<1> HIDE DEF f
<1>6. f \in Surjection(1 .. n, S)
  BY <1>4, <1>5, FS_Injection
<1>7. ToSet(f) = S
  BY <1>3, <1>6 DEF Surjection, ToSet
<1>8. f \in Seq(S)
  BY <1>1, <1>3, SeqDef
<1> QED
  BY <1>3, <1>7, <1>8 DEF f

(***************************************************************************)
(* What a beacon says of a network.                                        *)
(***************************************************************************)
LEMMA ParsedElements ==
    ASSUME NEW f \in Heard, NEW i \in DOMAIN f.elements
    PROVE  /\ f.elements[i].id = "SSID" => f.elements[i].ssid \in Name \cup {<<>>}
           /\ f.elements[i].id = "DS" => f.elements[i].channel \in Channel
<1>1. f.elements[i] \in Element
  BY NetworksAssumption, LenProperties, ElementOfSeq DEF NetworksAssumption
<1> QED
  BY <1>1 DEF Element

LEMMA ParsedNetwork ==
    ASSUME NEW f \in Heard, NEW c \in Channel
    PROVE  network_init(f, c) \in Network
<1> DEFINE named == {i \in Places(f, "SSID") : f.elements[i].ssid # <<>>}
           ds == Places(f, "DS")
<1>1. Len(f.elements) \in Nat /\ DOMAIN f.elements = 1 .. Len(f.elements)
  BY NetworksAssumption, LenProperties DEF NetworksAssumption
<1>2. named \subseteq 1 .. Len(f.elements) /\ ds \subseteq 1 .. Len(f.elements)
  BY <1>1 DEF Places
<1>3. named # {} => f.elements[LastOf(named)].ssid \in Name \cup {<<>>}
  <2>1. named # {} => LastOf(named) \in named
    BY <1>1, <1>2, LastIsThere
  <2> QED
    BY <2>1, ParsedElements DEF Places
<1>4. ds # {} => f.elements[LastOf(ds)].channel \in Channel
  <2>1. ds # {} => LastOf(ds) \in ds
    BY <1>1, <1>2, LastIsThere
  <2> QED
    BY <2>1, ParsedElements DEF Places
<1>5. f.bssid \in Bssid /\ f.cap \in {"BSS", "IBSS"}
  BY NetworksAssumption DEF NetworksAssumption
<1> QED
  BY <1>3, <1>4, <1>5 DEF network_init, Network, Capability

LEMMA ZeroedNetwork == Zeroed \in Network
<1>1. (CHOOSE c \in Channel : TRUE) \in Channel
  BY NetworksAssumption DEF NetworksAssumption
<1> QED
  BY <1>1 DEF Zeroed, Network, Capability

(***************************************************************************)
(* The invariant.                                                          *)
(***************************************************************************)
Lists ==
    /\ network_list \in Seq(Entry) /\ network_free_list \in Seq(Entry)
    /\ IsInjective(network_list) /\ IsInjective(network_free_list)
    /\ Listed \cup ToSet(network_free_list) = Entry
    /\ Listed \cap ToSet(network_free_list) = {}

Distinct == \A e, f \in Listed : e # f => ~Same(net[e], net[f])

Inv == TypeOK /\ Lists /\ Distinct

LEMMA ListedEntries ==
    ASSUME Lists
    PROVE  /\ Len(network_list) \in Nat /\ DOMAIN network_list = 1 .. Len(network_list)
           /\ \A i \in DOMAIN network_list : network_list[i] \in Listed
           /\ \A e \in Listed : \E i \in DOMAIN network_list : network_list[i] = e
           /\ Listed \subseteq Entry
BY LenProperties, ElementOfSeq DEF Lists, Listed, ToSet

LEMMA Clock ==
    ASSUME TypeOK
    PROVE  /\ Wrap \in Nat \ {0} /\ MaxAge \in Nat /\ ScanAge \in Nat /\ jiffies \in Nat
           /\ \A e \in Entry : age[e] \in Nat /\ last_scanned(e) \in Nat
           /\ \A e \in Entry : age[e] <= jiffies => last_scanned(e) = jiffies - age[e]
<1>1. /\ Wrap \in Nat \ {0} /\ MaxAge \in Nat /\ ScanAge \in Nat /\ jiffies \in Nat
      /\ jiffies < Wrap
  BY NetworksAssumption DEF NetworksAssumption, TypeOK
<1>2. \A e \in Entry : age[e] \in Nat
  BY <1>1 DEF TypeOK
<1>3. \A x \in Int : x % Wrap \in Nat
  BY <1>1
<1>4. \A x \in 0 .. Wrap - 1 : x % Wrap = x
  BY <1>1
<1> QED
  BY <1>1, <1>2, <1>3, <1>4 DEF last_scanned

\* The entry that gives way: one of those heard longest ago, as the numbers say.
LEMMA OldestIsThere ==
    ASSUME TypeOK, Lists, network_list # <<>>
    PROVE  /\ Oldest \in DOMAIN network_list
           /\ \A j \in DOMAIN network_list :
                 last_scanned(network_list[Oldest]) <= last_scanned(network_list[j])
<1> DEFINE heard(i) == last_scanned(network_list[i])
           times == {heard(i) : i \in DOMAIN network_list}
<1>1. /\ DOMAIN network_list = 1 .. Len(network_list) /\ Len(network_list) \in Nat \ {0}
      /\ \A i \in DOMAIN network_list : network_list[i] \in Entry
  BY ListedEntries, EmptySeq DEF Lists
<1>2. \A i \in DOMAIN network_list : heard(i) \in Nat
  BY <1>1, Clock
<1> HIDE DEF heard
<1>3. times \subseteq Nat /\ times # {}
  BY <1>1, <1>2
<1>4. PICK v \in times : \A w \in times : v <= w
  BY <1>3, LeastNat
<1> DEFINE first == {i \in DOMAIN network_list : heard(i) = v}
<1>5. first \subseteq Nat /\ first # {}
  BY <1>1, <1>4
<1>6. PICK k \in first : \A j \in first : k <= j
  BY <1>5, LeastNat
<1>7. k \in DOMAIN network_list /\ \A j \in DOMAIN network_list : heard(k) <= heard(j)
  BY <1>4, <1>6
<1>8. \A j \in 1 .. k - 1 : heard(j) > heard(k)
  <2> TAKE j \in 1 .. k - 1
  <2>1. j \in DOMAIN network_list /\ j \notin first /\ k \in Nat
    BY <1>1, <1>6
  <2>2. heard(j) \in Nat /\ heard(k) \in Nat /\ heard(k) <= heard(j) /\ heard(j) # heard(k)
    BY <1>2, <1>6, <1>7, <2>1
  <2> QED
    BY <2>2
<1> USE DEF heard
<1>9. \E i \in DOMAIN network_list :
        /\ \A j \in DOMAIN network_list :
              last_scanned(network_list[i]) <= last_scanned(network_list[j])
        /\ \A j \in 1 .. i - 1 :
              last_scanned(network_list[j]) > last_scanned(network_list[i])
  BY <1>7, <1>8
<1> HIDE DEF heard, times, first
<1> QED
  BY <1>9 DEF Oldest

\* A new entry: where it comes from, and that the lists stay a partition.
LEMMA NewEntryLists ==
    ASSUME TypeOK, Lists, NEW n
    PROVE  LET new == NewEntry(n)
           IN  /\ new.e \in Entry
               /\ new.list \in Seq(Entry) /\ new.free \in Seq(Entry)
               /\ IsInjective(new.list) /\ IsInjective(new.free)
               /\ ToSet(new.list) = Listed \cup {new.e}
               /\ ToSet(new.list) \cup ToSet(new.free) = Entry
               /\ ToSet(new.list) \cap ToSet(new.free) = {}
               /\ \/ new.e \notin Listed
                  \/ /\ Listed = Entry
                     /\ \A f \in Entry : last_scanned(new.e) <= last_scanned(f)
<1> DEFINE new == NewEntry(n)  old == network_list[Oldest]
           rest == RemoveAt(network_list, Oldest)  h == Head(network_free_list)
<1>1. CASE network_free_list = <<>>
  <2>1. ToSet(network_free_list) = {}
    BY <1>1 DEF ToSet
  <2>2. Listed = Entry
    BY <2>1 DEF Lists
  <2>3. network_list # <<>>
    <3>1. Entry # {}
      BY NetworksAssumption DEF NetworksAssumption
    <3> QED
      BY <2>2, <3>1 DEF Listed, ToSet
  <2>4. /\ Oldest \in DOMAIN network_list
        /\ \A j \in DOMAIN network_list :
              last_scanned(old) <= last_scanned(network_list[j])
    BY <2>3, OldestIsThere
  <2>5. old \in Listed
    BY <2>4, ListedEntries
  <2>6. \A f \in Entry : last_scanned(old) <= last_scanned(f)
    BY <2>2, <2>4, ListedEntries
  <2>7. /\ rest \in Seq(Entry) /\ IsInjective(rest) /\ ToSet(rest) = Listed \ {old}
    BY <2>4, RemoveAtList DEF Lists, Listed
  <2>8. /\ Append(rest, old) \in Seq(Entry) /\ IsInjective(Append(rest, old))
        /\ ToSet(Append(rest, old)) = ToSet(rest) \cup {old}
    <3> HIDE DEF rest, old
    <3> QED
      BY <2>2, <2>5, <2>7, AppendNew
  <2>9. /\ new.e = old /\ new.list = Append(rest, old) /\ new.free = network_free_list
    BY <1>1 DEF NewEntry
  <2> HIDE DEF new, old, rest
  <2> QED
    BY <2>1, <2>2, <2>5, <2>6, <2>7, <2>8, <2>9 DEF Lists, new
<1>2. CASE network_free_list # <<>>
  <2>1. /\ h \in Entry /\ h \in ToSet(network_free_list)
        /\ Tail(network_free_list) \in Seq(Entry) /\ IsInjective(Tail(network_free_list))
        /\ ToSet(Tail(network_free_list)) = ToSet(network_free_list) \ {h}
    BY <1>2, TailOfList DEF Lists
  <2>2. h \notin Listed
    BY <2>1 DEF Lists
  <2>3. /\ Append(network_list, h) \in Seq(Entry) /\ IsInjective(Append(network_list, h))
        /\ ToSet(Append(network_list, h)) = Listed \cup {h}
    BY <2>1, <2>2, AppendNew DEF Lists, Listed
  <2>4. /\ new.e = h /\ new.list = Append(network_list, h)
        /\ new.free = Tail(network_free_list)
    BY <1>2 DEF NewEntry
  <2> HIDE DEF new, h
  <2> QED
    BY <2>1, <2>2, <2>3, <2>4 DEF Lists, new
<1> QED
  BY <1>1, <1>2

(***************************************************************************)
(* A beacon changes one entry, Known or Added, and the station may follow. *)
(***************************************************************************)
Known(e, m) ==
    /\ e \in Listed /\ Same(net[e], m)
    /\ net' = [net EXCEPT ![e] = update_network(@, m)]
    /\ UNCHANGED <<network_list, network_free_list>>

Added(e, m) ==
    /\ \A f \in Listed : ~Same(net[f], m)
    /\ net' = [net EXCEPT ![e] = m]
    /\ Lists' /\ Listed' = Listed \cup {e}
    /\ \/ e \notin Listed
       \/ Listed = Entry /\ \A f \in Entry : last_scanned(e) <= last_scanned(f)

Linked(n) ==
    /\ Joins(n)
    /\ current_network' = [n EXCEPT !.ssid = IF @ = <<>> THEN current_network.ssid ELSE @]
    /\ state' = IF iw_mode = "INFRA" THEN "ASSOCIATING" ELSE "LINKED"

Followed(n) ==
    /\ state = "LINKED" /\ state' = state
    /\ current_network' = update_network(current_network, n)

LEMMA SameAsTheCode ==
    ASSUME NEW m \in Network, NEW n \in Network
    PROVE  is_same_network(m, n) <=> Same(m, n)
BY DEF is_same_network, Same

LEMMA HidingKeeps ==
    ASSUME NEW n \in Network, NEW beacon, NEW known \in Network
    PROVE  /\ Hiding(n, beacon, known) \in Network
           /\ \A m \in Network : Same(m, Hiding(n, beacon, known)) <=> Same(m, n)
BY DEF Hiding, Network, Same

LEMMA Offered ==
    ASSUME NEW n, NEW news, NEW followed, Offer(n, news, followed)
    PROVE  Linked(n) \/ Followed(n) \/ UNCHANGED <<current_network, state>>
BY DEF Offer, Linked, Followed, new_net

LEMMA ResponseStep ==
    ASSUME TypeOK, Lists, UNCHANGED iw_mode, NEW frame \in Network, NEW beacon \in BOOLEAN,
           process_probe_response(frame, beacon)
    PROVE  \E e \in Entry, m \in Network :
              /\ Known(e, m) \/ Added(e, m)
              /\ Linked(m) \/ Followed(m) \/ UNCHANGED <<current_network, state>>
              /\ age' = [age EXCEPT ![e] = 0]
<1> DEFINE same == is_same_network(current_network, frame)
           n == IF same THEN Hiding(frame, beacon, current_network) ELSE frame
<1>1. n \in Network
  BY HidingKeeps DEF TypeOK
<1>2. \A i \in DOMAIN network_list :
         /\ network_list[i] \in Listed /\ network_list[i] \in Entry
         /\ net[network_list[i]] \in Network
  BY ListedEntries DEF TypeOK
<1>3. CASE Found(n) = {}
  <2> DEFINE new == NewEntry(n)
  <2>1. /\ net' = [net EXCEPT ![new.e] = n] /\ age' = [age EXCEPT ![new.e] = 0]
        /\ network_list' = new.list /\ network_free_list' = new.free
        /\ Offer(n, TRUE, same /\ beacon)
    BY <1>3 DEF process_probe_response
  <2>2. Linked(n) \/ Followed(n) \/ UNCHANGED <<current_network, state>>
    <3> HIDE DEF n, same
    <3> QED
      BY <2>1, Offered
  <2>3. \A f \in Listed : ~Same(net[f], n)
    <3> HIDE DEF n
    <3> TAKE f \in Listed
    <3>1. PICK i \in DOMAIN network_list : network_list[i] = f
      BY ListedEntries
    <3> QED
      BY <1>1, <1>2, <1>3, <3>1, SameAsTheCode DEF Found
  <2> HIDE DEF n, same
  <2>4. /\ new.e \in Entry /\ Lists' /\ Listed' = Listed \cup {new.e}
        /\ \/ new.e \notin Listed
           \/ Listed = Entry /\ \A f \in Entry : last_scanned(new.e) <= last_scanned(f)
    BY <2>1, NewEntryLists DEF Lists, Listed
  <2>5. Added(new.e, n)
    <3> HIDE DEF new
    <3> QED
      BY <2>1, <2>3, <2>4 DEF Added
  <2> HIDE DEF new
  <2> QED
    BY <1>1, <2>1, <2>2, <2>4, <2>5
<1>4. CASE Found(n) # {}
  <2> DEFINE k == CHOOSE i \in Found(n) : \A j \in Found(n) : i <= j
             e == network_list[k]  m == Hiding(n, beacon, net[e])
             news == \/ ~Fresh(e)
                     \/ m.empty /\ m.ssid # <<>> /\ ~Matches(m.ssid, net[e].ssid)
                     \/ m.empty /\ m.ssid = current_network.ssid
  <2>1. /\ net' = [net EXCEPT ![e] = update_network(@, m)] /\ age' = [age EXCEPT ![e] = 0]
        /\ UNCHANGED <<network_list, network_free_list>>
        /\ Offer(m, news, same /\ beacon)
    BY <1>4 DEF process_probe_response
  <2>2. Linked(m) \/ Followed(m) \/ UNCHANGED <<current_network, state>>
    <3> HIDE DEF m, news, same
    <3> QED
      BY <2>1, Offered
  <2> HIDE DEF n, same, news
  <2>3. Found(n) \subseteq Nat
    BY ListedEntries DEF Found
  <2>4. k \in Found(n)
    <3>1. \E i \in Found(n) : \A j \in Found(n) : i <= j
      BY <1>4, <2>3, LeastNat
    <3> QED
      BY <3>1
  <2> HIDE DEF k
  <2>5. /\ e \in Listed /\ e \in Entry /\ net[e] \in Network
        /\ is_same_network(net[e], n)
    BY <1>2, <2>4 DEF Found
  <2> HIDE DEF e
  <2>6. m \in Network /\ Same(net[e], m)
    BY <1>1, <2>5, HidingKeeps, SameAsTheCode
  <2> HIDE DEF m
  <2>7. Known(e, m)
    BY <2>1, <2>5, <2>6 DEF Known
  <2> QED
    BY <2>1, <2>2, <2>5, <2>6, <2>7
<1> QED
  BY <1>3, <1>4

LEMMA BeaconStep ==
    ASSUME TypeOK, Lists, UNCHANGED iw_mode, Beacon
    PROVE  \E e \in Entry, m \in Network :
              /\ Known(e, m) \/ Added(e, m)
              /\ Linked(m) \/ Followed(m) \/ UNCHANGED <<current_network, state>>
              /\ age' = [age EXCEPT ![e] = 0]
<1>1. PICK f \in Heard, beacon \in BOOLEAN, c \in Channel :
         process_probe_response(network_init(f, c), beacon)
  BY DEF Beacon
<1>2. network_init(f, c) \in Network
  BY ParsedNetwork
<1> HIDE DEF network_init
<1> QED
  BY <1>1, <1>2, ResponseStep

LEMMA ToBeUpdated ==
    ASSUME NEW m \in Network, NEW n \in Network
    PROVE  /\ update_network(m, n) \in Network
           /\ Same(m, n) => Same(m, update_network(m, n))
           /\ Same(m, n) => \A x \in Network : Same(x, update_network(m, n)) <=> Same(x, m)
BY DEF update_network, Network, Same

\* What a beacon does to the entries: one of them changes, in nothing that tells
\* networks apart, or to a network that none of the others is.
LEMMA EntriesStep ==
    ASSUME Inv, UNCHANGED iw_mode, NEW e \in Entry, NEW m \in Network,
           Known(e, m) \/ Added(e, m)
    PROVE  net' \in [Entry -> Network] /\ Lists' /\ Distinct'
<1>1. net \in [Entry -> Network] /\ Lists /\ Distinct /\ Listed \subseteq Entry
  BY ListedEntries DEF Inv, TypeOK
<1>2. CASE Known(e, m)
  <2> DEFINE u == update_network(net[e], m)
  <2>1. u \in Network /\ \A x \in Network : Same(x, u) <=> Same(x, net[e])
    BY <1>1, <1>2, ToBeUpdated DEF Known
  <2>2. net' = [net EXCEPT ![e] = u]
    BY <1>2 DEF Known
  <2> HIDE DEF u
  <2>3. Lists' /\ Listed' = Listed
    BY <1>1, <1>2 DEF Lists, Listed, Known
  <2>4. Distinct'
    <3> SUFFICES ASSUME NEW g \in Listed, NEW f \in Listed, g # f
                 PROVE  ~Same(net[g], net[f])'
      BY <2>3 DEF Distinct
    <3>1. ~Same(net[g], net[f]) /\ ~Same(net[f], net[g])
      BY <1>1 DEF Distinct
    <3>2. Same(net[g], net[f])' <=> Same(net'[g], net'[f])
      BY DEF Same
    <3>3. \A x, y \in Network : Same(x, y) <=> Same(y, x)
      BY DEF Same
    <3>4. g \in Entry /\ f \in Entry /\ net[g] \in Network /\ net[f] \in Network
      BY <1>1
    <3>5. CASE g # e /\ f # e
      BY <1>1, <2>2, <3>1, <3>2, <3>4, <3>5
    <3>6. CASE f = e
      BY <1>1, <2>1, <2>2, <3>1, <3>2, <3>4, <3>6
    <3>7. CASE g = e
      BY <1>1, <2>1, <2>2, <3>1, <3>2, <3>3, <3>4, <3>7
    <3> QED
      BY <3>5, <3>6, <3>7
  <2> QED
    BY <1>1, <2>1, <2>2, <2>3, <2>4
<1>3. CASE Added(e, m)
  <2>1. /\ net' = [net EXCEPT ![e] = m] /\ Lists' /\ Listed' = Listed \cup {e}
        /\ \A f \in Listed : ~Same(net[f], m)
    BY <1>3 DEF Added
  <2>2. Distinct'
    <3> SUFFICES ASSUME NEW g \in Listed', NEW f \in Listed', g # f
                 PROVE  ~Same(net[g], net[f])'
      BY DEF Distinct
    <3>1. Same(net[g], net[f])' <=> Same(net'[g], net'[f])
      BY DEF Same
    <3>2. \A x, y \in Network : Same(x, y) <=> Same(y, x)
      BY DEF Same
    <3>3. CASE g # e /\ f # e
      <4>1. g \in Listed /\ f \in Listed /\ g \in Entry /\ f \in Entry
        BY <1>1, <2>1, <3>3
      <4>2. ~Same(net[g], net[f])
        BY <1>1, <4>1 DEF Distinct
      <4> QED
        BY <1>1, <2>1, <3>1, <3>3, <4>1, <4>2
    <3>4. CASE f = e
      <4>1. g \in Listed /\ g \in Entry /\ g # e
        BY <1>1, <2>1, <3>4
      <4> QED
        BY <1>1, <2>1, <3>1, <3>4, <4>1
    <3>5. CASE g = e
      <4>1. f \in Listed /\ f \in Entry /\ f # e
        BY <1>1, <2>1, <3>5
      <4> QED
        BY <1>1, <2>1, <3>1, <3>2, <3>5, <4>1
    <3> QED
      BY <3>3, <3>4, <3>5
  <2> QED
    BY <1>1, <2>1, <2>2
<1> QED
  BY <1>2, <1>3

LEMMA LinkTypes ==
    ASSUME TypeOK, NEW m \in Network,
           Linked(m) \/ Followed(m) \/ UNCHANGED <<current_network, state>>
    PROVE  current_network' \in Network /\ state' \in {"NOLINK", "ASSOCIATING", "LINKED"}
<1>1. CASE Linked(m)
  BY <1>1 DEF Linked, TypeOK, Network
<1>2. CASE Followed(m)
  BY <1>2, ToBeUpdated DEF Followed, TypeOK
<1>3. CASE UNCHANGED <<current_network, state>>
  BY <1>3 DEF TypeOK
<1> QED
  BY <1>1, <1>2, <1>3

LEMMA CheckAllStep ==
    ASSUME TypeOK, Lists, check_all_nets
    PROVE  \E e \in Listed :
              Linked(net[e]) \/ UNCHANGED <<current_network, state>>
<1>1. PICK i \in DOMAIN network_list : new_net(net[network_list[i]])
  BY DEF check_all_nets
<1> QED
  BY <1>1, ListedEntries DEF new_net, Linked

LEMMA InitInv == Init => Inv
<1> SUFFICES ASSUME Init PROVE Inv
  OBVIOUS
<1>1. Lists
  <2>1. /\ SetToSeq(Entry) \in Seq(Entry) /\ IsInjective(SetToSeq(Entry))
        /\ ToSet(SetToSeq(Entry)) = Entry
    BY SetAsSeq, NetworksAssumption DEF NetworksAssumption
  <2>2. network_list = <<>> /\ network_free_list = SetToSeq(Entry)
    BY DEF Init
  <2>3. <<>> \in Seq(Entry) /\ IsInjective(<<>>) /\ ToSet(<<>>) = {}
    BY DEF IsInjective, ToSet
  <2> QED
    BY <2>1, <2>2, <2>3 DEF Lists, Listed
<1>2. Distinct
  BY DEF Distinct, Listed, Init, ToSet
<1>3. TypeOK
  <2>1. 0 \in 0 .. MaxAge
    BY NetworksAssumption DEF NetworksAssumption
  <2> QED
    BY <2>1, ZeroedNetwork DEF Init, TypeOK
<1> QED
  BY <1>1, <1>2, <1>3 DEF Inv

\* What leaves the entries and the lists alone leaves the partition alone.
LEMMA EntriesAlone ==
    ASSUME Inv, UNCHANGED <<iw_mode, net, network_list, network_free_list>>
    PROVE  Lists' /\ Distinct'
BY DEF Inv, Lists, Distinct, Listed, Same

LEMMA StepInv == Inv /\ [Next]_vars => Inv'
<1> SUFFICES ASSUME Inv, [Next]_vars PROVE Inv'
  OBVIOUS
<1> USE DEF Inv
<1>1. CASE Beacon /\ UNCHANGED iw_mode
  <2>1. PICK e \in Entry, m \in Network :
           /\ Known(e, m) \/ Added(e, m)
           /\ Linked(m) \/ Followed(m) \/ UNCHANGED <<current_network, state>>
           /\ age' = [age EXCEPT ![e] = 0]
    BY <1>1, BeaconStep
  <2>2. net' \in [Entry -> Network] /\ Lists' /\ Distinct'
    BY <1>1, <2>1, EntriesStep
  <2>3. current_network' \in Network /\ state' \in {"NOLINK", "ASSOCIATING", "LINKED"}
    BY <2>1, LinkTypes
  <2>4. UNCHANGED <<iw_mode, wap_set, ssid_set, jiffies>>
    BY <1>1 DEF Beacon
  <2>5. age' \in [Entry -> 0 .. MaxAge]
    BY <2>1, Clock DEF TypeOK
  <2> QED
    BY <2>2, <2>3, <2>4, <2>5 DEF TypeOK
<1>2. CASE check_all_nets /\ UNCHANGED iw_mode
  <2>1. /\ Lists' /\ Distinct'
        /\ UNCHANGED <<iw_mode, net, age, wap_set, ssid_set, jiffies>>
    BY <1>2, EntriesAlone DEF check_all_nets
  <2>2. PICK e \in Listed : Linked(net[e]) \/ UNCHANGED <<current_network, state>>
    BY <1>2, CheckAllStep
  <2>3. net[e] \in Network
    BY ListedEntries DEF TypeOK
  <2>4. current_network' \in Network /\ state' \in {"NOLINK", "ASSOCIATING", "LINKED"}
    BY <2>2, <2>3, LinkTypes
  <2> QED
    BY <2>1, <2>4 DEF TypeOK
<1>3. CASE set_essid /\ UNCHANGED iw_mode
  <2>1. Lists' /\ Distinct'
    BY <1>3, EntriesAlone DEF set_essid
  <2>2. TypeOK'
    BY <1>3 DEF set_essid, TypeOK, Network
  <2> QED
    BY <2>1, <2>2
<1>4. CASE set_wap /\ UNCHANGED iw_mode
  <2>1. Lists' /\ Distinct'
    BY <1>4, EntriesAlone DEF set_wap
  <2>2. TypeOK'
    BY <1>4 DEF set_wap, TypeOK, Network
  <2> QED
    BY <2>1, <2>2
<1>5. CASE scan_channel /\ UNCHANGED iw_mode
  <2>1. Lists' /\ Distinct'
    BY <1>5, EntriesAlone DEF scan_channel
  <2>2. TypeOK'
    BY <1>5 DEF scan_channel, TypeOK, Network
  <2> QED
    BY <2>1, <2>2
<1>6. CASE Handshake /\ UNCHANGED iw_mode
  <2>1. Lists' /\ Distinct'
    BY <1>6, EntriesAlone DEF Handshake
  <2>2. TypeOK'
    BY <1>6 DEF Handshake, TypeOK
  <2> QED
    BY <2>1, <2>2
<1>7. CASE TimePasses /\ UNCHANGED iw_mode
  <2>1. Lists' /\ Distinct'
    BY <1>7, EntriesAlone DEF TimePasses
  <2>2. jiffies' \in 0 .. Wrap - 1
    BY <1>7, Clock DEF TimePasses
  <2>3. age' \in [Entry -> 0 .. MaxAge]
    BY <1>7, Clock DEF TimePasses, TypeOK
  <2> QED
    BY <1>7, <2>1, <2>2, <2>3 DEF TimePasses, TypeOK
<1>8. CASE UNCHANGED vars
  <2>1. Lists' /\ Distinct'
    BY <1>8, EntriesAlone DEF vars
  <2>2. TypeOK'
    BY <1>8 DEF vars, TypeOK
  <2> QED
    BY <2>1, <2>2
<1> QED
  BY <1>1, <1>2, <1>3, <1>4, <1>5, <1>6, <1>7, <1>8 DEF Next

LEMMA Invariant == Spec => []Inv
BY InitInv, StepInv, PTL DEF Spec

\* Entries, the network to join and the clock keep their types, whatever is heard.
THEOREM TypeCorrect == Spec => []TypeOK
<1>1. Inv => TypeOK
  BY DEF Inv
<1> QED
  BY <1>1, Invariant, PTL

(***************************************************************************)
(* The list is a set of networks, and so is the report.                    *)
(***************************************************************************)
LEMMA ShownDiffer ==
    ASSUME NEW m \in Network, NEW n \in Network, ~Same(m, n)
    PROVE  LET a == translate_scan(m)  b == translate_scan(n)
           IN  \/ a.ap # b.ap \/ a.freq # b.freq \/ a.mode # b.mode
               \/ iw_mode = "ADHOC" /\ a.essid # b.essid
<1>1. m.ssid # n.ssid => translate_scan(m).essid # translate_scan(n).essid
  BY NetworksAssumption DEF NetworksAssumption, Network, translate_scan
<1> QED
  BY <1>1 DEF Same, translate_scan

LEMMA InvListed == Inv => NetworksListedOnce
<1> SUFFICES ASSUME Inv PROVE NetworksListedOnce
  OBVIOUS
<1>1. \A i, j \in DOMAIN network_list :
         i # j => ~Same(net[network_list[i]], net[network_list[j]])
  <2> TAKE i, j \in DOMAIN network_list
  <2> HAVE i # j
  <2>1. network_list[i] # network_list[j]
    BY DEF Inv, Lists, IsInjective
  <2> QED
    BY <2>1, ListedEntries DEF Inv, Distinct
<1>2. \A i \in DOMAIN network_list : net[network_list[i]] \in Network
  BY ListedEntries DEF Inv, TypeOK
<1> DEFINE r == get_scan(Len(network_list))
<1>3. /\ DOMAIN r \subseteq DOMAIN network_list
      /\ \A i \in DOMAIN r : r[i] = translate_scan(net[network_list[i]])
  BY DEF get_scan
<1> HIDE DEF r
<1>4. \A i, j \in DOMAIN r :
         i # j => \/ r[i].ap # r[j].ap \/ r[i].freq # r[j].freq \/ r[i].mode # r[j].mode
                  \/ iw_mode = "ADHOC" /\ r[i].essid # r[j].essid
  <2> TAKE i, j \in DOMAIN r
  <2> HAVE i # j
  <2>1. ~Same(net[network_list[i]], net[network_list[j]])
    BY <1>1, <1>3
  <2>2. net[network_list[i]] \in Network /\ net[network_list[j]] \in Network
    BY <1>2, <1>3
  <2> QED
    BY <1>3, <2>1, <2>2, ShownDiffer
<1> QED
  BY <1>1, <1>4 DEF NetworksListedOnce, Inv, Lists, r

\* Every entry is on one of the lists, once, and no two of those in use hold one
\* network, in whatever order it was heard hidden or named: a report shows each once.
THEOREM ListedOnce == Spec => []NetworksListedOnce
BY Invariant, InvListed, PTL

(***************************************************************************)
(* Which entry gives way, and what is kept of it.                          *)
(***************************************************************************)
\* A step that is no beacon leaves the entries and the lists alone.
LEMMA OnlyBeacons ==
    ASSUME [Next]_vars
    PROVE  \/ Beacon /\ UNCHANGED iw_mode
           \/ UNCHANGED <<iw_mode, net, network_list, network_free_list>>
BY DEF Next, vars, check_all_nets, set_essid, set_wap, scan_channel, Handshake, TimePasses

ExpiresOldest ==
    \A e \in Listed :
       ~Same(net[e], net'[e]) /\ (\A f \in Entry : age[f] <= jiffies)
          => \A f \in Entry : age[e] >= age[f]

LEMMA StepExpires == Inv /\ [Next]_vars => ExpiresOldest
<1> SUFFICES ASSUME Inv, [Next]_vars, NEW g \in Listed, ~Same(net[g], net'[g]),
                    \A f \in Entry : age[f] <= jiffies
             PROVE  \A f \in Entry : age[g] >= age[f]
  BY DEF ExpiresOldest
<1>1. \A n : Same(n, n)
  BY DEF Same
<1>2. Beacon /\ UNCHANGED iw_mode
  BY <1>1, OnlyBeacons
<1>3. PICK e \in Entry, m \in Network : Known(e, m) \/ Added(e, m)
  BY <1>2, BeaconStep DEF Inv
<1>4. /\ net \in [Entry -> Network] /\ Listed \subseteq Entry /\ g \in Entry
  BY ListedEntries DEF Inv, TypeOK
<1>5. ~Known(e, m)
  <2> SUFFICES ASSUME Known(e, m) PROVE FALSE
    OBVIOUS
  <2>1. net' = [net EXCEPT ![e] = update_network(net[e], m)] /\ Same(net[e], m)
    BY DEF Known
  <2>2. Same(net[e], update_network(net[e], m))
    BY <1>4, <2>1, ToBeUpdated
  <2> QED
    BY <1>1, <1>4, <2>1, <2>2
<1>6. net' = [net EXCEPT ![e] = m]
  BY <1>3, <1>5 DEF Added
<1>7. g = e
  BY <1>1, <1>4, <1>6
<1>8. \A f \in Entry : last_scanned(g) <= last_scanned(f)
  BY <1>3, <1>5, <1>7 DEF Added
<1>9. \A f \in Entry : last_scanned(f) = jiffies - age[f]
  BY Clock DEF Inv
<1>10. \A f \in Entry : jiffies - age[g] <= jiffies - age[f]
  BY <1>4, <1>8, <1>9
<1>11. jiffies \in Nat /\ \A f \in Entry : age[f] \in Nat
  BY Clock DEF Inv
<1> QED
  BY <1>4, <1>10, <1>11

\* Unless jiffies wrapped since, the entry that is given to another network is
\* one that was heard longest ago, for every number of entries.
THEOREM OldestGivesWay == Spec => ExpiresTheOldest
<1>1. Inv /\ [Next]_vars => [ExpiresOldest]_vars
  BY StepExpires
<1> QED
  BY <1>1, Invariant, PTL DEF Spec, ExpiresTheOldest, ExpiresOldest

KeepsNames ==
    /\ \A e \in Listed :
          Same(net[e], net'[e]) /\ net[e].ssid # <<>> => net'[e].ssid # <<>>
    /\ state = "LINKED" /\ state' = "LINKED" /\ current_network.ssid # <<>>
          => current_network'.ssid # <<>>

LEMMA UpdateKeepsName ==
    ASSUME NEW m \in Network, NEW n \in Network, m.ssid # <<>>
    PROVE  update_network(m, n).ssid # <<>>
BY DEF update_network, Network

LEMMA StepKeepsEntries ==
    ASSUME Inv, [Next]_vars, NEW g \in Listed, Same(net[g], net'[g]), net[g].ssid # <<>>
    PROVE  net'[g].ssid # <<>>
<1>1. CASE Beacon /\ UNCHANGED iw_mode
  <2>1. PICK e \in Entry, m \in Network : Known(e, m) \/ Added(e, m)
    BY <1>1, BeaconStep DEF Inv
  <2>2. net \in [Entry -> Network] /\ g \in Entry
    BY ListedEntries DEF Inv, TypeOK
  <2>3. CASE Known(e, m)
    <3>1. net' = [net EXCEPT ![e] = update_network(net[e], m)]
      BY <2>3 DEF Known
    <3>2. update_network(net[g], m).ssid # <<>>
      BY <2>2, UpdateKeepsName
    <3> QED
      BY <2>2, <3>1, <3>2
  <2>4. CASE Added(e, m)
    <3>1. net' = [net EXCEPT ![e] = m] /\ ~Same(net[g], m)
      BY <2>4 DEF Added
    <3> QED
      BY <2>2, <3>1
  <2> QED
    BY <2>1, <2>3, <2>4
<1> QED
  BY <1>1, OnlyBeacons

LEMMA StepKeepsJoined ==
    ASSUME Inv, [Next]_vars, state = "LINKED", state' = "LINKED",
           current_network.ssid # <<>>
    PROVE  current_network'.ssid # <<>>
<1>1. \A m : ~Linked(m)
  BY DEF Linked, Joins
<1>2. CASE Beacon /\ UNCHANGED iw_mode
  <2>1. PICK m \in Network :
           Linked(m) \/ Followed(m) \/ UNCHANGED <<current_network, state>>
    BY <1>2, BeaconStep DEF Inv
  <2>2. CASE Followed(m)
    <3>1. current_network \in Network
      BY DEF Inv, TypeOK
    <3> QED
      BY <2>2, <3>1, UpdateKeepsName DEF Followed
  <2> QED
    BY <1>1, <2>1, <2>2
<1>3. CASE check_all_nets
  BY <1>1, <1>3, CheckAllStep DEF Inv
<1> QED
  BY <1>2, <1>3 DEF Next, vars, set_essid, set_wap, scan_channel, Handshake, TimePasses

\* A name that was learned stays, in the entries and in the network that the
\* station is linked with, whatever beacon hides it.
THEOREM NamesStay == Spec => LearnedNamesStay
<1>1. Inv /\ [Next]_vars => [KeepsNames]_vars
  BY StepKeepsEntries, StepKeepsJoined DEF KeepsNames
<1> QED
  BY <1>1, Invariant, PTL DEF Spec, LearnedNamesStay, KeepsNames

(***************************************************************************)
(* What is joined.                                                         *)
(***************************************************************************)
Matching ==
    LET n == current_network'
        request == association_req(n)
    IN  /\ \E e \in Listed' :
              \/ Same(net'[e], n)
              \/ net'[e].ssid = <<>> /\ Same(net'[e], [n EXCEPT !.ssid = <<>>])
        /\ n.cap = (IF iw_mode = "INFRA" THEN "BSS" ELSE "IBSS")
        /\ wap_set => request.ap = current_network.bssid
        /\ ssid_set => IsPrefix(request.ssid, current_network.ssid)
        /\ wap_set \/ ssid_set

LEMMA NameIsItsPrefix == \A s \in Name \cup {<<>>} : IsPrefix(s, s)
<1>1. \A s \in Name \cup {<<>>} : Len(s) \in Nat
  BY NetworksAssumption DEF NetworksAssumption
<1> QED
  BY <1>1 DEF IsPrefix

\* m is what the entry e holds now, in all that is compared.
LEMMA LinkedMatches ==
    ASSUME Inv, UNCHANGED iw_mode, NEW m \in Network, Linked(m), NEW e \in Listed',
           net'[e] \in Network, Same(net'[e], m)
    PROVE  Matching
<1> DEFINE n == current_network'
<1>1. /\ m.cap = (IF iw_mode = "INFRA" THEN "BSS" ELSE "IBSS") /\ Wanted(m)
      /\ n = [m EXCEPT !.ssid = IF m.ssid = <<>> THEN current_network.ssid ELSE m.ssid]
  BY DEF Linked, Joins
<1>2. current_network \in Network /\ current_network.ssid \in Name \cup {<<>>}
  BY DEF Inv, TypeOK, Network
<1>3. /\ n.bssid = m.bssid /\ n.channel = m.channel /\ n.cap = m.cap
      /\ n.ssid = (IF m.ssid = <<>> THEN current_network.ssid ELSE m.ssid)
      /\ [n EXCEPT !.ssid = <<>>].ssid = <<>>
      /\ [n EXCEPT !.ssid = <<>>].bssid = m.bssid
      /\ [n EXCEPT !.ssid = <<>>].channel = m.channel
      /\ [n EXCEPT !.ssid = <<>>].cap = m.cap
  BY <1>1 DEF Network
<1> HIDE DEF n
<1>4. \/ Same(net'[e], n)
      \/ net'[e].ssid = <<>> /\ Same(net'[e], [n EXCEPT !.ssid = <<>>])
  BY <1>3 DEF Same
<1>5. /\ wap_set => n.bssid = current_network.bssid
      /\ ssid_set => IsPrefix(n.ssid, current_network.ssid)
      /\ wap_set \/ ssid_set
  BY <1>1, <1>2, <1>3, NameIsItsPrefix DEF Wanted, Matches
<1> QED
  BY <1>1, <1>3, <1>4, <1>5 DEF Matching, association_req, n

LEMMA StepJoins ==
    ASSUME Inv, [Next]_vars, state = "NOLINK", state' # "NOLINK"
    PROVE  Matching
<1>1. \A m : ~Followed(m)
  BY DEF Followed
<1>2. \A n : Same(n, n)
  BY DEF Same
<1>3. CASE Beacon /\ UNCHANGED iw_mode
  <2>1. PICK e \in Entry, m \in Network :
           /\ Known(e, m) \/ Added(e, m)
           /\ Linked(m) \/ Followed(m) \/ UNCHANGED <<current_network, state>>
    BY <1>3, BeaconStep DEF Inv
  <2>2. Linked(m)
    BY <1>1, <2>1
  <2>3. net \in [Entry -> Network] /\ net' \in [Entry -> Network]
    BY <1>3, <2>1, EntriesStep DEF Inv, TypeOK
  <2>4. e \in Listed' /\ Same(net'[e], m)
    <3>1. CASE Known(e, m)
      <4>1. /\ e \in Listed' /\ Same(net[e], m)
            /\ net'[e] = update_network(net[e], m)
        BY <2>3, <3>1 DEF Known, Listed
      <4>2. net[e] \in Network
        BY <2>3
      <4> QED
        BY <4>1, <4>2 DEF Same, update_network, Network
    <3>2. CASE Added(e, m)
      BY <1>2, <2>3, <3>2 DEF Added
    <3> QED
      BY <2>1, <3>1, <3>2
  <2> QED
    BY <1>3, <2>2, <2>3, <2>4, LinkedMatches
<1>4. CASE check_all_nets /\ UNCHANGED iw_mode
  <2>1. PICK e \in Listed : Linked(net[e]) \/ UNCHANGED <<current_network, state>>
    BY <1>4, CheckAllStep DEF Inv
  <2>2. Linked(net[e])
    BY <2>1
  <2>3. e \in Listed' /\ net'[e] = net[e] /\ net[e] \in Network
    BY <1>4, ListedEntries DEF check_all_nets, Listed, Inv, TypeOK
  <2> QED
    BY <1>2, <1>4, <2>2, <2>3, LinkedMatches
<1> QED
  BY <1>3, <1>4 DEF Next, vars, set_essid, set_wap, scan_channel, Handshake, TimePasses

\* What is joined was heard, is of the kind of the interface, is the access point that
\* was asked for, and has a name that begins the one asked for - which is all that the
\* comparison in ieee80211_softmac_new_net gives - for every set of names and of
\* networks on the air.
THEOREM JoinsMatching == Spec => JoinsWhatMatches
<1>1. Inv /\ [Next]_vars => [state = "NOLINK" /\ state' # "NOLINK" => Matching]_vars
  BY StepJoins
<1> QED
  BY <1>1, Invariant, PTL DEF Spec, JoinsWhatMatches, Matching

(***************************************************************************)
(* The traffic map.                                                        *)
(***************************************************************************)
\* The bit that is read is ours, for every length of the element, every offset
\* of the partial map and every association id but the one behind its last byte.
THEOREM OurBitIsRead ==
    ASSUME NEW len \in Nat, len >= 3, NEW ctl \in Nat, NEW aid \in Nat,
           aid # 8 * ((ctl \div 2) * 2 + len - 3)
    PROVE  LET first == (ctl \div 2) * 2
               bit == [i \in 3 .. len |-> [j \in 0 .. 7 |-> (i - 3 + first) * 8 + j = aid]]
               last == 8 * (first + len - 3)
           IN  tim_unicast(aid, len, ctl, bit) <=> aid \in 8 * first .. last - 1
<1> DEFINE first == (ctl \div 2) * 2
           bit == [i \in 3 .. len |-> [j \in 0 .. 7 |-> (i - 3 + first) * 8 + j = aid]]
           last == 8 * (first + len - 3)
           place == 3 + aid \div 8 - first
<1> SUFFICES tim_unicast(aid, len, ctl, bit) <=> aid \in 8 * first .. last - 1
  OBVIOUS
<1>1. first \in Nat /\ last \in Nat /\ aid # last
  OBVIOUS
<1>2. aid \div 8 \in Nat /\ aid % 8 \in 0 .. 7 /\ aid = 8 * (aid \div 8) + (aid % 8)
  OBVIOUS
<1>3. tim_unicast(aid, len, ctl, bit)
         <=> len >= 4 /\ aid >= 8 * first /\ aid <= last /\ bit[place][aid % 8]
  BY DEF tim_unicast
<1> HIDE DEF first
<1>4. CASE aid \in 8 * first .. last - 1
  <2>1. place \in 3 .. len
    BY <1>1, <1>2, <1>4
  <2>2. bit[place][aid % 8] <=> (place - 3 + first) * 8 + (aid % 8) = aid
    BY <1>2, <2>1
  <2>3. bit[place][aid % 8]
    BY <1>1, <1>2, <2>1, <2>2
  <2>4. len >= 4
    BY <1>1, <1>4
  <2> HIDE DEF bit, place
  <2> QED
    BY <1>1, <1>3, <1>4, <2>3, <2>4
<1>5. CASE aid \notin 8 * first .. last - 1
  <2>1. ~(aid >= 8 * first /\ aid <= last)
    BY <1>1, <1>5
  <2> HIDE DEF bit, place
  <2> QED
    BY <1>3, <1>5, <2>1
<1> QED
  BY <1>4, <1>5

LEMMA MapIsRead == TrafficMapIsRead
<1> SUFFICES ASSUME NEW len \in 3 .. 6, NEW ctl \in 0 .. 5, NEW aid \in 1 .. 40,
                    aid # 8 * ((ctl \div 2) * 2 + len - 3)
             PROVE  LET first == (ctl \div 2) * 2
                        bit == [i \in 3 .. len |->
                                  [j \in 0 .. 7 |-> (i - 3 + first) * 8 + j = aid]]
                        last == 8 * (first + len - 3)
                    IN  tim_unicast(aid, len, ctl, bit) <=> aid \in 8 * first .. last - 1
  BY Zenon DEF TrafficMapIsRead
<1>1. len \in Nat /\ len >= 3 /\ ctl \in Nat /\ aid \in Nat
  OBVIOUS
<1> QED
  BY <1>1, OurBitIsRead

\* The same as the property that is checked.
THEOREM TrafficMapRead == Spec => []TrafficMapIsRead
BY MapIsRead, PTL
=============================================================================
