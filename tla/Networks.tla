------------------------------ MODULE Networks ------------------------------
(***************************************************************************)
(* The networks the interface has heard of (ieee80211_rx.c: beacons and    *)
(* probe responses; ieee80211_module.c: the pool of entries;               *)
(* ieee80211_wx.c: the report of a scan) and the choice of the one to join *)
(* (ieee80211_softmac_new_net).                                            *)
(*                                                                         *)
(* Beacons come in the receive tasklet, the user's wish and the scan in    *)
(* processes; each of them holds ieee->lock for the whole of its step.  A  *)
(* name is a sequence of letters, <<>> a name that is hidden.  What is     *)
(* read from the traffic map of a beacon is given by a function at the end;*)
(* the signal strength and the time of the next DTIM are left out.         *)
(***************************************************************************)
EXTENDS Integers, Sequences, FiniteSets, SequencesExt

CONSTANTS
    Entry,         \* ieee->networks
    Bssid, Name, Channel,
    NoBssid,       \* 00:00:00:00:00:00
    Heard,         \* the beacons and probe responses on the air
    Mode,          \* iw_mode of the interface, chosen once
    Hidden,        \* the text "<hidden>"
    modulation,    \* ieee->modulation: a set of "CCK" and "OFDM"
    ScanAge,       \* ieee->scan_age
    Wrap,          \* 2^32 (or 2^64), the values of jiffies
    MaxAge         \* bound: older entries are as old as this

\* The rates of an element, as far as they tell B from G.
Rate == {"CCK", "OFDM", "basic OFDM"}

Element == [id : {"SSID"}, ssid : Name \cup {<<>>}] \cup [id : {"DS"}, channel : Channel]
           \cup [id : {"RATES"}, rates : SUBSET Rate]

\* whole: no element is longer than the frame.
ASSUME NetworksAssumption ==
    /\ IsFiniteSet(Entry) /\ Entry # {} /\ Channel # {}
    /\ Name \subseteq Seq(Nat) \ {<<>>} /\ Hidden \notin Name
    /\ NoBssid \notin Bssid
    /\ \A f \in Heard : /\ f.bssid \in Bssid /\ f.cap \in {"BSS", "IBSS"}
                        /\ f.whole \in BOOLEAN /\ f.elements \in Seq(Element)
    /\ Mode \subseteq {"INFRA", "ADHOC"} /\ modulation \subseteq {"CCK", "OFDM"}
    /\ {ScanAge, Wrap, MaxAge} \subseteq Nat
    /\ ScanAge < MaxAge /\ 2 * MaxAge < Wrap

VARIABLES
    iw_mode,
    net,               \* what the entries hold
    age,               \* jiffies - last_scanned, for each entry
    network_list, network_free_list,
    current_network,   \* ieee->current_network
    wap_set, ssid_set, \* the user named the access point, the network
    state,             \* ieee->state
    jiffies

vars == <<iw_mode, net, age, network_list, network_free_list, current_network,
          wap_set, ssid_set, state, jiffies>>

Capability == {"BSS", "IBSS", "none"}
Network == [bssid : Bssid \cup {NoBssid}, ssid : Name \cup {<<>>}, channel : Channel,
            cap : Capability, mode : SUBSET {"B", "G"},
            empty : BOOLEAN]   \* NETWORK_EMPTY_ESSID
Zeroed == [bssid |-> NoBssid, ssid |-> <<>>, channel |-> CHOOSE c \in Channel : TRUE,
           cap |-> "none", mode |-> {}, empty |-> FALSE]

TypeOK ==
    /\ iw_mode \in Mode
    /\ net \in [Entry -> Network] /\ age \in [Entry -> 0 .. MaxAge]
    /\ current_network \in Network
    /\ wap_set \in BOOLEAN /\ ssid_set \in BOOLEAN
    /\ state \in {"NOLINK", "ASSOCIATING", "LINKED"} /\ jiffies \in 0 .. Wrap - 1

\* ieee80211_networks_allocate and ieee80211_networks_initialize; jiffies starts
\* anywhere.
Init ==
    /\ iw_mode \in Mode
    /\ net = [e \in Entry |-> Zeroed] /\ age = [e \in Entry |-> 0]
    /\ network_list = <<>>
    /\ network_free_list = SetToSeq(Entry)
    /\ current_network = Zeroed
    /\ wap_set = FALSE /\ ssid_set = FALSE
    /\ state = "NOLINK" /\ jiffies \in 0 .. Wrap - 1

Listed == ToSet(network_list)
last_scanned(e) == (jiffies - age[e]) % Wrap
\* time_after(last_scanned + scan_age, jiffies)
Fresh(e) == (last_scanned(e) + ScanAge - jiffies) % Wrap \in 1 .. Wrap \div 2

\* Mutant of is_same_network: another name is another network.
is_same_network_named(src, dst) ==
    /\ src.channel = dst.channel /\ src.bssid = dst.bssid /\ src.cap = dst.cap
    /\ src.ssid = dst.ssid

is_same_network(src, dst) ==
    /\ src.channel = dst.channel /\ src.bssid = dst.bssid /\ src.cap = dst.cap
    /\ iw_mode = "ADHOC" => src.ssid = dst.ssid

\* Mutant of update_network: a beacon that hides the name erases it.
update_network_all(dst, src) == src

\* The bssid and the channel are the same already; a hidden name erases none.
update_network(dst, src) == [src EXCEPT !.ssid = IF @ = <<>> THEN dst.ssid ELSE @]

\* strncmp(name, ssid, length of ssid) = 0
Matches(ssid, name) == IsPrefix(ssid, name)

(***************************************************************************)
(* ieee80211_softmac_new_net                                               *)
(***************************************************************************)
Wanted(n) ==
    LET broad == n.ssid # <<>>
        match == Matches(n.ssid, current_network.ssid)
    IN  \/ /\ wap_set /\ n.bssid = current_network.bssid
           /\ \/ ssid_set /\ broad /\ match
              \/ broad /\ ~ssid_set
              \/ ~broad /\ ssid_set
        \/ ~wap_set /\ ssid_set /\ broad /\ match

\* Mutant of Joins: any kind of network.
Joins_any(n) == state = "NOLINK" /\ Wanted(n)

Joins(n) ==
    /\ state = "NOLINK"
    /\ n.cap = (IF iw_mode = "INFRA" THEN "BSS" ELSE "IBSS")
    /\ Wanted(n)

\* The rates that a request lists, CCK before OFDM, all of them basic;
\* in units of 500 kb/s.
Brate == IF "CCK" \in modulation THEN <<2, 4, 11, 22>> ELSE <<>>
Grate == IF "OFDM" \in modulation THEN <<12, 18, 24, 36, 48, 72, 96, 108>> ELSE <<>>

\* The request that joins a network asks for all our rates, whatever the network's.
association_req(n) == [ap |-> n.bssid, ssid |-> n.ssid, rates |-> Brate \o Grate]

\* The name of a hidden network is the user's.
new_net(n) ==
    IF Joins(n)
      THEN /\ current_network' =
                 [n EXCEPT !.ssid = IF @ = <<>> THEN current_network.ssid ELSE @]
           /\ state' = IF iw_mode = "INFRA" THEN "ASSOCIATING" ELSE "LINKED"
      ELSE UNCHANGED <<current_network, state>>

(***************************************************************************)
(* ieee80211_network_init: the elements of a frame, one after the other;   *)
(* the last one of a kind counts, of the names the last that is not        *)
(* hidden.  channel is what is on the stack.  In the 2.4 GHz band there    *)
(* is CCK unless an OFDM rate is a basic one.                              *)
(***************************************************************************)
Places(f, id) == {i \in DOMAIN f.elements : f.elements[i].id = id}
LastOf(I) == CHOOSE i \in I : \A j \in I : j <= i

network_init(f, channel) ==
    LET named == {i \in Places(f, "SSID") : f.elements[i].ssid # <<>>}
        ssid  == IF named = {} THEN <<>> ELSE f.elements[LastOf(named)].ssid
        rates == UNION {f.elements[i].rates : i \in Places(f, "RATES")}
    IN  [bssid |-> f.bssid, ssid |-> ssid, cap |-> f.cap,
         channel |-> IF Places(f, "DS") = {} THEN channel
                     ELSE f.elements[LastOf(Places(f, "DS"))].channel,
         mode |-> (IF rates \ {"CCK"} # {} THEN {"G"} ELSE {})
                  \cup (IF "basic OFDM" \notin rates THEN {"B"} ELSE {}),
         empty |-> ssid = <<>> \/ Places(f, "SSID") # named]

(***************************************************************************)
(* ieee80211_process_probe_response.                                       *)
(***************************************************************************)
\* Mutant of Oldest: the head of the list.
Oldest_head == 1

Oldest ==
    CHOOSE i \in DOMAIN network_list :
        /\ \A j \in DOMAIN network_list :
              last_scanned(network_list[i]) <= last_scanned(network_list[j])
        /\ \A j \in 1 .. i - 1 :
              last_scanned(network_list[j]) > last_scanned(network_list[i])

\* From the free list, or the one heard longest ago.
NewEntry(n) ==
    IF network_free_list = <<>>
      THEN [e |-> network_list[Oldest], free |-> <<>>,
            list |-> Append(RemoveAt(network_list, Oldest), network_list[Oldest])]
      ELSE [e |-> Head(network_free_list), free |-> Tail(network_free_list),
            list |-> Append(network_list, Head(network_free_list))]

Found(n) == {i \in DOMAIN network_list : is_same_network(net[network_list[i]], n)}

\* A probe response says whether it is hidden no more than its entry does.
Hiding(n, beacon, known) == IF beacon THEN n ELSE [n EXCEPT !.empty = known.empty]

\* A station that is linked follows the beacons of its network; another one
\* looks at the network if it is news.
Offer(n, news, followed) ==
    IF state = "LINKED"
      THEN /\ current_network' = IF followed THEN update_network(current_network, n)
                                 ELSE current_network
           /\ UNCHANGED state
      ELSE IF news THEN new_net(n) ELSE UNCHANGED <<current_network, state>>

process_probe_response(frame, beacon) ==
    LET same == is_same_network(current_network, frame)
        n == IF same THEN Hiding(frame, beacon, current_network) ELSE frame
    IN  IF Found(n) = {}
          THEN LET new == NewEntry(n)
               IN  /\ net' = [net EXCEPT ![new.e] = n]
                   /\ age' = [age EXCEPT ![new.e] = 0]
                   /\ network_list' = new.list /\ network_free_list' = new.free
                   /\ Offer(n, TRUE, same /\ beacon)
          ELSE LET e == network_list[CHOOSE i \in Found(n) : \A j \in Found(n) : i <= j]
                   m == Hiding(n, beacon, net[e])
                   news == \/ ~Fresh(e)
                           \/ m.empty /\ m.ssid # <<>> /\ ~Matches(m.ssid, net[e].ssid)
                           \/ m.empty /\ m.ssid = current_network.ssid
               IN  /\ net' = [net EXCEPT ![e] = update_network(@, m)]
                   /\ age' = [age EXCEPT ![e] = 0]
                   /\ UNCHANGED <<network_list, network_free_list>>
                   /\ Offer(m, news, same /\ beacon)

\* A frame that does not parse does nothing.
Beacon ==
    /\ \E f \in Heard, beacon \in BOOLEAN, channel \in Channel :
         LET n == network_init(f, channel)
         IN  f.whole /\ n.mode # {} /\ process_probe_response(n, beacon)
    /\ UNCHANGED <<wap_set, ssid_set, jiffies>>

\* ieee80211_softmac_check_all_nets: the first that is wanted.
check_all_nets ==
    /\ LET first == {i \in DOMAIN network_list :
                        /\ Joins(net[network_list[i]])
                        /\ \A j \in 1 .. i - 1 : ~Joins(net[network_list[j]])}
       IN  \E i \in first : new_net(net[network_list[i]])
    /\ UNCHANGED <<net, age, network_list, network_free_list, wap_set, ssid_set, jiffies>>

(***************************************************************************)
(* The user, after ieee80211_stop_protocol; the scan; the handshake.       *)
(***************************************************************************)
set_essid ==
    /\ \E s \in Name \cup {<<>>} :
         /\ current_network' = [current_network EXCEPT !.ssid = s]
         /\ ssid_set' = (s # <<>>)
    /\ state' = "NOLINK"
    /\ UNCHANGED <<net, age, network_list, network_free_list, wap_set, jiffies>>

set_wap ==
    /\ \E b \in Bssid \cup {NoBssid} :
         /\ current_network' = [current_network EXCEPT !.bssid = b]
         /\ wap_set' = (b # NoBssid)
    /\ state' = "NOLINK"
    /\ UNCHANGED <<net, age, network_list, network_free_list, ssid_set, jiffies>>

\* The scan works move the channel of current_network.
scan_channel ==
    /\ state # "LINKED"
    /\ \E c \in Channel : current_network' = [current_network EXCEPT !.channel = c]
    /\ UNCHANGED <<net, age, network_list, network_free_list, wap_set, ssid_set, 
                   state, jiffies>>

Handshake ==
    /\ \/ state = "ASSOCIATING" /\ state' \in {"LINKED", "NOLINK"}
       \/ state = "LINKED" /\ state' = "NOLINK"
    /\ UNCHANGED <<net, age, network_list, network_free_list, current_network, wap_set,
                   ssid_set, jiffies>>

TimePasses ==
    /\ jiffies' = (jiffies + 1) % Wrap
    /\ age' = [e \in Entry |-> IF e \in Listed /\ age[e] < MaxAge THEN age[e] + 1 ELSE age[e]]
    /\ UNCHANGED <<net, network_list, network_free_list, current_network, wap_set,
                   ssid_set, state>>

Next == /\ \/ Beacon \/ check_all_nets \/ set_essid \/ set_wap \/ scan_channel
           \/ Handshake \/ TimePasses
        /\ UNCHANGED iw_mode

Spec == Init /\ [][Next]_vars

(***************************************************************************)
(* The report of a scan, and arithmetic on what a beacon says.             *)
(***************************************************************************)
\* What rtl818x_translate_scan tells of an entry.
translate_scan(n) ==
    [ap |-> n.bssid, freq |-> n.channel, mode |-> n.cap,
     essid |-> IF n.ssid = <<>> THEN Hidden ELSE n.ssid]

\* ieee80211_wx_get_scan looks at the first entries, as many as the user's
\* buffer has room for, and shows those that are not too old: the report, by the
\* place of the entry.
get_scan(room) ==
    LET shown == {i \in DOMAIN network_list :
                     i <= room /\ (ScanAge = 0 \/ Fresh(network_list[i]))}
    IN  [i \in shown |-> translate_scan(net[network_list[i]])]

\* Mutant of tim_unicast: the offset counts bytes.
tim_unicast_bytes(aid, len, ctl, bit) ==
    LET offset == ctl \div 2
    IN  /\ len >= 4
        /\ aid >= 8 * offset /\ aid <= 8 * (offset + len - 3)
        /\ bit[3 + aid \div 8 - offset][aid % 8]

\* The traffic map of a beacon with DTIM count 0: bit[i][j] is bit j of byte i of
\* an element of len bytes (and, at len, of the byte that follows it); ctl is its
\* third byte.
tim_unicast(aid, len, ctl, bit) ==
    LET offset == (ctl \div 2) * 2
    IN  /\ len >= 4
        /\ aid >= 8 * offset /\ aid <= 8 * (offset + len - 3)
        /\ bit[3 + aid \div 8 - offset][aid % 8]

-----------------------------------------------------------------------------
Same(m, n) == /\ m.bssid = n.bssid /\ m.channel = n.channel /\ m.cap = n.cap
              /\ iw_mode = "ADHOC" => m.ssid = n.ssid

\* The entries are on one list each, and no two of them hold one network,
\* whatever the order in which it was heard hidden, named, by beacons or by
\* probe responses: no report of a scan shows a network twice
\* (ieee80211_process_probe_response, ieee80211_wx_get_scan).
NetworksListedOnce ==
    /\ Listed \cup ToSet(network_free_list) = Entry
    /\ Listed \cap ToSet(network_free_list) = {}
    /\ IsInjective(network_list) /\ IsInjective(network_free_list)
    /\ \A i, j \in DOMAIN network_list :
          i # j => ~Same(net[network_list[i]], net[network_list[j]])
    /\ LET r == get_scan(Len(network_list))
       IN  \A i, j \in DOMAIN r :
             i # j => \/ r[i].ap # r[j].ap \/ r[i].freq # r[j].freq
                      \/ r[i].mode # r[j].mode
                      \/ iw_mode = "ADHOC" /\ r[i].essid # r[j].essid

\* "If there are no more slots, expire the oldest": the entry that is given to
\* another network is one heard longest ago, unless jiffies wrapped since:
\* last_scanned is compared without time_before, and after a wrap the entry that is
\* reused is another one, of which nothing is said.
ExpiresTheOldest ==
    [][\A e \in Listed :
          ~Same(net[e], net'[e]) /\ (\A f \in Entry : age[f] <= jiffies)
              => \A f \in Entry : age[e] >= age[f]]_vars

\* A name that was learned is not lost to a beacon that hides it, in the list
\* and in the network the station is linked with.
LearnedNamesStay ==
    [][/\ \A e \in Listed :
             Same(net[e], net'[e]) /\ net[e].ssid # <<>> => net'[e].ssid # <<>>
       /\ state = "LINKED" /\ state' = "LINKED" /\ current_network.ssid # <<>>
              => current_network'.ssid # <<>>]_vars

\* The network that is joined was heard, is of the kind of the interface, is
\* the access point that the user set if one was set, and has a name that begins
\* the one asked for: its own, or the one asked for when it hides its own
\* (ieee80211_softmac_new_net); that is what the request to associate names.  Not
\* that the names are equal ("chech if essid match"): strncmp stops with the name
\* of the network, so a user who asks for "ab" may get "a", and asks for "a" then.
JoinsWhatMatches ==
    [][state = "NOLINK" /\ state' # "NOLINK" =>
         LET n == current_network'
             request == association_req(n)
         IN  /\ \E e \in Listed' :
                   \/ Same(net'[e], n)
                   \/ net'[e].ssid = <<>> /\ Same(net'[e], [n EXCEPT !.ssid = <<>>])
             /\ n.cap = (IF iw_mode = "INFRA" THEN "BSS" ELSE "IBSS")
             /\ wap_set => request.ap = current_network.bssid
             /\ ssid_set => IsPrefix(request.ssid, current_network.ssid)
             /\ wap_set \/ ssid_set]_vars

\* The bit read is the one of our association id in the partial virtual bitmap
\* (bytes offset .. offset + len - 4 of the whole map), and none when the map
\* leaves our byte out.  The id just behind the last byte (the code has > for >=)
\* reads past the element and is excepted.
\* Only a station that is linked reads the map (ieee80211_network_init).
TrafficMapIsRead ==
    state = "LINKED" =>
    \A len \in 3 .. 6, ctl \in 0 .. 5, aid \in 1 .. 40 :
        LET first == (ctl \div 2) * 2
            bit == [i \in 3 .. len |-> [j \in 0 .. 7 |-> (i - 3 + first) * 8 + j = aid]]
            last == 8 * (first + len - 3)
        IN  aid # last => (tim_unicast(aid, len, ctl, bit) <=> aid \in 8 * first .. last - 1)
=============================================================================
