-------------------------------- MODULE Crypt --------------------------------
(***************************************************************************)
(* The keys of the interface (ieee80211_crypt.c, the encoding handlers of  *)
(* ieee80211_wx.c and of the WPA ioctl in ieee80211_softmac.c) and what    *)
(* the ciphers keep in them (ieee80211_crypt_tkip.c, _ccmp.c, _wep.c).     *)
(*                                                                         *)
(* One user process at a time sets and removes keys (priv->wx_sem), on     *)
(* live objects and without ieee->lock; ieee80211_xmit encrypts under      *)
(* ieee->lock; the receive tasklet decrypts without it; a timer destroys   *)
(* the objects that were removed.  Of a cipher, only the counters and the  *)
(* cached phase-1 key of TKIP are kept: what is encrypted with one key,    *)
(* counter and phase-1 key is decrypted by whoever uses the same.          *)
(***************************************************************************)
EXTENDS Integers, FiniteSets

CONSTANTS
    WEP_KEYS,     \* slots of ieee->crypt (4)
    Obj,          \* addresses of key objects
    None,         \* NULL
    Alg,          \* ciphers: "WEP", "TKIP", "CCMP"
    Key,          \* key material
    IvMod,        \* 2^16, the values of iv16
    MaxIv32,      \* 2^32 - 1, the last value of iv32
    Byte, PnLen, WepKeyLen   \* 256, CCMP_PN_LEN (6) and wep->key_len (5, 13)

ASSUME CryptAssumption ==
    /\ {WEP_KEYS, IvMod, PnLen} \subseteq Nat \ {0}
    /\ {MaxIv32, WepKeyLen} \subseteq Nat /\ Byte \in Nat /\ Byte > 1
    /\ None \notin Obj /\ None \notin Key
    /\ Alg \subseteq {"WEP", "TKIP", "CCMP"}

VARIABLES
    crypt, tx_keyidx,   \* ieee->crypt, ieee->tx_keyidx
    obj,                \* the objects: struct ieee80211_crypt_data and its priv
    deinit,             \* crypt_deinit_list
    timer,              \* crypt_deinit_timer; old: a frame was being received
                        \* when it was armed, and still is
    lock,               \* ieee->lock is held by ieee80211_xmit
    user, tx, rx,       \* the three processes
    peer                \* iv32 of the peer's last frame with each key

vars == <<crypt, tx_keyidx, obj, deinit, timer, lock, user, tx, rx, peer>>

Slot == 0 .. WEP_KEYS - 1
Iv32 == 0 .. MaxIv32
\* A phase-1 key, by what it was mixed from; NoTtak: *_phase1_done is 0.
Ttak == [key : Key \cup {None}, iv32 : Iv32]
NoTtak == [key |-> None, iv32 |-> 0]

\* st: where the object is; window: it was listed while the timer already ran;
\* torn: its key was set while a frame was using it.
Cleared == [key |-> None, tx_iv32 |-> 0, tx_iv16 |-> 0, tx_ttak |-> NoTtak,
            rx_iv32 |-> 0, rx_ttak |-> NoTtak]
FreeObj == [st |-> "free", alg |-> "none", refcnt |-> 0, window |-> FALSE,
            torn |-> FALSE, priv |-> Cleared]

NoTx == [pc |-> "idle", obj |-> None, frame |-> None]
NoRx == [pc |-> "idle", obj |-> None, frame |-> None, res |-> "none"]
NoUser == [pc |-> "idle", slot |-> 0, alg |-> "none", all |-> FALSE, obj |-> None]

Priv == [key : Key \cup {None}, tx_iv32 : Iv32, tx_iv16 : 0 .. IvMod - 1,
         tx_ttak : Ttak, rx_iv32 : Iv32, rx_ttak : Ttak]

TypeOK ==
    /\ crypt \in [Slot -> Obj \cup {None}] /\ tx_keyidx \in Slot
    /\ obj \in [Obj -> [st : {"free", "live", "unhooked", "listed"},
                        alg : Alg \cup {"none"}, refcnt : 0..2, window : BOOLEAN,
                        torn : BOOLEAN, priv : Priv]]
    /\ deinit \subseteq Obj
    /\ timer \in [on : BOOLEAN, old : BOOLEAN]
    /\ lock \in BOOLEAN
    /\ peer \in [Key -> Iv32]

Init ==
    /\ crypt = [s \in Slot |-> None] /\ tx_keyidx = 0
    /\ obj = [o \in Obj |-> FreeObj]
    /\ deinit = {} /\ timer = [on |-> FALSE, old |-> FALSE]
    /\ lock = FALSE
    /\ user = NoUser /\ tx = NoTx /\ rx = NoRx
    /\ peer = [k \in Key |-> 0]

Receiving == rx.pc # "idle"
UsedBy(p, o) == p.obj = o /\ p.pc \notin {"idle", "read"}
InUse(o) == UsedBy(tx, o) \/ UsedBy(rx, o)
BeingSet(o) == user.obj = o /\ user.pc \in {"clear", "fill"}

\* Memory is intact: no frame uses an object that was destroyed, and
\* ieee80211_encrypt_fragment found a key.
Lost(p) == p.pc \in {"read", "use", "msdu"} /\ p.obj # None /\ obj[p.obj].st = "free"
Intact == ~Lost(rx) /\ ~Lost(tx) /\ tx.pc # "null"

(***************************************************************************)
(* The user: set_encode, set_encode_ext, wpa_set_encryption.               *)
(***************************************************************************)
SetEncode ==
    /\ user.pc = "idle"
    /\ \E s \in Slot, a \in Alg :
         user' = [pc |-> IF crypt[s] = None THEN "alloc"
                         ELSE IF obj[crypt[s]].alg = a THEN "clear" ELSE "unhook",
                  slot |-> s, alg |-> a, all |-> FALSE, obj |-> crypt[s]]
    /\ UNCHANGED <<crypt, tx_keyidx, obj, deinit, timer>>

\* "none", or encoding disabled: one key, or all of them when none is named.
DisableEncode ==
    /\ user.pc = "idle"
    /\ \E s \in Slot, all \in BOOLEAN :
         /\ crypt[s] # None
         /\ all => \A t \in 0 .. s - 1 : crypt[t] = None
         /\ user' = [pc |-> "unhook", slot |-> s, alg |-> "none", all |-> all,
                     obj |-> crypt[s]]
    /\ UNCHANGED <<crypt, tx_keyidx, obj, deinit, timer>>

\* Mutant of Unhook: the pointer is not cleared.
Unhook_kept ==
    /\ user.pc = "unhook"
    /\ obj' = [obj EXCEPT ![user.obj].st = "unhooked"]
    /\ user' = [user EXCEPT !.pc = "list"]
    /\ UNCHANGED <<crypt, tx_keyidx, deinit, timer>>

\* ieee80211_crypt_delayed_deinit: the pointer is cleared before the lock is
\* taken to list the object.
Unhook ==
    /\ user.pc = "unhook"
    /\ crypt' = [crypt EXCEPT ![user.slot] = None]
    /\ obj' = [obj EXCEPT ![user.obj].st = "unhooked"]
    /\ user' = [user EXCEPT !.pc = "list"]
    /\ UNCHANGED <<tx_keyidx, deinit, timer>>

NextKey == {s \in Slot : s > user.slot /\ crypt[s] # None}
AfterList ==
    IF user.alg # "none" THEN [user EXCEPT !.pc = "alloc", !.obj = None]
    ELSE IF user.all /\ NextKey # {}
      THEN LET s == CHOOSE x \in NextKey : \A y \in NextKey : x <= y
           IN  [user EXCEPT !.pc = "unhook", !.slot = s, !.obj = crypt[s]]
      ELSE NoUser

List ==
    /\ user.pc = "list" /\ ~lock
    /\ deinit' = deinit \cup {user.obj}
    /\ obj' = [obj EXCEPT ![user.obj].st = "listed", ![user.obj].window = timer.on]
    /\ timer' = IF timer.on THEN timer ELSE [on |-> TRUE, old |-> Receiving]
    /\ user' = AfterList
    /\ UNCHANGED <<crypt, tx_keyidx>>

\* kmalloc or ops->init may fail; the object is reachable before it has a key.
NewCrypt ==
    /\ user.pc = "alloc"
    /\ \/ /\ user' = NoUser
          /\ UNCHANGED <<crypt, obj>>
       \/ \E o \in Obj :
            /\ obj[o].st = "free"
            /\ crypt' = [crypt EXCEPT ![user.slot] = o]
            /\ obj' = [obj EXCEPT ![o] = [FreeObj EXCEPT !.st = "live", !.alg = user.alg]]
            /\ user' = [user EXCEPT !.pc = "clear", !.obj = o]
    /\ UNCHANGED <<tx_keyidx, deinit, timer>>

\* set_key: memset of the whole object, but for WEP; then the key and its counters.
SetKeyClear ==
    /\ user.pc = "clear"
    /\ obj' = [obj EXCEPT ![user.obj].priv = IF user.alg = "WEP" THEN @ ELSE Cleared,
                          ![user.obj].torn = InUse(user.obj)]
    /\ user' = [user EXCEPT !.pc = "fill"]
    /\ UNCHANGED <<crypt, tx_keyidx, deinit, timer>>

prism2_wep_set_key(p, k) == [p EXCEPT !.key = k]
\* The packet number that is set is read by a replay check that is compiled out.
ccmp_set_key(p, k) == [p EXCEPT !.key = k]
\* The counters of a new TKIP key.
tkip_set_key(p, k) == [p EXCEPT !.key = k, !.tx_iv16 = 1 % IvMod, !.rx_iv32 = peer[k]]
set_key(alg, p, k) ==
    CASE alg = "WEP"  -> prism2_wep_set_key(p, k)
      [] alg = "CCMP" -> ccmp_set_key(p, k)
      [] alg = "TKIP" -> tkip_set_key(p, k)

\* The key becomes the transmit key if the user says so.
SetKeyFill ==
    /\ user.pc = "fill"
    /\ \E k \in Key : obj' = [obj EXCEPT ![user.obj].priv = set_key(user.alg, @, k)]
    /\ tx_keyidx' \in {tx_keyidx, user.slot}
    /\ user' = NoUser
    /\ UNCHANGED <<crypt, deinit, timer>>

\* set_encode without key data, on a key that is there.
SetDefaultKey ==
    /\ user.pc = "idle"
    /\ \E s \in Slot : crypt[s] # None /\ tx_keyidx' = s
    /\ UNCHANGED <<crypt, obj, deinit, timer, user>>

User == /\ Intact
        /\ \/ SetEncode \/ DisableEncode \/ Unhook \/ List \/ NewCrypt
           \/ SetKeyClear \/ SetKeyFill \/ SetDefaultKey
        /\ UNCHANGED <<lock, tx, rx, peer>>

(***************************************************************************)
(* The deletion timer.                                                     *)
(***************************************************************************)
\* Mutant of Destroyed: keys in use go too.
Destroyed_forced == deinit

\* What ieee80211_crypt_deinit_entries destroys.
Destroyed == {o \in deinit : obj[o].refcnt = 0}

\* ieee80211_crypt_deinit_handler.  It runs HZ after it was armed: the frame
\* that was being received then is done.
deinit_handler ==
    /\ Intact
    /\ timer.on /\ ~timer.old /\ ~lock
    /\ deinit' = deinit \ Destroyed
    /\ obj' = [o \in Obj |-> IF o \in Destroyed
                              THEN [FreeObj EXCEPT !.window = obj[o].window /\ o \in {rx.obj, tx.obj}]
                              ELSE obj[o]]
    /\ timer' = [on |-> deinit' # {}, old |-> deinit' # {} /\ Receiving]
    /\ UNCHANGED <<crypt, tx_keyidx, lock, user, tx, rx, peer>>

(***************************************************************************)
(* ieee80211_xmit and ieee80211_encrypt_fragment, with ieee->lock.         *)
(***************************************************************************)
TxDecide ==
    /\ tx.pc = "idle" /\ ~lock /\ crypt[tx_keyidx] # None
    /\ lock' = TRUE
    /\ tx' = [NoTx EXCEPT !.pc = "read"]
    /\ UNCHANGED obj

\* ieee80211_encrypt_fragment reads the pointer again.
TxEnter ==
    LET o == crypt[tx_keyidx]
    IN  /\ tx.pc = "read"
        /\ IF o = None
             THEN tx' = [tx EXCEPT !.pc = "null"] /\ UNCHANGED obj
             ELSE /\ tx' = [tx EXCEPT !.pc = "use", !.obj = o]
                  /\ obj' = [obj EXCEPT ![o].refcnt = @ + 1, ![o].torn = @ \/ BeingSet(o)]
        /\ UNCHANGED lock

\* Mutant of tkip_count: the phase-1 key stays when iv32 moves.
tkip_count_stale(p) ==
    LET iv16 == (p.tx_iv16 + 1) % IvMod
    IN  [p EXCEPT !.tx_iv16 = iv16, !.tx_iv32 = IF iv16 = 0 THEN (@ + 1) % (MaxIv32 + 1) ELSE @]

\* iv16 counts modulo 2^16; when it comes back to 0 the phase-1 key is for the
\* next iv32.
tkip_count(p) ==
    LET iv16 == (p.tx_iv16 + 1) % IvMod
    IN  IF iv16 # 0 THEN [p EXCEPT !.tx_iv16 = iv16]
        ELSE [p EXCEPT !.tx_iv16 = 0, !.tx_ttak = NoTtak, !.tx_iv32 = (@ + 1) % (MaxIv32 + 1)]

\* ieee80211_tkip_encrypt mixes phase 1 when none is cached.
TxUse ==
    LET o == obj[tx.obj]
        p == o.priv
        ttak == IF p.tx_ttak = NoTtak THEN [key |-> p.key, iv32 |-> p.tx_iv32] ELSE p.tx_ttak
    IN  /\ tx.pc = "use"
        /\ IF o.alg = "TKIP" /\ ~o.torn
             THEN /\ tx' = [tx EXCEPT !.pc = "leave",
                              !.frame = [key |-> p.key, ttak |-> ttak, iv32 |-> p.tx_iv32]]
                  /\ obj' = [obj EXCEPT ![tx.obj].priv =
                                tkip_count([p EXCEPT !.tx_ttak = ttak])]
             ELSE tx' = [tx EXCEPT !.pc = "leave"] /\ UNCHANGED obj
        /\ UNCHANGED lock

TxLeave ==
    /\ tx.pc = "leave"
    /\ obj' = [obj EXCEPT ![tx.obj].refcnt = @ - 1]
    /\ lock' = FALSE /\ tx' = NoTx

Tx == /\ Intact
      /\ TxDecide \/ TxEnter \/ TxUse \/ TxLeave
      /\ UNCHANGED <<crypt, tx_keyidx, deinit, timer, user, rx, peer>>

(***************************************************************************)
(* The receive tasklet: ieee80211_rx_frame_decrypt, then                   *)
(* ieee80211_rx_frame_decrypt_msdu.                                        *)
(***************************************************************************)
\* A frame with one of the keys: the peer's next, whose iv32 never goes back,
\* or one that was damaged on the way (key None).
RxRead ==
    /\ rx.pc = "idle"
    /\ \E s \in Slot, k \in Key \cup {None}, i \in Iv32 :
         /\ crypt[s] # None
         /\ k # None => i \in {peer[k], peer[k] + 1}
         /\ peer' = IF k = None THEN peer ELSE [peer EXCEPT ![k] = i]
         /\ rx' = [NoRx EXCEPT !.pc = "read", !.obj = crypt[s],
                               !.frame = [key |-> k, iv32 |-> i]]
    /\ UNCHANGED <<obj, timer>>

RxEnter ==
    LET o == rx.obj
    IN  /\ rx.pc = "read"
        /\ obj' = [obj EXCEPT ![o].refcnt = @ + 1, ![o].torn = @ \/ BeingSet(o)]
        /\ rx' = [rx EXCEPT !.pc = "use"]
        /\ UNCHANGED <<timer, peer>>

\* The cached phase-1 key is used for an iv32 that is rx_iv32.
PhaseOne(p, f) ==
    IF f.iv32 = p.rx_iv32 /\ p.rx_ttak # NoTtak THEN p.rx_ttak
    ELSE [key |-> p.key, iv32 |-> f.iv32]

\* Mutant of icv_error: the cached key is kept although it was replaced.
icv_error_kept(p, f) == p

\* After an ICV error the cached key is not the one for rx_iv32 any more.
icv_error(p, f) == IF f.iv32 = p.rx_iv32 THEN p ELSE [p EXCEPT !.rx_ttak = NoTtak]

\* The ICV, or the MIC of CCMP, is right when the peer used the same keys.  Each
\* gives the object afterwards.  A TKIP or CCMP key that is not set refuses the frame.
prism2_wep_decrypt(p, f) == [good |-> f.key # None /\ f.key = p.key, priv |-> p]
ccmp_decrypt(p, f) == [good |-> p.key # None /\ f.key = p.key, priv |-> p]
tkip_decrypt(p, f) ==
    LET ttak == PhaseOne(p, f)
        mixed == [p EXCEPT !.rx_ttak = ttak]
        good == f.key = p.key /\ ttak = [key |-> f.key, iv32 |-> f.iv32]
    IN  IF p.key = None THEN [good |-> FALSE, priv |-> p]
        ELSE [good |-> good, priv |-> IF good THEN mixed ELSE icv_error(mixed, f)]
decrypt(alg, p, f) ==
    CASE alg = "WEP"  -> prism2_wep_decrypt(p, f)
      [] alg = "CCMP" -> ccmp_decrypt(p, f)
      [] alg = "TKIP" -> tkip_decrypt(p, f)

\* What a key does that was set meanwhile is a data race.
RxUse ==
    LET o == obj[rx.obj]
        f == rx.frame
        d == decrypt(o.alg, o.priv, f)
        ours == f.key # None /\ f.key = o.priv.key
    IN  /\ rx.pc = "use"
        /\ obj' = [obj EXCEPT ![rx.obj].priv = IF o.torn THEN @ ELSE d.priv,
                              ![rx.obj].refcnt = @ - 1]
        /\ \E pc \in IF o.torn THEN {"msdu", "leave"}
                     ELSE IF d.good THEN {"msdu"} ELSE {"leave"} :
              rx' = [rx EXCEPT !.pc = pc,
                        !.res = IF ours /\ ~d.good /\ ~o.torn THEN "failed" ELSE "ok"]
        /\ UNCHANGED <<timer, peer>>

RxDone == /\ rx' = NoRx
          /\ timer' = [timer EXCEPT !.old = FALSE]
          /\ UNCHANGED peer

\* The MIC: only a whole MSDU that passes moves rx_iv32; a fragment, or an MSDU
\* that fails, leaves it.
tkip_verified(p, f) == [p EXCEPT !.rx_iv32 = f.iv32]

RxMsdu ==
    LET o == obj[rx.obj]
    IN  /\ rx.pc = "msdu"
        /\ \/ UNCHANGED obj
           \/ /\ o.alg = "TKIP" /\ ~o.torn
              /\ obj' = [obj EXCEPT ![rx.obj].priv = tkip_verified(@, rx.frame)]
        /\ RxDone

RxLeave ==
    /\ rx.pc = "leave"
    /\ RxDone
    /\ UNCHANGED obj

Rx == /\ Intact
      /\ RxRead \/ RxEnter \/ RxUse \/ RxMsdu \/ RxLeave
      /\ UNCHANGED <<crypt, tx_keyidx, deinit, lock, user, tx>>

Next == User \/ deinit_handler \/ Tx \/ Rx

Spec == Init /\ [][Next]_vars

(***************************************************************************)
(* Counters that are only arithmetic.                                      *)
(***************************************************************************)
\* Mutant of ccmp_next: the carry stops at the byte before the last.
ccmp_next_short(pn) ==
    [i \in 1 .. PnLen |->
        IF i >= PnLen - 1 /\ \A j \in i + 1 .. PnLen : pn[j] = Byte - 1
        THEN (pn[i] + 1) % Byte ELSE pn[i]]

\* ieee80211_ccmp_encrypt adds one to the last byte of tx_pn and carries, the
\* most significant byte first.
ccmp_next(pn) ==
    [i \in 1 .. PnLen |->
        IF \A j \in i + 1 .. PnLen : pn[j] = Byte - 1 THEN (pn[i] + 1) % Byte ELSE pn[i]]

\* Two bytes of wep->iv, and the iv that prism2_wep_encrypt sends after iv.
SecondByte(iv) == (iv \div Byte) % Byte
ThirdByte(iv) == (iv \div (Byte * Byte)) % Byte
Weak(iv) == SecondByte(iv) = Byte - 1 /\ ThirdByte(iv) \in 3 .. WepKeyLen + 2

wep_next(iv) == IF Weak(iv + 1) THEN iv + 1 + Byte ELSE iv + 1

-----------------------------------------------------------------------------
\* Every object is in one place: reachable from one slot, on its way from the
\* slot to the list, on the list of deferred deletions with the timer armed, or
\* destroyed (ieee80211_crypt_delayed_deinit, ieee80211_crypt_deinit_entries).
\* None leaks and none is destroyed twice.
KeysAccounted ==
    /\ \A o \in Obj :
          LET slots == {s \in Slot : crypt[s] = o}
          IN  /\ Cardinality(slots) = IF obj[o].st = "live" THEN 1 ELSE 0
              /\ (o \in deinit) = (obj[o].st = "listed")
              /\ obj[o].st = "unhooked" => user.pc = "list" /\ user.obj = o
    /\ deinit # {} => timer.on

\* "must not run ops->deinit() while there may be pending encrypt or decrypt
\* operations": a key is not destroyed under a frame that counted itself in
\* refcnt, nor within HZ of its removal.  What the code does not exclude: a key
\* that was listed when the timer already ran for another one, under a received
\* frame that has the pointer and has not counted itself (yet, or any more).
KeyOutlivesItsUse ==
    \A p \in {tx, rx} : Lost(p) => p.pc \in {"read", "msdu"} /\ obj[p.obj].window

\* A frame that ieee80211_tkip_encrypt sends was mixed with the key and the iv32
\* it announces, across the wrap of iv16 and of iv32: the peer can decrypt it.  (What is sent
\* with a key that set_key writes meanwhile is a data race, and left out.)
SentFramesDecrypt ==
    tx.frame # None =>
        tx.frame.ttak = [key |-> tx.frame.key, iv32 |-> tx.frame.iv32]

\* A frame of the peer that was encrypted with our key is decrypted, whatever
\* damaged frames and MSDUs that failed their MIC came before and left in the
\* cached phase-1 key (ieee80211_tkip_decrypt).
ReceivedFramesDecrypt ==
    rx.res # "failed"

\* Packet numbers, and their order: the first byte counts most.
PacketNumber == [1 .. PnLen -> 0 .. Byte - 1]
Before(pn, qn) ==
    \E i \in 1 .. PnLen : pn[i] < qn[i] /\ \A j \in 1 .. i - 1 : pn[j] = qn[j]
\* ccmp_next gives the number that comes right after, and begins again after the last.
CcmpCountsUp ==
    \A pn \in PacketNumber :
       LET next == ccmp_next(pn)
       IN  IF \A i \in 1 .. PnLen : pn[i] = Byte - 1
             THEN \A i \in 1 .. PnLen : next[i] = 0
             ELSE /\ Before(pn, next)
                  /\ \A qn \in PacketNumber : Before(pn, qn) => qn = next \/ Before(next, qn)
\* wep_next never stops on an iv of the weak class, also where the step over one
\* changes the class.
WepSkipsWeak == \A iv \in 0 .. Byte * Byte * Byte - 1 : ~Weak(wep_next(iv))

\* A key that is installed can go on, from whatever number its last frame had: no
\* CCMP packet number comes back before all have been used (ieee80211_ccmp_encrypt),
\* and no frame is sent with a weak WEP iv (prism2_wep_encrypt).
CountersGoOn ==
    (\E i \in Slot : crypt[i] # None) => CcmpCountsUp /\ WepSkipsWeak
=============================================================================
