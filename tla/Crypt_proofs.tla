---------------------------- MODULE Crypt_proofs ----------------------------
(***************************************************************************)
(* No key is lost, destroyed twice, or destroyed under a frame, but for    *)
(* the window that the code leaves; and no phase-1 key is used that is not *)
(* for the frame: for every number of slots, keys and counters.            *)
(*                                                                         *)
(* IInv is inductive.  PhaseOneKept (of what is sent) is inductive with    *)
(* it, and PhaseOneCached (of what is received) with both.                 *)
(***************************************************************************)
EXTENDS Crypt, FiniteSetTheorems, WellFoundedInduction, TLAPS

\* The types, those of the three processes included.
Label == {"idle", "unhook", "list", "alloc", "clear", "fill"}
UserType == [pc : Label, slot : Slot, alg : Alg \cup {"none"}, all : BOOLEAN,
             obj : Obj \cup {None}]
UserTypes == user \in UserType
Frame == [key : Key \cup {None}, iv32 : Iv32]
TxFrame == [key : Key \cup {None}, ttak : Ttak, iv32 : Iv32]
TxTypes ==
    tx \in [pc : {"idle", "read", "null", "use", "leave"}, obj : Obj \cup {None},
            frame : TxFrame \cup {None}]
RxTypes ==
    rx \in [pc : {"idle", "read", "use", "msdu", "leave"}, obj : Obj \cup {None},
            frame : Frame \cup {None}, res : {"none", "ok", "failed"}]
ObjType == [st : {"free", "live", "unhooked", "listed"}, alg : Alg \cup {"none"},
            refcnt : Nat, window : BOOLEAN, torn : BOOLEAN, priv : Priv]
ObjTypes == obj \in [Obj -> ObjType]
ListTypes ==
    /\ crypt \in [Slot -> Obj \cup {None}] /\ tx_keyidx \in Slot
    /\ deinit \subseteq Obj /\ timer \in [on : BOOLEAN, old : BOOLEAN]
    /\ lock \in BOOLEAN /\ peer \in [Key -> Iv32]
Types == UserTypes /\ TxTypes /\ RxTypes /\ ObjTypes /\ ListTypes

\* A key hangs in one slot, and it is the live ones that hang in one.
OneSlot == \A s, t \in Slot : crypt[s] # None /\ crypt[s] = crypt[t] => s = t
LiveHang == \A o \in Obj : obj[o].st = "live" <=> \E s \in Slot : crypt[s] = o
ListedListed == \A o \in Obj : o \in deinit <=> obj[o].st = "listed"
OnItsWay ==
    \A o \in Obj : obj[o].st = "unhooked" <=> user.pc = "list" /\ user.obj = o
Armed == deinit # {} => timer.on
Hanging == OneSlot /\ LiveHang /\ ListedListed /\ OnItsWay /\ Armed

\* What the user's process knows where it is.
UserKnows ==
    /\ user.pc = "list" => user.obj # None
    /\ user.pc \in {"unhook", "clear", "fill"} =>
         user.obj # None /\ crypt[user.slot] = user.obj
    /\ user.pc \in {"list", "alloc"} => crypt[user.slot] = None
    /\ user.pc \in {"alloc", "clear", "fill"} => user.alg # "none"

\* refcnt is what it says: the processes between atomic_inc and atomic_dec.
TxCounts(o) == tx.pc \in {"use", "leave"} /\ tx.obj = o
RxCounts(o) == rx.pc = "use" /\ rx.obj = o
Counted ==
    \A o \in Obj :
       obj[o].refcnt = (IF TxCounts(o) THEN 1 ELSE 0) + (IF RxCounts(o) THEN 1 ELSE 0)
CountedLives == \A o \in Obj : TxCounts(o) \/ RxCounts(o) => obj[o].st # "free"
Counting ==
    /\ Counted /\ CountedLives
    /\ tx.pc \in {"use", "leave"} => tx.obj # None
    /\ tx.pc \in {"idle", "read", "null"} => tx.obj = None
    /\ rx.pc # "idle" => rx.obj # None /\ rx.frame \in Frame
    /\ \A o \in Obj : obj[o].st # "free" => obj[o].alg # "none"

\* A key that a received frame has the pointer of, without counting itself, was listed in
\* the window or is safe from the timer until the frame is done.
Reads(o) == rx.pc \in {"read", "use", "msdu"} /\ rx.obj = o
Window ==
    \A o \in Obj : Reads(o) =>
       /\ obj[o].st = "free" => obj[o].window
       /\ obj[o].st = "listed" => obj[o].window \/ timer.old
IInv == Types /\ Hanging /\ UserKnows /\ Counting /\ Window

-----------------------------------------------------------------------------
\* What the ciphers leave in a key is a key.
LEMMA KeyTypes ==
    ASSUME NEW a \in Alg, NEW p \in Priv, NEW k \in Key, peer \in [Key -> Iv32]
    PROVE  set_key(a, p, k) \in Priv
<1>1. prism2_wep_set_key(p, k) \in Priv
  BY DEF prism2_wep_set_key, Priv
<1>2. ccmp_set_key(p, k) \in Priv
  BY DEF ccmp_set_key, Priv
<1>3. tkip_set_key(p, k) \in Priv
  <2>1. 1 % IvMod \in 0 .. IvMod - 1
    BY CryptAssumption DEF CryptAssumption
  <2> QED
    BY <2>1 DEF tkip_set_key, Priv
<1>4. a = "WEP" \/ a = "TKIP" \/ a = "CCMP"
  BY CryptAssumption DEF CryptAssumption
<1> QED
  BY <1>1, <1>2, <1>3, <1>4 DEF set_key

LEMMA DecryptTypes ==
    ASSUME NEW a \in Alg, NEW p \in Priv, NEW f \in Frame
    PROVE  decrypt(a, p, f).priv \in Priv
<1>1. prism2_wep_decrypt(p, f).priv \in Priv
  BY DEF prism2_wep_decrypt
<1>2. ccmp_decrypt(p, f).priv \in Priv
  BY DEF ccmp_decrypt
<1>3. tkip_decrypt(p, f).priv \in Priv
  <2>1. PhaseOne(p, f) \in Ttak
    BY DEF PhaseOne, Priv, Frame, Ttak
  <2>2. [p EXCEPT !.rx_ttak = PhaseOne(p, f)] \in Priv
    BY <2>1 DEF Priv
  <2>3. NoTtak \in Ttak
    BY CryptAssumption DEF CryptAssumption, NoTtak, Ttak, Iv32
  <2>4. \A q \in Priv : icv_error(q, f) \in Priv
    BY <2>3 DEF icv_error, Priv
  <2> QED
    BY <2>2, <2>4 DEF tkip_decrypt
<1>4. a = "WEP" \/ a = "TKIP" \/ a = "CCMP"
  BY CryptAssumption DEF CryptAssumption
<1> QED
  BY <1>1, <1>2, <1>3, <1>4 DEF decrypt

LEMMA CountTypes ==
    ASSUME NEW p \in Priv PROVE tkip_count(p) \in Priv
<1>1. (p.tx_iv16 + 1) % IvMod \in 0 .. IvMod - 1 /\ 0 \in 0 .. IvMod - 1
  BY CryptAssumption DEF CryptAssumption, Priv
<1>2. (p.tx_iv32 + 1) % (MaxIv32 + 1) \in Iv32
  BY CryptAssumption DEF CryptAssumption, Priv, Iv32
<1>3. NoTtak \in Ttak
  BY CryptAssumption DEF CryptAssumption, NoTtak, Ttak, Iv32
<1> QED
  BY <1>1, <1>2, <1>3 DEF tkip_count, Priv

LEMMA FreeTypes == FreeObj \in ObjType /\ Cleared \in Priv
<1>1. NoTtak \in Ttak /\ 0 \in Iv32 /\ 0 \in 0 .. IvMod - 1
  BY CryptAssumption DEF CryptAssumption, NoTtak, Ttak, Iv32
<1>2. Cleared \in Priv
  BY <1>1 DEF Cleared, Priv
<1> QED
  BY <1>2 DEF FreeObj, ObjType

LEMMA IdleTypes ==
    /\ NoUser \in UserType /\ 0 \in Iv32 /\ None \notin Obj /\ None \notin Key
    /\ NoTtak \in Ttak
  BY CryptAssumption DEF CryptAssumption, NoUser, UserType, Label, Slot, Iv32, NoTtak, Ttak

LEMMA LeastNat ==
    ASSUME NEW T, T \subseteq Nat, T # {}
    PROVE  \E x \in T : \A y \in T : x <= y
<1> DEFINE R == {ss \in Nat \X Nat : ss[1] < ss[2]}
<1>1. IsWellFoundedOn(R, Nat)
  BY NatLessThanWellFounded, Zenon DEF OpToRel
<1> HIDE DEF R
<1>2. PICK m \in T : \A y \in T : ~(<<y, m>> \in R)
  BY <1>1, WFMin
<1>3. \A y \in T : ~(y < m)
  BY <1>2 DEF R
<1> QED
  BY <1>2, <1>3

LEMMA LeastNextKey ==
    ASSUME user.slot \in Slot, NextKey # {}
    PROVE  \E x \in NextKey : \A y \in NextKey : x <= y
<1>1. NextKey \subseteq Nat
  BY CryptAssumption DEF CryptAssumption, NextKey, Slot
<1> QED
  BY <1>1, LeastNat

\* What the user's process does after a key is listed: the next one is in its slot.
LEMMA AfterListKnows ==
    ASSUME UserTypes, ListTypes
    PROVE  /\ AfterList \in UserType
           /\ AfterList.pc \in {"idle", "alloc", "unhook"}
           /\ AfterList.pc = "alloc" => AfterList.slot = user.slot /\ AfterList.alg # "none"
           /\ AfterList.pc = "unhook" =>
                AfterList.obj # None /\ crypt[AfterList.slot] = AfterList.obj
<1>1. CASE user.alg # "none"
  BY <1>1 DEF AfterList, UserTypes, UserType, Label
<1>2. CASE user.alg = "none" /\ ~(user.all /\ NextKey # {})
  BY <1>2, IdleTypes DEF AfterList, NoUser
<1>3. CASE user.alg = "none" /\ user.all /\ NextKey # {}
  <2> DEFINE s == CHOOSE x \in NextKey : \A y \in NextKey : x <= y
  <2>1. s \in NextKey
    BY <1>3, LeastNextKey DEF UserTypes, UserType
  <2>2. AfterList = [user EXCEPT !.pc = "unhook", !.slot = s, !.obj = crypt[s]]
    BY <1>3 DEF AfterList
  <2> HIDE DEF s
  <2> QED
    BY <2>1, <2>2 DEF UserTypes, UserType, Label, NextKey, ListTypes
<1> QED
  BY <1>1, <1>2, <1>3

\* A step that writes one key and leaves it where it is.
Writes(u, q) ==
    /\ u \in Obj /\ q \in ObjType /\ obj' = [obj EXCEPT ![u] = q]
    /\ q.st = obj[u].st /\ q.alg = obj[u].alg /\ q.window = obj[u].window

LEMMA WriteStays ==
    ASSUME ObjTypes, NEW u, NEW q, Writes(u, q)
    PROVE  /\ ObjTypes' /\ obj'[u].refcnt = q.refcnt
           /\ \A o \in Obj : /\ obj'[o].st = obj[o].st /\ obj'[o].alg = obj[o].alg
                             /\ obj'[o].window = obj[o].window
           /\ \A o \in Obj \ {u} : obj'[o].refcnt = obj[o].refcnt
  BY DEF Writes, ObjTypes

LEMMA HangingStays ==
    ASSUME Hanging, UNCHANGED <<crypt, deinit, user>>, timer.on => timer'.on,
           \A o \in Obj : obj'[o].st = obj[o].st
    PROVE  Hanging'
  BY DEF Hanging, OneSlot, LiveHang, ListedListed, OnItsWay, Armed
\* The user's process.
LEMMA SetEncodeKeeps ==
    ASSUME IInv, Intact, SetEncode, UNCHANGED <<lock, tx, rx, peer>>
    PROVE  IInv'
<1> USE DEF IInv, Types
<1>1. PICK s \in Slot, a \in Alg :
         user' = [pc |-> IF crypt[s] = None THEN "alloc"
                         ELSE IF obj[crypt[s]].alg = a THEN "clear" ELSE "unhook",
                  slot |-> s, alg |-> a, all |-> FALSE, obj |-> crypt[s]]
  BY DEF SetEncode
<1>2. /\ UNCHANGED <<crypt, tx_keyidx, obj, deinit, timer, lock, tx, rx, peer>>
      /\ user.pc = "idle"
  BY DEF SetEncode
<1>3. UserTypes'
  BY <1>1 DEF UserTypes, UserType, Label, ListTypes
<1>4. TxTypes' /\ RxTypes' /\ ObjTypes' /\ ListTypes'
  BY <1>2 DEF TxTypes, RxTypes, ObjTypes, ListTypes
<1>5. Hanging'
  BY <1>1, <1>2 DEF Hanging, OneSlot, LiveHang, ListedListed, OnItsWay, Armed
<1>6. UserKnows'
  <2>1. a # "none"
    BY CryptAssumption DEF CryptAssumption
  <2> QED
    BY <1>1, <1>2, <2>1 DEF UserKnows
<1>7. Counting' /\ Window'
  BY <1>2 DEF Counting, Counted, CountedLives, TxCounts, RxCounts, Window, Reads
<1> QED
  BY <1>3, <1>4, <1>5, <1>6, <1>7

LEMMA DisableEncodeKeeps ==
    ASSUME IInv, Intact, DisableEncode, UNCHANGED <<lock, tx, rx, peer>>
    PROVE  IInv'
<1> USE DEF IInv, Types
<1>1. /\ UNCHANGED <<crypt, tx_keyidx, obj, deinit, timer, lock, tx, rx, peer>>
      /\ user.pc = "idle"
  BY DEF DisableEncode
<1>2. /\ user' \in UserType /\ user'.pc = "unhook"
      /\ user'.obj # None /\ crypt[user'.slot] = user'.obj
  BY DEF DisableEncode, UserType, Label, ListTypes
<1>3. Types'
  BY <1>1, <1>2 DEF UserTypes, TxTypes, RxTypes, ObjTypes, ListTypes
<1>4. Hanging' /\ UserKnows'
  BY <1>1, <1>2 DEF Hanging, OneSlot, LiveHang, ListedListed, OnItsWay, Armed, UserKnows
<1>5. Counting' /\ Window'
  BY <1>1 DEF Counting, Counted, CountedLives, TxCounts, RxCounts, Window, Reads
<1> QED
  BY <1>3, <1>4, <1>5

LEMMA UnhookKeeps ==
    ASSUME IInv, Intact, Unhook, UNCHANGED <<lock, tx, rx, peer>>
    PROVE  IInv'
<1> USE DEF IInv, Types
<1> DEFINE u == user.obj
<1>1. /\ u \in Obj /\ user.slot \in Slot /\ crypt[user.slot] = u
      /\ obj[u].st = "live" /\ u \notin deinit
  BY DEF Unhook, UserTypes, UserType, ListTypes, Hanging, LiveHang, ListedListed, UserKnows
<1>2. /\ obj' \in [Obj -> ObjType] /\ obj'[u] = [obj[u] EXCEPT !.st = "unhooked"]
      /\ \A o \in Obj \ {u} : obj'[o] = obj[o]
  BY <1>1 DEF Unhook, ObjTypes, ObjType
<1>3. /\ crypt' \in [Slot -> Obj \cup {None}] /\ crypt'[user.slot] = None
      /\ \A s \in Slot \ {user.slot} : crypt'[s] = crypt[s]
  BY <1>1 DEF Unhook, ListTypes
<1>4. /\ UNCHANGED <<tx_keyidx, deinit, timer, lock, tx, rx, peer>>
      /\ user.pc = "unhook" /\ user' = [user EXCEPT !.pc = "list"]
  BY DEF Unhook
<1>5. UserTypes' /\ TxTypes' /\ RxTypes'
  BY <1>4 DEF UserTypes, UserType, Label, TxTypes, RxTypes
<1>6. ObjTypes' /\ ListTypes'
  BY <1>2, <1>3, <1>4 DEF ObjTypes, ListTypes
<1>7. Hanging'
  <2>1. None \notin Obj
    BY IdleTypes
  <2>2. OneSlot' /\ LiveHang'
    BY <1>1, <1>2, <1>3, <2>1 DEF Hanging, OneSlot, LiveHang, ObjType
  <2>3. ListedListed' /\ Armed'
    BY <1>1, <1>2, <1>4 DEF Hanging, ListedListed, Armed, ObjTypes, ObjType
  <2>4. OnItsWay'
    BY <1>1, <1>2, <1>4 DEF Hanging, OnItsWay, ObjTypes, ObjType, UserTypes, UserType
  <2> QED
    BY <2>2, <2>3, <2>4 DEF Hanging
<1>8. UserKnows'
  BY <1>1, <1>3, <1>4, IdleTypes DEF UserKnows, UserTypes, UserType
<1>9. Counting' /\ Window'
  BY <1>1, <1>2, <1>4 DEF Counting, Counted, CountedLives, TxCounts, RxCounts, Window,
     Reads, ObjTypes, ObjType
<1> QED
  BY <1>5, <1>6, <1>7, <1>8, <1>9

LEMMA ListKeeps ==
    ASSUME IInv, Intact, List, UNCHANGED <<lock, tx, rx, peer>>
    PROVE  IInv'
<1> USE DEF IInv, Types
<1> DEFINE u == user.obj
<1>1. /\ u \in Obj /\ u # None /\ crypt[user.slot] = None /\ user \in UserType
      /\ obj[u].st = "unhooked" /\ user.pc = "list"
  BY DEF List, UserTypes, UserType, Hanging, OnItsWay, UserKnows
<1>2. /\ obj' \in [Obj -> ObjType]
      /\ obj'[u].st = "listed" /\ obj'[u].window = timer.on
      /\ obj'[u].refcnt = obj[u].refcnt /\ obj'[u].alg = obj[u].alg
      /\ \A o \in Obj \ {u} : obj'[o] = obj[o]
  <2> DEFINE q == [obj[u] EXCEPT !.st = "listed", !.window = timer.on]
  <2>1. obj[u] \in ObjType /\ timer.on \in BOOLEAN
    BY <1>1 DEF ObjTypes, ListTypes
  <2>2. /\ q \in ObjType /\ q.st = "listed" /\ q.window = timer.on
        /\ q.refcnt = obj[u].refcnt /\ q.alg = obj[u].alg
    BY <2>1 DEF ObjType
  <2>3. obj' = [obj EXCEPT ![u] = q]
    BY <1>1, <2>1 DEF List, ObjTypes, ObjType
  <2> HIDE DEF q
  <2> QED
    BY <1>1, <2>2, <2>3 DEF ObjTypes
<1>3. /\ UNCHANGED <<crypt, tx_keyidx, lock, tx, rx, peer>>
      /\ deinit' = deinit \cup {u} /\ user' = AfterList
  BY DEF List
<1>4. /\ timer'.on
      /\ timer.on => timer' = timer
      /\ ~timer.on => timer'.old = Receiving
      /\ timer' \in [on : BOOLEAN, old : BOOLEAN]
  BY DEF List, ListTypes, Receiving
<1>5. /\ user' \in UserType /\ user'.pc \in {"idle", "alloc", "unhook"}
      /\ user'.pc = "alloc" => user'.slot = user.slot /\ user'.alg # "none"
      /\ user'.pc = "unhook" => user'.obj # None /\ crypt[user'.slot] = user'.obj
  BY <1>3, AfterListKnows
<1>6. UserTypes' /\ TxTypes' /\ RxTypes'
  BY <1>3, <1>5 DEF UserTypes, TxTypes, RxTypes
<1>7. ObjTypes' /\ ListTypes'
  BY <1>1, <1>2, <1>3, <1>4 DEF ObjTypes, ListTypes
<1>8. Hanging'
  <2>1. OneSlot' /\ LiveHang'
    BY <1>1, <1>2, <1>3 DEF Hanging, OneSlot, LiveHang
  <2>2. ListedListed' /\ Armed'
    BY <1>1, <1>2, <1>3, <1>4 DEF Hanging, ListedListed, Armed
  <2>3. OnItsWay'
    BY <1>1, <1>2, <1>5 DEF Hanging, OnItsWay
  <2> QED
    BY <2>1, <2>2, <2>3 DEF Hanging
<1>9. UserKnows'
  BY <1>1, <1>3, <1>5 DEF UserKnows
<1>10. Counting'
  BY <1>1, <1>2, <1>3 DEF Counting, Counted, CountedLives, TxCounts, RxCounts
<1>11. Window'
  <2> SUFFICES ASSUME NEW o \in Obj, Reads(o)'
               PROVE  /\ obj'[o].st = "free" => obj'[o].window
                      /\ obj'[o].st = "listed" => obj'[o].window \/ timer'.old
    BY DEF Window
  <2>1. Reads(o) /\ Receiving
    BY <1>3 DEF Reads, Receiving
  <2>2. CASE o = u
    BY <1>2, <1>4, <2>1, <2>2 DEF ListTypes
  <2>3. CASE o # u
    BY <1>1, <1>2, <1>4, <2>1, <2>3 DEF Window, Hanging, ListedListed, Armed
  <2> QED
    BY <2>2, <2>3
<1> QED
  BY <1>6, <1>7, <1>8, <1>9, <1>10, <1>11

LEMMA NewCryptKeeps ==
    ASSUME IInv, Intact, NewCrypt, UNCHANGED <<lock, tx, rx, peer>>
    PROVE  IInv'
<1> USE DEF IInv, Types
<1>1. /\ UNCHANGED <<tx_keyidx, deinit, timer, lock, tx, rx, peer>>
      /\ user.pc = "alloc" /\ user.slot \in Slot /\ user.alg \in Alg
      /\ crypt[user.slot] = None
  BY DEF NewCrypt, UserTypes, UserType, UserKnows
<1>2. TxTypes' /\ RxTypes'
  BY <1>1 DEF TxTypes, RxTypes
<1>3. CASE user' = NoUser /\ UNCHANGED <<crypt, obj>>
  <2>1. user'.pc = "idle" /\ UserTypes'
    BY <1>3, IdleTypes DEF NoUser, UserTypes
  <2>2. ObjTypes' /\ ListTypes'
    BY <1>1, <1>3 DEF ObjTypes, ListTypes
  <2>3. Hanging'
    BY <1>1, <1>3, <2>1 DEF Hanging, OneSlot, LiveHang, ListedListed, OnItsWay, Armed
  <2>4. UserKnows'
    BY <2>1 DEF UserKnows
  <2>5. Counting' /\ Window'
    BY <1>1, <1>3 DEF Counting, Counted, CountedLives, TxCounts, RxCounts, Window, Reads
  <2> QED
    BY <1>2, <2>1, <2>2, <2>3, <2>4, <2>5
<1>4. ASSUME NEW o \in Obj, obj[o].st = "free",
             crypt' = [crypt EXCEPT ![user.slot] = o],
             obj' = [obj EXCEPT ![o] = [FreeObj EXCEPT !.st = "live", !.alg = user.alg]],
             user' = [user EXCEPT !.pc = "clear", !.obj = o]
      PROVE  IInv'
  <2> DEFINE q == [FreeObj EXCEPT !.st = "live", !.alg = user.alg]
  <2>1. q \in ObjType /\ q.st = "live" /\ q.refcnt = 0 /\ q.alg # "none"
    BY <1>1, FreeTypes, CryptAssumption DEF CryptAssumption, FreeObj, ObjType
  <2> HIDE DEF q
  <2>2. obj' \in [Obj -> ObjType] /\ obj'[o] = q /\ \A p \in Obj \ {o} : obj'[p] = obj[p]
    BY <1>4, <2>1 DEF ObjTypes, q
  <2>3. /\ crypt' \in [Slot -> Obj \cup {None}] /\ crypt'[user.slot] = o
        /\ \A s \in Slot \ {user.slot} : crypt'[s] = crypt[s]
    BY <1>1, <1>4 DEF ListTypes
  <2>4. ObjTypes' /\ ListTypes'
    BY <1>1, <2>2, <2>3 DEF ObjTypes, ListTypes
  <2>5. /\ user' \in UserType /\ user'.pc = "clear" /\ user'.slot = user.slot
        /\ user'.obj = o /\ user'.alg = user.alg
    BY <1>4 DEF UserTypes, UserType, Label
  <2>6. Hanging'
    <3>1. OneSlot' /\ LiveHang'
      BY <1>1, <1>4, <2>1, <2>2, <2>3, IdleTypes DEF Hanging, OneSlot, LiveHang
    <3>2. ListedListed' /\ OnItsWay' /\ Armed'
      BY <1>1, <1>4, <2>1, <2>2, <2>5 DEF Hanging, ListedListed, OnItsWay, Armed
    <3> QED
      BY <3>1, <3>2 DEF Hanging
  <2>7. UserKnows'
    BY <2>3, <2>5, <1>1, IdleTypes, CryptAssumption DEF UserKnows, CryptAssumption
  <2>8. Counting'
    <3>1. ~TxCounts(o) /\ ~RxCounts(o)
      BY <1>4 DEF Counting, CountedLives
    <3>2. \A p \in Obj : (TxCounts(p)' <=> TxCounts(p)) /\ (RxCounts(p)' <=> RxCounts(p))
      BY <1>1 DEF TxCounts, RxCounts
    <3>3. Counted' /\ CountedLives'
      BY <2>1, <2>2, <3>1, <3>2 DEF Counting, Counted, CountedLives
    <3> QED
      BY <1>1, <2>1, <2>2, <3>3 DEF Counting
  <2>9. Window'
    BY <1>1, <2>1, <2>2 DEF Window, Reads
  <2> QED
    BY <1>2, <2>4, <2>5, <2>6, <2>7, <2>8, <2>9 DEF UserTypes
<1> QED
  BY <1>3, <1>4 DEF NewCrypt

LEMMA SetKeyClearKeeps ==
    ASSUME IInv, Intact, SetKeyClear, UNCHANGED <<lock, tx, rx, peer>>
    PROVE  IInv'
<1> USE DEF IInv, Types
<1> DEFINE u == user.obj
<1>1. /\ UNCHANGED <<crypt, tx_keyidx, deinit, timer, lock, tx, rx, peer>>
      /\ user.pc = "clear" /\ user' = [user EXCEPT !.pc = "fill"]
      /\ u \in Obj
  BY DEF SetKeyClear, UserTypes, UserType, UserKnows
<1>2. /\ obj' \in [Obj -> ObjType] /\ \A o \in Obj \ {u} : obj'[o] = obj[o]
      /\ obj'[u].st = obj[u].st /\ obj'[u].alg = obj[u].alg
      /\ obj'[u].refcnt = obj[u].refcnt /\ obj'[u].window = obj[u].window
  <2> DEFINE p == IF user.alg = "WEP" THEN obj[u].priv ELSE Cleared
             q == [obj[u] EXCEPT !.priv = p, !.torn = InUse(u)]
  <2>1. obj[u] \in ObjType /\ p \in Priv /\ InUse(u) \in BOOLEAN
    BY <1>1, FreeTypes DEF ObjTypes, ObjType, InUse, UsedBy
  <2>2. obj' = [obj EXCEPT ![u] = q]
    BY <1>1, <2>1 DEF SetKeyClear, ObjTypes, ObjType
  <2> HIDE DEF p
  <2>3. /\ q \in ObjType /\ q.st = obj[u].st /\ q.alg = obj[u].alg
        /\ q.refcnt = obj[u].refcnt /\ q.window = obj[u].window
    BY <2>1 DEF ObjType
  <2> HIDE DEF q
  <2> QED
    BY <1>1, <2>2, <2>3 DEF ObjTypes
<1>3. /\ user' \in UserType /\ user'.pc = "fill" /\ user'.slot = user.slot
      /\ user'.obj = user.obj /\ user'.alg = user.alg
  BY <1>1 DEF UserTypes, UserType, Label
<1>4. Types'
  BY <1>1, <1>2, <1>3 DEF UserTypes, TxTypes, RxTypes, ObjTypes, ListTypes
<1>5. Hanging'
  BY <1>1, <1>2, <1>3 DEF Hanging, OneSlot, LiveHang, ListedListed, OnItsWay, Armed
<1>6. UserKnows'
  BY <1>1, <1>3 DEF UserKnows
<1>7. Counting' /\ Window'
  BY <1>1, <1>2 DEF Counting, Counted, CountedLives, TxCounts, RxCounts, Window, Reads
<1> QED
  BY <1>4, <1>5, <1>6, <1>7

LEMMA SetKeyFillKeeps ==
    ASSUME IInv, Intact, SetKeyFill, UNCHANGED <<lock, tx, rx, peer>>
    PROVE  IInv'
<1> USE DEF IInv, Types
<1> DEFINE u == user.obj
<1>1. /\ UNCHANGED <<crypt, deinit, timer, lock, tx, rx, peer>>
      /\ user.pc = "fill" /\ user' = NoUser /\ u \in Obj /\ user.alg \in Alg
      /\ tx_keyidx' \in Slot
  BY DEF SetKeyFill, UserTypes, UserType, ListTypes, UserKnows
<1>2. /\ obj' \in [Obj -> ObjType] /\ \A o \in Obj \ {u} : obj'[o] = obj[o]
      /\ obj'[u].st = obj[u].st /\ obj'[u].alg = obj[u].alg
      /\ obj'[u].refcnt = obj[u].refcnt /\ obj'[u].window = obj[u].window
  <2>1. PICK k \in Key : obj' = [obj EXCEPT ![u].priv = set_key(user.alg, @, k)]
    BY DEF SetKeyFill
  <2> DEFINE p == set_key(user.alg, obj[u].priv, k)
             q == [obj[u] EXCEPT !.priv = p]
  <2>2. obj[u] \in ObjType
    BY <1>1 DEF ObjTypes
  <2>3. p \in Priv
    BY <1>1, <2>2, KeyTypes DEF ObjType, ListTypes
  <2>4. obj' = [obj EXCEPT ![u] = q]
    BY <1>1, <2>1 DEF ObjTypes
  <2> HIDE DEF p
  <2>5. /\ q \in ObjType /\ q.st = obj[u].st /\ q.alg = obj[u].alg
        /\ q.refcnt = obj[u].refcnt /\ q.window = obj[u].window
    BY <2>2, <2>3 DEF ObjType
  <2> HIDE DEF q
  <2> QED
    BY <1>1, <2>4, <2>5 DEF ObjTypes
<1>3. user' \in UserType /\ user'.pc = "idle"
  BY <1>1, IdleTypes DEF NoUser
<1>4. Types'
  BY <1>1, <1>2, <1>3 DEF UserTypes, TxTypes, RxTypes, ObjTypes, ListTypes
<1>5. Hanging'
  BY <1>1, <1>2, <1>3 DEF Hanging, OneSlot, LiveHang, ListedListed, OnItsWay, Armed
<1>6. UserKnows'
  BY <1>3 DEF UserKnows
<1>7. Counting' /\ Window'
  BY <1>1, <1>2 DEF Counting, Counted, CountedLives, TxCounts, RxCounts, Window, Reads
<1> QED
  BY <1>4, <1>5, <1>6, <1>7

LEMMA SetDefaultKeyKeeps ==
    ASSUME IInv, Intact, SetDefaultKey, UNCHANGED <<lock, tx, rx, peer>>
    PROVE  IInv'
<1> USE DEF IInv, Types
<1>1. /\ UNCHANGED <<crypt, obj, deinit, timer, user, lock, tx, rx, peer>>
      /\ tx_keyidx' \in Slot
  BY DEF SetDefaultKey
<1>2. Types' /\ UserKnows' /\ Counting' /\ Window'
  BY <1>1 DEF UserTypes, TxTypes, RxTypes, ObjTypes, ListTypes, UserKnows, Counting,
     Counted, CountedLives, TxCounts, RxCounts, Window, Reads
<1> QED
  BY <1>1, <1>2, HangingStays

\* ieee80211_xmit.
LEMMA TxDecideKeeps ==
    ASSUME IInv, Intact, TxDecide,
           UNCHANGED <<crypt, tx_keyidx, deinit, timer, user, rx, peer>>
    PROVE  IInv'
<1> USE DEF IInv, Types
<1>1. /\ UNCHANGED <<crypt, tx_keyidx, obj, deinit, timer, user, rx, peer>>
      /\ tx.pc = "idle" /\ lock' = TRUE /\ tx' = [NoTx EXCEPT !.pc = "read"]
  BY DEF TxDecide
<1>2. Types' /\ tx'.pc = "read" /\ tx'.obj = None
  BY <1>1 DEF NoTx, UserTypes, TxTypes, RxTypes, ObjTypes, ListTypes
<1>3. Hanging' /\ UserKnows' /\ Window'
  BY <1>1, HangingStays DEF UserKnows, Window, Reads
<1>4. Counting'
  BY <1>1, <1>2 DEF Counting, Counted, CountedLives, TxCounts, RxCounts
<1> QED
  BY <1>2, <1>3, <1>4

LEMMA TxEnterKeeps ==
    ASSUME IInv, Intact, TxEnter,
           UNCHANGED <<crypt, tx_keyidx, deinit, timer, user, rx, peer>>
    PROVE  IInv'
<1> USE DEF IInv, Types
<1> DEFINE o == crypt[tx_keyidx]
<1>1. /\ UNCHANGED <<crypt, tx_keyidx, deinit, timer, lock, user, rx, peer>>
      /\ tx.pc = "read" /\ o \in Obj \cup {None}
  BY DEF TxEnter, ListTypes
<1>2. UserTypes' /\ RxTypes' /\ ListTypes' /\ UserKnows'
  BY <1>1 DEF UserTypes, RxTypes, ListTypes, UserKnows
<1>3. CASE o = None
  <2>1. UNCHANGED obj /\ tx' = [tx EXCEPT !.pc = "null"]
    BY <1>3 DEF TxEnter
  <2>2. TxTypes' /\ ObjTypes' /\ Hanging' /\ Window'
    BY <1>1, <2>1, HangingStays DEF TxTypes, ObjTypes, Window, Reads
  <2>3. Counting'
    BY <1>1, <2>1 DEF TxTypes, Counting, Counted, CountedLives, TxCounts, RxCounts
  <2> QED
    BY <1>2, <2>2, <2>3
<1>4. CASE o # None
  <2> DEFINE torn == obj[o].torn \/ BeingSet(o)
             q == [obj[o] EXCEPT !.refcnt = @ + 1, !.torn = torn]
  <2>1. /\ o \in Obj /\ obj[o] \in ObjType /\ obj[o].st = "live"
        /\ tx' = [tx EXCEPT !.pc = "use", !.obj = o]
    BY <1>1, <1>4 DEF TxEnter, Hanging, LiveHang, ListTypes, ObjTypes
  <2>2. Writes(o, q) /\ q.refcnt = obj[o].refcnt + 1
    <3>1. obj' = [obj EXCEPT ![o] = q]
      BY <1>4, <2>1 DEF TxEnter, ObjTypes, ObjType
    <3>2. torn \in BOOLEAN
      BY <2>1 DEF ObjType, BeingSet
    <3> HIDE DEF torn
    <3>3. obj[o].refcnt + 1 \in Nat
      BY <2>1 DEF ObjType
    <3> QED
      BY <2>1, <3>1, <3>2, <3>3 DEF Writes, ObjType
  <2> HIDE DEF q
  <2>3. /\ ObjTypes' /\ obj'[o].refcnt = obj[o].refcnt + 1
        /\ \A p \in Obj : /\ obj'[p].st = obj[p].st /\ obj'[p].alg = obj[p].alg
                          /\ obj'[p].window = obj[p].window
        /\ \A p \in Obj \ {o} : obj'[p].refcnt = obj[p].refcnt
    BY <2>2, WriteStays
  <2>4. TxTypes' /\ tx'.pc = "use" /\ tx'.obj = o
    BY <2>1 DEF TxTypes
  <2>5. Hanging' /\ Window'
    BY <1>1, <2>3, HangingStays DEF Window, Reads
  <2>6. Counting'
    BY <1>1, <1>4, <2>1, <2>3, <2>4 DEF Counting, Counted, CountedLives, TxCounts, RxCounts
  <2> QED
    BY <1>2, <2>3, <2>4, <2>5, <2>6
<1> QED
  BY <1>3, <1>4

LEMMA TxUseKeeps ==
    ASSUME IInv, Intact, TxUse,
           UNCHANGED <<crypt, tx_keyidx, deinit, timer, user, rx, peer>>
    PROVE  IInv'
<1> USE DEF IInv, Types
<1> DEFINE u == tx.obj
           p == obj[u].priv
           ttak == IF p.tx_ttak = NoTtak THEN [key |-> p.key, iv32 |-> p.tx_iv32]
                   ELSE p.tx_ttak
           frame == [key |-> p.key, ttak |-> ttak, iv32 |-> p.tx_iv32]
           m == [p EXCEPT !.tx_ttak = ttak]
           q == [obj[u] EXCEPT !.priv = tkip_count(m)]
<1>1. /\ UNCHANGED <<crypt, tx_keyidx, deinit, timer, lock, user, rx, peer>>
      /\ tx.pc = "use" /\ u \in Obj /\ obj[u] \in ObjType /\ p \in Priv
  BY DEF TxUse, TxTypes, Counting, ObjTypes, ObjType
<1>2. ttak \in Ttak /\ m \in Priv /\ frame \in TxFrame
  BY <1>1 DEF Priv, Ttak, TxFrame
<1>3. UserTypes' /\ RxTypes' /\ ListTypes' /\ UserKnows'
  BY <1>1 DEF UserTypes, RxTypes, ListTypes, UserKnows
<1>4. CASE obj[u].alg = "TKIP" /\ ~obj[u].torn
  <2>1. tx' = [tx EXCEPT !.pc = "leave", !.frame = frame]
    BY <1>4 DEF TxUse
  <2>2. Writes(u, q) /\ q.refcnt = obj[u].refcnt
    <3>1. tkip_count(m) \in Priv
      BY <1>2, CountTypes
    <3>2. obj' = [obj EXCEPT ![u] = q]
      BY <1>1, <1>4 DEF TxUse, ObjTypes
    <3> HIDE DEF m
    <3> QED
      BY <1>1, <3>1, <3>2 DEF Writes, ObjType
  <2> HIDE DEF q, frame
  <2>3. /\ ObjTypes'
        /\ \A o \in Obj : /\ obj'[o].st = obj[o].st /\ obj'[o].alg = obj[o].alg
                          /\ obj'[o].window = obj[o].window
                          /\ obj'[o].refcnt = obj[o].refcnt
    BY <2>2, WriteStays
  <2>4. TxTypes' /\ tx'.pc = "leave" /\ tx'.obj = u
    BY <1>2, <2>1 DEF TxTypes
  <2>5. Hanging' /\ Window'
    BY <1>1, <2>3, HangingStays DEF Window, Reads
  <2>6. Counting'
    BY <1>1, <2>3, <2>4 DEF Counting, Counted, CountedLives, TxCounts, RxCounts
  <2> QED
    BY <1>3, <2>3, <2>4, <2>5, <2>6
<1>5. CASE ~(obj[u].alg = "TKIP" /\ ~obj[u].torn)
  <2>1. tx' = [tx EXCEPT !.pc = "leave"] /\ UNCHANGED obj
    BY <1>5 DEF TxUse
  <2>2. TxTypes' /\ tx'.pc = "leave" /\ tx'.obj = u
    BY <2>1 DEF TxTypes
  <2>3. ObjTypes' /\ Hanging' /\ Window'
    BY <1>1, <2>1, HangingStays DEF ObjTypes, Window, Reads
  <2>4. Counting'
    BY <1>1, <2>1, <2>2 DEF Counting, Counted, CountedLives, TxCounts, RxCounts
  <2> QED
    BY <1>3, <2>2, <2>3, <2>4
<1> QED
  BY <1>4, <1>5

LEMMA TxLeaveKeeps ==
    ASSUME IInv, Intact, TxLeave,
           UNCHANGED <<crypt, tx_keyidx, deinit, timer, user, rx, peer>>
    PROVE  IInv'
<1> USE DEF IInv, Types
<1> DEFINE u == tx.obj
           q == [obj[u] EXCEPT !.refcnt = @ - 1]
<1>1. /\ UNCHANGED <<crypt, tx_keyidx, deinit, timer, user, rx, peer>>
      /\ tx.pc = "leave" /\ u \in Obj /\ obj[u] \in ObjType
      /\ lock' = FALSE /\ tx' = NoTx
  BY DEF TxLeave, TxTypes, Counting, ObjTypes
<1>2. obj[u].refcnt \in Nat /\ obj[u].refcnt > 0
  BY <1>1 DEF Counting, Counted, TxCounts, ObjType
<1>3. Writes(u, q) /\ q.refcnt = obj[u].refcnt - 1
  BY <1>1, <1>2 DEF TxLeave, Writes, ObjTypes, ObjType
<1> HIDE DEF q
<1>4. /\ ObjTypes' /\ obj'[u].refcnt = obj[u].refcnt - 1
      /\ \A o \in Obj : /\ obj'[o].st = obj[o].st /\ obj'[o].alg = obj[o].alg
                        /\ obj'[o].window = obj[o].window
      /\ \A o \in Obj \ {u} : obj'[o].refcnt = obj[o].refcnt
  BY <1>3, WriteStays
<1>5. Types' /\ UserKnows'
  BY <1>1, <1>4 DEF UserTypes, TxTypes, NoTx, RxTypes, ListTypes, UserKnows
<1>6. Hanging' /\ Window'
  BY <1>1, <1>4, HangingStays DEF Window, Reads
<1>7. Counting'
  BY <1>1, <1>4 DEF Counting, Counted, CountedLives, TxCounts, RxCounts, NoTx
<1> QED
  BY <1>5, <1>6, <1>7

\* The receive tasklet.
LEMMA RxReadKeeps ==
    ASSUME IInv, Intact, RxRead, UNCHANGED <<crypt, tx_keyidx, deinit, lock, user, tx>>
    PROVE  IInv'
<1> USE DEF IInv, Types
<1>1. /\ UNCHANGED <<crypt, tx_keyidx, obj, deinit, timer, lock, user, tx>>
      /\ rx.pc = "idle"
  BY DEF RxRead
<1>2. PICK s \in Slot, k \in Key \cup {None}, i \in Iv32 :
         /\ crypt[s] # None
         /\ peer' = IF k = None THEN peer ELSE [peer EXCEPT ![k] = i]
         /\ rx' = [NoRx EXCEPT !.pc = "read", !.obj = crypt[s],
                               !.frame = [key |-> k, iv32 |-> i]]
  BY DEF RxRead
<1>3. crypt[s] \in Obj /\ obj[crypt[s]].st = "live" /\ peer' \in [Key -> Iv32]
  BY <1>2 DEF ListTypes, Hanging, LiveHang
<1>4. RxTypes' /\ rx'.pc = "read" /\ rx'.obj = crypt[s] /\ rx'.frame \in Frame
  <2>1. [key |-> k, iv32 |-> i] \in Frame
    BY DEF Frame
  <2> DEFINE f == [key |-> k, iv32 |-> i]
  <2> HIDE DEF f
  <2> QED
    BY <1>2, <1>3, <2>1 DEF f, NoRx, RxTypes
<1>5. Types' /\ UserKnows'
  BY <1>1, <1>3, <1>4 DEF UserTypes, TxTypes, ObjTypes, ListTypes, UserKnows
<1>6. Hanging'
  BY <1>1, HangingStays
<1>7. Counting'
  BY <1>1, <1>3, <1>4, IdleTypes DEF Counting, Counted, CountedLives, TxCounts, RxCounts
<1>8. Window'
  BY <1>1, <1>3, <1>4 DEF Window, Reads
<1> QED
  BY <1>5, <1>6, <1>7, <1>8

LEMMA RxEnterKeeps ==
    ASSUME IInv, Intact, RxEnter, UNCHANGED <<crypt, tx_keyidx, deinit, lock, user, tx>>
    PROVE  IInv'
<1> USE DEF IInv, Types
<1> DEFINE u == rx.obj
           torn == obj[u].torn \/ BeingSet(u)
           q == [obj[u] EXCEPT !.refcnt = @ + 1, !.torn = torn]
<1>1. /\ UNCHANGED <<crypt, tx_keyidx, deinit, timer, lock, user, tx, peer>>
      /\ rx.pc = "read" /\ rx' = [rx EXCEPT !.pc = "use"]
      /\ u \in Obj /\ obj[u] \in ObjType
  BY DEF RxEnter, RxTypes, Counting, ObjTypes
<1>2. obj[u].st # "free"
  BY <1>1, IdleTypes DEF Intact, Lost
<1>3. Writes(u, q) /\ q.refcnt = obj[u].refcnt + 1
  <2>1. obj' = [obj EXCEPT ![u] = q]
    BY <1>1 DEF RxEnter, ObjTypes, ObjType
  <2>2. torn \in BOOLEAN
    BY <1>1 DEF ObjType, BeingSet
  <2> HIDE DEF torn
  <2>3. obj[u].refcnt + 1 \in Nat
    BY <1>1 DEF ObjType
  <2> QED
    BY <1>1, <2>1, <2>2, <2>3 DEF Writes, ObjType
<1> HIDE DEF q
<1>4. /\ ObjTypes' /\ obj'[u].refcnt = obj[u].refcnt + 1
      /\ \A o \in Obj : /\ obj'[o].st = obj[o].st /\ obj'[o].alg = obj[o].alg
                        /\ obj'[o].window = obj[o].window
      /\ \A o \in Obj \ {u} : obj'[o].refcnt = obj[o].refcnt
  BY <1>3, WriteStays
<1>5. RxTypes' /\ rx'.pc = "use" /\ rx'.obj = u /\ rx'.frame = rx.frame
  BY <1>1 DEF RxTypes
<1>6. Types' /\ UserKnows'
  BY <1>1, <1>4, <1>5 DEF UserTypes, TxTypes, ListTypes, UserKnows
<1>7. Hanging' /\ Window'
  BY <1>1, <1>4, <1>5, HangingStays DEF Window, Reads
<1>8. Counting'
  BY <1>1, <1>2, <1>4, <1>5, IdleTypes
     DEF Counting, Counted, CountedLives, TxCounts, RxCounts
<1> QED
  BY <1>6, <1>7, <1>8

LEMMA RxUseKeeps ==
    ASSUME IInv, Intact, RxUse, UNCHANGED <<crypt, tx_keyidx, deinit, lock, user, tx>>
    PROVE  IInv'
<1> USE DEF IInv, Types
<1> DEFINE u == rx.obj
           d == decrypt(obj[u].alg, obj[u].priv, rx.frame).priv
           p == IF obj[u].torn THEN obj[u].priv ELSE d
           q == [obj[u] EXCEPT !.priv = p, !.refcnt = @ - 1]
<1>1. /\ UNCHANGED <<crypt, tx_keyidx, deinit, timer, lock, user, tx, peer>>
      /\ rx.pc = "use" /\ u \in Obj /\ obj[u] \in ObjType
  BY DEF RxUse, RxTypes, Counting, ObjTypes
<1>2. PICK pc \in {"msdu", "leave"}, res \in {"ok", "failed"} :
         rx' = [rx EXCEPT !.pc = pc, !.res = res]
  BY DEF RxUse
<1>3. obj[u].refcnt \in Nat /\ obj[u].refcnt > 0 /\ obj[u].alg \in Alg
  BY <1>1 DEF Counting, Counted, CountedLives, RxCounts, ObjType
<1>4. Writes(u, q) /\ q.refcnt = obj[u].refcnt - 1
  <2>1. obj' = [obj EXCEPT ![u] = q]
    BY <1>1 DEF RxUse, ObjTypes, ObjType
  <2>2. p \in Priv
    BY <1>1, <1>3, DecryptTypes DEF ObjType, Counting
  <2> HIDE DEF p
  <2>3. obj[u].refcnt - 1 \in Nat
    BY <1>3
  <2> QED
    BY <1>1, <2>1, <2>2, <2>3 DEF Writes, ObjType
<1> HIDE DEF q
<1>5. /\ ObjTypes' /\ obj'[u].refcnt = obj[u].refcnt - 1
      /\ \A o \in Obj : /\ obj'[o].st = obj[o].st /\ obj'[o].alg = obj[o].alg
                        /\ obj'[o].window = obj[o].window
      /\ \A o \in Obj \ {u} : obj'[o].refcnt = obj[o].refcnt
  BY <1>4, WriteStays
<1>6. RxTypes' /\ rx'.pc \in {"msdu", "leave"} /\ rx'.obj = u /\ rx'.frame = rx.frame
  BY <1>2 DEF RxTypes
<1>7. Types' /\ UserKnows'
  BY <1>1, <1>5, <1>6 DEF UserTypes, TxTypes, ListTypes, UserKnows
<1>8. Hanging' /\ Window'
  BY <1>1, <1>5, <1>6, HangingStays DEF Window, Reads
<1>9. Counting'
  BY <1>1, <1>5, <1>6, IdleTypes
     DEF Counting, Counted, CountedLives, TxCounts, RxCounts
<1> QED
  BY <1>7, <1>8, <1>9

LEMMA RxMsduKeeps ==
    ASSUME IInv, Intact, RxMsdu, UNCHANGED <<crypt, tx_keyidx, deinit, lock, user, tx>>
    PROVE  IInv'
<1> USE DEF IInv, Types
<1> DEFINE u == rx.obj
           p == tkip_verified(obj[u].priv, rx.frame)
           q == [obj[u] EXCEPT !.priv = p]
<1>1. /\ UNCHANGED <<crypt, tx_keyidx, deinit, lock, user, tx, peer>>
      /\ rx.pc = "msdu" /\ u \in Obj /\ obj[u] \in ObjType
      /\ rx' = NoRx /\ timer' = [timer EXCEPT !.old = FALSE]
  BY DEF RxMsdu, RxDone, RxTypes, Counting, ObjTypes
<1>2. /\ ObjTypes'
      /\ \A o \in Obj : /\ obj'[o].st = obj[o].st /\ obj'[o].alg = obj[o].alg
                        /\ obj'[o].window = obj[o].window
                        /\ obj'[o].refcnt = obj[o].refcnt
  <2>1. CASE UNCHANGED obj
    BY <2>1 DEF ObjTypes
  <2>2. CASE obj' = [obj EXCEPT ![u].priv = tkip_verified(@, rx.frame)]
    <3>1. p \in Priv
      BY <1>1 DEF tkip_verified, ObjType, Priv, Counting, Frame
    <3>2. obj' = [obj EXCEPT ![u] = q]
      BY <1>1, <2>2 DEF ObjTypes
    <3> HIDE DEF p
    <3>3. Writes(u, q) /\ q.refcnt = obj[u].refcnt
      BY <1>1, <3>1, <3>2 DEF Writes, ObjType
    <3> HIDE DEF q
    <3> QED
      BY <3>3, WriteStays
  <2> QED
    BY <2>1, <2>2 DEF RxMsdu
<1>3. RxTypes' /\ rx'.pc = "idle" /\ rx'.obj = None
  BY <1>1 DEF NoRx, RxTypes
<1>4. Types' /\ UserKnows'
  BY <1>1, <1>2, <1>3 DEF UserTypes, TxTypes, ListTypes, UserKnows
<1>5. Hanging' /\ Window'
  <2>1. timer.on => timer'.on
    BY <1>1 DEF ListTypes
  <2> QED
    BY <1>1, <1>2, <1>3, <2>1, HangingStays DEF Window, Reads
<1>6. Counting'
  BY <1>1, <1>2, <1>3 DEF Counting, Counted, CountedLives, TxCounts, RxCounts
<1> QED
  BY <1>4, <1>5, <1>6

LEMMA RxLeaveKeeps ==
    ASSUME IInv, Intact, RxLeave, UNCHANGED <<crypt, tx_keyidx, deinit, lock, user, tx>>
    PROVE  IInv'
<1> USE DEF IInv, Types
<1>1. /\ UNCHANGED <<crypt, tx_keyidx, obj, deinit, lock, user, tx, peer>>
      /\ rx.pc = "leave" /\ rx' = NoRx /\ timer' = [timer EXCEPT !.old = FALSE]
  BY DEF RxLeave, RxDone
<1>2. Types' /\ rx'.pc = "idle" /\ rx'.obj = None
  BY <1>1 DEF NoRx, UserTypes, TxTypes, RxTypes, ObjTypes, ListTypes
<1>3. Hanging' /\ UserKnows' /\ Window'
  <2>1. timer.on => timer'.on
    BY <1>1 DEF ListTypes
  <2> QED
    BY <1>1, <1>2, <2>1, HangingStays DEF UserKnows, Window, Reads
<1>4. Counting'
  BY <1>1, <1>2 DEF Counting, Counted, CountedLives, TxCounts, RxCounts
<1> QED
  BY <1>2, <1>3, <1>4

\* The deletion timer: what it destroys was listed and is not counted, and a frame
\* that still has the pointer was in the window.
LEMMA DeinitKeeps ==
    ASSUME IInv, deinit_handler
    PROVE  IInv'
<1> USE DEF IInv, Types
<1>1. /\ UNCHANGED <<crypt, tx_keyidx, lock, user, tx, rx, peer>>
      /\ ~timer.old /\ deinit' = deinit \ Destroyed
  BY DEF deinit_handler
<1>2. /\ timer' \in [on : BOOLEAN, old : BOOLEAN]
      /\ timer'.on <=> deinit' # {}
  BY DEF deinit_handler, Receiving
<1>3. \A o \in Destroyed : /\ o \in Obj /\ obj[o].refcnt = 0 /\ obj[o].st = "listed"
                           /\ obj'[o] \in ObjType
                           /\ obj'[o].st = "free" /\ obj'[o].refcnt = 0
                           /\ o = rx.obj /\ obj[o].window => obj'[o].window
  <2> SUFFICES ASSUME NEW o \in Destroyed
               PROVE  /\ o \in Obj /\ obj[o].refcnt = 0 /\ obj[o].st = "listed"
                      /\ obj'[o] \in ObjType
                      /\ obj'[o].st = "free" /\ obj'[o].refcnt = 0
                      /\ o = rx.obj /\ obj[o].window => obj'[o].window
    OBVIOUS
  <2> DEFINE w == obj[o].window /\ o \in {rx.obj, tx.obj}
             q == [FreeObj EXCEPT !.window = w]
  <2>1. o \in Obj /\ obj[o].refcnt = 0 /\ obj[o].st = "listed" /\ obj[o] \in ObjType
    BY DEF Destroyed, ListTypes, Hanging, ListedListed, ObjTypes
  <2>2. w \in BOOLEAN
    BY <2>1 DEF ObjType
  <2>3. obj'[o] = q
    BY <2>1 DEF deinit_handler
  <2>4. o = rx.obj /\ obj[o].window => w
    OBVIOUS
  <2> HIDE DEF w
  <2>5. q \in ObjType /\ q.st = "free" /\ q.refcnt = 0 /\ q.window = w
    BY <2>2, FreeTypes DEF FreeObj, ObjType
  <2> QED
    BY <2>1, <2>3, <2>4, <2>5
<1>4. \A o \in Obj \ Destroyed : obj'[o] = obj[o]
  BY DEF deinit_handler
<1>5. Types' /\ UserKnows'
  <2>1. ObjTypes'
    <3>1. obj' = [o \in Obj |-> obj'[o]]
      BY DEF deinit_handler
    <3>2. \A o \in Obj : obj'[o] \in ObjType
      BY <1>3, <1>4 DEF ObjTypes
    <3> QED
      BY <3>1, <3>2 DEF ObjTypes
  <2> QED
    BY <1>1, <1>2, <2>1 DEF UserTypes, TxTypes, RxTypes, ListTypes, UserKnows
<1>6. Hanging'
  <2>1. OneSlot' /\ LiveHang' /\ OnItsWay'
    BY <1>1, <1>3, <1>4 DEF Hanging, OneSlot, LiveHang, OnItsWay
  <2>2. ListedListed' /\ Armed'
    BY <1>1, <1>2, <1>3, <1>4 DEF Hanging, ListedListed, Armed
  <2> QED
    BY <2>1, <2>2 DEF Hanging
<1>7. Counting'
  <2>1. \A o \in Obj : (TxCounts(o)' <=> TxCounts(o)) /\ (RxCounts(o)' <=> RxCounts(o))
    BY <1>1 DEF TxCounts, RxCounts
  <2>2. \A o \in Destroyed : ~TxCounts(o) /\ ~RxCounts(o)
    BY <1>3 DEF Counting, Counted
  <2>3. Counted' /\ CountedLives'
    BY <1>3, <1>4, <2>1, <2>2 DEF Counting, Counted, CountedLives
  <2> QED
    BY <1>1, <1>3, <1>4, <2>3 DEF Counting
<1>8. Window'
  <2> SUFFICES ASSUME NEW o \in Obj, Reads(o)'
               PROVE  /\ obj'[o].st = "free" => obj'[o].window
                      /\ obj'[o].st = "listed" => obj'[o].window \/ timer'.old
    BY DEF Window
  <2>1. Reads(o)
    BY <1>1 DEF Reads
  <2>2. obj[o].st \in {"free", "listed"} => obj[o].window
    BY <1>1, <2>1 DEF Window
  <2> QED
    BY <1>3, <1>4, <2>1, <2>2 DEF Reads
<1> QED
  BY <1>5, <1>6, <1>7, <1>8

-----------------------------------------------------------------------------
LEMMA InitHolds == Init => IInv
<1> SUFFICES ASSUME Init PROVE IInv
  OBVIOUS
<1> USE CryptAssumption DEF CryptAssumption, Init
<1>1. UserTypes
  BY IdleTypes DEF UserTypes
<1>2. TxTypes /\ RxTypes
  BY DEF TxTypes, RxTypes, NoTx, NoRx
<1>3. ObjTypes
  BY FreeTypes DEF ObjTypes
<1>4. ListTypes
  <2>1. 0 \in Slot
    BY DEF Slot
  <2> QED
    BY <2>1, IdleTypes DEF ListTypes
<1>5. Hanging
  BY IdleTypes DEF Hanging, OneSlot, LiveHang, ListedListed, OnItsWay, Armed,
     FreeObj, NoUser
<1>6. UserKnows
  BY DEF UserKnows, NoUser
<1>7. Counting /\ Window
  BY DEF Counting, Counted, CountedLives, TxCounts, RxCounts, Window, Reads,
     FreeObj, NoTx, NoRx
<1> QED
  BY <1>1, <1>2, <1>3, <1>4, <1>5, <1>6, <1>7 DEF IInv, Types

LEMMA StepKeeps == IInv /\ [Next]_vars => IInv'
<1> SUFFICES ASSUME IInv, [Next]_vars PROVE IInv'
  OBVIOUS
<1>1. CASE User
  BY <1>1, SetEncodeKeeps, DisableEncodeKeeps, UnhookKeeps, ListKeeps, NewCryptKeeps,
     SetKeyClearKeeps, SetKeyFillKeeps, SetDefaultKeyKeeps DEF User
<1>2. CASE deinit_handler
  BY <1>2, DeinitKeeps
<1>3. CASE Tx
  BY <1>3, TxDecideKeeps, TxEnterKeeps, TxUseKeeps, TxLeaveKeeps DEF Tx
<1>4. CASE Rx
  BY <1>4, RxReadKeeps, RxEnterKeeps, RxUseKeeps, RxMsduKeeps, RxLeaveKeeps DEF Rx
<1>5. CASE UNCHANGED vars
  BY <1>5 DEF vars, IInv, Types, UserTypes, TxTypes, RxTypes, ObjTypes, ListTypes, Hanging,
     OneSlot, LiveHang, ListedListed, OnItsWay, Armed, UserKnows, Counting, Counted,
     CountedLives, TxCounts, RxCounts, Window, Reads
<1> QED
  BY <1>1, <1>2, <1>3, <1>4, <1>5 DEF Next

LEMMA InvariantHolds == Spec => []IInv
  BY InitHolds, StepKeeps, PTL DEF Spec

\* Every state has the types of the variables; of refcnt, that two count themselves.
THEOREM TypeCorrect == Spec => []TypeOK
<1>1. IInv => TypeOK
  <2> SUFFICES ASSUME IInv PROVE TypeOK
    OBVIOUS
  <2>1. ObjTypes /\ ListTypes
    BY DEF IInv, Types
  <2>2. \A o \in Obj : obj[o].refcnt \in 0..2
    BY DEF IInv, Counting, Counted
  <2>3. obj \in [Obj -> [st : {"free", "live", "unhooked", "listed"},
                         alg : Alg \cup {"none"}, refcnt : 0..2, window : BOOLEAN,
                         torn : BOOLEAN, priv : Priv]]
    BY <2>1, <2>2 DEF ObjTypes, ObjType
  <2> QED
    BY <2>1, <2>3 DEF TypeOK, ListTypes
<1> QED
  BY <1>1, InvariantHolds, PTL

\* No key leaks and none is destroyed twice: each is in one slot, on its way to the
\* list, on the list with the timer armed, or destroyed.
THEOREM EveryKeyAccounted == Spec => []KeysAccounted
<1>1. IInv => KeysAccounted
  <2> SUFFICES ASSUME IInv, NEW o \in Obj
               PROVE  /\ Cardinality({s \in Slot : crypt[s] = o}) =
                           IF obj[o].st = "live" THEN 1 ELSE 0
                      /\ (o \in deinit) = (obj[o].st = "listed")
                      /\ obj[o].st = "unhooked" => user.pc = "list" /\ user.obj = o
                      /\ deinit # {} => timer.on
    BY DEF KeysAccounted, IInv, Hanging, Armed
  <2> DEFINE slots == {s \in Slot : crypt[s] = o}
  <2>1. CASE obj[o].st = "live"
    <3>1. PICK s \in Slot : crypt[s] = o
      BY <2>1 DEF IInv, Hanging, LiveHang
    <3>2. slots = {s}
      BY <3>1, IdleTypes DEF IInv, Hanging, OneSlot
    <3>3. Cardinality(slots) = 1
      BY <3>2, FS_Singleton
    <3> QED
      BY <2>1, <3>3 DEF IInv, Hanging, ListedListed, Armed
  <2>2. CASE obj[o].st # "live"
    <3>1. slots = {}
      BY <2>2 DEF IInv, Hanging, LiveHang
    <3>2. Cardinality(slots) = 0
      BY <3>1, FS_EmptySet
    <3> QED
      BY <2>2, <3>2 DEF IInv, Hanging, ListedListed, OnItsWay, Armed
  <2> QED
    BY <2>1, <2>2
<1> QED
  BY <1>1, InvariantHolds, PTL

\* "must not run ops->deinit() while there may be pending encrypt or decrypt operations":
\* no key is destroyed under a frame, but for a received frame that does not count
\* itself while its key is listed with the timer already running.
THEOREM KeySafeWhileUsed == Spec => []KeyOutlivesItsUse
<1>1. IInv => KeyOutlivesItsUse
  <2> SUFFICES ASSUME IInv
               PROVE  /\ ~Lost(tx)
                      /\ Lost(rx) => rx.pc \in {"read", "msdu"} /\ obj[rx.obj].window
    BY DEF KeyOutlivesItsUse
  <2> USE DEF IInv, Types, Lost
  <2>1. ~Lost(tx)
    BY DEF TxTypes, Counting, CountedLives, TxCounts
  <2>2. Lost(rx) => rx.pc \in {"read", "msdu"} /\ obj[rx.obj].window
    BY DEF RxTypes, Counting, CountedLives, RxCounts, Window, Reads
  <2> QED
    BY <2>1, <2>2
<1> QED
  BY <1>1, InvariantHolds, PTL
-----------------------------------------------------------------------------
\* The cached phase-1 key of a TKIP key that no frame used while it was set is for the
\* key and the iv32 of the next frame; it is none between memset and the copy of the key.
Fresh(o) == obj[o].alg = "TKIP" /\ ~obj[o].torn
Mixed(p) == p.tx_ttak \in {NoTtak, [key |-> p.key, iv32 |-> p.tx_iv32]}
Filling(o) == user.pc = "fill" /\ user.obj = o
PhaseOneKept ==
    /\ user.pc \in {"clear", "fill"} => obj[user.obj].alg = user.alg
    /\ \A o \in Obj : Fresh(o) => /\ Mixed(obj[o].priv)
                                  /\ Filling(o) => obj[o].priv.tx_ttak = NoTtak
    /\ \A o \in Obj : Filling(o) /\ tx.pc = "use" /\ tx.obj = o => obj[o].torn
    /\ SentFramesDecrypt

\* What of a key the encryption of the next frame depends on.
SameTx(p, q) == p.key = q.key /\ p.tx_iv32 = q.tx_iv32 /\ p.tx_ttak = q.tx_ttak

\* Steps that leave that alone.
LeavesTx ==
    /\ \A o \in Obj : Fresh(o)' => Fresh(o) /\ SameTx(obj'[o].priv, obj[o].priv)
    /\ user'.pc \in {"clear", "fill"} =>
         /\ user' = user
         /\ obj'[user.obj].alg = obj[user.obj].alg
         /\ obj[user.obj].torn => obj'[user.obj].torn
    /\ tx' # tx => tx'.pc # "use" /\ tx'.frame = None

LEMMA PhaseOneStays ==
    ASSUME PhaseOneKept, LeavesTx
    PROVE  PhaseOneKept'
<1> USE DEF LeavesTx
<1>1. user'.pc \in {"clear", "fill"} => obj'[user'.obj].alg = user'.alg
  BY DEF PhaseOneKept
<1>2. ASSUME NEW o \in Obj, Fresh(o)'
      PROVE  Mixed(obj'[o].priv) /\ (Filling(o)' => obj'[o].priv.tx_ttak = NoTtak)
  BY <1>2 DEF PhaseOneKept, Mixed, Filling, SameTx
<1>3. ASSUME NEW o \in Obj, Filling(o)', tx'.pc = "use", tx'.obj = o
      PROVE  obj'[o].torn
  BY <1>3 DEF PhaseOneKept, Filling
<1>4. SentFramesDecrypt'
  BY DEF PhaseOneKept, SentFramesDecrypt
<1> QED
  BY <1>1, <1>2, <1>3, <1>4 DEF PhaseOneKept

\* Neither set_key before the copy, nor the other counters, nor a received frame touch it.
LEMMA DecryptSameTx ==
    ASSUME NEW a \in Alg, NEW p \in Priv, NEW f \in Frame
    PROVE  SameTx(decrypt(a, p, f).priv, p)
<1>1. \A t \in Ttak : SameTx([p EXCEPT !.rx_ttak = t], p)
  BY DEF SameTx, Priv
<1>2. SameTx(prism2_wep_decrypt(p, f).priv, p) /\ SameTx(ccmp_decrypt(p, f).priv, p)
  BY DEF SameTx, prism2_wep_decrypt, ccmp_decrypt
<1>3. SameTx(tkip_decrypt(p, f).priv, p)
  BY DEF SameTx, tkip_decrypt, icv_error, Priv
<1>4. a = "WEP" \/ a = "TKIP" \/ a = "CCMP"
  BY CryptAssumption DEF CryptAssumption
<1> QED
  BY <1>2, <1>3, <1>4 DEF decrypt

LEMMA UserPhaseOne ==
    ASSUME IInv, PhaseOneKept, User
    PROVE  PhaseOneKept'
<1> USE DEF IInv, Types
<1>1. UNCHANGED <<lock, tx, rx, peer>> /\ user \in UserType /\ obj \in [Obj -> ObjType]
  BY DEF User, UserTypes, ObjTypes
<1>2. user.pc # "idle" /\ user.pc \notin {"alloc"} => user.obj \in Obj
  BY DEF UserTypes, UserType, Label, UserKnows
<1>3. CASE SetEncode
  <2>1. /\ UNCHANGED obj /\ user'.pc # "fill"
        /\ user'.pc = "clear" => obj[user'.obj].alg = user'.alg
    BY <1>3 DEF SetEncode
  <2> QED
    BY <1>1, <2>1 DEF PhaseOneKept, Fresh, Mixed, Filling, SentFramesDecrypt
<1>4. CASE DisableEncode \/ SetDefaultKey
  <2>1. UNCHANGED obj /\ user'.pc \notin {"clear", "fill"}
    BY <1>4 DEF DisableEncode, SetDefaultKey
  <2>2. LeavesTx
    BY <1>1, <2>1 DEF LeavesTx, Fresh, SameTx
  <2> QED
    BY <2>2, PhaseOneStays
<1>5. CASE Unhook \/ List
  <2>1. user'.pc \notin {"clear", "fill"}
    <3>1. AfterList.pc \notin {"clear", "fill"}
      BY AfterListKnows
    <3> QED
      BY <1>1, <1>5, <3>1 DEF Unhook, List, UserType
  <2>2. user.obj \in Obj
    BY <1>2, <1>5 DEF Unhook, List
  <2>3. \A o \in Obj : /\ obj'[o].alg = obj[o].alg /\ obj'[o].torn = obj[o].torn
                       /\ obj'[o].priv = obj[o].priv
    <3>1. CASE Unhook
      BY <1>1, <2>2, <3>1 DEF Unhook, ObjType
    <3>2. CASE List
      <4> DEFINE q == [obj[user.obj] EXCEPT !.st = "listed", !.window = timer.on]
      <4>1. obj' = [obj EXCEPT ![user.obj] = q]
        BY <1>1, <2>2, <3>2 DEF List, ObjType
      <4> QED
        BY <1>1, <2>2, <4>1 DEF ObjType
    <3> QED
      BY <1>5, <3>1, <3>2
  <2>4. LeavesTx
    BY <1>1, <2>1, <2>3 DEF LeavesTx, Fresh, SameTx
  <2> QED
    BY <2>4, PhaseOneStays
<1>6. CASE NewCrypt
  <2>1. CASE user' = NoUser /\ UNCHANGED obj
    <3>1. LeavesTx
      BY <1>1, <2>1 DEF LeavesTx, NoUser, Fresh, SameTx
    <3> QED
      BY <3>1, PhaseOneStays
  <2>2. ASSUME NEW o \in Obj,
               obj' = [obj EXCEPT ![o] = [FreeObj EXCEPT !.st = "live", !.alg = user.alg]],
               user' = [user EXCEPT !.pc = "clear", !.obj = o]
        PROVE  PhaseOneKept'
    <3>1. /\ user'.pc = "clear" /\ user'.obj = o /\ user'.alg = user.alg
          /\ obj'[o].alg = user.alg /\ obj'[o].priv.tx_ttak = NoTtak
          /\ \A p \in Obj \ {o} : obj'[p] = obj[p]
      BY <1>1, <2>2 DEF UserType, FreeObj, Cleared
    <3> QED
      BY <1>1, <3>1 DEF PhaseOneKept, Fresh, Mixed, Filling, SentFramesDecrypt
  <2> QED
    BY <1>6, <2>1, <2>2 DEF NewCrypt
<1>7. CASE SetKeyClear
  <2> DEFINE u == user.obj
             p == IF user.alg = "WEP" THEN obj[u].priv ELSE Cleared
             q == [obj[u] EXCEPT !.priv = p, !.torn = InUse(u)]
  <2>1. /\ u \in Obj /\ user.pc = "clear" /\ obj[u].alg = user.alg
        /\ user' = [user EXCEPT !.pc = "fill"]
    BY <1>2, <1>7 DEF SetKeyClear, PhaseOneKept
  <2>2. obj' = [obj EXCEPT ![u] = q]
    BY <1>1, <1>7, <2>1 DEF SetKeyClear, ObjType
  <2>3. user.alg = "TKIP" => p.tx_ttak = NoTtak
    BY DEF Cleared
  <2> HIDE DEF p
  <2>4. /\ obj'[u].alg = user.alg /\ obj'[u].priv = p /\ obj'[u].torn = InUse(u)
        /\ \A o \in Obj \ {u} : obj'[o] = obj[o]
    BY <1>1, <2>1, <2>2 DEF ObjType
  <2>5. user'.pc = "fill" /\ user'.obj = u /\ user'.alg = user.alg
    BY <1>1, <2>1 DEF UserType
  <2>6. tx.pc = "use" /\ tx.obj = u => InUse(u)
    BY DEF InUse, UsedBy
  <2> QED
    BY <1>1, <2>1, <2>3, <2>4, <2>5, <2>6
       DEF PhaseOneKept, Fresh, Mixed, Filling, SentFramesDecrypt
<1>8. CASE SetKeyFill
  <2> DEFINE u == user.obj
  <2>1. u \in Obj /\ user.pc = "fill" /\ user'.pc = "idle" /\ obj[u].alg = user.alg
    BY <1>2, <1>8 DEF SetKeyFill, NoUser, PhaseOneKept
  <2>2. PICK k \in Key : obj' = [obj EXCEPT ![u].priv = set_key(user.alg, @, k)]
    BY <1>8 DEF SetKeyFill
  <2>3. user.alg = "TKIP" => set_key(user.alg, obj[u].priv, k).tx_ttak = obj[u].priv.tx_ttak
    <3>1. obj[u].priv \in Priv
      BY <1>1, <2>1 DEF ObjType
    <3>2. tkip_set_key(obj[u].priv, k).tx_ttak = obj[u].priv.tx_ttak
      BY <3>1 DEF tkip_set_key, Priv
    <3>3. set_key("TKIP", obj[u].priv, k) = tkip_set_key(obj[u].priv, k)
      BY DEF set_key
    <3> QED
      BY <3>2, <3>3
  <2>4. /\ obj'[u].alg = user.alg /\ obj'[u].torn = obj[u].torn
        /\ obj'[u].priv = set_key(user.alg, obj[u].priv, k)
        /\ \A o \in Obj \ {u} : obj'[o] = obj[o]
    BY <1>1, <2>1, <2>2 DEF ObjType
  <2> QED
    BY <1>1, <2>1, <2>3, <2>4 DEF PhaseOneKept, Fresh, Mixed, Filling, SentFramesDecrypt
<1> QED
  BY <1>3, <1>4, <1>5, <1>6, <1>7, <1>8 DEF User

LEMMA DeinitPhaseOne ==
    ASSUME IInv, PhaseOneKept, deinit_handler
    PROVE  PhaseOneKept'
<1> USE DEF IInv, Types
<1>1. UNCHANGED <<tx, user>> /\ \A o \in Obj \ Destroyed : obj'[o] = obj[o]
  BY DEF deinit_handler
<1>2. \A o \in Destroyed : o \in Obj /\ obj[o].st = "listed" /\ obj'[o].alg = "none"
  BY DEF deinit_handler, Destroyed, FreeObj, Hanging, ListedListed, ListTypes
<1>3. user.pc \in {"clear", "fill"} => user.obj \in Obj /\ obj[user.obj].st = "live"
  BY DEF UserKnows, UserTypes, UserType, Hanging, LiveHang
<1>4. LeavesTx
  BY <1>1, <1>2, <1>3 DEF LeavesTx, Fresh, SameTx
<1> QED
  BY <1>4, PhaseOneStays

LEMMA TxPhaseOne ==
    ASSUME IInv, PhaseOneKept, Tx
    PROVE  PhaseOneKept'
<1> USE DEF IInv, Types
<1>1. UNCHANGED <<crypt, tx_keyidx, user, rx>> /\ obj \in [Obj -> ObjType]
  BY DEF Tx, ObjTypes
<1>2. CASE TxDecide
  <2>1. UNCHANGED obj /\ tx'.pc = "read" /\ tx'.frame = None
    BY <1>2 DEF TxDecide, NoTx
  <2>2. LeavesTx
    BY <1>1, <2>1 DEF LeavesTx, Fresh, SameTx
  <2> QED
    BY <2>2, PhaseOneStays
<1>3. CASE TxEnter
  <2> DEFINE o == crypt[tx_keyidx]
  <2>1. CASE o = None
    <3>1. UNCHANGED obj /\ tx'.pc = "null" /\ tx'.frame = tx.frame
      BY <1>3, <2>1 DEF TxEnter, TxTypes
    <3> QED
      BY <1>1, <3>1 DEF PhaseOneKept, Fresh, Mixed, Filling, SentFramesDecrypt
  <2>2. CASE o # None
    <3> DEFINE torn == obj[o].torn \/ BeingSet(o)
               q == [obj[o] EXCEPT !.refcnt = @ + 1, !.torn = torn]
    <3>1. o \in Obj
      BY <2>2 DEF ListTypes
    <3>2. obj' = [obj EXCEPT ![o] = q]
      BY <1>1, <1>3, <2>2, <3>1 DEF TxEnter, ObjType
    <3>3. tx'.pc = "use" /\ tx'.obj = o /\ tx'.frame = tx.frame
      BY <1>3, <2>2 DEF TxEnter, TxTypes
    <3>4. (obj[o].torn => torn) /\ (Filling(o) => torn)
      BY DEF BeingSet, Filling
    <3> HIDE DEF torn
    <3>5. /\ obj'[o].alg = obj[o].alg /\ obj'[o].priv = obj[o].priv /\ obj'[o].torn = torn
          /\ \A p \in Obj \ {o} : obj'[p] = obj[p]
      BY <1>1, <3>1, <3>2 DEF ObjType
    <3> HIDE DEF o
    <3>6. user.pc \in {"clear", "fill"} => obj'[user.obj].alg = user.alg
      BY <3>1, <3>5 DEF PhaseOneKept, UserKnows, UserTypes, UserType
    <3>7. \A p \in Obj : Fresh(p)' => /\ Mixed(obj'[p].priv)
                                      /\ Filling(p)' => obj'[p].priv.tx_ttak = NoTtak
      BY <1>1, <3>1, <3>4, <3>5 DEF PhaseOneKept, Fresh, Mixed, Filling
    <3>8. \A p \in Obj : Filling(p)' /\ tx'.pc = "use" /\ tx'.obj = p => obj'[p].torn
      BY <1>1, <3>3, <3>4, <3>5 DEF Filling
    <3> QED
      BY <1>1, <3>3, <3>6, <3>7, <3>8 DEF PhaseOneKept, SentFramesDecrypt
  <2> QED
    BY <2>1, <2>2
<1>4. CASE TxUse
  <2> DEFINE u == tx.obj
             p == obj[u].priv
             ttak == IF p.tx_ttak = NoTtak THEN [key |-> p.key, iv32 |-> p.tx_iv32]
                     ELSE p.tx_ttak
             frame == [key |-> p.key, ttak |-> ttak, iv32 |-> p.tx_iv32]
             m == [p EXCEPT !.tx_ttak = ttak]
  <2>1. u \in Obj /\ obj[u] \in ObjType /\ p \in Priv /\ tx.pc = "use"
    BY <1>1, <1>4 DEF TxUse, TxTypes, Counting, ObjType
  <2>2. CASE obj[u].alg = "TKIP" /\ ~obj[u].torn
    <3>1. ttak = [key |-> p.key, iv32 |-> p.tx_iv32]
      BY <2>1, <2>2 DEF PhaseOneKept, Fresh, Mixed
    <3>2. m \in Priv /\ m.key = p.key /\ m.tx_iv32 = p.tx_iv32 /\ m.tx_ttak = ttak
      BY <2>1, <3>1 DEF Priv, Ttak
    <3>3. /\ tx'.frame = frame /\ tx'.pc = "leave"
          /\ obj' = [obj EXCEPT ![u].priv = tkip_count(m)]
      BY <1>4, <2>2 DEF TxUse, TxTypes
    <3>4. frame.ttak = [key |-> frame.key, iv32 |-> frame.iv32]
      BY <3>1
    <3> HIDE DEF m, frame, ttak
    <3>5. Mixed(tkip_count(m))
      BY <3>1, <3>2 DEF Mixed, tkip_count, Priv
    <3>6. /\ obj'[u].alg = obj[u].alg /\ obj'[u].torn = obj[u].torn
          /\ obj'[u].priv = tkip_count(m)
          /\ \A o \in Obj \ {u} : obj'[o] = obj[o]
      BY <1>1, <2>1, <3>3 DEF ObjType
    <3>7. ~Filling(u)
      BY <2>1, <2>2 DEF PhaseOneKept
    <3>8. user.pc \in {"clear", "fill"} => obj'[user.obj].alg = user.alg
      BY <2>1, <3>6 DEF PhaseOneKept, UserKnows, UserTypes, UserType
    <3>9. \A o \in Obj : Fresh(o)' => /\ Mixed(obj'[o].priv)
                                      /\ Filling(o)' => obj'[o].priv.tx_ttak = NoTtak
      BY <1>1, <3>5, <3>6, <3>7 DEF PhaseOneKept, Fresh, Filling
    <3> QED
      BY <1>1, <3>3, <3>4, <3>8, <3>9 DEF PhaseOneKept, SentFramesDecrypt
  <2>3. CASE ~(obj[u].alg = "TKIP" /\ ~obj[u].torn)
    <3>1. UNCHANGED obj /\ tx'.pc = "leave" /\ tx'.frame = tx.frame
      BY <1>4, <2>3 DEF TxUse, TxTypes
    <3> QED
      BY <1>1, <3>1 DEF PhaseOneKept, Fresh, Mixed, Filling, SentFramesDecrypt
  <2> QED
    BY <2>2, <2>3
<1>5. CASE TxLeave
  <2>1. tx'.pc = "idle" /\ tx'.frame = None /\ tx.obj \in Obj
    BY <1>5 DEF TxLeave, NoTx, TxTypes, Counting
  <2>2. \A o \in Obj : /\ obj'[o].alg = obj[o].alg /\ obj'[o].torn = obj[o].torn
                       /\ obj'[o].priv = obj[o].priv
    BY <1>1, <1>5, <2>1 DEF TxLeave, ObjType
  <2>3. user.pc \in {"clear", "fill"} => user.obj \in Obj
    BY DEF UserKnows, UserTypes, UserType
  <2>4. LeavesTx
    BY <1>1, <2>1, <2>2, <2>3 DEF LeavesTx, Fresh, SameTx
  <2> QED
    BY <2>4, PhaseOneStays
<1> QED
  BY <1>2, <1>3, <1>4, <1>5 DEF Tx

LEMMA RxPhaseOne ==
    ASSUME IInv, PhaseOneKept, Rx
    PROVE  PhaseOneKept'
<1> USE DEF IInv, Types
<1>1. UNCHANGED <<user, tx>> /\ obj \in [Obj -> ObjType]
  BY DEF Rx, ObjTypes
<1>2. user.pc \in {"clear", "fill"} => user.obj \in Obj
  BY DEF UserKnows, UserTypes, UserType
<1>3. \A o \in Obj : /\ obj'[o].alg = obj[o].alg
                     /\ obj[o].torn => obj'[o].torn
                     /\ ~obj'[o].torn => SameTx(obj'[o].priv, obj[o].priv)
  <2> DEFINE u == rx.obj
  <2>1. RxRead \/ RxLeave => UNCHANGED obj
    BY DEF RxRead, RxLeave
  <2>2. rx.pc # "idle" => u \in Obj /\ rx.frame \in Frame
    BY DEF Counting, RxTypes
  <2>3. CASE UNCHANGED obj
    BY <2>3 DEF SameTx
  <2>4. CASE RxEnter
    <3> DEFINE torn == obj[u].torn \/ BeingSet(u)
               q == [obj[u] EXCEPT !.refcnt = @ + 1, !.torn = torn]
    <3>1. u \in Obj
      BY <2>2, <2>4 DEF RxEnter
    <3>2. obj' = [obj EXCEPT ![u] = q]
      BY <1>1, <2>4, <3>1 DEF RxEnter, ObjType
    <3>3. obj[u].torn => torn
      OBVIOUS
    <3> HIDE DEF torn
    <3> QED
      BY <1>1, <3>1, <3>2, <3>3 DEF ObjType, SameTx
  <2>5. CASE RxUse
    <3> DEFINE d == decrypt(obj[u].alg, obj[u].priv, rx.frame).priv
               p == IF obj[u].torn THEN obj[u].priv ELSE d
               q == [obj[u] EXCEPT !.priv = p, !.refcnt = @ - 1]
    <3>1. u \in Obj /\ obj[u].alg \in Alg /\ obj[u].priv \in Priv
      BY <1>1, <2>2, <2>5 DEF RxUse, Counting, CountedLives, RxCounts, ObjType
    <3>2. obj' = [obj EXCEPT ![u] = q]
      BY <1>1, <2>5, <3>1 DEF RxUse, ObjType
    <3>3. SameTx(p, obj[u].priv)
      BY <2>2, <2>5, <3>1, DecryptSameTx DEF RxUse, SameTx
    <3> HIDE DEF p
    <3> QED
      BY <1>1, <3>1, <3>2, <3>3 DEF ObjType, SameTx
  <2>6. CASE RxMsdu /\ ~UNCHANGED obj
    <3>1. u \in Obj /\ obj' = [obj EXCEPT ![u].priv = tkip_verified(@, rx.frame)]
      BY <2>2, <2>6 DEF RxMsdu
    <3>2. SameTx(tkip_verified(obj[u].priv, rx.frame), obj[u].priv)
      BY <1>1, <3>1 DEF tkip_verified, SameTx, ObjType, Priv
    <3> QED
      BY <1>1, <3>1, <3>2 DEF ObjType, SameTx
  <2> QED
    BY <2>1, <2>3, <2>4, <2>5, <2>6 DEF Rx
<1>4. LeavesTx
  BY <1>1, <1>2, <1>3 DEF LeavesTx, Fresh
<1> QED
  BY <1>4, PhaseOneStays

LEMMA InitPhaseOne == Init => PhaseOneKept
<1> SUFFICES ASSUME Init PROVE PhaseOneKept
  OBVIOUS
<1>1. /\ user.pc = "idle" /\ tx.pc = "idle" /\ tx.frame = None
      /\ \A o \in Obj : obj[o].alg = "none"
  BY DEF Init, NoUser, NoTx, FreeObj
<1> QED
  BY <1>1 DEF PhaseOneKept, Fresh, Filling, SentFramesDecrypt

LEMMA PhaseOneHolds == Spec => []PhaseOneKept
<1>1. IInv /\ PhaseOneKept /\ [Next]_vars => PhaseOneKept'
  <2> SUFFICES ASSUME IInv, PhaseOneKept, [Next]_vars PROVE PhaseOneKept'
    OBVIOUS
  <2>1. CASE UNCHANGED vars
    <3>1. UNCHANGED <<obj, user, tx>>
      BY <2>1 DEF vars
    <3>2. LeavesTx
      BY <3>1 DEF LeavesTx, Fresh, SameTx
    <3> QED
      BY <3>2, PhaseOneStays
  <2> QED
    BY <2>1, UserPhaseOne, DeinitPhaseOne, TxPhaseOne, RxPhaseOne DEF Next
<1> QED
  BY <1>1, InitPhaseOne, InvariantHolds, PTL DEF Spec

\* ieee80211_tkip_encrypt sends no frame that the peer cannot decrypt: what it was mixed
\* with is the key and the iv32 it announces, over every wrap of iv16 and change of the key.
THEOREM SentWithWhatIsAnnounced == Spec => []SentFramesDecrypt
<1>1. PhaseOneKept => SentFramesDecrypt
  BY DEF PhaseOneKept
<1> QED
  BY <1>1, PhaseOneHolds, PTL

-----------------------------------------------------------------------------
\* The cached phase-1 key of the peer's frames is for the iv32 of the last verified frame,
\* or no frame with that iv32 comes any more: what the peer sends never goes back.
RxGood(p, sent) ==
    p.key # None =>
      /\ p.rx_iv32 <= sent[p.key]
      /\ \/ p.rx_ttak \in {NoTtak, [key |-> p.key, iv32 |-> p.rx_iv32]}
         \/ p.rx_iv32 < sent[p.key]
RxMixed(p, f) ==
    f.key # None /\ f.key = p.key /\ p.rx_ttak = [key |-> f.key, iv32 |-> f.iv32]
Verifying(o) == rx.pc = "msdu" /\ rx.obj = o
PhaseOneCached ==
    /\ \A o \in Obj : Fresh(o) => /\ RxGood(obj[o].priv, peer)
                                  /\ Filling(o) => obj[o].priv.rx_ttak = NoTtak
    /\ \A o \in Obj : Filling(o) /\ rx.pc \in {"use", "msdu"} /\ rx.obj = o => obj[o].torn
    /\ rx.pc # "idle" /\ rx.frame.key # None => rx.frame.iv32 = peer[rx.frame.key]
    /\ \A o \in Obj : Verifying(o) /\ Fresh(o) => RxMixed(obj[o].priv, rx.frame)
    /\ ReceivedFramesDecrypt

\* Steps of the others that leave that alone.
SameRx(p, q) == p.key = q.key /\ p.rx_iv32 = q.rx_iv32 /\ p.rx_ttak = q.rx_ttak
LeavesRx ==
    /\ \A o \in Obj : Fresh(o)' => Fresh(o) /\ SameRx(obj'[o].priv, obj[o].priv)
    /\ user'.pc = "fill" =>
         /\ user' = user
         /\ obj[user.obj].torn => obj'[user.obj].torn
    /\ UNCHANGED <<rx, peer>>

LEMMA CachedStays ==
    ASSUME PhaseOneCached, LeavesRx
    PROVE  PhaseOneCached'
<1> USE DEF LeavesRx
<1>1. ASSUME NEW o \in Obj, Fresh(o)'
      PROVE  /\ RxGood(obj'[o].priv, peer')
             /\ Filling(o)' => obj'[o].priv.rx_ttak = NoTtak
             /\ Verifying(o)' => RxMixed(obj'[o].priv, rx'.frame)
  BY <1>1 DEF PhaseOneCached, RxGood, Filling, SameRx, Verifying, RxMixed
<1>2. ASSUME NEW o \in Obj, Filling(o)', rx'.pc \in {"use", "msdu"}, rx'.obj = o
      PROVE  obj'[o].torn
  BY <1>2 DEF PhaseOneCached, Filling
<1>3. rx'.pc # "idle" /\ rx'.frame.key # None => rx'.frame.iv32 = peer'[rx'.frame.key]
  BY DEF PhaseOneCached
<1>4. ReceivedFramesDecrypt'
  BY DEF PhaseOneCached, ReceivedFramesDecrypt
<1> QED
  BY <1>1, <1>2, <1>3, <1>4 DEF PhaseOneCached

LEMMA TxCached ==
    ASSUME IInv, PhaseOneCached, Tx
    PROVE  PhaseOneCached'
<1> USE DEF IInv, Types
<1>1. UNCHANGED <<user, rx, peer>> /\ obj \in [Obj -> ObjType]
  BY DEF Tx, ObjTypes
<1>2. \A o \in Obj : /\ obj'[o].alg = obj[o].alg
                     /\ obj[o].torn => obj'[o].torn
                     /\ SameRx(obj'[o].priv, obj[o].priv)
  <2>1. CASE UNCHANGED obj
    BY <2>1 DEF SameRx
  <2>2. CASE TxEnter /\ ~UNCHANGED obj
    <3> DEFINE o == crypt[tx_keyidx]
               torn == obj[o].torn \/ BeingSet(o)
               q == [obj[o] EXCEPT !.refcnt = @ + 1, !.torn = torn]
    <3>1. o \in Obj
      BY <2>2 DEF TxEnter, ListTypes
    <3>2. obj' = [obj EXCEPT ![o] = q]
      BY <1>1, <2>2, <3>1 DEF TxEnter, ObjType
    <3>3. obj[o].torn => torn
      OBVIOUS
    <3> HIDE DEF torn, o
    <3> QED
      BY <1>1, <3>1, <3>2, <3>3 DEF ObjType, SameRx
  <2>3. CASE TxUse /\ ~UNCHANGED obj
    <3> DEFINE u == tx.obj
               p == obj[u].priv
               ttak == IF p.tx_ttak = NoTtak THEN [key |-> p.key, iv32 |-> p.tx_iv32]
                       ELSE p.tx_ttak
               m == [p EXCEPT !.tx_ttak = ttak]
    <3>1. u \in Obj /\ p \in Priv
      BY <1>1, <2>3 DEF TxUse, TxTypes, Counting, ObjType
    <3>2. obj' = [obj EXCEPT ![u].priv = tkip_count(m)]
      BY <2>3 DEF TxUse
    <3>3. SameRx(tkip_count(m), p)
      <4> HIDE DEF ttak
      <4> QED
        BY <3>1 DEF tkip_count, SameRx, Priv
    <3> HIDE DEF m
    <3> QED
      BY <1>1, <3>1, <3>2, <3>3 DEF ObjType, SameRx
  <2>4. CASE TxLeave
    <3>1. tx.obj \in Obj
      BY <2>4 DEF TxLeave, TxTypes, Counting
    <3> QED
      BY <1>1, <2>4, <3>1 DEF TxLeave, ObjType, SameRx
  <2>5. TxDecide => UNCHANGED obj
    BY DEF TxDecide
  <2> QED
    BY <2>1, <2>2, <2>3, <2>4, <2>5 DEF Tx
<1>3. user.pc = "fill" => user.obj \in Obj
  BY DEF UserKnows, UserTypes, UserType
<1>4. LeavesRx
  BY <1>1, <1>2, <1>3 DEF LeavesRx, Fresh
<1> QED
  BY <1>4, CachedStays

LEMMA DeinitCached ==
    ASSUME IInv, PhaseOneCached, deinit_handler
    PROVE  PhaseOneCached'
<1> USE DEF IInv, Types
<1>1. UNCHANGED <<rx, user, peer>> /\ \A o \in Obj \ Destroyed : obj'[o] = obj[o]
  BY DEF deinit_handler
<1>2. \A o \in Destroyed : o \in Obj /\ obj[o].st = "listed" /\ obj'[o].alg = "none"
  BY DEF deinit_handler, Destroyed, FreeObj, Hanging, ListedListed, ListTypes
<1>3. user.pc = "fill" => user.obj \in Obj /\ obj[user.obj].st = "live"
  BY DEF UserKnows, UserTypes, UserType, Hanging, LiveHang
<1>4. LeavesRx
  BY <1>1, <1>2, <1>3 DEF LeavesRx, Fresh, SameRx
<1> QED
  BY <1>4, CachedStays

LEMMA UserCached ==
    ASSUME IInv, PhaseOneKept, PhaseOneCached, User
    PROVE  PhaseOneCached'
<1> USE DEF IInv, Types
<1>1. UNCHANGED <<lock, tx, rx, peer>> /\ user \in UserType /\ obj \in [Obj -> ObjType]
  BY DEF User, UserTypes, ObjTypes
<1>2. user.pc # "idle" /\ user.pc \notin {"alloc"} => user.obj \in Obj
  BY DEF UserTypes, UserType, Label, UserKnows
<1>3. CASE SetEncode \/ DisableEncode \/ SetDefaultKey
  <2>1. UNCHANGED obj /\ user'.pc # "fill"
    BY <1>1, <1>3 DEF SetEncode, DisableEncode, SetDefaultKey
  <2>2. LeavesRx
    BY <1>1, <2>1 DEF LeavesRx, Fresh, SameRx
  <2> QED
    BY <2>2, CachedStays
<1>4. CASE Unhook \/ List
  <2>1. user'.pc # "fill"
    <3>1. AfterList.pc # "fill"
      BY AfterListKnows
    <3> QED
      BY <1>1, <1>4, <3>1 DEF Unhook, List, UserType
  <2>2. user.obj \in Obj
    BY <1>2, <1>4 DEF Unhook, List
  <2>3. \A o \in Obj : /\ obj'[o].alg = obj[o].alg /\ obj'[o].torn = obj[o].torn
                       /\ obj'[o].priv = obj[o].priv
    <3>1. CASE Unhook
      BY <1>1, <2>2, <3>1 DEF Unhook, ObjType
    <3>2. CASE List
      <4> DEFINE q == [obj[user.obj] EXCEPT !.st = "listed", !.window = timer.on]
      <4>1. obj' = [obj EXCEPT ![user.obj] = q]
        BY <1>1, <2>2, <3>2 DEF List, ObjType
      <4> QED
        BY <1>1, <2>2, <4>1 DEF ObjType
    <3> QED
      BY <1>4, <3>1, <3>2
  <2>4. LeavesRx
    BY <1>1, <2>1, <2>3 DEF LeavesRx, Fresh, SameRx
  <2> QED
    BY <2>4, CachedStays
<1>5. CASE NewCrypt
  <2>1. CASE user' = NoUser /\ UNCHANGED obj
    <3>1. LeavesRx
      BY <1>1, <2>1 DEF LeavesRx, NoUser, Fresh, SameRx
    <3> QED
      BY <3>1, CachedStays
  <2>2. ASSUME NEW o \in Obj, obj[o].st = "free",
               obj' = [obj EXCEPT ![o] = [FreeObj EXCEPT !.st = "live", !.alg = user.alg]],
               user' = [user EXCEPT !.pc = "clear", !.obj = o]
        PROVE  PhaseOneCached'
    <3>1. /\ user'.pc = "clear" /\ obj'[o].priv.key = None
          /\ \A p \in Obj \ {o} : obj'[p] = obj[p]
      BY <1>1, <2>2 DEF UserType, FreeObj, Cleared
    <3>2. ~Verifying(o)
      BY <2>2, IdleTypes DEF User, Intact, Lost, Verifying
    <3>3. \A p \in Obj : Fresh(p)' => /\ RxGood(obj'[p].priv, peer')
                                      /\ Filling(p)' => obj'[p].priv.rx_ttak = NoTtak
      BY <1>1, <3>1 DEF PhaseOneCached, Fresh, RxGood, Filling
    <3>4. \A p \in Obj : Verifying(p)' /\ Fresh(p)' => RxMixed(obj'[p].priv, rx'.frame)
      BY <1>1, <3>1, <3>2 DEF PhaseOneCached, Fresh, Verifying, RxMixed
    <3> QED
      BY <1>1, <3>1, <3>3, <3>4 DEF PhaseOneCached, Filling, ReceivedFramesDecrypt
  <2> QED
    BY <1>5, <2>1, <2>2 DEF NewCrypt
<1>6. CASE SetKeyClear
  <2> DEFINE u == user.obj
             p == IF user.alg = "WEP" THEN obj[u].priv ELSE Cleared
             q == [obj[u] EXCEPT !.priv = p, !.torn = InUse(u)]
  <2>1. /\ u \in Obj /\ user.pc = "clear" /\ obj[u].alg = user.alg
        /\ user' = [user EXCEPT !.pc = "fill"]
    BY <1>2, <1>6 DEF SetKeyClear, PhaseOneKept
  <2>2. obj' = [obj EXCEPT ![u] = q]
    BY <1>1, <1>6, <2>1 DEF SetKeyClear, ObjType
  <2>3. user.alg = "TKIP" => p.key = None /\ p.rx_ttak = NoTtak
    BY DEF Cleared
  <2> HIDE DEF p
  <2>4. /\ obj'[u].alg = user.alg /\ obj'[u].priv = p /\ obj'[u].torn = InUse(u)
        /\ \A o \in Obj \ {u} : obj'[o] = obj[o]
    BY <1>1, <2>1, <2>2 DEF ObjType
  <2>5. user'.pc = "fill" /\ user'.obj = u
    BY <1>1, <2>1 DEF UserType
  <2>6. rx.pc \in {"use", "msdu"} /\ rx.obj = u => InUse(u)
    BY DEF InUse, UsedBy
  <2>7. \A o \in Obj : Fresh(o)' => /\ RxGood(obj'[o].priv, peer')
                                    /\ Filling(o)' => obj'[o].priv.rx_ttak = NoTtak
    BY <1>1, <2>1, <2>3, <2>4, <2>5 DEF PhaseOneCached, Fresh, RxGood, Filling
  <2>8. \A o \in Obj : Verifying(o)' /\ Fresh(o)' => RxMixed(obj'[o].priv, rx'.frame)
    BY <1>1, <2>4, <2>6 DEF PhaseOneCached, Fresh, Verifying, RxMixed
  <2> QED
    BY <1>1, <2>4, <2>5, <2>6, <2>7, <2>8 DEF PhaseOneCached, Filling, ReceivedFramesDecrypt
<1>7. CASE SetKeyFill
  <2> DEFINE u == user.obj
  <2>1. u \in Obj /\ user.pc = "fill" /\ user'.pc = "idle" /\ obj[u].alg = user.alg
    BY <1>2, <1>7 DEF SetKeyFill, NoUser, PhaseOneKept
  <2>2. PICK k \in Key : obj' = [obj EXCEPT ![u].priv = set_key(user.alg, @, k)]
    BY <1>7 DEF SetKeyFill
  <2> DEFINE p == set_key(user.alg, obj[u].priv, k)
  <2>3. /\ obj'[u].alg = user.alg /\ obj'[u].torn = obj[u].torn /\ obj'[u].priv = p
        /\ \A o \in Obj \ {u} : obj'[o] = obj[o]
    BY <1>1, <2>1, <2>2 DEF ObjType
  <2>4. user.alg = "TKIP" => /\ p.key = k /\ p.rx_iv32 = peer[k]
                             /\ p.rx_ttak = obj[u].priv.rx_ttak
    <3>1. obj[u].priv \in Priv
      BY <1>1, <2>1 DEF ObjType
    <3>2. set_key("TKIP", obj[u].priv, k) = tkip_set_key(obj[u].priv, k)
      BY DEF set_key
    <3> QED
      BY <3>1, <3>2, ZenonT(40) DEF tkip_set_key, Priv
  <2> HIDE DEF p
  <2>5. peer[k] \in Nat
    BY DEF ListTypes, Iv32
  <2>6. Fresh(u) => RxGood(p, peer) /\ ~Verifying(u)
    BY <1>1, <2>1, <2>4, <2>5 DEF PhaseOneCached, Fresh, Filling, Verifying, RxGood
  <2>7. \A o \in Obj : Fresh(o)' => RxGood(obj'[o].priv, peer')
    BY <1>1, <2>1, <2>3, <2>6 DEF PhaseOneCached, Fresh
  <2>8. \A o \in Obj : Verifying(o)' /\ Fresh(o)' => RxMixed(obj'[o].priv, rx'.frame)
    BY <1>1, <2>1, <2>3, <2>6 DEF PhaseOneCached, Fresh, Verifying
  <2> QED
    BY <1>1, <2>1, <2>7, <2>8 DEF PhaseOneCached, Filling, ReceivedFramesDecrypt
<1> QED
  BY <1>3, <1>4, <1>5, <1>6, <1>7 DEF User

LEMMA RxCached ==
    ASSUME IInv, PhaseOneCached, Rx
    PROVE  PhaseOneCached'
<1> USE DEF IInv, Types
<1> DEFINE u == rx.obj
           f == rx.frame
<1>1. UNCHANGED <<user, tx>> /\ obj \in [Obj -> ObjType] /\ peer \in [Key -> Iv32]
  BY DEF Rx, ObjTypes, ListTypes
<1>2. rx.pc # "idle" => u \in Obj /\ f \in Frame
  BY DEF Counting, RxTypes
<1>3. CASE RxRead
  <2>1. PICK k \in Key \cup {None}, i \in Iv32 :
           /\ k # None => i \in {peer[k], peer[k] + 1}
           /\ peer' = IF k = None THEN peer ELSE [peer EXCEPT ![k] = i]
           /\ rx'.pc = "read" /\ rx'.res = "none"
           /\ rx'.frame = [key |-> k, iv32 |-> i]
    BY <1>3 DEF RxRead, NoRx
  <2>2. UNCHANGED obj
    BY <1>3 DEF RxRead
  <2>3. \A j \in Key : peer[j] \in Nat /\ peer'[j] \in Nat /\ peer[j] <= peer'[j]
    BY <1>1, <2>1 DEF Iv32
  <2>4. \A o \in Obj : Fresh(o)' => RxGood(obj'[o].priv, peer')
    <3> SUFFICES ASSUME NEW o \in Obj, Fresh(o), obj[o].priv.key # None
                 PROVE  RxGood(obj'[o].priv, peer')
      BY <2>2 DEF Fresh, RxGood
    <3> DEFINE p == obj[o].priv
    <3>1. p.key \in Key /\ p.rx_iv32 \in Nat
      BY <1>1 DEF ObjType, Priv, Iv32
    <3>2. RxGood(p, peer)
      BY DEF PhaseOneCached
    <3> QED
      BY <2>2, <2>3, <3>1, <3>2 DEF RxGood
  <2>5. rx'.frame.key # None => rx'.frame.iv32 = peer'[rx'.frame.key]
    BY <1>1, <2>1
  <2> QED
    BY <1>1, <2>1, <2>2, <2>4, <2>5
       DEF PhaseOneCached, Fresh, Filling, Verifying, ReceivedFramesDecrypt
<1>4. CASE RxEnter
  <2> DEFINE torn == obj[u].torn \/ BeingSet(u)
             q == [obj[u] EXCEPT !.refcnt = @ + 1, !.torn = torn]
  <2>1. u \in Obj /\ UNCHANGED peer
    BY <1>2, <1>4 DEF RxEnter
  <2>2. obj' = [obj EXCEPT ![u] = q]
    BY <1>1, <1>4, <2>1 DEF RxEnter, ObjType
  <2>3. rx'.pc = "use" /\ rx'.obj = u /\ rx'.frame = f /\ rx'.res = rx.res /\ rx.pc # "idle"
    BY <1>4 DEF RxEnter, RxTypes
  <2>4. (obj[u].torn => torn) /\ (Filling(u) => torn)
    BY DEF BeingSet, Filling
  <2> HIDE DEF torn
  <2>5. /\ obj'[u].alg = obj[u].alg /\ obj'[u].priv = obj[u].priv /\ obj'[u].torn = torn
        /\ \A o \in Obj \ {u} : obj'[o] = obj[o]
    BY <1>1, <2>1, <2>2 DEF ObjType
  <2> HIDE DEF u
  <2>6. \A o \in Obj : Fresh(o)' => /\ RxGood(obj'[o].priv, peer')
                                    /\ Filling(o)' => obj'[o].priv.rx_ttak = NoTtak
    BY <1>1, <2>1, <2>4, <2>5 DEF PhaseOneCached, Fresh, Filling, RxGood
  <2>7. \A o \in Obj : Filling(o)' /\ rx'.pc \in {"use", "msdu"} /\ rx'.obj = o =>
           obj'[o].torn
    BY <1>1, <2>1, <2>3, <2>4, <2>5 DEF Filling
  <2> QED
    BY <2>1, <2>3, <2>6, <2>7 DEF PhaseOneCached, Verifying, ReceivedFramesDecrypt
<1>5. CASE RxUse
  <2> DEFINE b == obj[u].priv
             d == decrypt(obj[u].alg, b, f)
             p == IF obj[u].torn THEN b ELSE d.priv
             q == [obj[u] EXCEPT !.priv = p, !.refcnt = @ - 1]
  <2>1. /\ u \in Obj /\ obj[u].alg \in Alg /\ b \in Priv /\ f \in Frame /\ rx.pc = "use"
        /\ UNCHANGED peer
    BY <1>1, <1>2, <1>5 DEF RxUse, Counting, CountedLives, RxCounts, ObjType
  <2>2. obj' = [obj EXCEPT ![u] = q]
    BY <1>1, <1>5, <2>1 DEF RxUse, ObjType
  <2>3. /\ rx'.pc \in {"msdu", "leave"} /\ rx'.obj = u /\ rx'.frame = f
        /\ ~obj[u].torn /\ rx'.pc = "msdu" => d.good
        /\ rx'.res = "failed" => f.key # None /\ f.key = b.key /\ ~d.good /\ ~obj[u].torn
    BY <1>5 DEF RxUse, RxTypes
  <2>4. f.key # None => f.iv32 = peer[f.key]
    BY <2>1 DEF PhaseOneCached
  <2>5. ASSUME Fresh(u)
        PROVE  /\ d.good => f.key # None /\ f.key = b.key
               /\ d.good => d.priv.rx_ttak = [key |-> f.key, iv32 |-> f.iv32]
               /\ f.key # None /\ f.key = b.key => d.good
               /\ RxGood(d.priv, peer) /\ d.priv.key = b.key
    <3>1. d = tkip_decrypt(b, f) /\ RxGood(b, peer)
      BY <2>1, <2>5 DEF decrypt, Fresh, PhaseOneCached
    <3> DEFINE ttak == PhaseOne(b, f)
               m == [b EXCEPT !.rx_ttak = ttak]
               good == f.key = b.key /\ ttak = [key |-> f.key, iv32 |-> f.iv32]
    <3>2. CASE b.key = None
      BY <3>1, <3>2 DEF tkip_decrypt
    <3>3. CASE b.key # None
      <4>1. d.good = good /\ d.priv = IF good THEN m ELSE icv_error(m, f)
        BY <3>1, <3>3 DEF tkip_decrypt
      <4>2. /\ b.key \in Key /\ b.rx_iv32 \in Nat /\ f.iv32 \in Nat /\ peer[b.key] \in Nat
        BY <1>1, <2>1, <3>3 DEF Priv, Frame, Iv32
      <4>3. ttak \in Ttak
        BY <2>1, <3>3, <4>2 DEF PhaseOne, Priv, Frame, Ttak
      <4>4. f.iv32 = b.rx_iv32 =>
              ttak = [key |-> b.key, iv32 |-> b.rx_iv32] \/ f.key # b.key
        BY <2>4, <3>1, <3>3, <4>2 DEF RxGood, PhaseOne
      <4>5. f.iv32 # b.rx_iv32 => ttak = [key |-> b.key, iv32 |-> f.iv32]
        BY DEF PhaseOne
      <4>6. f.iv32 = b.rx_iv32 =>
              \/ ttak = [key |-> b.key, iv32 |-> b.rx_iv32]
              \/ b.rx_iv32 < peer[b.key]
        BY <3>1, <3>3 DEF RxGood, PhaseOne
      <4> HIDE DEF ttak
      <4>7. /\ m.key = b.key /\ m.rx_iv32 = b.rx_iv32 /\ m.rx_ttak = ttak /\ m \in Priv
        BY <2>1, <4>3 DEF Priv
      <4> HIDE DEF m
      <4>8. f.key = b.key => good
        BY <4>4, <4>5
      <4>9. CASE good
        <5>1. RxGood(m, peer)
          BY <2>4, <3>1, <3>3, <4>2, <4>7, <4>9 DEF RxGood
        <5> QED
          BY <3>3, <4>1, <4>7, <4>9, <5>1
      <4>10. CASE ~good
        <5>1. icv_error(m, f).key = b.key /\ icv_error(m, f).rx_iv32 = b.rx_iv32
          BY <4>7 DEF icv_error, Priv
        <5>2. f.iv32 # b.rx_iv32 => icv_error(m, f).rx_ttak = NoTtak
          BY <4>7 DEF icv_error, Priv
        <5>3. f.iv32 = b.rx_iv32 => icv_error(m, f) = m
          BY <4>7 DEF icv_error
        <5>4. RxGood(icv_error(m, f), peer)
          BY <3>1, <3>3, <4>6, <4>7, <5>1, <5>2, <5>3 DEF RxGood
        <5> QED
          BY <4>1, <4>8, <4>10, <5>1, <5>4
      <4> QED
        BY <4>9, <4>10
    <3> QED
      BY <3>2, <3>3
  <2>6. obj[u].alg # "TKIP" => (f.key # None /\ f.key = b.key => d.good)
    BY <2>1, CryptAssumption
       DEF CryptAssumption, decrypt, prism2_wep_decrypt, ccmp_decrypt
  <2> HIDE DEF d
  <2>7. /\ obj'[u].alg = obj[u].alg /\ obj'[u].torn = obj[u].torn /\ obj'[u].priv = p
        /\ \A o \in Obj \ {u} : obj'[o] = obj[o]
    <3> HIDE DEF p
    <3> QED
      BY <1>1, <2>1, <2>2 DEF ObjType
  <2>8. ~Filling(u) \/ obj[u].torn
    BY <2>1 DEF PhaseOneCached
  <2>9. Fresh(u) => RxGood(p, peer)
    BY <2>5 DEF Fresh
  <2>10. Fresh(u) /\ rx'.pc = "msdu" => RxMixed(p, rx'.frame)
    BY <2>3, <2>5, <2>7 DEF Fresh, RxMixed
  <2>11. rx'.res # "failed"
    BY <2>3, <2>5, <2>6 DEF Fresh
  <2> HIDE DEF p, u, f
  <2>12. \A o \in Obj : Fresh(o)' => /\ RxGood(obj'[o].priv, peer')
                                     /\ Filling(o)' => obj'[o].priv.rx_ttak = NoTtak
    BY <1>1, <2>1, <2>7, <2>8, <2>9 DEF PhaseOneCached, Fresh, Filling, RxGood
  <2>13. \A o \in Obj : Verifying(o)' /\ Fresh(o)' => RxMixed(obj'[o].priv, rx'.frame)
    BY <2>3, <2>7, <2>10 DEF Fresh, Verifying, RxMixed
  <2>14. \A o \in Obj : Filling(o)' /\ rx'.obj = o => obj'[o].torn
    BY <1>1, <2>3, <2>7, <2>8 DEF Filling
  <2> QED
    BY <2>1, <2>3, <2>4, <2>11, <2>12, <2>13, <2>14
       DEF PhaseOneCached, ReceivedFramesDecrypt
<1>6. CASE RxMsdu \/ RxLeave
  <2>1. UNCHANGED peer /\ rx'.pc = "idle" /\ rx'.res = "none"
    BY <1>6 DEF RxMsdu, RxLeave, RxDone, NoRx
  <2>2. CASE UNCHANGED obj
    BY <1>1, <2>1, <2>2 DEF PhaseOneCached, Fresh, Filling, RxGood, Verifying,
       ReceivedFramesDecrypt
  <2>3. CASE RxMsdu /\ ~UNCHANGED obj
    <3> DEFINE b == obj[u].priv
               p == tkip_verified(b, f)
    <3>1. u \in Obj /\ b \in Priv /\ f \in Frame /\ rx.pc = "msdu" /\ Fresh(u)
      BY <1>1, <1>2, <2>3 DEF RxMsdu, ObjType, Fresh
    <3>2. obj' = [obj EXCEPT ![u].priv = tkip_verified(@, f)]
      BY <2>3 DEF RxMsdu
    <3>3. p.key = b.key /\ p.rx_iv32 = f.iv32 /\ p.rx_ttak = b.rx_ttak
      BY <3>1 DEF tkip_verified, Priv
    <3>4. RxMixed(b, f) /\ f.iv32 = peer[b.key] /\ f.iv32 \in Nat
      BY <3>1 DEF PhaseOneCached, Verifying, RxMixed, Frame, Iv32
    <3> HIDE DEF p
    <3>5. RxGood(p, peer')
      BY <2>1, <3>3, <3>4 DEF RxGood, RxMixed
    <3>6. /\ obj'[u].alg = obj[u].alg /\ obj'[u].torn = obj[u].torn /\ obj'[u].priv = p
          /\ \A o \in Obj \ {u} : obj'[o] = obj[o]
      BY <1>1, <3>1, <3>2 DEF ObjType, p
    <3> QED
      BY <1>1, <2>1, <3>1, <3>3, <3>5, <3>6 DEF PhaseOneCached, Fresh, Filling, RxGood,
         Verifying, ReceivedFramesDecrypt
  <2> QED
    BY <1>6, <2>2, <2>3 DEF RxLeave
<1> QED
  BY <1>3, <1>4, <1>5, <1>6 DEF Rx

\* A frame that the peer encrypted with our key is decrypted: no damaged frame and no MSDU
\* that failed its MIC leaves a phase-1 key behind that a later frame would be mixed with.
THEOREM ReceivedWithOurKey == Spec => []ReceivedFramesDecrypt
<1>1. Init => PhaseOneKept /\ PhaseOneCached
  <2> SUFFICES ASSUME Init PROVE PhaseOneKept /\ PhaseOneCached
    OBVIOUS
  <2>1. /\ user.pc = "idle" /\ rx.pc = "idle" /\ rx.res = "none"
        /\ \A o \in Obj : obj[o].alg = "none"
    BY DEF Init, NoUser, NoRx, FreeObj
  <2> QED
    BY <2>1, InitPhaseOne
       DEF PhaseOneCached, Fresh, Filling, Verifying, ReceivedFramesDecrypt
<1>2. IInv /\ PhaseOneKept /\ PhaseOneCached /\ [Next]_vars => PhaseOneCached'
  <2> SUFFICES ASSUME IInv, PhaseOneKept, PhaseOneCached, [Next]_vars PROVE PhaseOneCached'
    OBVIOUS
  <2>1. CASE UNCHANGED vars
    <3>1. UNCHANGED <<obj, user, rx, peer>>
      BY <2>1 DEF vars
    <3>2. LeavesRx
      BY <3>1 DEF LeavesRx, Fresh, SameRx
    <3> QED
      BY <3>2, CachedStays
  <2> QED
    BY <2>1, UserCached, DeinitCached, TxCached, RxCached DEF Next
<1>3. PhaseOneCached => ReceivedFramesDecrypt
  BY DEF PhaseOneCached
<1> QED
  BY <1>1, <1>2, <1>3, InvariantHolds, PhaseOneHolds, PTL DEF Spec
(***************************************************************************)
(* The counters.                                                           *)
(***************************************************************************)
LEMMA Quotient ==
    ASSUME NEW a \in Nat, NEW r \in 0 .. Byte - 1
    PROVE  (Byte * a + r) \div Byte = a /\ (Byte * a + r) % Byte = r
<1> DEFINE x == Byte * a + r  q == x \div Byte  u == x % Byte
<1>1. Byte \in Nat /\ Byte > 1
  BY CryptAssumption DEF CryptAssumption
<1>2. Byte * a \in Nat /\ x \in Nat
  BY <1>1
<1>3. q \in Int /\ u \in 0 .. Byte - 1 /\ x = Byte * q + u
  BY <1>1, <1>2
<1> HIDE DEF q, u
<1> DEFINE k == q - a
<1>4. k \in Int /\ q = a + k
  BY <1>3
<1> HIDE DEF k
<1>5. Byte * (a + k) = Byte * a + Byte * k
  BY <1>1, <1>4
<1>6. Byte * k = r - u /\ Byte * k \in Int
  BY <1>1, <1>2, <1>3, <1>4, <1>5
<1>7. CASE k >= 1
  <2>1. PICK j \in Nat : k = j + 1
    BY <1>4, <1>7
  <2>2. Byte * (j + 1) = Byte * j + Byte /\ Byte * j \in Nat
    BY <1>1
  <2> QED
    BY <1>1, <1>3, <1>6, <2>1, <2>2
<1>8. CASE k <= -1
  <2> DEFINE j == -k - 1
  <2>1. j \in Nat /\ k = -(j + 1)
    BY <1>4, <1>8
  <2> HIDE DEF j
  <2>2. Byte * (-(j + 1)) = -(Byte * j) - Byte /\ Byte * j \in Nat
    BY <1>1, <2>1
  <2> QED
    BY <1>1, <1>3, <1>6, <2>1, <2>2
<1>9. CASE k = 0
  <2>1. q = a /\ u = r
    BY <1>1, <1>3, <1>4, <1>6, <1>9
  <2> QED
    BY <2>1 DEF q, u
<1> QED
  BY <1>4, <1>7, <1>8, <1>9

\* The step over a weak iv carries out of the second byte.
LEMMA SkipsWeak ==
    ASSUME NEW x \in Nat, SecondByte(x) = Byte - 1
    PROVE  SecondByte(x + Byte) = 0
<1> DEFINE q == x \div Byte  r == x % Byte  a == q \div Byte
<1>1. Byte \in Nat /\ Byte > 1
  BY CryptAssumption DEF CryptAssumption
<1>2. q \in Nat /\ r \in 0 .. Byte - 1 /\ x = Byte * q + r
  BY <1>1
<1>3. q % Byte = Byte - 1
  BY DEF SecondByte
<1> HIDE DEF q, r
<1>4. a \in Nat /\ q = Byte * a + (Byte - 1)
  BY <1>1, <1>2, <1>3
<1> HIDE DEF a
<1>5. q + 1 = Byte * (a + 1) + 0
  <2>1. Byte * (a + 1) = Byte * a + Byte /\ Byte * a \in Nat
    BY <1>1, <1>4
  <2> QED
    BY <1>1, <1>2, <1>4, <2>1
<1>6. (q + 1) % Byte = 0
  <2>1. a + 1 \in Nat /\ 0 \in 0 .. Byte - 1
    BY <1>1, <1>4
  <2> QED
    BY <1>5, <2>1, Quotient
<1>7. x + Byte = Byte * (q + 1) + r
  <2>1. Byte * (q + 1) = Byte * q + Byte /\ Byte * q \in Nat
    BY <1>1, <1>2
  <2> QED
    BY <1>1, <1>2, <2>1
<1>8. (x + Byte) \div Byte = q + 1
  BY <1>2, <1>7, Quotient
<1> QED
  BY <1>6, <1>8 DEF SecondByte

LEMMA NeverWeak == WepSkipsWeak
<1> SUFFICES ASSUME NEW iv \in 0 .. Byte * Byte * Byte - 1, Weak(wep_next(iv))
             PROVE  FALSE
  BY DEF WepSkipsWeak
<1>1. Byte \in Nat /\ Byte > 1 /\ iv \in Nat
  BY CryptAssumption DEF CryptAssumption
<1>2. CASE Weak(iv + 1)
  <2>1. SecondByte(iv + 1) = Byte - 1
    BY <1>2 DEF Weak
  <2>2. SecondByte(iv + 1 + Byte) = 0
    BY <1>1, <2>1, SkipsWeak
  <2>3. SecondByte(iv + 1 + Byte) = Byte - 1
    BY <1>2 DEF wep_next, Weak
  <2> QED
    BY <1>1, <2>2, <2>3
<1>3. CASE ~Weak(iv + 1)
  BY <1>3 DEF wep_next
<1> QED
  BY <1>2, <1>3

\* The byte that ccmp_next raises is the last one that is not at its end.
LEMMA Raised ==
    ASSUME NEW pn \in PacketNumber, \E i \in 1 .. PnLen : pn[i] # Byte - 1
    PROVE  \E k \in 1 .. PnLen :
              /\ pn[k] < Byte - 1 /\ ccmp_next(pn)[k] = pn[k] + 1
              /\ \A j \in 1 .. PnLen : j < k => ccmp_next(pn)[j] = pn[j]
              /\ \A j \in 1 .. PnLen : j > k => pn[j] = Byte - 1 /\ ccmp_next(pn)[j] = 0
<1> DEFINE T == {PnLen - i : i \in {n \in 1 .. PnLen : pn[n] # Byte - 1}}
<1>1. Byte \in Nat /\ Byte > 1 /\ PnLen \in Nat
  BY CryptAssumption DEF CryptAssumption
<1>2. \A i \in 1 .. PnLen : pn[i] \in 0 .. Byte - 1
  BY DEF PacketNumber
<1>3. PICK x \in T : \A y \in T : x <= y
  <2>1. T \subseteq Nat /\ T # {}
    BY <1>1
  <2> QED
    BY <2>1, LeastNat
<1>4. PICK k \in 1 .. PnLen : x = PnLen - k /\ pn[k] # Byte - 1
  BY <1>3
<1>5. \A j \in 1 .. PnLen : j > k => pn[j] = Byte - 1
  <2> SUFFICES ASSUME NEW j \in 1 .. PnLen, j > k, pn[j] # Byte - 1 PROVE FALSE
    OBVIOUS
  <2>1. PnLen - j \in T
    OBVIOUS
  <2> HIDE DEF T
  <2>2. PnLen - k <= PnLen - j
    BY <1>3, <1>4, <2>1
  <2> QED
    BY <1>1, <2>2
<1> HIDE DEF T
<1>6. \A j \in 1 .. PnLen :
         ccmp_next(pn)[j] = IF \A i \in j + 1 .. PnLen : pn[i] = Byte - 1
                              THEN (pn[j] + 1) % Byte ELSE pn[j]
  BY DEF ccmp_next
<1>7. pn[k] < Byte - 1 /\ ccmp_next(pn)[k] = pn[k] + 1
  <2>1. \A i \in k + 1 .. PnLen : pn[i] = Byte - 1
    BY <1>1, <1>5
  <2>2. pn[k] < Byte - 1 /\ pn[k] \in Nat
    BY <1>1, <1>2, <1>4
  <2>3. (pn[k] + 1) % Byte = pn[k] + 1
    BY <1>1, <2>2
  <2> QED
    BY <1>6, <2>1, <2>2, <2>3
<1>8. ASSUME NEW j \in 1 .. PnLen, j < k
      PROVE  ccmp_next(pn)[j] = pn[j]
  <2>1. k \in j + 1 .. PnLen
    BY <1>1, <1>8
  <2> QED
    BY <1>4, <1>6, <2>1
<1>9. ASSUME NEW j \in 1 .. PnLen, j > k
      PROVE  pn[j] = Byte - 1 /\ ccmp_next(pn)[j] = 0
  <2>1. pn[j] = Byte - 1 /\ \A i \in j + 1 .. PnLen : pn[i] = Byte - 1
    BY <1>1, <1>5, <1>9
  <2>2. (Byte - 1 + 1) % Byte = 0
    BY <1>1
  <2> QED
    BY <1>6, <2>1, <2>2
<1> QED
  BY <1>7, <1>8, <1>9
\* No number lies between one and the next, and the last is followed by zero.
LEMMA CountsUp == CcmpCountsUp
<1> SUFFICES ASSUME NEW pn \in PacketNumber
             PROVE  IF \A i \in 1 .. PnLen : pn[i] = Byte - 1
                      THEN \A i \in 1 .. PnLen : ccmp_next(pn)[i] = 0
                      ELSE /\ Before(pn, ccmp_next(pn))
                           /\ \A qn \in PacketNumber : Before(pn, qn) =>
                                 qn = ccmp_next(pn) \/ Before(ccmp_next(pn), qn)
  BY Zenon DEF CcmpCountsUp
<1> DEFINE next == ccmp_next(pn)
<1>1. Byte \in Nat /\ Byte > 1 /\ PnLen \in Nat
  BY CryptAssumption DEF CryptAssumption
<1>2. CASE \A i \in 1 .. PnLen : pn[i] = Byte - 1
  <2>1. ASSUME NEW i \in 1 .. PnLen PROVE next[i] = 0
    <3>1. \A j \in i + 1 .. PnLen : pn[j] = Byte - 1
      BY <1>1, <1>2
    <3>2. next[i] = (Byte - 1 + 1) % Byte
      BY <1>2, <3>1 DEF ccmp_next
    <3> QED
      BY <1>1, <3>2
  <2> QED
    BY <1>2, <2>1
<1>3. CASE ~(\A i \in 1 .. PnLen : pn[i] = Byte - 1)
  <2>1. PICK k \in 1 .. PnLen :
           /\ pn[k] < Byte - 1 /\ next[k] = pn[k] + 1
           /\ \A j \in 1 .. PnLen : j < k => next[j] = pn[j]
           /\ \A j \in 1 .. PnLen : j > k => pn[j] = Byte - 1 /\ next[j] = 0
    BY <1>3, Raised
  <2>2. \A i \in 1 .. PnLen : pn[i] \in 0 .. Byte - 1
    BY DEF PacketNumber
  <2>3. next = [i \in 1 .. PnLen |-> next[i]]
    BY DEF ccmp_next
  <2> HIDE DEF next
  <2>4. Before(pn, next)
    <3>1. pn[k] < next[k] /\ \A j \in 1 .. k - 1 : pn[j] = next[j]
      BY <1>1, <2>1, <2>2
    <3> QED
      BY <3>1 DEF Before
  <2>5. ASSUME NEW qn \in PacketNumber, Before(pn, qn)
        PROVE  qn = next \/ Before(next, qn)
    <3>1. PICK i \in 1 .. PnLen : pn[i] < qn[i] /\ \A j \in 1 .. i - 1 : pn[j] = qn[j]
      BY <2>5 DEF Before
    <3>2. \A j \in 1 .. PnLen : qn[j] \in 0 .. Byte - 1
      BY DEF PacketNumber
    <3>3. i <= k
      <4> SUFFICES ASSUME i > k PROVE FALSE
        BY <1>1
      <4>1. pn[i] = Byte - 1
        BY <2>1
      <4> QED
        BY <1>1, <3>1, <3>2, <4>1
    <3>4. \A j \in 1 .. i - 1 : next[j] = qn[j]
      BY <1>1, <2>1, <3>1, <3>3
    <3>5. CASE next[i] < qn[i]
      BY <3>4, <3>5 DEF Before
    <3>6. CASE ~(next[i] < qn[i])
      <4>1. i = k /\ next[k] = qn[k]
        <5>1. CASE i < k
          BY <2>1, <3>1, <3>6, <5>1
        <5>2. CASE i = k
          BY <1>1, <2>1, <2>2, <3>1, <3>2, <3>6, <5>2
        <5> QED
          BY <1>1, <3>3, <5>1, <5>2
      <4> DEFINE T == {j \in 1 .. PnLen : next[j] # qn[j]}
      <4>2. CASE T = {}
        <5>1. qn = [j \in 1 .. PnLen |-> qn[j]]
          BY DEF PacketNumber
        <5>2. \A j \in 1 .. PnLen : next[j] = qn[j]
          BY <4>2
        <5> QED
          BY <2>3, <5>1, <5>2
      <4>3. CASE T # {}
        <5>1. T \subseteq Nat
          BY <1>1
        <5>2. PICK m \in T : \A y \in T : m <= y
          BY <4>3, <5>1, LeastNat
        <5>3. \A j \in 1 .. m - 1 : next[j] = qn[j]
          <6> SUFFICES ASSUME NEW j \in 1 .. m - 1, next[j] # qn[j] PROVE FALSE
            OBVIOUS
          <6>1. j \in T
            BY <1>1, <5>2
          <6> HIDE DEF T
          <6>2. m <= j /\ m \in Nat
            BY <5>1, <5>2, <6>1
          <6> QED
            BY <6>2
        <5>4. m \in 1 .. PnLen /\ m > k
          <6>1. m \in 1 .. PnLen /\ next[m] # qn[m]
            BY <5>2
          <6>2. \A j \in 1 .. PnLen : j <= k => next[j] = qn[j]
            BY <1>1, <3>4, <4>1
          <6> QED
            BY <1>1, <6>1, <6>2
        <5>5. next[m] = 0 /\ qn[m] \in 0 .. Byte - 1 /\ next[m] # qn[m]
          BY <2>1, <3>2, <5>2, <5>4
        <5>6. next[m] < qn[m]
          BY <1>1, <5>5
        <5> QED
          BY <5>3, <5>4, <5>6 DEF Before
      <4> QED
        BY <4>2, <4>3
    <3> QED
      BY <3>5, <3>6
  <2> QED
    BY <1>3, <2>4, <2>5 DEF next
<1> QED
  BY <1>2, <1>3

\* Whatever number its last frame had, the next packet number of CCMP is the one right
\* after it, for every length of the number, so that none comes back before all were
\* used; and WEP never sends an iv of the weak class, for every length of the key.
THEOREM CountersCountOn == Spec => []CountersGoOn
<1>1. CountersGoOn
  BY CountsUp, NeverWeak DEF CountersGoOn
<1> QED
  BY <1>1, PTL
=============================================================================
