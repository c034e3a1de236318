--------------------------- MODULE TxbPool_proofs ---------------------------
(***************************************************************************)
(* For every pool size, every set of thresholds, crypto overheads and      *)
(* payloads that satisfy TxbPoolAssumption, the fragments of a frame of    *)
(* the default MTU fit the buffers of its block, and fragments that fit    *)
(* carry that frame and nothing else.                                      *)
(***************************************************************************)
EXTENDS TxbPool, TLAPS

\* The frames ieee80211_xmit builds.
LegalFrame ==
    {f \in FrameType :
        /\ f.payload \in Msdu
        /\ f.extra \in Overhead
        /\ f.added \in {0, f.extra}
        /\ f.frag_size \in MIN_FRAG_THRESHOLD .. MAX_FRAG_THRESHOLD}

-----------------------------------------------------------------------------
(* Cutting b bytes into pieces of d. *)

Pieces(b, d) == b \div d + (IF b % d = 0 THEN 0 ELSE 1)
LastPiece(b, d) == IF b % d = 0 THEN d ELSE b % d

\* Quotient and remainder, as the provers need them (operators / and % of C).
LEMMA Division ==
    ASSUME NEW b \in Nat, NEW d \in Nat \ {0}
    PROVE  /\ b \div d \in Nat
           /\ b % d \in 0 .. d - 1
           /\ b = d * (b \div d) + (b % d)
  BY SMT

\* What is left for the last piece is a whole piece or less, and not nothing
\* (nr_frags and bytes_last_frag in ieee80211_xmit).
LEMMA Cutting ==
    ASSUME NEW b \in Nat \ {0}, NEW d \in Nat \ {0}
    PROVE  /\ Pieces(b, d) \in Nat \ {0}
           /\ LastPiece(b, d) \in 1 .. d
           /\ b - (Pieces(b, d) - 1) * d = LastPiece(b, d)
  <1> DEFINE q == b \div d
             r == b % d
  <1>1. q \in Nat /\ r \in 0 .. d - 1 /\ b = d * q + r
    BY Division
  <1>2. CASE r = 0
    <2>1. Pieces(b, d) = q /\ LastPiece(b, d) = d
      BY <1>1, <1>2 DEF Pieces, LastPiece
    <2>2. q # 0
      BY <1>1, <1>2
    <2>3. (q - 1) * d = d * q - d
      BY <1>1
    <2> QED
      BY <1>1, <1>2, <2>1, <2>2, <2>3
  <1>3. CASE r # 0
    <2>1. Pieces(b, d) = q + 1 /\ LastPiece(b, d) = r
      BY <1>1, <1>3 DEF Pieces, LastPiece
    <2>2. (q + 1 - 1) * d = d * q
      BY <1>1
    <2> QED
      BY <1>1, <1>3, <2>1, <2>2
  <1> QED
    BY <1>2, <1>3

\* Larger pieces are never more, so the smallest threshold and the largest
\* overhead bound the number of fragments (MAX_NUM_FRAGS).
LEMMA PiecesBound ==
    ASSUME NEW b \in Nat \ {0}, NEW d \in Nat \ {0},
           NEW m \in Nat \ {0}, NEW n \in Nat,
           m <= d, b <= n * m
    PROVE  Pieces(b, d) <= n
  <1> DEFINE p == Pieces(b, d)
  <1>1. p \in Nat \ {0} /\ LastPiece(b, d) >= 1 /\ b - (p - 1) * d = LastPiece(b, d)
    BY Cutting
  <1> HIDE DEF p
  <1>2. SUFFICES ASSUME p >= n + 1
                 PROVE  FALSE
    BY <1>1 DEF p
  <1>3. (p - 1) * d >= n * d
    <2>1. p - 1 = n + (p - 1 - n) /\ p - 1 - n \in Nat
      BY <1>1, <1>2
    <2>2. \A k \in Nat : (n + k) * d = n * d + k * d /\ k * d >= 0
      BY SMT
    <2> QED
      BY <2>1, <2>2
  <1>4. n * d >= n * m
    <2>1. d = m + (d - m) /\ d - m \in Nat
      OBVIOUS
    <2>2. \A k \in Nat : n * (m + k) = n * m + n * k /\ n * k >= 0
      BY SMT
    <2> QED
      BY <2>1, <2>2
  <1>5. b >= 1 + (p - 1) * d
    BY <1>1 DEF p
  <1> HIDE DEF p
  <1>6. (p - 1) * d \in Int /\ n * d \in Int /\ n * m \in Int
    BY <1>1
  <1> QED
    BY <1>3, <1>4, <1>5, <1>6

-----------------------------------------------------------------------------
(* One block. *)

\* A frame is too much for a block only when its payload is more than the
\* default MTU allows and more than the block's buffers full.
Fits(f) ==
    nr_frags(f) > MAX_NUM_FRAGS =>
       /\ f.payload > DEFAULT_MSDU
       /\ f.payload > MAX_NUM_FRAGS * bytes_per_frag(f)

\* A legal frame leaves room for its payload and, at the default MTU, needs no
\* more fragments than a block has buffers (ieee80211_xmit, r8180_wx_set_frag).
LEMMA LegalFrameFits ==
    ASSUME NEW f \in LegalFrame
    PROVE  /\ bytes_per_frag(f) \in Nat \ {0}
           /\ nr_frags(f) \in Nat \ {0}
           /\ bytes_last_frag(f) \in 1 .. bytes_per_frag(f)
           /\ f.payload - (nr_frags(f) - 1) * bytes_per_frag(f) = bytes_last_frag(f)
           /\ Fits(f)
  <1> DEFINE d == bytes_per_frag(f)
             m == MIN_FRAG_THRESHOLD - HDR_LEN - f.extra
             b == f.payload
             n == Pieces(f.payload, d)
  <1>1. /\ b \in Nat \ {0} /\ f.extra \in Nat /\ f.extra \in Overhead
        /\ f.frag_size \in Nat /\ f.frag_size >= MIN_FRAG_THRESHOLD
    BY TxbPoolAssumption DEF LegalFrame, FrameType
  <1>2. m \in Nat \ {0} /\ d \in Nat \ {0} /\ m <= d
    BY <1>1, TxbPoolAssumption DEF bytes_per_frag
  <1>3. DEFAULT_MSDU <= MAX_NUM_FRAGS * m /\ DEFAULT_MSDU \in Nat /\ MAX_NUM_FRAGS \in Nat
    BY <1>1, TxbPoolAssumption
  <1>4. nr_frags(f) = n /\ bytes_last_frag(f) = LastPiece(b, d)
    BY DEF nr_frags, bytes_last_frag, Pieces, LastPiece
  <1> HIDE DEF d, m, b, n
  <1>5. /\ n \in Nat \ {0}
        /\ LastPiece(b, d) \in 1 .. d
        /\ b - (n - 1) * d = LastPiece(b, d)
    BY <1>1, <1>2, Cutting DEF n, b
  <1>6. MAX_NUM_FRAGS * m \in Nat /\ MAX_NUM_FRAGS * d \in Nat
    BY <1>2, <1>3
  <1>7. b <= DEFAULT_MSDU => n <= MAX_NUM_FRAGS
    <2> SUFFICES ASSUME b <= DEFAULT_MSDU PROVE n <= MAX_NUM_FRAGS
      OBVIOUS
    <2>1. b <= MAX_NUM_FRAGS * m
      BY <1>1, <1>3, <1>6
    <2> QED
      BY <1>1, <1>2, <1>3, <2>1, PiecesBound DEF n, b
  <1>8. b <= MAX_NUM_FRAGS * d => n <= MAX_NUM_FRAGS
    <2> SUFFICES ASSUME b <= MAX_NUM_FRAGS * d PROVE n <= MAX_NUM_FRAGS
      OBVIOUS
    <2>1. PICK k \in Nat \ {0} : k = d /\ k <= d /\ b <= MAX_NUM_FRAGS * k
      BY <1>2
    <2> QED
      BY <1>1, <1>2, <1>3, <2>1, PiecesBound DEF n, b
  <1>9. n > MAX_NUM_FRAGS => b > DEFAULT_MSDU /\ b > MAX_NUM_FRAGS * d
    BY <1>1, <1>3, <1>5, <1>6, <1>7, <1>8
  <1> QED
    BY <1>2, <1>4, <1>5, <1>9 DEF d, b, Fits

\* Clearing as many buffers as the last frame had leaves none with anything in it.
LEMMA ClearedIsEmpty ==
    ASSUME NEW txb \in Txb, SpareIsEmpty(txb)
    PROVE  cleared(txb) = [i \in Buffer |-> 0]
  BY DEF cleared, SpareIsEmpty, Txb, Buffer

\* A block that is built holds the frame it was built from (ieee80211_xmit).
LEMMA BuiltCarries ==
    ASSUME NEW txb \in Txb, SpareIsEmpty(txb), NEW f \in LegalFrame
    PROVE  /\ built(txb, f) \in Txb
           /\ built(txb, f).nr_frags = nr_frags(f) /\ built(txb, f).frame = f
           /\ SpareIsEmpty(built(txb, f))
           /\ nr_frags(f) <= MAX_NUM_FRAGS => CarriesItsFrame(built(txb, f))
  <1> DEFINE n == nr_frags(f)
             d == bytes_per_frag(f)
             last == bytes_last_frag(f)
             t == built(txb, f)
             len == [i \in Buffer |->
                CASE i < n - 1 -> HDR_LEN + d + f.added
                  [] i = n - 1 -> HDR_LEN + last + f.added
                  [] OTHER -> 0]
  <1>1. /\ d \in Nat \ {0} /\ n \in Nat \ {0} /\ last \in 1 .. d
        /\ f.payload - (n - 1) * d = last
    BY LegalFrameFits
  <1>2. /\ f \in FrameType /\ f.added \in Nat /\ f.added <= f.extra
        /\ HDR_LEN \in Nat /\ MAX_NUM_FRAGS \in Nat
        /\ f.extra \in Nat /\ f.frag_size \in Nat
    BY TxbPoolAssumption DEF LegalFrame, FrameType
  <1>3. HDR_LEN + d + f.added <= f.frag_size
    BY <1>2 DEF bytes_per_frag
  <1> HIDE DEF n, d, last
  <1>4. \A i \in Buffer :
           /\ cleared(txb)[i] = 0
           /\ len[i] \in Nat
           /\ 0 + len[i] = len[i]
    <2>1. \A i \in Buffer : cleared(txb)[i] = 0
      BY ClearedIsEmpty
    <2>2. HDR_LEN + d + f.added \in Nat /\ HDR_LEN + last + f.added \in Nat
      BY <1>1, <1>2
    <2>3. \A i \in Buffer : len[i] \in Nat
      BY <2>2
    <2>4. \A k \in Nat : 0 + k = k
      OBVIOUS
    <2> QED
      BY <2>1, <2>3, <2>4
  <1>5. t = [nr_frags |-> n, frame |-> f, len |-> len]
    <2>1. t.len = [i \in Buffer |-> cleared(txb)[i] + len[i]]
      BY DEF built, n, d, last
    <2>2. t.len = len
      BY <2>1, <1>4
    <2> QED
      BY <2>2 DEF built, n
  <1> HIDE DEF t
  <1>6. t \in Txb
    <2>1. len \in [Buffer -> Nat]
      BY <1>4
    <2>2. n \in Nat
      BY <1>1, <1>2
    <2> QED
      BY <1>2, <1>5, <2>1, <2>2 DEF Txb
  <1>7. SpareIsEmpty(t)
    BY <1>1, <1>2, <1>5 DEF SpareIsEmpty, Buffer
  <1>8. ASSUME n <= MAX_NUM_FRAGS PROVE CarriesItsFrame(t)
    <2>0. n \in 1 .. MAX_NUM_FRAGS
      BY <1>1, <1>2, <1>8
    <2>1. /\ \A i \in 0 .. n - 2 : i \in Buffer /\ len[i] = HDR_LEN + d + f.added
          /\ n - 1 \in Buffer /\ len[n - 1] = HDR_LEN + last + f.added
      BY <1>2, <2>0 DEF Buffer
    <2>2. \A i \in 0 .. n - 1 : len[i] <= f.frag_size
      <3>1. HDR_LEN + last + f.added <= f.frag_size
        BY <1>1, <1>2, <1>3
      <3> QED
        BY <1>1, <1>2, <1>3, <2>1, <3>1
    <2>3. t.nr_frags = n /\ t.frame = f /\ t.len = len
      BY <1>5
    <2> HIDE DEF len
    <2> QED
      BY <1>1, <2>1, <2>2, <2>3 DEF CarriesItsFrame, d
  <1> QED
    BY <1>5, <1>6, <1>7, <1>8 DEF t, n

-----------------------------------------------------------------------------
(* The pool. *)

\* What the run checks is inductive as it stands: SpareBuffersAreEmpty is the part
\* that the rest needs.
IInv ==
    /\ TypeOK
    /\ FragmentsFit
    /\ FragmentsCarryThePayload
    /\ SpareBuffersAreEmpty

\* Whatever a user asks for, a threshold that is accepted is within the bounds
\* (r8180_wx_set_frag rounds down, and the lower bound is even).
LEMMA ThresholdInBounds ==
    ASSUME TypeOK, NEW value \in FragValue, r8180_wx_set_frag(value)
    PROVE  fts' \in MIN_FRAG_THRESHOLD .. MAX_FRAG_THRESHOLD
  <1>1. /\ MIN_FRAG_THRESHOLD \in Nat /\ MIN_FRAG_THRESHOLD % 2 = 0
        /\ MAX_FRAG_THRESHOLD \in Nat /\ value \in Nat
        /\ value \in MIN_FRAG_THRESHOLD .. MAX_FRAG_THRESHOLD
        /\ fts' = value - (value % 2)
    BY TxbPoolAssumption DEF r8180_wx_set_frag
  <1> QED
    BY <1>1

\* A frame of the next-state relation is legal (ieee80211_xmit).
LEMMA FrameIsLegal ==
    ASSUME TypeOK, NEW payload \in Msdu, NEW extra \in Overhead,
           NEW f \in Frame(payload, extra)
    PROVE  f \in LegalFrame
  <1>1. payload \in Nat /\ extra \in Nat /\ fts \in Nat /\ MAX_FRAG_THRESHOLD \in Nat
    BY TxbPoolAssumption DEF TypeOK
  <1>2. MAX_FRAG_THRESHOLD \in MIN_FRAG_THRESHOLD .. MAX_FRAG_THRESHOLD
    BY TxbPoolAssumption
  <1> QED
    BY <1>1, <1>2 DEF Frame, LegalFrame, FrameType, TypeOK

\* The blocks start empty (ieee80211_alloc_txb).
LEMMA InitOK == Init => IInv
  <1> SUFFICES ASSUME Init PROVE IInv
    OBVIOUS
  <1>1. EmptyTxb \in Txb
    BY DEF EmptyTxb, Txb, FrameType, NoFrame
  <1>2. TypeOK
    <2>1. alloc_txb \in [Index -> Txb]
      BY <1>1 DEF Init
    <2>2. /\ 0 \in Index
          /\ DEFAULT_FRAG_THRESHOLD \in MIN_FRAG_THRESHOLD .. MAX_FRAG_THRESHOLD
          /\ 0 \in 0 .. MaxRaw
      BY TxbPoolAssumption DEF Index
    <2>3. /\ tx_skb_index = 0 /\ tx_pending_txb = 0
          /\ fts = DEFAULT_FRAG_THRESHOLD /\ raw = 0
      BY DEF Init
    <2>4. call \in BOOLEAN
      BY Zenon DEF Init
    <2> QED
      BY <2>1, <2>2, <2>3, <2>4 DEF TypeOK
  <1>3. FragmentsFit /\ FragmentsCarryThePayload /\ SpareBuffersAreEmpty
    BY TxbPoolAssumption DEF Init, EmptyTxb, FragmentsFit,
       FragmentsCarryThePayload, Used, SpareBuffersAreEmpty, SpareIsEmpty
  <1> QED
    BY <1>2, <1>3 DEF IInv

\* Building a block keeps the invariant: the block is as BuiltCarries says, and
\* the others stay what they were (ieee80211_xmit).
LEMMA XmitOK ==
    ASSUME IInv, NEW f \in LegalFrame, ieee80211_xmit(f)
    PROVE  IInv'
  <1>1. /\ tx_skb_index \in Index /\ alloc_txb \in [Index -> Txb]
        /\ \A s \in Index : SpareIsEmpty(alloc_txb[s])
    BY DEF IInv, TypeOK, SpareBuffersAreEmpty
  <1> DEFINE t == built(alloc_txb[tx_skb_index], f)
  <1>2. /\ t \in Txb /\ SpareIsEmpty(t)
        /\ t.nr_frags > MAX_NUM_FRAGS =>
              /\ t.frame.payload > DEFAULT_MSDU
              /\ t.frame.payload > MAX_NUM_FRAGS * bytes_per_frag(t.frame)
        /\ t.nr_frags <= MAX_NUM_FRAGS => CarriesItsFrame(t)
    BY <1>1, BuiltCarries, LegalFrameFits DEF Fits
  <1>3. alloc_txb' = [alloc_txb EXCEPT ![tx_skb_index] = t]
    BY DEF ieee80211_xmit
  <1> HIDE DEF t
  <1>4. /\ alloc_txb' \in [Index -> Txb]
        /\ \A s \in Index : alloc_txb'[s] = IF s = tx_skb_index THEN t ELSE alloc_txb[s]
    BY <1>1, <1>2, <1>3
  <1>5. TypeOK'
    <2>1. tx_skb_index' \in Index
      BY <1>1, TxbPoolAssumption DEF ieee80211_xmit, Index
    <2> QED
      BY <1>4, <2>1 DEF IInv, TypeOK, ieee80211_xmit
  <1>6. FragmentsFit'
    BY <1>2, <1>4, TxbPoolAssumption DEF IInv, FragmentsFit
  <1>7. FragmentsCarryThePayload'
    <2> SUFFICES ASSUME NEW s \in Used'
                 PROVE  alloc_txb'[s].nr_frags <= MAX_NUM_FRAGS
                           => CarriesItsFrame(alloc_txb'[s])
      BY DEF FragmentsCarryThePayload
    <2>1. s \in Index
      BY DEF Used
    <2>2. CASE s = tx_skb_index
      BY <1>2, <1>4, <2>1, <2>2
    <2>3. CASE s # tx_skb_index
      BY <1>4, <2>1, <2>3 DEF IInv, FragmentsCarryThePayload, Used
    <2> QED
      BY <2>2, <2>3
  <1>8. SpareBuffersAreEmpty'
    <2> SUFFICES ASSUME NEW s \in Index
                 PROVE  SpareIsEmpty(alloc_txb'[s])
      BY DEF SpareBuffersAreEmpty
    <2> QED
      BY <1>1, <1>2, <1>4
  <1> QED
    BY <1>5, <1>6, <1>7, <1>8 DEF IInv

\* A step that leaves the blocks alone keeps what is said of them.
LEMMA BlocksUnchanged ==
    ASSUME IInv, TypeOK', UNCHANGED alloc_txb
    PROVE  IInv'
  BY DEF IInv, FragmentsFit, FragmentsCarryThePayload, Used, SpareBuffersAreEmpty

\* Every step keeps the invariant.
LEMMA NextOK ==
    ASSUME IInv, [Next]_vars
    PROVE  IInv'
  <1>0. TypeOK
    BY DEF IInv
  <1>1. ASSUME NEW payload \in Msdu, NEW extra \in Overhead,
               NEW f \in Frame(payload, extra), ieee80211_xmit(f)
        PROVE  IInv'
    BY <1>0, <1>1, FrameIsLegal, XmitOK
  <1>2. ASSUME softmac_xmit
        PROVE  IInv'
    <2>1. call' \in BOOLEAN
      BY <1>2, Zenon DEF softmac_xmit
    <2>2. tx_pending_txb' = tx_pending_txb - 1
          /\ UNCHANGED <<alloc_txb, tx_skb_index, fts, raw>>
      BY <1>2 DEF softmac_xmit
    <2>3. TypeOK'
      BY <1>0, <2>1, <2>2 DEF TypeOK
    <2> QED
      BY <2>2, <2>3, BlocksUnchanged
  <1>3. ASSUME raw_xmit
        PROVE  IInv'
    <2>1. MaxRaw \in Nat
      BY TxbPoolAssumption
    <2>2. TypeOK'
      BY <1>0, <1>3, <2>1 DEF TypeOK, raw_xmit
    <2> QED
      BY <1>3, <2>2, BlocksUnchanged DEF raw_xmit
  <1>4. ASSUME NEW value \in FragValue, r8180_wx_set_frag(value)
        PROVE  IInv'
    <2>1. fts' \in MIN_FRAG_THRESHOLD .. MAX_FRAG_THRESHOLD
      BY <1>0, <1>4, ThresholdInBounds
    <2> QED
      BY <1>4, <2>1, BlocksUnchanged DEF IInv, TypeOK, r8180_wx_set_frag
  <1>5. ASSUME r8180_wx_frag_disabled
        PROVE  IInv'
    <2>1. DEFAULT_FRAG_THRESHOLD \in MIN_FRAG_THRESHOLD .. MAX_FRAG_THRESHOLD
      BY TxbPoolAssumption
    <2>2. TypeOK'
      BY <1>0, <1>5, <2>1 DEF TypeOK, r8180_wx_frag_disabled
    <2> QED
      BY <1>5, <2>2, BlocksUnchanged DEF r8180_wx_frag_disabled
  <1>6. ASSUME UNCHANGED vars
        PROVE  IInv'
    BY <1>6, BlocksUnchanged DEF IInv, TypeOK, vars
  <1> QED
    BY <1>1, <1>2, <1>3, <1>4, <1>5, <1>6 DEF Next

\* The invariant holds in every state of every behaviour.
THEOREM Inductive == Spec => []IInv
  <1>1. IInv /\ [Next]_vars => IInv'
    BY NextOK
  <1> QED
    BY InitOK, <1>1, PTL DEF Spec

\* The variables have their types (struct ieee80211_device).
THEOREM TypeCorrect == Spec => []TypeOK
  <1>1. IInv => TypeOK
    BY DEF IInv
  <1> QED
    BY Inductive, <1>1, PTL

\* A block is overrun only by a payload above the default MTU, and above what its
\* buffers hold at the threshold in force (ieee80211_xmit, r8180_wx_set_frag).
THEOREM OnlyLargeFramesOverrun == Spec => []FragmentsFit
  <1>1. IInv => FragmentsFit
    BY DEF IInv
  <1> QED
    BY Inductive, <1>1, PTL

\* A block that is used again carries the new frame and nothing of the old one
\* (ieee80211_xmit).
THEOREM BlocksCarryTheirFrames == Spec => []FragmentsCarryThePayload
  <1>1. IInv => FragmentsCarryThePayload
    BY DEF IInv
  <1> QED
    BY Inductive, <1>1, PTL

\* A buffer past the fragments of the last frame is empty (ieee80211_xmit clears as many
\* as that frame had).
THEOREM SparesStayEmpty == Spec => []SpareBuffersAreEmpty
  <1>1. IInv => SpareBuffersAreEmpty
    BY DEF IInv
  <1> QED
    BY Inductive, <1>1, PTL

\* However many frames are lost, and raw ones sent, the next call finds room
\* (ieee80211_xmit, tx_pending_txb).
THEOREM PoolStaysOpen == Spec => []PoolNeverCloses
  <1>1. Init => PoolNeverCloses
    BY DEF Init, PoolNeverCloses
  <1>2. IInv /\ PoolNeverCloses /\ [Next]_vars => PoolNeverCloses'
    BY DEF IInv, TypeOK, PoolNeverCloses, Next, vars, ieee80211_xmit, softmac_xmit, raw_xmit,
       r8180_wx_set_frag, r8180_wx_frag_disabled
  <1> QED
    BY Inductive, <1>1, <1>2, PTL DEF Spec

=============================================================================
