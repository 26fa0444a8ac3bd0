-------------------------- MODULE ArithmeticProofs --------------------------
(***************************************************************************)
(* The operations on arrays of words mean what they should for the bits    *)
(* they hold, for every word and byte width, every length and every        *)
(* vector: comparison, change of length, bytes and back, the reduction     *)
(* modulo X^n - 1, and the multiplication of polynomials by karatsuba.     *)
(***************************************************************************)
EXTENDS ProductLaws, VectorsProofs

-----------------------------------------------------------------------------
(* Quotients and remainders.                                               *)

LEMMA LexicographicOrder ==
    ASSUME NEW d \in Nat, d > 0, NEW q \in Nat, NEW p \in Nat,
           NEW r \in 0 .. d - 1, NEW s \in 0 .. d - 1
    PROVE  q * d + r < p * d + s <=> (q < p \/ (q = p /\ r < s))
  <1>1. q * d \in Nat /\ p * d \in Nat
    BY ProductNat
  <1>2. CASE q < p
    <2>1. (q + 1) * d <= p * d
      BY <1>2, ProductGrows
    <2>2. (q + 1) * d = q * d + d
      OBVIOUS
    <2> QED
      BY <1>1, <1>2, <2>1, <2>2
  <1>3. CASE q = p
    BY <1>1, <1>3
  <1>4. CASE p < q
    <2>1. (p + 1) * d <= q * d
      BY <1>4, ProductGrows
    <2>2. (p + 1) * d = p * d + d
      OBVIOUS
    <2> QED
      BY <1>1, <1>4, <2>1, <2>2
  <1> QED
    BY <1>2, <1>3, <1>4

LEMMA QuotientUnique ==
    ASSUME NEW d \in Nat, d > 0, NEW q \in Nat, NEW r \in 0 .. d - 1
    PROVE  (q * d + r) \div d = q /\ (q * d + r) % d = r
  <1> DEFINE m == q * d + r
  <1>1. m \in Nat /\ q * d \in Nat
    BY ProductNat
  <1>2. m % d = r
    BY RemainderUnique
  <1>3. m \div d \in Nat /\ m = (m \div d) * d + (m % d)
    BY <1>1, QuotientRemainder
  <1>4. m \div d = q
    <2> DEFINE t == m \div d
    <2> HIDE DEF m
    <2>1. t \in Nat /\ t * d + r = q * d + r
      BY <1>2, <1>3 DEF m
    <2> HIDE DEF t
    <2>2. ~(t * d + r < q * d + r) /\ ~(q * d + r < t * d + r)
      BY <2>1, <1>1, ProductNat
    <2>3. ~(t < q) /\ ~(q < t)
      BY <2>1, <2>2, LexicographicOrder
    <2> QED
      BY <2>1, <2>3 DEF t
  <1> QED
    BY <1>2, <1>4

(* A number below k * d is a quotient below k and a remainder.             *)
LEMMA Split ==
    ASSUME NEW d \in Nat, d > 0, NEW k \in Nat, NEW m \in 0 .. k * d - 1
    PROVE  \E q \in 0 .. k - 1, r \in 0 .. d - 1 :
               m = q * d + r /\ m \div d = q /\ m % d = r
  <1>1. m \in Nat /\ k * d \in Nat /\ m < k * d
    BY ProductNat
  <1>2. m \div d \in Nat /\ m % d \in 0 .. d - 1 /\ m = (m \div d) * d + (m % d)
    BY <1>1, QuotientRemainder
  <1>3. m \div d < k
    BY <1>1, QuotientBelow
  <1> QED
    BY <1>2, <1>3

LEMMA Join ==
    ASSUME NEW d \in Nat, d > 0, NEW k \in Nat, NEW q \in 0 .. k - 1, NEW r \in 0 .. d - 1
    PROVE  q * d + r \in 0 .. k * d - 1
  <1>1. q * d \in Nat /\ k * d \in Nat
    BY ProductNat
  <1>2. (q + 1) * d <= k * d
    BY ProductGrows
  <1>3. (q + 1) * d = q * d + d
    OBVIOUS
  <1> QED
    BY <1>1, <1>2, <1>3

-----------------------------------------------------------------------------
(* Words and the positions they hold.                                      *)

LEMMA PositionInWord ==
    ASSUME NEW len \in Nat, NEW v \in WordArrays(len),
           NEW q \in 0 .. len - 1, NEW r \in 0 .. Bits - 1
    PROVE  q * Bits + r \in Positions(v) <=> r \in v[q]
  <1>1. Len64(v) = len
    BY Len64OfArray DEF WordArrays
  <1>2. q * Bits + r \in 0 .. len * Bits - 1
    BY BitsType, Join
  <1>3. (q * Bits + r) \div Bits = q /\ (q * Bits + r) % Bits = r
    BY BitsType, QuotientUnique
  <1> QED
    BY <1>1, <1>2, <1>3 DEF Positions

(* Two vectors agree below a position when their words do.                 *)
LEMMA SamePositions ==
    ASSUME NEW len \in Nat, NEW v \in WordArrays(len), NEW w \in WordArrays(len), NEW m \in Nat,
           \A q \in 0 .. len - 1, r \in 0 .. Bits - 1 :
               r \in w[q] <=> (r \in v[q] /\ q * Bits + r < m)
    PROVE  Positions(w) = Positions(v) \cap (0 .. m - 1)
  <1>1. Len64(v) = len /\ Len64(w) = len
    BY Len64OfArray DEF WordArrays
  <1>2. Positions(v) \subseteq 0 .. len * Bits - 1 /\ Positions(w) \subseteq 0 .. len * Bits - 1
    BY <1>1 DEF Positions
  <1>3. ASSUME NEW p \in 0 .. len * Bits - 1
        PROVE  p \in Positions(w) <=> p \in Positions(v) \cap (0 .. m - 1)
    <2>1. PICK q \in 0 .. len - 1, r \in 0 .. Bits - 1 : p = q * Bits + r
      BY BitsType, Split
    <2>2. (p \in Positions(w) <=> r \in w[q]) /\ (p \in Positions(v) <=> r \in v[q])
      BY <2>1, PositionInWord
    <2>3. p \in 0 .. m - 1 <=> p < m
      <3>1. len * Bits - 1 \in Int
        BY BitsType, ProductNat
      <3> QED
        BY <3>1
    <2> QED
      BY <2>1, <2>2, <2>3
  <1> QED
    BY <1>2, <1>3

LEMMA SameWords ==
    ASSUME NEW len, NEW v \in WordArrays(len), NEW w \in WordArrays(len),
           \A q \in 0 .. len - 1, r \in 0 .. Bits - 1 : r \in w[q] <=> r \in v[q]
    PROVE  w = v
  <1>1. \A q \in 0 .. len - 1 : w[q] \subseteq 0 .. Bits - 1 /\ v[q] \subseteq 0 .. Bits - 1
    BY DEF WordArrays, Array
  <1>2. \A q \in 0 .. len - 1 : w[q] = v[q]
    BY <1>1
  <1>3. v = [q \in 0 .. len - 1 |-> v[q]] /\ w = [q \in 0 .. len - 1 |-> w[q]]
    BY Zenon DEF WordArrays, Array
  <1> QED
    BY <1>2, <1>3, Zenon

(* vectTruncate keeps the positions below the length and clears the rest.  *)
LEMMA TruncationKeepsPrefix ==
    ASSUME NEW len \in Nat, NEW v \in WordArrays(len), NEW m \in Nat
    PROVE  /\ vectTruncate(v, m) \in WordArrays(len)
           /\ \A q \in 0 .. len - 1, r \in 0 .. Bits - 1 :
                  r \in vectTruncate(v, m)[q] <=> (r \in v[q] /\ q * Bits + r < m)
  <1> DEFINE L == m \div Bits
             R == m % Bits
             word(i) == CASE i < L            -> v[i]
                          [] i = L /\ R # 0   -> v[i] \cap (0 .. R - 1)
                          [] OTHER            -> {}
  <1>1. L \in Nat /\ R \in 0 .. Bits - 1 /\ m = L * Bits + R
    BY BitsType, QuotientRemainder
  <1>2. DOMAIN v = 0 .. len - 1 /\ \A i \in 0 .. len - 1 : v[i] \subseteq 0 .. Bits - 1
    BY DEF WordArrays, Array
  <1>3. vectTruncate(v, m) = [i \in 0 .. len - 1 |-> word(i)]
    BY <1>2 DEF vectTruncate
  <1> HIDE DEF L, R
  <1>4. \A i \in 0 .. len - 1 : word(i) \in SUBSET (0 .. Bits - 1)
    BY <1>1, <1>2
  <1>5. ASSUME NEW q \in 0 .. len - 1, NEW r \in 0 .. Bits - 1
        PROVE  r \in word(q) <=> (r \in v[q] /\ q * Bits + r < m)
    <2>1. q * Bits + r < m <=> (q < L \/ (q = L /\ r < R))
      BY <1>1, BitsType, LexicographicOrder
    <2>2. r \in word(q) <=> (r \in v[q] /\ (q < L \/ (q = L /\ r < R)))
      BY <1>1
    <2> QED
      BY <2>1, <2>2
  <1> HIDE DEF word
  <1> QED
    BY <1>3, <1>4, <1>5 DEF WordArrays, Array

(* So does vectResize into a cleared vector when it shortens, and it       *)
(* changes nothing when it lengthens.                                      *)
LEMMA ResizeKeepsPrefix ==
    ASSUME NEW len \in Nat, NEW v \in WordArrays(len), NEW m \in 0 .. len * Bits
    PROVE  /\ vectResize(Blank(len), m, v, len * Bits) \in WordArrays(len)
           /\ \A q \in 0 .. len - 1, r \in 0 .. Bits - 1 :
                  r \in vectResize(Blank(len), m, v, len * Bits)[q]
                      <=> (r \in v[q] /\ q * Bits + r < m)
  <1> DEFINE words == ceilDiv(m, Bits)
             L == m \div Bits
             R == m % Bits
             word(i) == CASE i >= words                                     -> {}
                          [] i = words - 1 /\ m < len * Bits /\ R # 0       -> v[i] \cap (0 .. R - 1)
                          [] OTHER                                          -> v[i]
  <1>1. m \in Nat /\ len * Bits \in Nat /\ m <= len * Bits
    BY BitsType, ProductNat
  <1>2. L \in Nat /\ R \in 0 .. Bits - 1 /\ m = L * Bits + R
    BY <1>1, BitsType, QuotientRemainder
  <1>3. \A i \in 0 .. len - 1 : v[i] \subseteq 0 .. Bits - 1
    BY DEF WordArrays, Array
  <1>4. vectResize(Blank(len), m, v, len * Bits) = [i \in 0 .. len - 1 |-> word(i)]
    <2>1. (IF m < len * Bits THEN m ELSE len * Bits) = m
      BY <1>1
    <2>2. DOMAIN Blank(len) = 0 .. len - 1 /\ \A i \in 0 .. len - 1 : Blank(len)[i] = {}
      BY DEF Blank
    <2> DEFINE body(least, i) ==
                   CASE i >= ceilDiv(least, Bits) -> Blank(len)[i]
                     [] i = ceilDiv(least, Bits) - 1 /\ m < len * Bits /\ R # 0 ->
                            v[i] \cap (0 .. R - 1)
                     [] OTHER -> v[i]
               least == IF m < len * Bits THEN m ELSE len * Bits
    <2>3. vectResize(Blank(len), m, v, len * Bits) = [i \in DOMAIN Blank(len) |-> body(least, i)]
      BY DEF vectResize
    <2>4. \A i \in 0 .. len - 1 : body(m, i) = word(i)
      BY <2>2
    <2> HIDE DEF body, word
    <2> QED
      BY <2>1, <2>2, <2>3, <2>4
  <1>5. words \in Nat /\ words = IF R = 0 THEN L ELSE L + 1
    <2>1. CASE R = 0
      <3>1. m + Bits - 1 = L * Bits + (Bits - 1)
        BY <1>2, <2>1, BitsType, ProductNat
      <3> QED
        BY <3>1, <2>1, <1>2, BitsType, QuotientUnique DEF ceilDiv
    <2>2. CASE R # 0
      <3>1. m + Bits - 1 = (L + 1) * Bits + (R - 1)
        <4>1. (L + 1) * Bits = L * Bits + Bits
          BY <1>2, BitsType
        <4> QED
          BY <1>2, <4>1, BitsType, ProductNat
      <3>2. L + 1 \in Nat /\ R - 1 \in 0 .. Bits - 1
        BY <1>2, <2>2, BitsType
      <3> QED
        BY <3>1, <3>2, <2>2, <1>2, BitsType, QuotientUnique DEF ceilDiv
    <2> QED
      BY <2>1, <2>2
  <1>6. m = len * Bits => R = 0
    <2>1. (len * Bits + 0) % Bits = 0
      BY BitsType, QuotientUnique
    <2> QED
      BY <2>1, BitsType, ProductNat
  <1> HIDE DEF words, L, R
  <1>7. \A i \in 0 .. len - 1 : word(i) \in SUBSET (0 .. Bits - 1)
    BY <1>3
  <1>8. ASSUME NEW q \in 0 .. len - 1, NEW r \in 0 .. Bits - 1
        PROVE  r \in word(q) <=> (r \in v[q] /\ q * Bits + r < m)
    <2>1. q * Bits + r < m <=> (q < L \/ (q = L /\ r < R))
      BY <1>2, BitsType, LexicographicOrder
    <2>2. CASE R = 0
      <3>1. r \in word(q) <=> (r \in v[q] /\ q < L)
        BY <1>2, <1>5, <2>2
      <3> QED
        BY <2>1, <2>2, <3>1, <1>2
    <2>3. CASE R # 0
      <3>1. m < len * Bits
        BY <1>1, <1>6, <2>3
      <3>2. q >= words <=> q > L
        BY <1>2, <1>5, <2>3
      <3>3. q = words - 1 <=> q = L
        BY <1>2, <1>5, <2>3
      <3>4. r \in word(q) <=> (r \in v[q] /\ (q < L \/ (q = L /\ r < R)))
        BY <1>2, <2>3, <3>1, <3>2, <3>3
      <3> QED
        BY <2>1, <3>4
    <2> QED
      BY <2>2, <2>3
  <1> HIDE DEF word
  <1> QED
    BY <1>4, <1>7, <1>8 DEF WordArrays, Array

-----------------------------------------------------------------------------
(* Words and the bytes that hold them.                                     *)

LEMMA BytesType ==
    /\ ByteBits \in Nat /\ ByteBits > 0
    /\ WordBytes \in Nat /\ WordBytes > 0
    /\ Bits = WordBytes * ByteBits
  BY WidthAssumption DEF Bits

(* store8Arr puts bit c of byte j of word w into byte number w * WordBytes + j. *)
LEMMA StoredByte ==
    ASSUME NEW len \in Nat, NEW v \in WordArrays(len), NEW size \in Nat,
           NEW w \in 0 .. len - 1, NEW j \in 0 .. WordBytes - 1,
           w * WordBytes + j < size
    PROVE  store8Arr(Blank(size), v)[w * WordBytes + j] = ByteOf(v[w], j)
  <1> DEFINE k == w * WordBytes + j
  <1>1. k \div WordBytes = w /\ k % WordBytes = j
    BY BytesType, QuotientUnique
  <1>2. Len64(v) = len
    BY Len64OfArray DEF WordArrays
  <1>3. k \in 0 .. size - 1
    BY BytesType, ProductNat
  <1>4. DOMAIN Blank(size) = 0 .. size - 1
    BY DEF Blank
  <1> HIDE DEF k
  <1>5. store8Arr(Blank(size), v)[k] = ByteOf(v[w], j)
    BY <1>1, <1>2, <1>3, <1>4 DEF store8Arr
  <1> QED
    BY <1>5 DEF k

LEMMA StoredLength ==
    ASSUME NEW size \in Nat, NEW v
    PROVE  Len64(store8Arr(Blank(size), v)) = size
  <1>1. DOMAIN store8Arr(Blank(size), v) = 0 .. size - 1
    BY DEF store8Arr, Blank
  <1> QED
    BY <1>1, FS_Interval DEF Len64

(* Bit r of a word is bit r % ByteBits of its byte r \div ByteBits.         *)
LEMMA BitInByte ==
    ASSUME NEW r \in 0 .. Bits - 1, NEW word
    PROVE  \E j \in 0 .. WordBytes - 1, c \in 0 .. ByteBits - 1 :
               r = j * ByteBits + c /\ (r \in word <=> c \in ByteOf(word, j))
  <1>1. PICK j \in 0 .. WordBytes - 1, c \in 0 .. ByteBits - 1 : r = j * ByteBits + c
    BY BytesType, Split
  <1> QED
    BY <1>1 DEF ByteOf

(* The bytes of a word from the first up to number `last` give back its    *)
(* bits up to there.                                                       *)
LEMMA LittleEndianOfBytes ==
    ASSUME NEW in, NEW from \in Nat, NEW last \in 0 .. WordBytes - 1,
           NEW word \in SUBSET (0 .. Bits - 1),
           \A j \in 0 .. last : in[from + j] = ByteOf(word, j)
    PROVE  /\ LittleEndian(in, from, from + last) \in SUBSET (0 .. Bits - 1)
           /\ \A j \in 0 .. WordBytes - 1, c \in 0 .. ByteBits - 1 :
                  j * ByteBits + c \in LittleEndian(in, from, from + last)
                      <=> (j <= last /\ c \in ByteOf(word, j))
  <1> DEFINE loaded == LittleEndian(in, from, from + last)
  <1>1. \A x : x \in loaded <=> \E k \in from .. from + last : \E b \in in[k] :
                                    x = (k - from) * ByteBits + b
    BY DEF LittleEndian
  <1> HIDE DEF loaded
  <1>2. \A x : x \in loaded <=> \E j \in 0 .. last : \E c \in ByteOf(word, j) : x = j * ByteBits + c
    <2> TAKE x
    <2>1. ASSUME NEW k \in from .. from + last, NEW b \in in[k], x = (k - from) * ByteBits + b
          PROVE  \E j \in 0 .. last : \E c \in ByteOf(word, j) : x = j * ByteBits + c
      <3> DEFINE j == k - from
      <3>1. j \in 0 .. last /\ from + j = k
        BY BytesType
      <3>2. in[k] = ByteOf(word, j)
        BY <3>1
      <3> HIDE DEF j
      <3>3. x = j * ByteBits + b
        BY <2>1 DEF j
      <3> QED
        BY <3>1, <3>2, <3>3
    <2>2. ASSUME NEW j \in 0 .. last, NEW c \in ByteOf(word, j), x = j * ByteBits + c
          PROVE  \E k \in from .. from + last : \E b \in in[k] : x = (k - from) * ByteBits + b
      <3>1. from + j \in from .. from + last /\ (from + j) - from = j
        OBVIOUS
      <3>2. c \in in[from + j]
        BY <2>2
      <3> QED
        BY <2>2, <3>1, <3>2
    <2> QED
      BY <1>1, <2>1, <2>2
  <1>3. ASSUME NEW j \in 0 .. WordBytes - 1, NEW c \in 0 .. ByteBits - 1
        PROVE  j * ByteBits + c \in loaded <=> (j <= last /\ c \in ByteOf(word, j))
    <2>1. ASSUME NEW i \in 0 .. last, NEW b \in ByteOf(word, i), j * ByteBits + c = i * ByteBits + b
          PROVE  i = j /\ b = c
      <3>1. i \in Nat /\ j \in Nat /\ b \in 0 .. ByteBits - 1
        BY BytesType DEF ByteOf
      <3>2. (j * ByteBits + c) \div ByteBits = j /\ (j * ByteBits + c) % ByteBits = c
        BY <3>1, BytesType, QuotientUnique
      <3>3. (i * ByteBits + b) \div ByteBits = i /\ (i * ByteBits + b) % ByteBits = b
        BY <3>1, BytesType, QuotientUnique
      <3> QED
        BY <2>1, <3>2, <3>3
    <2>2. j <= last => j \in 0 .. last
      OBVIOUS
    <2> QED
      BY <1>2, <2>1, <2>2
  <1>4. loaded \in SUBSET (0 .. Bits - 1)
    <2>1. ASSUME NEW j \in 0 .. last, NEW c \in ByteOf(word, j)
          PROVE  j * ByteBits + c \in 0 .. Bits - 1
      BY DEF ByteOf
    <2> QED
      BY <1>2, <2>1
  <1> QED
    BY <1>3, <1>4 DEF loaded

LEMMA StoredType ==
    ASSUME NEW len, NEW v
    PROVE  store8Arr(Blank(len), v) \in ByteArrays(len)
  <1>1. \A word, k : ByteOf(word, k) \subseteq 0 .. ByteBits - 1
    BY DEF ByteOf
  <1> QED
    BY <1>1 DEF store8Arr, Blank, ByteArrays, Array

(* store8Arr loses nothing when the bytes are as many as the words have.   *)
LEMMA StoredBytesTell ==
    ASSUME NEW len \in Nat, NEW v \in WordArrays(len), NEW w \in WordArrays(len),
           \A k \in 0 .. len * WordBytes - 1 :
               store8Arr(Blank(len * WordBytes), v)[k] = store8Arr(Blank(len * WordBytes), w)[k]
    PROVE  v = w
  <1>1. ASSUME NEW q \in 0 .. len - 1, NEW r \in 0 .. Bits - 1
        PROVE  r \in w[q] <=> r \in v[q]
    <2>1. ASSUME NEW j \in 0 .. WordBytes - 1
          PROVE  ByteOf(v[q], j) = ByteOf(w[q], j)
      <3>1. q * WordBytes + j \in 0 .. len * WordBytes - 1
        BY BytesType, Join
      <3>2. len * WordBytes \in Nat /\ q * WordBytes + j < len * WordBytes
        BY <3>1, BytesType, ProductNat
      <3> QED
        BY <3>1, <3>2, StoredByte
    <2>2. PICK j \in 0 .. WordBytes - 1, c \in 0 .. ByteBits - 1 : r = j * ByteBits + c
      BY BytesType, Split
    <2> QED
      BY <2>1, <2>2 DEF ByteOf
  <1> QED
    BY <1>1, SameWords

(* What is accumulated is empty exactly when nothing differs.              *)
LEMMA NoDifference ==
    ASSUME NEW a, NEW b, NEW len
    PROVE  UNION {SymDiff(a[i], b[i]) : i \in 0 .. len - 1} = {}
               <=> \A i \in 0 .. len - 1 : a[i] = b[i]
  <1> DEFINE S == 0 .. len - 1
             all == UNION {SymDiff(a[i], b[i]) : i \in S}
  <1>1. \A A, B : A = B <=> \A x : ~(x \in SymDiff(A, B))
    <2> SUFFICES ASSUME NEW A, NEW B, \A x : ~(x \in SymDiff(A, B)) PROVE A = B
      BY DEF SymDiff
    <2>1. \A x : x \in A <=> x \in B
      BY DEF SymDiff
    <2> QED
      BY <2>1
  <1>2. \A x : x \in all <=> \E i \in S : x \in SymDiff(a[i], b[i])
    OBVIOUS
  <1> HIDE DEF S
  <1>3. all = {} <=> \A x : x \notin all
    OBVIOUS
  <1>4. all = {} <=> \A i \in S : a[i] = b[i]
    <2> HIDE DEF all
    <2> QED
      BY <1>1, <1>2, <1>3
  <1> QED
    BY <1>4 DEF S

-----------------------------------------------------------------------------
(* Subtraction on words of bits.                                           *)

(* Subtracting 1: the borrow starts at bit 0 and stops at the first one.   *)
LEMMA Decrement ==
    ASSUME NEW width \in Nat, NEW r \in SUBSET Nat, NEW i \in 1 .. width - 1
    PROVE  i \in Subtract(r, {0}, width) <=> ~(i \in r <=> \A k \in 0 .. i - 1 : k \notin r)
  <1> DEFINE borrows == \E j \in 0 .. i - 1 :
                            j \in {0} \ r /\ \A l \in j + 1 .. i - 1 : l \notin r \ {0}
  <1>1. i \in Subtract(r, {0}, width) <=> ~(borrows <=> i \in SymDiff(r, {0}))
    BY DEF Subtract
  <1>2. borrows <=> \A k \in 0 .. i - 1 : k \notin r
    <2>1. ASSUME borrows PROVE \A k \in 0 .. i - 1 : k \notin r
      <3>1. 0 \notin r /\ \A l \in 0 + 1 .. i - 1 : l \notin r \ {0}
        BY <2>1
      <3> QED
        BY <3>1
    <2>2. ASSUME \A k \in 0 .. i - 1 : k \notin r PROVE borrows
      <3>1. 0 \in 0 .. i - 1 /\ 0 \in {0} \ r
        BY <2>2
      <3>2. \A l \in 0 + 1 .. i - 1 : l \notin r \ {0}
        BY <2>2
      <3> QED
        BY <3>1, <3>2
    <2> QED
      BY <2>1, <2>2
  <1>3. i \in SymDiff(r, {0}) <=> i \in r
    BY DEF SymDiff
  <1> HIDE DEF borrows
  <1> QED
    BY <1>1, <1>2, <1>3

(* Subtracting from 0: the borrow starts at the first one and never stops. *)
LEMMA Negation ==
    ASSUME NEW width \in Nat, NEW acc \in SUBSET Nat, NEW i \in 0 .. width - 1
    PROVE  i \in Subtract({}, acc, width) <=> ~(i \in acc <=> \E k \in 0 .. i - 1 : k \in acc)
  <1> DEFINE borrows == \E j \in 0 .. i - 1 :
                            j \in acc \ {} /\ \A l \in j + 1 .. i - 1 : l \notin {} \ acc
  <1>1. i \in Subtract({}, acc, width) <=> ~(borrows <=> i \in SymDiff({}, acc))
    BY DEF Subtract
  <1>2. borrows <=> \E k \in 0 .. i - 1 : k \in acc
    OBVIOUS
  <1>3. i \in SymDiff({}, acc) <=> i \in acc
    BY DEF SymDiff
  <1> HIDE DEF borrows
  <1> QED
    BY <1>1, <1>2, <1>3

LEMMA OneMinusBit ==
    ASSUME NEW width \in Nat \ {0}
    PROVE  Subtract({0}, {}, width) = {0} /\ Subtract({0}, {0}, width) = {}
  BY DEF Subtract, SymDiff

LEMMA DropToBit ==
    ASSUME NEW count \in Int, NEW word \in SUBSET Int, \A i \in word : i >= count => i = count
    PROVE  DropLow(word, count) = IF count \in word THEN {0} ELSE {}
  <1>1. {k \in word : k >= count} = IF count \in word THEN {count} ELSE {}
    <2>1. \A k : k \in {x \in word : x >= count} <=> k = count /\ count \in word
      <3>1. count >= count
        OBVIOUS
      <3> QED
        BY <3>1
    <2> QED
      BY <2>1
  <1>2. DropLow(word, count) = {i - count : i \in IF count \in word THEN {count} ELSE {}}
    BY <1>1 DEF DropLow
  <1>3. CASE count \in word
    <2>1. DropLow(word, count) = {i - count : i \in {count}}
      BY <1>2, <1>3
    <2>2. count - count = 0
      OBVIOUS
    <2> QED
      BY <1>3, <2>1, <2>2
  <1>4. CASE count \notin word
    <2>1. DropLow(word, count) = {i - count : i \in {}}
      BY <1>2, <1>4
    <2> QED
      BY <1>4, <2>1
  <1> QED
    BY <1>3, <1>4

(* The top bit of acc | (0 - acc) tells whether acc has any bit.           *)
LEMMA TopBitOfEither ==
    ASSUME NEW width \in Nat \ {0}, NEW acc \in SUBSET (0 .. width - 1)
    PROVE  DropLow(acc \cup Subtract({}, acc, width), width - 1) = IF acc = {} THEN {} ELSE {0}
  <1> DEFINE neg == Subtract({}, acc, width)
             top == width - 1
  <1>1. top \in 0 .. width - 1 /\ acc \in SUBSET Nat
    OBVIOUS
  <1>2. top \in neg <=> ~(top \in acc <=> \E k \in 0 .. top - 1 : k \in acc)
    BY <1>1, Negation
  <1>3. neg \subseteq 0 .. width - 1
    BY DEF Subtract
  <1> HIDE DEF neg
  <1>4. top \in acc \cup neg <=> acc # {}
    <2>1. acc # {} => top \in acc \/ \E k \in 0 .. top - 1 : k \in acc
      <3> SUFFICES ASSUME NEW k \in acc PROVE k = top \/ k \in 0 .. top - 1
        OBVIOUS
      <3> QED
        OBVIOUS
    <2> QED
      BY <1>2, <2>1
  <1> DEFINE both == acc \cup neg
  <1>5. both \subseteq 0 .. width - 1
    BY <1>3
  <1>6. top \in both <=> acc # {}
    BY <1>4
  <1> HIDE DEF both
  <1>7. /\ top \in Int /\ both \in SUBSET Int
        /\ \A i \in both : i >= top => i = top
    BY <1>5
  <1> HIDE DEF top
  <1>8. DropLow(both, top) = IF top \in both THEN {0} ELSE {}
    BY <1>7, DropToBit
  <1>9. DropLow(both, top) = IF acc = {} THEN {} ELSE {0}
    BY <1>6, <1>8
  <1> QED
    BY <1>9 DEF both, neg, top

(* The guard bit above a byte survives the decrement unless the byte is    *)
(* zero, and no bit above it is set.                                       *)
LEMMA GuardBit ==
    ASSUME NEW width \in Nat \ {0}, NEW byte \in SUBSET (0 .. width - 1)
    PROVE  DropLow(Subtract({width} \cup byte, {0}, 2 * width), width) \cap (0 .. width - 1)
               = IF byte = {} THEN {} ELSE {0}
  <1> DEFINE r == {width} \cup byte
             s == Subtract(r, {0}, 2 * width)
  <1>1. r \in SUBSET Nat /\ 2 * width \in Nat
    OBVIOUS
  <1>2. \A i \in 1 .. 2 * width - 1 : i \in s <=> ~(i \in r <=> \A k \in 0 .. i - 1 : k \notin r)
    BY <1>1, Decrement
  <1>3. s \subseteq 0 .. 2 * width - 1
    BY DEF Subtract
  <1> HIDE DEF s
  <1>4. width \in s <=> byte # {}
    <2>1. width \in 1 .. 2 * width - 1 /\ width \in r
      OBVIOUS
    <2>2. (\A k \in 0 .. width - 1 : k \notin r) <=> byte = {}
      OBVIOUS
    <2> QED
      BY <1>2, <2>1, <2>2
  <1>5. ASSUME NEW i \in s, i >= width PROVE i = width
    <2> SUFFICES ASSUME i > width PROVE FALSE
      BY <1>3, <1>5
    <2>1. i \in 1 .. 2 * width - 1 /\ i \notin r /\ width \in 0 .. i - 1 /\ width \in r
      BY <1>3
    <2> QED
      BY <1>2, <2>1
  <1>6. 0 \in 0 .. width - 1 /\ s \subseteq Int
    BY <1>3
  <1>7. DropLow(s, width) = IF width \in s THEN {0} ELSE {}
    BY <1>5, <1>6, DropToBit
  <1> QED
    BY <1>4, <1>6, <1>7 DEF s

LEMMA WordComparison ==
    ASSUME NEW len, NEW a \in WordArrays(len), NEW b \in WordArrays(len)
    PROVE  constantTimeEqualUint64(a, b, len)
               = IF \A i \in 0 .. len - 1 : a[i] = b[i] THEN {0} ELSE {}
  <1> DEFINE acc == UNION {SymDiff(a[i], b[i]) : i \in 0 .. len - 1}
             nonzero == DropLow(acc \cup Subtract({}, acc, Bits), Bits - 1)
  <1>1. Bits \in Nat \ {0}
    BY BitsType
  <1>2. acc \subseteq 0 .. Bits - 1
    <2>1. \A i \in 0 .. len - 1 : a[i] \subseteq 0 .. Bits - 1 /\ b[i] \subseteq 0 .. Bits - 1
      BY DEF WordArrays, Array
    <2>2. \A i \in 0 .. len - 1 : SymDiff(a[i], b[i]) \subseteq 0 .. Bits - 1
      BY <2>1 DEF SymDiff
    <2> QED
      BY <2>2
  <1>3. acc = {} <=> \A i \in 0 .. len - 1 : a[i] = b[i]
    BY NoDifference
  <1>4. constantTimeEqualUint64(a, b, len) = Subtract({0}, nonzero, Bits)
    BY DEF constantTimeEqualUint64
  <1> HIDE DEF acc
  <1>5. nonzero = IF acc = {} THEN {} ELSE {0}
    BY <1>1, <1>2, TopBitOfEither
  <1> HIDE DEF nonzero
  <1>6. Subtract({0}, nonzero, Bits) = IF acc = {} THEN {0} ELSE {}
    BY <1>1, <1>5, OneMinusBit
  <1> QED
    BY <1>3, <1>4, <1>6

LEMMA ByteComparison ==
    ASSUME NEW len, NEW a \in ByteArrays(len), NEW b \in ByteArrays(len)
    PROVE  vectCompare(a, b, len)
               = IF \A i \in 0 .. len - 1 : a[i] = b[i] THEN {} ELSE {0}
  <1> DEFINE all == UNION {SymDiff(a[i], b[i]) : i \in 0 .. len - 1}
  <1>1. ByteBits \in Nat \ {0}
    BY WidthAssumption
  <1>2. all \subseteq 0 .. ByteBits - 1
    <2>1. \A i \in 0 .. len - 1 :
              a[i] \subseteq 0 .. ByteBits - 1 /\ b[i] \subseteq 0 .. ByteBits - 1
      BY DEF ByteArrays, Array
    <2>2. \A i \in 0 .. len - 1 : SymDiff(a[i], b[i]) \subseteq 0 .. ByteBits - 1
      BY <2>1 DEF SymDiff
    <2> QED
      BY <2>2
  <1>3. all = {} <=> \A i \in 0 .. len - 1 : a[i] = b[i]
    BY NoDifference
  <1>4. vectCompare(a, b, len)
            = DropLow(Subtract({ByteBits} \cup all, {0}, 2 * ByteBits), ByteBits)
                  \cap (0 .. ByteBits - 1)
    BY DEF vectCompare
  <1> HIDE DEF all
  <1> QED
    BY <1>1, <1>2, <1>3, <1>4, GuardBit

(* constantTimeEqualUint64 on the words of two vectors, and vectCompare on *)
(* their bytes, are equality, for every length.                            *)
THEOREM ComparisonsAreEquality == VectorSpec => []ComparisonsAreExact
  <1>1. InitVectors => ComparisonsAreExact
    <2> SUFFICES ASSUME first \in WordArrays(vecSize), second \in WordArrays(vecSize)
                 PROVE  ComparisonsAreExact
      BY DEF InitVectors
    <2> DEFINE size == vecSize * WordBytes
               bytes(v) == store8Arr(Blank(size), v)
    <2>1. first = second <=> \A i \in 0 .. vecSize - 1 : first[i] = second[i]
      BY SameWords, LengthAssumption
    <2>2. constantTimeEqualUint64(first, second, vecSize) = IF first = second THEN {0} ELSE {}
      BY <2>1, WordComparison
    <2>3. first = second <=> \A k \in 0 .. size - 1 : bytes(first)[k] = bytes(second)[k]
      BY StoredBytesTell, LengthAssumption
    <2>5. bytes(first) \in ByteArrays(size) /\ bytes(second) \in ByteArrays(size)
      BY StoredType
    <2> HIDE DEF bytes, size
    <2>4. vectCompare(bytes(first), bytes(second), size) = IF first = second THEN {} ELSE {0}
      BY <2>3, <2>5, ByteComparison
    <2> QED
      BY <2>2, <2>4 DEF ComparisonsAreExact, bytes, size
  <1>2. ComparisonsAreExact /\ [UNCHANGED operands]_operands => ComparisonsAreExact'
    BY DEF ComparisonsAreExact, operands
  <1> QED
    BY <1>1, <1>2, PTL DEF VectorSpec

(* vectTruncate and vectResize to a length keep the positions below it and *)
(* no other, whether it ends a word, lies inside one or is zero; and a     *)
(* vector resized to its whole words is unchanged.                         *)
THEOREM PrefixesAreKept == VectorSpec => []LengthChangesKeepPrefix
  <1>1. InitVectors => LengthChangesKeepPrefix
    <2> SUFFICES ASSUME first \in WordArrays(vecSize), length \in 0 .. vecSize * Bits
                 PROVE  LengthChangesKeepPrefix
      BY DEF InitVectors
    <2> DEFINE short == vectTruncate(first, length)
               resized == vectResize(Blank(vecSize), length, first, vecSize * Bits)
               again == vectResize(Blank(vecSize), vecSize * Bits, short, length)
    <2>1. length \in Nat /\ vecSize \in Nat /\ vecSize * Bits \in Nat /\ length <= vecSize * Bits
      BY LengthAssumption, BitsType, ProductNat
    <2>2. /\ short \in WordArrays(vecSize)
          /\ \A q \in 0 .. vecSize - 1, r \in 0 .. Bits - 1 :
                 r \in short[q] <=> (r \in first[q] /\ q * Bits + r < length)
      BY <2>1, TruncationKeepsPrefix
    <2>3. /\ resized \in WordArrays(vecSize)
          /\ \A q \in 0 .. vecSize - 1, r \in 0 .. Bits - 1 :
                 r \in resized[q] <=> (r \in first[q] /\ q * Bits + r < length)
      BY <2>1, ResizeKeepsPrefix
    <2> HIDE DEF short, resized
    <2>4. Positions(short) = Positions(first) \cap (0 .. length - 1)
      BY <2>1, <2>2, SamePositions
    <2>5. Positions(resized) = Positions(first) \cap (0 .. length - 1)
      BY <2>1, <2>3, SamePositions
    <2>6. again = short
      <3> DEFINE words == ceilDiv(length, Bits)
      <3>1. words \in Nat /\ length <= words * Bits
        BY <2>1, BitsType, CeilingCovers
      <3>2. ASSUME NEW i \in 0 .. vecSize - 1, i >= words
            PROVE  short[i] = {}
        <4>1. words * Bits <= i * Bits /\ i * Bits \in Nat /\ words * Bits \in Nat
          BY <3>1, <3>2, BitsType, ProductGrows, ProductNat
        <4>2. \A r \in 0 .. Bits - 1 : ~(i * Bits + r < length)
          BY <4>1, <3>1, <2>1
        <4>3. short[i] \subseteq 0 .. Bits - 1
          BY <2>2 DEF WordArrays, Array
        <4> QED
          BY <2>2, <4>2, <4>3
      <3>3. (IF vecSize * Bits < length THEN vecSize * Bits ELSE length) = length
            /\ ~(vecSize * Bits < length)
        BY <2>1
      <3>4. DOMAIN Blank(vecSize) = 0 .. vecSize - 1
            /\ \A i \in 0 .. vecSize - 1 : Blank(vecSize)[i] = {}
        BY DEF Blank
      <3> DEFINE body(least, i) ==
                     CASE i >= ceilDiv(least, Bits) -> Blank(vecSize)[i]
                       [] /\ i = ceilDiv(least, Bits) - 1 /\ vecSize * Bits < length
                          /\ (vecSize * Bits) % Bits # 0 -> short[i] \cap (0 .. ((vecSize * Bits) % Bits) - 1)
                       [] OTHER -> short[i]
                 least == IF vecSize * Bits < length THEN vecSize * Bits ELSE length
      <3>5. again = [i \in DOMAIN Blank(vecSize) |-> body(least, i)]
        BY DEF vectResize
      <3>6. \A i \in 0 .. vecSize - 1 : body(length, i) = short[i]
        BY <3>2, <3>3, <3>4
      <3>7. short = [i \in 0 .. vecSize - 1 |-> short[i]]
        BY <2>2, Zenon DEF WordArrays, Array
      <3> HIDE DEF body, again
      <3> QED
        BY <3>3, <3>4, <3>5, <3>6, <3>7
    <2> QED
      BY <2>4, <2>5, <2>6 DEF LengthChangesKeepPrefix, short, resized
  <1>2. LengthChangesKeepPrefix /\ [UNCHANGED operands]_operands => LengthChangesKeepPrefix'
    BY DEF LengthChangesKeepPrefix, operands
  <1> QED
    BY <1>1, <1>2, PTL DEF VectorSpec

(* The bytes of a vector without ones from position m on, as many bytes as *)
(* m bits need, give back each of its words: whole, partly, or empty.      *)
LEMMA LoadedWord ==
    ASSUME NEW len \in Nat, NEW v \in WordArrays(len), NEW m \in Nat,
           \A q \in 0 .. len - 1, r \in 0 .. Bits - 1 : r \in v[q] => q * Bits + r < m,
           NEW w \in 0 .. len - 1
    PROVE  load8Arr(Blank(len), store8Arr(Blank(Bytes(m)), v))[w] = v[w]
  <1> DEFINE size == Bytes(m)
             in == store8Arr(Blank(size), v)
             base == w * WordBytes
  <1> SUFFICES load8Arr(Blank(len), in)[w] = v[w]
    OBVIOUS
  <1>1. size \in Nat /\ m <= size * ByteBits
    BY BytesType, CeilingCovers DEF Bytes
  <1> HIDE DEF size
  <1>2. Len64(in) = size
    BY <1>1, StoredLength
  <1>3. base \in Nat /\ (w + 1) * WordBytes = base + WordBytes /\ w * Bits = base * ByteBits
    BY BytesType, ProductNat
  <1>4. \A j \in 0 .. WordBytes - 1 : base + j < size => in[base + j] = ByteOf(v[w], j)
    BY <1>1, StoredByte
  <1>5. v[w] \in SUBSET (0 .. Bits - 1)
    BY DEF WordArrays, Array
  <1>6. LET end == base + WordBytes
            word == load8Arr(Blank(len), in)[w]
        IN  /\ end <= size => word = LittleEndian(in, base, end - 1)
            /\ ~(end <= size) /\ base < size /\ size < end => word = LittleEndian(in, base, size - 1)
            /\ ~(end <= size) /\ ~(base < size) => word = {}
    <2>1. DOMAIN Blank(len) = 0 .. len - 1 /\ Blank(len)[w] = {}
      BY DEF Blank
    <2> HIDE DEF in
    <2> DEFINE word(i, start, end) ==
                   CASE end <= Len64(in) -> LittleEndian(in, start, end - 1)
                     [] start < Len64(in) /\ Len64(in) < end ->
                            LittleEndian(in, start, Len64(in) - 1)
                     [] OTHER -> Blank(len)[i]
    <2>2. load8Arr(Blank(len), in) =
              [i \in DOMAIN Blank(len) |-> word(i, i * WordBytes, (i + 1) * WordBytes)]
      BY DEF load8Arr
    <2>3. ASSUME NEW start \in Nat, NEW end \in Nat
          PROVE  /\ end <= size => word(w, start, end) = LittleEndian(in, start, end - 1)
                 /\ ~(end <= size) /\ start < size /\ size < end =>
                        word(w, start, end) = LittleEndian(in, start, size - 1)
                 /\ ~(end <= size) /\ ~(start < size) => word(w, start, end) = {}
      <3>1. word(w, start, end) =
                CASE end <= size -> LittleEndian(in, start, end - 1)
                  [] start < size /\ size < end -> LittleEndian(in, start, size - 1)
                  [] OTHER -> {}
        BY <1>2, <2>1, Zenon
      <3> HIDE DEF word
      <3> QED
        BY <1>1, <3>1
    <2> HIDE DEF word
    <2>4. load8Arr(Blank(len), in)[w] = word(w, w * WordBytes, (w + 1) * WordBytes)
      BY <2>1, <2>2
    <2>5. base = w * WordBytes /\ base + WordBytes = (w + 1) * WordBytes
      BY <1>3
    <2> HIDE DEF base
    <2>6. load8Arr(Blank(len), in)[w] = word(w, base, base + WordBytes)
      BY <2>4, <2>5, Zenon
    <2> QED
      BY <1>3, <2>3, <2>6, BytesType
  <1> HIDE DEF in, base
  (* Bits of byte j reach position m only if byte base + j is stored.      *)
  <1>7. ASSUME NEW j \in 0 .. WordBytes - 1, NEW c \in 0 .. ByteBits - 1, c \in ByteOf(v[w], j)
        PROVE  base + j < size
    <2>1. j * ByteBits + c \in v[w]
      BY <1>7 DEF ByteOf
    <2>2. j * ByteBits + c \in 0 .. Bits - 1
      BY <1>5, <2>1
    <2>3. w * Bits + (j * ByteBits + c) < m
      BY <2>1, <2>2
    <2>4. w * Bits + (j * ByteBits + c) = (base + j) * ByteBits + c
      BY <1>3, BytesType, ProductNat
    <2>5. (base + j) * ByteBits + c < size * ByteBits + 0
      BY <1>1, <2>3, <2>4, BytesType, ProductNat
    <2>6. base + j \in Nat /\ 0 \in 0 .. ByteBits - 1
      BY <1>3, BytesType
    <2> QED
      BY <1>1, <2>5, <2>6, BytesType, LexicographicOrder
  <1>8. ASSUME NEW last \in 0 .. WordBytes - 1, base + last < size,
               last = WordBytes - 1 \/ base + last = size - 1
        PROVE  LittleEndian(in, base, base + last) = v[w]
    <2> DEFINE loaded == LittleEndian(in, base, base + last)
    <2>1. \A j \in 0 .. last : in[base + j] = ByteOf(v[w], j)
      BY <1>1, <1>3, <1>4, <1>8, BytesType
    <2>2. /\ loaded \in SUBSET (0 .. Bits - 1)
          /\ \A j \in 0 .. WordBytes - 1, c \in 0 .. ByteBits - 1 :
                 j * ByteBits + c \in loaded <=> (j <= last /\ c \in ByteOf(v[w], j))
      BY <1>3, <1>5, <2>1, LittleEndianOfBytes
    <2> HIDE DEF loaded
    <2>3. ASSUME NEW r \in 0 .. Bits - 1
          PROVE  r \in loaded <=> r \in v[w]
      <3>1. PICK j \in 0 .. WordBytes - 1, c \in 0 .. ByteBits - 1 :
                r = j * ByteBits + c /\ (r \in v[w] <=> c \in ByteOf(v[w], j))
        BY BitInByte
      <3>2. c \in ByteOf(v[w], j) => base + j < size
        BY <1>7
      <3>3. c \in ByteOf(v[w], j) => j <= last
        BY <1>1, <1>3, <1>8, <3>2, BytesType
      <3> QED
        BY <2>2, <3>1, <3>3
    <2>4. loaded = v[w]
      BY <1>5, <2>2, <2>3
    <2> QED
      BY <2>4 DEF loaded
  <1>9. CASE base + WordBytes <= size
    <2> DEFINE last == WordBytes - 1
    <2>1. last \in 0 .. WordBytes - 1 /\ base + last < size /\ base + last = base + WordBytes - 1
      BY <1>1, <1>3, <1>9, BytesType
    <2>2. LittleEndian(in, base, base + last) = v[w]
      BY <1>8, <2>1
    <2>3. LittleEndian(in, base, (base + WordBytes) - 1) = v[w]
      <3>1. base + last = (base + WordBytes) - 1
        BY <1>3, BytesType
      <3> HIDE DEF last
      <3> QED
        BY <2>2, <3>1
    <2> QED
      BY <1>6, <1>9, <2>3
  <1>10. CASE base < size /\ size < base + WordBytes
    <2> DEFINE last == size - 1 - base
    <2>1. last \in 0 .. WordBytes - 1 /\ base + last < size /\ base + last = size - 1
      BY <1>1, <1>3, <1>10, BytesType
    <2>2. LittleEndian(in, base, base + last) = v[w]
      <3> HIDE DEF last
      <3> QED
        BY <1>8, <2>1
    <2>3. ~(base + WordBytes <= size)
      BY <1>1, <1>3, <1>10, BytesType
    <2>4. LittleEndian(in, base, size - 1) = v[w]
      BY <2>1, <2>2
    <2> QED
      BY <1>6, <1>10, <2>3, <2>4
  <1>11. CASE size <= base
    <2>1. ~(base + WordBytes <= size) /\ ~(base < size)
      BY <1>1, <1>3, <1>11, BytesType
    <2>2. load8Arr(Blank(len), in)[w] = {}
      BY <1>6, <2>1
    <2>3. v[w] = {}
      <3>1. ASSUME NEW r \in v[w] PROVE FALSE
        <4>1. PICK j \in 0 .. WordBytes - 1, c \in 0 .. ByteBits - 1 :
                  r = j * ByteBits + c /\ (r \in v[w] <=> c \in ByteOf(v[w], j))
          BY <1>5, BitInByte
        <4>2. base + j < size
          BY <1>7, <4>1
        <4> QED
          BY <1>1, <1>3, <1>11, <4>2
      <3> QED
        BY <3>1
    <2> QED
      BY <2>2, <2>3
  <1> QED
    BY <1>1, <1>3, <1>9, <1>10, <1>11, BytesType

(* A vector of any number of bits survives store8Arr and load8Arr, when it *)
(* ends inside a word, or inside a byte, included.                         *)
THEOREM BytesGiveVectorBack == VectorSpec => []BytesRoundTrip
  <1>1. InitVectors => BytesRoundTrip
    <2> SUFFICES ASSUME first \in WordArrays(vecSize), length \in 0 .. vecSize * Bits
                 PROVE  BytesRoundTrip
      BY DEF InitVectors
    <2> DEFINE v == vectTruncate(first, length)
               out == load8Arr(Blank(vecSize), store8Arr(Blank(Bytes(length)), v))
    <2>1. length \in Nat /\ vecSize \in Nat
      BY LengthAssumption, BitsType, ProductNat
    <2>2. /\ v \in WordArrays(vecSize)
          /\ \A q \in 0 .. vecSize - 1, r \in 0 .. Bits - 1 :
                 r \in v[q] <=> (r \in first[q] /\ q * Bits + r < length)
      BY <2>1, TruncationKeepsPrefix
    <2> HIDE DEF v
    <2>3. \A w \in 0 .. vecSize - 1 : out[w] = v[w]
      BY <2>1, <2>2, LoadedWord
    <2>4. out = [w \in 0 .. vecSize - 1 |-> out[w]]
      BY DEF load8Arr, Blank
    <2>5. v = [w \in 0 .. vecSize - 1 |-> v[w]]
      BY <2>2, Zenon DEF WordArrays, Array
    <2> HIDE DEF out
    <2>6. out = v
      BY <2>3, <2>4, <2>5, Zenon
    <2> QED
      BY <2>6 DEF BytesRoundTrip, out, v
  <1>2. BytesRoundTrip /\ [UNCHANGED operands]_operands => BytesRoundTrip'
    BY DEF BytesRoundTrip, operands
  <1> QED
    BY <1>1, <1>2, PTL DEF VectorSpec

-----------------------------------------------------------------------------
(* The reduction modulo X^n - 1.                                           *)

(* The coefficient of X^k in the polynomial that an array of words holds.  *)
Coefficient(a, k) == (k % Width) \in a[k \div Width]

LEMMA RingDimension ==
    /\ Width \in Nat /\ Width > 0 /\ n \in Nat
    /\ n \div Width \in Nat
    /\ n % Width \in 1 .. Width - 1
    /\ n = (n \div Width) * Width + (n % Width)
    /\ vecN = (n \div Width) + 1
  <1> DEFINE N == n \div Width
             s == n % Width
  <1>1. Width \in Nat /\ Width > 0 /\ n \in Nat
    BY Gf2xAssumption
  <1>2. N \in Nat /\ s \in 1 .. Width - 1 /\ n = N * Width + s
    <2>1. N \in Nat /\ s \in 0 .. Width - 1 /\ n = N * Width + s
      BY <1>1, QuotientRemainder
    <2> QED
      BY <2>1, Gf2xAssumption
  <1>3. vecN = N + 1
    <2> HIDE DEF N, s
    <2>1. n + Width - 1 = (N + 1) * Width + (s - 1)
      <3>1. (N + 1) * Width = N * Width + Width /\ N * Width \in Nat
        BY <1>1, <1>2, ProductNat
      <3> QED
        BY <1>1, <1>2, <3>1
    <2>2. ((N + 1) * Width + (s - 1)) \div Width = N + 1
      <3>1. N + 1 \in Nat /\ s - 1 \in 0 .. Width - 1
        BY <1>1, <1>2
      <3> QED
        BY <1>1, <3>1, QuotientUnique
    <2> QED
      BY <2>1, <2>2 DEF vecN
  <1> QED
    BY <1>1, <1>2, <1>3

LEMMA CoefficientInWord ==
    ASSUME NEW a, NEW q \in Nat, NEW r \in Bit
    PROVE  Coefficient(a, q * Width + r) <=> r \in a[q]
  <1>1. (q * Width + r) \div Width = q /\ (q * Width + r) % Width = r
    BY RingDimension, QuotientUnique DEF Bit
  <1> QED
    BY <1>1 DEF Coefficient

(* n positions above bit r of word q is a bit of the word that is shifted  *)
(* to the right, or of the next one, which is shifted to the left.         *)
LEMMA CoefficientAbove ==
    ASSUME NEW a, NEW q \in Nat, NEW r \in Bit
    PROVE  Coefficient(a, q * Width + r + n) <=>
             IF r + (n % Width) < Width
             THEN r + (n % Width) \in a[q + vecN - 1]
             ELSE r + (n % Width) - Width \in a[q + vecN]
  <1> DEFINE N == n \div Width
             s == n % Width
  <1> HIDE DEF N, s
  <1>1. Width \in Nat /\ N \in Nat /\ s \in 1 .. Width - 1 /\ n = N * Width + s /\ vecN = N + 1
    BY RingDimension DEF N, s
  <1>2. q * Width \in Nat /\ N * Width \in Nat /\ r \in 0 .. Width - 1
    BY <1>1, ProductNat DEF Bit
  <1>3. (q + N) * Width = q * Width + N * Width
        /\ (q + N + 1) * Width = q * Width + N * Width + Width
    BY <1>1
  <1>4. q + vecN - 1 = q + N /\ q + vecN = q + N + 1
    BY <1>1
  <1>5. CASE r + s < Width
    <2>1. q * Width + r + n = (q + N) * Width + (r + s)
      BY <1>1, <1>2, <1>3
    <2>2. r + s \in Bit /\ q + N \in Nat
      BY <1>1, <1>2, <1>5 DEF Bit
    <2>3. Coefficient(a, (q + N) * Width + (r + s)) <=> r + s \in a[q + N]
      BY <2>2, CoefficientInWord
    <2> QED
      BY <1>4, <1>5, <2>1, <2>3 DEF s
  <1>6. CASE ~(r + s < Width)
    <2>1. q * Width + r + n = (q + N + 1) * Width + (r + s - Width)
      BY <1>1, <1>2, <1>3
    <2>2. r + s - Width \in Bit /\ q + N + 1 \in Nat
      BY <1>1, <1>2, <1>6 DEF Bit
    <2>3. Coefficient(a, (q + N + 1) * Width + (r + s - Width)) <=> r + s - Width \in a[q + N + 1]
      BY <2>2, CoefficientInWord
    <2> QED
      BY <1>4, <1>6, <2>1, <2>3 DEF s
  <1> QED
    BY <1>5, <1>6

(* What polyReduce puts into word q before the last word is masked.        *)
LEMMA FoldedWord ==
    ASSUME NEW a \in [0 .. 2 * vecN - 1 -> SUBSET Bit],
           NEW q \in 0 .. vecN - 1, NEW r \in Bit
    PROVE  r \in Xor(a[q], Xor(ShiftRight(a[q + vecN - 1], n % Width),
                               ShiftLeft(a[q + vecN], Width - (n % Width))))
             <=> (Coefficient(a, q * Width + r) # Coefficient(a, q * Width + r + n))
  <1> DEFINE s    == n % Width
             low  == a[q + vecN - 1]
             high == a[q + vecN]
  <1> HIDE DEF s, low, high
  <1>1. Width \in Nat /\ s \in 1 .. Width - 1 /\ vecN \in Nat /\ r \in 0 .. Width - 1
    BY RingDimension DEF s, Bit
  <1>2. low \subseteq 0 .. Width - 1 /\ high \subseteq 0 .. Width - 1
    <2>1. q + vecN - 1 \in 0 .. 2 * vecN - 1 /\ q + vecN \in 0 .. 2 * vecN - 1
      BY <1>1
    <2> QED
      BY <2>1 DEF low, high, Bit
  <1>3. r \in ShiftRight(low, s) <=> (r + s < Width /\ r + s \in low)
    BY <1>1, <1>2 DEF ShiftRight, Bit
  <1>4. r \in ShiftLeft(high, Width - s) <=> (~(r + s < Width) /\ r + s - Width \in high)
    BY <1>1, <1>2 DEF ShiftLeft, Bit
  <1>5. Coefficient(a, q * Width + r) <=> r \in a[q]
    BY <1>1, CoefficientInWord
  <1>6. Coefficient(a, q * Width + r + n) <=>
          IF r + s < Width THEN r + s \in low ELSE r + s - Width \in high
    BY <1>1, CoefficientAbove, SMTT(30) DEF s, low, high
  <1>7. Coefficient(a, q * Width + r) \in BOOLEAN /\ Coefficient(a, q * Width + r + n) \in BOOLEAN
    BY DEF Coefficient
  <1>8. r \in Xor(a[q], Xor(ShiftRight(low, s), ShiftLeft(high, Width - s)))
          <=> (Coefficient(a, q * Width + r) # Coefficient(a, q * Width + r + n))
    BY <1>3, <1>4, <1>5, <1>6, <1>7 DEF Xor
  <1> QED
    BY <1>8 DEF s, low, high

(* polyReduce (gf2x.go) is the remainder modulo X^n - 1: coefficient k of   *)
(* the result is the sum of coefficients k and k + n of the product, and   *)
(* nothing is left at or above n, for every dimension and word width.      *)
THEOREM ReductionFolds ==
    ASSUME NEW a \in [0 .. 2 * vecN - 1 -> SUBSET Bit], NEW k \in 0 .. vecN * Width - 1
    PROVE  Coefficient(polyReduce(a), k)
             <=> (k < n /\ Coefficient(a, k) # Coefficient(a, k + n))
  <1> DEFINE N == n \div Width
             s == n % Width
  <1> HIDE DEF N, s
  <1>1. Width \in Nat /\ Width > 0 /\ N \in Nat /\ s \in 1 .. Width - 1
        /\ n = N * Width + s /\ vecN = N + 1
    BY RingDimension DEF N, s
  <1>2. PICK q \in 0 .. vecN - 1, r \in 0 .. Width - 1 : k = q * Width + r
    <2>1. vecN \in Nat
      BY <1>1
    <2> QED
      BY <1>1, <2>1, Split, ZenonT(30)
  <1>3. q \in Nat /\ r \in Bit
    BY <1>1, <1>2 DEF Bit
  <1> DEFINE Folded(i) == Xor(a[i], Xor(ShiftRight(a[i + vecN - 1], n % Width),
                                        ShiftLeft(a[i + vecN], Width - (n % Width))))
  <1>4. polyReduce(a)[q] = IF q = vecN - 1 THEN Folded(q) \cap redMask ELSE Folded(q)
    <2> DEFINE o == [i \in 0 .. vecN - 1 |-> Folded(i)]
    <2>1. polyReduce(a) = [o EXCEPT ![vecN - 1] = @ \cap redMask]
      BY DEF polyReduce
    <2>2. o[q] = Folded(q) /\ q \in DOMAIN o
      OBVIOUS
    <2> HIDE DEF o, Folded
    <2> QED
      BY <2>1, <2>2
  <1>5. r \in Folded(q) <=> (Coefficient(a, k) # Coefficient(a, k + n))
    BY <1>2, <1>3, FoldedWord
  <1> HIDE DEF Folded
  <1>6. Coefficient(polyReduce(a), k) <=> r \in polyReduce(a)[q]
    BY <1>2, <1>3, CoefficientInWord
  <1>7. k < n <=> (q < N \/ (q = N /\ r < s))
    <2>1. s \in 0 .. Width - 1
      BY <1>1
    <2> QED
      BY <1>1, <1>2, <1>3, <2>1, LexicographicOrder
  <1>8. r \in redMask <=> r < s
    <2>1. redMask = 0 .. s - 1
      BY DEF redMask, s
    <2> QED
      BY <1>1, <1>2, <2>1
  <1>9. CASE q = vecN - 1
    BY <1>1, <1>2, <1>4, <1>5, <1>6, <1>7, <1>8, <1>9
  <1>10. CASE q # vecN - 1
    BY <1>1, <1>2, <1>4, <1>5, <1>6, <1>7, <1>10
  <1> QED
    BY <1>9, <1>10

-----------------------------------------------------------------------------
(* Polynomials as sets of exponents.                                       *)

\* The parity of a sum of sets is the sum of their parities.
LEMMA XorParity ==
    ASSUME NEW S, NEW T, IsFiniteSet(S), IsFiniteSet(T)
    PROVE  Odd(Cardinality(Xor(S, T))) <=> ~(Odd(Cardinality(S)) <=> Odd(Cardinality(T)))
  <1> DEFINE s == Cardinality(S)
             t == Cardinality(T)
             c == Cardinality(S \cap T)
             d == Cardinality(Xor(S, T))
  <1>1. s \in Nat /\ t \in Nat /\ c \in Nat
    BY FS_CardinalityType, FS_Intersection
  <1>2. T \cap S = S \cap T /\ (S \ T) \cap (T \ S) = {}
    OBVIOUS
  <1>3. /\ IsFiniteSet(S \ T) /\ IsFiniteSet(T \ S)
        /\ Cardinality(S \ T) = s - c
        /\ Cardinality(T \ S) = t - c
    <2>1. IsFiniteSet(S \ T) /\ Cardinality(S \ T) = Cardinality(S) - Cardinality(S \cap T)
      BY FS_Difference
    <2>2. IsFiniteSet(T \ S) /\ Cardinality(T \ S) = Cardinality(T) - Cardinality(T \cap S)
      BY FS_Difference
    <2> QED
      BY <1>2, <2>1, <2>2
  <1> HIDE DEF s, t, c
  <1>4. d = (s - c) + (t - c) - 0
    BY <1>2, <1>3, FS_Union, FS_EmptySet DEF Xor
  <1> HIDE DEF d
  <1>5. d + 2 * c = s + t
    BY <1>1, <1>4
  <1>6. d \in Int
    BY <1>1, <1>4
  <1>7. Odd(d) <=> ~(Odd(s) <=> Odd(t))
    BY <1>1, <1>5, <1>6 DEF Odd
  <1> QED
    BY <1>7 DEF s, t, d

LEMMA XorMember ==
    ASSUME NEW S, NEW T, NEW x
    PROVE  x \in Xor(S, T) <=> ~(x \in S <=> x \in T)
  BY DEF Xor

\* A polynomial over GF(2): the exponents of its terms.
Polynomial == {e \in SUBSET Nat : \E m \in Nat : e \subseteq 0 .. m - 1}

\* The product by a power of X.
Shifted(e, s) == {x + s : x \in e}

\* The terms of e that meet one of f at exponent k.
Pairs(e, f, k) == {x \in e : k - x \in f}

LEMMA PolynomialFinite ==
    ASSUME NEW e \in Polynomial, NEW S \in SUBSET e
    PROVE  IsFiniteSet(S) /\ Cardinality(S) \in Nat
  <1>1. PICK m \in Nat : e \subseteq 0 .. m - 1
    BY DEF Polynomial
  <1>2. 0 \in Int /\ m - 1 \in Int
    OBVIOUS
  <1>3. IsFiniteSet(0 .. m - 1) /\ S \subseteq 0 .. m - 1
    BY <1>1, <1>2, FS_Interval
  <1> QED
    BY <1>3, FS_Subset, FS_CardinalityType

LEMMA PolynomialTypes ==
    ASSUME NEW e \in Polynomial, NEW f \in Polynomial, NEW s \in Nat
    PROVE  /\ Xor(e, f) \in Polynomial
           /\ Shifted(e, s) \in Polynomial
           /\ \A S \in SUBSET e : S \in Polynomial
  <1>1. PICK m \in Nat : e \subseteq 0 .. m - 1
    BY DEF Polynomial
  <1>2. PICK k \in Nat : f \subseteq 0 .. k - 1
    BY DEF Polynomial
  <1>3. Xor(e, f) \subseteq 0 .. (m + k) - 1 /\ Xor(e, f) \subseteq Nat
    BY <1>1, <1>2 DEF Xor
  <1>4. Shifted(e, s) \subseteq 0 .. (m + s) - 1 /\ Shifted(e, s) \subseteq Nat
    BY <1>1 DEF Shifted
  <1>5. m + k \in Nat /\ m + s \in Nat
    OBVIOUS
  <1>6. \A S \in SUBSET e : S \subseteq 0 .. m - 1 /\ S \subseteq Nat
    BY <1>1
  <1> QED
    BY <1>3, <1>4, <1>5, <1>6 DEF Polynomial

\* A coefficient of a product is the parity of the pairs of terms that meet there.
LEMMA TimesCoefficient ==
    ASSUME NEW e \in Polynomial, NEW f \in Polynomial, NEW k
    PROVE  k \in Times(e, f) <=> k \in Nat /\ Odd(Cardinality(Pairs(e, f, k)))
  <1>1. e \subseteq Nat /\ f \subseteq Nat
    BY DEF Polynomial
  <1>2. k \in Times(e, f) => k \in Nat /\ Odd(Cardinality(Pairs(e, f, k)))
    BY <1>1 DEF Times, Pairs
  <1>3. ASSUME k \in Nat, Odd(Cardinality(Pairs(e, f, k)))
        PROVE  k \in Times(e, f)
    <2>1. Pairs(e, f, k) # {}
      BY <1>3, FS_EmptySet DEF Odd
    <2>2. PICK x \in e : k - x \in f
      BY <2>1 DEF Pairs
    <2>3. k = x + (k - x)
      BY <1>1, <1>3, <2>2
    <2> QED
      BY <1>3, <2>2, <2>3 DEF Times, Pairs
  <1> QED
    BY <1>2, <1>3

\* The product distributes over sums and commutes, and a shift of a factor shifts it.
LEMMA TimesSumRight ==
    ASSUME NEW e \in Polynomial, NEW f \in Polynomial, NEW g \in Polynomial
    PROVE  Times(e, Xor(f, g)) = Xor(Times(e, f), Times(e, g))
  <1>1. Xor(f, g) \in Polynomial
    BY PolynomialTypes
  <1>2. ASSUME NEW k \in Nat
        PROVE  Odd(Cardinality(Pairs(e, Xor(f, g), k))) <=>
                   ~(Odd(Cardinality(Pairs(e, f, k))) <=> Odd(Cardinality(Pairs(e, g, k))))
    <2>1. Pairs(e, Xor(f, g), k) = Xor(Pairs(e, f, k), Pairs(e, g, k))
      BY DEF Pairs, Xor
    <2>2. IsFiniteSet(Pairs(e, f, k)) /\ IsFiniteSet(Pairs(e, g, k))
      BY PolynomialFinite DEF Pairs
    <2> QED
      BY <2>1, <2>2, XorParity
  <1>3. \A k : k \in Times(e, Xor(f, g)) <=> k \in Xor(Times(e, f), Times(e, g))
    BY <1>1, <1>2, TimesCoefficient, XorMember
  <1> QED
    BY <1>3

LEMMA TimesCommutes ==
    ASSUME NEW e \in Polynomial, NEW f \in Polynomial
    PROVE  Times(e, f) = Times(f, e)
  <1>1. ASSUME NEW k \in Nat
        PROVE  Cardinality(Pairs(e, f, k)) = Cardinality(Pairs(f, e, k))
    <2> DEFINE S == Pairs(e, f, k)
               T == Pairs(f, e, k)
               h == [x \in S |-> k - x]
    <2>1. e \subseteq Nat /\ f \subseteq Nat
      BY DEF Polynomial
    <2>2. \A x \in S : h[x] \in T
      BY <2>1 DEF Pairs
    <2>3. \A x, y \in S : h[x] = h[y] => x = y
      BY <2>1 DEF Pairs
    <2>4. \A y \in T : k - y \in S /\ h[k - y] = y
      BY <2>1 DEF Pairs
    <2>5. h \in Bijection(S, T)
      <3> HIDE DEF S, T
      <3>1. h \in [S -> T]
        BY <2>2
      <3>2. \A t \in T : \E s \in S : h[s] = t
        BY <2>4
      <3> HIDE DEF h
      <3> QED
        BY <2>3, <3>1, <3>2 DEF Bijection, Injection, Surjection, IsInjective
    <2>6. IsFiniteSet(S)
      BY PolynomialFinite DEF Pairs
    <2> HIDE DEF S, T, h
    <2>7. Cardinality(T) = Cardinality(S)
      BY <2>5, <2>6, FS_Bijection DEF ExistsBijection
    <2> QED
      BY <2>7 DEF S, T
  <1>2. \A k : k \in Times(e, f) <=> k \in Times(f, e)
    BY <1>1, TimesCoefficient
  <1> QED
    BY <1>2

LEMMA TimesSumLeft ==
    ASSUME NEW e \in Polynomial, NEW f \in Polynomial, NEW g \in Polynomial
    PROVE  Times(Xor(e, f), g) = Xor(Times(e, g), Times(f, g))
  <1>1. Xor(e, f) \in Polynomial
    BY PolynomialTypes
  <1> QED
    BY <1>1, TimesCommutes, TimesSumRight

LEMMA TimesShiftedRight ==
    ASSUME NEW e \in Polynomial, NEW f \in Polynomial, NEW s \in Nat
    PROVE  Times(e, Shifted(f, s)) = Shifted(Times(e, f), s)
  <1>1. Shifted(f, s) \in Polynomial /\ e \subseteq Nat /\ f \subseteq Nat
    BY PolynomialTypes DEF Polynomial
  <1>2. ASSUME NEW k \in Nat
        PROVE  k \in Times(e, Shifted(f, s)) <=> (k - s \in Nat /\ k - s \in Times(e, f))
    <2>1. Pairs(e, Shifted(f, s), k) = Pairs(e, f, k - s)
      <3>1. \A x \in e : k - x \in Shifted(f, s) <=> (k - s) - x \in f
        BY <1>1 DEF Shifted
      <3> QED
        BY <3>1 DEF Pairs
    <2>2. CASE k - s \in Nat
      BY <1>1, <2>1, <2>2, TimesCoefficient
    <2>3. CASE k - s \notin Nat
      <3>1. Pairs(e, f, k - s) = {}
        <4>1. \A x \in e : x \in Nat /\ (k - s) - x \notin Nat
          BY <1>1, <2>3
        <4> QED
          BY <1>1, <4>1 DEF Pairs
      <3>2. ~Odd(Cardinality(Pairs(e, Shifted(f, s), k)))
        BY <2>1, <3>1, FS_EmptySet DEF Odd
      <3> QED
        BY <1>1, <2>3, <3>2, TimesCoefficient
    <2> QED
      BY <2>2, <2>3
  <1>3. Times(e, f) \subseteq Nat /\ Times(e, Shifted(f, s)) \subseteq Nat
    BY <1>1, TimesCoefficient
  <1>4. \A k : k \in Shifted(Times(e, f), s) <=> (k \in Nat /\ k - s \in Nat /\ k - s \in Times(e, f))
    BY <1>3 DEF Shifted
  <1>5. \A k : k \in Times(e, Shifted(f, s)) <=> k \in Shifted(Times(e, f), s)
    BY <1>2, <1>3, <1>4
  <1> QED
    BY <1>5

LEMMA TimesShiftedLeft ==
    ASSUME NEW e \in Polynomial, NEW f \in Polynomial, NEW s \in Nat
    PROVE  Times(Shifted(e, s), f) = Shifted(Times(e, f), s)
  <1>1. Shifted(e, s) \in Polynomial
    BY PolynomialTypes
  <1> QED
    BY <1>1, TimesCommutes, TimesShiftedRight

-----------------------------------------------------------------------------
(* The identity behind karatsuba, and polynomials as slices of a memory.   *)

LEMMA ShiftedNat ==
    ASSUME NEW e, e \subseteq Nat, NEW s \in Nat
    PROVE  Shifted(e, s) \subseteq Nat
  BY DEF Shifted

LEMMA ShiftedSums ==
    ASSUME NEW e, NEW f, e \subseteq Nat, f \subseteq Nat, NEW s \in Nat
    PROVE  /\ Shifted(Xor(e, f), s) = Xor(Shifted(e, s), Shifted(f, s))
           /\ Shifted(Shifted(e, s), s) = Shifted(e, 2 * s)
  <1>1. \A x, y \in Nat : x + s = y + s => x = y
    OBVIOUS
  <1>2. Shifted(Xor(e, f), s) = Xor(Shifted(e, s), Shifted(f, s))
    BY <1>1 DEF Shifted, Xor
  <1>3. \A x \in Nat : (x + s) + s = x + 2 * s
    OBVIOUS
  <1>4. Shifted(Shifted(e, s), s) = Shifted(e, 2 * s)
    BY <1>3, ZenonT(30) DEF Shifted
  <1> QED
    BY <1>2, <1>4

\* The product of two factors cut in halves takes three products of halves.
LEMMA ThreeProducts ==
    ASSUME NEW low1 \in Polynomial, NEW high1 \in Polynomial,
           NEW low2 \in Polynomial, NEW high2 \in Polynomial, NEW s \in Nat
    PROVE  LET lows  == Times(low1, low2)
               highs == Times(high1, high2)
               sums  == Times(Xor(low1, high1), Xor(low2, high2))
           IN  Times(Xor(low1, Shifted(high1, s)), Xor(low2, Shifted(high2, s)))
                   = Xor(Xor(lows, Shifted(highs, 2 * s)), Shifted(Xor(sums, Xor(lows, highs)), s))
  <1> DEFINE lows   == Times(low1, low2)
             highs  == Times(high1, high2)
             cross1 == Times(low1, high2)
             cross2 == Times(high1, low2)
             sums   == Times(Xor(low1, high1), Xor(low2, high2))
             right  == Xor(low2, Shifted(high2, s))
             whole  == Times(Xor(low1, Shifted(high1, s)), right)
  <1>1. Shifted(high1, s) \in Polynomial /\ Shifted(high2, s) \in Polynomial /\ right \in Polynomial
        /\ Xor(low2, high2) \in Polynomial
    BY PolynomialTypes
  <1>2. /\ lows \subseteq Nat /\ highs \subseteq Nat /\ cross1 \subseteq Nat /\ cross2 \subseteq Nat
    BY TimesCoefficient
  <1>3. sums = Xor(Xor(lows, cross1), Xor(cross2, highs))
    <2>1. sums = Xor(Times(low1, Xor(low2, high2)), Times(high1, Xor(low2, high2)))
      BY <1>1, TimesSumLeft
    <2> QED
      BY <2>1, TimesSumRight
  <1>4. whole = Xor(Times(low1, right), Times(Shifted(high1, s), right))
    BY <1>1, TimesSumLeft
  <1>5. Times(low1, right) = Xor(lows, Shifted(cross1, s))
    BY <1>1, TimesSumRight, TimesShiftedRight
  <1>6. Times(Shifted(high1, s), right) = Xor(Shifted(cross2, s), Shifted(highs, 2 * s))
    <2>1. Times(Shifted(high1, s), right) = Shifted(Times(high1, right), s)
      BY <1>1, TimesShiftedLeft
    <2>2. Times(high1, right) = Xor(cross2, Shifted(highs, s))
      BY <1>1, TimesSumRight, TimesShiftedRight
    <2>3. Shifted(highs, s) \subseteq Nat
      BY <1>2 DEF Shifted
    <2>4. Shifted(Xor(cross2, Shifted(highs, s)), s)
              = Xor(Shifted(cross2, s), Shifted(Shifted(highs, s), s))
      BY <1>2, <2>3, ShiftedSums
    <2>5. Shifted(Shifted(highs, s), s) = Shifted(highs, 2 * s)
      BY <1>2, ShiftedSums
    <2> HIDE DEF cross2, highs, right
    <2> QED
      BY <2>1, <2>2, <2>4, <2>5
  <1> HIDE DEF lows, highs, cross1, cross2, sums, whole
  <1>7. Xor(sums, Xor(lows, highs)) = Xor(cross1, cross2)
    BY <1>3 DEF Xor
  <1>8. Shifted(Xor(cross1, cross2), s) = Xor(Shifted(cross1, s), Shifted(cross2, s))
    BY <1>2, ShiftedSums, ZenonT(30)
  <1>9. whole = Xor(Xor(lows, Shifted(cross1, s)), Xor(Shifted(cross2, s), Shifted(highs, 2 * s)))
    BY <1>4, <1>5, <1>6
  <1>10. whole = Xor(Xor(lows, Shifted(highs, 2 * s)), Xor(Shifted(cross1, s), Shifted(cross2, s)))
    BY <1>9 DEF Xor
  <1> QED
    BY <1>7, <1>8, <1>10 DEF lows, highs, sums, whole, right

-----------------------------------------------------------------------------
(* The polynomial of a slice.                                              *)

\* The exponents of the polynomial in the `len` words of memory m from place `at`.
Span(m, at, len) == {x \in 0 .. len * Width - 1 : x % Width \in m[at + x \div Width]}

\* Every exponent is a word number and a bit.
LEMMA NatSplit ==
    ASSUME NEW x \in Nat
    PROVE  \E q \in Nat, r \in Bit : x = q * Width + r
  <1>1. Width \in Nat /\ Width > 0
    BY RingDimension
  <1>2. (x \div Width) * Width <= x /\ x < (x \div Width) * Width + Width /\ x \div Width \in Nat
    BY <1>1, DivisionBounds
  <1> DEFINE q == x \div Width
             r == x - q * Width
  <1>3. q * Width \in Nat
    BY <1>1, <1>2, ProductNat
  <1> HIDE DEF q
  <1>4. r \in Bit /\ x = q * Width + r
    BY <1>1, <1>2, <1>3 DEF Bit, q
  <1> QED
    BY <1>2, <1>4 DEF q

LEMMA SpanMember ==
    ASSUME NEW m, NEW at \in Nat, NEW len \in Nat, NEW q \in Nat, NEW r \in Bit
    PROVE  q * Width + r \in Span(m, at, len) <=> q < len /\ r \in m[at + q]
  <1>1. Width \in Nat /\ Width > 0 /\ r \in 0 .. Width - 1
    BY RingDimension DEF Bit
  <1>2. (q * Width + r) \div Width = q /\ (q * Width + r) % Width = r
    BY <1>1, QuotientUnique
  <1>3. q * Width + r \in 0 .. len * Width - 1 <=> q < len
    <2>1. q < len => q * Width + r \in 0 .. len * Width - 1
      BY <1>1, Join
    <2>2. q * Width + r \in 0 .. len * Width - 1 => q < len
      <3>1. q * Width \in Nat /\ len * Width \in Nat
        BY <1>1, ProductNat
      <3>2. q * Width + r \in 0 .. len * Width - 1 => q * Width < len * Width
        BY <1>1, <3>1
      <3> QED
        BY <1>1, <3>2, ProductCancels
    <2> QED
      BY <2>1, <2>2
  <1> DEFINE x == q * Width + r
  <1> HIDE DEF x
  <1>4. x \in Span(m, at, len) <=> x \in 0 .. len * Width - 1 /\ x % Width \in m[at + x \div Width]
    BY DEF Span
  <1> QED
    BY <1>2, <1>3, <1>4 DEF x

LEMMA ShiftedMember ==
    ASSUME NEW e, e \subseteq Nat, NEW s \in Nat, NEW q \in Nat, NEW r \in Bit
    PROVE  q * Width + r \in Shifted(e, s * Width) <=> q >= s /\ (q - s) * Width + r \in e
  <1>1. Width \in Nat /\ Width > 0 /\ r \in Nat /\ r < Width
    BY RingDimension DEF Bit
  <1>2. q * Width \in Nat /\ s * Width \in Nat
    BY <1>1, ProductNat
  <1>3. CASE q >= s
    <2>1. (q - s) * Width = q * Width - s * Width
      BY <1>1
    <2> DEFINE big   == q * Width + r
               small == (q - s) * Width + r
               step  == s * Width
    <2>2. step \in Nat /\ big \in Nat /\ small \in Int /\ big = small + step
      BY <1>1, <1>2, <2>1
    <2> HIDE DEF big, small, step
    <2>3. big \in Shifted(e, step) <=> small \in e
      <3>1. \A x \in e : x + step = big => x = small
        BY <2>2
      <3> QED
        BY <2>2, <3>1 DEF Shifted
    <2> QED
      BY <1>3, <2>3 DEF big, small, step
  <1>4. CASE q < s
    <2>1. (q + 1) * Width <= s * Width /\ (q + 1) * Width = q * Width + Width
      BY <1>1, <1>4, ProductGrows
    <2>2. \A x \in e : x + s * Width # q * Width + r
      BY <1>1, <1>2, <2>1
    <2> QED
      BY <1>4, <2>2 DEF Shifted
  <1> QED
    BY <1>3, <1>4

LEMMA SpanPolynomial ==
    ASSUME NEW m, NEW at, NEW len \in Nat
    PROVE  Span(m, at, len) \in Polynomial
  <1>1. len * Width \in Nat
    BY RingDimension, ProductNat
  <1> DEFINE size == len * Width
  <1>2. Span(m, at, len) \subseteq 0 .. size - 1
    BY DEF Span
  <1> HIDE DEF size
  <1>3. Span(m, at, len) \subseteq Nat /\ size \in Nat
    BY <1>1, <1>2 DEF size
  <1> QED
    BY <1>2, <1>3 DEF Polynomial

\* Sets of exponents are equal when they have the same bits in the same words.
LEMMA SameBits ==
    ASSUME NEW e, NEW f, e \subseteq Nat, f \subseteq Nat,
           \A q \in Nat, r \in Bit : q * Width + r \in e <=> q * Width + r \in f
    PROVE  e = f
  <1>1. \A x \in Nat : x \in e <=> x \in f
    BY NatSplit
  <1> QED
    BY <1>1

LEMMA SpanSame ==
    ASSUME NEW m, NEW k, NEW at \in Nat, NEW from \in Nat, NEW len \in Nat,
           \A i \in Nat : i < len => m[at + i] = k[from + i]
    PROVE  Span(m, at, len) = Span(k, from, len)
  <1>1. ASSUME NEW q \in Nat, NEW r \in Bit
        PROVE  q * Width + r \in Span(m, at, len) <=> q * Width + r \in Span(k, from, len)
    <2>1. q < len => m[at + q] = k[from + q]
      OBVIOUS
    <2>2. q * Width + r \in Span(m, at, len) <=> q < len /\ r \in m[at + q]
      BY SpanMember
    <2>3. q * Width + r \in Span(k, from, len) <=> q < len /\ r \in k[from + q]
      BY SpanMember
    <2> QED
      BY <2>1, <2>2, <2>3
  <1>2. Span(m, at, len) \subseteq Nat /\ Span(k, from, len) \subseteq Nat
    BY SpanPolynomial DEF Polynomial
  <1> QED
    BY <1>1, <1>2, SameBits

\* A slice in two parts.
Parts(at, s, t, len, next, step) == len = s + t /\ next = at + s /\ step = s * Width

\* A slice is the sum of its two parts, the second one shifted.
LEMMA SpanInParts ==
    ASSUME NEW m, NEW at \in Nat, NEW s \in Nat, NEW t \in Nat,
           NEW len \in Nat, NEW next \in Nat, NEW step, Parts(at, s, t, len, next, step)
    PROVE  Span(m, at, len) = Xor(Span(m, at, s), Shifted(Span(m, next, t), step))
  <1> DEFINE low  == Span(m, at, s)
             high == Span(m, next, t)
             whole == Span(m, at, len)
             right == Xor(low, Shifted(high, step))
  <1>1. len = s + t /\ next = at + s /\ step = s * Width
    BY DEF Parts
  <1>2. low \subseteq Nat /\ high \subseteq Nat /\ whole \subseteq Nat /\ step \in Nat
    BY <1>1, SpanPolynomial, RingDimension, ProductNat DEF Polynomial
  <1>3. Shifted(high, step) \subseteq Nat
    BY <1>2 DEF Shifted
  <1>4. right \subseteq Nat
    BY <1>2, <1>3 DEF Xor
  <1>5. ASSUME NEW q \in Nat, NEW r \in Bit
        PROVE  q * Width + r \in whole <=> q * Width + r \in right
    <2>1. q * Width + r \in whole <=> q < len /\ r \in m[at + q]
      BY SpanMember
    <2>2. q * Width + r \in low <=> q < s /\ r \in m[at + q]
      BY SpanMember
    <2>3. q * Width + r \in Shifted(high, step) <=> q >= s /\ (q - s) * Width + r \in high
      BY <1>1, <1>2, ShiftedMember
    <2>4. q >= s => ((q - s) * Width + r \in high <=> q - s < t /\ r \in m[next + (q - s)])
      <3> SUFFICES ASSUME q >= s
                   PROVE  (q - s) * Width + r \in high <=> q - s < t /\ r \in m[next + (q - s)]
        OBVIOUS
      <3> DEFINE j == q - s
      <3>1. j \in Nat
        OBVIOUS
      <3> HIDE DEF j
      <3>2. j * Width + r \in Span(m, next, t) <=> j < t /\ r \in m[next + j]
        BY <3>1, SpanMember
      <3> QED
        BY <3>2 DEF j
    <2>5. q >= s => next + (q - s) = at + q
      BY <1>1
    <2> HIDE DEF low, high, whole
    <2>6. q >= s => (q - s < t <=> q < len)
      BY <1>1
    <2>7. q < s => q < len
      BY <1>1
    <2> QED
      BY <2>1, <2>2, <2>3, <2>4, <2>5, <2>6, <2>7, XorMember
  <1> HIDE DEF whole, right
  <1>6. whole = right
    BY <1>2, <1>4, <1>5, SameBits
  <1> QED
    BY <1>6 DEF low, high, whole, right

-----------------------------------------------------------------------------
(* The table of multiples of baseMul.                                      *)

\* Membership of every number follows from that of the smaller ones.
Inductive(S) == \A k \in Nat : 0 .. k - 1 \subseteq S => k \in S

\* Complete induction.
LEMMA EveryNatural ==
    ASSUME NEW S, Inductive(S)
    PROVE  Nat \subseteq S
  <1> DEFINE T == Nat \ S
             R == OpToRel(<, Nat)
  <1> SUFFICES ASSUME T # {} PROVE FALSE
    OBVIOUS
  <1>1. IsWellFoundedOn(R, Nat)
    BY NatLessThanWellFounded
  <1>2. \A j \in Nat : \A k \in Nat : j < k => <<j, k>> \in R
    BY DEF OpToRel
  <1> HIDE DEF R
  <1>3. \A k \in Nat : k \in T <=> k \notin S
    OBVIOUS
  <1>4. T \subseteq Nat
    OBVIOUS
  <1> HIDE DEF T
  <1>5. PICK k \in T : \A m \in T : <<m, k>> \notin R
    BY <1>1, <1>4, WFMin, Zenon
  <1>6. ASSUME NEW j \in 0 .. k - 1 PROVE j \in S
    <2>1. j \in Nat /\ k \in Nat /\ j < k
      BY <1>4
    <2> QED
      BY <1>2, <1>3, <1>5, <2>1
  <1>7. k \in Nat /\ 0 .. k - 1 \subseteq S
    BY <1>4, <1>6
  <1> QED
    BY <1>3, <1>7 DEF Inductive

-----------------------------------------------------------------------------
(* The product of two words.                                               *)

LEMMA WordGeometry ==
    /\ Width \in Nat /\ Chunk \in Nat /\ Chunk > 0 /\ Chunk <= Width
    /\ Width - Chunk \in Nat
    /\ Bit = 0 .. Width - 1
  BY Gf2xAssumption DEF Bit

LEMMA WordsArePolynomials ==
    ASSUME NEW m \in Nat, NEW c \in SUBSET (0 .. m - 1)
    PROVE  c \in Polynomial /\ c \subseteq Nat
  BY DEF Polynomial

\* The degree of a product.
LEMMA TimesBounded ==
    ASSUME NEW m \in Nat, NEW k \in Nat, NEW e \in SUBSET (0 .. m - 1), NEW f \in SUBSET (0 .. k - 1)
    PROVE  Times(e, f) \subseteq 0 .. m + k - 2
  <1>1. \A x \in e, y \in f : x + y \in 0 .. m + k - 2
    OBVIOUS
  <1> QED
    BY <1>1 DEF Times

LEMMA TimesUnits ==
    ASSUME NEW f \in Polynomial
    PROVE  Times({}, f) = {} /\ Times({0}, f) = f
  <1>1. f \subseteq Nat
    BY DEF Polynomial
  <1>2. {0} \in Polynomial
    <2>1. {0} \subseteq 0 .. 1 - 1
      OBVIOUS
    <2> QED
      BY <2>1 DEF Polynomial
  <1>3. ASSUME NEW k \in Nat
        PROVE  Odd(Cardinality(Pairs({0}, f, k))) <=> k \in f
    <2>1. k - 0 = k
      OBVIOUS
    <2>2. Pairs({0}, f, k) = IF k \in f THEN {0} ELSE {}
      BY <2>1 DEF Pairs
    <2>3. Cardinality({0}) = 1 /\ Cardinality({}) = 0
      BY FS_Singleton, FS_EmptySet
    <2> QED
      BY <2>2, <2>3 DEF Odd
  <1>4. \A k : k \in Times({0}, f) <=> k \in f
    BY <1>1, <1>2, <1>3, TimesCoefficient
  <1>5. Times({0}, f) = f
    BY <1>4
  <1>6. Times({}, f) = {}
    BY DEF Times
  <1> QED
    BY <1>5, <1>6

\* The body of the recursive table of baseMul.
chunkStep(u, low, c) ==
    IF c = {} THEN {}
    ELSE IF 0 \in c THEN Xor(u[c \ {0}], low)
    ELSE ShiftLeft(u[ShiftRight(c, 1)], 1)

\* The bits of b that the table takes into account.
Low(b) == b \cap (0 .. Width - Chunk - 1)

LEMMA LowPolynomial ==
    ASSUME NEW b
    PROVE  Low(b) \in SUBSET (0 .. (Width - Chunk) - 1) /\ Low(b) \in Polynomial
  <1>1. Low(b) \in SUBSET (0 .. (Width - Chunk) - 1)
    BY DEF Low
  <1>2. Width - Chunk \in Nat
    BY WordGeometry
  <1> QED
    BY <1>1, <1>2, WordsArePolynomials

\* A chunk without its lowest bit is twice a smaller one.
LEMMA ChunkHalf ==
    ASSUME NEW c \in SUBSET (0 .. Chunk - 1), 0 \notin c
    PROVE  /\ ShiftRight(c, 1) \in SUBSET (0 .. (Chunk - 1) - 1)
           /\ ShiftRight(c, 1) \in SUBSET (0 .. Chunk - 1)
           /\ Shifted(ShiftRight(c, 1), 1) = c
           /\ \A m \in Nat : c \subseteq 0 .. m => ShiftRight(c, 1) \subseteq 0 .. m - 1
  <1>1. \A i \in c : i \in Int /\ i - 1 \in 0 .. Chunk - 2 /\ i - 1 \in Bit /\ (i - 1) + 1 = i
    BY WordGeometry
  <1>2. ShiftRight(c, 1) = {i - 1 : i \in c}
    BY <1>1 DEF ShiftRight
  <1>3. \A m \in Nat : c \subseteq 0 .. m => \A i \in c : i - 1 \in 0 .. m - 1
    BY <1>1
  <1>4. \A i \in c : i - 1 \in 0 .. (Chunk - 1) - 1 /\ i - 1 \in 0 .. Chunk - 1
    BY <1>1, WordGeometry
  <1>5. Shifted(ShiftRight(c, 1), 1) = c
    <2>1. \A i \in c : i - 1 \in ShiftRight(c, 1)
      BY <1>2
    <2>2. \A j \in ShiftRight(c, 1) : \E i \in c : j = i - 1
      BY <1>2
    <2>3. \A i \in c : i \in Shifted(ShiftRight(c, 1), 1)
      BY <1>1, <2>1 DEF Shifted
    <2>4. ASSUME NEW j \in ShiftRight(c, 1) PROVE j + 1 \in c
      BY <1>1, <2>2
    <2>5. Shifted(ShiftRight(c, 1), 1) \subseteq c
      BY <2>4 DEF Shifted
    <2> QED
      BY <2>3, <2>5
  <1> QED
    BY <1>2, <1>3, <1>4, <1>5

\* An even entry of the table is twice an earlier one; nothing is shifted out of it.
LEMMA DoubledProduct ==
    ASSUME NEW b, NEW c \in SUBSET (0 .. Chunk - 1), 0 \notin c
    PROVE  ShiftLeft(Times(ShiftRight(c, 1), Low(b)), 1) = Times(c, Low(b))
  <1> DEFINE e == ShiftRight(c, 1)
             w == Times(e, Low(b))
  <1>1. e \in SUBSET (0 .. (Chunk - 1) - 1) /\ Shifted(e, 1) = c
    BY ChunkHalf
  <1>2. Chunk - 1 \in Nat /\ Width - Chunk \in Nat
    BY WordGeometry
  <1> HIDE DEF e
  <1>3. e \in Polynomial
    BY <1>1, <1>2, WordsArePolynomials
  <1>4. Times(c, Low(b)) = Shifted(w, 1)
    BY <1>1, <1>3, LowPolynomial, TimesShiftedLeft
  <1>5. w \subseteq 0 .. (Chunk - 1) + (Width - Chunk) - 2
    BY <1>1, <1>2, LowPolynomial, TimesBounded
  <1> HIDE DEF w
  <1>6. \A i \in w : i + 1 \in Bit
    BY <1>5, WordGeometry
  <1>7. ShiftLeft(w, 1) = Shifted(w, 1)
    BY <1>6 DEF ShiftLeft, Shifted
  <1> QED
    BY <1>4, <1>7 DEF w, e

\* An odd entry is an even one plus b.
LEMMA WithConstantTerm ==
    ASSUME NEW b, NEW c \in SUBSET (0 .. Chunk - 1), 0 \in c
    PROVE  Xor(Times(c \ {0}, Low(b)), Low(b)) = Times(c, Low(b))
  <1>1. c \ {0} \in SUBSET (0 .. Chunk - 1) /\ {0} \in SUBSET (0 .. Chunk - 1)
        /\ c = Xor(c \ {0}, {0})
    BY DEF Xor
  <1>2. c \ {0} \in Polynomial /\ {0} \in Polynomial
    BY <1>1, WordGeometry, WordsArePolynomials
  <1>3. Times(c, Low(b)) = Xor(Times(c \ {0}, Low(b)), Times({0}, Low(b)))
    BY <1>1, <1>2, LowPolynomial, TimesSumLeft
  <1> QED
    BY <1>3, LowPolynomial, TimesUnits

\* The table of products satisfies the definition of the table,
LEMMA MultiplesExist ==
    ASSUME NEW b
    PROVE  LET S == SUBSET (0 .. Chunk - 1)
               h == [c \in S |-> Times(c, Low(b))]
           IN  h = [c \in S |-> chunkStep(h, Low(b), c)]
  <1> DEFINE S == SUBSET (0 .. Chunk - 1)
             h == [c \in S |-> Times(c, Low(b))]
  <1>1. ASSUME NEW c \in S PROVE h[c] = chunkStep(h, Low(b), c)
    <2>0. h[c] = Times(c, Low(b))
      OBVIOUS
    <2>1. CASE c = {}
      BY <2>0, <2>1, LowPolynomial, TimesUnits DEF chunkStep
    <2>2. CASE 0 \in c
      <3>1. c \ {0} \in S
        OBVIOUS
      <3>2. h[c \ {0}] = Times(c \ {0}, Low(b))
        BY <3>1
      <3> HIDE DEF h
      <3> QED
        BY <2>0, <2>2, <3>2, WithConstantTerm DEF chunkStep
    <2>3. CASE c # {} /\ 0 \notin c
      <3>1. ShiftRight(c, 1) \in S
        BY <2>3, ChunkHalf
      <3>2. h[ShiftRight(c, 1)] = Times(ShiftRight(c, 1), Low(b))
        BY <3>1
      <3> HIDE DEF h
      <3> QED
        BY <2>0, <2>3, <3>2, DoubledProduct DEF chunkStep
    <2> QED
      BY <2>1, <2>2, <2>3
  <1> QED
    BY <1>1

\* any table that satisfies it is that of the products,
LEMMA MultiplesAgree ==
    ASSUME NEW b, NEW u, \A c \in SUBSET (0 .. Chunk - 1) : u[c] = chunkStep(u, Low(b), c)
    PROVE  \A c \in SUBSET (0 .. Chunk - 1) : u[c] = Times(c, Low(b))
  <1> DEFINE S == SUBSET (0 .. Chunk - 1)
             P == {m \in Nat : \A c \in S : c \subseteq 0 .. m - 1 => u[c] = Times(c, Low(b))}
  <1>1. ASSUME NEW m \in Nat, 0 .. m - 1 \subseteq P PROVE m \in P
    <2>0. u[{}] = Times({}, Low(b))
      <3>1. {} \in S
        OBVIOUS
      <3> QED
        BY <3>1, LowPolynomial, TimesUnits DEF chunkStep
    <2>1. ASSUME NEW c \in S, c \subseteq 0 .. m - 1, 0 \notin c
          PROVE  u[c] = Times(c, Low(b))
      <3>1. CASE c = {}
        BY <2>0, <3>1
      <3>2. CASE c # {}
        <4> DEFINE e == ShiftRight(c, 1)
        <4>1. m - 1 \in 0 .. m - 1 /\ m - 1 \in Nat
          <5>1. PICK i \in c : TRUE
            BY <3>2
          <5> QED
            BY <2>1, <5>1
        <4>2. e \in S /\ e \subseteq 0 .. (m - 1) - 1
          BY <2>1, <4>1, ChunkHalf
        <4>3. m - 1 \in P
          BY <1>1, <4>1
        <4> HIDE DEF e
        <4>4. u[e] = Times(e, Low(b))
          BY <4>2, <4>3
        <4>5. u[c] = ShiftLeft(u[e], 1)
          BY <2>1, <3>2 DEF chunkStep, e
        <4> QED
          BY <2>1, <4>4, <4>5, DoubledProduct DEF e
      <3> QED
        BY <3>1, <3>2
    <2>2. ASSUME NEW c \in S, c \subseteq 0 .. m - 1, 0 \in c
          PROVE  u[c] = Times(c, Low(b))
      <3>1. c \ {0} \in S /\ c \ {0} \subseteq 0 .. m - 1 /\ 0 \notin c \ {0}
        BY <2>2
      <3>2. u[c \ {0}] = Times(c \ {0}, Low(b))
        BY <2>1, <3>1
      <3>3. u[c] = Xor(u[c \ {0}], Low(b))
        BY <2>2 DEF chunkStep
      <3> QED
        BY <2>2, <3>2, <3>3, WithConstantTerm
    <2> QED
      BY <2>1, <2>2
  <1>2. Inductive(P)
    <2> HIDE DEF P
    <2> QED
      BY <1>1 DEF Inductive
  <1>3. Chunk \in P
    <2> HIDE DEF P
    <2> QED
      BY <1>2, EveryNatural, WordGeometry
  <1> QED
    BY <1>3

\* and so the table of baseMul holds the products of b, its top bits left out,
\* by every chunk.
LEMMA MultiplesAre ==
    ASSUME NEW b, NEW c \in SUBSET (0 .. Chunk - 1)
    PROVE  multiples(b)[c] = Times(c, Low(b))
  <1> DEFINE S == SUBSET (0 .. Chunk - 1)
             h == [e \in S |-> Times(e, Low(b))]
             u == CHOOSE f : f = [e \in S |-> chunkStep(f, Low(b), e)]
  <1>1. multiples(b) = u
    BY DEF multiples, chunkStep, Low
  <1>2. h = [e \in S |-> chunkStep(h, Low(b), e)]
    BY MultiplesExist
  <1> HIDE DEF h
  <1>3. u = [e \in S |-> chunkStep(u, Low(b), e)]
    BY <1>2
  <1> HIDE DEF u
  <1>4. \A e \in S : u[e] = chunkStep(u, Low(b), e)
    BY <1>3
  <1>5. \A e \in S : u[e] = Times(e, Low(b))
    BY <1>4, MultiplesAgree
  <1> QED
    BY <1>1, <1>5

-----------------------------------------------------------------------------
(* The sum over the chunks of a word.                                      *)

\* Where the chunks of a word begin.
starts == {i \in Bit : (i % Chunk) = 0}

\* The chunks of a below place m whose multiple of b reaches exponent k.
Reaching(a, b, k, m) == {i \in starts : i < m /\ k - i \in Times(chunkAt(a, i), Low(b))}

LEMMA OneStart ==
    ASSUME NEW j \in Nat, NEW i \in starts, j * Chunk <= i, i < (j + 1) * Chunk
    PROVE  i = j * Chunk
  <1> DEFINE q == i \div Chunk
  <1>1. i \in Nat /\ Chunk \in Nat /\ Chunk > 0 /\ (i % Chunk) = 0
    BY WordGeometry DEF starts
  <1>2. q \in Nat /\ i = q * Chunk + (i % Chunk)
    BY <1>1, QuotientRemainder
  <1> HIDE DEF q
  <1>3. i = q * Chunk
    BY <1>1, <1>2, ProductNat
  <1>4. j * Chunk \in Nat /\ (j + 1) * Chunk \in Nat /\ (j + 1) * Chunk = j * Chunk + Chunk
        /\ j + 1 \in Nat
    BY <1>1, ProductNat
  <1>5. q < j + 1
    BY <1>1, <1>2, <1>3, <1>4, ProductCancels
  <1>6. j * Chunk < q * Chunk + Chunk /\ q * Chunk + Chunk = (q + 1) * Chunk
    BY <1>1, <1>2, <1>3, <1>4
  <1>7. j < q + 1
    BY <1>1, <1>2, <1>6, ProductCancels
  <1>8. q = j
    BY <1>2, <1>5, <1>7
  <1> QED
    BY <1>3, <1>8

\* A word up to the end of a chunk is the word before it plus the chunk in its place.
LEMMA ChunkOfWord ==
    ASSUME NEW a \in SUBSET Bit, NEW i \in Nat, i + Chunk <= Width
    PROVE  /\ chunkAt(a, i) \in SUBSET (0 .. Chunk - 1)
           /\ a \cap (0 .. (i + Chunk) - 1) = Xor(a \cap (0 .. i - 1), Shifted(chunkAt(a, i), i))
  <1>1. chunkAt(a, i) \in SUBSET (0 .. Chunk - 1)
    BY DEF chunkAt
  <1>2. a \subseteq Int
    BY WordGeometry
  <1>3. \A x \in Int : x \in chunkAt(a, i) <=> x \in 0 .. Chunk - 1 /\ x + i \in a
    BY <1>2, WordGeometry DEF chunkAt, ShiftRight
  <1>4. \A x \in Int : x \in Shifted(chunkAt(a, i), i) <=> x \in i .. (i + Chunk) - 1 /\ x \in a
    <2>1. ASSUME NEW x \in Int, x \in i .. (i + Chunk) - 1, x \in a
          PROVE  x \in Shifted(chunkAt(a, i), i)
      <3>1. x - i \in 0 .. Chunk - 1 /\ (x - i) + i = x
        BY <2>1, WordGeometry
      <3>2. x - i \in chunkAt(a, i)
        BY <1>3, <2>1, <3>1
      <3> QED
        BY <3>1, <3>2 DEF Shifted
    <2>2. ASSUME NEW y \in chunkAt(a, i)
          PROVE  y + i \in i .. (i + Chunk) - 1 /\ y + i \in a
      <3>1. y \in 0 .. Chunk - 1
        BY <1>1
      <3> QED
        BY <1>3, <3>1, WordGeometry
    <2> QED
      BY <2>1, <2>2 DEF Shifted
  <1>5. \A x \in Shifted(chunkAt(a, i), i) : x \in Int
    BY <1>1 DEF Shifted
  <1>6. \A x \in Int : x \in a \cap (0 .. (i + Chunk) - 1)
                         <=> x \in Xor(a \cap (0 .. i - 1), Shifted(chunkAt(a, i), i))
    <2> SUFFICES ASSUME NEW x \in Int
                 PROVE  x \in a \cap (0 .. (i + Chunk) - 1)
                          <=> x \in Xor(a \cap (0 .. i - 1), Shifted(chunkAt(a, i), i))
      OBVIOUS
    <2>1. x \in Xor(a \cap (0 .. i - 1), Shifted(chunkAt(a, i), i))
            <=> ~(x \in a \cap (0 .. i - 1) <=> x \in Shifted(chunkAt(a, i), i))
      BY XorMember
    <2>2. x \in Shifted(chunkAt(a, i), i) <=> x \in i .. (i + Chunk) - 1 /\ x \in a
      BY <1>4
    <2> QED
      BY <2>1, <2>2, WordGeometry
  <1> QED
    BY <1>1, <1>2, <1>5, <1>6 DEF Xor

\* If the chunks before place j * Chunk add up to the product by that part of a,
\* those up to the next place do too.
LEMMA NextChunk ==
    ASSUME NEW a \in SUBSET Bit, NEW b, NEW k \in Nat, NEW j \in Nat, (j + 1) * Chunk <= Width,
           Odd(Cardinality(Reaching(a, b, k, j * Chunk)))
               <=> k \in Times(a \cap (0 .. j * Chunk - 1), Low(b))
    PROVE  Odd(Cardinality(Reaching(a, b, k, (j + 1) * Chunk)))
               <=> k \in Times(a \cap (0 .. (j + 1) * Chunk - 1), Low(b))
  <1> DEFINE i     == j * Chunk
             chunk == chunkAt(a, i)
             here  == {x \in {i} : k - i \in Times(chunk, Low(b))}
             before == Reaching(a, b, k, i)
             below  == a \cap (0 .. i - 1)
  <1>1. i \in Nat /\ (j + 1) * Chunk = i + Chunk /\ i + Chunk <= Width /\ i % Chunk = 0
    <2>1. i \in Nat /\ (j + 1) * Chunk = i + Chunk
      BY WordGeometry, ProductNat
    <2>2. (j * Chunk + 0) % Chunk = 0 /\ j * Chunk + 0 = i
      BY <2>1, WordGeometry, RemainderUnique
    <2> QED
      BY <2>1, <2>2
  <1>2. i \in starts
    BY <1>1, WordGeometry DEF starts
  <1>3. \A x \in starts : x < i + Chunk <=> x < i \/ x = i
    <2>1. \A x \in starts : x \in Nat
      BY WordGeometry DEF starts
    <2>2. \A x \in starts : i <= x /\ x < i + Chunk => x = i
      BY <1>1, OneStart
    <2> QED
      BY <1>1, <2>1, <2>2, WordGeometry
  <1>4. Reaching(a, b, k, i + Chunk) = Xor(before, here)
    <2>1. i \notin before
      BY <1>1 DEF Reaching
    <2>2. Reaching(a, b, k, i + Chunk) = before \cup here
      BY <1>2, <1>3 DEF Reaching
    <2> QED
      BY <2>1, <2>2 DEF Xor
  <1>5. IsFiniteSet(before) /\ IsFiniteSet(here)
    <2>1. before \subseteq 0 .. Width - 1 /\ 0 \in Int /\ Width - 1 \in Int
      BY WordGeometry DEF Reaching, starts
    <2>2. IsFiniteSet(0 .. Width - 1)
      BY <2>1, FS_Interval
    <2>3. IsFiniteSet(before)
      BY <2>1, <2>2, FS_Subset
    <2>4. here \subseteq {i} /\ IsFiniteSet({i})
      BY FS_Singleton
    <2> QED
      BY <2>3, <2>4, FS_Subset
  <1>6. Odd(Cardinality(here)) <=> k - i \in Times(chunk, Low(b))
    <2>1. here = {i} \/ here = {}
      OBVIOUS
    <2>2. here = {i} <=> k - i \in Times(chunk, Low(b))
      OBVIOUS
    <2> HIDE DEF here, i
    <2>3. Cardinality({i}) = 1 /\ Cardinality({}) = 0
      BY FS_Singleton, FS_EmptySet
    <2>4. Odd(Cardinality({i})) /\ ~Odd(Cardinality({}))
      BY <2>3 DEF Odd
    <2> QED
      BY <2>1, <2>2, <2>4
  <1>7. Odd(Cardinality(Xor(before, here))) <=> ~(Odd(Cardinality(before)) <=> Odd(Cardinality(here)))
    BY <1>5, XorParity
  <1>8. chunk \in Polynomial /\ below \in Polynomial /\ Shifted(chunk, i) \in Polynomial
        /\ a \cap (0 .. (i + Chunk) - 1) = Xor(below, Shifted(chunk, i))
    <2>1. chunk \in SUBSET (0 .. Chunk - 1)
          /\ a \cap (0 .. (i + Chunk) - 1) = Xor(below, Shifted(chunk, i))
      BY <1>1, ChunkOfWord
    <2>2. chunk \in Polynomial
      BY <2>1, WordGeometry, WordsArePolynomials
    <2>3. below \in SUBSET (0 .. i - 1)
      OBVIOUS
    <2>4. below \in Polynomial
      BY <1>1, <2>3, WordsArePolynomials
    <2> QED
      BY <1>1, <2>1, <2>2, <2>4, PolynomialTypes
  <1> HIDE DEF here, before, below, chunk
  <1>9. Times(Xor(below, Shifted(chunk, i)), Low(b))
            = Xor(Times(below, Low(b)), Shifted(Times(chunk, Low(b)), i))
    <2> HIDE DEF i
    <2>1. Times(Xor(below, Shifted(chunk, i)), Low(b))
              = Xor(Times(below, Low(b)), Times(Shifted(chunk, i), Low(b)))
      BY <1>8, LowPolynomial, TimesSumLeft
    <2> QED
      BY <1>1, <1>8, <2>1, LowPolynomial, TimesShiftedLeft
  <1>10. k \in Shifted(Times(chunk, Low(b)), i) <=> k - i \in Times(chunk, Low(b))
    <2> DEFINE product1 == Times(chunk, Low(b))
    <2>1. product1 \subseteq Nat
      BY <1>8, LowPolynomial, TimesCoefficient
    <2> HIDE DEF product1, i
    <2>2. k \in Shifted(product1, i) <=> k - i \in product1
      BY <1>1, <2>1 DEF Shifted
    <2> QED
      BY <2>2 DEF product1
  <1>11. k \in Times(Xor(below, Shifted(chunk, i)), Low(b))
           <=> ~(k \in Times(below, Low(b)) <=> k \in Shifted(Times(chunk, Low(b)), i))
    BY <1>9, XorMember
  <1>12. Odd(Cardinality(before)) <=> k \in Times(below, Low(b))
    BY DEF before, below
  <1> HIDE DEF i
  <1> QED
    BY <1>1, <1>4, <1>6, <1>7, <1>8, <1>10, <1>11, <1>12

\* All chunks add up to the product by a.
LEMMA ChunksSum ==
    ASSUME NEW a \in SUBSET Bit, NEW b, NEW k \in Nat
    PROVE  Odd(Cardinality({i \in starts : k - i \in Times(chunkAt(a, i), Low(b))}))
               <=> k \in Times(a, Low(b))
  <1> DEFINE Holds(j) == Odd(Cardinality(Reaching(a, b, k, j * Chunk)))
                             <=> k \in Times(a \cap (0 .. j * Chunk - 1), Low(b))
             P == {j \in Nat : j * Chunk <= Width => Holds(j)}
  <1>1. Holds(0)
    <2>1. 0 * Chunk = 0 /\ a \cap (0 .. 0 * Chunk - 1) = {}
      BY WordGeometry
    <2>2. Reaching(a, b, k, 0) = {}
      BY WordGeometry DEF Reaching, starts
    <2>3. Times({}, Low(b)) = {} /\ ~Odd(Cardinality({}))
      BY LowPolynomial, TimesUnits, FS_EmptySet DEF Odd
    <2> QED
      BY <2>1, <2>2, <2>3
  <1>2. ASSUME NEW j \in Nat, 0 .. j - 1 \subseteq P PROVE j \in P
    <2>1. CASE j = 0
      BY <1>1, <2>1
    <2>2. CASE j # 0
      <3> SUFFICES ASSUME j * Chunk <= Width PROVE Holds(j)
        OBVIOUS
      <3> DEFINE l == j - 1
      <3>1. l \in Nat /\ l \in 0 .. j - 1 /\ l + 1 = j
        BY <2>2
      <3> HIDE DEF l
      <3>2. l * Chunk <= (l + 1) * Chunk /\ l * Chunk \in Nat /\ (l + 1) * Chunk \in Nat
        BY <3>1, WordGeometry, ProductNat, ProductGrows
      <3>3. Holds(l)
        BY <1>2, <3>1, <3>2, WordGeometry
      <3>4. Holds(l + 1)
        BY <3>1, <3>3, NextChunk
      <3> QED
        BY <3>1, <3>4
    <2> QED
      BY <2>1, <2>2
  <1>3. Inductive(P)
    <2> HIDE DEF P
    <2> QED
      BY <1>2 DEF Inductive
  <1>4. PICK j \in Nat : j * Chunk = Width
    <2>1. Width % Chunk = 0
      BY Gf2xAssumption
    <2>2. Width \div Chunk \in Nat /\ Width = (Width \div Chunk) * Chunk + (Width % Chunk)
      BY WordGeometry, QuotientRemainder
    <2> DEFINE q == Width \div Chunk
    <2> HIDE DEF q
    <2>3. q \in Nat /\ Width = q * Chunk
      BY <2>1, <2>2, WordGeometry, ProductNat DEF q
    <2> QED
      BY <2>3
  <1>5. Holds(j)
    <2> HIDE DEF P, Holds
    <2>1. j \in P
      BY <1>3, EveryNatural
    <2>2. j * Chunk <= Width
      BY <1>4, WordGeometry
    <2> QED
      BY <2>1, <2>2 DEF P
  <1>6. a \cap (0 .. Width - 1) = a
    BY WordGeometry
  <1>7. Reaching(a, b, k, Width) = {i \in starts : k - i \in Times(chunkAt(a, i), Low(b))}
    <2>1. \A i \in starts : i < Width
      BY WordGeometry DEF starts
    <2> QED
      BY <2>1 DEF Reaching
  <1> QED
    BY <1>4, <1>5, <1>6, <1>7

-----------------------------------------------------------------------------
(* The product of two words.                                               *)

\* The bits of b that the table leaves out.
Top(b) == b \cap (Width - Chunk .. Width - 1)

\* The product is that of the table plus one shift of a for every top bit.
LEMMA TimesOfWords ==
    ASSUME NEW a \in SUBSET Bit, NEW b \in SUBSET Bit, NEW k \in Nat
    PROVE  k \in Times(a, b) <=>
               ~(Odd(Cardinality({i \in starts : k - i \in Times(chunkAt(a, i), Low(b))}))
                   <=> Odd(Cardinality({t \in Top(b) : k - t \in a})))
  <1>1. a \in Polynomial /\ b \in Polynomial /\ Top(b) \in Polynomial /\ Low(b) \in Polynomial
    <2>1. Top(b) \in SUBSET (0 .. Width - 1) /\ a \in SUBSET (0 .. Width - 1)
          /\ b \in SUBSET (0 .. Width - 1)
      BY WordGeometry DEF Top
    <2> QED
      BY <2>1, LowPolynomial, WordGeometry, WordsArePolynomials
  <1>2. b = Xor(Low(b), Top(b))
    <2>1. \A x \in b : x \in 0 .. Width - Chunk - 1 <=> x \notin Width - Chunk .. Width - 1
      BY WordGeometry
    <2> QED
      BY <2>1 DEF Xor, Low, Top
  <1>3. Times(a, Xor(Low(b), Top(b))) = Xor(Times(a, Low(b)), Times(a, Top(b)))
    BY <1>1, TimesSumRight
  <1>4. k \in Times(a, b) <=> ~(k \in Times(a, Low(b)) <=> k \in Times(a, Top(b)))
    BY <1>2, <1>3, XorMember
  <1>5. k \in Times(a, Top(b)) <=> Odd(Cardinality({t \in Top(b) : k - t \in a}))
    <2>1. Times(a, Top(b)) = Times(Top(b), a)
      BY <1>1, TimesCommutes
    <2>2. Pairs(Top(b), a, k) = {t \in Top(b) : k - t \in a}
      BY DEF Pairs
    <2> QED
      BY <1>1, <2>1, <2>2, TimesCoefficient
  <1> QED
    BY <1>4, <1>5, ChunksSum

\* baseMul (gf2x.go) is the product of two polynomials of one word, low half and
\* high half, for every size of words and of chunks that divides it: the bits of b
\* that the table of multiples leaves out are made up for.
THEOREM WordProduct ==
    ASSUME NEW a \in SUBSET Bit, NEW b \in SUBSET Bit
    PROVE  /\ DOMAIN baseMul(a, b) = {0, 1}
           /\ \A h \in {0, 1} : baseMul(a, b)[h] \in SUBSET Bit
           /\ \A r \in Bit : r \in baseMul(a, b)[0] <=> r \in Times(a, b)
           /\ \A r \in Bit : r \in baseMul(a, b)[1] <=> r + Width \in Times(a, b)
  <1> DEFINE u == multiples(b)
             c == baseMul(a, b)
             chunks0 == XorOver(starts, LAMBDA i : ShiftLeft(u[chunkAt(a, i)], i))
             tops0   == XorOver(Top(b), LAMBDA t : ShiftLeft(a, t))
             chunks1 == XorOver(starts, LAMBDA i : ShiftRight(u[chunkAt(a, i)], Width - i))
             tops1   == XorOver(Top(b), LAMBDA t : ShiftRight(a, Width - t))
             Chunks(k) == {i \in starts : k - i \in Times(chunkAt(a, i), Low(b))}
             Tops(k)   == {t \in Top(b) : k - t \in a}
  <1>1. DOMAIN c = {0, 1} /\ c[0] = Xor(chunks0, tops0) /\ c[1] = Xor(chunks1, tops1)
    BY DEF baseMul, starts, Top
  <1>2. chunks0 \in SUBSET Bit /\ tops0 \in SUBSET Bit /\ chunks1 \in SUBSET Bit /\ tops1 \in SUBSET Bit
    BY DEF XorOver
  <1>3. ASSUME NEW i \in starts
        PROVE  u[chunkAt(a, i)] = Times(chunkAt(a, i), Low(b)) /\ Times(chunkAt(a, i), Low(b)) \subseteq Nat
    <2>1. chunkAt(a, i) \in SUBSET (0 .. Chunk - 1)
      BY DEF chunkAt
    <2>2. chunkAt(a, i) \in Polynomial
      BY <2>1, WordGeometry, WordsArePolynomials
    <2> QED
      BY <2>1, <2>2, MultiplesAre, LowPolynomial, TimesCoefficient
  <1>4. starts \subseteq Nat /\ Top(b) \subseteq Nat /\ a \subseteq Nat
    BY WordGeometry DEF starts, Top
  <1>5. ASSUME NEW r \in Bit
        PROVE  /\ r \in chunks0 <=> Odd(Cardinality(Chunks(r)))
               /\ r \in chunks1 <=> Odd(Cardinality(Chunks(r + Width)))
               /\ r \in tops0 <=> Odd(Cardinality(Tops(r)))
               /\ r \in tops1 <=> Odd(Cardinality(Tops(r + Width)))
    <2>1. r \in Nat /\ Width \in Nat
      BY WordGeometry
    <2>2. \A w \in SUBSET Nat : \A i \in Nat :
              /\ r \in ShiftLeft(w, i) <=> r - i \in w
              /\ r \in ShiftRight(w, Width - i) <=> (r + Width) - i \in w
      <3> SUFFICES ASSUME NEW w \in SUBSET Nat, NEW i \in Nat
                   PROVE  /\ r \in ShiftLeft(w, i) <=> r - i \in w
                          /\ r \in ShiftRight(w, Width - i) <=> (r + Width) - i \in w
        OBVIOUS
      <3>1. \A x \in w : x + i = r <=> x = r - i
        BY <2>1
      <3>2. \A x \in w : x - (Width - i) = r <=> x = (r + Width) - i
        BY <2>1
      <3>3. r \in ShiftLeft(w, i) <=> \E x \in w : x + i = r
        BY DEF ShiftLeft
      <3>4. r \in ShiftRight(w, Width - i) <=> \E x \in w : x - (Width - i) = r
        BY DEF ShiftRight
      <3> QED
        BY <3>1, <3>2, <3>3, <3>4
    <2>3. {i \in starts : r \in ShiftLeft(u[chunkAt(a, i)], i)} = Chunks(r)
      BY <1>3, <1>4, <2>2
    <2>4. {i \in starts : r \in ShiftRight(u[chunkAt(a, i)], Width - i)} = Chunks(r + Width)
      BY <1>3, <1>4, <2>2
    <2>5. {t \in Top(b) : r \in ShiftLeft(a, t)} = Tops(r)
      BY <1>4, <2>2
    <2>6. {t \in Top(b) : r \in ShiftRight(a, Width - t)} = Tops(r + Width)
      BY <1>4, <2>2
    <2>7. r \in chunks0 <=> Odd(Cardinality({i \in starts : r \in ShiftLeft(u[chunkAt(a, i)], i)}))
      BY DEF XorOver
    <2>8. r \in chunks1 <=> Odd(Cardinality({i \in starts : r \in ShiftRight(u[chunkAt(a, i)], Width - i)}))
      BY DEF XorOver
    <2>9. r \in tops0 <=> Odd(Cardinality({t \in Top(b) : r \in ShiftLeft(a, t)}))
      BY DEF XorOver
    <2>10. r \in tops1 <=> Odd(Cardinality({t \in Top(b) : r \in ShiftRight(a, Width - t)}))
      BY DEF XorOver
    <2> HIDE DEF u, chunks0, chunks1, tops0, tops1, Chunks, Tops
    <2> QED
      BY <2>3, <2>4, <2>5, <2>6, <2>7, <2>8, <2>9, <2>10
  <1> HIDE DEF chunks0, chunks1, tops0, tops1
  <1>6. ASSUME NEW r \in Bit
        PROVE  /\ r \in c[0] <=> r \in Times(a, b)
               /\ r \in c[1] <=> r + Width \in Times(a, b)
    <2>1. r \in Nat /\ r + Width \in Nat
      BY WordGeometry
    <2>2. r \in Times(a, b) <=> ~(Odd(Cardinality(Chunks(r))) <=> Odd(Cardinality(Tops(r))))
      BY <2>1, TimesOfWords
    <2>3. r + Width \in Times(a, b)
             <=> ~(Odd(Cardinality(Chunks(r + Width))) <=> Odd(Cardinality(Tops(r + Width))))
      BY <2>1, TimesOfWords
    <2> HIDE DEF c, Chunks, Tops
    <2>4. r \in c[0] <=> ~(r \in chunks0 <=> r \in tops0)
      BY <1>1, XorMember
    <2>5. r \in c[1] <=> ~(r \in chunks1 <=> r \in tops1)
      BY <1>1, XorMember
    <2> QED
      BY <1>5, <2>2, <2>3, <2>4, <2>5
  <1> HIDE DEF c
  <1>7. \A h \in {0, 1} : c[h] \in SUBSET Bit
    BY <1>1, <1>2 DEF Xor
  <1> QED
    BY <1>1, <1>6, <1>7 DEF c

-----------------------------------------------------------------------------
(* The recursion of karatsuba: what a level does, and that the recursive   *)
(* definition has the value its body gives.                                *)

LEMMA MemoryType ==
    ASSUME NEW k \in Nat, NEW m \in [1 .. k -> SUBSET Bit]
    PROVE  m \in Memory
  BY DEF Memory

\* A call of karatsuba with these arguments.
TheCall(m, o, a, b, stack) == [memory |-> m, o |-> o, a |-> a, b |-> b, stack |-> stack]

LEMMA CallType ==
    ASSUME NEW m \in Memory, NEW o \in Nat, NEW a \in Nat, NEW b \in Nat, NEW stack \in Nat
    PROVE  TheCall(m, o, a, b, stack) \in Call
  BY DEF TheCall, Call

-----------------------------------------------------------------------------
(* The recursion of karatsuba.                                             *)

\* sizeL and sizeH, the halves of a size above one, and what the geometry needs of them.
Halves(size, sizeL, sizeH) ==
    /\ sizeL \in Nat /\ sizeH \in Nat
    /\ sizeH > 0 /\ sizeH <= sizeL /\ sizeL < size
    /\ sizeL + sizeH = size
    /\ sizeL <= sizeH + 1 /\ sizeL <= 2 * sizeH
    /\ 12 * sizeL <= 8 * size

LEMMA HalvesOf ==
    ASSUME NEW size \in Nat, size > 1
    PROVE  Halves(size, (size + 1) \div 2, size \div 2)
  BY DEF Halves

\* Two functions agree on the sizes below this one.
AgreeBelow(f, g, size) == \A k \in Nat : 0 < k /\ k < size => f[k] = g[k]

\* The memory after the first recursive call of a level, for the low halves, ...
AfterLow(f, size, call) ==
    f[(size + 1) \div 2][TheCall(call.memory, call.o, call.a, call.b,
                                 workspace(call.stack, (size + 1) \div 2))]

\* ... after the second, for the high halves, ...
AfterHigh(f, size, call) ==
    LET sizeL == (size + 1) \div 2
    IN  f[size \div 2][TheCall(AfterLow(f, size, call), call.o + 2 * sizeL, call.a + sizeL,
                               call.b + sizeL, workspace(call.stack, sizeL))]

\* ... and after the third, for the sums that karatsubaAdd1 has written.
AfterSums(f, size, call) ==
    LET sizeL == (size + 1) \div 2
        sizeH == size \div 2
    IN  f[sizeL][TheCall(karatsubaAdd1(AfterHigh(f, size, call), call.stack, call.stack + sizeL,
                                       call.a, call.b, sizeL, sizeH),
                         call.stack + 2 * sizeL, call.stack, call.stack + sizeL,
                         workspace(call.stack, sizeL))]

\* The memory after a call on operands of one word.
OneWord(call) ==
    LET c == baseMul(call.memory[call.a], call.memory[call.b])
    IN  [call.memory EXCEPT ![call.o] = c[0], ![call.o + 1] = c[1]]

\* level, unfolded.
LEMMA LevelIs ==
    ASSUME NEW f, NEW size \in Nat \ {0}, NEW call
    PROVE  level(f, size, call) =
             IF size = 1 THEN OneWord(call)
             ELSE karatsubaAdd2(AfterSums(f, size, call), call.o,
                                call.stack + 2 * ((size + 1) \div 2),
                                call.o + 2 * ((size + 1) \div 2), (size + 1) \div 2, size \div 2)
  BY DEF level, OneWord, AfterSums, AfterHigh, AfterLow, TheCall

\* A level depends on nothing but the calls on smaller operands.
LEMMA LevelDependsBelow ==
    ASSUME NEW f, NEW g, NEW size \in Nat \ {0}, AgreeBelow(f, g, size), NEW call
    PROVE  level(f, size, call) = level(g, size, call)
  <1>1. CASE size = 1
    BY <1>1, LevelIs
  <1>2. CASE size # 1
    <2> DEFINE sizeL == (size + 1) \div 2
               sizeH == size \div 2
    <2>1. f[sizeL] = g[sizeL] /\ f[sizeH] = g[sizeH]
      BY <1>2, HalvesOf DEF AgreeBelow, Halves
    <2>2. AfterLow(f, size, call) = AfterLow(g, size, call)
      BY <2>1 DEF AfterLow
    <2>3. AfterHigh(f, size, call) = AfterHigh(g, size, call)
      BY <2>1, <2>2 DEF AfterHigh
    <2>4. AfterSums(f, size, call) = AfterSums(g, size, call)
      BY <2>1, <2>3 DEF AfterSums
    <2> QED
      BY <2>4, LevelIs
  <1> QED
    BY <1>1, <1>2

\* The body of the recursive definition of karatsuba.
body(f, size) == [call \in Call |-> level(f, size, call)]

LEMMA BodyDependsBelow ==
    ASSUME NEW f, NEW g, NEW size \in Nat \ {0}, AgreeBelow(f, g, size)
    PROVE  body(f, size) = body(g, size)
  BY LevelDependsBelow DEF body

\* What karatsuba is up to size m.
Table(f, m) == \A k \in Nat : 0 < k /\ k <= m => f[k] = body(f, k)

\* There are tables of every length, and they agree where both are defined.
LEMMA TableExists ==
    ASSUME NEW m \in Nat
    PROVE  \E f : Table(f, m)
  <1> DEFINE P == {k \in Nat : \E f : Table(f, k)}
  <1>1. ASSUME NEW k \in Nat, 0 .. k - 1 \subseteq P PROVE k \in P
    <2>1. CASE k = 0
      BY <2>1 DEF Table
    <2>2. CASE k # 0
      <3>1. k - 1 \in Nat /\ k - 1 \in P
        BY <1>1, <2>2
      <3>2. PICK f : Table(f, k - 1)
        BY <3>1
      <3> DEFINE g == [j \in 1 .. k |-> body(f, j)]
      <3>3. ASSUME NEW j \in Nat, 0 < j, j <= k PROVE g[j] = body(g, j)
        <4>1. g[j] = body(f, j)
          BY <3>3
        <4>2. ASSUME NEW i \in Nat, 0 < i, i < j PROVE g[i] = f[i]
          <5>1. g[i] = body(f, i)
            BY <3>3, <4>2
          <5> QED
            BY <3>2, <3>3, <4>2, <5>1 DEF Table
        <4> HIDE DEF g
        <4>3. AgreeBelow(f, g, j)
          BY <4>2 DEF AgreeBelow
        <4> QED
          BY <3>3, <4>1, <4>3, BodyDependsBelow
      <3> HIDE DEF g
      <3> QED
        BY <3>3 DEF Table
    <2> QED
      BY <2>1, <2>2
  <1>2. Inductive(P)
    <2> HIDE DEF P
    <2> QED
      BY <1>1 DEF Inductive
  <1>3. m \in P
    <2> HIDE DEF P
    <2> QED
      BY <1>2, EveryNatural
  <1> QED
    BY <1>3

LEMMA TablesAgree ==
    ASSUME NEW f, NEW g, NEW m \in Nat, NEW l \in Nat, Table(f, m), Table(g, l),
           NEW k \in Nat, 0 < k, k <= m, k <= l
    PROVE  f[k] = g[k]
  <1> DEFINE P == {j \in Nat : 0 < j /\ j <= m /\ j <= l => f[j] = g[j]}
  <1>1. ASSUME NEW j \in Nat, 0 .. j - 1 \subseteq P PROVE j \in P
    <2> SUFFICES ASSUME 0 < j, j <= m, j <= l PROVE f[j] = g[j]
      OBVIOUS
    <2>1. ASSUME NEW i \in Nat, 0 < i, i < j PROVE f[i] = g[i]
      <3>1. i \in P /\ i <= m /\ i <= l
        BY <1>1, <2>1
      <3> QED
        BY <2>1, <3>1
    <2>2. body(f, j) = body(g, j)
      BY <2>1, BodyDependsBelow DEF AgreeBelow
    <2> QED
      BY <2>2 DEF Table
  <1>2. Inductive(P)
    <2> HIDE DEF P
    <2> QED
      BY <1>1 DEF Inductive
  <1>3. k \in P
    <2> HIDE DEF P
    <2> QED
      BY <1>2, EveryNatural
  <1> QED
    BY <1>3

\* karatsuba satisfies its recursive definition.
LEMMA KaratsubaIs ==
    ASSUME NEW size \in Nat \ {0}, NEW call \in Call
    PROVE  karatsuba[size][call] = level(karatsuba, size, call)
  <1> DEFINE table(k) == CHOOSE f : Table(f, k)
             h == [k \in Nat \ {0} |-> table(k)[k]]
  <1>1. \A k \in Nat : Table(table(k), k)
    BY TableExists
  <1> HIDE DEF table
  <1>2. ASSUME NEW k \in Nat \ {0} PROVE h[k] = body(h, k)
    <2>1. h[k] = body(table(k), k)
      BY <1>1 DEF Table
    <2>2. ASSUME NEW j \in Nat, 0 < j, j < k PROVE h[j] = table(k)[j]
      <3>1. Table(table(j), j) /\ Table(table(k), k) /\ j <= k /\ j <= j
        BY <1>1, <2>2
      <3>2. table(j)[j] = table(k)[j]
        BY <2>2, <3>1, TablesAgree
      <3> QED
        BY <2>2, <3>2
    <2> HIDE DEF h
    <2>3. AgreeBelow(h, table(k), k)
      BY <2>2 DEF AgreeBelow
    <2> QED
      BY <2>1, <2>3, BodyDependsBelow
  <1>3. h = [k \in Nat \ {0} |-> body(h, k)]
    <2>1. h = [k \in Nat \ {0} |-> h[k]]
      OBVIOUS
    <2> HIDE DEF h
    <2> QED
      BY <1>2, <2>1
  <1> HIDE DEF h
  <1>4. karatsuba = [k \in Nat \ {0} |-> body(karatsuba, k)]
    <2>1. karatsuba = CHOOSE f : f = [k \in Nat \ {0} |-> body(f, k)]
      BY DEF karatsuba, body
    <2> QED
      BY <1>3, <2>1
  <1>5. karatsuba[size] = body(karatsuba, size)
    BY <1>4
  <1> QED
    BY <1>5 DEF body

-----------------------------------------------------------------------------
(* karatsubaAdd1.                                                          *)

\* The two memories hold the same `len` words from place `at`.
Same(m, k, at, len) == \A i \in Nat : i < len => m[at + i] = k[at + i]

LEMMA SpanKept ==
    ASSUME NEW m, NEW k, NEW at \in Nat, NEW len \in Nat, Same(m, k, at, len)
    PROVE  Span(m, at, len) = Span(k, at, len)
  <1>1. \A i \in Nat : i < len => m[at + i] = k[at + i]
    BY DEF Same
  <1>2. ASSUME NEW q \in Nat, NEW r \in Bit
        PROVE  q * Width + r \in Span(m, at, len) <=> q * Width + r \in Span(k, at, len)
    <2>1. q < len => m[at + q] = k[at + q]
      BY <1>1
    <2>2. q * Width + r \in Span(m, at, len) <=> q < len /\ r \in m[at + q]
      BY SpanMember
    <2>3. q * Width + r \in Span(k, at, len) <=> q < len /\ r \in k[at + q]
      BY SpanMember
    <2> QED
      BY <2>1, <2>2, <2>3
  <1>3. Span(m, at, len) \subseteq Nat /\ Span(k, at, len) \subseteq Nat
    BY SpanPolynomial DEF Polynomial
  <1> QED
    BY <1>2, <1>3, SameBits

LEMMA XorOfWords ==
    ASSUME NEW e \in SUBSET Bit, NEW f \in SUBSET Bit
    PROVE  Xor(e, f) \in SUBSET Bit
  BY DEF Xor

\* What karatsubaAdd1 writes at place `at`: the sum of the low and the high words of an operand.
SumOf(sum, at, m, low, high, sizeL, sizeH) ==
    \A i \in Nat : i < sizeL =>
        sum[at + i] = IF i < sizeH THEN Xor(m[low + i], m[high + i]) ELSE m[low + i]

\* Where karatsubaAdd1 reads and writes: below `at`, and from there on.
SumPlaces(k, size, sizeL, a, b, at, blh, aH, bH, end) ==
    /\ a > 0 /\ b > 0 /\ a + size <= at /\ b + size <= at /\ at + 2 * sizeL <= k + 1
    /\ blh = at + sizeL /\ aH = a + sizeL /\ bH = b + sizeL /\ end = at + 2 * sizeL

\* Nothing has changed outside the places from `from` to `end`.
Outside(after, m, k, from, end) ==
    \A x \in 1 .. k : x < from \/ x >= end => after[x] = m[x]

\* karatsubaAdd1 writes the sums of the halves of both operands, the odd word of an
\* odd size included, and nothing else.
LEMMA SumWords ==
    ASSUME NEW k \in Nat, NEW m \in [1 .. k -> SUBSET Bit],
           NEW size \in Nat, NEW sizeL, NEW sizeH, Halves(size, sizeL, sizeH),
           NEW a \in Nat, NEW b \in Nat, NEW at \in Nat,
           NEW blh, NEW aH, NEW bH, NEW end, SumPlaces(k, size, sizeL, a, b, at, blh, aH, bH, end),
           NEW sum, sum = karatsubaAdd1(m, at, blh, a, b, sizeL, sizeH)
    PROVE  /\ sum \in [1 .. k -> SUBSET Bit]
           /\ Outside(sum, m, k, at, end)
           /\ SumOf(sum, at, m, a, aH, sizeL, sizeH)
           /\ SumOf(sum, blh, m, b, bH, sizeL, sizeH)
  <1>1. sizeL \in Nat /\ sizeH \in Nat /\ sizeH > 0 /\ sizeH <= sizeL /\ sizeL <= sizeH + 1
        /\ sizeL + sizeH = size
        /\ a > 0 /\ b > 0 /\ a + size <= at /\ b + size <= at /\ at + 2 * sizeL <= k + 1
        /\ blh = at + sizeL /\ aH = a + sizeL /\ bH = b + sizeL
    BY DEF Halves, SumPlaces
  <1>2. DOMAIN m = 1 .. k /\ DOMAIN sum = 1 .. k
    BY DEF karatsubaAdd1
  <1>3. ASSUME NEW x \in 1 .. k, x < at \/ x >= at + 2 * sizeL
        PROVE  sum[x] = m[x]
    <2>1. x \notin Slice(at, sizeH) /\ x \notin Slice(blh, sizeH)
          /\ ~(sizeH < sizeL /\ x = at + sizeH) /\ ~(sizeH < sizeL /\ x = blh + sizeH)
      BY <1>1, <1>3 DEF Slice
    <2> QED
      BY <1>2, <2>1 DEF karatsubaAdd1
  <1>4. ASSUME NEW i \in Nat, i < sizeL
        PROVE  sum[at + i] = IF i < sizeH THEN Xor(m[a + i], m[aH + i]) ELSE m[a + i]
    <2>1. at + i \in 1 .. k /\ at + i < blh
      BY <1>1, <1>4
    <2>2. CASE i < sizeH
      <3> DEFINE x == at + i
      <3>1. x \in Slice(at, sizeH) /\ x \notin Slice(blh, sizeH)
            /\ ~(sizeH < sizeL /\ x = at + sizeH) /\ ~(sizeH < sizeL /\ x = blh + sizeH)
            /\ a + (x - at) = a + i /\ a + sizeL + (x - at) = aH + i
        BY <1>1, <2>1, <2>2 DEF Slice
      <3> HIDE DEF x
      <3>2. sum[x] = Xor(m[a + (x - at)], m[a + sizeL + (x - at)])
        BY <1>2, <2>1, <3>1 DEF karatsubaAdd1, x
      <3> QED
        BY <2>2, <3>1, <3>2 DEF x
    <2>3. CASE ~(i < sizeH)
      <3>1. i = sizeH /\ sizeH < sizeL
        BY <1>1, <1>4, <2>3
      <3>2. at + i \notin Slice(at, sizeH) /\ at + i \notin Slice(blh, sizeH)
            /\ at + i # blh + sizeH
        BY <1>1, <2>1, <3>1 DEF Slice
      <3> QED
        BY <1>2, <2>1, <2>3, <3>1, <3>2 DEF karatsubaAdd1
    <2> QED
      BY <2>2, <2>3
  <1>5. ASSUME NEW i \in Nat, i < sizeL
        PROVE  sum[blh + i] = IF i < sizeH THEN Xor(m[b + i], m[bH + i]) ELSE m[b + i]
    <2>1. blh + i \in 1 .. k /\ blh + i >= blh /\ blh + i \notin Slice(at, sizeH)
          /\ ~(sizeH < sizeL /\ blh + i = at + sizeH) /\ (i < sizeH => blh + i # blh + sizeH)
      BY <1>1, <1>5 DEF Slice
    <2>2. CASE i < sizeH
      <3>1. blh + i \in Slice(blh, sizeH) /\ b + ((blh + i) - blh) = b + i
            /\ b + sizeL + ((blh + i) - blh) = bH + i
        BY <1>1, <2>1, <2>2 DEF Slice
      <3> DEFINE x == blh + i
      <3> HIDE DEF x
      <3>2. sum[x] = Xor(m[b + (x - blh)], m[b + sizeL + (x - blh)])
        BY <1>2, <2>1, <2>2, <3>1 DEF karatsubaAdd1, x
      <3> QED
        BY <2>2, <3>1, <3>2 DEF x
    <2>3. CASE ~(i < sizeH)
      <3>1. i = sizeH /\ sizeH < sizeL
        BY <1>1, <1>5, <2>3
      <3>2. blh + i \notin Slice(blh, sizeH)
        BY <1>1, <3>1 DEF Slice
      <3> QED
        BY <1>2, <2>1, <2>3, <3>1, <3>2 DEF karatsubaAdd1
    <2> QED
      BY <2>2, <2>3
  <1>6. ASSUME NEW x \in 1 .. k PROVE sum[x] \in SUBSET Bit
    <2>1. CASE x < at \/ x >= at + 2 * sizeL
      BY <1>3, <2>1
    <2>2. CASE at <= x /\ x < at + sizeL
      <3> DEFINE i == x - at
      <3>1. i \in Nat /\ i < sizeL /\ x = at + i
        BY <1>1, <2>2
      <3> HIDE DEF i
      <3>2. a + i \in 1 .. k /\ (i < sizeH => aH + i \in 1 .. k) /\ x = at + i
        BY <1>1, <3>1
      <3>3. m[a + i] \in SUBSET Bit /\ (i < sizeH => m[aH + i] \in SUBSET Bit)
        BY <3>2
      <3>4. sum[x] = IF i < sizeH THEN Xor(m[a + i], m[aH + i]) ELSE m[a + i]
        BY <1>4, <3>1, <3>2
      <3> QED
        BY <3>3, <3>4, XorOfWords
    <2>3. CASE at + sizeL <= x /\ x < at + 2 * sizeL
      <3> DEFINE i == x - (at + sizeL)
      <3>1. i \in Nat /\ i < sizeL /\ x = (at + sizeL) + i
        BY <1>1, <2>3
      <3> HIDE DEF i
      <3>2. b + i \in 1 .. k /\ (i < sizeH => bH + i \in 1 .. k) /\ x = blh + i
        BY <1>1, <3>1
      <3>3. m[b + i] \in SUBSET Bit /\ (i < sizeH => m[bH + i] \in SUBSET Bit)
        BY <3>2
      <3>4. sum[x] = IF i < sizeH THEN Xor(m[b + i], m[bH + i]) ELSE m[b + i]
        BY <1>5, <3>1, <3>2
      <3> QED
        BY <3>3, <3>4, XorOfWords
    <2> QED
      BY <1>1, <2>1, <2>2, <2>3
  <1>7. sum \in [1 .. k -> SUBSET Bit]
    <2>1. sum = [x \in 1 .. k |-> sum[x]]
      BY <1>2 DEF karatsubaAdd1
    <2> QED
      BY <1>6, <2>1
  <1> QED
    BY <1>3, <1>4, <1>5, <1>7 DEF SumOf, Outside, SumPlaces

\* The bits of one sum are those of the low half and of the high half.
LEMMA SumSpan ==
    ASSUME NEW m, NEW sum, NEW size \in Nat, NEW sizeL, NEW sizeH, Halves(size, sizeL, sizeH),
           NEW a \in Nat, NEW at \in Nat, NEW aH \in Nat,
           SumOf(sum, at, m, a, aH, sizeL, sizeH)
    PROVE  Span(sum, at, sizeL) = Xor(Span(m, a, sizeL), Span(m, aH, sizeH))
  <1> DEFINE left  == Span(sum, at, sizeL)
             low   == Span(m, a, sizeL)
             high  == Span(m, aH, sizeH)
             right == Xor(low, high)
  <1>1. sizeL \in Nat /\ sizeH \in Nat /\ sizeH <= sizeL
    BY DEF Halves
  <1>2. left \subseteq Nat /\ low \subseteq Nat /\ high \subseteq Nat
    BY <1>1, SpanPolynomial DEF Polynomial
  <1>3. right \subseteq Nat
    BY <1>2 DEF Xor
  <1>4. ASSUME NEW q \in Nat, NEW r \in Bit
        PROVE  q * Width + r \in left <=> q * Width + r \in right
    <2>1. q * Width + r \in left <=> q < sizeL /\ r \in sum[at + q]
      BY <1>1, SpanMember
    <2>2. q * Width + r \in low <=> q < sizeL /\ r \in m[a + q]
      BY <1>1, SpanMember
    <2>3. q * Width + r \in high <=> q < sizeH /\ r \in m[aH + q]
      BY <1>1, SpanMember
    <2>4. q < sizeL =>
              sum[at + q] = IF q < sizeH THEN Xor(m[a + q], m[aH + q]) ELSE m[a + q]
      BY DEF SumOf
    <2>5. r \in Xor(m[a + q], m[aH + q]) <=> ~(r \in m[a + q] <=> r \in m[aH + q])
      BY XorMember
    <2>6. q < sizeH => q < sizeL
      BY <1>1
    <2> DEFINE x == q * Width + r
    <2> HIDE DEF left, low, high, x
    <2>7. x \in right <=> ~(x \in low <=> x \in high)
      BY XorMember
    <2> HIDE DEF right
    <2> QED
      BY <2>1, <2>2, <2>3, <2>4, <2>5, <2>6, <2>7 DEF x
  <1> HIDE DEF left, right
  <1>5. left = right
    BY <1>2, <1>3, <1>4, SameBits
  <1> QED
    BY <1>5 DEF left, right, low, high

-----------------------------------------------------------------------------
(* karatsubaAdd2.                                                          *)

\* The word that karatsubaAdd2 adds at place j of the middle of the output.
Middle(m, o, at, next, sizeH, j) ==
    IF j < 2 * sizeH THEN Xor(Xor(m[at + j], m[o + j]), m[next + j])
    ELSE Xor(m[at + j], m[o + j])

\* The output after karatsubaAdd2: its middle has been added to.
MixOf(after, m, o, at, next, size, sizeL, sizeH) ==
    \A q \in Nat : q < 2 * size =>
        after[o + q] = IF sizeL <= q /\ q < 3 * sizeL
                       THEN Xor(m[o + q], Middle(m, o, at, next, sizeH, q - sizeL))
                       ELSE m[o + q]

\* Where karatsubaAdd2 reads and writes.
MixPlaces(k, size, sizeL, o, at, next, step) ==
    /\ o > 0 /\ o + 2 * size <= at /\ at + 2 * sizeL <= k + 1
    /\ next = o + 2 * sizeL /\ step = sizeL * Width

\* Nothing below the place `at` has changed except in the output.
OutsideOutput(after, m, k, size, o, at) ==
    \A x \in 1 .. k : x < at /\ ~(o <= x /\ x < o + 2 * size) => after[x] = m[x]

\* karatsubaAdd2 adds the middle product to the output, through a copy it makes before
\* it overwrites the words it reads.
LEMMA MixedWords ==
    ASSUME NEW k \in Nat, NEW m \in [1 .. k -> SUBSET Bit],
           NEW size \in Nat, NEW sizeL, NEW sizeH, Halves(size, sizeL, sizeH),
           NEW o \in Nat, NEW at \in Nat,
           NEW next, NEW step, MixPlaces(k, size, sizeL, o, at, next, step),
           NEW after, after = karatsubaAdd2(m, o, at, next, sizeL, sizeH)
    PROVE  /\ after \in [1 .. k -> SUBSET Bit]
           /\ OutsideOutput(after, m, k, size, o, at)
           /\ MixOf(after, m, o, at, next, size, sizeL, sizeH)
  <1> DEFINE from  == o + sizeL
             low   == [x \in DOMAIN m |->
                         IF x \in Slice(at, 2 * sizeL) THEN Xor(m[x], m[o + (x - at)]) ELSE m[x]]
             high  == [x \in DOMAIN low |->
                         IF x \in Slice(at, 2 * sizeH) THEN Xor(low[x], low[next + (x - at)]) ELSE low[x]]
             result == [x \in DOMAIN high |->
                         IF x \in Slice(from, 2 * sizeL)
                         THEN Xor(high[x], high[at + ((x - o) - sizeL)]) ELSE high[x]]
  <1>1. sizeL \in Nat /\ sizeH \in Nat /\ sizeH > 0 /\ sizeH <= sizeL /\ sizeL <= 2 * sizeH
        /\ sizeL + sizeH = size
        /\ o > 0 /\ o + 2 * size <= at /\ at + 2 * sizeL <= k + 1 /\ next = o + 2 * sizeL
    BY DEF Halves, MixPlaces
  <1>2. after = result
    BY DEF karatsubaAdd2, Xored
  <1>3. DOMAIN m = 1 .. k /\ DOMAIN low = 1 .. k /\ DOMAIN high = 1 .. k /\ DOMAIN after = 1 .. k
    BY <1>2
  <1>4. \A x \in 1 .. k : low[x] = IF x \in Slice(at, 2 * sizeL) THEN Xor(m[x], m[o + (x - at)]) ELSE m[x]
    OBVIOUS
  <1>5. \A x \in 1 .. k :
            high[x] = IF x \in Slice(at, 2 * sizeH) THEN Xor(low[x], low[next + (x - at)]) ELSE low[x]
    BY <1>3
  <1>6. \A x \in 1 .. k :
            after[x] = IF x \in Slice(from, 2 * sizeL)
                       THEN Xor(high[x], high[at + ((x - o) - sizeL)]) ELSE high[x]
    BY <1>2, <1>3
  <1>7. after = [x \in 1 .. k |-> after[x]]
    BY <1>2, <1>3
  <1> HIDE DEF low, high, result, from
  <1>8. next \in Nat /\ from \in Nat /\ next = o + 2 * sizeL /\ from = o + sizeL
    BY <1>1 DEF from
  <1>9. ASSUME NEW x \in 1 .. k, x < at
        PROVE  low[x] = m[x] /\ high[x] = m[x]
    <2>1. x \notin Slice(at, 2 * sizeL) /\ x \notin Slice(at, 2 * sizeH)
      BY <1>1, <1>9 DEF Slice
    <2> QED
      BY <1>4, <1>5, <2>1
  <1>10. ASSUME NEW j \in Nat, j < 2 * sizeL
         PROVE  high[at + j] = Middle(m, o, at, next, sizeH, j) /\ at + j \in 1 .. k
                /\ high[at + j] \in SUBSET Bit
    <2> DEFINE x == at + j
    <2>1. x \in 1 .. k /\ x - at = j /\ x \in Slice(at, 2 * sizeL)
          /\ (x \in Slice(at, 2 * sizeH) <=> j < 2 * sizeH)
      BY <1>1, <1>10 DEF Slice
    <2>2. o + j \in 1 .. k /\ (j < 2 * sizeH => next + j \in 1 .. k /\ next + j < at)
      BY <1>1, <1>8, <1>10
    <2> HIDE DEF x
    <2>3. low[x] = Xor(m[x], m[o + j])
      BY <1>4, <2>1
    <2>4. j < 2 * sizeH => low[next + j] = m[next + j]
      BY <1>9, <2>2
    <2>5. high[x] = IF j < 2 * sizeH THEN Xor(low[x], m[next + j]) ELSE low[x]
      BY <1>5, <2>1, <2>4
    <2>6. high[x] = Middle(m, o, at, next, sizeH, j)
      BY <2>3, <2>5 DEF Middle, x
    <2>7. low[x] \in SUBSET Bit
      BY <2>1, <2>2, <2>3, XorOfWords
    <2>8. high[x] \in SUBSET Bit
      BY <2>2, <2>5, <2>7, XorOfWords
    <2> QED
      BY <2>1, <2>6, <2>8 DEF x
  <1>11. ASSUME NEW x \in 1 .. k, x < at, ~(o <= x /\ x < o + 2 * size)
         PROVE  after[x] = m[x]
    <2>1. x \notin Slice(from, 2 * sizeL)
      BY <1>1, <1>8, <1>11 DEF Slice
    <2> QED
      BY <1>6, <1>9, <1>11, <2>1
  <1>12. ASSUME NEW q \in Nat, q < 2 * size
         PROVE  after[o + q] = IF sizeL <= q /\ q < 3 * sizeL
                               THEN Xor(m[o + q], Middle(m, o, at, next, sizeH, q - sizeL))
                               ELSE m[o + q]
    <2> DEFINE x == o + q
    <2>1. x \in 1 .. k /\ x < at /\ x - o = q
          /\ (x \in Slice(from, 2 * sizeL) <=> sizeL <= q /\ q < 3 * sizeL)
      BY <1>1, <1>8, <1>12 DEF Slice
    <2> HIDE DEF x
    <2>2. CASE sizeL <= q /\ q < 3 * sizeL
      <3>1. q - sizeL \in Nat /\ q - sizeL < 2 * sizeL
        BY <1>1, <2>2
      <3>2. after[x] = Xor(m[x], high[at + (q - sizeL)])
        BY <1>6, <1>9, <2>1, <2>2
      <3> QED
        BY <1>10, <2>2, <3>1, <3>2 DEF x
    <2>3. CASE ~(sizeL <= q /\ q < 3 * sizeL)
      BY <1>6, <1>9, <2>1, <2>3 DEF x
    <2> QED
      BY <2>2, <2>3
  <1>13. ASSUME NEW x \in 1 .. k PROVE after[x] \in SUBSET Bit
    <2>1. high[x] \in SUBSET Bit
      <3>1. CASE x < at
        BY <1>9, <3>1
      <3>2. CASE at <= x /\ x < at + 2 * sizeL
        <4> DEFINE j == x - at
        <4>1. j \in Nat /\ j < 2 * sizeL /\ x = at + j
          BY <1>1, <3>2
        <4> HIDE DEF j
        <4> QED
          BY <1>10, <4>1
      <3>3. CASE at + 2 * sizeL <= x
        <4>1. x \notin Slice(at, 2 * sizeL) /\ x \notin Slice(at, 2 * sizeH)
          BY <1>1, <3>3 DEF Slice
        <4> QED
          BY <1>4, <1>5, <4>1
      <3> QED
        BY <1>1, <3>1, <3>2, <3>3
    <2>2. CASE x \in Slice(from, 2 * sizeL)
      <3> DEFINE j == (x - o) - sizeL
      <3>1. j \in Nat /\ j < 2 * sizeL
        BY <1>1, <1>8, <2>2 DEF Slice
      <3>2. after[x] = Xor(high[x], high[at + j])
        BY <1>6, <2>2
      <3> HIDE DEF j
      <3>3. high[at + j] \in SUBSET Bit
        BY <1>10, <3>1
      <3> QED
        BY <2>1, <3>2, <3>3, XorOfWords
    <2>3. CASE x \notin Slice(from, 2 * sizeL)
      BY <1>6, <2>1, <2>3
    <2> QED
      BY <2>2, <2>3
  <1>14. after \in [1 .. k -> SUBSET Bit]
    BY <1>7, <1>13
  <1> QED
    BY <1>11, <1>12, <1>14 DEF MixOf, OutsideOutput

\* The output of a level, from the products that are in the memory before karatsubaAdd2.
LEMMA MixedSpan ==
    ASSUME NEW m, NEW after, NEW size \in Nat, NEW sizeL, NEW sizeH, Halves(size, sizeL, sizeH),
           NEW o \in Nat, NEW at \in Nat, NEW next, NEW step,
           NEW k, MixPlaces(k, size, sizeL, o, at, next, step),
           MixOf(after, m, o, at, next, size, sizeL, sizeH)
    PROVE  LET lows  == Span(m, o, 2 * sizeL)
               highs == Span(m, next, 2 * sizeH)
               sums  == Span(m, at, 2 * sizeL)
           IN  Span(after, o, 2 * size)
                   = Xor(Xor(lows, Shifted(highs, 2 * step)),
                         Shifted(Xor(sums, Xor(lows, highs)), step))
  <1> DEFINE lows  == Span(m, o, 2 * sizeL)
             highs == Span(m, next, 2 * sizeH)
             sums  == Span(m, at, 2 * sizeL)
             mixed == Xor(sums, Xor(lows, highs))
             before == Span(m, o, 2 * size)
             left  == Span(after, o, 2 * size)
             right == Xor(before, Shifted(mixed, step))
  <1>1. sizeL \in Nat /\ sizeH \in Nat /\ sizeH > 0 /\ sizeH <= sizeL /\ sizeL <= 2 * sizeH
        /\ sizeL + sizeH = size
        /\ 2 * sizeL \in Nat /\ 2 * sizeH \in Nat /\ 2 * size \in Nat /\ next \in Nat
        /\ 2 * size = 2 * sizeL + 2 * sizeH
    BY DEF Halves, MixPlaces
  <1>2. Width \in Nat /\ step \in Nat /\ 2 * step = (2 * sizeL) * Width
    BY <1>1, RingDimension, ProductNat DEF MixPlaces
  <1>3. before = Xor(lows, Shifted(highs, 2 * step))
    <2> DEFINE s == 2 * sizeL
               t == 2 * sizeH
               len == 2 * size
               twice == 2 * step
    <2>1. s \in Nat /\ t \in Nat /\ len \in Nat /\ len = s + t /\ next \in Nat /\ next = o + s
          /\ twice = s * Width
      BY <1>1, <1>2 DEF MixPlaces
    <2> HIDE DEF s, t, len, twice
    <2>2. Span(m, o, len) = Xor(Span(m, o, s), Shifted(Span(m, next, t), twice))
      <3>1. Parts(o, s, t, len, next, twice)
        BY <2>1 DEF Parts
      <3> QED
        BY <2>1, <3>1, SpanInParts
    <2> QED
      BY <2>2 DEF s, t, len, twice
  <1>4. lows \subseteq Nat /\ highs \subseteq Nat /\ sums \subseteq Nat /\ before \subseteq Nat
        /\ left \subseteq Nat
    BY <1>1, SpanPolynomial DEF Polynomial
  <1>5. mixed \subseteq Nat
    BY <1>4 DEF Xor
  <1>6. right \subseteq Nat
    <2> HIDE DEF mixed, before
    <2>1. Shifted(mixed, step) \subseteq Nat
      BY <1>2, <1>5, ShiftedNat
    <2> QED
      BY <1>4, <2>1 DEF Xor
  <1>7. ASSUME NEW j \in Nat, NEW r \in Bit
        PROVE  j * Width + r \in mixed
                 <=> j < 2 * sizeL /\ r \in Middle(m, o, at, next, sizeH, j)
    <2>1. j * Width + r \in lows <=> j < 2 * sizeL /\ r \in m[o + j]
      BY <1>1, SpanMember
    <2>2. j * Width + r \in highs <=> j < 2 * sizeH /\ r \in m[next + j]
      BY <1>1, SpanMember
    <2>3. j * Width + r \in sums <=> j < 2 * sizeL /\ r \in m[at + j]
      BY <1>1, SpanMember
    <2>4. j < 2 * sizeH => j < 2 * sizeL
      BY <1>1
    <2>5. r \in Xor(m[at + j], m[o + j]) <=> ~(r \in m[at + j] <=> r \in m[o + j])
      BY XorMember
    <2>6. r \in Xor(Xor(m[at + j], m[o + j]), m[next + j])
            <=> ~(r \in Xor(m[at + j], m[o + j]) <=> r \in m[next + j])
      BY XorMember
    <2>7. r \in Middle(m, o, at, next, sizeH, j)
            <=> IF j < 2 * sizeH THEN r \in Xor(Xor(m[at + j], m[o + j]), m[next + j])
                ELSE r \in Xor(m[at + j], m[o + j])
      BY DEF Middle
    <2> DEFINE x == j * Width + r
    <2> HIDE DEF x, lows, highs, sums
    <2>8. x \in mixed <=> ~(x \in sums <=> ~(x \in lows <=> x \in highs))
      BY XorMember
    <2> HIDE DEF mixed
    <2> QED
      BY <2>1, <2>2, <2>3, <2>4, <2>5, <2>6, <2>7, <2>8 DEF x
  <1>8. ASSUME NEW q \in Nat, NEW r \in Bit
        PROVE  q * Width + r \in left <=> q * Width + r \in right
    <2>1. q * Width + r \in left <=> q < 2 * size /\ r \in after[o + q]
      BY <1>1, SpanMember
    <2>2. q * Width + r \in before <=> q < 2 * size /\ r \in m[o + q]
      BY <1>1, SpanMember
    <2> DEFINE j == q - sizeL
               word == Middle(m, o, at, next, sizeH, j)
    <2>3. q * Width + r \in Shifted(mixed, step)
            <=> q >= sizeL /\ (q - sizeL) * Width + r \in mixed
      <3> HIDE DEF mixed
      <3> QED
        BY <1>1, <1>5, ShiftedMember DEF MixPlaces
    <2>4. q >= sizeL => (j * Width + r \in mixed <=> j < 2 * sizeL /\ r \in word)
      <3>1. q >= sizeL => j \in Nat
        BY <1>1
      <3> HIDE DEF j, mixed
      <3> QED
        BY <1>7, <3>1
    <2>5. q >= sizeL => (j < 2 * sizeL <=> q < 3 * sizeL)
      BY <1>1
    <2>6. q < 3 * sizeL => q < 2 * size
      BY <1>1
    <2>7. q < 2 * size => after[o + q] = IF sizeL <= q /\ q < 3 * sizeL
                                         THEN Xor(m[o + q], word) ELSE m[o + q]
      BY DEF MixOf
    <2>8. r \in Xor(m[o + q], word) <=> ~(r \in m[o + q] <=> r \in word)
      BY XorMember
    <2> DEFINE x == q * Width + r
    <2> HIDE DEF x, before, mixed
    <2>9. x \in right <=> ~(x \in before <=> x \in Shifted(mixed, step))
      BY XorMember
    <2> HIDE DEF right, left, word
    <2>10. x \in Shifted(mixed, step) <=> q >= sizeL /\ q < 3 * sizeL /\ r \in word
      BY <2>3, <2>4, <2>5 DEF x
    <2> HIDE DEF j
    <2>11. q >= sizeL <=> sizeL <= q
      BY <1>1
    <2>12. x \in left <=> q < 2 * size /\ r \in after[o + q]
      BY <2>1 DEF x
    <2>13. x \in before <=> q < 2 * size /\ r \in m[o + q]
      BY <2>2 DEF x
    <2>14. x \in left <=> x \in right
      BY <2>6, <2>7, <2>8, <2>9, <2>10, <2>11, <2>12, <2>13
    <2> QED
      BY <2>14 DEF x
  <1> HIDE DEF left, right
  <1>9. left = right
    BY <1>4, <1>6, <1>8, SameBits
  <1> QED
    BY <1>3, <1>9 DEF left, right

-----------------------------------------------------------------------------
(* What a call of karatsuba does, and the call that does not recurse.      *)

\* The slices of a call do not overlap except that the operands may, and its workspace,
\* which begins where all of them have ended, is long enough.
Fits(size, k, o, a, b, stack) ==
    /\ o > 0 /\ a > 0 /\ b > 0
    /\ o + 2 * size <= stack /\ a + size <= stack /\ b + size <= stack
    /\ a + size <= o \/ o + 2 * size <= a
    /\ b + size <= o \/ o + 2 * size <= b
    /\ stack + 8 * size <= k + 9

\* The output is the product; nothing else below the workspace has changed.
Effect(size, k, m, after, o, a, b, stack) ==
    /\ after \in [1 .. k -> SUBSET Bit]
    /\ \A x \in 1 .. k : x < stack /\ ~(o <= x /\ x < o + 2 * size) => after[x] = m[x]
    /\ Span(after, o, 2 * size) = Times(Span(m, a, size), Span(m, b, size))

\* Every call on operands of this size that fits has its effect.
Multiplies(size) ==
    \A k \in Nat : \A m \in [1 .. k -> SUBSET Bit] : \A o, a, b, stack \in Nat :
        Fits(size, k, o, a, b, stack) =>
            Effect(size, k, m, karatsuba[size][TheCall(m, o, a, b, stack)], o, a, b, stack)

LEMMA MultipliesCall ==
    ASSUME NEW size, Multiplies(size), NEW k \in Nat, NEW m \in [1 .. k -> SUBSET Bit],
           NEW o \in Nat, NEW a \in Nat, NEW b \in Nat, NEW stack \in Nat,
           Fits(size, k, o, a, b, stack)
    PROVE  Effect(size, k, m, karatsuba[size][TheCall(m, o, a, b, stack)], o, a, b, stack)
  BY DEF Multiplies

\* A call on one word multiplies.
LEMMA OneWordMultiplies == Multiplies(1)
  <1> SUFFICES ASSUME NEW k \in Nat, NEW m \in [1 .. k -> SUBSET Bit],
                      NEW o \in Nat, NEW a \in Nat, NEW b \in Nat, NEW stack \in Nat,
                      Fits(1, k, o, a, b, stack)
               PROVE  Effect(1, k, m, karatsuba[1][TheCall(m, o, a, b, stack)], o, a, b, stack)
    BY DEF Multiplies
  <1> DEFINE c     == baseMul(m[a], m[b])
             after == [m EXCEPT ![o] = c[0], ![o + 1] = c[1]]
             call  == TheCall(m, o, a, b, stack)
  <1>1. karatsuba[1][call] = after
    <2>1. call \in Call /\ call.memory = m /\ call.o = o /\ call.a = a /\ call.b = b
      BY MemoryType, CallType DEF TheCall
    <2> HIDE DEF call
    <2>2. karatsuba[1][call] = level(karatsuba, 1, call)
      BY <2>1, KaratsubaIs
    <2>3. level(karatsuba, 1, call) = OneWord(call)
      BY LevelIs
    <2> QED
      BY <2>1, <2>2, <2>3 DEF OneWord
  <1>2. /\ o \in 1 .. k /\ o + 1 \in 1 .. k /\ a \in 1 .. k /\ b \in 1 .. k
        /\ m[a] \in SUBSET Bit /\ m[b] \in SUBSET Bit
    BY DEF Fits
  <1>3. /\ c[0] \in SUBSET Bit /\ c[1] \in SUBSET Bit
        /\ \A r \in Bit : r \in c[0] <=> r \in Times(m[a], m[b])
        /\ \A r \in Bit : r \in c[1] <=> r + Width \in Times(m[a], m[b])
    BY <1>2, WordProduct
  <1> HIDE DEF c
  <1>4. after \in [1 .. k -> SUBSET Bit]
        /\ after[o] = c[0] /\ after[o + 1] = c[1]
        /\ \A x \in 1 .. k : x # o /\ x # o + 1 => after[x] = m[x]
    BY <1>2, <1>3
  <1> HIDE DEF after
  <1>5. Span(after, o, 2) = Times(m[a], m[b])
    <2> DEFINE left  == Span(after, o, 2)
               right == Times(m[a], m[b])
    <2>1. Width \in Nat /\ Width > 0 /\ m[a] \in SUBSET (0 .. Width - 1) /\ m[b] \in SUBSET (0 .. Width - 1)
      BY <1>2, RingDimension DEF Bit
    <2>2. left \subseteq Nat
      BY SpanPolynomial DEF Polynomial
    <2>3. right \subseteq 0 .. Width + Width - 2
      BY <2>1, TimesBounded
    <2> HIDE DEF left, right
    <2>4. right \subseteq Nat
      BY <2>3
    <2>5. ASSUME NEW q \in Nat, NEW r \in Bit
          PROVE  q * Width + r \in left <=> q * Width + r \in right
      <3>1. q * Width + r \in left <=> q < 2 /\ r \in after[o + q]
        BY SpanMember DEF left
      <3>2. r \in Nat
        BY RingDimension DEF Bit
      <3>3. CASE q = 0
        <4>1. q * Width + r = r /\ o + q = o
          BY <2>1, <3>2, <3>3
        <4> QED
          BY <1>3, <1>4, <3>1, <3>3, <4>1 DEF right
      <3>4. CASE q = 1
        <4>1. q * Width + r = r + Width /\ o + q = o + 1
          BY <2>1, <3>2, <3>4
        <4> QED
          BY <1>3, <1>4, <3>1, <3>4, <4>1 DEF right
      <3>5. CASE q > 1
        <4>1. 2 * Width <= q * Width /\ q * Width \in Nat
          BY <2>1, <3>5, ProductNat, ProductGrows
        <4> DEFINE x == q * Width + r
        <4>2. x \in Nat /\ x > Width + Width - 2
          BY <2>1, <3>2, <4>1
        <4> HIDE DEF x
        <4>3. x \notin right
          BY <2>1, <2>3, <4>2
        <4> QED
          BY <3>1, <3>5, <4>3 DEF x
      <3> QED
        BY <3>3, <3>4, <3>5
    <2>6. left = right
      BY <2>2, <2>4, <2>5, SameBits
    <2> QED
      BY <2>6 DEF left, right
  <1>6. ASSUME NEW at \in Nat, m[at] \in SUBSET Bit PROVE Span(m, at, 1) = m[at]
    <2> DEFINE left  == Span(m, at, 1)
               right == m[at]
    <2>1. Width \in Nat /\ Width > 0 /\ right \subseteq 0 .. Width - 1
      BY <1>6, RingDimension DEF Bit
    <2>2. left \subseteq Nat
      BY SpanPolynomial DEF Polynomial
    <2> HIDE DEF left, right
    <2>3. right \subseteq Nat
      BY <2>1
    <2>4. ASSUME NEW q \in Nat, NEW r \in Bit
          PROVE  q * Width + r \in left <=> q * Width + r \in right
      <3>1. q * Width + r \in left <=> q < 1 /\ r \in m[at + q]
        BY SpanMember DEF left
      <3>2. r \in Nat
        BY RingDimension DEF Bit
      <3>3. CASE q = 0
        <4>1. q * Width + r = r /\ at + q = at
          BY <2>1, <3>2, <3>3
        <4> QED
          BY <3>1, <3>3, <4>1 DEF right
      <3>4. CASE q > 0
        <4>1. 1 * Width <= q * Width /\ q * Width \in Nat
          BY <2>1, <3>4, ProductNat, ProductGrows
        <4> DEFINE x == q * Width + r
        <4>2. x \in Nat /\ x > Width - 1
          BY <2>1, <3>2, <4>1
        <4> HIDE DEF x
        <4>3. x \notin right
          BY <2>1, <4>2
        <4> QED
          BY <3>1, <3>4, <4>3 DEF x
      <3> QED
        BY <3>3, <3>4
    <2>5. left = right
      BY <2>2, <2>3, <2>4, SameBits
    <2> QED
      BY <2>5 DEF left, right
  <1>7. Span(m, a, 1) = m[a] /\ Span(m, b, 1) = m[b]
    BY <1>2, <1>6
  <1>8. \A x \in 1 .. k : x < stack /\ ~(o <= x /\ x < o + 2 * 1) => after[x] = m[x]
    BY <1>4
  <1>9. Effect(1, k, m, after, o, a, b, stack)
    <2>1. 2 * 1 = 2
      OBVIOUS
    <2> QED
      BY <1>4, <1>5, <1>7, <1>8, <2>1 DEF Effect
  <1> QED
    BY <1>1, <1>9

-----------------------------------------------------------------------------
(* One level, and every size.                                              *)

\* The geometry of the three calls that a level makes.
LEMMA CallsFit ==
    ASSUME NEW size \in Nat, NEW sizeL, NEW sizeH, Halves(size, sizeL, sizeH),
           NEW k \in Nat, NEW o \in Nat, NEW a \in Nat, NEW b \in Nat, NEW stack \in Nat,
           Fits(size, k, o, a, b, stack)
    PROVE  /\ Fits(sizeL, k, o, a, b, stack + 4 * sizeL)
           /\ Fits(sizeH, k, o + 2 * sizeL, a + sizeL, b + sizeL, stack + 4 * sizeL)
           /\ Fits(sizeL, k, stack + 2 * sizeL, stack, stack + sizeL, stack + 4 * sizeL)
           /\ stack + 4 * sizeL <= k + 1
  <1>1. sizeL \in Nat /\ sizeH \in Nat /\ sizeH > 0 /\ sizeH <= sizeL /\ sizeL < size
        /\ sizeL + sizeH = size /\ 12 * sizeL <= 8 * size
    BY DEF Halves
  <1>2. /\ o > 0 /\ a > 0 /\ b > 0
        /\ o + 2 * size <= stack /\ a + size <= stack /\ b + size <= stack
        /\ a + size <= o \/ o + 2 * size <= a
        /\ b + size <= o \/ o + 2 * size <= b
        /\ stack + 8 * size <= k + 9
    BY DEF Fits
  <1>3. stack + 4 * sizeL + 8 * sizeL <= k + 9 /\ stack + 4 * sizeL <= k + 1
    BY <1>1, <1>2
  <1>4. Fits(sizeL, k, o, a, b, stack + 4 * sizeL)
    BY <1>1, <1>2, <1>3 DEF Fits
  <1>5. Fits(sizeH, k, o + 2 * sizeL, a + sizeL, b + sizeL, stack + 4 * sizeL)
    <2>1. (o + 2 * sizeL) + 2 * sizeH <= stack + 4 * sizeL
          /\ (a + sizeL) + sizeH <= stack + 4 * sizeL /\ (b + sizeL) + sizeH <= stack + 4 * sizeL
      BY <1>1, <1>2
    <2>2. /\ (a + sizeL) + sizeH <= o + 2 * sizeL \/ (o + 2 * sizeL) + 2 * sizeH <= a + sizeL
          /\ (b + sizeL) + sizeH <= o + 2 * sizeL \/ (o + 2 * sizeL) + 2 * sizeH <= b + sizeL
      BY <1>1, <1>2
    <2>3. o + 2 * sizeL > 0 /\ a + sizeL > 0 /\ b + sizeL > 0
          /\ stack + 4 * sizeL + 8 * sizeH <= k + 9
      BY <1>1, <1>2, <1>3
    <2> QED
      BY <2>1, <2>2, <2>3 DEF Fits
  <1>6. Fits(sizeL, k, stack + 2 * sizeL, stack, stack + sizeL, stack + 4 * sizeL)
    BY <1>1, <1>2, <1>3 DEF Fits
  <1> QED
    BY <1>3, <1>4, <1>5, <1>6

\* One level: three products of smaller operands give that of the operands.
LEMMA LevelMultiplies ==
    ASSUME NEW size \in Nat, size > 1, Multiplies((size + 1) \div 2), Multiplies(size \div 2)
    PROVE  Multiplies(size)
  <1> SUFFICES ASSUME NEW k \in Nat, NEW m \in [1 .. k -> SUBSET Bit],
                      NEW o \in Nat, NEW a \in Nat, NEW b \in Nat, NEW stack \in Nat,
                      Fits(size, k, o, a, b, stack)
               PROVE  Effect(size, k, m, karatsuba[size][TheCall(m, o, a, b, stack)], o, a, b, stack)
    BY DEF Multiplies
  <1> DEFINE sizeL == (size + 1) \div 2
             sizeH == size \div 2
             top   == stack + 4 * sizeL
             tmp1  == stack + 2 * sizeL
             tmp2  == o + 2 * sizeL
             blh   == stack + sizeL
             aH    == a + sizeL
             bH    == b + sizeL
             m1    == karatsuba[sizeL][TheCall(m, o, a, b, top)]
             m2    == karatsuba[sizeH][TheCall(m1, tmp2, aH, bH, top)]
             m3    == karatsubaAdd1(m2, stack, blh, a, b, sizeL, sizeH)
             m4    == karatsuba[sizeL][TheCall(m3, tmp1, stack, blh, top)]
             after == karatsubaAdd2(m4, o, tmp1, tmp2, sizeL, sizeH)
             call  == TheCall(m, o, a, b, stack)
  <1>1. karatsuba[size][call] = after
    <2>1. call \in Call /\ call.memory = m /\ call.o = o /\ call.a = a /\ call.b = b
          /\ call.stack = stack
      BY MemoryType, CallType DEF TheCall
    <2> HIDE DEF call
    <2>2. karatsuba[size][call] = level(karatsuba, size, call)
      BY <2>1, KaratsubaIs
    <2>3. AfterLow(karatsuba, size, call) = m1
      BY <2>1 DEF AfterLow, workspace
    <2>4. AfterHigh(karatsuba, size, call) = m2
      BY <2>1, <2>3 DEF AfterHigh, workspace
    <2>5. AfterSums(karatsuba, size, call) = m4
      BY <2>1, <2>4 DEF AfterSums, workspace
    <2> HIDE DEF m4
    <2>6. level(karatsuba, size, call)
              = karatsubaAdd2(AfterSums(karatsuba, size, call), call.o, call.stack + 2 * sizeL,
                              call.o + 2 * sizeL, sizeL, sizeH)
      BY LevelIs
    <2> QED
      BY <2>1, <2>2, <2>5, <2>6
  <1>2. Halves(size, sizeL, sizeH) /\ Multiplies(sizeL) /\ Multiplies(sizeH)
    BY HalvesOf
  <1> HIDE DEF sizeL, sizeH, call
  <1>3. sizeL \in Nat /\ sizeH \in Nat /\ sizeH > 0 /\ sizeH <= sizeL /\ sizeL + sizeH = size
        /\ sizeL <= 2 * sizeH /\ sizeL < size
    BY <1>2 DEF Halves
  <1>4. top \in Nat /\ tmp1 \in Nat /\ tmp2 \in Nat /\ blh \in Nat /\ aH \in Nat /\ bH \in Nat
    BY <1>3
  <1>5. /\ Fits(sizeL, k, o, a, b, top)
        /\ Fits(sizeH, k, tmp2, aH, bH, top)
        /\ Fits(sizeL, k, tmp1, stack, blh, top)
        /\ top <= k + 1
    BY <1>2, CallsFit
  <1>6. /\ o > 0 /\ a > 0 /\ b > 0
        /\ o + 2 * size <= stack /\ a + size <= stack /\ b + size <= stack
        /\ a + size <= o \/ o + 2 * size <= a
        /\ b + size <= o \/ o + 2 * size <= b
    BY DEF Fits
  <1> HIDE DEF m1, m2, m3, m4, after
  <1>7. Effect(sizeL, k, m, m1, o, a, b, top)
    BY <1>2, <1>4, <1>5, MultipliesCall DEF m1
  <1>8. m1 \in [1 .. k -> SUBSET Bit]
    BY <1>7 DEF Effect
  <1> HIDE DEF top, tmp1, tmp2, blh, aH, bH
  <1>9. Effect(sizeH, k, m1, m2, tmp2, aH, bH, top)
    BY <1>2, <1>4, <1>5, <1>8, MultipliesCall DEF m2
  <1>10. m2 \in [1 .. k -> SUBSET Bit]
    BY <1>9 DEF Effect
  <1>11. /\ m3 \in [1 .. k -> SUBSET Bit]
         /\ Outside(m3, m2, k, stack, tmp1)
         /\ SumOf(m3, stack, m2, a, aH, sizeL, sizeH)
         /\ SumOf(m3, blh, m2, b, bH, sizeL, sizeH)
    <2>1. SumPlaces(k, size, sizeL, a, b, stack, blh, aH, bH, tmp1)
      BY <1>3, <1>5, <1>6 DEF SumPlaces, top, tmp1, blh, aH, bH
    <2>2. m3 = karatsubaAdd1(m2, stack, blh, a, b, sizeL, sizeH)
      BY DEF m3
    <2> QED
      BY <1>2, <1>10, <2>1, <2>2, SumWords
  <1>12. Effect(sizeL, k, m3, m4, tmp1, stack, blh, top)
    BY <1>2, <1>4, <1>5, <1>11, MultipliesCall DEF m4
  <1>13. m4 \in [1 .. k -> SUBSET Bit]
    BY <1>12 DEF Effect
  <1>14. MixPlaces(k, size, sizeL, o, tmp1, tmp2, sizeL * Width)
    BY <1>3, <1>5, <1>6 DEF MixPlaces, top, tmp1, tmp2
  <1>15. /\ after \in [1 .. k -> SUBSET Bit]
         /\ OutsideOutput(after, m4, k, size, o, tmp1)
         /\ MixOf(after, m4, o, tmp1, tmp2, size, sizeL, sizeH)
    <2>1. after = karatsubaAdd2(m4, o, tmp1, tmp2, sizeL, sizeH)
      BY DEF after
    <2> QED
      BY <1>2, <1>4, <1>13, <1>14, <2>1, MixedWords
  <1>16. /\ \A x \in 1 .. k : x < top /\ ~(o <= x /\ x < tmp2) => m1[x] = m[x]
         /\ \A x \in 1 .. k : x < top /\ ~(tmp2 <= x /\ x < o + 2 * size) => m2[x] = m1[x]
         /\ \A x \in 1 .. k : x < tmp1 => m4[x] = m3[x]
    <2>1. top = tmp1 + 2 * sizeL /\ tmp2 = o + 2 * sizeL /\ tmp2 + 2 * sizeH = o + 2 * size
      BY <1>3 DEF top, tmp1, tmp2
    <2>2. \A x \in 1 .. k : x < top /\ ~(o <= x /\ x < tmp2) => m1[x] = m[x]
      BY <1>7, <2>1 DEF Effect
    <2>3. \A x \in 1 .. k : x < top /\ ~(tmp2 <= x /\ x < o + 2 * size) => m2[x] = m1[x]
      BY <1>9, <2>1 DEF Effect
    <2>4. \A x \in 1 .. k : x < tmp1 => m4[x] = m3[x]
      <3>1. \A x \in 1 .. k : x < tmp1 => x < top /\ ~(tmp1 <= x /\ x < tmp1 + 2 * sizeL)
        BY <1>3, <1>4, <2>1
      <3> QED
        BY <1>12, <3>1 DEF Effect
    <2> QED
      BY <2>2, <2>3, <2>4
  <1>17. stack <= tmp1 /\ tmp1 <= top /\ o <= tmp2 /\ tmp2 <= o + 2 * size /\ stack <= blh
         /\ blh <= tmp1 /\ stack <= k + 1
    BY <1>3, <1>5 DEF top, tmp1, tmp2, blh
  <1>18. \A x \in 1 .. k : x < stack => m4[x] = m2[x]
    <2> SUFFICES ASSUME NEW x \in 1 .. k, x < stack PROVE m4[x] = m2[x]
      OBVIOUS
    <2>1. x < tmp1
      BY <1>4, <1>17
    <2>2. m4[x] = m3[x]
      BY <1>16, <2>1
    <2>3. m3[x] = m2[x]
      BY <1>11 DEF Outside
    <2> QED
      BY <2>2, <2>3
  <1>19. \A x \in 1 .. k : x < stack /\ ~(o <= x /\ x < o + 2 * size) => after[x] = m[x]
    <2> SUFFICES ASSUME NEW x \in 1 .. k, x < stack, ~(o <= x /\ x < o + 2 * size)
                 PROVE  after[x] = m[x]
      OBVIOUS
    <2>1. x < tmp1 /\ x < top /\ ~(o <= x /\ x < tmp2) /\ ~(tmp2 <= x /\ x < o + 2 * size)
      BY <1>3, <1>4, <1>17
    <2>2. m2[x] = m1[x] /\ m1[x] = m[x]
      BY <1>16, <2>1
    <2>3. after[x] = m4[x]
      BY <1>15, <2>1 DEF OutsideOutput
    <2> QED
      BY <1>18, <2>2, <2>3
  <1> DEFINE low1  == Span(m, a, sizeL)
             high1 == Span(m, aH, sizeH)
             low2  == Span(m, b, sizeL)
             high2 == Span(m, bH, sizeH)
             lows  == Times(low1, low2)
             highs == Times(high1, high2)
             sums  == Times(Xor(low1, high1), Xor(low2, high2))
             step  == sizeL * Width
  <1>20. Span(m4, o, 2 * sizeL) = lows
    <2>1. Span(m1, o, 2 * sizeL) = lows
      BY <1>7 DEF Effect
    <2>2. Same(m4, m1, o, 2 * sizeL)
      <3>1. ASSUME NEW i \in Nat, i < 2 * sizeL PROVE m4[o + i] = m1[o + i]
        <4> DEFINE x == o + i
        <4>1. x \in 1 .. k /\ x < stack /\ x < top /\ ~(tmp2 <= x)
          BY <1>3, <1>4, <1>6, <1>17, <3>1 DEF tmp2
        <4> HIDE DEF x
        <4>2. m4[x] = m2[x] /\ m2[x] = m1[x]
          BY <1>16, <1>18, <4>1
        <4> QED
          BY <4>2 DEF x
      <3> QED
        BY <3>1 DEF Same
    <2>3. 2 * sizeL \in Nat
      BY <1>3
    <2>4. Span(m4, o, 2 * sizeL) = Span(m1, o, 2 * sizeL)
      BY <2>2, <2>3, SpanKept
    <2> QED
      BY <2>1, <2>4
  <1>21. Same(m1, m, a, sizeL) /\ Same(m1, m, b, sizeL) /\ Same(m1, m, aH, sizeH) /\ Same(m1, m, bH, sizeH)
    <2>1. ASSUME NEW i \in Nat, NEW at \in Nat, at > 0, at + size <= stack,
                 at + size <= o \/ o + 2 * size <= at, i < size
          PROVE  m1[at + i] = m[at + i]
      <3>1. at + i \in 1 .. k /\ at + i < top /\ ~(o <= at + i /\ at + i < tmp2)
        BY <1>3, <1>4, <1>6, <1>17, <2>1
      <3> QED
        BY <1>16, <3>1
    <2>2. \A i \in Nat : i < size => m1[a + i] = m[a + i] /\ m1[b + i] = m[b + i]
      BY <1>6, <2>1
    <2>3. \A i \in Nat : i < sizeH =>
              sizeL + i \in Nat /\ sizeL + i < size /\ aH + i = a + (sizeL + i) /\ bH + i = b + (sizeL + i)
      BY <1>3 DEF aH, bH
    <2>4. \A i \in Nat : i < sizeL => i < size
      BY <1>3
    <2> QED
      <3>1. Same(m1, m, a, sizeL) /\ Same(m1, m, b, sizeL)
        BY <2>2, <2>4 DEF Same
      <3>2. ASSUME NEW i \in Nat, i < sizeH
            PROVE  m1[aH + i] = m[aH + i] /\ m1[bH + i] = m[bH + i]
        <4> DEFINE j == sizeL + i
        <4>1. j \in Nat /\ j < size /\ aH + i = a + j /\ bH + i = b + j
          BY <2>3, <3>2
        <4> HIDE DEF j
        <4> QED
          BY <2>2, <4>1
      <3> QED
        BY <3>1, <3>2 DEF Same
  <1>22. Span(m4, tmp2, 2 * sizeH) = highs
    <2>1. Span(m1, aH, sizeH) = high1 /\ Span(m1, bH, sizeH) = high2
      BY <1>3, <1>4, <1>21, SpanKept
    <2>2. Span(m2, tmp2, 2 * sizeH) = highs
      BY <1>9, <2>1 DEF Effect
    <2>3. Same(m4, m2, tmp2, 2 * sizeH)
      <3>1. ASSUME NEW i \in Nat, i < 2 * sizeH PROVE m4[tmp2 + i] = m2[tmp2 + i]
        <4>1. tmp2 + i \in 1 .. k /\ tmp2 + i < stack
          BY <1>3, <1>6, <1>17, <3>1 DEF tmp2
        <4> QED
          BY <1>18, <4>1
      <3> QED
        BY <3>1 DEF Same
    <2>4. 2 * sizeH \in Nat
      BY <1>3
    <2>5. Span(m4, tmp2, 2 * sizeH) = Span(m2, tmp2, 2 * sizeH)
      BY <1>4, <2>3, <2>4, SpanKept
    <2> QED
      BY <2>2, <2>5
  <1>23. Same(m2, m1, a, sizeL) /\ Same(m2, m1, b, sizeL) /\ Same(m2, m1, aH, sizeH) /\ Same(m2, m1, bH, sizeH)
    <2>1. ASSUME NEW i \in Nat, NEW at \in Nat, at > 0, at + size <= stack,
                 at + size <= o \/ o + 2 * size <= at, i < size
          PROVE  m2[at + i] = m1[at + i]
      <3>1. at + i \in 1 .. k /\ at + i < top /\ ~(tmp2 <= at + i /\ at + i < o + 2 * size)
        BY <1>3, <1>4, <1>6, <1>17, <2>1
      <3> QED
        BY <1>16, <3>1
    <2>2. \A i \in Nat : i < size => m2[a + i] = m1[a + i] /\ m2[b + i] = m1[b + i]
      BY <1>6, <2>1
    <2>3. \A i \in Nat : i < sizeH =>
              sizeL + i \in Nat /\ sizeL + i < size /\ aH + i = a + (sizeL + i) /\ bH + i = b + (sizeL + i)
      BY <1>3 DEF aH, bH
    <2>4. \A i \in Nat : i < sizeL => i < size
      BY <1>3
    <2> QED
      <3>1. Same(m2, m1, a, sizeL) /\ Same(m2, m1, b, sizeL)
        BY <2>2, <2>4 DEF Same
      <3>2. ASSUME NEW i \in Nat, i < sizeH
            PROVE  m2[aH + i] = m1[aH + i] /\ m2[bH + i] = m1[bH + i]
        <4> DEFINE j == sizeL + i
        <4>1. j \in Nat /\ j < size /\ aH + i = a + j /\ bH + i = b + j
          BY <2>3, <3>2
        <4> HIDE DEF j
        <4> QED
          BY <2>2, <4>1
      <3> QED
        BY <3>1, <3>2 DEF Same
  <1>24. /\ Span(m2, a, sizeL) = low1 /\ Span(m2, aH, sizeH) = high1
         /\ Span(m2, b, sizeL) = low2 /\ Span(m2, bH, sizeH) = high2
    <2>1. /\ Span(m2, a, sizeL) = Span(m1, a, sizeL) /\ Span(m2, aH, sizeH) = Span(m1, aH, sizeH)
          /\ Span(m2, b, sizeL) = Span(m1, b, sizeL) /\ Span(m2, bH, sizeH) = Span(m1, bH, sizeH)
      BY <1>3, <1>4, <1>23, SpanKept
    <2>2. /\ Span(m1, a, sizeL) = low1 /\ Span(m1, aH, sizeH) = high1
          /\ Span(m1, b, sizeL) = low2 /\ Span(m1, bH, sizeH) = high2
      BY <1>3, <1>4, <1>21, SpanKept
    <2> QED
      BY <2>1, <2>2
  <1>25. Span(m4, tmp1, 2 * sizeL) = sums
    <2>1. Span(m3, stack, sizeL) = Xor(low1, high1)
      <3>1. Span(m3, stack, sizeL) = Xor(Span(m2, a, sizeL), Span(m2, aH, sizeH))
        BY <1>2, <1>4, <1>11, SumSpan
      <3> QED
        BY <1>24, <3>1
    <2>2. Span(m3, blh, sizeL) = Xor(low2, high2)
      <3>1. Span(m3, blh, sizeL) = Xor(Span(m2, b, sizeL), Span(m2, bH, sizeH))
        BY <1>2, <1>4, <1>11, SumSpan
      <3> QED
        BY <1>24, <3>1
    <2> QED
      BY <1>12, <2>1, <2>2 DEF Effect
  <1>26. Span(after, o, 2 * size)
             = Xor(Xor(lows, Shifted(highs, 2 * step)), Shifted(Xor(sums, Xor(lows, highs)), step))
    <2>1. Span(after, o, 2 * size)
              = Xor(Xor(Span(m4, o, 2 * sizeL), Shifted(Span(m4, tmp2, 2 * sizeH), 2 * step)),
                    Shifted(Xor(Span(m4, tmp1, 2 * sizeL),
                                Xor(Span(m4, o, 2 * sizeL), Span(m4, tmp2, 2 * sizeH))), step))
      <3>1. MixPlaces(k, size, sizeL, o, tmp1, tmp2, step)
        BY <1>14
      <3> HIDE DEF step
      <3> QED
        BY <1>2, <1>4, <1>15, <3>1, MixedSpan
    <2> HIDE DEF lows, highs, sums
    <2> QED
      BY <1>20, <1>22, <1>25, <2>1
  <1>27. /\ low1 \in Polynomial /\ high1 \in Polynomial /\ low2 \in Polynomial /\ high2 \in Polynomial
         /\ step \in Nat
    BY <1>3, SpanPolynomial, RingDimension, ProductNat
  <1>28. Span(m, a, size) = Xor(low1, Shifted(high1, step))
         /\ Span(m, b, size) = Xor(low2, Shifted(high2, step))
    <2>1. Parts(a, sizeL, sizeH, size, aH, step) /\ Parts(b, sizeL, sizeH, size, bH, step)
      BY <1>3 DEF Parts, aH, bH
    <2> HIDE DEF step
    <2> QED
      BY <1>3, <1>4, <2>1, SpanInParts
  <1>29. Times(Xor(low1, Shifted(high1, step)), Xor(low2, Shifted(high2, step)))
             = Xor(Xor(lows, Shifted(highs, 2 * step)), Shifted(Xor(sums, Xor(lows, highs)), step))
    <2> HIDE DEF low1, high1, low2, high2, step
    <2> QED
      BY <1>27, ThreeProducts
  <1>30. Span(after, o, 2 * size) = Times(Span(m, a, size), Span(m, b, size))
    <2> HIDE DEF low1, high1, low2, high2, lows, highs, sums, step
    <2> QED
      BY <1>26, <1>28, <1>29
  <1>31. Effect(size, k, m, after, o, a, b, stack)
    BY <1>15, <1>19, <1>30 DEF Effect
  <1> QED
    BY <1>1, <1>31 DEF call

\* By complete induction over the size.
LEMMA EverySizeMultiplies ==
    ASSUME NEW size \in Nat, size > 0
    PROVE  Multiplies(size)
  <1> DEFINE P == {k \in Nat : k > 0 => Multiplies(k)}
  <1>1. ASSUME NEW k \in Nat, 0 .. k - 1 \subseteq P PROVE k \in P
    <2>1. CASE k <= 1
      BY <2>1, OneWordMultiplies
    <2>2. CASE k > 1
      <3>1. /\ (k + 1) \div 2 \in 0 .. k - 1 /\ (k + 1) \div 2 > 0
            /\ k \div 2 \in 0 .. k - 1 /\ k \div 2 > 0
        BY <2>2
      <3>2. Multiplies((k + 1) \div 2) /\ Multiplies(k \div 2)
        BY <1>1, <3>1
      <3> QED
        BY <2>2, <3>2, LevelMultiplies
    <2> QED
      BY <2>1, <2>2
  <1>2. Inductive(P)
    <2> HIDE DEF P
    <2> QED
      BY <1>1 DEF Inductive
  <1>3. size \in P
    <2> HIDE DEF P
    <2> QED
      BY <1>2, EveryNatural
  <1> QED
    BY <1>3

-----------------------------------------------------------------------------
(* The factors polyMul lays out, and its result.                           *)

\* The words of v are those of m from place `at`.
Holds(m, at, v, len) == \A i \in 0 .. len - 1 : m[at + i] = v[i]

\* An array and a slice with the same words are the same polynomial.
LEMMA ExponentsAreSpan ==
    ASSUME NEW len \in Nat, NEW v, DOMAIN v = 0 .. len - 1, NEW m, NEW at, Holds(m, at, v, len)
    PROVE  Exponents(v) = Span(m, at, len)
  <1>1. Cardinality(DOMAIN v) = len
    <2>1. 0 \in Int /\ len - 1 \in Int
      OBVIOUS
    <2>2. Cardinality(0 .. len - 1) = IF 0 > len - 1 THEN 0 ELSE (len - 1) - 0 + 1
      BY <2>1, FS_Interval
    <2> QED
      BY <2>2
  <1>2. ASSUME NEW x \in 0 .. len * Width - 1
        PROVE  m[at + x \div Width] = v[x \div Width]
    <2>1. Width \in Nat /\ Width > 0
      BY RingDimension
    <2>2. len * Width \in Nat
      BY <2>1, ProductNat
    <2>3. x \in Nat /\ x < len * Width
      BY <2>2
    <2>4. x \div Width \in Nat /\ x \div Width < len
      BY <2>1, <2>3, DivisionBounds, QuotientBelow
    <2>5. x \div Width \in 0 .. len - 1
      BY <2>4
    <2> QED
      BY <2>5 DEF Holds
  <1> QED
    BY <1>1, <1>2 DEF Exponents, Span

\* The memory that polyMul sets up.
Factors(v1, v2, size) ==
    [x \in 1 .. 4 * size + stackWords(size) |->
        IF x <= size THEN v1[x - 1] ELSE IF x <= 2 * size THEN v2[x - size - 1] ELSE {}]

\* It holds both factors, and is as long as a call on them needs.
LEMMA FactorsHeld ==
    ASSUME NEW size \in Nat \ {0}, NEW v1 \in [0 .. size - 1 -> SUBSET Bit],
           NEW v2 \in [0 .. size - 1 -> SUBSET Bit]
    PROVE  /\ Factors(v1, v2, size) \in [1 .. 12 * size -> SUBSET Bit]
           /\ Holds(Factors(v1, v2, size), 1, v1, size)
           /\ Holds(Factors(v1, v2, size), size + 1, v2, size)
  <1> DEFINE memory == Factors(v1, v2, size)
  <1>1. 4 * size + stackWords(size) = 12 * size
    BY DEF stackWords
  <1>2. \A x \in 1 .. 12 * size :
            memory[x] = IF x <= size THEN v1[x - 1]
                        ELSE IF x <= 2 * size THEN v2[x - size - 1] ELSE {}
    BY <1>1 DEF Factors
  <1>3. memory = [x \in 1 .. 12 * size |-> memory[x]]
    BY <1>1 DEF Factors
  <1> HIDE DEF memory
  <1>4. ASSUME NEW x \in 1 .. 12 * size PROVE memory[x] \in SUBSET Bit
    <2>1. CASE x <= size
      <3>1. x - 1 \in 0 .. size - 1
        BY <2>1
      <3> QED
        BY <1>2, <2>1, <3>1
    <2>2. CASE ~(x <= size) /\ x <= 2 * size
      <3>1. x - size - 1 \in 0 .. size - 1
        BY <2>2
      <3>2. v2[x - size - 1] \in SUBSET Bit
        BY <3>1
      <3> QED
        BY <1>2, <2>2, <3>2
    <2>3. CASE ~(x <= size) /\ ~(x <= 2 * size)
      BY <1>2, <2>3
    <2> QED
      BY <2>1, <2>2, <2>3
  <1>5. ASSUME NEW i \in 0 .. size - 1
        PROVE  memory[1 + i] = v1[i] /\ memory[(size + 1) + i] = v2[i]
    <2>1. 1 + i \in 1 .. 12 * size /\ 1 + i <= size /\ (1 + i) - 1 = i
      OBVIOUS
    <2> DEFINE x == (size + 1) + i
    <2>2. x \in 1 .. 12 * size /\ ~(x <= size) /\ x <= 2 * size /\ x - size - 1 = i
      OBVIOUS
    <2> HIDE DEF x
    <2>3. memory[x] = v2[i]
      BY <1>2, <2>2
    <2> QED
      BY <1>2, <2>1, <2>3 DEF x
  <1>6. memory \in [1 .. 12 * size -> SUBSET Bit]
    BY <1>3, <1>4
  <1>7. Holds(memory, 1, v1, size) /\ Holds(memory, size + 1, v2, size)
    BY <1>5 DEF Holds
  <1> QED
    BY <1>6, <1>7 DEF memory

\* product is the product, in twice as many words.
LEMMA ProductIsTimes ==
    ASSUME NEW size \in Nat \ {0}, NEW v1 \in [0 .. size - 1 -> SUBSET Bit],
           NEW v2 \in [0 .. size - 1 -> SUBSET Bit]
    PROVE  /\ product(v1, v2, size) \in [0 .. 2 * size - 1 -> SUBSET Bit]
           /\ Exponents(product(v1, v2, size)) = Times(Exponents(v1), Exponents(v2))
  <1> DEFINE memory == Factors(v1, v2, size)
             k == 12 * size
             o == 2 * size + 1
             b == size + 1
             stack == 4 * size + 1
             after == karatsuba[size][TheCall(memory, o, 1, b, stack)]
             whole == [i \in 0 .. 2 * size - 1 |-> after[o + i]]
  <1>1. product(v1, v2, size) = whole
    BY DEF product, Factors, TheCall
  <1>2. memory \in [1 .. k -> SUBSET Bit] /\ Holds(memory, 1, v1, size) /\ Holds(memory, b, v2, size)
    BY FactorsHeld
  <1>3. Fits(size, k, o, 1, b, stack) /\ k \in Nat /\ o \in Nat /\ b \in Nat /\ stack \in Nat
        /\ stack <= k + 1
    BY DEF Fits
  <1>4. Multiplies(size)
    BY EverySizeMultiplies
  <1> HIDE DEF memory, after, k
  <1>5. Effect(size, k, memory, after, o, 1, b, stack)
    <2> HIDE DEF o, b, stack
    <2> QED
      BY <1>2, <1>3, <1>4, MultipliesCall DEF after
  <1>6. /\ after \in [1 .. k -> SUBSET Bit]
        /\ Span(after, o, 2 * size) = Times(Span(memory, 1, size), Span(memory, b, size))
    BY <1>5 DEF Effect
  <1>7. Exponents(v1) = Span(memory, 1, size) /\ Exponents(v2) = Span(memory, b, size)
    <2> HIDE DEF b
    <2>1. DOMAIN v1 = 0 .. size - 1 /\ DOMAIN v2 = 0 .. size - 1
      OBVIOUS
    <2> QED
      BY <1>2, <2>1, ExponentsAreSpan
  <1>8. whole \in [0 .. 2 * size - 1 -> SUBSET Bit]
    <2>1. \A i \in 0 .. 2 * size - 1 : o + i \in 1 .. k
      BY <1>3
    <2> HIDE DEF o
    <2> QED
      BY <1>6, <2>1
  <1>9. Exponents(whole) = Span(after, o, 2 * size)
    <2>1. Holds(after, o, whole, 2 * size) /\ DOMAIN whole = 0 .. 2 * size - 1
      BY DEF Holds
    <2> DEFINE len == 2 * size
    <2>2. len \in Nat /\ Holds(after, o, whole, len) /\ DOMAIN whole = 0 .. len - 1
      BY <2>1
    <2> HIDE DEF whole, o, len
    <2>3. Exponents(whole) = Span(after, o, len)
      BY <2>2, ExponentsAreSpan
    <2> QED
      BY <2>3 DEF len
  <1> HIDE DEF whole
  <1> QED
    BY <1>1, <1>6, <1>7, <1>8, <1>9

\* Exponents and coefficients.
LEMMA ExponentIsCoefficient ==
    ASSUME NEW len \in Nat, NEW v, DOMAIN v = 0 .. len - 1, NEW x \in Nat
    PROVE  x \in Exponents(v) <=> x < len * Width /\ Coefficient(v, x)
  <1>1. Cardinality(DOMAIN v) = len
    <2>1. 0 \in Int /\ len - 1 \in Int
      OBVIOUS
    <2>2. Cardinality(0 .. len - 1) = IF 0 > len - 1 THEN 0 ELSE (len - 1) - 0 + 1
      BY <2>1, FS_Interval
    <2> QED
      BY <2>2
  <1> DEFINE size == len * Width
  <1>2. size \in Nat
    BY RingDimension, ProductNat
  <1>3. Exponents(v) = {y \in 0 .. size - 1 : Coefficient(v, y)}
    BY <1>1 DEF Exponents, Coefficient
  <1> HIDE DEF size
  <1>4. x \in Exponents(v) <=> x < size /\ Coefficient(v, x)
    BY <1>2, <1>3
  <1> QED
    BY <1>4 DEF size

\* polyMul is the product modulo X^n - 1.
LEMMA PolyMulIsTimes ==
    ASSUME NEW v1 \in [0 .. vecN - 1 -> SUBSET Bit], NEW v2 \in [0 .. vecN - 1 -> SUBSET Bit]
    PROVE  LET whole == Times(Exponents(v1), Exponents(v2))
           IN  Exponents(polyMul(v1, v2)) = {k \in 0 .. n - 1 : (k \in whole) # (k + n \in whole)}
  <1> DEFINE p     == product(v1, v2, vecN)
             whole == Times(Exponents(v1), Exponents(v2))
             left  == Exponents(polyReduce(p))
             right == {k \in 0 .. n - 1 : (k \in whole) # (k + n \in whole)}
             size  == vecN * Width
  <1>1. vecN \in Nat \ {0} /\ Width \in Nat /\ Width > 0 /\ n \in Nat /\ size \in Nat /\ n <= size
    <2>1. vecN = (n \div Width) + 1 /\ (n \div Width) \in Nat /\ n % Width \in 1 .. Width - 1
          /\ n = (n \div Width) * Width + (n % Width) /\ Width \in Nat /\ Width > 0 /\ n \in Nat
      BY RingDimension
    <2> DEFINE q == n \div Width
               r == n % Width
    <2>2. vecN = q + 1 /\ q \in Nat /\ r \in 1 .. Width - 1 /\ n = q * Width + r
      BY <2>1
    <2> HIDE DEF q, r
    <2>3. (q + 1) * Width = q * Width + Width /\ q * Width \in Nat
      BY <2>1, <2>2, ProductNat
    <2> QED
      BY <2>1, <2>2, <2>3
  <1>2. p \in [0 .. 2 * vecN - 1 -> SUBSET Bit] /\ Exponents(p) = whole
    BY <1>1, ProductIsTimes
  <1>3. DOMAIN polyReduce(p) = 0 .. vecN - 1
    BY DEF polyReduce
  <1>4. DOMAIN p = 0 .. 2 * vecN - 1 /\ 2 * vecN \in Nat /\ (2 * vecN) * Width = 2 * size
    BY <1>1, <1>2
  <1> HIDE DEF p
  <1>5. \A x \in Nat : x \in whole <=> x < 2 * size /\ Coefficient(p, x)
    <2> DEFINE len == 2 * vecN
    <2>1. len \in Nat /\ DOMAIN p = 0 .. len - 1
      BY <1>4
    <2> HIDE DEF len
    <2>2. \A x \in Nat : x \in Exponents(p) <=> x < len * Width /\ Coefficient(p, x)
      BY <2>1, ExponentIsCoefficient
    <2> QED
      BY <1>2, <1>4, <2>2 DEF len
  <1>6. \A x \in Nat : x \in left <=> x < size /\ Coefficient(polyReduce(p), x)
    BY <1>1, <1>3, ExponentIsCoefficient
  <1> HIDE DEF whole, size, left
  <1>7. ASSUME NEW x \in Nat PROVE x \in left <=> x \in right
    <2>1. CASE x < n
      <3>1. x \in 0 .. vecN * Width - 1 /\ x + n \in Nat /\ x + n < 2 * size /\ x < 2 * size /\ x < size
        BY <1>1, <2>1 DEF size
      <3>2. Coefficient(polyReduce(p), x)
              <=> (x < n /\ Coefficient(p, x) # Coefficient(p, x + n))
        BY <1>2, <3>1, ReductionFolds
      <3>3. Coefficient(p, x) \in BOOLEAN /\ Coefficient(p, x + n) \in BOOLEAN
        BY DEF Coefficient
      <3>4. x \in whole <=> Coefficient(p, x)
        BY <1>5, <3>1
      <3>5. x + n \in whole <=> Coefficient(p, x + n)
        BY <1>5, <3>1
      <3>6. x \in left <=> Coefficient(p, x) # Coefficient(p, x + n)
        BY <1>6, <2>1, <3>1, <3>2
      <3>7. x \in right <=> ~(x \in whole <=> x + n \in whole)
        BY <1>1, <2>1
      <3> HIDE DEF right
      <3> QED
        BY <3>3, <3>4, <3>5, <3>6, <3>7
    <2>2. CASE ~(x < n)
      <3>1. x \notin right
        BY <1>1, <2>2
      <3>2. x < size => ~Coefficient(polyReduce(p), x)
        <4> SUFFICES ASSUME x < size PROVE ~Coefficient(polyReduce(p), x)
          OBVIOUS
        <4>1. x \in 0 .. vecN * Width - 1
          BY <1>1 DEF size
        <4> QED
          BY <1>2, <2>2, <4>1, ReductionFolds
      <3> QED
        BY <1>6, <3>1, <3>2
    <2> QED
      BY <2>1, <2>2
  <1>8. left \subseteq Nat
    BY <1>1 DEF left, Exponents
  <1>9. right \subseteq Nat
    BY <1>1
  <1> HIDE DEF right
  <1>10. left = right
    BY <1>7, <1>8, <1>9
  <1> QED
    BY <1>10 DEF left, right, whole, p, polyMul

\* karatsuba (gf2x.go) multiplies: whatever the size of the operands, even or odd at each
\* level of the recursion, with the product of the high halves written into the output,
\* the workspace shared by the levels, and words of any size, the output is the product.
THEOREM KaratsubaMultiplies == ProductSpec => []KaratsubaIsProduct
  <1>1. InitFactors => KaratsubaIsProduct
    BY ProductIsTimes DEF InitFactors, KaratsubaIsProduct
  <1>2. KaratsubaIsProduct /\ [UNCHANGED operands]_operands => KaratsubaIsProduct'
    BY DEF KaratsubaIsProduct, operands
  <1> QED
    BY <1>1, <1>2, PTL DEF ProductSpec

\* polyMul (gf2x.go) multiplies modulo X^n - 1 for every dimension n that validateParams
\* admits, also when its operands have bits at or above n, as a loaded key or ciphertext
\* can: coefficient k of the result is the sum of coefficients k and k + n of the product,
\* and no bit is set at or above n.
THEOREM PolyMulMultiplies == ProductSpec => []PolyMulIsModular
  <1>1. InitFactors => PolyMulIsModular
    BY PolyMulIsTimes DEF InitFactors, PolyMulIsModular
  <1>2. PolyMulIsModular /\ [UNCHANGED operands]_operands => PolyMulIsModular'
    BY DEF PolyMulIsModular, operands
  <1> QED
    BY <1>1, <1>2, PTL DEF ProductSpec

-----------------------------------------------------------------------------
(* The workspace.                                                          *)

\* The body of the recursive definition of used.
usedStep(f, k) ==
    IF k <= 1 THEN 0
    ELSE LET sizeL == (k + 1) \div 2 IN workspace(0, sizeL) + f[sizeL]

LEMMA UsedDependsBelow ==
    ASSUME NEW f, NEW g, NEW k \in Nat, AgreeBelow(f, g, k)
    PROVE  usedStep(f, k) = usedStep(g, k)
  <1>1. k > 1 => (k + 1) \div 2 \in Nat /\ 0 < (k + 1) \div 2 /\ (k + 1) \div 2 < k
    OBVIOUS
  <1> QED
    BY <1>1 DEF usedStep, AgreeBelow

UsedTable(f, m) == \A k \in Nat : k <= m => f[k] = usedStep(f, k)

\* As for karatsuba, there are tables, and they agree.
LEMMA UsedTableExists ==
    ASSUME NEW m \in Nat
    PROVE  \E f : UsedTable(f, m)
  <1> DEFINE P == {k \in Nat : \E f : UsedTable(f, k)}
  <1>1. ASSUME NEW k \in Nat, 0 .. k - 1 \subseteq P PROVE k \in P
    <2>1. PICK f : \A j \in Nat : j < k => f[j] = usedStep(f, j)
      <3>1. CASE k = 0
        BY <3>1
      <3>2. CASE k # 0
        <4>1. k - 1 \in P
          BY <1>1, <3>2
        <4> QED
          BY <4>1 DEF UsedTable
      <3> QED
        BY <3>1, <3>2
    <2> DEFINE g == [j \in 0 .. k |-> usedStep(f, j)]
    <2>2. ASSUME NEW j \in Nat, j <= k PROVE g[j] = usedStep(g, j)
      <3>1. g[j] = usedStep(f, j)
        BY <2>2
      <3>2. ASSUME NEW i \in Nat, 0 < i, i < j PROVE g[i] = f[i]
        <4>1. g[i] = usedStep(f, i)
          BY <2>2, <3>2
        <4> QED
          BY <2>1, <2>2, <3>2, <4>1
      <3> HIDE DEF g
      <3>3. AgreeBelow(f, g, j)
        BY <3>2 DEF AgreeBelow
      <3> QED
        BY <3>1, <3>3, UsedDependsBelow
    <2> HIDE DEF g
    <2> QED
      BY <2>2 DEF UsedTable
  <1>2. Inductive(P)
    <2> HIDE DEF P
    <2> QED
      BY <1>1 DEF Inductive
  <1>3. m \in P
    <2> HIDE DEF P
    <2> QED
      BY <1>2, EveryNatural
  <1> QED
    BY <1>3

LEMMA UsedTablesAgree ==
    ASSUME NEW f, NEW g, NEW m \in Nat, NEW l \in Nat, UsedTable(f, m), UsedTable(g, l),
           NEW k \in Nat, k <= m, k <= l
    PROVE  f[k] = g[k]
  <1> DEFINE P == {j \in Nat : j <= m /\ j <= l => f[j] = g[j]}
  <1>1. ASSUME NEW j \in Nat, 0 .. j - 1 \subseteq P PROVE j \in P
    <2> SUFFICES ASSUME j <= m, j <= l PROVE f[j] = g[j]
      OBVIOUS
    <2>1. ASSUME NEW i \in Nat, 0 < i, i < j PROVE f[i] = g[i]
      <3>1. i \in P /\ i <= m /\ i <= l
        BY <1>1, <2>1
      <3> QED
        BY <3>1
    <2>2. usedStep(f, j) = usedStep(g, j)
      BY <2>1, UsedDependsBelow DEF AgreeBelow
    <2> QED
      BY <2>2 DEF UsedTable
  <1>2. Inductive(P)
    <2> HIDE DEF P
    <2> QED
      BY <1>1 DEF Inductive
  <1>3. k \in P
    <2> HIDE DEF P
    <2> QED
      BY <1>2, EveryNatural
  <1> QED
    BY <1>3

\* used satisfies its recursive definition.
LEMMA UsedIs ==
    ASSUME NEW k \in Nat
    PROVE  used[k] = usedStep(used, k)
  <1> DEFINE table(j) == CHOOSE f : UsedTable(f, j)
             h == [j \in Nat |-> table(j)[j]]
  <1>1. \A j \in Nat : UsedTable(table(j), j)
    BY UsedTableExists
  <1> HIDE DEF table
  <1>2. ASSUME NEW j \in Nat PROVE h[j] = usedStep(h, j)
    <2>1. h[j] = usedStep(table(j), j)
      BY <1>1 DEF UsedTable
    <2>2. ASSUME NEW i \in Nat, 0 < i, i < j PROVE h[i] = table(j)[i]
      <3>1. UsedTable(table(i), i) /\ UsedTable(table(j), j) /\ i <= i /\ i <= j
        BY <1>1, <2>2
      <3>2. table(i)[i] = table(j)[i]
        BY <3>1, UsedTablesAgree
      <3> QED
        BY <3>2
    <2> HIDE DEF h
    <2>3. AgreeBelow(h, table(j), j)
      BY <2>2 DEF AgreeBelow
    <2> QED
      BY <2>1, <2>3, UsedDependsBelow
  <1>3. h = [j \in Nat |-> usedStep(h, j)]
    <2>1. h = [j \in Nat |-> h[j]]
      OBVIOUS
    <2> HIDE DEF h
    <2> QED
      BY <1>2, <2>1
  <1> HIDE DEF h
  <1>4. used = [j \in Nat |-> usedStep(used, j)]
    <2>1. used = CHOOSE f : f = [j \in Nat |-> usedStep(f, j)]
      BY DEF used, usedStep
    <2> QED
      BY <1>3, <2>1
  <1> QED
    BY <1>4

\* karatsuba uses less than eight words of workspace per word of its operands.
LEMMA UsedBound ==
    ASSUME NEW k \in Nat
    PROVE  used[k] \in Nat /\ used[k] <= 8 * k /\ (k > 0 => used[k] <= 8 * k - 8)
  <1> DEFINE P == {j \in Nat : used[j] \in Nat /\ used[j] <= 8 * j /\ (j > 0 => used[j] <= 8 * j - 8)}
  <1>1. ASSUME NEW j \in Nat, 0 .. j - 1 \subseteq P PROVE j \in P
    <2>1. CASE j <= 1
      <3>1. used[j] = 0
        BY <2>1, UsedIs DEF usedStep
      <3> QED
        BY <3>1
    <2>2. CASE j > 1
      <3> DEFINE L == (j + 1) \div 2
      <3>1. Halves(j, L, j \div 2)
        BY <2>2, HalvesOf
      <3>2. used[j] = workspace(0, L) + used[L]
        BY <2>2, UsedIs DEF usedStep
      <3> HIDE DEF L
      <3>3. L \in Nat /\ L > 0 /\ L < j /\ 12 * L <= 8 * j
        BY <3>1 DEF Halves
      <3>4. L \in P
        BY <1>1, <3>3
      <3>5. used[j] = 4 * L + used[L] /\ used[L] \in Nat /\ used[L] <= 8 * L - 8
        BY <3>2, <3>3, <3>4 DEF workspace
      <3> QED
        BY <3>3, <3>5
    <2> QED
      BY <2>1, <2>2
  <1>2. Inductive(P)
    <2> HIDE DEF P
    <2> QED
      BY <1>1 DEF Inductive
  <1>3. k \in P
    <2> HIDE DEF P
    <2> QED
      BY <1>2, EveryNatural
  <1> QED
    BY <1>3

\* The workspace that polyMul allocates (vecN << 3 words, gf2x.go) is enough for
\* karatsuba on operands of every size, so no slice expression of it is out of range.
THEOREM WorkspaceIsEnough == ProductSpec => []WorkspaceSuffices
  <1>1. WorkspaceSuffices
    BY SizesAssumption, UsedBound DEF WorkspaceSuffices, stackWords
  <1> QED
    BY <1>1, PTL

=============================================================================
