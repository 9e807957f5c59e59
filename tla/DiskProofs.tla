----------------------------- MODULE DiskProofs -----------------------------
(***************************************************************************)
(* Proofs about the commands that read a disk: that partitions lists the   *)
(* chains of EBRs, and about the search for deleted files, that numbers,   *)
(* dates and places are read as they were written, for all years FAT32 has *)
(* and bytes of any size, and that the scans of a FAT32 directory and of   *)
(* an NTFS image list what they should.                                    *)
(***************************************************************************)
EXTENDS DeletedFiles, PartitionTable, WellFoundedInduction, SequenceTheorems,
        FiniteSetTheorems, TLAPS

(* The rest of the state of the partitions command.                        *)
VARIABLES fd, walk, start, address, this_ebr, index, misses

Table == INSTANCE Partitions WITH pc <- walk, faults <- misses

-----------------------------------------------------------------------------
(* Numbers and dates.                                                      *)

(* The upper part of a word is what stands before its nine lower bits.     *)
LEMMA UpperPart ==
    ASSUME NEW low \in 0 .. 511, NEW high \in Nat
    PROVE  (low + 512 * high) \div 512 = high
OBVIOUS

(* printDate takes apart what the format put together: the parts do not    *)
(* overlap, and the masks 31, 480 and 65042 cut where they meet.           *)
LEMMA DateRoundTrip ==
    ASSUME NEW d \in Date
    PROVE  printDate(DateWord(d)) = d
<1> DEFINE w == DateWord(d)
<1>1. /\ d.day \in 1 .. 31 /\ d.month \in 1 .. 12 /\ d.year - 1980 \in 0 .. 127
      /\ d = [day |-> d.day, month |-> d.month, year |-> d.year]
      /\ d.year \in Int
  <2>1. /\ d.day \in 1 .. 31 /\ d.month \in 1 .. 12
        /\ d.year \in {1980 + y : y \in Years}
        /\ d = [day |-> d.day, month |-> d.month, year |-> d.year]
    BY DEF Date
  <2>2. PICK y \in Years : d.year = 1980 + y
    BY <2>1
  <2>3. y \in 0 .. 127
    BY <2>2, YearsAreNat
  <2> QED
    BY <2>1, <2>2, <2>3
<1>2. w = d.day + 32 * (d.month + 16 * (d.year - 1980))
  BY <1>1 DEF DateWord
<1>3. w \in Nat
  BY <1>1, <1>2
<1>4. w % 32 = d.day /\ w \div 32 = d.month + 16 * (d.year - 1980)
  BY <1>1, <1>2, <1>3
<1>5. (w \div 32) % 16 = d.month
  BY <1>1, <1>4
<1>6. w \div 512 = d.year - 1980
  <2> DEFINE low == d.day + 32 * d.month
             high == d.year - 1980
  <2>1. low \in 0 .. 511 /\ high \in Nat
    BY <1>1
  <2>2. w = low + 512 * high
    BY <1>1, <1>2
  <2> HIDE DEF w, low, high
  <2>3. (low + 512 * high) \div 512 = high
    BY <2>1, UpperPart
  <2>4. w \div 512 = high
    BY <2>2, <2>3
  <2> QED
    BY <2>4 DEF high
<1>7. 1980 + w \div 512 = d.year
  BY <1>1, <1>6
<1>8. printDate(w) = [day |-> w % 32, month |-> (w \div 32) % 16, year |-> 1980 + w \div 512]
  BY DEF printDate
<1> HIDE DEF w
<1>9. printDate(w) = d
  BY <1>1, <1>4, <1>5, <1>7, <1>8
<1> QED
  BY <1>9 DEF w

(* Whatever date was written, it is the date that is printed               *)
(* (deletedFilesFat32.cpp:184-194).                                        *)
THEOREM DatesRight == DatesRoundTrip
BY DateRoundTrip DEF DatesRoundTrip

(* A set of natural numbers has a least one.                               *)
LEMMA Least ==
    ASSUME NEW S \in SUBSET Nat, S # {}
    PROVE  \E m \in S : \A k \in S : m <= k
  <1>1. PICK m \in S : \A k \in S : <<k, m>> \notin OpToRel(<, Nat)
    BY NatLessThanWellFounded, WFMin
  <1>2. \A k \in S : ~(k < m)
    BY <1>1 DEF OpToRel
  <1>3. m \in Nat /\ \A k \in S : k \in Nat
    OBVIOUS
  <1>4. \A k \in S : m <= k
    BY <1>2, <1>3
  <1> QED
    BY <1>4

LEMMA Products ==
    /\ \A a, b \in Int : a * b \in Int /\ a * b = b * a
    /\ \A a, b, c \in Int : (a + b) * c = a * c + b * c
    /\ \A a, b, c \in Int : (a * b) * c = a * (b * c)
    /\ \A a \in Int : 0 * a = 0 /\ 1 * a = a /\ 2 * a = a + a
    /\ \A a, b \in Nat : a * b \in Nat
  <1>1. \A a, b \in Int : a * b \in Int /\ a * b = b * a
    OBVIOUS
  <1>2. \A a, b, c \in Int : (a + b) * c = a * c + b * c
    OBVIOUS
  <1>3. \A a, b, c \in Int : (a * b) * c = a * (b * c)
    OBVIOUS
  <1>4. \A a \in Int : 0 * a = 0 /\ 1 * a = a /\ 2 * a = a + a
    OBVIOUS
  <1>5. \A a, b \in Nat : a * b \in Nat
    OBVIOUS
  <1> QED
    BY <1>1, <1>2, <1>3, <1>4, <1>5

(* A digit more.                                                           *)
LEMMA DigitMore ==
    ASSUME NEW M \in Nat, NEW B \in Nat, NEW x \in 0 .. M - 1, NEW c \in 0 .. B - 1
    PROVE  x * B + c \in 0 .. M * B - 1
  <1>1. PICK d \in Nat : M = x + (1 + d)
    <2>1. M - 1 - x \in Nat /\ M = x + (1 + (M - 1 - x))
      OBVIOUS
    <2> QED
      BY <2>1
  <1>2. M * B = x * B + (1 + d) * B
    BY <1>1
  <1>3. (1 + d) * B = B + d * B
    OBVIOUS
  <1>4. x * B \in Nat /\ d * B \in Nat /\ M * B \in Nat
    OBVIOUS
  <1>5. PICK p \in Nat, q \in Nat, r \in Nat : p = x * B /\ q = d * B /\ r = M * B
    BY <1>4
  <1>6. r = p + B + q
    BY <1>2, <1>3, <1>5
  <1>7. p + c \in 0 .. r - 1
    BY <1>6
  <1> QED
    BY <1>5, <1>7

LEMMA Small == \A v, m \in Nat : v < m => v % m = v
  OBVIOUS

(* Value is what its definition says: there is such a function.            *)
LEMMA ValueIs ==
    ASSUME NEW b, NEW n \in Nat
    PROVE  \E top : /\ top[0] = 0 /\ Value(b, n) = top[n]
                    /\ \A k \in 1 .. n : top[k] = top[k - 1] * Byte + b[n - k]
  <1> DEFINE Upto(m, g) ==
               g = [k \in 0 .. m |-> IF k = 0 THEN 0 ELSE g[k - 1] * Byte + b[n - k]]
             Bad == {m \in Nat : ~\E g : Upto(m, g)}
  <1>1. Bad = {}
    <2> SUFFICES ASSUME Bad # {} PROVE FALSE
      OBVIOUS
    <2>1. PICK m \in Bad : \A k \in Bad : m <= k
      <3>1. Bad \in SUBSET Nat
        OBVIOUS
      <3> HIDE DEF Bad
      <3> QED
        BY <3>1, Least
    <2>2. m # 0
      <3> DEFINE g == [k \in 0 .. 0 |-> 0]
      <3>1. \A k \in 0 .. 0 : k = 0
        OBVIOUS
      <3>2. g = [k \in 0 .. 0 |-> IF k = 0 THEN 0 ELSE g[k - 1] * Byte + b[n - k]]
        BY <3>1
      <3>3. \E f : Upto(0, f)
        BY <3>2
      <3> HIDE DEF Upto
      <3> QED
        BY <2>1, <3>3
    <2>3. m - 1 \in Nat /\ m - 1 \notin Bad /\ m \in Nat
      <3>1. m \in Nat
        OBVIOUS
      <3>2. m - 1 \in Nat /\ ~(m <= m - 1)
        BY <2>2, <3>1
      <3> HIDE DEF Bad
      <3> QED
        BY <2>1, <3>1, <3>2
    <2>4. PICK f : Upto(m - 1, f)
      <3> HIDE DEF Upto
      <3> QED
        BY <2>3
    <2> DEFINE g == [k \in 0 .. m |-> IF k = m THEN f[m - 1] * Byte + b[n - m] ELSE f[k]]
    <2>5. \A k \in 0 .. m - 1 : f[k] = IF k = 0 THEN 0 ELSE f[k - 1] * Byte + b[n - k]
      BY <2>4
    <2>6. \A k \in 0 .. m : g[k] = IF k = 0 THEN 0 ELSE g[k - 1] * Byte + b[n - k]
      <3> TAKE k \in 0 .. m
      <3>1. CASE k = m
        <4>0. m \in 0 .. m /\ m - 1 \in 0 .. m /\ m - 1 # m
          BY <2>2, <2>3
        <4>1. g[m] = f[m - 1] * Byte + b[n - m] /\ g[m - 1] = f[m - 1]
          BY <4>0
        <4> QED
          BY <2>2, <3>1, <4>1
      <3>2. CASE k # m
        <4>1. k \in 0 .. m - 1
          BY <2>3, <3>2
        <4>2. g[k] = f[k] /\ (k # 0 => g[k - 1] = f[k - 1])
          BY <2>3, <4>1
        <4> QED
          BY <2>5, <4>1, <4>2
      <3> QED
        BY <3>1, <3>2
    <2>7. DOMAIN g = 0 .. m /\ g = [k \in DOMAIN g |-> g[k]]
      OBVIOUS
    <2> HIDE DEF g
    <2>8. Upto(m, g)
      BY <2>6, <2>7
    <2> QED
      BY <2>1, <2>8
  <1>2. PICK f : Upto(n, f)
    <2>1. n \notin Bad
      BY <1>1
    <2> HIDE DEF Upto
    <2> QED
      BY <2>1
  <1>3. PICK top : Upto(n, top) /\ Value(b, n) = top[n]
    <2>1. Value(b, n) = (CHOOSE g : Upto(n, g))[n]
      BY DEF Value
    <2> HIDE DEF Upto
    <2>2. Upto(n, CHOOSE g : Upto(n, g))
      BY <1>2
    <2> QED
      BY <2>1, <2>2
  <1>4. \A k \in 0 .. n : top[k] = IF k = 0 THEN 0 ELSE top[k - 1] * Byte + b[n - k]
    BY <1>3
  <1>5. 0 \in 0 .. n /\ \A k \in 1 .. n : k \in 0 .. n /\ k # 0
    OBVIOUS
  <1>6. top[0] = 0 /\ \A k \in 1 .. n : top[k] = top[k - 1] * Byte + b[n - k]
    BY <1>4, <1>5
  <1> HIDE DEF Upto
  <1> QED
    BY <1>3, <1>6

LEMMA ValueOf ==
    ASSUME NEW b
    PROVE  /\ b[1] \in Int => Value(b, 2) = b[1] * Byte + b[0]
           /\ b[3] \in Int =>
                 Value(b, 4) = ((b[3] * Byte + b[2]) * Byte + b[1]) * Byte + b[0]
  <1>1. Byte \in Nat
    BY ByteIsEven
  <1>2. ASSUME b[1] \in Int PROVE Value(b, 2) = b[1] * Byte + b[0]
    <2>1. PICK top : /\ top[0] = 0 /\ Value(b, 2) = top[2]
                     /\ \A k \in 1 .. 2 : top[k] = top[k - 1] * Byte + b[2 - k]
      <3>1. 2 \in Nat
        OBVIOUS
      <3> QED
        BY <3>1, ValueIs
    <2>2. 1 \in 1 .. 2 /\ 2 \in 1 .. 2 /\ 1 - 1 = 0 /\ 2 - 1 = 1 /\ 2 - 2 = 0
      OBVIOUS
    <2>3. top[1] = top[0] * Byte + b[1] /\ top[2] = top[1] * Byte + b[0]
      BY <2>1, <2>2
    <2>4. 0 * Byte + b[1] = b[1]
      BY <1>1, <1>2
    <2> QED
      BY <2>1, <2>3, <2>4
  <1>3. ASSUME b[3] \in Int
        PROVE  Value(b, 4) = ((b[3] * Byte + b[2]) * Byte + b[1]) * Byte + b[0]
    <2>1. PICK top : /\ top[0] = 0 /\ Value(b, 4) = top[4]
                     /\ \A k \in 1 .. 4 : top[k] = top[k - 1] * Byte + b[4 - k]
      <3>1. 4 \in Nat
        OBVIOUS
      <3> QED
        BY <3>1, ValueIs
    <2>2. /\ 1 \in 1 .. 4 /\ 2 \in 1 .. 4 /\ 3 \in 1 .. 4 /\ 4 \in 1 .. 4
          /\ 1 - 1 = 0 /\ 2 - 1 = 1 /\ 3 - 1 = 2 /\ 4 - 1 = 3
          /\ 4 - 2 = 2 /\ 4 - 3 = 1 /\ 4 - 4 = 0
      OBVIOUS
    <2>3. /\ top[1] = top[0] * Byte + b[3] /\ top[2] = top[1] * Byte + b[2]
          /\ top[3] = top[2] * Byte + b[1] /\ top[4] = top[3] * Byte + b[0]
      BY <2>1, <2>2
    <2>4. 0 * Byte + b[3] = b[3]
      BY <1>1, <1>3
    <2> QED
      BY <2>1, <2>3, <2>4
  <1> QED
    BY <1>2, <1>3

(* The sum the code makes is the value, and how large it is.               *)
LEMMA Sums ==
    ASSUME NEW a \in 0 .. Byte - 1, NEW b \in 0 .. Byte - 1,
           NEW c \in 0 .. Byte - 1, NEW d \in 0 .. Byte - 1
    PROVE  LET low == a + b * Byte + c * Word
           IN  /\ low \in 0 .. Word * Byte - 1
               /\ low + d * (Word * Byte) = ((d * Byte + c) * Byte + b) * Byte + a
               /\ low + d * (Word * Byte) \in 0 .. DWord - 1
               /\ d * (Word * Byte) \in 0 .. DWord - 1
               /\ IF 2 * d < Byte THEN 2 * (low + d * (Word * Byte)) < DWord
                                       /\ 2 * (d * (Word * Byte)) < DWord
                  ELSE 2 * (low + d * (Word * Byte)) >= DWord
  <1>1. PICK B \in Nat : B = Byte
    BY ByteIsEven
  <1>2. PICK h \in Nat : B = 2 * h
    BY <1>1, ByteIsEven
  <1>3. B > 0 /\ {a, b, c, d} \subseteq 0 .. B - 1 /\ {a, b, c, d} \subseteq Int
    BY <1>1
  <1>4. PICK w \in Nat : w = B * B
    BY Products
  <1>5. PICK t \in Nat : t = w * B
    BY Products
  <1>6. PICK D \in Nat : D = t * B
    BY Products
  <1>7. Word = w /\ Word * Byte = t /\ DWord = D
    <2>1. w * w = w * (B * B) /\ (w * B) * B = w * (B * B)
      BY <1>4, Products
    <2> QED
      BY <1>1, <1>4, <1>5, <1>6, <2>1 DEF Word, DWord
  <1>8. b * B + a \in 0 .. w - 1
    BY <1>3, <1>4, DigitMore
  <1>9. (c * B + b) * B + a \in 0 .. t - 1
    <2>1. c * B + b \in 0 .. w - 1
      BY <1>3, <1>4, DigitMore
    <2> QED
      BY <1>3, <1>5, <2>1, DigitMore
  <1>10. ((d * B + c) * B + b) * B + a \in 0 .. D - 1
    <2>1. d * B + c \in 0 .. w - 1
      BY <1>3, <1>4, DigitMore
    <2>2. (d * B + c) * B + b \in 0 .. t - 1
      BY <1>3, <1>5, <2>1, DigitMore
    <2> QED
      BY <1>3, <1>6, <2>2, DigitMore
  <1>11. (c * B + b) * B + a = a + b * B + c * w
    <2>1. c * B \in Int /\ b * B \in Int /\ c * w \in Int
      BY <1>3, Products
    <2>2. (c * B + b) * B = (c * B) * B + b * B /\ (c * B) * B = c * w
      BY <1>3, <1>4, <2>1, Products
    <2> QED
      BY <1>3, <2>1, <2>2
  <1>12. ((d * B + c) * B + b) * B + a = (a + b * B + c * w) + d * t
    <2>1. d * B \in Int /\ c * B \in Int /\ b * B \in Int /\ c * w \in Int /\ d * t \in Int
          /\ d * w \in Int
      BY <1>3, Products
    <2>2. (d * B + c) * B = d * w + c * B
      <3>1. (d * B + c) * B = (d * B) * B + c * B /\ (d * B) * B = d * w
        BY <1>3, <1>4, <2>1, Products
      <3> QED
        BY <3>1
    <2>3. ((d * w + c * B) + b) * B = ((d * w) * B + (c * B) * B) + b * B
      <3>1. d * w + c * B \in Int
        BY <2>1
      <3>2. /\ ((d * w + c * B) + b) * B = (d * w + c * B) * B + b * B
            /\ (d * w + c * B) * B = (d * w) * B + (c * B) * B
        BY <1>3, <2>1, <3>1, Products
      <3> QED
        BY <3>2
    <2>4. (d * w) * B = d * t /\ (c * B) * B = c * w
      BY <1>3, <1>4, <1>5, Products
    <2> QED
      BY <1>3, <2>1, <2>2, <2>3, <2>4
  <1>13. PICK H \in Nat : H = h * t
    BY Products
  <1>14. D = 2 * H
    <2>1. D = B * t /\ (2 * h) * t = 2 * (h * t)
      BY <1>6, Products
    <2> QED
      BY <1>2, <1>13, <2>1
  <1>15. PICK low \in 0 .. t - 1 : low = a + b * B + c * w
    BY <1>9, <1>11
  <1>16. PICK e \in Nat : e = d * t
    BY <1>3, Products
  <1>17. CASE 2 * d < B
    <2>1. PICK f \in Nat : h = d + (1 + f)
      <3>1. h - d - 1 \in Nat /\ h = d + (1 + (h - d - 1))
        BY <1>2, <1>3, <1>17
      <3> QED
        BY <3>1
    <2>2. h * t = d * t + (1 + f) * t /\ (1 + f) * t = 1 * t + f * t /\ 1 * t = t
      BY <1>3, <2>1, Products
    <2>3. PICK g \in Nat : g = f * t
      BY Products
    <2>4. H = e + t + g
      BY <1>13, <1>16, <2>2, <2>3
    <2> QED
      BY <1>1, <1>7, <1>9, <1>10, <1>11, <1>12, <1>14, <1>15, <1>16, <1>17, <2>4
  <1>18. CASE ~(2 * d < B)
    <2>1. PICK f \in Nat : d = h + f
      <3>1. d - h \in Nat /\ d = h + (d - h)
        BY <1>2, <1>3, <1>18
      <3> QED
        BY <3>1
    <2>2. d * t = h * t + f * t
      BY <2>1, Products
    <2>3. PICK g \in Nat : g = f * t
      BY Products
    <2>4. e = H + g
      BY <1>13, <1>16, <2>2, <2>3
    <2> QED
      BY <1>1, <1>7, <1>9, <1>10, <1>11, <1>12, <1>14, <1>15, <1>16, <1>18, <2>4
  <1> QED
    BY <1>17, <1>18

LEMMA BytesOf ==
    ASSUME NEW n \in Nat, NEW b \in Bytes(n), NEW i \in 0 .. n - 1
    PROVE  b[i] \in 0 .. Byte - 1
  BY DEF Bytes

(* Of a number that does not fit, an int has the one below 0.              *)
LEMMA AsIntOf ==
    ASSUME NEW v \in 0 .. DWord - 1
    PROVE  IF 2 * v < DWord THEN AsInt(v) = v ELSE AsInt(v) < 0
  <1>1. PICK D \in Nat : D = DWord
    <2>1. Byte \in Nat
      BY ByteIsEven
    <2>2. Word \in Nat
      BY <2>1, Products DEF Word
    <2>3. DWord \in Nat
      BY <2>2, Products DEF DWord
    <2> QED
      BY <2>3
  <1>2. v % D = v
    <2>1. v \in Nat /\ v < D
      BY <1>1
    <2> QED
      BY <2>1, Small
  <1>3. AsInt(v) = IF 2 * v >= D THEN v - D ELSE v
    BY <1>1, <1>2 DEF AsInt
  <1> QED
    BY <1>1, <1>3

(* The sum the code makes of four bytes, as an int and as part of a long   *)
(* long, is the number they stand for if that fits an int.                 *)
LEMMA DWordOf ==
    ASSUME NEW n \in {4, 8}, NEW b \in Bytes(n)
    PROVE  /\ IF 2 * b[3] < Byte THEN readDWord(b) = Value(b, 4) ELSE readDWord(b) < 0
           /\ 2 * b[3] < Byte =>
                 b[0] + b[1] * Byte + b[2] * Word + AsInt(b[3] * (Word * Byte)) = Value(b, 4)
           /\ Value(b, 4) \in Nat
  <1>1. b[0] \in 0 .. Byte - 1 /\ b[1] \in 0 .. Byte - 1 /\ b[2] \in 0 .. Byte - 1
        /\ b[3] \in 0 .. Byte - 1
    BY BytesOf
  <1>2. PICK p \in 0 .. Byte - 1, q \in 0 .. Byte - 1, r \in 0 .. Byte - 1, s \in 0 .. Byte - 1 :
           p = b[0] /\ q = b[1] /\ r = b[2] /\ s = b[3]
    BY <1>1
  <1>3. Byte \in Nat /\ s \in Int
    BY ByteIsEven
  <1>4. Value(b, 4) = ((s * Byte + r) * Byte + q) * Byte + p
    BY <1>2, <1>3, ValueOf
  <1> DEFINE low == p + q * Byte + r * Word
             up  == s * (Word * Byte)
  <1>5. /\ low + up = Value(b, 4)
        /\ low + up \in 0 .. DWord - 1 /\ up \in 0 .. DWord - 1
        /\ IF 2 * s < Byte THEN 2 * (low + up) < DWord /\ 2 * up < DWord
           ELSE 2 * (low + up) >= DWord
    BY <1>4, Sums
  <1>6. readDWord(b) = AsInt(low + up)
    BY <1>2 DEF readDWord
  <1>7. b[0] + b[1] * Byte + b[2] * Word + AsInt(b[3] * (Word * Byte)) = low + AsInt(up)
    BY <1>2
  <1> HIDE DEF low, up
  <1>8. PICK v \in 0 .. DWord - 1 : v = low + up
    BY <1>5
  <1>9. IF 2 * v < DWord THEN AsInt(v) = v ELSE AsInt(v) < 0
    BY AsIntOf
  <1>10. PICK u \in 0 .. DWord - 1 : u = up
    BY <1>5
  <1>11. IF 2 * u < DWord THEN AsInt(u) = u ELSE AsInt(u) < 0
    BY AsIntOf
  <1>12. DWord \in Nat
    BY <1>3, Products DEF Word, DWord
  <1>13. v \in Nat /\ u \in Nat /\ (2 * v >= DWord => ~(2 * v < DWord))
    BY <1>12
  <1>14. IF 2 * s < Byte THEN readDWord(b) = Value(b, 4) ELSE readDWord(b) < 0
    BY <1>5, <1>6, <1>8, <1>9, <1>13
  <1>15. 2 * s < Byte => low + AsInt(up) = Value(b, 4)
    BY <1>5, <1>10, <1>11
  <1>16. Value(b, 4) \in Nat
    BY <1>5, <1>8, <1>13
  <1> QED
    BY <1>2, <1>7, <1>14, <1>15, <1>16

LEMMA LongLongOf ==
    ASSUME NEW b \in Bytes(8), \A i \in 4 .. 7 : b[i] = 0, 2 * b[3] < Byte
    PROVE  readLongLong(b) = {Value(b, 4)}
  <1>1. Byte \in Nat /\ Byte > 0
    BY ByteIsEven
  <1>2. Word \in Nat /\ Word * Byte \in Nat
    BY <1>1, Products DEF Word
  <1>3. b[4] = 0 /\ b[5] = 0 /\ b[6] = 0 /\ b[7] = 0
    OBVIOUS
  <1>4. 0 * Byte = 0 /\ 0 * Word = 0 /\ 0 * (Word * Byte) = 0
    BY <1>1, <1>2, Products
  <1>5. AsInt(0) = 0
    <2>1. DWord \in Nat /\ DWord > 0
      <3>1. PICK B \in Nat : B = Byte /\ B > 0
        BY <1>1
      <3>2. B * B > 0 /\ B * B \in Nat
        <4>1. 0 \in 0 .. B - 1
          BY <3>1
        <4>2. 0 * B + 0 \in 0 .. B * B - 1
          BY <3>1, <4>1, DigitMore
        <4>3. B * B \in Nat /\ 0 * B + 0 = 0
          BY Products
        <4> QED
          BY <4>2, <4>3
      <3>3. PICK W \in Nat : W = B * B /\ W > 0
        BY <3>2
      <3>4. W * W > 0 /\ W * W \in Nat
        <4>1. 0 \in 0 .. W - 1
          BY <3>3
        <4>2. 0 * W + 0 \in 0 .. W * W - 1
          BY <3>3, <4>1, DigitMore
        <4>3. W * W \in Nat /\ 0 * W + 0 = 0
          BY Products
        <4> QED
          BY <4>2, <4>3
      <3> QED
        BY <3>1, <3>3, <3>4 DEF Word, DWord
    <2>2. 0 \in 0 .. DWord - 1 /\ 2 * 0 < DWord
      BY <2>1
    <2> QED
      BY <2>2, AsIntOf
  <1>6. b[4] + b[5] * Byte + b[6] * Word + AsInt(b[7] * (Word * Byte)) = 0
    BY <1>3, <1>4, <1>5
  <1>7. 8 \in {4, 8}
    OBVIOUS
  <1>8. /\ b[0] + b[1] * Byte + b[2] * Word + AsInt(b[3] * (Word * Byte)) = Value(b, 4)
        /\ Value(b, 4) \in Nat
    BY <1>7, DWordOf
  <1>9. readLongLong(b) = {Value(b, 4), Value(b, 4) + 0}
    BY <1>6, <1>8 DEF readLongLong
  <1> QED
    BY <1>8, <1>9

(* The bytes of which one is not 0.                                        *)
LEMMA SparseOf ==
    ASSUME NEW n \in Nat, NEW top \in 0 .. n - 1, NEW b \in Sparse(n, top)
    PROVE  /\ b \in Bytes(n) /\ (n > 3 => 2 * b[3] < Byte)
           /\ \A i \in 0 .. n - 1 : i > top => b[i] = 0
  <1>1. PICK k \in 0 .. top, v \in 0 .. Byte - 1 : b = [i \in 0 .. n - 1 |-> IF i = k THEN v ELSE 0]
    BY DEF Sparse
  <1>2. 0 \in 0 .. Byte - 1
    BY ByteIsEven
  <1>3. b \in Bytes(n)
    BY <1>1, <1>2 DEF Bytes
  <1>4. \A i \in 0 .. n - 1 : i > top => b[i] = 0
    BY <1>1
  <1> QED
    BY <1>3, <1>4 DEF Sparse

LEMMA WordOf ==
    ASSUME NEW b \in Bytes(2)
    PROVE  readWord(b) = Value(b, 2) /\ readWord(b) \in Nat
  <1>1. b[0] \in 0 .. Byte - 1 /\ b[1] \in 0 .. Byte - 1 /\ Byte \in Nat
    BY BytesOf, ByteIsEven
  <1>2. b[1] * Byte \in Nat /\ b[0] \in Nat /\ b[1] \in Int
    BY <1>1, Products
  <1>3. Value(b, 2) = b[1] * Byte + b[0]
    BY <1>2, ValueOf
  <1> QED
    BY <1>2, <1>3 DEF readWord

(* The root directory of FAT32 and the MFT of NTFS are read from where the *)
(* format puts them for every boot sector whose sector and cluster numbers *)
(* fit an int, and every number of values of a byte                        *)
(* (deletedFilesFat32.cpp:70-87, deletedFilesNtfs.cpp:91-143).             *)
THEOREM PlacesRight ==
    /\ \A v \in BPB(Bytes(2), FitsInt(4)) : RootIsRight(v)
    /\ \A w \in Bytes(2), c \in 0 .. Byte - 1, m \in FitsInt(8) : MftIsRight(w, c, m)
    /\ PlacesAreRight
  <1>1. ASSUME NEW v \in BPB(Bytes(2), FitsInt(4)), Value(v.rootClusterNumber, 4) >= 2
        PROVE  getRootDirLocation(v) =
                 (Value(v.reservedSectors, 2) + v.numFats * Value(v.sectorsPerFat, 4))
                    * Value(v.bytesPerSector, 2)
                 + (Value(v.rootClusterNumber, 4) - 2)
                    * (v.sectorsPerCluster * Value(v.bytesPerSector, 2))
    <2>1. /\ v.reservedSectors \in Bytes(2) /\ v.numFats \in Nat
          /\ v.sectorsPerFat \in FitsInt(4) /\ v.rootClusterNumber \in FitsInt(4)
          /\ v.sectorsPerCluster \in Nat /\ v.bytesPerSector \in Bytes(2)
      BY DEF BPB
    <2>2. /\ v.reservedSectors \in Bytes(2) /\ v.bytesPerSector \in Bytes(2)
      BY <2>1
    <2>3. /\ v.sectorsPerFat \in Bytes(4) /\ 2 * v.sectorsPerFat[3] < Byte
          /\ v.rootClusterNumber \in Bytes(4) /\ 2 * v.rootClusterNumber[3] < Byte
      BY <2>1 DEF FitsInt
    <2>4. PICK r \in Nat, w \in Nat :
             /\ r = readWord(v.reservedSectors) /\ r = Value(v.reservedSectors, 2)
             /\ w = readWord(v.bytesPerSector) /\ w = Value(v.bytesPerSector, 2)
      BY <2>2, WordOf
    <2>5. PICK s \in Nat, n \in Nat :
             /\ s = readDWord(v.sectorsPerFat) /\ s = Value(v.sectorsPerFat, 4)
             /\ n = readDWord(v.rootClusterNumber) /\ n = Value(v.rootClusterNumber, 4)
      <3>1. 4 \in {4, 8}
        OBVIOUS
      <3> QED
        BY <2>3, <3>1, DWordOf
    <2>6. PICK f \in Nat, c \in Nat : f = v.numFats /\ c = v.sectorsPerCluster
      BY <2>1
    <2>7. PICK m \in Int : m = n - 2
      OBVIOUS
    <2>8. getRootDirLocation(v) = (r + s * f + m * c) * w
      BY <2>4, <2>5, <2>6, <2>7 DEF getRootDirLocation
    <2>9. (r + s * f + m * c) * w = (r + f * s) * w + m * (c * w)
      <3>1. s * f \in Int /\ m * c \in Int /\ s * f = f * s /\ r + f * s \in Int
        BY Products
      <3>2. ((r + f * s) + m * c) * w = (r + f * s) * w + (m * c) * w
        BY <3>1, Products
      <3>3. (m * c) * w = m * (c * w)
        BY Products
      <3> QED
        BY <3>1, <3>2, <3>3
    <2> QED
      BY <2>4, <2>5, <2>6, <2>7, <2>8, <2>9
  <1>2. ASSUME NEW w \in Bytes(2), NEW c \in 0 .. Byte - 1, NEW m \in FitsInt(8)
        PROVE  getMftOffset(w, c, m) = {Value(m, 4) * (Value(w, 2) * c)}
    <2>1. readWord(w) = Value(w, 2)
      BY WordOf
    <2>2. m \in Bytes(8) /\ 2 * m[3] < Byte /\ \A i \in 4 .. 7 : m[i] = 0
      BY DEF FitsInt
    <2>3. readLongLong(m) = {Value(m, 4)}
      BY <2>2, LongLongOf
    <2> QED
      BY <2>1, <2>3 DEF getMftOffset
  <1>3. /\ Sparse(2, 1) \subseteq Bytes(2)
        /\ Sparse(4, 3) \subseteq FitsInt(4) /\ Sparse(8, 3) \subseteq FitsInt(8)
    <2>1. Sparse(2, 1) \subseteq Bytes(2)
      BY SparseOf
    <2>2. ASSUME NEW n \in {4, 8}, NEW b \in Sparse(n, 3)
          PROVE  b \in FitsInt(n)
      <3>1. n \in Nat /\ n > 3 /\ 3 \in 0 .. n - 1
        OBVIOUS
      <3>2. \A i \in 4 .. n - 1 : i \in 0 .. n - 1 /\ i > 3
        OBVIOUS
      <3>3. b \in Bytes(n) /\ 2 * b[3] < Byte /\ \A i \in 0 .. n - 1 : i > 3 => b[i] = 0
        BY <3>1, SparseOf
      <3> QED
        BY <3>2, <3>3 DEF FitsInt
    <2> QED
      BY <2>1, <2>2
  <1>4. BPB(Sparse(2, 1), Sparse(4, 3)) \subseteq BPB(Bytes(2), FitsInt(4))
    BY <1>3 DEF BPB
  <1>5. \A v \in BPB(Bytes(2), FitsInt(4)) : RootIsRight(v)
    BY <1>1 DEF RootIsRight
  <1>6. \A w \in Bytes(2), c \in 0 .. Byte - 1, m \in FitsInt(8) : MftIsRight(w, c, m)
    BY <1>2 DEF MftIsRight
  <1> QED
    BY <1>3, <1>4, <1>5, <1>6 DEF PlacesAreRight

(* What four bytes stand for is read as it was written if it fits an int,  *)
(* and is never taken for a number that does (deletedFiles.cpp:19-32).     *)
THEOREM NumbersRight == DWordsRoundTrip /\ SmallLongLongsRoundTrip
  <1>1. 4 \in {4, 8}
    OBVIOUS
  <1>2. DWordsRoundTrip
    BY <1>1, DWordOf DEF DWordsRoundTrip
  <1>3. SmallLongLongsRoundTrip
    BY LongLongOf DEF SmallLongLongsRoundTrip
  <1> QED
    BY <1>2, <1>3

-----------------------------------------------------------------------------
(* The scan of a FAT32 directory.                                          *)
Row == [entry : 1 .. N, name : Seq(Int)]

FatType ==
    /\ dir \in [1 .. N -> Fat!Entry]
    /\ pc \in {"entry", "pieces", "name", "list", "done"}
    /\ pos \in 1 .. N + 1 /\ entry \in 1 .. N
    /\ failed \in BOOLEAN /\ records \in 0 .. N
    /\ name \in Seq(Int) /\ listed \in Seq(Row)
    /\ faults \in Nat

(* A regular directory, none of whose reads has failed.                    *)
Plain == Fat!Regular /\ faults = 0

OnEntry == ~failed /\ entry = IF pos <= N THEN pos ELSE N

(* The name of a row has all the pieces that belong to its entry in d.     *)
PiecesOf(d, e) == {j \in 1 .. e - 1 : \A k \in j .. e - 1 : d[k].piece}

Assembled(d, row) ==
    /\ PiecesOf(d, row.entry) \subseteq {row.name[j] : j \in DOMAIN row.name}
    /\ \A j \in DOMAIN row.name : row.name[j] = row.entry - j

Ordered ==
    \A i \in DOMAIN listed :
        /\ listed[i].entry \in Fat!Files /\ listed[i].entry < pos
        /\ \A j \in 1 .. i - 1 : listed[j].entry < listed[i].entry
        /\ Assembled(dir, listed[i])

NoneMissed ==
    Len(listed) < MaxListed =>
        \A f \in Fat!Files : f < pos => \E i \in DOMAIN listed : listed[i].entry = f

(* The pieces passed over are all those that belong to one deleted entry.  *)
Run ==
    /\ pos <= N /\ pos - records >= 1 /\ dir[pos].deleted
    /\ \A k \in pos - records .. pos - 1 : dir[k].piece
    /\ pos - records > 1 => ~dir[pos - records - 1].piece

Within ==
    /\ pc # "done"
    /\ pc = "entry" /\ pos \in 2 .. N => ~(dir[pos - 1].piece /\ dir[pos - 1].deleted)
    /\ pc \in {"pieces", "name", "list"} => Run
    /\ pc \in {"pieces", "name"} => name = <<>>
    /\ pc = "name" => records > 0
    /\ pc \in {"name", "list"} => ~dir[pos].piece
    /\ pc = "list" =>
          name = IF records = 0 THEN <<>> ELSE Fat!Printed(pos, records)

FatInv == FatType /\ (Plain => OnEntry /\ Ordered /\ NoneMissed /\ Within)

LEMMA FatInit == Fat!Init => FatInv
<1> SUFFICES ASSUME Fat!Init PROVE FatInv
  OBVIOUS
<1>1. N \in Nat /\ N >= 1
  BY ImageSizes
<1>2. FatType
  <2>1. <<>> \in Seq(Int) /\ <<>> \in Seq(Row)
    OBVIOUS
  <2>2. 1 \in 1 .. N + 1 /\ 1 \in 1 .. N /\ 0 \in 0 .. N
    BY <1>1
  <2>3. /\ dir \in [1 .. N -> Fat!Entry] /\ pc = "entry" /\ pos = 1 /\ entry = 1
        /\ failed = FALSE /\ records = 0 /\ name = <<>> /\ listed = <<>> /\ faults = 0
    BY DEF Fat!Init
  <2> QED
    BY <2>1, <2>2, <2>3 DEF FatType
<1>3. OnEntry /\ Within
  BY <1>1 DEF Fat!Init, OnEntry, Within
<1>4. Ordered
  BY DEF Fat!Init, Ordered
<1>5. NoneMissed
  <2>1. \A f \in Fat!Files : ~(f < pos)
    BY <1>1 DEF Fat!Init, Fat!Files
  <2> QED
    BY <2>1 DEF NoneMissed
<1> QED
  BY <1>2, <1>3, <1>4, <1>5 DEF FatInv

(* What a read of the next entry does, and when none has failed.           *)
LEMMA Reads ==
  ASSUME FatType, Fat!ReadNext, dir' = dir
  PROVE  /\ pos' \in 1 .. N + 1 /\ entry' \in 1 .. N /\ failed' \in BOOLEAN
         /\ faults' \in Nat /\ N \in Nat
         /\ pos' = IF pos > N THEN pos ELSE pos + 1
         /\ Plain' => Plain
         /\ Plain' => ~failed' /\ entry' = IF pos' <= N THEN pos' ELSE entry
<1>1. N \in Nat /\ N >= 1
  BY ImageSizes
<1>2. pos' = IF pos > N THEN pos ELSE pos + 1
  BY DEF Fat!ReadNext
<1>3. \/ entry' = (IF pos' <= N THEN pos' ELSE entry) /\ failed' = FALSE /\ faults' = faults
      \/ faults' = faults + 1 /\ failed' = TRUE /\ entry' = entry
  BY DEF Fat!ReadNext
<1>4. pos' \in 1 .. N + 1
  BY <1>1, <1>2 DEF FatType
<1>5. entry' \in 1 .. N /\ failed' \in BOOLEAN /\ faults' \in Nat
  <2>1. entry \in 1 .. N /\ faults \in Nat
    BY DEF FatType
  <2>2. pos' <= N => pos' \in 1 .. N
    BY <1>1, <1>4
  <2>3. entry' \in 1 .. N
    BY <1>3, <2>1, <2>2
  <2>4. faults' \in Nat
    BY <1>3, <2>1
  <2>5. failed' \in BOOLEAN
    BY <1>3
  <2> QED
    BY <2>3, <2>4, <2>5
<1>6. faults' = 0 => ~failed' /\ entry' = (IF pos' <= N THEN pos' ELSE entry) /\ faults = 0
  BY <1>3 DEF FatType
<1>7. Fat!Regular' <=> Fat!Regular
  BY DEF Fat!Regular
<1> QED
  BY <1>1, <1>2, <1>4, <1>5, <1>6, <1>7 DEF Plain

LEMMA Fixed ==
  ASSUME dir' = dir
  PROVE  Fat!Files' = Fat!Files /\ (Fat!Regular' <=> Fat!Regular)
BY DEF Fat!Files, Fat!Regular

(* The next entry is read; nothing is missed if the one that is left is    *)
(* no deleted file.                                                        *)
LEMMA ReadKeeps ==
  ASSUME FatType, Ordered, NoneMissed, Fat!ReadNext, dir' = dir, listed' = listed,
         pos <= N => pos \notin Fat!Files
  PROVE  Ordered' /\ NoneMissed'
<1>1. Fat!Files' = Fat!Files
  BY Fixed
<1>2. pos' = (IF pos > N THEN pos ELSE pos + 1) /\ pos \in Nat /\ N \in Nat
      /\ \A f \in Fat!Files : f \in 1 .. N
  BY Reads DEF FatType, Fat!Files
<1>3. \A i \in DOMAIN listed : listed[i].entry \in 1 .. N
  BY <1>2 DEF Ordered
<1>4. Ordered'
  BY <1>1, <1>2, <1>3 DEF Ordered
<1>5. \A f \in Fat!Files : f < pos' => f < pos
  BY <1>2
<1> QED
  BY <1>1, <1>4, <1>5 DEF NoneMissed

LEMMA SkipEntryStep ==
  ASSUME FatInv, Fat!SkipEntry
  PROVE  FatInv'
<1>1. /\ FatType /\ Fat!ReadNext /\ pc = "entry" /\ pc' = pc /\ dir' = dir
      /\ records' = records /\ name' = name /\ listed' = listed
      /\ ~dir[entry].deleted
  BY DEF FatInv, Fat!SkipEntry, Fat!isDeletedEntry
<1>2. FatType'
  BY <1>1, Reads DEF FatType
<1>3. ASSUME Plain' PROVE OnEntry' /\ Ordered' /\ NoneMissed' /\ Within'
  <2>1. /\ OnEntry /\ Ordered /\ NoneMissed /\ Within /\ ~failed'
        /\ entry' = (IF pos' <= N THEN pos' ELSE entry)
        /\ pos' = (IF pos > N THEN pos ELSE pos + 1)
        /\ pos \in Nat /\ N \in Nat /\ pos \in 1 .. N + 1
    BY <1>1, <1>3, Reads DEF FatInv, FatType
  <2>2. pos <= N => ~dir[pos].deleted /\ pos \notin Fat!Files
    BY <1>1, <2>1 DEF OnEntry, Fat!Files
  <2>3. OnEntry'
    BY <2>1 DEF OnEntry
  <2>4. Within'
    <3>1. pos' \in 2 .. N => ~dir[pos' - 1].deleted
      BY <2>1, <2>2
    <3> QED
      BY <1>1, <2>1, <3>1 DEF Within
  <2> QED
    BY <1>1, <2>1, <2>2, <2>3, <2>4, ReadKeeps
<1> QED
  BY <1>2, <1>3 DEF FatInv

LEMMA FoundDeletedStep ==
  ASSUME FatInv, Fat!FoundDeleted
  PROVE  FatInv'
<1>1. /\ FatType /\ pc = "entry" /\ dir[entry].deleted
      /\ pc' = "pieces" /\ records' = 0 /\ name' = <<>>
      /\ dir' = dir /\ pos' = pos /\ entry' = entry /\ failed' = failed
      /\ listed' = listed /\ faults' = faults
  BY DEF FatInv, Fat!FoundDeleted, Fat!isDeletedEntry
<1>2. FatType'
  <2>1. <<>> \in Seq(Int) /\ 0 \in 0 .. N
    BY ImageSizes
  <2> QED
    BY <1>1, <2>1 DEF FatType
<1>3. ASSUME Plain' PROVE OnEntry' /\ Ordered' /\ NoneMissed' /\ Within'
  <2>1. Plain /\ OnEntry /\ Ordered /\ NoneMissed /\ Within
    BY <1>1, <1>3, Fixed DEF FatInv, Plain
  <2>2. pos \in 1 .. N + 1 /\ N \in Nat /\ N >= 1
    BY <1>1, ImageSizes DEF FatType
  <2>3. pos <= N /\ dir[pos].deleted
    BY <1>1, <2>1, <2>2 DEF OnEntry, Plain, Fat!Regular
  <2>4. pos > 1 => ~dir[pos - 1].piece
    <3>1. pos > 1 => pos \in 2 .. N /\ pos - 1 \in 1 .. N - 1 /\ (pos - 1) + 1 = pos
      BY <2>2, <2>3
    <3>2. pos > 1 => ~(dir[pos - 1].piece /\ dir[pos - 1].deleted)
      BY <1>1, <2>1, <3>1 DEF Within
    <3>3. pos > 1 /\ dir[pos - 1].piece => dir[pos].deleted = dir[pos - 1].deleted
      BY <2>1, <3>1 DEF Plain, Fat!Regular
    <3> QED
      BY <2>3, <3>2, <3>3
  <2>5. Run'
    <3>1. pos - 0 = pos /\ pos >= 1 /\ \A k \in pos .. pos - 1 : FALSE
      BY <2>2
    <3> QED
      BY <1>1, <2>3, <2>4, <3>1 DEF Run
  <2>6. OnEntry' /\ Ordered' /\ NoneMissed'
    BY <1>1, <2>1, Fixed DEF OnEntry, Ordered, NoneMissed
  <2> QED
    BY <1>1, <2>5, <2>6 DEF Within
<1> QED
  BY <1>2, <1>3 DEF FatInv

LEMMA NextPieceStep ==
  ASSUME FatInv, Fat!NextPiece
  PROVE  FatInv'
<1>1. /\ FatType /\ Fat!ReadNext /\ pc = "pieces" /\ pc' = pc /\ dir' = dir
      /\ records' = (IF records = N THEN N ELSE records + 1)
      /\ name' = name /\ listed' = listed /\ dir[entry].piece
  BY DEF FatInv, Fat!NextPiece, Fat!isPartOfLongFileName
<1>2. FatType'
  <2>1. records' \in 0 .. N
    BY <1>1, ImageSizes DEF FatType
  <2> QED
    BY <1>1, <2>1, Reads DEF FatType
<1>3. ASSUME Plain' PROVE OnEntry' /\ Ordered' /\ NoneMissed' /\ Within'
  <2>1. /\ OnEntry /\ Ordered /\ NoneMissed /\ Within /\ Plain /\ ~failed'
        /\ entry' = (IF pos' <= N THEN pos' ELSE entry)
        /\ pos' = (IF pos > N THEN pos ELSE pos + 1)
        /\ pos \in Nat /\ N \in Nat /\ pos >= 1 /\ records \in Nat
    BY <1>1, <1>3, Reads DEF FatInv, FatType
  <2>2. Run /\ pos <= N /\ pos - records >= 1 /\ dir[pos].deleted
    BY <1>1, <2>1 DEF Within, Run
  <2>3. entry = pos /\ dir[pos].piece /\ pos # N
    BY <1>1, <2>1, <2>2 DEF OnEntry, Plain, Fat!Regular
  <2>4. /\ pos' = pos + 1 /\ pos + 1 <= N /\ records' = records + 1
        /\ pos' - records' = pos - records /\ pos \in 1 .. N - 1
    BY <1>1, <2>1, <2>2, <2>3
  <2>5. dir[pos + 1].deleted
    BY <2>1, <2>2, <2>3, <2>4 DEF Plain, Fat!Regular
  <2>6. Run'
    <3>1. \A k \in pos - records .. pos' - 1 : k \in pos - records .. pos - 1 \/ k = pos
      BY <2>1, <2>4
    <3>2. \A k \in pos - records .. pos' - 1 : dir[k].piece
      BY <2>2, <2>3, <3>1 DEF Run
    <3> QED
      BY <1>1, <2>2, <2>4, <2>5, <3>2 DEF Run
  <2>7. OnEntry' /\ Within'
    BY <1>1, <2>1, <2>6 DEF OnEntry, Within
  <2>8. pos \notin Fat!Files
    BY <2>3 DEF Fat!Files
  <2> QED
    BY <1>1, <2>1, <2>7, <2>8, ReadKeeps
<1> QED
  BY <1>2, <1>3 DEF FatInv

LEMMA EndPiecesStep ==
  ASSUME FatInv, Fat!EndPieces
  PROVE  FatInv'
<1>1. /\ FatType /\ pc = "pieces" /\ ~dir[entry].piece
      /\ pc' = (IF records > 0 THEN "name" ELSE "list")
      /\ dir' = dir /\ pos' = pos /\ entry' = entry /\ failed' = failed
      /\ records' = records /\ name' = name /\ listed' = listed /\ faults' = faults
  BY DEF FatInv, Fat!EndPieces, Fat!isPartOfLongFileName
<1>2. FatType'
  BY <1>1 DEF FatType
<1>3. ASSUME Plain' PROVE OnEntry' /\ Ordered' /\ NoneMissed' /\ Within'
  <2>1. Plain /\ OnEntry /\ Ordered /\ NoneMissed /\ Within
    BY <1>1, <1>3, Fixed DEF FatInv, Plain
  <2>2. Run /\ entry = pos
    BY <1>1, <2>1 DEF Within, Run, OnEntry
  <2>3. Run'
    BY <1>1, <2>2 DEF Run
  <2>4. ~(records > 0) => records = 0
    BY <1>1 DEF FatType
  <2>5. Within'
    BY <1>1, <2>1, <2>2, <2>3, <2>4 DEF Within
  <2>6. OnEntry' /\ Ordered' /\ NoneMissed'
    BY <1>1, <2>1, Fixed DEF OnEntry, Ordered, NoneMissed
  <2> QED
    BY <2>5, <2>6
<1> QED
  BY <1>2, <1>3 DEF FatInv

LEMMA PrintedIsName ==
  ASSUME NEW p \in Int, NEW k \in Nat
  PROVE  /\ Fat!Printed(p, k) \in Seq(Int)
         /\ DOMAIN Fat!Printed(p, k) = 1 .. k + 1
         /\ \A j \in 1 .. k + 1 : Fat!Printed(p, k)[j] = p - j
<1>1. k + 1 \in Nat /\ \A j \in 1 .. k + 1 : p - j \in Int
  OBVIOUS
<1>2. Fat!Printed(p, k) \in [1 .. k + 1 -> Int]
  BY <1>1 DEF Fat!Printed
<1>3. Fat!Printed(p, k) \in Seq(Int)
  BY <1>1, <1>2, SeqDef
<1> QED
  BY <1>3 DEF Fat!Printed

LEMMA PrintNameStep ==
  ASSUME FatInv, Fat!PrintName
  PROVE  FatInv'
<1>1. /\ FatType /\ pc = "name" /\ pc' = "list" /\ name' = Fat!Printed(pos, records)
      /\ dir' = dir /\ pos' = pos /\ entry' = entry
      /\ records' = records /\ listed' = listed
      /\ \/ failed' = FALSE /\ faults' = faults
         \/ faults' = faults + 1 /\ failed' = TRUE
  BY DEF FatInv, Fat!PrintName
<1>2. FatType'
  <2>1. name' \in Seq(Int)
    BY <1>1, PrintedIsName, ImageSizes DEF FatType
  <2>2. faults' \in Nat
    BY <1>1 DEF FatType
  <2>3. failed' \in BOOLEAN
    BY <1>1
  <2> QED
    BY <1>1, <2>1, <2>2, <2>3 DEF FatType
<1>3. ASSUME Plain' PROVE OnEntry' /\ Ordered' /\ NoneMissed' /\ Within'
  <2>0. faults = 0 /\ ~failed'
    BY <1>1, <1>3 DEF Plain, FatType
  <2>1. Plain /\ OnEntry /\ Ordered /\ NoneMissed /\ Within
    BY <1>1, <1>3, <2>0, Fixed DEF FatInv, Plain
  <2>2. Run /\ records # 0
    BY <1>1, <2>1 DEF Within, FatType
  <2>3. Run'
    BY <1>1, <2>2 DEF Run
  <2>4. Within'
    BY <1>1, <2>1, <2>2, <2>3 DEF Within
  <2>5. OnEntry' /\ Ordered' /\ NoneMissed'
    BY <1>1, <2>0, <2>1, Fixed DEF OnEntry, Ordered, NoneMissed
  <2> QED
    BY <2>4, <2>5
<1> QED
  BY <1>2, <1>3 DEF FatInv

(* The name printed for an entry is complete.                              *)
LEMMA RowIsComplete ==
  ASSUME FatType, Run, ~dir[pos].piece,
         name = IF records = 0 THEN <<>> ELSE Fat!Printed(pos, records)
  PROVE  Assembled(dir, [entry |-> pos, name |-> name])
<1>1. /\ pos \in Nat /\ pos >= 1 /\ records \in Nat /\ pos - records >= 1
      /\ pos - records > 1 => ~dir[pos - records - 1].piece
  BY ImageSizes DEF FatType, Run
<1>2. \A j \in PiecesOf(dir, pos) : j \in 1 .. pos - 1 /\ j >= pos - records
  <2> SUFFICES ASSUME NEW j \in PiecesOf(dir, pos), ~(j >= pos - records)
               PROVE  FALSE
    BY DEF PiecesOf
  <2>1. j \in 1 .. pos - 1 /\ \A k \in j .. pos - 1 : dir[k].piece
    BY DEF PiecesOf
  <2>2. pos - records > 1 /\ pos - records - 1 \in j .. pos - 1
    BY <1>1, <2>1
  <2> QED
    BY <1>1, <2>1, <2>2
<1>3. CASE records = 0
  <2>1. PiecesOf(dir, pos) = {}
    BY <1>1, <1>2, <1>3
  <2>2. name = <<>> /\ DOMAIN <<>> = {}
    BY <1>3
  <2> QED
    BY <2>1, <2>2 DEF Assembled
<1>4. CASE records # 0
  <2>1. name = Fat!Printed(pos, records)
    BY <1>4
  <2>2. DOMAIN name = 1 .. records + 1 /\ \A j \in 1 .. records + 1 : name[j] = pos - j
    <3>1. pos \in Int
      BY <1>1
    <3>2. /\ DOMAIN Fat!Printed(pos, records) = 1 .. records + 1
          /\ \A j \in 1 .. records + 1 : Fat!Printed(pos, records)[j] = pos - j
      BY <1>1, <3>1, PrintedIsName
    <3> QED
      BY <2>1, <3>2
  <2>3. \A j \in PiecesOf(dir, pos) : pos - j \in 1 .. records + 1 /\ pos - (pos - j) = j
    BY <1>1, <1>2
  <2>4. \A j \in PiecesOf(dir, pos) : j \in {name[k] : k \in DOMAIN name}
    <3> SUFFICES ASSUME NEW j \in PiecesOf(dir, pos)
                 PROVE  \E k \in DOMAIN name : name[k] = j
      OBVIOUS
    <3>1. pos - j \in DOMAIN name /\ name[pos - j] = j
      BY <2>2, <2>3
    <3> QED
      BY <3>1
  <2> QED
    BY <2>2, <2>4 DEF Assembled
<1> QED
  BY <1>3, <1>4

LEMMA ListStep ==
  ASSUME FatInv, Fat!List
  PROVE  FatInv'
<1> DEFINE row == [entry |-> entry, name |-> name]
<1>1. /\ FatType /\ Fat!ReadNext /\ pc = "list" /\ pc' = "entry" /\ dir' = dir
      /\ records' = records /\ name' = name
      /\ listed' = IF Len(listed) = MaxListed THEN listed ELSE Append(listed, row)
  BY DEF FatInv, Fat!List
<1>2. listed \in Seq(Row) /\ row \in Row
  BY <1>1 DEF FatType, Row
<1>3. FatType'
  <2>1. listed' \in Seq(Row)
    BY <1>1, <1>2
  <2> QED
    BY <1>1, <2>1, Reads DEF FatType
<1>4. ASSUME Plain' PROVE OnEntry' /\ Ordered' /\ NoneMissed' /\ Within'
  <2>1. /\ OnEntry /\ Ordered /\ NoneMissed /\ Within /\ Plain /\ ~failed'
        /\ entry' = (IF pos' <= N THEN pos' ELSE entry)
        /\ pos' = (IF pos > N THEN pos ELSE pos + 1)
        /\ pos \in Nat /\ N \in Nat /\ pos >= 1
    BY <1>1, <1>4, Reads DEF FatInv, FatType
  <2>2. Run /\ ~dir[pos].piece /\ pos <= N /\ dir[pos].deleted /\ entry = pos
    BY <1>1, <2>1 DEF Within, Run, OnEntry
  <2>3. pos # N /\ pos' = pos + 1 /\ pos + 1 <= N
    BY <2>1, <2>2 DEF Plain, Fat!Regular
  <2>4. row.entry = pos /\ pos \in Fat!Files /\ Assembled(dir, row)
    <3>1. name = IF records = 0 THEN <<>> ELSE Fat!Printed(pos, records)
      BY <1>1, <2>1 DEF Within
    <3>2. Assembled(dir, row)
      BY <1>1, <2>2, <3>1, RowIsComplete
    <3>3. pos \in Fat!Files
      BY <2>1, <2>2 DEF Fat!Files
    <3> QED
      BY <2>2, <3>2, <3>3
  <2>5. /\ Fat!Files' = Fat!Files
        /\ \A f \in Fat!Files : f \in Nat /\ (f < pos' <=> f < pos \/ f = pos)
    BY <1>1, <2>1, <2>3, Fixed DEF Fat!Files
  <2>6. \A i \in DOMAIN listed : listed[i].entry < pos /\ listed[i].entry < pos'
    BY <2>1, <2>5 DEF Ordered
  <2>7. OnEntry' /\ Within'
    BY <1>1, <2>1, <2>2, <2>3 DEF OnEntry, Within
  <2>8. CASE Len(listed) = MaxListed
    <3>1. listed' = listed /\ ~(Len(listed) < MaxListed)
      BY <1>1, <2>8, Bounds
    <3>2. Ordered'
      BY <1>1, <2>1, <2>5, <2>6, <3>1 DEF Ordered
    <3> QED
      BY <2>7, <3>1, <3>2 DEF NoneMissed
  <2>9. CASE Len(listed) # MaxListed
    <3> DEFINE n == Len(listed)
    <3>1. /\ n \in Nat /\ DOMAIN listed = 1 .. n /\ DOMAIN listed' = 1 .. n + 1
          /\ \A i \in 1 .. n : listed'[i] = listed[i]
          /\ listed'[n + 1] = row /\ Len(listed') = n + 1
      BY <1>1, <1>2, <2>9
    <3> HIDE DEF n, row
    <3>2. ASSUME NEW i \in DOMAIN listed'
          PROVE  /\ listed'[i].entry \in Fat!Files /\ listed'[i].entry < pos'
                 /\ \A j \in 1 .. i - 1 : listed'[j].entry < listed'[i].entry
                 /\ Assembled(dir, listed'[i])
      <4>1. CASE i \in 1 .. n
        <5>1. \A j \in 1 .. i - 1 : j \in 1 .. n
          BY <3>1, <4>1
        <5> QED
          BY <2>1, <2>6, <3>1, <4>1, <5>1 DEF Ordered
      <4>2. CASE i = n + 1
        <5>1. \A j \in 1 .. i - 1 : j \in 1 .. n
          BY <3>1, <4>2
        <5> QED
          BY <2>1, <2>3, <2>4, <2>6, <3>1, <4>2, <5>1
      <4> QED
        BY <3>1, <4>1, <4>2
    <3>3. Ordered'
      BY <1>1, <2>5, <3>2 DEF Ordered
    <3>4. NoneMissed'
      <4> SUFFICES ASSUME Len(listed') < MaxListed, NEW f \in Fat!Files, f < pos'
                   PROVE  \E i \in DOMAIN listed' : listed'[i].entry = f
        BY <2>5 DEF NoneMissed
      <4>1. CASE f = pos
        BY <2>4, <3>1, <4>1
      <4>2. CASE f < pos
        <5>1. n < MaxListed
          BY <3>1, Bounds
        <5>2. PICK i \in DOMAIN listed : listed[i].entry = f
          BY <2>1, <4>2, <5>1 DEF NoneMissed, n
        <5> QED
          BY <3>1, <5>2
      <4> QED
        BY <2>5, <4>1, <4>2
    <3> QED
      BY <2>7, <3>3, <3>4
  <2> QED
    BY <2>8, <2>9
<1> QED
  BY <1>3, <1>4 DEF FatInv

LEMMA FatStep ==
  ASSUME FatInv, Fat!Next
  PROVE  FatInv'
<1>1. CASE Fat!EndScan
  <2>1. /\ FatType /\ failed /\ pc' = "done" /\ dir' = dir /\ pos' = pos /\ entry' = entry
        /\ failed' = failed /\ records' = records /\ name' = name /\ listed' = listed
        /\ faults' = faults
    BY <1>1 DEF FatInv, Fat!EndScan, Fat!Ended
  <2>2. FatType'
    BY <2>1 DEF FatType
  <2>3. ~Plain
    BY <2>1 DEF FatInv, OnEntry
  <2>4. ~Plain'
    BY <2>1, <2>3, Fixed DEF Plain
  <2> QED
    BY <2>2, <2>4 DEF FatInv
<1>2. CASE Fat!Done
  <2>1. /\ pc' = pc /\ dir' = dir /\ pos' = pos /\ entry' = entry /\ failed' = failed
        /\ records' = records /\ name' = name /\ listed' = listed /\ faults' = faults
    BY <1>2 DEF Fat!Done, Fat!vars
  <2> QED
    BY <2>1, Fixed DEF FatInv, FatType, Plain, OnEntry, Ordered, NoneMissed, Within, Run
<1> QED
  BY <1>1, <1>2, SkipEntryStep, FoundDeletedStep, NextPieceStep, EndPiecesStep,
     PrintNameStep, ListStep DEF Fat!Next

-----------------------------------------------------------------------------
(* The scan of an NTFS image: where the records of the MFT are.            *)
Named == [record : Nat, cell : Nat]

NtfsType ==
    /\ headers \in [1 .. Records + 1 -> Ntfs!Header]
    /\ image \in [1 .. Records * Cells -> Ntfs!Attribute]
    /\ pc \in {"record", "attribute", "done"}
    /\ mftOffset \in 1 .. Records + 2 /\ header \in Ntfs!Header
    /\ attrOffset \in 1 .. Records * Cells + 1 /\ attribute \in Ntfs!Attribute
    /\ listed \in Seq(Named) /\ Len(listed) <= MaxListed
    /\ mftOffset \in 1 .. Records + 1 => header = headers[mftOffset]
    /\ attrOffset \in 1 .. Records * Cells => attribute = image[attrOffset]

(* The scan is at a record all those before which are records, and in a    *)
(* deleted one, or at the end of the MFT.                                  *)
AtRecord ==
    /\ mftOffset \in 1 .. Records + 1
    /\ \A q \in 1 .. mftOffset - 1 : headers[q] # "none"
    /\ pc = "attribute" => mftOffset \in Ntfs!Deleted
    /\ pc = "done" => headers[mftOffset] = "none"

(* In a record it is at one of its attributes, and those before lead there *)
(* without passing over another; or it has lost its way, behind all names. *)
OnTheWay(r, a) ==
    /\ a \in Ntfs!Attributes(r)
    /\ \A o \in Ntfs!Attributes(r) :
          o < a => Ntfs!Plain(image[o]) /\ o + image[o].length <= a

IsListed(e) == \E i \in DOMAIN listed : listed[i] = e

NamesListed(r) ==
    Len(listed) < MaxListed => \A e \in Ntfs!FileNames : e.record = r => IsListed(e)

AtAttribute ==
    pc = "attribute" =>
        \/ OnTheWay(mftOffset, attrOffset)
        \/ Ntfs!Lost(mftOffset) /\ NamesListed(mftOffset)

(* What is listed is behind the scan, and in order.                        *)
Behind(e) ==
    \/ e.record < mftOffset
    \/ /\ e.record = mftOffset /\ pc = "attribute"
       /\ e.cell < attrOffset \/ Ntfs!Lost(e.record)

Earlier(f, e) ==
    \/ f.record < e.record
    \/ f.record = e.record /\ (f.cell < e.cell \/ Ntfs!Lost(e.record))

NamesOrdered ==
    \A i \in DOMAIN listed :
        /\ listed[i].record \in Ntfs!Deleted /\ Behind(listed[i])
        /\ listed[i] \in Ntfs!FileNames \/ Ntfs!Lost(listed[i].record)
        /\ \A j \in 1 .. i - 1 : Earlier(listed[j], listed[i])

(* The names before the cell that is looked at are listed.                 *)
Passed(e) ==
    \/ e.record < mftOffset
    \/ /\ e.record = mftOffset /\ pc = "attribute"
       /\ OnTheWay(mftOffset, attrOffset) /\ e.cell < attrOffset

NoNameMissed ==
    Len(listed) < MaxListed =>
        \A e \in Ntfs!FileNames : Passed(e) => IsListed(e)

NtfsInv == NtfsType /\ AtRecord /\ AtAttribute /\ NamesOrdered /\ NoNameMissed

LEMMA InTheImage ==
  ASSUME NEW r \in 1 .. Records
  PROVE  /\ Ntfs!FirstOf(r) \in Nat /\ r * Cells \in Nat /\ Records * Cells \in Nat
         /\ 1 <= Ntfs!FirstOf(r) /\ Ntfs!FirstOf(r) <= r * Cells
         /\ r * Cells <= Records * Cells
<1>1. Cells \in Nat /\ Cells > 1 /\ Records - r \in Nat /\ r \in Nat /\ r - 1 \in Nat
  BY ImageSizes
<1>2. (r - 1) * Cells \in Nat /\ (Records - r) * Cells \in Nat /\ r * Cells \in Nat
  BY <1>1
<1>3. r * Cells = (r - 1) * Cells + Cells
  BY <1>1
<1>4. Records * Cells = r * Cells + (Records - r) * Cells
  BY <1>1, ImageSizes
<1> QED
  BY <1>1, <1>2, <1>3, <1>4 DEF Ntfs!FirstOf

(* The attributes of a record begin with the first, and between one and    *)
(* the next there is none.                                                 *)
LEMMA AttributesInside ==
  ASSUME NEW r \in 1 .. Records, NEW o \in Ntfs!Attributes(r)
  PROVE  /\ o \in Nat /\ Ntfs!FirstOf(r) <= o /\ o <= r * Cells
         /\ o \in 1 .. Records * Cells
BY InTheImage DEF Ntfs!Attributes, Ntfs!CellsOf

LEMMA FirstAttribute ==
  ASSUME NEW r \in 1 .. Records
  PROVE  Ntfs!FirstOf(r) \in Ntfs!Attributes(r)
BY InTheImage DEF Ntfs!Attributes, Ntfs!CellsOf, Ntfs!Linked

LEMMA Forward ==
  \A x \in Ntfs!Attribute :
      /\ x.length \in Int
      /\ Ntfs!Plain(x) => x.length \in Nat /\ x.length >= 1 /\ x.type # "end"
      /\ Ntfs!Plain(x) => Ntfs!Step(x) = x.length
      /\ x.type # "end" => Ntfs!Plain(x) \/ Ntfs!Step(x) \in {-1, 1, 2}
      /\ Ntfs!Step(x) \in {-1, 1, 2}
BY DEF Ntfs!Attribute, Ntfs!Plain, Ntfs!Step

LEMMA NextLinked ==
  ASSUME NtfsType, NEW r \in 1 .. Records, NEW o \in Ntfs!Attributes(r),
         Ntfs!Plain(image[o]), o + image[o].length <= r * Cells
  PROVE  o + image[o].length \in Ntfs!Attributes(r)
<1> DEFINE next == o + image[o].length
<1>1. image[o].length \in Nat
  BY AttributesInside, Forward DEF NtfsType
<1>2. next \in Ntfs!CellsOf(r)
  BY <1>1, AttributesInside, InTheImage DEF Ntfs!CellsOf
<1>3. ASSUME NEW S \in SUBSET Ntfs!CellsOf(r), Ntfs!Linked(S, r)
      PROVE  next \in S
  <2>1. o \in S
    BY <1>3 DEF Ntfs!Attributes
  <2> QED
    BY <1>2, <1>3, <2>1 DEF Ntfs!Linked
<1> QED
  BY <1>2, <1>3 DEF Ntfs!Attributes

LEMMA NoneBetween ==
  ASSUME NtfsType, NEW r \in 1 .. Records, NEW a, OnTheWay(r, a)
  PROVE  \A o \in Ntfs!Attributes(r) :
            a < o => Ntfs!Plain(image[a]) /\ a + image[a].length <= o
<1> DEFINE Before == {o \in Ntfs!Attributes(r) : o <= a}
           Beyond == {o \in Ntfs!Attributes(r) :
                        Ntfs!Plain(image[a]) /\ a + image[a].length <= o}
           S == Before \cup Beyond
<1>0. a \in Ntfs!Attributes(r)
  BY DEF OnTheWay
<1>1. S \in SUBSET Ntfs!CellsOf(r)
  BY DEF Ntfs!Attributes
<1>2. Ntfs!FirstOf(r) \in S
  BY <1>0, FirstAttribute, AttributesInside
<1>3. ASSUME NEW o \in S, Ntfs!Plain(image[o]), o + image[o].length \in Ntfs!CellsOf(r)
      PROVE  o + image[o].length \in S
  <2>1. /\ o \in Nat /\ o \in 1 .. Records * Cells
        /\ a \in Nat /\ a \in 1 .. Records * Cells
    BY <1>0, AttributesInside
  <2>2. image[o].length \in Nat /\ image[a].length \in Int /\ image[o].length >= 1
    BY <1>3, <2>1, Forward DEF NtfsType
  <2>3. o + image[o].length \in Ntfs!Attributes(r)
    <3>1. o + image[o].length <= r * Cells
      BY <1>3, <2>1, <2>2, InTheImage DEF Ntfs!CellsOf
    <3> QED
      BY <1>3, <3>1, NextLinked
  <2>4. CASE o < a
    <3>1. o + image[o].length <= a
      BY <1>3, <2>4 DEF OnTheWay
    <3> QED
      BY <2>3, <3>1
  <2>5. CASE o = a
    BY <1>3, <2>1, <2>2, <2>3, <2>5
  <2>6. CASE o > a
    <3>1. Ntfs!Plain(image[a]) /\ a + image[a].length <= o
      BY <2>1, <2>6
    <3> QED
      BY <2>1, <2>2, <2>3, <3>1
  <2> QED
    BY <2>1, <2>4, <2>5, <2>6
<1>4. Ntfs!Linked(S, r)
  BY <1>2, <1>3 DEF Ntfs!Linked
<1>5. \A o \in Ntfs!Attributes(r) : o \in S
  <2> HIDE DEF S
  <2> QED
    BY <1>1, <1>4 DEF Ntfs!Attributes
<1>6. \A o \in Ntfs!Attributes(r) : o \in Nat /\ a \in Nat
  BY <1>0, AttributesInside
<1> QED
  BY <1>5, <1>6

(* The names of deleted files are in records of the MFT.                   *)
LEMMA SoundRecords ==
  ASSUME NtfsType, Ntfs!MftEnds
  PROVE  /\ \A r \in Ntfs!Deleted :
              r \in 1 .. Records /\ r \in Ntfs!Mft /\ headers[r] = "deleted"
         /\ \A r \in Ntfs!Mft : r \in 1 .. Records
<1>1. Records \in Nat /\ DOMAIN headers = 1 .. Records + 1
  BY ImageSizes DEF NtfsType
<1>2. Records + 1 \notin Ntfs!Mft
  <2> SUFFICES ASSUME Records + 1 \in Ntfs!Mft
               PROVE  Ntfs!Mft = DOMAIN headers
    BY DEF Ntfs!MftEnds
  <2> QED
    BY <1>1 DEF Ntfs!Mft
<1>3. \A r \in Ntfs!Mft : r \in 1 .. Records
  BY <1>1, <1>2 DEF Ntfs!Mft
<1> QED
  BY <1>3 DEF Ntfs!Deleted, Ntfs!isDeletedFile

LEMMA NamesInside ==
  ASSUME NtfsType, Ntfs!MftEnds, NEW e \in Ntfs!FileNames
  PROVE  /\ e.record \in Ntfs!Deleted /\ e.record \in 1 .. Records
         /\ e.cell \in Ntfs!Attributes(e.record) /\ e.cell \in Nat
         /\ e.cell \in 1 .. Records * Cells /\ image[e.cell].type = "name"
         /\ e = [record |-> e.record, cell |-> e.cell]
<1>1. /\ e \in [record : Ntfs!Deleted, cell : DOMAIN image]
      /\ e.cell \in Ntfs!Attributes(e.record) /\ image[e.cell].type = "name"
  BY DEF Ntfs!FileNames
<1>2. e.record \in Ntfs!Deleted /\ e = [record |-> e.record, cell |-> e.cell]
  BY <1>1
<1>3. e.record \in 1 .. Records
  BY <1>2, SoundRecords
<1> QED
  BY <1>1, <1>2, <1>3, AttributesInside

LEMMA NameIs ==
  ASSUME NtfsType, Ntfs!MftEnds, NEW r \in Ntfs!Deleted, NEW o \in Ntfs!Attributes(r),
         image[o].type = "name"
  PROVE  [record |-> r, cell |-> o] \in Ntfs!FileNames
<1>1. o \in DOMAIN image
  BY SoundRecords, AttributesInside DEF NtfsType
<1> QED
  BY <1>1 DEF Ntfs!FileNames

LEMMA NtfsFixed ==
  ASSUME headers' = headers, image' = image
  PROVE  /\ (Ntfs!MftEnds <=> Ntfs!MftEnds') /\ Ntfs!FileNames' = Ntfs!FileNames
         /\ Ntfs!Deleted' = Ntfs!Deleted /\ Ntfs!Mft' = Ntfs!Mft
         /\ \A r : Ntfs!Attributes(r)' = Ntfs!Attributes(r)
         /\ \A r : Ntfs!Lost(r)' <=> Ntfs!Lost(r)
         /\ \A r, a : OnTheWay(r, a)' <=> OnTheWay(r, a)
<1>1. \A r : Ntfs!Attributes(r)' = Ntfs!Attributes(r)
  BY DEF Ntfs!Attributes, Ntfs!Linked
<1>2. Ntfs!Deleted' = Ntfs!Deleted /\ Ntfs!Mft' = Ntfs!Mft
  BY DEF Ntfs!Deleted, Ntfs!Mft
<1>3. Ntfs!FileNames' = Ntfs!FileNames
  BY <1>1, <1>2 DEF Ntfs!FileNames
<1>4. Ntfs!MftEnds <=> Ntfs!MftEnds'
  BY <1>2 DEF Ntfs!MftEnds
<1>5. \A r, a : OnTheWay(r, a)' <=> OnTheWay(r, a)
  BY <1>1 DEF OnTheWay
<1>6. \A r : Ntfs!Lost(r)' <=> Ntfs!Lost(r)
  BY <1>1 DEF Ntfs!Lost
<1> QED
  BY <1>1, <1>2, <1>3, <1>4, <1>5, <1>6

(* A step that lists nothing and leaves what is listed behind, and passes  *)
(* no other name.                                                          *)
LEMMA NothingListed ==
  ASSUME NtfsType, NamesOrdered, NoNameMissed, Ntfs!MftEnds,
         headers' = headers, image' = image, listed' = listed,
         \A i \in DOMAIN listed : Behind(listed[i])',
         \A e \in Ntfs!FileNames :
             Len(listed) < MaxListed /\ Passed(e)' => Passed(e) \/ IsListed(e)
  PROVE  NamesOrdered' /\ NoNameMissed'
<1>1. /\ Ntfs!FileNames' = Ntfs!FileNames /\ Ntfs!Deleted' = Ntfs!Deleted
      /\ \A r : Ntfs!Lost(r)' <=> Ntfs!Lost(r)
  BY NtfsFixed
<1>2. NamesOrdered'
  BY <1>1 DEF NamesOrdered, Earlier
<1>3. NoNameMissed'
  BY <1>1 DEF NoNameMissed, IsListed
<1> QED
  BY <1>2, <1>3

LEMMA ListedBehind ==
  ASSUME NtfsType, NamesOrdered, NEW i \in DOMAIN listed
  PROVE  /\ listed[i].record \in Nat /\ listed[i].cell \in Nat
         /\ Behind(listed[i])
<1>1. listed[i] \in Named
  BY DEF NtfsType
<1> QED
  BY <1>1 DEF Named, NamesOrdered

LEMMA NtfsInit == Ntfs!Init /\ Ntfs!MftEnds => NtfsInv
<1> SUFFICES ASSUME Ntfs!Init, Ntfs!MftEnds PROVE NtfsInv
  OBVIOUS
<1>1. Records \in Nat /\ Records >= 1 /\ 1 \in 1 .. Records + 1 /\ 1 \in 1 .. Records
  BY ImageSizes
<1>2. 1 \in 1 .. Records * Cells /\ Records * Cells \in Nat
  <2>1. Records * Cells \in Nat /\ 1 <= 1 * Cells /\ 1 * Cells <= Records * Cells
    BY <1>1, InTheImage, ImageSizes
  <2>2. PICK last \in Nat : last = Records * Cells
    BY <2>1
  <2> QED
    BY <2>1, <2>2, ImageSizes
<1>3. NtfsType
  <2>1. <<>> \in Seq(Named) /\ Len(<<>>) = 0
    OBVIOUS
  <2>2. headers[1] \in Ntfs!Header /\ image[1] \in Ntfs!Attribute
    BY <1>1, <1>2 DEF Ntfs!Init, Ntfs!Last
  <2> QED
    BY <1>1, <1>2, <2>1, <2>2, Bounds DEF Ntfs!Init, Ntfs!Last, NtfsType
<1>4. NamesOrdered
  BY DEF NamesOrdered, Ntfs!Init
<1>5. NoNameMissed
  <2>1. \A e \in Ntfs!FileNames : ~(e.record < 1)
    BY <1>3, NamesInside
  <2> QED
    BY <2>1 DEF NoNameMissed, Passed, Ntfs!Init
<1> QED
  BY <1>1, <1>3, <1>4, <1>5 DEF NtfsInv, AtRecord, AtAttribute, Ntfs!Init

(* The next record is in the MFT, or the one that ends it.                 *)
LEMMA NextRecordStep ==
  ASSUME NtfsInv, Ntfs!MftEnds, headers[mftOffset] # "none", Ntfs!NextRecord,
         headers' = headers, image' = image, pc' = "record"
  PROVE  /\ mftOffset \in 1 .. Records /\ mftOffset' = mftOffset + 1
         /\ header' = headers[mftOffset'] /\ header' \in Ntfs!Header
         /\ AtRecord' /\ AtAttribute'
<1>1. /\ mftOffset \in 1 .. Records + 1 /\ Records \in Nat
      /\ DOMAIN headers = 1 .. Records + 1
      /\ \A q \in 1 .. mftOffset - 1 : headers[q] # "none"
  BY ImageSizes DEF NtfsInv, NtfsType, AtRecord
<1>2. mftOffset \in Ntfs!Mft
  BY <1>1 DEF Ntfs!Mft, Ntfs!isMftRecord
<1>3. mftOffset \in 1 .. Records
  BY <1>2, SoundRecords DEF NtfsInv
<1>4. mftOffset' = mftOffset + 1 /\ header' = headers[mftOffset'] /\ mftOffset' \in 1 .. Records + 1
  BY <1>1, <1>3 DEF Ntfs!NextRecord, Ntfs!ReadHeader
<1>5. header' \in Ntfs!Header
  BY <1>4 DEF NtfsInv, NtfsType
<1>6. AtRecord'
  <2>1. \A q \in 1 .. mftOffset' - 1 : headers[q] # "none"
    BY <1>1, <1>4
  <2> QED
    BY <1>4, <2>1 DEF AtRecord
<1>7. AtAttribute'
  BY DEF AtAttribute
<1> QED
  BY <1>3, <1>4, <1>5, <1>6, <1>7

LEMMA SkipRecordStep ==
  ASSUME NtfsInv, Ntfs!MftEnds, Ntfs!SkipRecord
  PROVE  NtfsInv'
<1>1. /\ NtfsType /\ AtRecord /\ NamesOrdered /\ NoNameMissed
      /\ pc = "record" /\ pc' = "record" /\ header # "none" /\ header # "deleted"
      /\ headers' = headers /\ image' = image /\ attrOffset' = attrOffset
      /\ attribute' = attribute /\ listed' = listed /\ Ntfs!NextRecord
  BY DEF NtfsInv, Ntfs!SkipRecord, Ntfs!isMftRecord, Ntfs!isDeletedFile
<1>2. header = headers[mftOffset] /\ mftOffset \in 1 .. Records + 1
  BY <1>1 DEF NtfsType, AtRecord
<1>3. /\ mftOffset \in 1 .. Records /\ mftOffset' = mftOffset + 1
      /\ header' = headers[mftOffset'] /\ header' \in Ntfs!Header
      /\ AtRecord' /\ AtAttribute'
  BY <1>1, <1>2, NextRecordStep
<1>4. NtfsType'
  BY <1>1, <1>3, ImageSizes DEF NtfsType
<1>5. \A i \in DOMAIN listed : Behind(listed[i])'
  <2> SUFFICES ASSUME NEW i \in DOMAIN listed PROVE Behind(listed[i])'
    OBVIOUS
  <2>1. listed[i].record \in Nat /\ listed[i].record < mftOffset
    BY <1>1, ListedBehind DEF Behind
  <2> QED
    BY <1>1, <1>3, <2>1 DEF Behind
<1>6. \A e \in Ntfs!FileNames : Passed(e)' => Passed(e)
  <2> SUFFICES ASSUME NEW e \in Ntfs!FileNames, Passed(e)' PROVE e.record < mftOffset
    BY DEF Passed
  <2>1. e.record < mftOffset + 1 /\ e.record \in 1 .. Records
    BY <1>1, <1>3, NamesInside DEF Passed
  <2>2. headers[e.record] = "deleted"
    BY <1>1, NamesInside, SoundRecords
  <2> QED
    BY <1>1, <1>2, <1>3, <2>1, <2>2
<1>7. NamesOrdered' /\ NoNameMissed'
  BY <1>1, <1>5, <1>6, NothingListed
<1> QED
  BY <1>3, <1>4, <1>7 DEF NtfsInv

LEMMA SearchRecordStep ==
  ASSUME NtfsInv, Ntfs!MftEnds, Ntfs!SearchRecord
  PROVE  NtfsInv'
<1> DEFINE r == mftOffset
<1>1. /\ NtfsType /\ AtRecord /\ NamesOrdered /\ NoNameMissed
      /\ pc = "record" /\ pc' = "attribute" /\ header = "deleted"
      /\ headers' = headers /\ image' = image /\ mftOffset' = mftOffset
      /\ header' = header /\ listed' = listed
  BY DEF NtfsInv, Ntfs!SearchRecord, Ntfs!isDeletedFile
<1>2. r \in Ntfs!Deleted /\ r \in 1 .. Records
  <2>1. /\ r \in DOMAIN headers /\ headers[r] = "deleted"
        /\ \A q \in 1 .. r : headers[q] # "none"
    BY <1>1 DEF NtfsType, AtRecord
  <2>2. r \in Ntfs!Deleted
    BY <2>1 DEF Ntfs!Deleted, Ntfs!Mft, Ntfs!isMftRecord, Ntfs!isDeletedFile
  <2> QED
    BY <1>1, <2>2, SoundRecords
<1>3. /\ Ntfs!FirstOf(r) \in 1 .. Records * Cells /\ Records * Cells \in Nat
      /\ Ntfs!FirstOf(r) \in Ntfs!Attributes(r)
  BY <1>2, FirstAttribute, AttributesInside, InTheImage
<1>4. attrOffset' = Ntfs!FirstOf(r) /\ attribute' = image[attrOffset']
  <2>1. Records \in Nat /\ ~(r > Records)
    BY <1>2, ImageSizes
  <2> QED
    BY <1>3, <2>1 DEF Ntfs!SearchRecord, Ntfs!ReadAttribute, Ntfs!Last
<1>5. NtfsType'
  <2>1. attrOffset' \in 1 .. Records * Cells /\ attrOffset' \in 1 .. Records * Cells + 1
    BY <1>3, <1>4
  <2>2. attribute' \in Ntfs!Attribute
    BY <1>1, <1>4, <2>1 DEF NtfsType
  <2> QED
    BY <1>1, <1>4, <2>1, <2>2 DEF NtfsType
<1>6. AtRecord'
  BY <1>1, <1>2, NtfsFixed DEF AtRecord
<1>7. AtAttribute'
  <2>1. OnTheWay(r, Ntfs!FirstOf(r))
    BY <1>2, <1>3, AttributesInside DEF OnTheWay
  <2> QED
    BY <1>1, <1>4, <2>1, NtfsFixed DEF AtAttribute
<1>8. \A i \in DOMAIN listed : Behind(listed[i])'
  BY <1>1, ListedBehind DEF Behind
<1>9. \A e \in Ntfs!FileNames : Passed(e)' => Passed(e)
  <2> SUFFICES ASSUME NEW e \in Ntfs!FileNames, Passed(e)', ~(e.record < mftOffset)
               PROVE  FALSE
    BY DEF Passed
  <2>1. e.record = r /\ e.cell < Ntfs!FirstOf(r)
    BY <1>1, <1>4 DEF Passed
  <2> QED
    BY <1>1, <1>2, <1>3, <2>1, NamesInside, AttributesInside
<1>10. NamesOrdered' /\ NoNameMissed'
  BY <1>1, <1>8, <1>9, NothingListed
<1> QED
  BY <1>5, <1>6, <1>7, <1>10 DEF NtfsInv

LEMMA EndMftStep ==
  ASSUME NtfsInv, Ntfs!MftEnds, Ntfs!EndMft
  PROVE  NtfsInv'
<1>1. /\ NtfsType /\ AtRecord /\ NamesOrdered /\ NoNameMissed
      /\ pc = "record" /\ pc' = "done" /\ header = "none"
      /\ headers' = headers /\ image' = image /\ mftOffset' = mftOffset
      /\ header' = header /\ listed' = listed /\ attrOffset' = attrOffset
      /\ attribute' = attribute
  BY DEF NtfsInv, Ntfs!EndMft, Ntfs!isMftRecord
<1>2. NtfsType' /\ AtRecord' /\ AtAttribute'
  BY <1>1 DEF NtfsType, AtRecord, AtAttribute
<1>3. \A i \in DOMAIN listed : Behind(listed[i])'
  BY <1>1, ListedBehind DEF Behind
<1>4. \A e \in Ntfs!FileNames : Passed(e)' => Passed(e)
  BY <1>1 DEF Passed
<1>5. NamesOrdered' /\ NoNameMissed'
  BY <1>1, <1>3, <1>4, NothingListed
<1> QED
  BY <1>2, <1>5 DEF NtfsInv

(* At the end mark of a record all its names are behind.                   *)
LEMMA EndAttributesStep ==
  ASSUME NtfsInv, Ntfs!MftEnds, Ntfs!EndAttributes
  PROVE  NtfsInv'
<1> DEFINE r == mftOffset
<1>1. /\ NtfsType /\ AtRecord /\ AtAttribute /\ NamesOrdered /\ NoNameMissed
      /\ pc = "attribute" /\ pc' = "record" /\ attribute.type = "end"
      /\ headers' = headers /\ image' = image /\ attrOffset' = attrOffset
      /\ attribute' = attribute /\ listed' = listed /\ Ntfs!NextRecord
  BY DEF NtfsInv, Ntfs!EndAttributes, Ntfs!atEndAttribute, Ntfs!Advance
<1>2. r \in Ntfs!Deleted /\ r \in 1 .. Records /\ headers[r] # "none"
  BY <1>1, SoundRecords DEF AtRecord
<1>3. /\ mftOffset' = mftOffset + 1
      /\ header' = headers[mftOffset'] /\ header' \in Ntfs!Header
      /\ AtRecord' /\ AtAttribute'
  BY <1>1, <1>2, NextRecordStep
<1>4. NtfsType'
  BY <1>1, <1>2, <1>3, ImageSizes DEF NtfsType
<1>5. \A i \in DOMAIN listed : Behind(listed[i])'
  <2> SUFFICES ASSUME NEW i \in DOMAIN listed PROVE Behind(listed[i])'
    OBVIOUS
  <2>1. listed[i].record \in Nat /\ listed[i].record <= mftOffset
    BY <1>1, <1>2, ListedBehind DEF Behind
  <2> QED
    BY <1>1, <1>2, <1>3, <2>1 DEF Behind
<1>6. \A e \in Ntfs!FileNames :
         Len(listed) < MaxListed /\ Passed(e)' => Passed(e) \/ IsListed(e)
  <2> SUFFICES ASSUME NEW e \in Ntfs!FileNames, Len(listed) < MaxListed, Passed(e)',
                      ~(e.record < mftOffset), ~IsListed(e)
               PROVE  Passed(e)
    BY DEF Passed
  <2>1. /\ e.record = r /\ e.cell \in Nat /\ e.cell \in Ntfs!Attributes(r)
        /\ image[e.cell].type = "name"
    BY <1>1, <1>2, <1>3, NamesInside DEF Passed
  <2>2. OnTheWay(r, attrOffset)
    BY <1>1, <2>1 DEF AtAttribute, NamesListed
  <2>3. attrOffset \in Nat /\ attrOffset \in 1 .. Records * Cells
    BY <1>2, <2>2, AttributesInside DEF OnTheWay
  <2>4. image[attrOffset].type = "end" /\ ~Ntfs!Plain(image[attrOffset])
    BY <1>1, <2>3 DEF NtfsType, Ntfs!Plain
  <2>5. ~(attrOffset < e.cell) /\ e.cell # attrOffset
    BY <1>1, <1>2, <2>1, <2>2, <2>4, NoneBetween
  <2> QED
    BY <1>1, <2>1, <2>2, <2>3, <2>5 DEF Passed
<1>7. NamesOrdered' /\ NoNameMissed'
  BY <1>1, <1>5, <1>6, NothingListed
<1> QED
  BY <1>3, <1>4, <1>7 DEF NtfsInv

(* The next attribute is the next of the record, or the scan has lost its  *)
(* way and all names of the record are behind.                             *)
LEMMA WayOn ==
  ASSUME NtfsInv, Ntfs!MftEnds, pc = "attribute", attribute.type # "end",
         OnTheWay(mftOffset, attrOffset),
         NEW o \in Ntfs!Landings(attrOffset, Ntfs!Step(attribute))
  PROVE  \/ /\ OnTheWay(mftOffset, o) /\ o \in Nat /\ attrOffset < o
            /\ \A p \in Ntfs!Attributes(mftOffset) : p < o => p <= attrOffset
         \/ /\ Ntfs!Lost(mftOffset)
            /\ \A p \in Ntfs!Attributes(mftOffset) : p <= attrOffset
<1> DEFINE r == mftOffset
           a == attrOffset
           next == a + image[a].length
<1>1. NtfsType /\ r \in 1 .. Records /\ a \in Ntfs!Attributes(r)
  BY SoundRecords DEF NtfsInv, AtRecord, OnTheWay
<1>2. PICK last \in Nat : last = Records * Cells
  BY <1>1, InTheImage
<1>3. /\ a \in Nat /\ a \in 1 .. last /\ a <= r * Cells
      /\ r * Cells \in Nat /\ r * Cells <= last
  BY <1>1, <1>2, AttributesInside, InTheImage
<1>4. attribute = image[a] /\ image[a] \in Ntfs!Attribute
  BY <1>1, <1>2, <1>3 DEF NtfsType
<1>5. \A p \in Ntfs!Attributes(r) :
         /\ p \in Nat /\ p <= r * Cells
         /\ p < a => Ntfs!Plain(image[p]) /\ p + image[p].length <= a
         /\ p < a => image[p].type # "end" /\ image[p].length \in Nat
         /\ a < p => Ntfs!Plain(image[a]) /\ next <= p
  <2> SUFFICES ASSUME NEW p \in Ntfs!Attributes(r)
               PROVE  /\ p \in Nat /\ p <= r * Cells
                      /\ p < a => Ntfs!Plain(image[p]) /\ p + image[p].length <= a
                      /\ p < a => image[p].type # "end" /\ image[p].length \in Nat
                      /\ a < p => Ntfs!Plain(image[a]) /\ next <= p
    OBVIOUS
  <2>1. p \in Nat /\ p <= r * Cells /\ p \in 1 .. Records * Cells
    BY <1>1, AttributesInside
  <2>2. image[p] \in Ntfs!Attribute
    BY <1>1, <2>1 DEF NtfsType
  <2>3. a < p => Ntfs!Plain(image[a]) /\ next <= p
    BY <1>1, NoneBetween
  <2>4. p < a => Ntfs!Plain(image[p]) /\ p + image[p].length <= a
    BY DEF OnTheWay
  <2> QED
    BY <2>1, <2>2, <2>3, <2>4, Forward
<1>6. CASE Ntfs!Plain(image[a]) /\ next <= r * Cells
  <2>1. image[a].length \in Nat /\ image[a].length >= 1 /\ next \in Nat /\ a < next
    BY <1>3, <1>4, <1>6, Forward
  <2>2. next \in Ntfs!Attributes(r)
    BY <1>1, <1>6, NextLinked
  <2>3. o = next
    <3>1. Ntfs!Step(attribute) = image[a].length
      BY <1>4, <1>6, Forward
    <3>2. o \in IF a > last THEN 1 .. last + 1
                ELSE IF next \in 1 .. last THEN {next} ELSE {last + 1}
      BY <1>2, <3>1 DEF Ntfs!Landings, Ntfs!Last
    <3> HIDE DEF next
    <3> QED
      BY <1>3, <1>6, <2>1, <3>2
  <2>4. ASSUME NEW p \in Ntfs!Attributes(r), p < next
        PROVE  p <= a /\ Ntfs!Plain(image[p]) /\ p + image[p].length <= next
    <3>1. p <= a /\ p \in Nat
      BY <1>3, <1>5, <2>1, <2>4
    <3>2. CASE p < a
      BY <1>3, <1>5, <2>1, <3>1, <3>2
    <3>3. CASE p = a
      <4>1. p + image[p].length = next /\ Ntfs!Plain(image[p])
        BY <1>6, <3>3
      <4> QED
        BY <2>1, <3>1, <4>1
    <3> QED
      BY <1>3, <3>1, <3>2, <3>3
  <2> QED
    BY <2>1, <2>2, <2>3, <2>4 DEF OnTheWay
<1>7. CASE ~(Ntfs!Plain(image[a]) /\ next <= r * Cells)
  <2>1. \A p \in Ntfs!Attributes(r) : p <= a
    <3> SUFFICES ASSUME NEW p \in Ntfs!Attributes(r), a < p PROVE FALSE
      BY <1>3, <1>5
    <3>1. Ntfs!Plain(image[a]) /\ next <= p /\ p <= r * Cells /\ p \in Nat
      BY <1>5
    <3>2. next \in Int
      BY <1>3, <1>4, Forward
    <3> QED
      BY <1>3, <1>7, <3>1, <3>2
  <2>2. \A p \in Ntfs!Attributes(r) : image[p].type # "end"
    BY <1>3, <1>4, <1>5, <2>1
  <2> QED
    BY <2>1, <2>2 DEF Ntfs!Lost
<1> QED
  BY <1>6, <1>7

LEMMA NextAttributeStep ==
  ASSUME NtfsInv, Ntfs!MftEnds, Ntfs!NextAttribute
  PROVE  NtfsInv'
<1> DEFINE r == mftOffset
           a == attrOffset
           n == Len(listed)
<1>1. /\ NtfsType /\ AtRecord /\ AtAttribute /\ NamesOrdered /\ NoNameMissed
      /\ pc = "attribute" /\ pc' = "attribute" /\ attribute.type # "end"
      /\ headers' = headers /\ image' = image /\ mftOffset' = mftOffset
      /\ header' = header
  BY DEF NtfsInv, Ntfs!NextAttribute, Ntfs!atEndAttribute
<1>2. r \in Ntfs!Deleted /\ r \in 1 .. Records /\ r \in Nat
  BY <1>1, SoundRecords DEF AtRecord
<1>3. PICK last \in Nat : last = Records * Cells
  BY <1>2, InTheImage
<1>4. a \in 1 .. last + 1 /\ a \in Nat /\ attribute \in Ntfs!Attribute
  BY <1>1, <1>2, <1>3 DEF NtfsType
<1>4a. PICK row \in Named : row = [record |-> r, cell |-> a]
  BY <1>2, <1>4 DEF Named
<1>5. PICK o \in Ntfs!Landings(a, Ntfs!Step(attribute)) : Ntfs!ReadAttribute(o)
  BY DEF Ntfs!NextAttribute
<1>6. /\ o \in 1 .. last + 1 /\ attrOffset' = o /\ attribute' \in Ntfs!Attribute
      /\ o \in 1 .. last => attribute' = image[o]
  <2>1. o \in 1 .. last + 1
    BY <1>3, <1>4, <1>5 DEF Ntfs!Landings, Ntfs!Last
  <2>2. /\ attrOffset' = o /\ (o <= last => attribute' = image[o])
        /\ ~(o <= last) => attribute' \in Ntfs!Attribute
    BY <1>3, <1>5 DEF Ntfs!ReadAttribute, Ntfs!Last
  <2>3. o <= last => o \in 1 .. last /\ image[o] \in Ntfs!Attribute
    BY <1>1, <1>3, <2>1 DEF NtfsType
  <2>4. o \in 1 .. last => o <= last
    BY <1>3
  <2> QED
    BY <2>1, <2>2, <2>3, <2>4
<1>7. /\ n \in Nat /\ n <= MaxListed /\ MaxListed \in Nat
      /\ DOMAIN listed = 1 .. n /\ listed \in Seq(Named)
      /\ \A i \in 1 .. n : listed[i] \in Named
  BY <1>1, Bounds DEF NtfsType
(* What is listed stays, and a name is added.                              *)
<1>8. /\ listed' \in Seq(Named) /\ DOMAIN listed' = 1 .. Len(listed')
      /\ n <= Len(listed') /\ Len(listed') <= MaxListed /\ Len(listed') \in Nat
      /\ \A i \in 1 .. n : listed'[i] = listed[i]
      /\ \A i \in DOMAIN listed' : \/ i \in 1 .. n
                                   \/ /\ i = n + 1 /\ listed'[i] = row
                                      /\ attribute.type = "name"
      /\ attribute.type = "name" /\ n < MaxListed => IsListed(row)'
  <2>1. CASE attribute.type = "name" /\ n < MaxListed
    <3>1. listed' = Append(listed, row)
      BY <1>4a, <2>1
      DEF Ntfs!NextAttribute, Ntfs!isFilenameAttribute, Ntfs!isResidentAttribute
    <3>2. /\ listed' \in Seq(Named) /\ Len(listed') = n + 1
          /\ DOMAIN listed' = 1 .. n + 1
          /\ \A i \in 1 .. n : listed'[i] = listed[i]
          /\ listed'[n + 1] = row
      BY <1>7, <3>1, AppendProperties
    <3>3. \A i \in 1 .. n + 1 : i \in 1 .. n \/ i = n + 1
      BY <1>7
    <3>4. IsListed(row)'
      <4>1. n + 1 \in DOMAIN listed'
        BY <1>7, <3>2
      <4> QED
        BY <1>1, <3>1, <3>2, <4>1 DEF IsListed
    <3> QED
      BY <1>7, <2>1, <3>2, <3>3, <3>4
  <2>2. CASE ~(attribute.type = "name" /\ n < MaxListed)
    <3>1. listed' = listed
      BY <2>2 DEF Ntfs!NextAttribute, Ntfs!isFilenameAttribute
    <3> QED
      BY <1>7, <2>2, <3>1
  <2> QED
    BY <2>1, <2>2
<1>9. \A e : IsListed(e) => IsListed(e)'
  <2> SUFFICES ASSUME NEW e, NEW i \in DOMAIN listed, listed[i] = e
               PROVE  \E k \in DOMAIN listed' : listed'[k] = e
    BY DEF IsListed
  <2>1. i \in DOMAIN listed' /\ listed'[i] = e
    BY <1>7, <1>8
  <2> QED
    BY <2>1
<1>10. /\ Ntfs!FileNames' = Ntfs!FileNames /\ Ntfs!Deleted' = Ntfs!Deleted
       /\ \A q : Ntfs!Lost(q)' <=> Ntfs!Lost(q)
       /\ \A q, p : OnTheWay(q, p)' <=> OnTheWay(q, p)
  BY <1>1, NtfsFixed
<1>11. \A e \in Ntfs!FileNames :
          /\ e.cell \in Nat /\ e.record \in Nat
          /\ e.record = r => /\ e.cell \in Ntfs!Attributes(r)
                             /\ e.cell = a => IsListed(e)' \/ ~(n < MaxListed)
  <2> SUFFICES ASSUME NEW e \in Ntfs!FileNames
               PROVE  /\ e.cell \in Nat /\ e.record \in Nat
                      /\ e.record = r => /\ e.cell \in Ntfs!Attributes(r)
                                         /\ e.cell = a => IsListed(e)' \/ ~(n < MaxListed)
    OBVIOUS
  <2>1. /\ e.cell \in Nat /\ e.record \in Nat /\ e.cell \in 1 .. last
        /\ e.cell \in Ntfs!Attributes(e.record) /\ image[e.cell].type = "name"
        /\ e = [record |-> e.record, cell |-> e.cell]
    BY <1>1, <1>3, NamesInside
  <2>2. e.record = r /\ e.cell = a => e = row /\ attribute.type = "name"
    BY <1>1, <1>3, <1>4a, <2>1 DEF NtfsType
  <2> QED
    BY <1>4a, <1>8, <2>1, <2>2
(* Either the scan is on its way, or all names of the record are listed.   *)
<1>12. \/ /\ OnTheWay(r, a) /\ OnTheWay(r, o) /\ a < o
          /\ \A p \in Ntfs!Attributes(r) : p < o => p <= a
       \/ Ntfs!Lost(r) /\ NamesListed(r)'
  <2>1. CASE OnTheWay(r, a)
    <3>1. CASE Ntfs!Lost(r) /\ \A p \in Ntfs!Attributes(r) : p <= a
      <4>1. ASSUME Len(listed') < MaxListed, NEW e \in Ntfs!FileNames, e.record = r
            PROVE  IsListed(e)'
        <5>1. n < MaxListed /\ e.cell \in Nat /\ e.cell <= a
          BY <1>7, <1>8, <1>11, <3>1, <4>1
        <5>2. CASE e.cell = a
          BY <1>11, <4>1, <5>1, <5>2
        <5>3. CASE e.cell < a
          <6>1. Passed(e)
            BY <1>1, <2>1, <4>1, <5>3 DEF Passed
          <6> QED
            BY <1>1, <1>9, <5>1, <6>1 DEF NoNameMissed
        <5> QED
          BY <1>4, <5>1, <5>2, <5>3
      <4> QED
        BY <1>1, <1>10, <3>1, <4>1 DEF NamesListed
    <3> QED
      BY <1>1, <1>5, <2>1, <3>1, WayOn
  <2>2. CASE Ntfs!Lost(r) /\ NamesListed(r)
    <3>1. ASSUME Len(listed') < MaxListed, NEW e \in Ntfs!FileNames, e.record = r
          PROVE  IsListed(e)'
      <4>1. n < MaxListed
        BY <1>7, <1>8, <3>1
      <4> QED
        BY <1>9, <2>2, <3>1, <4>1 DEF NamesListed
    <3> QED
      BY <1>1, <1>10, <2>2, <3>1 DEF NamesListed
  <2> QED
    BY <1>1, <2>1, <2>2 DEF AtAttribute
<1>13. NtfsType'
  BY <1>1, <1>3, <1>6, <1>8 DEF NtfsType
<1>14. AtRecord'
  BY <1>1, <1>10 DEF AtRecord
<1>15. AtAttribute'
  <2>1. CASE OnTheWay(r, o)
    BY <1>1, <1>6, <1>10, <2>1 DEF AtAttribute
  <2>2. CASE Ntfs!Lost(r) /\ NamesListed(r)'
    <3>1. Ntfs!Lost(mftOffset)' /\ NamesListed(mftOffset)'
      BY <1>1, <1>10, <2>2 DEF NamesListed, Ntfs!Lost
    <3> QED
      BY <3>1 DEF AtAttribute
  <2> QED
    BY <1>12, <2>1, <2>2
<1>16. NamesOrdered'
  <2>1. a < o \/ Ntfs!Lost(r)
    BY <1>12
  <2>2. ASSUME NEW i \in 1 .. n
        PROVE  /\ listed'[i] = listed[i] /\ listed[i].record \in Ntfs!Deleted
               /\ listed[i] \in Ntfs!FileNames \/ Ntfs!Lost(listed[i].record)
               /\ Behind(listed[i])' /\ Earlier(listed[i], row)
               /\ \A j \in 1 .. i - 1 : Earlier(listed[j], listed[i])
    <3>1. /\ listed[i].record \in Ntfs!Deleted /\ Behind(listed[i])
          /\ listed[i] \in Ntfs!FileNames \/ Ntfs!Lost(listed[i].record)
          /\ \A j \in 1 .. i - 1 : Earlier(listed[j], listed[i])
      BY <1>1, <1>7 DEF NamesOrdered
    <3>2. listed[i].record \in Nat /\ listed[i].cell \in Nat
      BY <1>7 DEF Named
    <3>3. \/ listed[i].record < r
          \/ listed[i].record = r /\ (listed[i].cell < a \/ Ntfs!Lost(listed[i].record))
      BY <3>1 DEF Behind
    <3>4. Earlier(listed[i], row)
      BY <1>4a, <3>3 DEF Earlier
    <3>5. Behind(listed[i])'
      <4>1. \/ listed[i].record < r
            \/ /\ listed[i].record = r
               /\ listed[i].cell < o \/ Ntfs!Lost(listed[i].record)
        BY <1>4, <1>6, <2>1, <3>2, <3>3
      <4>2. listed'[i] = listed[i]
        BY <1>8
      <4> QED
        BY <1>1, <1>6, <1>10, <4>1, <4>2 DEF Behind
    <3> QED
      BY <1>8, <3>1, <3>4, <3>5
  <2>3. ASSUME attribute.type = "name"
        PROVE  row \in Ntfs!FileNames \/ Ntfs!Lost(r)
    <3>1. CASE OnTheWay(r, a)
      <4>1. a \in Ntfs!Attributes(r) /\ a \in 1 .. last
        BY <1>2, <1>3, <3>1, AttributesInside DEF OnTheWay
      <4>2. image[a].type = "name"
        BY <1>1, <1>3, <2>3, <4>1 DEF NtfsType
      <4> QED
        BY <1>1, <1>2, <1>4a, <4>1, <4>2, NameIs
    <3> QED
      BY <1>12, <3>1
  <2>4. ASSUME NEW i \in DOMAIN listed'
        PROVE  /\ listed'[i].record \in Ntfs!Deleted /\ Behind(listed[i])'
               /\ listed'[i] \in Ntfs!FileNames \/ Ntfs!Lost(listed'[i].record)
               /\ \A j \in 1 .. i - 1 : Earlier(listed'[j], listed'[i])
    <3>1. CASE i \in 1 .. n
      <4>1. \A j \in 1 .. i - 1 : j \in 1 .. n
        BY <1>7, <3>1
      <4>2. \A j \in 1 .. i - 1 : listed'[j] = listed[j]
        BY <1>8, <4>1
      <4> QED
        BY <2>2, <3>1, <4>2
    <3>2. CASE i = n + 1 /\ listed'[i] = row /\ attribute.type = "name"
      <4>1. \A j \in 1 .. i - 1 : j \in 1 .. n
        BY <1>7, <3>2
      <4>2. \A j \in 1 .. i - 1 : Earlier(listed'[j], row)
        BY <2>2, <4>1
      <4>3. Behind(row)'
        BY <1>1, <1>4a, <1>6, <1>10, <2>1 DEF Behind
      <4>4. Behind(listed[i])'
        BY <3>2, <4>3 DEF Behind
      <4> QED
        BY <1>2, <1>4a, <2>3, <3>2, <4>2, <4>4
    <3> QED
      BY <1>8, <3>1, <3>2
  <2> QED
    BY <1>10, <2>4 DEF NamesOrdered, Earlier
<1>17. NoNameMissed'
  <2> SUFFICES ASSUME Len(listed') < MaxListed, NEW e \in Ntfs!FileNames, Passed(e)'
               PROVE  IsListed(e)'
    BY <1>10 DEF NoNameMissed
  <2>1. n < MaxListed
    BY <1>7, <1>8
  <2>2. CASE Passed(e)
    BY <1>1, <1>9, <2>1, <2>2 DEF NoNameMissed
  <2>3. CASE ~Passed(e)
    <3>1. e.record = r /\ e.cell < o /\ e.cell \in Nat /\ e.cell \in Ntfs!Attributes(r)
      BY <1>1, <1>6, <1>11, <2>3 DEF Passed
    <3>2. CASE /\ OnTheWay(r, a)
               /\ \A p \in Ntfs!Attributes(r) : p < o => p <= a
      <4>1. e.cell <= a
        BY <3>1, <3>2
      <4>2. e.cell = a
        BY <1>1, <1>4, <2>3, <3>1, <3>2, <4>1 DEF Passed
      <4> QED
        BY <1>11, <2>1, <3>1, <4>2
    <3>3. CASE NamesListed(r)'
      <4>1. \A f \in Ntfs!FileNames : f.record = r => IsListed(f)'
        BY <1>1, <1>10, <3>3 DEF NamesListed
      <4> QED
        BY <3>1, <4>1
    <3> QED
      BY <1>12, <3>2, <3>3
  <2> QED
    BY <2>2, <2>3
<1> QED
  BY <1>13, <1>14, <1>15, <1>16, <1>17 DEF NtfsInv

LEMMA NtfsUnchanged ==
  ASSUME NtfsInv, pc' = pc, headers' = headers, image' = image,
         mftOffset' = mftOffset, header' = header, attrOffset' = attrOffset,
         attribute' = attribute, listed' = listed
  PROVE  NtfsInv'
<1>1. /\ \A r : Ntfs!Lost(r)' <=> Ntfs!Lost(r)
      /\ \A r, a : OnTheWay(r, a)' <=> OnTheWay(r, a)
      /\ Ntfs!FileNames' = Ntfs!FileNames /\ Ntfs!Deleted' = Ntfs!Deleted
  BY NtfsFixed
<1>2. NtfsType' /\ AtRecord'
  BY <1>1 DEF NtfsInv, NtfsType, AtRecord
<1>3. AtAttribute'
  BY <1>1 DEF NtfsInv, AtAttribute, NamesListed, IsListed
<1>4. NamesOrdered'
  BY <1>1 DEF NtfsInv, NamesOrdered, Behind, Earlier
<1>5. NoNameMissed'
  BY <1>1 DEF NtfsInv, NoNameMissed, Passed, IsListed
<1> QED
  BY <1>2, <1>3, <1>4, <1>5 DEF NtfsInv

LEMMA NtfsStep ==
  ASSUME NtfsInv, Ntfs!MftEnds, Ntfs!Next
  PROVE  NtfsInv'
<1>1. CASE Ntfs!Done
  <2>1. /\ pc' = pc /\ headers' = headers /\ image' = image /\ mftOffset' = mftOffset
        /\ header' = header /\ attrOffset' = attrOffset /\ attribute' = attribute
        /\ listed' = listed
    BY <1>1 DEF Ntfs!Done, Ntfs!vars
  <2> QED
    BY <2>1, NtfsUnchanged
<1> QED
  BY <1>1, SkipRecordStep, SearchRecordStep, EndMftStep, NextAttributeStep,
     EndAttributesStep DEF Ntfs!Next

(* At the end of the MFT all names are behind.                             *)
LEMMA AllBefore ==
  ASSUME NtfsInv, Ntfs!MftEnds, pc = "done", NEW e \in Ntfs!FileNames
  PROVE  e.record < mftOffset
<1>1. e.record \in 1 .. Records /\ e.record \in Ntfs!Mft
  BY NamesInside, SoundRecords DEF NtfsInv
<1>2. mftOffset \in 1 .. Records + 1 /\ headers[mftOffset] = "none"
  BY DEF NtfsInv, AtRecord
<1>3. ~(mftOffset <= e.record)
  BY <1>1, <1>2 DEF Ntfs!Mft, Ntfs!isMftRecord
<1> QED
  BY <1>1, <1>2, <1>3, ImageSizes

(* When the scan is done it has listed no fewer names than there are, if   *)
(* it can, and no more where it did not lose its way.                      *)
Enough(count) ==
    /\ count < MaxListed => Cardinality(Ntfs!FileNames) <= count
    /\ (\A r \in Ntfs!Deleted : ~Ntfs!Lost(r)) => count <= Cardinality(Ntfs!FileNames)

LEMMA NamesFinite ==
  ASSUME NtfsType, Ntfs!MftEnds
  PROVE  IsFiniteSet(Ntfs!FileNames) /\ Cardinality(Ntfs!FileNames) \in Nat
<1>1. PICK last \in Nat : last = Records * Cells
  BY ImageSizes, Products
<1> DEFINE Rows == [record : 1 .. Records, cell : 1 .. last]
           Pairs == (1 .. Records) \X (1 .. last)
           f == [p \in Pairs |-> [record |-> p[1], cell |-> p[2]]]
<1>2. IsFiniteSet(Pairs)
  <2>1. IsFiniteSet(1 .. Records) /\ IsFiniteSet(1 .. last)
    BY <1>1, ImageSizes, FS_Interval
  <2> QED
    BY <2>1, FS_Product
<1>3. f \in Surjection(Pairs, Rows)
  <2>1. f \in [Pairs -> Rows]
    OBVIOUS
  <2>2. ASSUME NEW e \in Rows PROVE \E p \in Pairs : f[p] = e
    <3>1. <<e.record, e.cell>> \in Pairs
      OBVIOUS
    <3>2. f[<<e.record, e.cell>>] = e
      BY <3>1
    <3> QED
      BY <3>1, <3>2
  <2> HIDE DEF Pairs, Rows, f
  <2> QED
    BY <2>1, <2>2 DEF Surjection
<1>4. IsFiniteSet(Rows)
  <2> HIDE DEF Rows, Pairs, f
  <2> QED
    BY <1>2, <1>3, FS_Surjection
<1>5. Ntfs!FileNames \subseteq Rows
  <2> SUFFICES ASSUME NEW e \in Ntfs!FileNames PROVE e \in Rows
    OBVIOUS
  <2>1. /\ e.record \in 1 .. Records /\ e.cell \in 1 .. last
        /\ e = [record |-> e.record, cell |-> e.cell]
    BY <1>1, NamesInside
  <2> QED
    BY <2>1
<1> HIDE DEF Rows
<1> QED
  BY <1>4, <1>5, FS_Subset, FS_CardinalityType

LEMMA AllListed ==
  ASSUME NtfsInv, Ntfs!MftEnds, pc = "done"
  PROVE  Enough(Len(listed))
<1> DEFINE n == Len(listed)
           names == Ntfs!FileNames
<1>1. /\ NtfsType /\ AtRecord /\ NamesOrdered /\ NoNameMissed
      /\ n \in Nat /\ n <= MaxListed /\ MaxListed \in Nat
      /\ listed \in [1 .. n -> Named] /\ DOMAIN listed = 1 .. n
  BY Bounds DEF NtfsInv, NtfsType
<1>2. IsFiniteSet(names) /\ Cardinality(names) \in Nat
  BY <1>1, NamesFinite
<1>3. IsFiniteSet(1 .. n) /\ Cardinality(1 .. n) = n
  <2>1. 1 \in Int /\ n \in Int
    BY <1>1
  <2>2. IsFiniteSet(1 .. n) /\ Cardinality(1 .. n) = IF 1 > n THEN 0 ELSE n - 1 + 1
    BY <2>1, FS_Interval
  <2> QED
    BY <1>1, <2>2
<1>4. ASSUME n < MaxListed PROVE Cardinality(names) <= n
  <2> DEFINE S == {i \in 1 .. n : listed[i] \in names}
             f == [i \in S |-> listed[i]]
  <2>1. \A e \in names : \E i \in S : f[i] = e
    <3> SUFFICES ASSUME NEW e \in names PROVE \E i \in S : f[i] = e
      OBVIOUS
    <3>1. PICK i \in 1 .. n : listed[i] = e
      BY <1>1, <1>4, AllBefore DEF NoNameMissed, Passed, IsListed
    <3> QED
      BY <3>1
  <2>2. f \in Surjection(S, names)
    BY <2>1 DEF Surjection
  <2>3. IsFiniteSet(S) /\ Cardinality(S) <= n
    BY <1>3, FS_Subset
  <2>4. Cardinality(names) <= Cardinality(S) /\ Cardinality(S) \in Nat
    <3> HIDE DEF S, f, names
    <3> QED
      BY <2>2, <2>3, FS_Surjection, FS_CardinalityType
  <2> HIDE DEF S, f, names
  <2> QED
    BY <1>1, <1>2, <2>3, <2>4
<1>5. ASSUME \A r \in Ntfs!Deleted : ~Ntfs!Lost(r) PROVE n <= Cardinality(names)
  <2>1. \A i \in 1 .. n :
           /\ listed[i] \in names /\ listed[i].record \in Nat /\ listed[i].cell \in Nat
           /\ \A j \in 1 .. i - 1 : \/ listed[j].record < listed[i].record
                                    \/ listed[j].cell < listed[i].cell
    BY <1>1, <1>5 DEF NamesOrdered, Earlier, Named
  <2>2. \A i, j \in 1 .. n : listed[i] = listed[j] => i = j
    <3> SUFFICES ASSUME NEW i \in 1 .. n, NEW j \in 1 .. n, i < j, listed[i] = listed[j]
                 PROVE  FALSE
      BY <1>1
    <3>1. i \in 1 .. j - 1
      BY <1>1
    <3> QED
      BY <2>1, <3>1
  <2>3. listed \in Injection(1 .. n, names)
    BY <1>1, <2>1, <2>2 DEF Injection, IsInjective
  <2> QED
    BY <1>2, <1>3, <2>3, FS_Injection
<1> QED
  BY <1>4, <1>5 DEF Enough

-----------------------------------------------------------------------------
(* The command runs the scan, and otherwise leaves it alone; what it logs  *)
(* in the end is the number of names listed.                               *)
RightCount ==
    /\ log \in Seq([text : {"searching", "listed"}, count : Nat])
    /\ \A i \in DOMAIN log : log[i].text = "listed" => Enough(log[i].count)

ScanInv ==
    /\ system = "FAT32" => FatInv
    /\ system = "NTFS" /\ Ntfs!MftEnds => NtfsInv /\ RightCount

LEMMA InitScan == Init => ScanInv
<1>1. <<>> \in Seq([text : {"searching", "listed"}, count : Nat]) /\ DOMAIN <<>> = {}
  OBVIOUS
<1> QED
  BY <1>1, FatInit, NtfsInit DEF Init, ScanInv, RightCount

LEMMA StepFat == ScanInv /\ [Next]_vars => (system' = "FAT32" => FatInv')
<1> SUFFICES ASSUME ScanInv, [Next]_vars, system' = "FAT32"
             PROVE  FatInv'
  OBVIOUS
<1>1. CASE pc' = pc /\ listed' = listed /\ fat' = fat /\ system' = system
  <2>1. /\ dir' = dir /\ pos' = pos /\ entry' = entry /\ failed' = failed
        /\ records' = records /\ name' = name /\ faults' = faults
        /\ pc' = pc /\ listed' = listed
    BY <1>1 DEF fat
  <2>2. FatInv
    BY <1>1 DEF ScanInv
  <2> QED
    BY <2>1, <2>2, Fixed
    DEF FatInv, FatType, Plain, OnEntry, Ordered, NoneMissed, Within, Run
<1>2. CASE Scan
  <2>1. system = "FAT32" /\ Fat!Next
    BY <1>2 DEF Scan
  <2> QED
    BY <2>1, FatStep DEF ScanInv
<1> QED
  BY <1>1, <1>2 DEF Next, OpenDisk, LogCount, Done, vars

LEMMA SameImage ==
  ASSUME system = "NTFS", [Next]_vars
  PROVE  headers' = headers /\ image' = image /\ system' = system
<1>1. CASE Scan
  BY <1>1 DEF Scan, Ntfs!Next, Ntfs!SkipRecord, Ntfs!SearchRecord, Ntfs!EndMft,
     Ntfs!NextAttribute, Ntfs!EndAttributes, Ntfs!Done, Ntfs!vars
<1> QED
  BY <1>1 DEF Next, OpenDisk, LogCount, Done, vars, ntfs

LEMMA StepNtfs ==
  ScanInv /\ [Next]_vars => (system' = "NTFS" /\ Ntfs!MftEnds' => NtfsInv' /\ RightCount')
<1> SUFFICES ASSUME ScanInv, [Next]_vars, system' = "NTFS", Ntfs!MftEnds'
             PROVE  NtfsInv' /\ RightCount'
  OBVIOUS
<1>1. system = "NTFS"
  BY DEF Next, OpenDisk, Scan, LogCount, Done, vars
<1>2. headers' = headers /\ image' = image
  BY <1>1, SameImage
<1>3. /\ Ntfs!MftEnds
      /\ \A c : Enough(c)' <=> Enough(c)
  <2>1. /\ Ntfs!MftEnds /\ Ntfs!FileNames' = Ntfs!FileNames /\ Ntfs!Deleted' = Ntfs!Deleted
        /\ \A r : Ntfs!Lost(r)' <=> Ntfs!Lost(r)
    BY <1>2, NtfsFixed
  <2> QED
    BY <2>1 DEF Enough
<1>4. NtfsInv /\ RightCount
  BY <1>1, <1>3 DEF ScanInv
<1>5. CASE Scan
  <2>1. Ntfs!Next /\ log' = log
    BY <1>1, <1>5 DEF Scan
  <2> QED
    BY <1>3, <1>4, <2>1, NtfsStep DEF RightCount
<1>6. CASE pc' = pc /\ listed' = listed /\ ntfs' = ntfs
  <2>1. NtfsInv'
    BY <1>2, <1>4, <1>6, NtfsUnchanged DEF ntfs
  <2>2. CASE log' = log
    BY <1>3, <1>4, <2>1, <2>2 DEF RightCount
  <2>3. CASE OpenDisk /\ log' # log
    <3>1. log' = <<[text |-> "searching", count |-> 0]>>
      BY <2>3 DEF OpenDisk
    <3>2. /\ log' \in Seq([text : {"searching", "listed"}, count : Nat])
          /\ \A i \in DOMAIN log' : log'[i].text = "searching"
      BY <3>1
    <3> QED
      BY <2>1, <3>2 DEF RightCount
  <2>4. CASE LogCount
    <3> DEFINE line == [text |-> "listed", count |-> Len(listed)]
    <3>1. Enough(Len(listed))
      BY <1>3, <1>4, <2>4, AllListed DEF LogCount
    <3>2. line \in [text : {"searching", "listed"}, count : Nat]
      BY <1>4 DEF NtfsInv, NtfsType
    <3>3. /\ log' \in Seq([text : {"searching", "listed"}, count : Nat])
          /\ DOMAIN log' = 1 .. Len(log) + 1 /\ DOMAIN log = 1 .. Len(log)
          /\ Len(log) \in Nat
          /\ \A i \in 1 .. Len(log) : log'[i] = log[i]
          /\ log'[Len(log) + 1] = line
      BY <1>4, <2>4, <3>2, AppendProperties DEF RightCount, LogCount
    <3>4. \A i \in DOMAIN log' : i \in DOMAIN log \/ i = Len(log) + 1
      BY <3>3
    <3> HIDE DEF line
    <3>5. line.count = Len(listed)
      BY DEF line
    <3>6. \A i \in DOMAIN log' : log'[i].text = "listed" => Enough(log'[i].count)
      BY <1>4, <3>1, <3>3, <3>4, <3>5 DEF RightCount
    <3> QED
      BY <1>3, <2>1, <3>3, <3>6 DEF RightCount
  <2> QED
    BY <1>6, <2>2, <2>3, <2>4 DEF Next, Scan, Done, vars, OpenDisk
<1> QED
  BY <1>5, <1>6 DEF Next, OpenDisk, LogCount, Done, vars

LEMMA StepScan == ScanInv /\ [Next]_vars => ScanInv'
BY StepFat, StepNtfs DEF ScanInv

(* In a regular FAT32 directory of any size the deleted files are listed   *)
(* in their order, each once, and none is passed over                      *)
(* (deletedFilesFat32.cpp:265-301).                                        *)
THEOREM DeletedFilesListed == FairSpec => []ListsDeletedFiles
<1>1. ScanInv => ListsDeletedFiles
  <2> SUFFICES ASSUME ScanInv, system = "FAT32", Fat!Regular, faults = 0
               PROVE  /\ \A i \in DOMAIN listed :
                            /\ listed[i].entry \in Fat!Files
                            /\ \A j \in 1 .. i - 1 : listed[j].entry < listed[i].entry
                      /\ Len(listed) < MaxListed => \A f \in Fat!Files :
                            f < pos /\ pc = "entry" =>
                              \E i \in DOMAIN listed : listed[i].entry = f
    BY DEF ListsDeletedFiles, Fat!ListsDeletedFiles
  <2>1. Ordered /\ NoneMissed
    BY DEF ScanInv, FatInv, Plain
  <2> QED
    BY <2>1 DEF Ordered, NoneMissed
<1> QED
  BY InitScan, StepScan, <1>1, PTL DEF FairSpec

(* Every name that is printed has all its pieces, the last first           *)
(* (deletedFilesFat32.cpp:274-289).                                        *)
THEOREM NamesPrinted == FairSpec => []NamesAreComplete
<1>1. ScanInv => NamesAreComplete
  <2> SUFFICES ASSUME ScanInv, system = "FAT32", Fat!Regular, faults = 0,
                      NEW i \in DOMAIN listed
               PROVE  /\ Fat!Pieces(listed[i].entry) \subseteq Fat!Positions(listed[i].name)
                      /\ \A j \in DOMAIN listed[i].name :
                            listed[i].name[j] = listed[i].entry - j
    BY DEF NamesAreComplete, Fat!NamesAreComplete
  <2>1. Assembled(dir, listed[i])
    BY DEF ScanInv, FatInv, Plain, Ordered
  <2> QED
    BY <2>1 DEF Assembled, PiecesOf, Fat!Pieces, Fat!Positions
<1> QED
  BY InitScan, StepScan, <1>1, PTL DEF FairSpec

(* On an NTFS image with any number of records of any size, the names in   *)
(* the records of deleted files that come before an attribute with a name  *)
(* of its own or with runs are all listed, in the order of the records;    *)
(* the number logged is no less, and where no deleted record has such an   *)
(* attribute nothing else is listed, and nothing twice                     *)
(* (deletedFilesNtfs.cpp:371-408, deletedFiles.cpp:81).                    *)
THEOREM DeletedNamesListed == FairSpec => []ListsDeletedNames
<1>1. ScanInv => ListsDeletedNames
  <2> SUFFICES ASSUME ScanInv, system = "NTFS", Ntfs!MftEnds
               PROVE  Ntfs!ListsDeletedNames /\ RightCount
    BY DEF ListsDeletedNames, Ntfs!ListsDeletedNames, RightCount, Enough
  <2>1. NtfsInv /\ RightCount /\ NamesOrdered
    BY DEF ScanInv, NtfsInv
  <2>2. \A i \in DOMAIN listed :
           /\ listed[i].record \in Ntfs!Deleted
           /\ listed[i] \in Ntfs!FileNames \/ Ntfs!Lost(listed[i].record)
           /\ \A j \in 1 .. i - 1 :
                 \/ listed[j].record < listed[i].record
                 \/ /\ listed[j].record = listed[i].record
                    /\ listed[j].cell < listed[i].cell \/ Ntfs!Lost(listed[i].record)
    BY <2>1 DEF NamesOrdered, Earlier
  <2>3. ASSUME Len(listed) < MaxListed, NEW e \in Ntfs!FileNames,
               e.record < mftOffset \/ pc = "done"
        PROVE  \E i \in DOMAIN listed : listed[i] = e
    <3>1. e.record < mftOffset
      BY <2>1, <2>3, AllBefore
    <3> QED
      BY <2>1, <2>3, <3>1 DEF NtfsInv, NoNameMissed, Passed, IsListed
  <2> QED
    BY <2>1, <2>2, <2>3 DEF Ntfs!ListsDeletedNames
<1> QED
  BY InitScan, StepScan, <1>1, PTL DEF FairSpec

-----------------------------------------------------------------------------
(* What is ahead of the scan of an MFT: the records, and of the one that   *)
(* is searched the cells.                                                  *)
ACell == Records * Cells + 2
AheadInRecord ==
    IF pc = "record" THEN Records * Cells + 1
    ELSE IF pc = "attribute" THEN Records * Cells + 1 - attrOffset ELSE 0
Ahead == (Records + 1 - mftOffset) * ACell + AheadInRecord

AheadBounded ==
    /\ AheadInRecord \in 0 .. ACell - 1 /\ ACell \in Nat
    /\ mftOffset \in Nat /\ Records + 1 - mftOffset \in Nat /\ Ahead \in Nat
    /\ pc = "attribute" =>
          attrOffset \in 1 .. ACell - 1 /\ AheadInRecord = ACell - 1 - attrOffset
    /\ pc = "record" => AheadInRecord = ACell - 1

LEMMA AheadIs == NtfsInv => AheadBounded
<1> SUFFICES ASSUME NtfsInv PROVE AheadBounded
  OBVIOUS
<1>1. Records * Cells \in Nat
  BY ImageSizes, Products
<1>2. mftOffset \in Nat /\ Records + 1 - mftOffset \in Nat /\ pc \in {"record", "attribute", "done"}
  BY ImageSizes DEF NtfsInv, AtRecord, NtfsType
<1>3. attrOffset \in 1 .. Records * Cells + 1
  BY DEF NtfsInv, NtfsType
<1>4. ACell \in Nat /\ ACell = Records * Cells + 2
  BY <1>1 DEF ACell
<1>5. (Records + 1 - mftOffset) * ACell \in Nat
  BY <1>2, <1>4, Products
<1>6. /\ AheadInRecord \in 0 .. ACell - 1
      /\ pc = "attribute" =>
            attrOffset \in 1 .. ACell - 1 /\ AheadInRecord = ACell - 1 - attrOffset
      /\ pc = "record" => AheadInRecord = ACell - 1
  BY <1>1, <1>2, <1>3, <1>4 DEF AheadInRecord
<1>7. Ahead \in Nat
  BY <1>4, <1>5, <1>6 DEF Ahead
<1> QED
  BY <1>2, <1>3, <1>4, <1>6, <1>7 DEF AheadBounded

(* A record less is more than the cells of one.                            *)
LEMMA RecordLess ==
  ASSUME AheadBounded, AheadBounded', AheadInRecord > 0, mftOffset' = mftOffset + 1
  PROVE  Ahead' < Ahead
<1> DEFINE m == Records + 1 - mftOffset'
<1>1. /\ AheadInRecord \in 0 .. ACell - 1 /\ ACell \in Nat
      /\ Records + 1 - mftOffset = m + 1 /\ m \in Nat
  <2>1. Records \in Nat
    BY ImageSizes
  <2>2. Records + 1 - mftOffset' \in Nat
    BY DEF AheadBounded
  <2>3. mftOffset \in Nat
    BY DEF AheadBounded
  <2> QED
    BY <2>1, <2>2, <2>3 DEF AheadBounded
<1>2. AheadInRecord' \in 0 .. ACell - 1
  BY DEF AheadBounded, ACell
<1>3. Ahead = (m + 1) * ACell + AheadInRecord /\ Ahead' = m * ACell + AheadInRecord'
  BY <1>1 DEF Ahead, ACell
<1>4. (m + 1) * ACell = m * ACell + ACell /\ m * ACell \in Nat
  BY <1>1, Products
<1>5. PICK x \in Nat : x = m * ACell
  BY <1>4
<1>6. Ahead = x + ACell + AheadInRecord /\ Ahead' = x + AheadInRecord'
  BY <1>3, <1>4, <1>5
<1> QED
  BY <1>1, <1>2, <1>5, <1>6

(* Each step leaves less ahead, unless it is sent back, or taken elsewhere *)
(* on the disk.                                                            *)
Onward ==
    /\ phase = "scan" /\ pc # "done"
    /\ pc = "attribute" => attrOffset <= Records * Cells /\ Ntfs!Step(attribute) >= 1
    /\ pc' = "attribute" => attrOffset' <= Records * Cells

LEMMA StepNearer ==
  ASSUME NtfsInv, Ntfs!MftEnds, AheadBounded, AheadBounded', Onward, Ntfs!Next
  PROVE  Ahead \in Nat /\ Ahead' \in Nat /\ Ahead' < Ahead
<1>0. headers' = headers /\ image' = image
  BY DEF Ntfs!Next, Ntfs!SkipRecord, Ntfs!SearchRecord, Ntfs!EndMft,
     Ntfs!NextAttribute, Ntfs!EndAttributes, Ntfs!Done, Ntfs!vars
<1>2. Ahead \in Nat /\ Ahead' \in Nat
  BY DEF AheadBounded
<1>3. /\ AheadInRecord \in 0 .. ACell - 1 /\ ACell \in Nat
      /\ pc = "attribute" =>
            /\ attrOffset \in 1 .. ACell - 1 /\ attrOffset < ACell - 1
            /\ AheadInRecord = ACell - 1 - attrOffset
      /\ pc = "record" => AheadInRecord = ACell - 1
      /\ AheadInRecord > 0
  <2>1. PICK last \in Nat : last = Records * Cells
    BY ImageSizes, Products
  <2>2. /\ AheadInRecord \in 0 .. ACell - 1 /\ ACell = last + 2
        /\ pc = "attribute" =>
              /\ attrOffset \in 1 .. ACell - 1 /\ attrOffset <= last
              /\ AheadInRecord = ACell - 1 - attrOffset
        /\ pc = "record" => AheadInRecord = ACell - 1
        /\ pc = "attribute" \/ pc = "record"
    BY <2>1 DEF AheadBounded, ACell, Onward, NtfsInv, NtfsType
  <2> QED
    BY <2>1, <2>2
<1>4. /\ AheadInRecord' \in 0 .. ACell - 1
      /\ pc' = "attribute" =>
            attrOffset' \in 1 .. ACell - 1 /\ AheadInRecord' = ACell - 1 - attrOffset'
  BY DEF AheadBounded, ACell
<1>5. ASSUME mftOffset' = mftOffset, AheadInRecord' < AheadInRecord
      PROVE  Ahead' < Ahead
  <2>1. (Records + 1 - mftOffset) * ACell \in Nat
    BY Products DEF AheadBounded
  <2>2. Ahead' = (Records + 1 - mftOffset) * ACell + AheadInRecord'
    BY <1>5 DEF Ahead, ACell
  <2> QED
    BY <1>3, <1>4, <1>5, <2>1, <2>2 DEF Ahead
<1>6. CASE Ntfs!SkipRecord
  <2>1. headers[mftOffset] # "none" /\ Ntfs!NextRecord /\ pc' = "record"
    BY <1>6 DEF Ntfs!SkipRecord, Ntfs!isMftRecord, NtfsInv, NtfsType, AtRecord
  <2>2. mftOffset' = mftOffset + 1
    BY <1>0, <2>1, NextRecordStep
  <2> QED
    BY <1>2, <1>3, <2>2, RecordLess
<1>7. CASE Ntfs!SearchRecord
  <2>1. pc = "record" /\ pc' = "attribute" /\ mftOffset' = mftOffset
    BY <1>7 DEF Ntfs!SearchRecord
  <2>2. AheadInRecord' < AheadInRecord
    BY <1>3, <1>4, <2>1
  <2> QED
    BY <1>2, <1>5, <2>1, <2>2
<1>8. CASE Ntfs!EndMft
  <2>1. pc = "record" /\ pc' = "done" /\ mftOffset' = mftOffset
    BY <1>8 DEF Ntfs!EndMft
  <2>2. AheadInRecord' = 0
    BY <2>1 DEF AheadInRecord
  <2> QED
    BY <1>2, <1>3, <1>5, <2>1, <2>2
<1>9. CASE Ntfs!NextAttribute
  <2>1. PICK last \in Nat : last = Records * Cells
    BY ImageSizes, Products
  <2>2. /\ pc = "attribute" /\ pc' = "attribute" /\ mftOffset' = mftOffset
        /\ attrOffset' \in Ntfs!Landings(attrOffset, Ntfs!Step(attribute))
        /\ attrOffset <= last /\ attrOffset' <= last
        /\ Ntfs!Step(attribute) >= 1
    BY <1>9, <2>1 DEF Ntfs!NextAttribute, Ntfs!ReadAttribute, Onward
  <2>3. Ntfs!Step(attribute) \in Int
    BY Forward DEF NtfsInv, NtfsType
  <2>4. attrOffset' = attrOffset + Ntfs!Step(attribute)
    BY <1>3, <2>1, <2>2, <2>3 DEF Ntfs!Landings, Ntfs!Last
  <2>5. AheadInRecord' < AheadInRecord
    BY <1>3, <1>4, <2>2, <2>3, <2>4
  <2> QED
    BY <1>2, <1>5, <2>2, <2>5
<1>10. CASE Ntfs!EndAttributes
  <2>1. /\ headers[mftOffset] # "none" /\ Ntfs!NextRecord /\ pc' = "record"
    BY <1>10, NtfsFixed
    DEF Ntfs!EndAttributes, Ntfs!Advance, NtfsInv, AtRecord, Ntfs!Deleted, Ntfs!Mft,
        Ntfs!isMftRecord
  <2>2. mftOffset' = mftOffset + 1
    BY <1>0, <2>1, NextRecordStep
  <2> QED
    BY <1>2, <1>3, <2>2, RecordLess
<1> QED
  BY <1>2, <1>6, <1>7, <1>8, <1>9, <1>10 DEF Ntfs!Next, Ntfs!Done, Onward

(* Every step of the scan of an MFT of any size that ends brings it nearer *)
(* to its end, whatever attributes its records have: no record is searched *)
(* twice, and no attribute of one taken again, but on account of a length  *)
(* that leads back or off the records.  That happens in a record in which  *)
(* the scan has lost its way, and in no other                              *)
(* (deletedFilesNtfs.cpp:371-408).                                         *)
THEOREM ScanComesNearer ==
  FairSpec =>
    /\ []((system = "NTFS" /\ Ntfs!MftEnds /\ pc = "attribute"
            /\ (attrOffset > Records * Cells \/ Ntfs!Step(attribute) < 1)) => Ntfs!Astray)
    /\ [][system = "NTFS" /\ Ntfs!MftEnds /\ Onward =>
             Ahead \in Nat /\ Ahead' \in Nat /\ Ahead' < Ahead]_vars
<1> DEFINE Sent == /\ system = "NTFS" /\ Ntfs!MftEnds /\ pc = "attribute"
                   /\ attrOffset > Records * Cells \/ Ntfs!Step(attribute) < 1
<1>1. ASSUME ScanInv, [Next]_vars
      PROVE  [system = "NTFS" /\ Ntfs!MftEnds /\ Onward =>
                Ahead \in Nat /\ Ahead' \in Nat /\ Ahead' < Ahead]_vars
  <2> SUFFICES ASSUME Next, system = "NTFS", Ntfs!MftEnds, Onward
               PROVE  Ahead \in Nat /\ Ahead' \in Nat /\ Ahead' < Ahead
    BY <1>1
  <2>1. Ntfs!Next
    <3>1. CASE LogCount
      BY <3>1 DEF LogCount, Onward
    <3> QED
      BY <3>1 DEF Next, OpenDisk, Scan, Done, Onward
  <2>2. headers' = headers /\ image' = image /\ system' = "NTFS" /\ ScanInv'
    BY <1>1, SameImage, StepScan
  <2>3. NtfsInv'
    BY <2>2, NtfsFixed DEF ScanInv
  <2>4. NtfsInv
    BY <1>1 DEF ScanInv
  <2>5. AheadBounded /\ AheadBounded'
    BY <2>3, <2>4, AheadIs, PTL
  <2> QED
    BY <2>1, <2>4, <2>5, StepNearer
<1>2. ScanInv => (Sent => Ntfs!Astray)
  <2> SUFFICES ASSUME ScanInv, Sent, OnTheWay(mftOffset, attrOffset)
               PROVE  Ntfs!Lost(mftOffset)
    BY DEF ScanInv, NtfsInv, AtAttribute, Ntfs!Astray, Ntfs!Last
  <2>1. PICK last \in Nat : last = Records * Cells
    BY ImageSizes, Products
  <2>2. NtfsInv /\ mftOffset \in 1 .. Records
    BY SoundRecords DEF ScanInv, NtfsInv, AtRecord
  <2>3. attrOffset \in 1 .. last
    BY <2>1, <2>2, AttributesInside DEF OnTheWay
  <2>4. attribute \in Ntfs!Attribute /\ Ntfs!Step(attribute) < 1
    BY <2>1, <2>2, <2>3 DEF NtfsInv, NtfsType
  <2>5. Ntfs!Step(attribute) \in Int /\ attribute.type # "end"
    BY <2>4, Forward DEF Ntfs!Step, Ntfs!Attribute
  <2>6. \A o \in Ntfs!Landings(attrOffset, Ntfs!Step(attribute)) :
           o <= attrOffset \/ o = last + 1
    BY <2>1, <2>3, <2>4, <2>5 DEF Ntfs!Landings, Ntfs!Last
  <2>7. PICK o \in Ntfs!Landings(attrOffset, Ntfs!Step(attribute)) : TRUE
    BY <2>1, <2>3 DEF Ntfs!Landings, Ntfs!Last
  <2>8. CASE OnTheWay(mftOffset, o) /\ o \in Nat /\ attrOffset < o
    <3>1. o \in 1 .. last
      BY <2>1, <2>2, <2>8, AttributesInside DEF OnTheWay
    <3> QED
      BY <2>3, <2>6, <2>8, <3>1
  <2> QED
    BY <2>2, <2>5, <2>7, <2>8, WayOn
<1> QED
  BY <1>1, <1>2, InitScan, StepScan, PTL DEF FairSpec

-----------------------------------------------------------------------------
(* Types, on every image.  Of a FAT32 directory no more pieces are counted *)
(* than entries were read.                                                 *)
FatTypes ==
    /\ Fat!TypeOK /\ records < pos
    /\ Len(listed) \in 0 .. MaxListed

NtfsTypes ==
    /\ Ntfs!TypeOK
    /\ listed \in Seq(Named) /\ Len(listed) \in 0 .. MaxListed

Types ==
    /\ TypeOK
    /\ system = "FAT32" => FatTypes
    /\ system = "NTFS" => NtfsTypes

LEMMA FatTypesStay ==
  ASSUME FatInv, FatTypes, Fat!Next
  PROVE  FatTypes'
<1>1. /\ FatType /\ N \in Nat /\ MaxListed \in Nat /\ MaxFaults \in Nat
      /\ pos \in 1 .. N + 1 /\ records \in 0 .. N /\ records < pos /\ entry \in 1 .. N
      /\ \A i \in DOMAIN listed : listed[i].entry \in 1 .. N
      /\ \A i \in DOMAIN name : name[i] \in 0 .. N
      /\ faults \in 0 .. MaxFaults /\ dir \in [1 .. N -> Fat!Entry]
  BY ImageSizes, Bounds DEF FatInv, FatType, FatTypes, Fat!TypeOK
<1>2. FatType'
  BY FatStep DEF FatInv
<1>3. faults' \in 0 .. MaxFaults
  BY <1>1 DEF Fat!Next, Fat!EndScan, Fat!SkipEntry, Fat!FoundDeleted, Fat!NextPiece,
     Fat!EndPieces, Fat!PrintName, Fat!List, Fat!Done, Fat!vars, Fat!ReadNext
<1>4. records' < pos'
  <2>1. CASE Fat!NextPiece
    <3>1. /\ records' = IF records = N THEN N ELSE records + 1
          /\ pos' = IF pos > N THEN pos ELSE pos + 1
      BY <2>1 DEF Fat!NextPiece, Fat!ReadNext
    <3> QED
      BY <1>1, <3>1
  <2>2. CASE records' = records /\ pos' = pos
    BY <1>1, <2>2
  <2>3. CASE records' = records /\ Fat!ReadNext
    BY <1>1, <2>3 DEF Fat!ReadNext
  <2>4. CASE Fat!FoundDeleted
    BY <1>1, <2>4 DEF Fat!FoundDeleted
  <2> QED
    BY <2>1, <2>2, <2>3, <2>4
    DEF Fat!Next, Fat!EndScan, Fat!SkipEntry, Fat!EndPieces, Fat!PrintName, Fat!List,
        Fat!Done, Fat!vars
<1>5. \A i \in DOMAIN name' : name'[i] \in 0 .. N
  <2>1. CASE Fat!PrintName
    <3>1. name' = [i \in 1 .. records + 1 |-> pos - i]
      BY <2>1 DEF Fat!PrintName, Fat!Printed
    <3> QED
      BY <1>1, <3>1
  <2>2. CASE name' = name
    BY <1>1, <2>2
  <2>3. CASE name' = <<>>
    BY <2>3
  <2> QED
    BY <2>1, <2>2, <2>3
    DEF Fat!Next, Fat!EndScan, Fat!SkipEntry, Fat!FoundDeleted, Fat!NextPiece,
        Fat!EndPieces, Fat!List, Fat!Done, Fat!vars
<1>6. /\ \A i \in DOMAIN listed' : listed'[i].entry \in 1 .. N
      /\ Len(listed') \in 0 .. MaxListed
  <2>1. \A i \in DOMAIN listed' : listed'[i].entry \in 1 .. N
    <3>1. listed' \in Seq(Row)
      BY <1>2 DEF FatType
    <3>2. \A i \in DOMAIN listed' : listed'[i] \in Row
      BY <3>1, ElementOfSeq, LenProperties
    <3> QED
      BY <3>2 DEF Row
  <2>2. CASE Fat!List
    <3>1. CASE Len(listed) = MaxListed
      BY <2>1, <2>2, <3>1 DEF Fat!List, FatTypes
    <3>2. CASE Len(listed) # MaxListed
      <4> DEFINE row == [entry |-> entry, name |-> name]
      <4>1. row \in Row
        BY <1>1 DEF FatType, Row
      <4>2. listed' = Append(listed, row)
        BY <2>2, <3>2 DEF Fat!List
      <4>3. Len(listed') = Len(listed) + 1
        <5> HIDE DEF row
        <5> QED
          BY <1>1, <4>1, <4>2 DEF FatType
      <4> QED
        BY <1>1, <2>1, <3>2, <4>3 DEF FatTypes
    <3> QED
      BY <3>1, <3>2
  <2>3. CASE listed' = listed
    BY <2>1, <2>3 DEF FatTypes
  <2> QED
    BY <2>1, <2>2, <2>3
    DEF Fat!Next, Fat!EndScan, Fat!SkipEntry, Fat!FoundDeleted, Fat!NextPiece,
        Fat!EndPieces, Fat!PrintName, Fat!Done, Fat!vars
<1>7. Fat!TypeOK'
  <2>1. pos' \in 0 .. N + 1
    BY <1>1, <1>2 DEF FatType
  <2> QED
    BY <1>2, <1>3, <1>5, <1>6, <2>1 DEF FatType, Fat!TypeOK
<1> QED
  BY <1>4, <1>6, <1>7 DEF FatTypes

(* What is read of an NTFS image is of its type wherever it is read.       *)
LEMMA NtfsTypesStay ==
  ASSUME NtfsTypes, Ntfs!Next
  PROVE  NtfsTypes'
<1>1. PICK last \in Nat : last = Records * Cells
  BY ImageSizes, Products
<1> DEFINE Places == [record : 1 .. Records + 2, cell : 1 .. last + 1]
<1>2. /\ Records \in Nat /\ Records >= 1 /\ MaxListed \in Nat /\ Ntfs!Last = last
      /\ headers \in [1 .. Records + 1 -> Ntfs!Header]
      /\ image \in [1 .. last -> Ntfs!Attribute]
      /\ pc \in {"record", "attribute", "done"}
      /\ mftOffset \in 1 .. Records + 2 /\ header \in Ntfs!Header
      /\ attrOffset \in 1 .. last + 1 /\ attribute \in Ntfs!Attribute
      /\ \A i \in DOMAIN listed : listed[i] \in Places
      /\ mftOffset \in 1 .. Records + 1 => header = headers[mftOffset]
      /\ attrOffset \in 1 .. last => attribute = image[attrOffset]
      /\ listed \in Seq(Named) /\ Len(listed) \in 0 .. MaxListed
  BY <1>1, ImageSizes, Bounds DEF NtfsTypes, Ntfs!TypeOK, Ntfs!Last
<1> DEFINE AtHeader == /\ mftOffset' \in 1 .. Records + 2 /\ header' \in Ntfs!Header
                       /\ mftOffset' \in 1 .. Records + 1 => header' = headers[mftOffset']
           AtCell == /\ attrOffset' \in 1 .. last + 1 /\ attribute' \in Ntfs!Attribute
                     /\ attrOffset' \in 1 .. last => attribute' = image[attrOffset']
           Kept == /\ \A i \in DOMAIN listed' : listed'[i] \in Places
                   /\ listed' \in Seq(Named) /\ Len(listed') \in 0 .. MaxListed
<1>3. headers' = headers /\ image' = image /\ pc' \in {"record", "attribute", "done"}
  BY <1>2 DEF Ntfs!Next, Ntfs!SkipRecord, Ntfs!SearchRecord, Ntfs!EndMft,
     Ntfs!NextAttribute, Ntfs!EndAttributes, Ntfs!Done, Ntfs!vars
<1>4. AtHeader
  <2>1. CASE mftOffset' = mftOffset /\ header' = header
    BY <1>2, <2>1
  <2>2. CASE Ntfs!NextRecord
    <3>1. DOMAIN headers = 1 .. Records + 1
      BY <1>2
    <3>2. /\ mftOffset' = IF mftOffset \in 1 .. Records + 1 THEN mftOffset + 1 ELSE mftOffset
          /\ mftOffset' \in 1 .. Records + 1 => header' = headers[mftOffset']
          /\ mftOffset' \notin 1 .. Records + 1 => header' \in Ntfs!Header
      BY <2>2, <3>1 DEF Ntfs!NextRecord, Ntfs!ReadHeader
    <3>3. mftOffset' \in 1 .. Records + 2
      BY <1>2, <3>2
    <3> QED
      BY <1>2, <3>2, <3>3
  <2> QED
    BY <2>1, <2>2
    DEF Ntfs!Next, Ntfs!SkipRecord, Ntfs!SearchRecord, Ntfs!EndMft,
        Ntfs!NextAttribute, Ntfs!EndAttributes, Ntfs!Advance, Ntfs!Done, Ntfs!vars
<1>5. ASSUME NEW o \in 1 .. last + 1, Ntfs!ReadAttribute(o) PROVE AtCell
  <2>1. /\ attrOffset' = o /\ (o <= last => attribute' = image[o])
        /\ ~(o <= last) => attribute' \in Ntfs!Attribute
    BY <1>2, <1>5 DEF Ntfs!ReadAttribute
  <2>2. o <= last => o \in 1 .. last
    BY <1>1
  <2> QED
    BY <1>2, <2>1, <2>2
<1>6. AtCell
  <2>1. CASE attrOffset' = attrOffset /\ attribute' = attribute
    BY <1>2, <2>1
  <2>2. CASE Ntfs!SearchRecord
    <3> DEFINE o == IF mftOffset > Records THEN last + 1 ELSE Ntfs!FirstOf(mftOffset)
    <3>1. Ntfs!ReadAttribute(o)
      BY <1>2, <2>2 DEF Ntfs!SearchRecord
    <3>2. o \in 1 .. last + 1
      <4>1. CASE mftOffset > Records
        BY <1>1, <4>1
      <4>2. CASE ~(mftOffset > Records)
        <5>1. mftOffset \in 1 .. Records
          BY <1>2, <4>2
        <5>2. Ntfs!FirstOf(mftOffset) \in 1 .. Records * Cells
          BY <5>1, FirstAttribute, AttributesInside
        <5> QED
          BY <1>1, <4>2, <5>2
      <4> QED
        BY <4>1, <4>2
    <3> HIDE DEF o
    <3> QED
      BY <1>5, <3>1, <3>2
  <2>3. CASE Ntfs!NextAttribute
    <3>1. PICK o \in Ntfs!Landings(attrOffset, Ntfs!Step(attribute)) : Ntfs!ReadAttribute(o)
      BY <2>3 DEF Ntfs!NextAttribute
    <3>2. o \in 1 .. last + 1
      BY <1>1, <1>2, <3>1 DEF Ntfs!Landings, Ntfs!Last
    <3> QED
      BY <1>5, <3>1, <3>2
  <2> QED
    BY <2>1, <2>2, <2>3
    DEF Ntfs!Next, Ntfs!SkipRecord, Ntfs!EndMft, Ntfs!EndAttributes, Ntfs!Done, Ntfs!vars
<1>7. Kept
  <2>1. CASE listed' = listed
    BY <1>2, <2>1
  <2>2. CASE /\ listed' = Append(listed, [record |-> mftOffset, cell |-> attrOffset])
             /\ Len(listed) < MaxListed
    <3> DEFINE row == [record |-> mftOffset, cell |-> attrOffset]
    <3>1. row \in Named /\ row \in Places
      BY <1>1, <1>2 DEF Named
    <3>2. /\ listed' \in Seq(Named) /\ Len(listed') = Len(listed) + 1
          /\ \A i \in 1 .. Len(listed) : listed'[i] = listed[i]
          /\ listed'[Len(listed) + 1] = row
          /\ DOMAIN listed' = 1 .. Len(listed) + 1 /\ DOMAIN listed = 1 .. Len(listed)
      <4> HIDE DEF row
      <4> QED
        BY <1>1, <1>2, <2>2, <3>1, AppendProperties DEF row
    <3> HIDE DEF row, Places
    <3>3. \A i \in DOMAIN listed' : i \in DOMAIN listed \/ i = Len(listed) + 1
      BY <1>2, <3>2
    <3>4. \A i \in DOMAIN listed' : listed'[i] \in Places
      BY <1>2, <3>1, <3>2, <3>3
    <3> QED
      BY <1>2, <2>2, <3>2, <3>4
  <2> QED
    BY <2>1, <2>2
    DEF Ntfs!Next, Ntfs!SkipRecord, Ntfs!SearchRecord, Ntfs!EndMft,
        Ntfs!NextAttribute, Ntfs!EndAttributes, Ntfs!Done, Ntfs!vars
<1>8. Ntfs!TypeOK'
  <2>1. DOMAIN headers' = 1 .. Records + 1 /\ DOMAIN image' = 1 .. last
    BY <1>2, <1>3
  <2>2. Ntfs!Last = last
    BY <1>2
  <2> QED
    BY <1>2, <1>3, <1>4, <1>6, <1>7, <2>1, <2>2 DEF Ntfs!TypeOK, Ntfs!Last
<1> QED
  BY <1>7, <1>8 DEF NtfsTypes

LEMMA InitTypes == Init => Types
<1> SUFFICES ASSUME Init PROVE Types
  OBVIOUS
<1>1. /\ N \in Nat /\ N >= 1 /\ MaxListed \in Nat /\ MaxFaults \in Nat
      /\ Records \in Nat /\ Records >= 1
  BY ImageSizes, Bounds
<1>2. DOMAIN <<>> = {} /\ Len(<<>>) = 0
  OBVIOUS
<1>3. ASSUME system = "FAT32" PROVE FatTypes
  <2>1. Fat!Init
    BY <1>3 DEF Init
  <2>2. /\ dir \in [1 .. N -> Fat!Entry] /\ pc = "entry" /\ pos = 1 /\ entry = 1
        /\ failed = FALSE /\ records = 0 /\ name = <<>> /\ listed = <<>> /\ faults = 0
    BY <2>1 DEF Fat!Init
  <2>3. pos \in 0 .. N + 1 /\ entry \in 1 .. N /\ records \in 0 .. N /\ records < pos
    BY <1>1, <2>2
  <2>4. faults \in 0 .. MaxFaults /\ Len(listed) \in 0 .. MaxListed
    BY <1>1, <1>2, <2>2
  <2>5. DOMAIN name = {} /\ DOMAIN listed = {}
    BY <1>2, <2>2
  <2> QED
    BY <2>2, <2>3, <2>4, <2>5 DEF FatTypes, Fat!TypeOK
<1>4. ASSUME system = "NTFS" PROVE NtfsTypes
  <2>1. Ntfs!Init
    BY <1>4 DEF Init
  <2>2. PICK last \in Nat : last = Records * Cells /\ 1 \in 1 .. last
    <3>1. Records * Cells \in Nat /\ 1 <= 1 * Cells /\ 1 * Cells <= Records * Cells
      BY <1>1, InTheImage, ImageSizes
    <3>2. PICK last \in Nat : last = Records * Cells
      BY <3>1
    <3> QED
      BY <3>1, <3>2, ImageSizes
  <2>3. /\ headers[1] \in Ntfs!Header /\ image[1] \in Ntfs!Attribute
        /\ image \in [1 .. last -> Ntfs!Attribute] /\ Ntfs!Last = last
    BY <1>1, <2>1, <2>2 DEF Ntfs!Init, Ntfs!Last
  <2>4. Ntfs!TypeOK
    BY <1>1, <1>2, <2>1, <2>2, <2>3 DEF Ntfs!Init, Ntfs!TypeOK
  <2>5. listed \in Seq(Named) /\ Len(listed) \in 0 .. MaxListed
    BY <1>1, <2>1 DEF Ntfs!Init
  <2> QED
    BY <2>4, <2>5 DEF NtfsTypes
<1>5. /\ log \in Seq([text : {"searching", "listed"}, count : 0 .. MaxListed])
      /\ phase = "open" /\ system \in {"FAT32", "NTFS"}
  BY DEF Init
<1> QED
  BY <1>3, <1>4, <1>5 DEF Types, TypeOK, FatTypes, NtfsTypes

LEMMA StepTypes ==
  ASSUME ScanInv, Types, [Next]_vars
  PROVE  Types'
<1> DEFINE Said == [text : {"searching", "listed"}, count : 0 .. MaxListed]
<1>1. system' = system /\ system \in {"FAT32", "NTFS"}
  BY DEF Next, OpenDisk, Scan, LogCount, Done, vars, Types, TypeOK
<1>2. ASSUME system = "FAT32" PROVE FatTypes'
  <2>1. FatInv /\ FatTypes
    BY <1>2 DEF ScanInv, Types
  <2>2. CASE Scan
    BY <1>2, <2>1, <2>2, FatTypesStay DEF Scan
  <2>3. CASE pc' = pc /\ listed' = listed /\ fat' = fat
    BY <2>1, <2>3 DEF fat, FatTypes, Fat!TypeOK
  <2> QED
    BY <2>2, <2>3 DEF Next, OpenDisk, LogCount, Done, vars
<1>3. ASSUME system = "NTFS" PROVE NtfsTypes'
  <2>1. NtfsTypes
    BY <1>3 DEF Types
  <2>2. CASE Scan
    BY <1>3, <2>1, <2>2, NtfsTypesStay DEF Scan
  <2>3. CASE pc' = pc /\ listed' = listed /\ ntfs' = ntfs
    BY <2>1, <2>3 DEF ntfs, NtfsTypes, Ntfs!TypeOK
  <2> QED
    BY <2>2, <2>3 DEF Next, OpenDisk, LogCount, Done, vars
<1>4. phase' \in {"open", "scan", "done"}
  BY DEF Next, OpenDisk, Scan, LogCount, Done, vars, Types, TypeOK
<1>5. log' \in Seq(Said)
  <2>1. log \in Seq(Said) /\ Len(listed) \in 0 .. MaxListed
    BY <1>1 DEF Types, TypeOK, FatTypes, NtfsTypes
  <2>2. CASE log' = log
    BY <2>1, <2>2
  <2>3. CASE OpenDisk /\ log' # log
    <3>1. log' = <<[text |-> "searching", count |-> 0]>>
      BY <2>3 DEF OpenDisk
    <3>2. [text |-> "searching", count |-> 0] \in Said
      BY Bounds
    <3> HIDE DEF Said
    <3> QED
      BY <3>1, <3>2
  <2>4. CASE LogCount
    <3> DEFINE line == [text |-> "listed", count |-> Len(listed)]
    <3>1. line \in Said /\ log' = Append(log, line)
      BY <2>1, <2>4 DEF LogCount
    <3> HIDE DEF line, Said
    <3> QED
      BY <2>1, <3>1
  <2> QED
    BY <2>2, <2>3, <2>4 DEF Next, Scan, Done, vars
<1> QED
  BY <1>1, <1>2, <1>3, <1>4, <1>5 DEF Types, TypeOK, FatTypes, NtfsTypes

(* Every variable keeps its type on every image: nothing is looked at in   *)
(* front of the entry before the directory, and nothing is taken from      *)
(* behind the image but what was on the stack (deletedFilesFat32.cpp:      *)
(* 265-301, deletedFilesNtfs.cpp:371-408).                                 *)
THEOREM ScanTypeCorrect == FairSpec => []TypeOK
<1>1. Types => TypeOK
  BY DEF Types
<1> QED
  BY <1>1, InitTypes, StepTypes, InitScan, StepScan, PTL DEF FairSpec

-----------------------------------------------------------------------------
(* The partitions command.                                                 *)

(* The chain of an entry, read off its place in the table.                 *)
After(i, a) == Table!Follow(table[i].start, a)
ChainIn(R, i) == Table!StaysIn(R, table[i].start)
Whole(i) == Table!Sound(table[i].start)

(* In the middle of a walk the last line of the table is that of its       *)
(* entry, and behind it are EBRs of this entry only.                       *)
Walking == walk \in {"read", "print"}

OnItsWay ==
    Walking =>
        /\ partition \in Table!Extended /\ start = table[partition].start
        /\ address # 0
        /\ index \in DOMAIN output
        /\ output[index].entry = partition /\ output[index].ebr = 0
        /\ \A k \in DOMAIN output :
              k > index => output[k].entry = partition /\ output[k].ebr # 0

InTableOrder ==
    \A k \in DOMAIN output :
        /\ output[k].entry <= partition
        /\ output[k].entry = partition => Walking /\ k >= index

(* The EBR to be read next, as long as no read has failed.                 *)
NextInChain ==
    Walking /\ partition \notin unread =>
        /\ \A k \in Table!Listed(partition) : output[k].sure
        /\ Whole(partition) =>
              /\ \/ Len(output) = index + MaxEbrs
                 \/ address = IF Len(output) \in Table!Listed(partition)
                              THEN After(partition, output[Len(output)].ebr) ELSE start
              /\ \A R \in SUBSET Table!Body : ChainIn(R, partition) => address \in R

ReadRight ==
    walk = "print" /\ partition \notin unread /\ Table!Located(address) \in Table!Sector =>
        this_ebr = disk[Table!Located(address)]

(* What is listed of an entry ...                                          *)
ListedRight(i) ==
    \A k \in Table!Listed(i) : output[k].sure =>
        /\ \A j \in Table!Listed(i) : j < k =>
              output[j].sure /\ output[j].ebr # output[k].ebr
        /\ Table!InOrder(i, k)
        /\ \A R \in SUBSET Table!Body : ChainIn(R, i) => output[k].ebr \in R

(* ... and what is when its walk is over: the next line of the table takes *)
(* the place of its EBRs.                                                  *)
WalkOver(i) ==
    partition > i /\ i \notin unread =>
        IF Table!Overwritten(i) THEN Table!Listed(i) = {}
        ELSE Table!Complete(i) /\ \A k \in Table!Listed(i) : k > index

SignedOnly ==
    \A k \in DOMAIN output :
        output[k].ebr # 0 /\ output[k].sure /\ Table!Located(output[k].ebr) \in Table!Sector
            => disk[Table!Located(output[k].ebr)].signed

TableInv ==
    /\ Table!TypeOK
    /\ OnItsWay /\ InTableOrder /\ NextInChain /\ ReadRight /\ SignedOnly
    /\ \A i \in Table!Extended : Whole(i) => ListedRight(i) /\ WalkOver(i)

-----------------------------------------------------------------------------
LEMMA InitTable ==
    Table!Init => TableInv
  <1> SUFFICES ASSUME Table!Init PROVE TableInv
    OBVIOUS
  <1>0. output = <<>> /\ DOMAIN output = {} /\ Len(output) = 0 /\ walk = "mbr" /\ partition = 1
    BY DEF Table!Init
  <1>1. Table!TypeOK
    BY <1>0, TableSizes, Bounds DEF Table!Init, Table!TypeOK, Table!Sector, Table!Ebr
  <1> QED
    BY <1>0, <1>1 DEF TableInv, OnItsWay, InTableOrder, NextInChain, ReadRight, SignedOnly,
         ListedRight, WalkOver, Walking, Table!Listed, Table!Extended

(* What happens to the lines in a step.                                    *)
LEMMA OutputSeq ==
    ASSUME Table!TypeOK
    PROVE  /\ output \in Seq(Table!Line) /\ Len(output) \in Nat /\ index \in 0 .. Len(output)
           /\ DOMAIN output = 1 .. Len(output)
           /\ \A k \in DOMAIN output :
                /\ output[k].entry \in 1 .. Entries
                /\ output[k].ebr \in 0 .. 2 * Sectors /\ output[k].sure \in BOOLEAN
  <1>1. output \in Seq(Table!Line) /\ Len(output) \in Nat /\ index \in 0 .. Len(output)
    BY DEF Table!TypeOK
  <1>2. \A k \in DOMAIN output : output[k] \in Table!Line
    BY <1>1, ElementOfSeq, LenProperties
  <1> QED
    BY <1>1, <1>2, LenProperties DEF Table!Line

LEMMA TableLine ==
    ASSUME Table!TypeOK, Table!PrintEntry, partition \in 1 .. Entries
    PROVE  /\ output' \in Seq(Table!Line) /\ Len(output') = index + 1 /\ index' = index + 1
           /\ \A k \in 1 .. index : output'[k] = output[k]
           /\ output'[index + 1] = [entry |-> partition, ebr |-> 0, sure |-> TRUE]
  <1> DEFINE l == [entry |-> partition, ebr |-> 0, sure |-> TRUE]
             s == SubSeq(output, 1, index)
  <1>1. l \in Table!Line
    BY TableSizes, Bounds DEF Table!Line
  <1>2. /\ s \in Seq(Table!Line) /\ Len(s) = index
        /\ \A k \in 1 .. index : s[k] = output[k]
    BY OutputSeq, SubSeqProperties
  <1>3. output' = Append(s, l)
    BY DEF Table!PrintEntry
  <1> HIDE DEF l, s
  <1>4. /\ output' \in Seq(Table!Line) /\ Len(output') = Len(s) + 1
        /\ \A k \in 1 .. Len(s) : output'[k] = s[k]
        /\ output'[Len(s) + 1] = l
    BY <1>1, <1>2, <1>3, AppendProperties
  <1> QED
    BY <1>2, <1>4 DEF l, Table!PrintEntry

EbrLine == [entry |-> partition, ebr |-> address, sure |-> partition \notin unread]

LEMMA EbrAppended ==
    ASSUME Table!TypeOK, partition \in 1 .. Entries,
           output' = Append(output, EbrLine)
    PROVE  /\ output' \in Seq(Table!Line) /\ Len(output') = Len(output) + 1
           /\ \A k \in 1 .. Len(output) : output'[k] = output[k]
           /\ output'[Len(output) + 1] = EbrLine
  <1>1. EbrLine \in Table!Line
    BY DEF Table!Line, Table!TypeOK, EbrLine
  <1>2. output \in Seq(Table!Line)
    BY OutputSeq
  <1> QED
    BY <1>1, <1>2, AppendProperties

LEMMA StepTableType ==
    ASSUME Table!TypeOK, [Table!Next]_(Table!vars),
           Walking => partition \in 1 .. Entries /\ start = table[partition].start
    PROVE  Table!TypeOK'
  <1> USE DEF Table!image
  <1>0. /\ fd \in BOOLEAN /\ table \in [1 .. Entries -> Table!Slot]
        /\ disk \in [Table!Sector -> Table!Ebr]
        /\ partition \in 1 .. Entries + 1 /\ start \in 0 .. Sectors
        /\ address \in 0 .. 2 * Sectors /\ this_ebr \in Table!Ebr
        /\ unread \subseteq 1 .. Entries /\ misses \in 0 .. MaxFaults
        /\ output \in Seq(Table!Line) /\ index \in 0 .. Len(output)
        /\ Sectors \in Nat /\ Entries \in Nat /\ MaxFaults \in Nat
    BY TableSizes, Bounds DEF Table!TypeOK
  <1>1. CASE UNCHANGED Table!vars
    BY <1>1 DEF Table!TypeOK, Table!vars
  <1>2. CASE Table!ReadMbr
    BY <1>0, <1>2 DEF Table!TypeOK, Table!ReadMbr
  <1>3. CASE Table!NextEntry
    <2>1. partition \in 1 .. Entries /\ partition + 1 \in 1 .. Entries + 1
      BY <1>0, <1>3 DEF Table!NextEntry
    <2>2. table[partition].start \in 0 .. Sectors
      BY <1>0, <2>1, TableSizes, Bounds DEF Table!Slot
    <2>3. table[partition].start \in 0 .. 2 * Sectors
      BY <1>0, <2>2
    <2>4. CASE ~Table!PrintEntry
      BY <1>0, <1>3, <2>1, <2>4 DEF Table!TypeOK, Table!NextEntry
    <2>5. CASE Table!PrintEntry
      <3>1. output' \in Seq(Table!Line) /\ index' \in 0 .. Len(output')
        BY <1>0, <2>1, <2>5, TableLine
      <3> QED
        BY <1>0, <1>3, <2>1, <2>2, <2>3, <3>1 DEF Table!TypeOK, Table!NextEntry
    <2> QED
      BY <2>4, <2>5
  <1>4. CASE Table!EndTable
    BY <1>0, <1>4 DEF Table!TypeOK, Table!EndTable
  <1>5. CASE Table!ReadEbr
    <2>1. Table!Located(address) \in Table!Sector =>
             disk[Table!Located(address)] \in Table!Ebr
      BY <1>0
    <2>2. partition \in 1 .. Entries
      BY <1>5 DEF Table!ReadEbr, Walking
    <2> QED
      <3>1. this_ebr' \in Table!Ebr
        BY <1>0, <1>5, <2>1 DEF Table!ReadEbr
      <3>a. walk' = "print" /\ (unread' = unread \/ unread' = unread \cup {partition})
        BY <1>5 DEF Table!ReadEbr
      <3>b. misses' = misses \/ (misses < MaxFaults /\ misses' = misses + 1)
        BY <1>5 DEF Table!ReadEbr
      <3>c. misses' \in 0 .. MaxFaults
        BY <1>0, <3>b
      <3>2. unread' \subseteq 1 .. Entries /\ misses' \in 0 .. MaxFaults /\ walk' = "print"
        BY <1>0, <2>2, <3>a, <3>c
      <3>3. UNCHANGED <<fd, table, disk, partition, start, address, output, index>>
        BY <1>5 DEF Table!ReadEbr
      <3> QED
        BY <1>0, <3>1, <3>2, <3>3 DEF Table!TypeOK
  <1>6. CASE Table!PrintEbr
    <2>1. partition \in 1 .. Entries /\ partition + 1 \in 1 .. Entries + 1
      BY <1>0, <1>6 DEF Table!PrintEbr, Walking
    <2>2. output' = output \/ output' = Append(output, EbrLine)
      BY <1>6 DEF Table!PrintEbr, EbrLine
    <2>3. output' \in Seq(Table!Line) /\ Len(output') \in Nat /\ Len(output) <= Len(output')
      BY <1>0, <2>1, <2>2, EbrAppended
    <2>4. index' \in 0 .. Len(output')
      BY <1>0, <1>6, <2>3 DEF Table!PrintEbr
    <2>5. Table!Linked(this_ebr.next) \in 0 .. 2 * Sectors
      <3>1. this_ebr.next \in Table!Sector
        BY <1>0 DEF Table!Ebr
      <3>2. this_ebr.next \in 0 .. Sectors - 1 /\ start \in 0 .. Sectors
        BY <1>0, <3>1 DEF Table!Sector
      <3> QED
        BY <1>0, <3>2 DEF Table!Linked
    <2>6. address' \in 0 .. 2 * Sectors
      BY <1>0, <1>6, <2>5 DEF Table!PrintEbr
    <2>7. walk' \in {"read", "table"} /\ partition' \in 1 .. Entries + 1
      BY <1>0, <1>6, <2>1 DEF Table!PrintEbr
    <2>8. UNCHANGED <<fd, table, disk, start, this_ebr, unread, misses>>
      BY <1>6 DEF Table!PrintEbr
    <2> QED
      BY <1>0, <2>3, <2>4, <2>6, <2>7, <2>8 DEF Table!TypeOK
  <1>7. CASE Table!Done
    BY <1>7 DEF Table!TypeOK, Table!Done, Table!vars
  <1> QED
    BY <1>1, <1>2, <1>3, <1>4, <1>5, <1>6, <1>7 DEF Table!Next

-----------------------------------------------------------------------------
(* The image stays as it is, and with it every chain.                      *)
LEMMA SameDisk ==
    ASSUME table' = table, disk' = disk, NEW i
    PROVE  /\ Table!Extended' = Table!Extended /\ Whole(i)' = Whole(i)
           /\ \A R : ChainIn(R, i)' = ChainIn(R, i)
           /\ \A a : After(i, a)' = After(i, a)
  BY DEF Table!Extended, Whole, ChainIn, After, Table!Sound, Table!StaysIn, Table!Follow

LEMMA SameLines ==
    ASSUME table' = table, disk' = disk, output' = output, NEW i
    PROVE  /\ Table!Listed(i)' = Table!Listed(i)
           /\ Table!Overwritten(i)' = Table!Overwritten(i)
           /\ Table!Complete(i)' = Table!Complete(i)
           /\ ListedRight(i)' = ListedRight(i)
           /\ SignedOnly' = SignedOnly
  <1>1. Table!Listed(i)' = Table!Listed(i)
    BY DEF Table!Listed
  <1>2. Table!Overwritten(i)' = Table!Overwritten(i)
    BY DEF Table!Overwritten
  <1>3. Table!Complete(i)' = Table!Complete(i)
    BY <1>1 DEF Table!Complete, Table!Follow
  <1>4. \A k : Table!InOrder(i, k)' = Table!InOrder(i, k)
    BY <1>1 DEF Table!InOrder, Table!Follow
  <1>5. \A R : ChainIn(R, i)' = ChainIn(R, i)
    BY SameDisk
  <1>6. ListedRight(i)' = ListedRight(i)
    BY <1>1, <1>4, <1>5 DEF ListedRight
  <1> QED
    BY <1>1, <1>2, <1>3, <1>6 DEF SignedOnly, Table!Located

(* A step that prints nothing and is no part of a walk.                    *)
LEMMA QuietTable ==
    ASSUME TableInv, UNCHANGED <<table, disk, output, index, unread>>,
           Walking \/ Walking' =>
              UNCHANGED <<walk, partition, start, address, this_ebr>>,
           \/ partition' = partition
           \/ /\ partition \in Nat /\ partition \notin Table!Extended
              /\ partition' = partition + 1
    PROVE  /\ OnItsWay' /\ InTableOrder' /\ NextInChain' /\ ReadRight' /\ SignedOnly'
           /\ \A i \in Table!Extended' : Whole(i)' => ListedRight(i)' /\ WalkOver(i)'
  <1>0. Table!TypeOK /\ OnItsWay /\ InTableOrder /\ NextInChain /\ ReadRight /\ SignedOnly
    BY DEF TableInv
  <1>1. Table!Extended' = Table!Extended
    BY DEF Table!Extended
  <1>2. OnItsWay'
    BY <1>0, <1>1 DEF OnItsWay, Walking
  <1>3. InTableOrder'
    <2>1. CASE partition' = partition
      BY <1>0, <2>1 DEF InTableOrder, Walking
    <2>2. CASE ~Walking /\ partition \in Nat /\ partition' = partition + 1
      <3>1. \A k \in DOMAIN output : output[k].entry \in Nat /\ output[k].entry <= partition
        BY <1>0, OutputSeq DEF InTableOrder
      <3>2. \A x \in Nat : x <= partition => x <= partition + 1 /\ x # partition + 1
        BY <2>2
      <3> QED
        BY <2>2, <3>1, <3>2 DEF InTableOrder
    <2> QED
      BY <2>1, <2>2, <1>0 DEF OnItsWay
  <1>4. NextInChain' /\ ReadRight'
    <2>1. CASE ~Walking'
      BY <2>1 DEF NextInChain, ReadRight, Walking
    <2>2. CASE Walking'
      <3>1. UNCHANGED <<table, disk, output, unread, walk, partition, start, address, this_ebr>>
        BY <2>2
      <3> QED
        BY <1>0, <3>1 DEF NextInChain, ReadRight, Walking, Table!Listed, Whole, Table!Sound,
             Table!StaysIn, Table!Follow, ChainIn, After, Table!Located
    <2> QED
      BY <2>1, <2>2
  <1>5. SignedOnly'
    BY <1>0 DEF SignedOnly, Table!Located
  <1>6. ASSUME NEW i \in Table!Extended, Whole(i)' PROVE ListedRight(i)' /\ WalkOver(i)'
    <2>1. Whole(i) /\ ListedRight(i) /\ WalkOver(i)
      BY <1>6, SameDisk DEF TableInv
    <2>2. i \in Nat /\ partition \in Nat
      BY <1>0 DEF Table!Extended, Table!TypeOK
    <2>3. partition' > i => partition > i
      BY <1>6, <2>2
    <2> QED
      BY <2>1, <2>3, SameLines DEF WalkOver
  <1> QED
    BY <1>1, <1>2, <1>3, <1>4, <1>5, <1>6

(* The next line of the table takes the place of the EBRs behind index.    *)
LEMMA LinePrinted ==
    ASSUME TableInv, Table!NextEntry, table[partition].type # "none"
    PROVE  /\ OnItsWay' /\ InTableOrder' /\ NextInChain' /\ ReadRight' /\ SignedOnly'
           /\ \A i \in Table!Extended' : Whole(i)' => ListedRight(i)' /\ WalkOver(i)'
  <1>0. /\ Table!TypeOK /\ InTableOrder /\ SignedOnly
        /\ \A i \in Table!Extended : Whole(i) => ListedRight(i) /\ WalkOver(i)
    BY DEF TableInv
  <1>1. PICK p : p = partition
    OBVIOUS
  <1>2. PICK n : n = index
    OBVIOUS
  <1>3. p \in 1 .. Entries /\ n \in Nat /\ n <= Len(output) /\ Len(output) \in Nat /\ Entries \in Nat
    BY <1>0, <1>1, <1>2, OutputSeq, TableSizes, Bounds DEF Table!NextEntry, Table!TypeOK
  <1>4. Table!PrintEntry /\ UNCHANGED <<table, disk, unread>>
    BY DEF Table!NextEntry, Table!image
  <1>5. /\ DOMAIN output' = 1 .. n + 1 /\ index' = n + 1 /\ output' \in Seq(Table!Line)
        /\ \A k \in 1 .. n : output'[k] = output[k]
        /\ output'[n + 1].entry = p /\ output'[n + 1].ebr = 0
    BY <1>0, <1>1, <1>2, <1>3, <1>4, TableLine, LenProperties
  <1>6. DOMAIN output = 1 .. Len(output)
    BY <1>0, OutputSeq
  <1>7. \A k \in 1 .. n : k \in DOMAIN output /\ k # n + 1
    BY <1>3, <1>6
  <1>8. \A k \in DOMAIN output' : k \in 1 .. n \/ k = n + 1
    BY <1>3, <1>5
  <1>9. \A k \in 1 .. n : output[k].entry \in Nat /\ output[k].entry < p
    <2>1. walk = "table"
      BY DEF Table!NextEntry
    <2>2. \A k \in DOMAIN output :
             output[k].entry \in 1 .. Entries /\ output[k].entry <= p /\ output[k].entry # p
      BY <1>0, <1>1, <2>1, OutputSeq DEF InTableOrder, Walking
    <2> QED
      BY <1>3, <1>7, <2>2
  <1>10. \/ /\ p \in Table!Extended /\ walk' = "read" /\ partition' = p
             /\ start' = table[p].start /\ address' = start'
         \/ /\ p \notin Table!Extended /\ walk' = "table" /\ partition' = p + 1
    BY <1>1, <1>3 DEF Table!NextEntry, Table!Extended
  <1>11. Table!Extended' = Table!Extended
    BY <1>4 DEF Table!Extended
  <1>12. \A i : Table!Listed(i)' = {k \in Table!Listed(i) : k <= n}
    <2> TAKE i
    <2>1. ASSUME NEW k \in Table!Listed(i)' PROVE k \in Table!Listed(i) /\ k <= n
      <3>1. k \in 1 .. n
        BY <1>5, <1>8, <2>1 DEF Table!Listed
      <3> QED
        BY <1>3, <1>5, <1>7, <2>1, <3>1 DEF Table!Listed
    <2>2. ASSUME NEW k \in Table!Listed(i), k <= n PROVE k \in Table!Listed(i)'
      <3>1. k \in 1 .. n /\ k \in 1 .. n + 1
        BY <1>3, <1>6, <2>2 DEF Table!Listed
      <3> QED
        BY <1>5, <2>2, <3>1 DEF Table!Listed
    <2> QED
      BY <2>1, <2>2
  <1>13. OnItsWay'
    <2> SUFFICES ASSUME Walking' PROVE OnItsWay'
      BY DEF OnItsWay
    <2>1. p \in Table!Extended /\ partition' = p /\ start' = table[p].start /\ address' = start'
      BY <1>10 DEF Walking
    <2>2. start' # 0
      BY <1>0, <1>3, <2>1 DEF Table!TypeOK, Table!Slot, Table!Extended
    <2>3. index' \in DOMAIN output' /\ \A k \in DOMAIN output' : ~(k > index')
      BY <1>3, <1>5
    <2> QED
      BY <1>4, <1>5, <1>11, <2>1, <2>2, <2>3 DEF OnItsWay
  <1>14. InTableOrder'
    <2>1. partition' \in {p, p + 1}
      BY <1>10
    <2>2. \A k \in 1 .. n : output'[k].entry <= partition' /\ output'[k].entry # partition'
      <3> TAKE k \in 1 .. n
      <3>1. output'[k].entry \in Nat /\ output'[k].entry < p
        BY <1>5, <1>9
      <3> QED
        BY <1>3, <2>1, <3>1
    <2>3. /\ p <= partition'
          /\ p = partition' => Walking' /\ n + 1 >= index'
      BY <1>3, <1>5, <1>10 DEF Walking
    <2> QED
      BY <1>5, <1>8, <2>2, <2>3 DEF InTableOrder
  <1>15. Table!Listed(p)' = {}
    <2>1. \A k \in Table!Listed(p) : ~(k <= n)
      BY <1>3, <1>6, <1>9 DEF Table!Listed
    <2> QED
      BY <1>12, <2>1
  <1>16. NextInChain'
    <2> SUFFICES ASSUME Walking', partition' \notin unread' PROVE NextInChain'
      BY DEF NextInChain
    <2>1. partition' = p /\ address' = start' /\ start' = table'[p].start
      BY <1>4, <1>10 DEF Walking
    <2>2. Table!Listed(partition)' = {}
      BY <1>15, <2>1 DEF Table!Listed
    <2>3. \A R : ChainIn(R, p)' => address' \in R
      BY <2>1 DEF ChainIn, Table!StaysIn
    <2> QED
      BY <2>1, <2>2, <2>3 DEF NextInChain, ChainIn
  <1>17. ReadRight'
    BY <1>10 DEF ReadRight
  <1>11a. SignedOnly'
    BY <1>0, <1>4, <1>5, <1>7, <1>8 DEF SignedOnly, Table!Located
  <1>19. ASSUME NEW i \in Table!Extended, Whole(i)' PROVE ListedRight(i)' /\ WalkOver(i)'
    <2>1. Whole(i) /\ ListedRight(i) /\ WalkOver(i)
      BY <1>0, <1>4, <1>19, SameDisk
    <2>2. i \in Nat
      BY <1>0 DEF Table!Extended, Table!TypeOK
    <2>3. ListedRight(i)'
      <3> SUFFICES ASSUME NEW k \in Table!Listed(i)', output'[k].sure
                   PROVE  /\ \A j \in Table!Listed(i)' : j < k =>
                                output'[j].sure /\ output'[j].ebr # output'[k].ebr
                          /\ Table!InOrder(i, k)'
                          /\ \A R \in SUBSET Table!Body' : ChainIn(R, i)' => output'[k].ebr \in R
        BY DEF ListedRight
      <3>1. \A j \in Table!Listed(i)' : j \in Table!Listed(i) /\ j \in 1 .. n
        <4>1. \A j \in Table!Listed(i) : j \in DOMAIN output
          BY DEF Table!Listed
        <4> QED
          BY <1>3, <1>6, <1>12, <4>1
      <3>2. \A j \in Table!Listed(i)' : j \in Table!Listed(i) /\ output'[j] = output[j]
        BY <1>5, <3>1
      <3>3. k - 1 \in Table!Listed(i)' <=> k - 1 \in Table!Listed(i)
        <4>1. k \in 1 .. n
          BY <3>1
        <4>2. k - 1 <= n
          BY <1>3, <4>1
        <4> QED
          BY <1>12, <4>2
      <3>4. Table!InOrder(i, k)'
        <4>1. Table!InOrder(i, k)
          BY <2>1, <3>2 DEF ListedRight
        <4> QED
          BY <1>4, <3>2, <3>3, <4>1 DEF Table!InOrder, Table!Follow
      <3>5. \A R \in SUBSET Table!Body' : ChainIn(R, i)' => output'[k].ebr \in R
        BY <1>4, <2>1, <3>2, SameDisk DEF ListedRight, Table!Body
      <3>6. \A j \in Table!Listed(i)' : j < k => output'[j].sure /\ output'[j].ebr # output'[k].ebr
        BY <2>1, <3>2 DEF ListedRight
      <3> QED
        BY <3>4, <3>5, <3>6
    <2>4. WalkOver(i)'
      <3> SUFFICES ASSUME partition' > i, i \notin unread'
                   PROVE  Table!Overwritten(i)' /\ Table!Listed(i)' = {}
        BY DEF WalkOver
      <3>1. p > i
        BY <1>3, <1>10, <1>19, <2>2
      <3>2. Table!Overwritten(i)'
        <4>1. n + 1 \in DOMAIN output' /\ output'[n + 1].entry > i
          BY <1>3, <1>5, <3>1
        <4> QED
          BY <4>1 DEF Table!Overwritten
      <3>3. \A k \in Table!Listed(i) : k > n
        BY <1>1, <1>2, <1>4, <2>1, <3>1 DEF WalkOver
      <3>4. \A k \in Table!Listed(i) : k \in Nat
        BY <1>6 DEF Table!Listed
      <3>5. \A k \in Table!Listed(i) : ~(k <= n)
        BY <1>3, <3>3, <3>4
      <3> QED
        BY <1>12, <3>2, <3>5
    <2> QED
      BY <2>3, <2>4
  <1> QED
    BY <1>11, <1>13, <1>14, <1>16, <1>17, <1>11a, <1>19

LEMMA EbrRead ==
    ASSUME TableInv, Table!ReadEbr
    PROVE  /\ OnItsWay' /\ InTableOrder' /\ NextInChain' /\ ReadRight' /\ SignedOnly'
           /\ \A i \in Table!Extended' : Whole(i)' => ListedRight(i)' /\ WalkOver(i)'
  <1>0. /\ Table!TypeOK /\ OnItsWay /\ InTableOrder /\ NextInChain /\ SignedOnly
        /\ \A i \in Table!Extended : Whole(i) => ListedRight(i) /\ WalkOver(i)
    BY DEF TableInv
  <1>1. /\ UNCHANGED <<table, disk, output, index, partition, start, address>>
        /\ Walking /\ Walking' /\ walk' = "print"
        /\ unread' = unread \/ unread' = unread \cup {partition}
    BY DEF Table!ReadEbr, Table!image, Walking
  <1>2. Table!Extended' = Table!Extended
    BY <1>1 DEF Table!Extended
  <1>3. OnItsWay' /\ InTableOrder'
    BY <1>0, <1>1, <1>2 DEF OnItsWay, InTableOrder
  <1>4. NextInChain'
    <2>1. partition' \notin unread' => partition \notin unread
      BY <1>1
    <2> QED
      BY <1>0, <1>1, <2>1 DEF NextInChain, Table!Listed, Whole, Table!Sound, Table!StaysIn,
           Table!Follow, ChainIn, After
  <1>5. ReadRight'
    BY <1>1 DEF ReadRight, Table!ReadEbr, Table!Located, Table!Sector
  <1>6. SignedOnly'
    BY <1>0, <1>1, SameLines
  <1>7. ASSUME NEW i \in Table!Extended, Whole(i)' PROVE ListedRight(i)' /\ WalkOver(i)'
    <2>1. Whole(i) /\ ListedRight(i) /\ WalkOver(i)
      BY <1>0, <1>1, <1>7, SameDisk
    <2>2. i \notin unread' => i \notin unread
      BY <1>1
    <2> QED
      BY <1>1, <2>1, <2>2, SameLines DEF WalkOver
  <1> QED
    BY <1>2, <1>3, <1>4, <1>5, <1>6, <1>7

(* The EBR in the buffer is the one of its chain.                          *)
LEMMA EbrAtHand ==
    ASSUME TableInv, walk = "print", partition \notin unread, Whole(partition)
    PROVE  /\ address \in Table!Body /\ this_ebr = disk[address] /\ this_ebr.signed
           /\ Table!Linked(this_ebr.next) = After(partition, address)
           /\ \A R \in SUBSET Table!Body : ChainIn(R, partition) =>
                 address \in R /\ After(partition, address) \in R \cup {0}
  <1>1. /\ Table!TypeOK /\ OnItsWay /\ NextInChain /\ ReadRight /\ Walking
    BY DEF TableInv, Walking
  <1>2. PICK R \in SUBSET Table!Body : ChainIn(R, partition)
    BY DEF Whole, ChainIn, Table!Sound
  <1>3. \A Q \in SUBSET Table!Body : ChainIn(Q, partition) => address \in Q
    BY <1>1 DEF NextInChain
  <1>4. address \in Table!Body /\ address < Wrap /\ disk[address].signed
    BY <1>2, <1>3 DEF ChainIn, Table!StaysIn
  <1>5. Table!Located(address) = address /\ address \in Table!Sector
    BY <1>4, TableSizes, Bounds DEF Table!Located, Table!Body, Table!Sector
  <1>6. this_ebr = disk[address]
    BY <1>1, <1>5 DEF ReadRight
  <1>7. Table!Linked(this_ebr.next) = After(partition, address)
    BY <1>1, <1>6 DEF Table!Linked, After, Table!Follow, OnItsWay
  <1>8. \A Q \in SUBSET Table!Body : ChainIn(Q, partition) =>
           address \in Q /\ After(partition, address) \in Q \cup {0}
    BY <1>3 DEF ChainIn, Table!StaysIn, After
  <1> QED
    BY <1>4, <1>6, <1>7, <1>8

(* The walk has listed what is behind index, ...                           *)
LEMMA ListedNow ==
    ASSUME TableInv, Walking
    PROVE  Table!Listed(partition) = index + 1 .. Len(output)
  <1>1. Table!TypeOK /\ OnItsWay /\ InTableOrder
    BY DEF TableInv
  <1>2. /\ DOMAIN output = 1 .. Len(output) /\ Len(output) \in Nat /\ index \in 1 .. Len(output)
        /\ \A k \in DOMAIN output : k > index => output[k].entry = partition /\ output[k].ebr # 0
        /\ \A k \in DOMAIN output : output[k].entry = partition => k >= index
        /\ output[index].ebr = 0
    BY <1>1, OutputSeq DEF OnItsWay, InTableOrder
  <1>3. \A k \in Table!Listed(partition) : k \in index + 1 .. Len(output)
    <2> TAKE k \in Table!Listed(partition)
    <2>1. k \in 1 .. Len(output) /\ k >= index /\ k # index
      BY <1>2 DEF Table!Listed
    <2> QED
      BY <1>2, <2>1
  <1>4. \A k \in index + 1 .. Len(output) : k \in DOMAIN output /\ k > index
    BY <1>2
  <1>5. \A k \in index + 1 .. Len(output) : k \in Table!Listed(partition)
    BY <1>2, <1>4 DEF Table!Listed
  <1> QED
    BY <1>3, <1>5

(* ... and never comes to an EBR again: those listed would be a chain      *)
(* without an end.                                                         *)
LEMMA NoneTwice ==
    ASSUME TableInv, Walking, partition \notin unread, Whole(partition),
           address = IF Len(output) \in Table!Listed(partition)
                     THEN After(partition, output[Len(output)].ebr) ELSE start,
           NEW j \in Table!Listed(partition)
    PROVE  output[j].ebr # address
  <1> SUFFICES ASSUME output[j].ebr = address PROVE FALSE
    OBVIOUS
  <1> DEFINE Lines == Table!Listed(partition)
             R == {output[k].ebr : k \in Lines}
  <1>0. /\ Table!TypeOK /\ OnItsWay /\ NextInChain /\ ListedRight(partition)
        /\ start = table[partition].start
    BY DEF TableInv, OnItsWay
  <1>1. /\ Lines = index + 1 .. Len(output) /\ index \in Nat /\ Len(output) \in Nat
        /\ DOMAIN output = 1 .. Len(output)
    BY <1>0, ListedNow, OutputSeq DEF Table!TypeOK
  <1>2. \A k \in Lines : Table!InOrder(partition, k) /\ output[k].sure
    BY <1>0 DEF ListedRight, NextInChain
  <1>3. R \in SUBSET Table!Body
    <2>1. PICK Q \in SUBSET Table!Body : ChainIn(Q, partition)
      BY DEF Whole, ChainIn, Table!Sound
    <2>2. \A k \in Lines : output[k].ebr \in Q
      BY <1>0, <1>2, <2>1 DEF ListedRight
    <2> QED
      BY <2>1, <2>2
  <1>4. start \in R
    <2>1. index + 1 \in Lines /\ (index + 1) - 1 \notin Lines
      BY <1>1
    <2> HIDE DEF Lines
    <2>2. output[index + 1].ebr = start
      BY <1>0, <1>2, <2>1 DEF Table!InOrder, Lines
    <2> QED
      BY <2>1, <2>2
  <1>5. \A a \in R : After(partition, a) \in R
    <2> SUFFICES ASSUME NEW k \in Lines PROVE After(partition, output[k].ebr) \in R
      OBVIOUS
    <2>1. CASE k = Len(output)
      <3>1. address = After(partition, output[k].ebr)
        BY <2>1
      <3> QED
        BY <3>1
    <2>2. CASE k # Len(output)
      <3>1. k + 1 \in Lines /\ (k + 1) - 1 = k
        BY <1>1, <2>2
      <3> HIDE DEF Lines
      <3>2. Table!InOrder(partition, k + 1)
        BY <1>2, <3>1
      <3>3. output[k + 1].ebr = After(partition, output[k].ebr)
        BY <3>1, <3>2 DEF Table!InOrder, After, Lines
      <3> QED
        BY <3>1, <3>3
    <2> QED
      BY <2>1, <2>2
  <1> HIDE DEF R
  <1> QED
    BY <1>0, <1>3, <1>4, <1>5 DEF Whole, Table!Sound, After

LEMMA EbrAdded ==
    ASSUME TableInv, Walking, output' = Append(output, EbrLine), NEW i
    PROVE  /\ DOMAIN output = 1 .. Len(output) /\ Len(output) \in Nat
           /\ DOMAIN output' = 1 .. Len(output) + 1 /\ Len(output') = Len(output) + 1
           /\ \A k \in DOMAIN output : k \in DOMAIN output' /\ output'[k] = output[k]
           /\ output'[Len(output) + 1] = EbrLine
           /\ Table!Listed(i)' = IF i = partition THEN Table!Listed(i) \cup {Len(output) + 1}
                                 ELSE Table!Listed(i)
  <1>0. Table!TypeOK /\ OnItsWay
    BY DEF TableInv
  <1>1. partition \in 1 .. Entries /\ address # 0
    BY <1>0 DEF OnItsWay, Table!Extended
  <1> DEFINE n == Len(output) + 1
  <1>2. DOMAIN output = 1 .. Len(output) /\ Len(output) \in Nat
    BY <1>0, OutputSeq
  <1>3. /\ output' \in Seq(Table!Line) /\ Len(output') = n
        /\ \A k \in 1 .. Len(output) : output'[k] = output[k]
        /\ output'[n] = EbrLine
    BY <1>0, <1>1, EbrAppended
  <1>4. DOMAIN output' = 1 .. n
    BY <1>3, LenProperties
  <1>5. \A k : k \in DOMAIN output' <=> k \in DOMAIN output \/ k = n
    BY <1>2, <1>4
  <1>6. n \notin DOMAIN output
    BY <1>2
  <1> HIDE DEF n
  <1>7. EbrLine.entry = partition /\ EbrLine.ebr # 0
    BY <1>1 DEF EbrLine
  <1>8. \A k : k \in Table!Listed(i)' <=> k \in Table!Listed(i) \/ (k = n /\ i = partition)
    BY <1>2, <1>3, <1>5, <1>6, <1>7 DEF Table!Listed
  <1>9. Table!Listed(i)' = IF i = partition THEN Table!Listed(i) \cup {n} ELSE Table!Listed(i)
    BY <1>8
  <1> QED
    BY <1>2, <1>3, <1>4, <1>5, <1>9 DEF n

(* A signed EBR is listed, unless as many are as are kept.                 *)
LEMMA EbrKept ==
    ASSUME TableInv, walk = "print", this_ebr.signed,
           output' = Append(output, EbrLine),
           Len(output) # index + MaxEbrs,
           UNCHANGED <<table, disk, start, index, unread>>
    PROVE  /\ SignedOnly'
           /\ \A k \in DOMAIN output' : k > index =>
                 output'[k].entry = partition /\ output'[k].ebr # 0
           /\ \A k \in DOMAIN output' : output'[k].entry <= partition
                 /\ (output'[k].entry = partition => k >= index)
           /\ \A i : i = partition /\ i \notin unread =>
                 \A k \in Table!Listed(i)' : output'[k].sure
           /\ \A i \in Table!Extended : Whole(i) => ListedRight(i)'
  <1>0. /\ Table!TypeOK /\ OnItsWay /\ InTableOrder /\ NextInChain /\ ReadRight /\ SignedOnly
        /\ \A i \in Table!Extended : Whole(i) => ListedRight(i) /\ WalkOver(i)
        /\ Walking
    BY DEF TableInv, Walking
  <1>1. PICK p : p = partition
    OBVIOUS
  <1>2. PICK n : n = Len(output) + 1
    OBVIOUS
  <1>3. PICK a : a = address
    OBVIOUS
  <1>4. /\ p \in Table!Extended /\ start = table[p].start /\ index \in DOMAIN output /\ a # 0
        /\ p \in Nat
    BY <1>0, <1>1, <1>3 DEF OnItsWay, Table!Extended
  <1>5. /\ DOMAIN output = 1 .. n - 1 /\ n - 1 \in Nat /\ n \in Nat /\ Len(output) = n - 1
        /\ DOMAIN output' = 1 .. n
        /\ \A k \in DOMAIN output : k \in DOMAIN output' /\ output'[k] = output[k]
        /\ output'[n].entry = p /\ output'[n].ebr = a /\ output'[n].sure = (p \notin unread)
    BY <1>0, <1>1, <1>2, <1>3, EbrAdded DEF EbrLine
  <1>6. \A i : Table!Listed(i)' = IF i = p THEN Table!Listed(i) \cup {n} ELSE Table!Listed(i)
    BY <1>0, <1>1, <1>2, EbrAdded
  <1>7. \A k : k \in DOMAIN output' <=> k \in DOMAIN output \/ k = n
    BY <1>5
  <1>8. \A i : \A k \in Table!Listed(i) : k \in DOMAIN output
    BY DEF Table!Listed
  <1>9. SignedOnly'
    <2>1. p \notin unread /\ Table!Located(a) \in Table!Sector => disk[Table!Located(a)].signed
      BY <1>0, <1>1, <1>3 DEF ReadRight
    <2>2. \A k \in DOMAIN output :
             output[k].ebr # 0 /\ output[k].sure /\ Table!Located(output[k].ebr) \in Table!Sector
                 => disk[Table!Located(output[k].ebr)].signed
      BY <1>0 DEF SignedOnly
    <2> QED
      BY <1>5, <1>7, <2>1, <2>2 DEF SignedOnly, Table!Located
  <1>10. \A k \in DOMAIN output' : k > index => output'[k].entry = p /\ output'[k].ebr # 0
    BY <1>0, <1>1, <1>4, <1>5, <1>7 DEF OnItsWay
  <1>11. \A k \in DOMAIN output' : output'[k].entry <= p /\ (output'[k].entry = p => k >= index)
    <2>1. n >= index /\ p <= p
      BY <1>4, <1>5
    <2> QED
      BY <1>0, <1>1, <1>5, <1>7, <2>1 DEF InTableOrder
  <1>12. p \notin unread => \A k \in Table!Listed(p)' : output'[k].sure
    BY <1>0, <1>1, <1>5, <1>6, <1>8 DEF NextInChain
  <1>13. ASSUME NEW i \in Table!Extended, Whole(i) PROVE ListedRight(i)'
    <2> SUFFICES ASSUME NEW k \in Table!Listed(i)', output'[k].sure
                 PROVE  /\ \A j \in Table!Listed(i)' : j < k =>
                              output'[j].sure /\ output'[j].ebr # output'[k].ebr
                        /\ Table!InOrder(i, k)'
                        /\ \A R \in SUBSET Table!Body' : ChainIn(R, i)' => output'[k].ebr \in R
      BY DEF ListedRight
    <2>0. ListedRight(i)
      BY <1>0, <1>13
    <2>1. CASE k \in Table!Listed(i)
      <3>1. k \in 1 .. n - 1 /\ output'[k] = output[k]
        BY <1>5, <1>8, <2>1
      <3>2. \A j \in Table!Listed(i)' : j < k => j \in Table!Listed(i) /\ output'[j] = output[j]
        <4>1. ~(n < k)
          BY <1>5, <3>1
        <4> QED
          BY <1>5, <1>6, <1>8, <4>1
      <3>3. k - 1 # n
        BY <1>5, <3>1
      <3>4. k - 1 \in Table!Listed(i)' <=> k - 1 \in Table!Listed(i)
        BY <1>6, <3>3
      <3>5. k - 1 \in Table!Listed(i) => output'[k - 1] = output[k - 1]
        BY <1>5, <1>8
      <3>6. Table!InOrder(i, k)'
        <4>1. Table!InOrder(i, k)
          BY <2>0, <2>1, <3>1 DEF ListedRight
        <4> QED
          BY <3>1, <3>4, <3>5, <4>1 DEF Table!InOrder, Table!Follow
      <3>7. \A R \in SUBSET Table!Body' : ChainIn(R, i)' => output'[k].ebr \in R
        BY <2>0, <2>1, <3>1, SameDisk DEF ListedRight, Table!Body
      <3> QED
        BY <2>0, <2>1, <3>1, <3>2, <3>6, <3>7 DEF ListedRight
    <2>2. CASE k \notin Table!Listed(i)
      <3>1. i = p /\ k = n /\ p \notin unread /\ output'[k].ebr = a
        BY <1>5, <1>6, <2>2
      <3>2. /\ \A j \in Table!Listed(p) : output[j].sure
            /\ a = IF Len(output) \in Table!Listed(p)
                   THEN After(p, output[Len(output)].ebr) ELSE start
            /\ \A R \in SUBSET Table!Body : ChainIn(R, p) => a \in R
        BY <1>0, <1>1, <1>3, <1>13, <3>1 DEF NextInChain
      <3>3. \A j \in Table!Listed(p) : output[j].ebr # a
        BY <1>0, <1>1, <1>3, <1>13, <3>1, <3>2, NoneTwice
      <3>4. \A j \in Table!Listed(i)' : j < k => j \in Table!Listed(p) /\ output'[j] = output[j]
        BY <1>5, <1>6, <1>8, <3>1
      <3>5. /\ n - 1 # n
            /\ n - 1 \in Table!Listed(p) => output'[n - 1] = output[n - 1]
        BY <1>5, <1>8
      <3>6. n - 1 \in Table!Listed(p)' <=> n - 1 \in Table!Listed(p)
        BY <1>6, <3>5
      <3>7. Table!InOrder(p, n)'
        <4>1. a = IF n - 1 \in Table!Listed(p) THEN After(p, output[n - 1].ebr) ELSE table[p].start
          BY <1>4, <1>5, <3>2
        <4> QED
          BY <1>5, <3>5, <3>6, <4>1 DEF Table!InOrder, Table!Follow, After
      <3>8. \A R \in SUBSET Table!Body' : ChainIn(R, i)' => output'[k].ebr \in R
        BY <3>1, <3>2, SameDisk DEF Table!Body
      <3> QED
        BY <3>1, <3>2, <3>3, <3>4, <3>7, <3>8
    <2> QED
      BY <2>1, <2>2
  <1> QED
    BY <1>1, <1>9, <1>10, <1>11, <1>12, <1>13

LEMMA EbrPrinted ==
    ASSUME TableInv, Table!PrintEbr
    PROVE  /\ OnItsWay' /\ InTableOrder' /\ NextInChain' /\ ReadRight' /\ SignedOnly'
           /\ \A i \in Table!Extended' : Whole(i)' => ListedRight(i)' /\ WalkOver(i)'
  <1>0. /\ Table!TypeOK /\ OnItsWay /\ InTableOrder /\ NextInChain /\ ReadRight /\ SignedOnly
        /\ \A i \in Table!Extended : Whole(i) => ListedRight(i) /\ WalkOver(i)
        /\ walk = "print" /\ Walking
    BY DEF TableInv, Walking, Table!PrintEbr
  <1>1. PICK p : p = partition
    OBVIOUS
  <1>2. PICK n : n = Len(output) + 1
    OBVIOUS
  <1> DEFINE full == Len(output) = index + MaxEbrs
  <1>3. /\ p \in Table!Extended /\ start = table[p].start /\ index \in DOMAIN output
        /\ output[index].entry = p /\ output[index].ebr = 0 /\ p \in Nat
        /\ \A k \in DOMAIN output : k > index => output[k].entry = p /\ output[k].ebr # 0
        /\ \A k \in DOMAIN output :
              output[k].entry <= p /\ (output[k].entry = p => k >= index)
    BY <1>0, <1>1 DEF OnItsWay, InTableOrder, Table!Extended
  <1>4. UNCHANGED <<table, disk, start, this_ebr, unread>>
    BY DEF Table!PrintEbr, Table!image
  <1>5. \/ address' # 0 /\ walk' = "read" /\ partition' = p
        \/ address' = 0 /\ walk' = "table" /\ partition' = p + 1
    BY <1>1 DEF Table!PrintEbr
  <1>6. \/ /\ this_ebr.signed /\ ~full /\ output' = Append(output, EbrLine) /\ index' = index
           /\ address' = Table!Linked(this_ebr.next)
        \/ /\ this_ebr.signed /\ full /\ output' = output /\ index' = index
           /\ address' = Table!Linked(this_ebr.next)
        \/ /\ ~this_ebr.signed /\ output' = output /\ index' = Len(output) /\ address' = 0
    BY <1>1 DEF Table!PrintEbr, Table!Signed, EbrLine
  <1>7. Table!Extended' = Table!Extended /\ \A i : Whole(i)' = Whole(i)
    BY <1>4, SameDisk
  <1>8. DOMAIN output = 1 .. Len(output) /\ Len(output) \in Nat /\ n \in Nat /\ n - 1 = Len(output)
    BY <1>0, <1>2, OutputSeq
  <1>9. /\ SignedOnly'
        /\ \A k \in DOMAIN output' : k > index => output'[k].entry = p /\ output'[k].ebr # 0
        /\ \A k \in DOMAIN output' :
              output'[k].entry <= p /\ (output'[k].entry = p => k >= index)
        /\ p \notin unread => \A k \in Table!Listed(p)' : output'[k].sure
        /\ \A i \in Table!Extended : Whole(i) => ListedRight(i)'
    <2>1. CASE ~full /\ output' = Append(output, EbrLine) /\ index' = index /\ this_ebr.signed
      BY <1>0, <1>1, <1>4, <2>1, EbrKept
    <2>2. CASE output' = output
      <3>1. Table!Listed(p)' = Table!Listed(p)
        BY <1>4, <2>2, SameLines
      <3>2. p \notin unread => \A k \in Table!Listed(p)' : output'[k].sure
        BY <1>0, <1>1, <2>2, <3>1 DEF NextInChain
      <3>3. SignedOnly' /\ \A i \in Table!Extended : Whole(i) => ListedRight(i)'
        BY <1>0, <1>4, <2>2, SameLines
      <3> QED
        BY <1>3, <2>2, <3>2, <3>3
    <2> QED
      BY <1>6, <2>1, <2>2
  <1>10. /\ \A k \in DOMAIN output : k \in DOMAIN output' /\ output'[k] = output[k]
         /\ \A i : i # p => Table!Listed(i)' = Table!Listed(i)
    <2>1. CASE output' = Append(output, EbrLine)
      BY <1>0, <1>1, <2>1, EbrAdded
    <2>2. CASE output' = output
      BY <1>4, <2>2, SameLines
    <2> QED
      BY <1>6, <2>1, <2>2
  <1>11. OnItsWay'
    <2> SUFFICES ASSUME Walking' PROVE OnItsWay'
      BY DEF OnItsWay
    <2>1. address' # 0 /\ partition' = p /\ index' = index
      BY <1>5, <1>6 DEF Walking
    <2> QED
      BY <1>3, <1>4, <1>7, <1>9, <1>10, <2>1 DEF OnItsWay
  <1>11a. \A k \in DOMAIN output' : output'[k].entry \in Nat
    <2>1. Table!TypeOK'
      <3>1. Walking => partition \in 1 .. Entries /\ start = table[partition].start
        BY <1>1, <1>3 DEF Table!Extended
      <3>2. [Table!Next]_(Table!vars)
        BY DEF Table!Next
      <3> QED
        BY <1>0, <3>1, <3>2, StepTableType
    <2>2. output' \in Seq(Table!Line)
      BY <2>1 DEF Table!TypeOK
    <2>3. \A k \in DOMAIN output' : output'[k] \in Table!Line
      BY <2>2, ElementOfSeq, LenProperties
    <2> QED
      BY <2>3 DEF Table!Line
  <1>12. InTableOrder'
    <2>1. CASE address' # 0
      <3>1. walk' = "read" /\ partition' = p /\ index' = index
        BY <1>5, <1>6, <2>1
      <3> QED
        BY <1>9, <3>1 DEF InTableOrder, Walking
    <2>2. CASE address' = 0
      <3>1. partition' = p + 1
        BY <1>5, <2>2
      <3>3. \A x \in Nat : x <= p => x <= p + 1 /\ x # p + 1
        BY <1>3
      <3> QED
        BY <1>9, <1>11a, <3>1, <3>3 DEF InTableOrder
    <2> QED
      BY <2>1, <2>2
  <1>13. ASSUME Whole(p), p \notin unread
         PROVE  /\ this_ebr.signed /\ Table!Linked(this_ebr.next) = After(p, address)
                /\ \A R \in SUBSET Table!Body : ChainIn(R, p) => After(p, address) \in R \cup {0}
    BY <1>0, <1>1, <1>13, EbrAtHand
  <1>14. ASSUME output' = Append(output, EbrLine)
         PROVE  /\ Table!Listed(p)' = Table!Listed(p) \cup {n}
                /\ Len(output') = n /\ output'[n].ebr = address
                /\ \A k \in Table!Listed(p)' : k <= n
    <2>1. /\ Table!Listed(p)' = Table!Listed(p) \cup {n}
          /\ Len(output') = n /\ output'[n] = EbrLine
      BY <1>0, <1>1, <1>2, <1>14, EbrAdded
    <2>2. \A k \in Table!Listed(p) : k <= n
      <3>1. \A k \in Table!Listed(p) : k \in 1 .. n - 1
        BY <1>8 DEF Table!Listed
      <3> QED
        BY <1>8, <3>1
    <2>3. n <= n
      BY <1>8
    <2> QED
      BY <2>1, <2>2, <2>3 DEF EbrLine
  <1>15. NextInChain'
    <2> SUFFICES ASSUME Walking', p \notin unread
                 PROVE  /\ \A k \in Table!Listed(p)' : output'[k].sure
                        /\ Whole(p) =>
                             /\ \/ Len(output') = index' + MaxEbrs
                                \/ address' = IF Len(output') \in Table!Listed(p)'
                                              THEN After(p, output'[Len(output')].ebr) ELSE start
                             /\ \A R \in SUBSET Table!Body : ChainIn(R, p) => address' \in R
      <3>1. ~Walking' \/ partition' = p
        BY <1>5 DEF Walking
      <3>2. CASE ~Walking'
        BY <3>2 DEF NextInChain
      <3>3. CASE Walking' /\ partition' = p
        <4>1. Table!Listed(partition)' = Table!Listed(p)'
          BY <3>3 DEF Table!Listed
        <4>2. Whole(partition)' = Whole(p)
          BY <1>4, <3>3 DEF Whole, Table!Sound, Table!StaysIn, Table!Follow
        <4>3. \A R : ChainIn(R, partition)' = ChainIn(R, p)
          BY <1>4, <3>3 DEF ChainIn, Table!StaysIn, Table!Follow
        <4>5. Table!Body' = Table!Body
          BY DEF Table!Body, Table!Sector
        <4>6. After(partition, output[Len(output)].ebr)' = After(p, output'[Len(output')].ebr)
          BY <1>4, <3>3 DEF After, Table!Follow
        <4> QED
          BY <1>4, <3>3, <4>1, <4>2, <4>3, <4>5, <4>6 DEF NextInChain
      <3> QED
        BY <3>1, <3>2, <3>3
    <2>1. address' # 0
      BY <1>5 DEF Walking
    <2>2. \A k \in Table!Listed(p)' : output'[k].sure
      BY <1>9
    <2>3. ASSUME Whole(p)
          PROVE  /\ \/ Len(output') = index' + MaxEbrs
                    \/ address' = IF Len(output') \in Table!Listed(p)'
                                  THEN After(p, output'[Len(output')].ebr) ELSE start
                 /\ \A R \in SUBSET Table!Body : ChainIn(R, p) => address' \in R
      <3>1. address' = After(p, address)
        BY <1>6, <1>13, <2>3
      <3>2. \A R \in SUBSET Table!Body : ChainIn(R, p) => address' \in R
        BY <1>13, <2>1, <2>3, <3>1
      <3>3. CASE output' = Append(output, EbrLine)
        BY <1>14, <3>1, <3>2, <3>3
      <3>4. CASE output' = output /\ full
        <4>1. index' = index
          BY <1>6, <1>13, <2>3
        <4> QED
          BY <3>2, <3>4, <4>1
      <3> QED
        BY <1>6, <1>13, <2>3, <3>3, <3>4
    <2> QED
      BY <2>2, <2>3
  <1>16. ReadRight'
    BY <1>5 DEF ReadRight
  <1>17. ASSUME NEW i \in Table!Extended, Whole(i) PROVE WalkOver(i)'
    <2> SUFFICES ASSUME partition' > i, i \notin unread
                 PROVE  IF Table!Overwritten(i)' THEN Table!Listed(i)' = {}
                        ELSE Table!Complete(i)' /\ \A k \in Table!Listed(i)' : k > index'
      BY <1>4 DEF WalkOver
    <2>0. WalkOver(i) /\ i \in Nat
      BY <1>0, <1>17 DEF Table!Extended
    <2>1. CASE i = p
      <3>1. ~Table!Overwritten(p)'
        <4>1. \A k \in DOMAIN output' : ~(output'[k].entry > p)
          <5>1. \A k \in DOMAIN output' : output'[k].entry <= p /\ output'[k].entry \in Nat
            BY <1>9, <1>11a
          <5> QED
            BY <1>3, <5>1
        <4> QED
          BY <4>1 DEF Table!Overwritten
      <3>2. this_ebr.signed /\ address' = After(p, address) /\ address' = 0 /\ index' = index
        BY <1>3, <1>5, <1>6, <1>13, <1>17, <2>1
      <3>3. \A k \in Table!Listed(p)' : k > index'
        <4>1. \A k \in Table!Listed(p) : k > index
          <5>1. Table!Listed(p) = index + 1 .. Len(output)
            BY <1>0, <1>1, ListedNow
          <5> QED
            BY <1>3, <1>8, <5>1
        <4>2. n > index
          BY <1>3, <1>8
        <4>3. CASE output' = Append(output, EbrLine)
          BY <1>14, <3>2, <4>1, <4>2, <4>3
        <4>4. CASE output' = output
          BY <1>4, <3>2, <4>1, <4>4, SameLines
        <4> QED
          BY <1>6, <4>3, <4>4
      <3>4. Table!Complete(p)'
        <4>1. CASE output' = Append(output, EbrLine)
          <5>1. n \in Table!Listed(p)' /\ n + 1 \notin Table!Listed(p)'
            <6>1. ~(n + 1 <= n)
              BY <1>8
            <6> QED
              BY <1>14, <4>1, <6>1
          <5>2. Table!Follow(table[p].start, output[n].ebr)' = 0
            <6>1. output'[n].ebr = address
              BY <1>14, <4>1
            <6> QED
              BY <1>4, <3>2, <6>1 DEF After, Table!Follow
          <5> QED
            BY <5>1, <5>2 DEF Table!Complete
        <4>2. CASE output' = output /\ full
          <5>1. Table!Listed(p) = index + 1 .. index + MaxEbrs
            BY <1>0, <1>1, <4>2, ListedNow
          <5>2. Table!Complete(p)
            BY <1>3, <5>1 DEF Table!Complete
          <5> QED
            BY <1>4, <4>2, <5>2, SameLines
        <4> QED
          BY <1>6, <3>2, <4>1, <4>2
      <3> QED
        BY <2>1, <3>1, <3>3, <3>4
    <2>2. CASE i # p
      <3>1. p > i
        BY <1>3, <1>5, <2>0, <2>2
      <3>2. Table!Overwritten(i) /\ Table!Overwritten(i)'
        BY <1>3, <1>10, <3>1 DEF Table!Overwritten
      <3>3. Table!Listed(i) = {}
        BY <1>1, <2>0, <3>1, <3>2 DEF WalkOver
      <3> QED
        BY <1>10, <2>2, <3>2, <3>3
    <2> QED
      BY <2>1, <2>2
  <1> QED
    BY <1>7, <1>9, <1>11, <1>12, <1>15, <1>16, <1>17

-----------------------------------------------------------------------------
LEMMA StepTable ==
    ASSUME TableInv, [Table!Next]_(Table!vars)
    PROVE  TableInv'
  <1>0. /\ Table!TypeOK /\ OnItsWay
        /\ Walking => partition \in 1 .. Entries /\ start = table[partition].start
    BY DEF TableInv, OnItsWay, Table!Extended
  <1>1. Table!TypeOK'
    BY <1>0, StepTableType
  <1> SUFFICES /\ OnItsWay' /\ InTableOrder' /\ NextInChain' /\ ReadRight' /\ SignedOnly'
               /\ \A i \in Table!Extended' : Whole(i)' => ListedRight(i)' /\ WalkOver(i)'
    BY <1>1 DEF TableInv
  <1>2. CASE UNCHANGED Table!vars
    BY <1>2, QuietTable DEF Table!vars, Table!image
  <1>3. CASE Table!ReadMbr
    BY <1>3, QuietTable DEF Table!ReadMbr, Table!image, Walking
  <1>4. CASE Table!NextEntry
    <2>1. CASE table[partition].type # "none"
      BY <1>4, <2>1, LinePrinted
    <2>2. CASE table[partition].type = "none"
      <3>1. partition \in Nat /\ partition \notin Table!Extended
        BY <1>0, <2>2 DEF Table!TypeOK, Table!Extended
      <3> QED
        BY <1>4, <2>2, <3>1, QuietTable DEF Table!NextEntry, Table!image, Walking
    <2> QED
      BY <2>1, <2>2
  <1>5. CASE Table!EndTable
    BY <1>5, QuietTable DEF Table!EndTable, Table!image, Walking
  <1>6. CASE Table!ReadEbr
    BY <1>6, EbrRead
  <1>7. CASE Table!PrintEbr
    BY <1>7, EbrPrinted
  <1>8. CASE Table!Done
    BY <1>8, QuietTable DEF Table!Done, Table!vars, Table!image
  <1> QED
    BY <1>2, <1>3, <1>4, <1>5, <1>6, <1>7, <1>8 DEF Table!Next

LEMMA TableInvariant == Table!Spec => []TableInv
  <1>1. Table!Init => TableInv
    BY InitTable
  <1>2. TableInv /\ [Table!Next]_(Table!vars) => TableInv'
    BY StepTable
  <1> QED
    BY <1>1, <1>2, PTL DEF Table!Spec

(* Every variable of the partitions command keeps its type: print_primary  *)
(* counts no more than there is, and no address gets beyond the sum of two *)
(* sector numbers (disk.cpp:151-209, 236-291).                             *)
THEOREM TableTypeCorrect == Table!Spec => []Table!TypeOK
  <1>1. TableInv => Table!TypeOK
    BY DEF TableInv
  <1> QED
    BY <1>1, TableInvariant, PTL

(* Of a sound chain the EBRs are listed in its order, none twice, and none *)
(* is missing when its walk is over, whatever the sizes of the table and   *)
(* of the image, and however many of the reads fail (disk.cpp:151-209,     *)
(* 236-291).                                                               *)
THEOREM ChainsListed ==
    Table!Spec => []ListsTheChain
  <1>1. TableInv => ListsTheChain
    <2> SUFFICES ASSUME TableInv, NEW i \in Table!Extended, Table!Sound(table[i].start)
                 PROVE  /\ \A k \in Table!Listed(i) : output[k].sure =>
                              /\ Table!InOrder(i, k)
                              /\ \A j \in Table!Listed(i) : j < k => output[j].ebr # output[k].ebr
                        /\ partition > i /\ i \notin unread =>
                              IF Table!Overwritten(i) THEN Table!Listed(i) = {}
                              ELSE Table!Complete(i)
      BY DEF ListsTheChain, Extended, Sound, StaysIn, Body, Sector, Follow, Listed, InOrder,
           Overwritten, Complete, Table!Extended, Table!Sound, Table!StaysIn, Table!Body,
           Table!Sector, Table!Follow, Table!Listed, Table!InOrder, Table!Overwritten,
           Table!Complete
    <2>1. ListedRight(i) /\ WalkOver(i)
      BY DEF TableInv, Whole
    <2> QED
      BY <2>1 DEF ListedRight, WalkOver
  <1> QED
    BY <1>1, TableInvariant, PTL

(* Only signed records are listed as EBRs, however broken the image is     *)
(* (disk.cpp:167-174).                                                     *)
THEOREM SignedListed ==
    Table!Spec => []OnlySignedListed
  <1>1. TableInv => OnlySignedListed
    BY DEF TableInv, SignedOnly, OnlySignedListed, Listed, Located, Sector, Table!Located,
       Table!Sector
  <1> QED
    BY <1>1, TableInvariant, PTL
=============================================================================
