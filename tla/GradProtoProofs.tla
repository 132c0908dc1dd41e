---------------------------- MODULE GradProtoProofs ----------------------------
(***************************************************************************)
(* What the wire protocol's conversions do, for every size of a byte and   *)
(* every scale: the byte swaps of the libc and of bpf_compat.h are the     *)
(* same, a word survives its trip, wrapping addition is addition modulo    *)
(* 2^32, truncation stays within one unit, and the bound check is enough.  *)
(* With them, that the two parse functions of the fuzz harness agree.      *)
(***************************************************************************)
EXTENDS ParseShared, TLAPS

LEMMA DivModDef ==
    ASSUME NEW b \in Nat, b > 0, NEW a \in Int
    PROVE  a \div b \in Int /\ a % b \in 0 .. b - 1 /\ a = b * (a \div b) + (a % b)
  BY SMT

LEMMA QuotientUnique ==
    ASSUME NEW b \in Nat, b > 0, NEW p \in Int, NEW q \in Int,
           NEW r \in 0 .. b - 1, NEW s \in 0 .. b - 1, b * p + r = b * q + s
    PROVE  p = q /\ r = s
<1>1. ~(p >= q + 1)
  <2>1. ASSUME p >= q + 1 PROVE b * p >= b * q + b
    BY <2>1, SMT
  <2>2. QED BY <2>1, SMT
<1>2. ~(q >= p + 1)
  <2>1. ASSUME q >= p + 1 PROVE b * q >= b * p + b
    BY <2>1, SMT
  <2>2. QED BY <2>1, SMT
<1>3. QED BY <1>1, <1>2, SMT

LEMMA DivModUnique ==
    ASSUME NEW b \in Nat, b > 0, NEW q \in Int, NEW r \in 0 .. b - 1
    PROVE  (b * q + r) \div b = q /\ (b * q + r) % b = r
<1> DEFINE a == b * q + r
<1>1. a \in Int
  BY SMT
<1>2. a \div b \in Int /\ a % b \in 0 .. b - 1 /\ b * q + r = b * (a \div b) + (a % b)
  BY <1>1, DivModDef
<1> HIDE DEF a
<1>3. a \div b = q /\ a % b = r
  BY <1>2, QuotientUnique
<1>4. QED BY <1>3 DEF a

Byte == 0 .. BYTE - 1

LEMMA ByteFacts == BYTE \in Nat /\ BYTE > 0
  BY ScaleAssumption

LEMMA Powers ==
    /\ BYTE * BYTE \in Nat /\ BYTE * BYTE > 0
    /\ BYTE * BYTE * BYTE \in Nat /\ BYTE * BYTE * BYTE > 0
    /\ WORD \in Nat /\ WORD > 0
  BY ByteFacts, SMT DEF WORD

Word(a, b, c, d) == a + BYTE * (b + BYTE * (c + BYTE * d))

LEMMA StoreOfWord ==
    ASSUME NEW a \in Byte, NEW b \in Byte, NEW c \in Byte, NEW d \in Byte
    PROVE  Store(Word(a, b, c, d)) = <<a, b, c, d>>
<1> DEFINE B == BYTE
           x1 == b + B * (c + B * d)
           x2 == c + B * d
           u == Word(a, b, c, d)
<1>0. /\ B \in Nat /\ B > 0 /\ x1 \in Int /\ x2 \in Int /\ u \in Int
      /\ a \in Int /\ b \in Int /\ c \in Int /\ d \in Int
  BY ByteFacts, SMT DEF Byte, Word
<1>1. u = B * x1 + a
  BY <1>0, SMT DEF Word
<1>2. u % B = a /\ u \div B = x1
  <2> HIDE DEF x1, u
  <2>1. a \in 0 .. B - 1
    BY DEF Byte
  <2>2. QED BY <2>1, <1>0, <1>1, DivModUnique
<1>3. x1 % B = b
  <2>1. b \in 0 .. B - 1 /\ x1 = B * x2 + b
    BY <1>0, SMT DEF Byte
  <2> HIDE DEF x1, x2
  <2>2. QED BY <2>1, <1>0, DivModUnique
<1>4. u \div (B * B) = x2
  <2>1. u = (B * B) * x2 + (a + B * b)
    BY <1>0, SMT DEF Word
  <2>2. a + B * b \in 0 .. (B * B) - 1
    <3>1. B * b <= B * (B - 1)
      BY <1>0, SMT DEF Byte
    <3>2. B * b >= 0
      BY <1>0, SMT DEF Byte
    <3>3. QED BY <1>0, <3>1, <3>2, SMT DEF Byte
  <2>3. B * B \in Nat /\ B * B > 0
    BY Powers
  <2> DEFINE BB == B * B  r == a + B * b
  <2> HIDE DEF BB, r, x2, u
  <2>4. BB \in Nat /\ BB > 0 /\ u = BB * x2 + r /\ r \in 0 .. BB - 1
    BY <2>1, <2>2, <2>3 DEF BB, r
  <2>5. u \div BB = x2
    BY <2>4, <1>0, DivModUnique
  <2>6. QED BY <2>5 DEF BB
<1>5. x2 % B = c
  <2>1. c \in 0 .. B - 1 /\ x2 = B * d + c
    BY <1>0, SMT DEF Byte
  <2> HIDE DEF x2
  <2>2. QED BY <2>1, <1>0, DivModUnique
<1>6. u \div (B * B * B) = d
  <2>1. u = (B * B * B) * d + (a + B * (b + B * c))
    BY <1>0, SMT DEF Word
  <2>2. a + B * (b + B * c) \in 0 .. (B * B * B) - 1
    <3>1. B * c <= B * (B - 1) /\ B * c >= 0
      BY <1>0, SMT DEF Byte
    <3>2. b + B * c <= B * B - 1 /\ b + B * c >= 0
      BY <1>0, <3>1, SMT DEF Byte
    <3>3. B * (b + B * c) <= B * (B * B - 1) /\ B * (b + B * c) >= 0
      BY <1>0, <3>2, SMT
    <3>4. QED BY <1>0, <3>3, SMT DEF Byte
  <2>3. B * B * B \in Nat /\ B * B * B > 0
    BY Powers
  <2> DEFINE BB == B * B * B  r == a + B * (b + B * c)
  <2> HIDE DEF BB, r, u
  <2>4. BB \in Nat /\ BB > 0 /\ u = BB * d + r /\ r \in 0 .. BB - 1
    BY <2>1, <2>2, <2>3 DEF BB, r
  <2>5. u \div BB = d
    BY <2>4, <1>0, DivModUnique
  <2>6. QED BY <2>5 DEF BB
<1>7. QED BY <1>2, <1>3, <1>4, <1>5, <1>6 DEF Store

LEMMA WordOfBytes ==
    ASSUME NEW u \in Uint32
    PROVE  \E a, b, c, d \in Byte : u = Word(a, b, c, d)
<1> DEFINE B == BYTE
           x1 == u \div B
           x2 == x1 \div B
           d == x2 \div B
<1>0. B \in Nat /\ B > 0 /\ u \in Int
  BY ByteFacts, Powers, SMT DEF Uint32
<1>1. x1 \in Int /\ u % B \in 0 .. B - 1 /\ u = B * x1 + (u % B)
  BY <1>0, DivModDef
<1>2. x2 \in Int /\ x1 % B \in 0 .. B - 1 /\ x1 = B * x2 + (x1 % B)
  <2> HIDE DEF x1
  <2>1. QED BY <1>0, <1>1, DivModDef
<1>3. d \in Int /\ x2 % B \in 0 .. B - 1 /\ x2 = B * d + (x2 % B)
  <2> HIDE DEF x2
  <2>1. QED BY <1>0, <1>2, DivModDef
<1> DEFINE a == u % B  b == x1 % B  c == x2 % B
<1> HIDE DEF d, x1, x2, a, b, c
<1>4. u = Word(a, b, c, d)
  BY <1>1, <1>2, <1>3, <1>0, SMT DEF Word, a, b, c
<1>5. d >= 0
  <2>1. SUFFICES ASSUME d <= -1 PROVE FALSE
    BY <1>3, SMT
  <2>2. x2 <= -1
    <3>1. B * d <= -B
      BY <1>0, <1>3, <2>1, SMT
    <3>2. QED BY <1>0, <1>3, <3>1, SMT
  <2>3. x1 <= -1
    <3>1. B * x2 <= -B
      BY <1>0, <1>2, <2>2, SMT
    <3>2. QED BY <1>0, <1>2, <3>1, SMT
  <2>4. u <= -1
    <3>1. B * x1 <= -B
      BY <1>0, <1>1, <2>3, SMT
    <3>2. QED BY <1>0, <1>1, <3>1, SMT
  <2>5. QED BY <2>4, Powers, SMT DEF Uint32
<1>6. d <= B - 1
  <2>1. SUFFICES ASSUME d >= B PROVE FALSE
    BY <1>3, <1>0, SMT
  <2>2. x2 >= B * B
    <3>1. B * d >= B * B
      BY <1>0, <1>3, <2>1, SMT
    <3>2. QED BY <1>0, <1>3, <3>1, SMT
  <2>3. x1 >= B * B * B
    <3>1. B * x2 >= B * (B * B)
      BY <1>0, <1>2, <2>2, SMT
    <3>2. QED BY <1>0, <1>2, <3>1, SMT
  <2>4. u >= B * B * B * B
    <3>1. B * x1 >= B * (B * B * B)
      BY <1>0, <1>1, <2>3, SMT
    <3>2. QED BY <1>0, <1>1, <3>1, SMT
  <2>5. QED BY <2>4, <1>0, Powers, SMT DEF Uint32, WORD
<1>7. a \in Byte /\ b \in Byte /\ c \in Byte /\ d \in Byte
  BY <1>0, <1>1, <1>2, <1>3, <1>5, <1>6, SMT DEF Byte, a, b, c
<1>8. QED BY <1>4, <1>7

LEMMA WordRange ==
    ASSUME NEW a \in Byte, NEW b \in Byte, NEW c \in Byte, NEW d \in Byte
    PROVE  Word(a, b, c, d) \in Uint32
<1> DEFINE B == BYTE
<1>0. /\ B \in Nat /\ B > 0 /\ a \in Int /\ b \in Int /\ c \in Int /\ d \in Int
  BY ByteFacts, SMT DEF Byte
<1>1. B * d <= B * (B - 1) /\ B * d >= 0
  BY <1>0, SMT DEF Byte
<1>2. c + B * d <= B * B - 1 /\ c + B * d >= 0
  BY <1>0, <1>1, SMT DEF Byte
<1>3. B * (c + B * d) <= B * (B * B - 1) /\ B * (c + B * d) >= 0
  BY <1>0, <1>2, SMT
<1>4. b + B * (c + B * d) <= B * B * B - 1 /\ b + B * (c + B * d) >= 0
  BY <1>0, <1>3, SMT DEF Byte
<1>5. /\ B * (b + B * (c + B * d)) <= B * (B * B * B - 1)
      /\ B * (b + B * (c + B * d)) >= 0
  BY <1>0, <1>4, SMT
<1>6. QED BY <1>0, <1>5, SMT DEF Word, Uint32, WORD, Byte

LEMMA LoadOfBytes ==
    ASSUME NEW a, NEW b, NEW c, NEW d
    PROVE  Load(<<a, b, c, d>>) = Word(a, b, c, d)
  BY DEF Load, Word

LEMMA SwapOfWord ==
    ASSUME NEW a \in Byte, NEW b \in Byte, NEW c \in Byte, NEW d \in Byte
    PROVE  /\ ntohl(Word(a, b, c, d)) = Word(d, c, b, a)
           /\ netsum_bpf_ntohl(Word(a, b, c, d)) = Word(d, c, b, a)
<1> DEFINE u == Word(a, b, c, d)
<1>1. Store(u) = <<a, b, c, d>>
  BY StoreOfWord
<1>2. Reversed(Store(u)) = <<d, c, b, a>>
  BY <1>1 DEF Reversed
<1>3. ntohl(u) = Word(d, c, b, a)
  BY <1>2, LoadOfBytes DEF ntohl
<1>4. /\ u % BYTE = a /\ (u \div BYTE) % BYTE = b
      /\ (u \div (BYTE * BYTE)) % BYTE = c /\ u \div (BYTE * BYTE * BYTE) = d
  BY <1>1 DEF Store
<1>5. netsum_bpf_ntohl(u) =
        a * (BYTE * BYTE * BYTE) + b * (BYTE * BYTE) + c * BYTE + d
  BY <1>4 DEF netsum_bpf_ntohl
<1>6. @ = Word(d, c, b, a)
  BY ByteFacts, SMT DEF Word, Byte
<1>7. QED BY <1>3, <1>5, <1>6

\* The two byte swaps are the same function, its own inverse (xdp_agg/
\* bpf_compat.h:90-102 against the libc's).
THEOREM SwapsAgree ==
    \A u \in Uint32 :
        /\ netsum_bpf_ntohl(u) = ntohl(u)
        /\ ntohl(u) \in Uint32 /\ ntohl(ntohl(u)) = u
<1>1. SUFFICES ASSUME NEW u \in Uint32
               PROVE  /\ netsum_bpf_ntohl(u) = ntohl(u)
                      /\ ntohl(u) \in Uint32 /\ ntohl(ntohl(u)) = u
  OBVIOUS
<1>2. PICK a, b, c, d \in Byte : u = Word(a, b, c, d)
  BY WordOfBytes
<1>3. netsum_bpf_ntohl(u) = Word(d, c, b, a) /\ ntohl(u) = Word(d, c, b, a)
  BY <1>2, SwapOfWord
<1>4. ntohl(Word(d, c, b, a)) = u
  BY <1>2, SwapOfWord
<1>5. QED BY <1>3, <1>4, WordRange

\* The 16-bit swaps are the same function too (bpf_compat.h:94-96,
\* parse_shared.h:117-119 against the libc's).
THEOREM ShortSwapsAgree ==
    \A b \in Byte \X Byte : netsum_bpf_ntohs(Load16(b)) = ntohs(Load16(b))
<1>1. SUFFICES ASSUME NEW x \in Byte, NEW y \in Byte
               PROVE  netsum_bpf_ntohs(Load16(<<x, y>>)) = ntohs(Load16(<<x, y>>))
  OBVIOUS
<1> DEFINE B == BYTE  v == B * y + x  S == B * B
<1>2. B \in Nat /\ B > 0 /\ x \in Int /\ y \in Int /\ S \in Nat /\ S > 0 /\ v \in Int
  BY ByteFacts, Powers, SMT DEF Byte
<1>3. Load16(<<x, y>>) = v
  BY <1>2, SMT DEF Load16
<1>4. v \div B = y /\ v % B = x
  <2>1. x \in 0 .. B - 1
    BY DEF Byte
  <2>2. QED BY <2>1, <1>2, DivModUnique
<1>5. (v * B) % S = B * x
  <2>1. B * x \in 0 .. S - 1
    <3>1. B * x <= B * (B - 1) /\ B * x >= 0
      BY <1>2, SMT DEF Byte
    <3>2. QED BY <1>2, <3>1, SMT
  <2>2. v * B = S * y + B * x
    BY <1>2, SMT
  <2> DEFINE r == B * x
  <2> HIDE DEF S, r, v
  <2>3. (S * y + r) % S = r
    BY <1>2, <2>1, DivModUnique DEF r
  <2>4. QED BY <2>2, <2>3 DEF r
<1> HIDE DEF v
<1>6. netsum_bpf_ntohs(v) = B * x + y
  BY <1>4, <1>5 DEF netsum_bpf_ntohs
<1>7. ntohs(v) = y + B * x
  BY <1>4 DEF ntohs
<1>8. B * x + y = y + B * x
  BY <1>2, SMT
<1>9. QED BY <1>3, <1>6, <1>7, <1>8

LEMMA MemoryKeeps ==
    ASSUME NEW u \in Uint32 PROVE Load(Store(u)) = u /\ Store(u) \in Lane
<1>1. PICK a, b, c, d \in Byte : u = Word(a, b, c, d)
  BY WordOfBytes
<1>2. Store(u) = <<a, b, c, d>>
  BY <1>1, StoreOfWord
<1>3. <<a, b, c, d>> \in Lane
  BY DEF Lane, LaneSize, Byte
<1>4. QED BY <1>1, <1>2, <1>3, LoadOfBytes

LEMMA HalfFacts == HALF \in Nat /\ HALF > 0 /\ WORD = 2 * HALF
<1> DEFINE h == BYTE \div 2
           p == h * (BYTE * BYTE * BYTE)
<1>1. h \in Nat /\ h > 0 /\ BYTE = 2 * h
  BY ScaleAssumption, SMT
<1>2. WORD = 2 * p
  <2> HIDE DEF h
  <2>1. WORD = (2 * h) * (BYTE * BYTE * BYTE)
    BY <1>1, ByteFacts, SMT DEF WORD
  <2>2. QED BY <2>1, <1>1, Powers, SMT
<1>3. p \in Nat /\ p > 0
  <2> HIDE DEF h
  <2> DEFINE q == BYTE * BYTE * BYTE
  <2>1. q \in Nat /\ q > 0
    BY Powers
  <2> HIDE DEF q
  <2>2. h * q \in Nat /\ h * q > 0
    BY <1>1, <2>1, SMT
  <2>3. QED BY <2>2 DEF q
<1> HIDE DEF p, h
<1>4. HALF = p
  BY <1>2, <1>3, SMT DEF HALF
<1>5. QED BY <1>2, <1>3, <1>4

LEMMA Casts ==
    /\ \A x \in Int : Unsigned(x) \in Uint32 /\ Signed(Unsigned(x)) \in Int32
    /\ \A x \in Int32 : Signed(Unsigned(x)) = x
    /\ \A u \in Uint32 : Signed(u) \in Int32 /\ Unsigned(Signed(u)) = u
<1>0. WORD \in Nat /\ WORD > 0 /\ HALF \in Nat /\ HALF > 0 /\ WORD = 2 * HALF
  BY Powers, HalfFacts
<1> USE DEF Uint32, Int32, INT_MIN, INT_MAX
<1>1. ASSUME NEW x \in Int PROVE Unsigned(x) \in Uint32
  BY <1>0, DivModDef DEF Unsigned
<1>2. ASSUME NEW u \in Uint32 PROVE Signed(u) \in Int32
  BY <1>0, SMT DEF Signed
<1>3. ASSUME NEW x \in Int32 PROVE Signed(Unsigned(x)) = x
  <2>1. CASE x >= 0
    <3>1. WORD * 0 + x = x /\ x \in 0 .. WORD - 1
      BY <1>0, <2>1, SMT
    <3>2. x % WORD = x
      BY <3>1, <1>0, DivModUnique
    <3>3. QED BY <3>2, <1>0, <2>1, SMT DEF Signed, Unsigned
  <2>2. CASE x < 0
    <3>1. WORD * (-1) + (x + WORD) = x /\ x + WORD \in 0 .. WORD - 1
      BY <1>0, <2>2, SMT
    <3>2. x % WORD = x + WORD
      BY <3>1, <1>0, DivModUnique
    <3>3. QED BY <3>2, <1>0, <2>2, SMT DEF Signed, Unsigned
  <2>3. QED BY <2>1, <2>2, <1>0, SMT
<1>4. ASSUME NEW u \in Uint32 PROVE Unsigned(Signed(u)) = u
  <2>1. CASE u < HALF
    <3>1. WORD * 0 + u = u /\ Signed(u) = u
      BY <1>0, <2>1, SMT DEF Signed
    <3>2. u % WORD = u
      BY <3>1, <1>0, DivModUnique
    <3>3. QED BY <3>1, <3>2 DEF Unsigned
  <2>2. CASE u >= HALF
    <3>1. WORD * (-1) + u = u - WORD /\ Signed(u) = u - WORD
      BY <1>0, <2>2, SMT DEF Signed
    <3>2. (u - WORD) % WORD = u
      BY <3>1, <1>0, DivModUnique
    <3>3. QED BY <3>1, <3>2 DEF Unsigned
  <2>3. QED BY <2>1, <2>2, <1>0, SMT
<1>5. QED BY <1>1, <1>2, <1>3, <1>4

\* Addition that wraps is addition modulo 2^32.
LEMMA SumModular ==
    ASSUME NEW x \in Int, NEW y \in Int, NEW z \in Int, Unsigned(x) = Unsigned(y)
    PROVE  Unsigned(Plus32(x, z)) = Unsigned(y + z)
<1>0. WORD \in Nat /\ WORD > 0
  BY Powers
<1> DEFINE p == x \div WORD  q == y \div WORD  r == x % WORD  s == (r + z) % WORD
           t == (r + z) \div WORD
<1>1. /\ p \in Int /\ q \in Int /\ r \in 0 .. WORD - 1
      /\ x = WORD * p + r /\ y = WORD * q + r
  BY <1>0, DivModDef DEF Unsigned
<1>2. r + z \in Int
  BY <1>0, <1>1, SMT
<1>3. t \in Int /\ s \in 0 .. WORD - 1 /\ r + z = WORD * t + s
  BY <1>0, <1>2, DivModDef
<1> HIDE DEF p, q, r, s, t
<1>4. x + z = WORD * (p + t) + s /\ y + z = WORD * (q + t) + s
  BY <1>0, <1>1, <1>3, SMT
<1>5. p + t \in Int /\ q + t \in Int
  BY <1>1, <1>3, SMT
<1>6. Unsigned(x + z) = s /\ Unsigned(y + z) = s
  <2>1. (WORD * (p + t) + s) % WORD = s
    BY <1>0, <1>3, <1>5, DivModUnique
  <2>2. (WORD * (q + t) + s) % WORD = s
    BY <1>0, <1>3, <1>5, DivModUnique
  <2>3. QED BY <1>4, <2>1, <2>2 DEF Unsigned
<1>7. Unsigned(Plus32(x, z)) = Unsigned(x + z)
  BY Casts, SMT DEF Plus32
<1>8. QED BY <1>6, <1>7

-----------------------------------------------------------------------------
(***************************************************************************)
(* Fixed point.                                                            *)
(***************************************************************************)
LEMMA TruncatedBounds ==
    ASSUME NEW a \in Int, NEW b \in Nat, b > 0, NEW m \in Int, -m <= a, a <= m
    PROVE  LET t == Truncated(a, b)
           IN  /\ t \in Int
               /\ t * b <= m /\ -m <= t * b
               /\ (t * b) - a <= b - 1 /\ a - (t * b) <= b - 1
<1>1. CASE a >= 0
  <2> DEFINE t == a \div b  r == a % b
  <2>1. t \in Int /\ r \in 0 .. b - 1 /\ a = b * t + r
    BY DivModDef
  <2>2. Truncated(a, b) = t
    BY <1>1 DEF Truncated
  <2> HIDE DEF t, r
  <2>3. t * b = b * t /\ b * t \in Int
    BY <2>1, SMT
  <2>4. b * t >= 0
    <3>1. t >= 0
      <4>1. SUFFICES ASSUME t <= -1 PROVE FALSE
        BY <2>1, SMT
      <4>2. b * t <= -b
        BY <2>1, <4>1, SMT
      <4>3. QED BY <4>2, <2>1, <2>3, <1>1, SMT
    <3>2. QED BY <3>1, <2>1, SMT
  <2> DEFINE p == b * t
  <2> HIDE DEF p
  <2>5. p \in Int /\ p >= 0 /\ a = p + r /\ t * b = p
    BY <2>1, <2>3, <2>4 DEF p
  <2>6. p <= m /\ -m <= p /\ p - a <= b - 1 /\ a - p <= b - 1
    BY <2>5, <2>1, SMT
  <2>7. QED BY <2>1, <2>2, <2>5, <2>6
<1>2. CASE a < 0
  <2> DEFINE t == (-a) \div b  r == (-a) % b
  <2>0. -a \in Int
    BY SMT
  <2>1. t \in Int /\ r \in 0 .. b - 1 /\ -a = b * t + r
    BY <2>0, DivModDef
  <2>2. Truncated(a, b) = -t
    BY <1>2, SMT DEF Truncated
  <2> HIDE DEF t, r
  <2>3. (-t) * b = -(b * t) /\ b * t \in Int
    BY <2>1, SMT
  <2>4. b * t >= 0
    <3>1. t >= 0
      <4>1. SUFFICES ASSUME t <= -1 PROVE FALSE
        BY <2>1, SMT
      <4>2. b * t <= -b
        BY <2>1, <4>1, SMT
      <4>3. QED BY <4>2, <2>1, <2>3, <1>2, SMT
    <3>2. QED BY <3>1, <2>1, SMT
  <2> DEFINE p == b * t  y == (-t) * b
  <2> HIDE DEF p, y
  <2>5. p \in Int /\ p >= 0 /\ -a = p + r /\ y = -p
    BY <2>1, <2>3, <2>4 DEF p, y
  <2>6. y <= m /\ -m <= y /\ y - a <= b - 1 /\ a - y <= b - 1
    BY <2>5, <2>1, SMT
  <2>7. -t \in Int
    BY <2>1, SMT
  <2>8. QED BY <2>2, <2>6, <2>7 DEF y
<1>3. QED BY <1>1, <1>2, SMT

\* A sum of c contributions of at most m, in a deployment of n >= c that passes
\* the bound check, is an int32_t.
LEMMA BoundSuffices ==
    ASSUME NEW n \in Nat, NEW m \in Nat, netsum_sum_fits_i32(n, m),
           NEW c \in Nat, c <= n, NEW x \in Int,
           x * Unit <= c * (m * SCALE), -(c * (m * SCALE)) <= x * Unit
    PROVE  x \in Int32
<1>0. /\ Unit \in Nat /\ Unit > 0 /\ SCALE \in Nat
      /\ INT_MAX \in Int /\ INT_MIN \in Int
  BY ScaleAssumption, HalfFacts, SMT DEF INT_MAX, INT_MIN
<1> DEFINE b == m * SCALE
<1>1. b \in Nat /\ n * m * SCALE = n * b
  BY <1>0, SMT
<1> HIDE DEF b
<1>2. n * b < INT_MAX * Unit /\ -(n * b) > INT_MIN * Unit
  BY <1>1 DEF netsum_sum_fits_i32
<1>3. c * b <= n * b
  BY <1>1, SMT
<1> DEFINE X == x * Unit  C == c * b  N == n * b  U == INT_MAX * Unit  L == INT_MIN * Unit
<1>4. X \in Int /\ C \in Int /\ N \in Int /\ U \in Int /\ L \in Int
  BY <1>0, <1>1, SMT
<1>5. X <= C /\ -C <= X /\ N < U /\ -N > L /\ C <= N
  BY <1>2, <1>3 DEF b
<1> HIDE DEF X, C, N, U, L
<1>6. X < U /\ X > L
  BY <1>4, <1>5, SMT
<1>7. x < INT_MAX
  <2>1. SUFFICES ASSUME x >= INT_MAX PROVE FALSE
    BY <1>0, SMT
  <2>2. x * Unit >= INT_MAX * Unit
    BY <1>0, <2>1, SMT
  <2>3. QED BY <1>4, <1>6, <2>2, SMT DEF X, U
<1>8. x > INT_MIN
  <2>1. SUFFICES ASSUME x <= INT_MIN PROVE FALSE
    BY <1>0, SMT
  <2>2. x * Unit <= INT_MIN * Unit
    BY <1>0, <2>1, SMT
  <2>3. QED BY <1>4, <1>6, <2>2, SMT DEF X, L
<1>9. QED BY <1>0, <1>7, <1>8, SMT DEF Int32

LEMMA Quantised ==
    ASSUME NEW v \in Int, NEW q \in netsum_to_fixed(v)
    PROVE  /\ q \in Int32
           /\ \A n \in Nat \ {0}, m \in Nat :
                 netsum_sum_fits_i32(n, m) /\ -m <= v /\ v <= m =>
                    /\ q * Unit <= m * SCALE /\ -(m * SCALE) <= q * Unit
                    /\ (q * Unit) - (v * SCALE) <= Unit - 1
                    /\ (v * SCALE) - (q * Unit) <= Unit - 1
<1>0. Unit \in Nat /\ Unit > 0 /\ SCALE \in Nat /\ SCALE > 0
  BY ScaleAssumption
<1>1. q \in Int32
  <2>1. INT_MIN \in Int32 /\ INT_MAX \in Int32
    BY HalfFacts, SMT DEF Int32, INT_MIN, INT_MAX
  <2>2. QED BY <2>1 DEF netsum_to_fixed
<1>2. ASSUME NEW n \in Nat \ {0}, NEW m \in Nat, netsum_sum_fits_i32(n, m), -m <= v, v <= m
      PROVE  /\ q * Unit <= m * SCALE /\ -(m * SCALE) <= q * Unit
             /\ (q * Unit) - (v * SCALE) <= Unit - 1
             /\ (v * SCALE) - (q * Unit) <= Unit - 1
  <2> DEFINE a == v * SCALE  b == m * SCALE  t == Truncated(a, Unit)
  <2>1. a \in Int /\ b \in Int /\ -b <= a /\ a <= b
    <3>1. a <= b
      BY <1>0, <1>2, SMT
    <3>2. -b <= a
      <4>1. (-m) * SCALE <= v * SCALE
        BY <1>0, <1>2, SMT
      <4>2. (-m) * SCALE = -b
        BY <1>0, SMT
      <4>3. QED BY <4>1, <4>2
    <3>3. QED BY <3>1, <3>2, <1>0, SMT
  <2> HIDE DEF a, b
  <2>2. /\ t \in Int
        /\ t * Unit <= b /\ -b <= t * Unit
        /\ (t * Unit) - a <= Unit - 1 /\ a - (t * Unit) <= Unit - 1
    BY <1>0, <2>1, TruncatedBounds
  <2> HIDE DEF t
  <2>3. 1 * (m * SCALE) = b
    BY <1>0, SMT DEF b
  <2>4. t \in Int32
    <3>1. 1 \in Nat /\ 1 <= n /\ n \in Nat
      BY SMT
    <3>2. t * Unit <= 1 * (m * SCALE) /\ -(1 * (m * SCALE)) <= t * Unit
      BY <2>2, <2>3
    <3>3. QED BY ONLY <3>1, <3>2, <2>2, <1>2, BoundSuffices
  <2>5. q = t
    BY <2>4 DEF netsum_to_fixed, t, a
  <2>6. QED BY <2>2, <2>5 DEF a, b
<1>3. QED BY <1>1, <1>2

-----------------------------------------------------------------------------
\* The verdicts are the same, and so are the fields of an accepted datagram, for
\* every input (fuzz_grad_parse.cpp:80-101 never aborts; parse_shared.h:12-18).
THEOREM NoDivergence ==
    \A r \in [len : Nat, worker_id : Field, num_workers : Field, chunk_len : Field] :
        ~Divergence(r)
<1>1. SUFFICES ASSUME NEW r \in [len : Nat, worker_id : Field, num_workers : Field,
                                 chunk_len : Field]
               PROVE  ~Divergence(r)
  OBVIOUS
<1>2. /\ r.worker_id \in Byte \X Byte /\ r.num_workers \in Byte \X Byte
      /\ r.chunk_len \in Byte \X Byte
  BY DEF Field, Byte
<1>3. /\ netsum_bpf_ntohs(Load16(r.worker_id)) = ntohs(Load16(r.worker_id))
      /\ netsum_bpf_ntohs(Load16(r.num_workers)) = ntohs(Load16(r.num_workers))
      /\ netsum_bpf_ntohs(Load16(r.chunk_len)) = ntohs(Load16(r.chunk_len))
  BY <1>2, ShortSwapsAgree
<1>4. agg_parse_stateless(r) = xdp_parse_stateless(r)
  BY <1>3, Zenon DEF agg_parse_stateless, xdp_parse_stateless
<1>5. QED
  BY <1>4 DEF Divergence
=============================================================================
