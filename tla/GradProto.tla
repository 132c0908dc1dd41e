------------------------------ MODULE GradProto ------------------------------
(***************************************************************************)
(* The wire protocol, src/protocol/grad_proto.h: the sizes of a datagram,  *)
(* its multi-byte fields in network byte order, and its lanes, Q16.16      *)
(* fixed-point numbers in an int32_t.                                      *)
(*                                                                         *)
(* Scale.  BYTE is the number of values of a byte (256) and SCALE the      *)
(* fixed-point 1.0 (2^16); words are always four bytes.  A double is a     *)
(* multiple of 1/Unit, kept as that multiple.  The host is little-endian   *)
(* (xdp_agg/bpf_compat.h:90-91).                                           *)
(***************************************************************************)
EXTENDS Integers

CONSTANTS BYTE, SCALE, Unit

ASSUME ScaleAssumption ==
    /\ BYTE \in Nat /\ BYTE >= 2 /\ BYTE % 2 = 0
    /\ SCALE \in Nat \ {0}
    /\ Unit \in Nat \ {0}

NETSUM_HDR_SIZE == 20
LaneSize == 4

-----------------------------------------------------------------------------
(***************************************************************************)
(* Integers: two's complement words, and their bytes in the host's memory. *)
(***************************************************************************)
WORD    == BYTE * BYTE * BYTE * BYTE
HALF    == WORD \div 2
INT_MIN == -HALF
INT_MAX == HALF - 1
Int32   == INT_MIN .. INT_MAX
Uint32  == 0 .. WORD - 1

\* The casts (uint32_t)x and (int32_t)u.
Unsigned(x) == x % WORD
Signed(u)   == IF u >= HALF THEN u - WORD ELSE u

\* sum += x, as built: int32_t addition wraps around.
Plus32(x, y) == Signed(Unsigned(x + y))

\* A word is written to memory, and read back; so is a lane on the wire.
Lane == [1 .. LaneSize -> 0 .. BYTE - 1]
Store(u) == <<u % BYTE, (u \div BYTE) % BYTE, (u \div (BYTE * BYTE)) % BYTE,
              u \div (BYTE * BYTE * BYTE)>>
Load(b)  == b[1] + BYTE * (b[2] + BYTE * (b[3] + BYTE * b[4]))

\* htonl(), ntohl(): the bytes in memory are turned around.
Reversed(b) == <<b[4], b[3], b[2], b[1]>>
ntohl(u) == Load(Reversed(Store(u)))

\* netsum_bpf_ntohl(): four bytes masked and shifted into place.
\* Mutant: the two middle bytes are not exchanged.
BpfNtohlMiddleKept(u) ==
    (u % BYTE) * (BYTE * BYTE * BYTE)
    + ((u \div (BYTE * BYTE)) % BYTE) * (BYTE * BYTE)
    + ((u \div BYTE) % BYTE) * BYTE
    + (u \div (BYTE * BYTE * BYTE))

netsum_bpf_ntohl(u) ==
    (u % BYTE) * (BYTE * BYTE * BYTE)
    + ((u \div BYTE) % BYTE) * (BYTE * BYTE)
    + ((u \div (BYTE * BYTE)) % BYTE) * BYTE
    + (u \div (BYTE * BYTE * BYTE))

\* The 16-bit fields: two bytes in memory, ntohs(), netsum_bpf_ntohs().
Load16(b) == b[1] + BYTE * b[2]
ntohs(v)  == (v \div BYTE) + BYTE * (v % BYTE)
netsum_bpf_ntohs(v) == ((v * BYTE) % (BYTE * BYTE)) + (v \div BYTE)

-----------------------------------------------------------------------------
(***************************************************************************)
(* Fixed point.                                                            *)
(***************************************************************************)
\* a / b towards zero, as a conversion to an integer truncates.
Truncated(a, b) == IF a >= 0 THEN a \div b ELSE -((-a) \div b)

\* Mutant: the cast binds before the multiplication.
ToFixedCastFirst(v) == {Truncated(v, Unit) * SCALE}

\* The outcomes of netsum_to_fixed(v): beyond int32_t the conversion is
\* undefined, and yields the least value (x86-64) or the nearest (arm64).
netsum_to_fixed(v) ==
    LET fixed == Truncated(v * SCALE, Unit)
    IN  IF fixed \in Int32 THEN {fixed}
        ELSE {INT_MIN, IF fixed > 0 THEN INT_MAX ELSE INT_MIN}

\* In multiples of 1/(SCALE * Unit), the grid of all that is compared with it.
netsum_to_double(fixed) == fixed * Unit

\* Mutant: the sum may be one more than the greatest int32_t.
FitsInclusive(num_workers, max_abs) == num_workers * max_abs * SCALE <= HALF * Unit

netsum_sum_fits_i32(num_workers, max_abs) ==
    LET max_fixed_sum == num_workers * max_abs * SCALE
    IN  max_fixed_sum < INT_MAX * Unit /\ -max_fixed_sum > INT_MIN * Unit
=============================================================================
