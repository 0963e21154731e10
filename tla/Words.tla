------------------------------- MODULE Words --------------------------------
(***************************************************************************)
(* Bits of unsigned words.  metl::bitset<N> (detail/bitset.hpp) keeps N    *)
(* bits in words of word_bits bits: indexing, counting, searching and      *)
(* shifting across word boundaries.  The functions of bit.hpp,             *)
(* bitfield.hpp, endian.hpp and the masks of mmio.hpp are evaluated on the *)
(* number that the N bits spell, the checksums on messages that begin with *)
(* it as their first byte.  `bits` is what the bitset stands for.          *)
(***************************************************************************)
EXTENDS Integers, Sequences, FiniteSets, FiniteSetsExt, SequencesExt, Functions, Bitwise

CONSTANTS
  N,            \* bits of the bitset, and of the type T of the functions
  word_bits,    \* bits of a word of the bitset
  byte_bits,    \* bits of a byte; N is a multiple
  Tails,        \* what follows the first byte of a checksummed message
  Given         \* an initial and a final_xor that a caller passes

VARIABLES
  words_,       \* [0 .. word_count - 1 -> a word's value]
  bits          \* the indices that are set

vars == <<words_, bits>>

word_count == (N + word_bits - 1) \div word_bits
K == 0 .. word_count - 1

Shl(value, n, width) == (value * 2^n) % 2^width
Shr(value, n) == value \div 2^n
Flip(value, width) == (2^width - 1) - value

-----------------------------------------------------------------------------
\* bit.hpp: T has `width` bits.
popcount_impl(value) ==
  LET count[v \in 0 .. value] == IF v = 0 THEN 0 ELSE (v & 1) + count[Shr(v, 1)]
  IN  count[value]

countl_zero_impl(value, width) ==
  LET count[mask \in Nat] == IF (value & mask) = 0 THEN 1 + count[Shr(mask, 1)] ELSE 0
  IN  count[2^(width - 1)]

countr_zero_impl(value) ==
  LET count[v \in 0 .. value] == IF (v & 1) = 0 THEN 1 + count[Shr(v, 1)] ELSE 0
  IN  count[value]

popcount(value) == popcount_impl(value)
has_single_bit(value) == value # 0 /\ (value & (value - 1)) = 0
countl_zero(value, width) == IF value = 0 THEN width ELSE countl_zero_impl(value, width)
countr_zero(value, width) == IF value = 0 THEN width ELSE countr_zero_impl(value)
bit_width(value, width) == IF value = 0 THEN 0 ELSE width - countl_zero(value, width)
bit_floor(value, width) == IF value = 0 THEN 0 ELSE 2^(bit_width(value, width) - 1)

\* Zero when the power of two does not fit the type.
bit_ceil(value, width) ==
  IF value <= 1 THEN 1
  ELSE LET needed == bit_width(value - 1, width)
       IN  IF needed >= width THEN 0 ELSE 2^needed

-----------------------------------------------------------------------------
\* bitfield<lsb, width, T> and the register masks of mmio.hpp.
low_bits(count) == IF count >= N THEN 2^N - 1 ELSE 2^count - 1
mask(lsb, width) == Shl(low_bits(width), lsb, N)
extract(value, lsb, width) == Shr(value & mask(lsb, width), lsb)
encode(field_val, lsb, width) == Shl(field_val, lsb, N) & mask(lsb, width)
insert(value, field_val, lsb, width) ==
  (value & Flip(mask(lsb, width), N)) | (Shl(field_val, lsb, N) & mask(lsb, width))

mmio_set(current, ones) == current | ones
mmio_clear(current, ones) == current & Flip(ones, N)
mmio_merge(current, msk, value) == (current & Flip(msk, N)) | (value & msk)

\* endian.hpp, for a type of sizeof(T) = N \div byte_bits bytes.
byteswap(value) ==
  LET swap[i \in 0 .. N \div byte_bits] ==   \* the result and what is left of the value
        IF i = 0 THEN <<0, value>>
        ELSE LET s == swap[i - 1] IN
             <<Shl(s[1], byte_bits, N) | (s[2] & (2^byte_bits - 1)), Shr(s[2], byte_bits)>>
  IN  swap[N \div byte_bits][1]

to_little_endian(native, value) == IF native = "little" THEN value ELSE byteswap(value)
to_big_endian(native, value) == IF native = "big" THEN value ELSE byteswap(value)
from_little_endian(native, value) == to_little_endian(native, value)
from_big_endian(native, value) == to_big_endian(native, value)

-----------------------------------------------------------------------------
\* crc8, crc16 and crc32 (detail/crc.hpp and their headers).  A byte and a
\* register are the set of their one bits, so that exclusive or is symmetric
\* difference.
Down(x, n) == {i - n : i \in {j \in x : j >= n}}             \* x >> n
Up(x, n, width) == {i + n : i \in {j \in x : j + n < width}} \* x << n
Repeat(f(_), x, n) ==
  LET r[k \in 0 .. n] == IF k = 0 THEN x ELSE f(r[k - 1]) IN r[n]

crc8_polynomial == {2, 1, 0}
crc16_polynomial == {12, 5, 0}
crc32_polynomial ==                            \* 0xEDB88320
  {31, 30, 29, 27, 26, 24, 23, 21, 20, 19, 15, 9, 8, 5}

Widths == [crc8 |-> 8, crc16 |-> 16, crc32 |-> 32]
Defaults ==
  [crc8  |-> [initial |-> {}, final_xor |-> {}],
   crc16 |-> [initial |-> 0 .. 15, final_xor |-> {}],
   crc32 |-> [initial |-> 0 .. 31, final_xor |-> 0 .. 31]]

\* One bit of a register: towards bit 0 when reflected, away from it if not.
StepReflected(poly, x) == IF 0 \in x THEN SymDiff(Down(x, 1), poly) ELSE Down(x, 1)
StepForward(width, poly, x) ==
  IF width - 1 \in x THEN SymDiff(Up(x, 1, width), poly) ELSE Up(x, 1, width)

\* The entries of the nibble tables, at an index that is four bits.
make_crc_nibble_table_reflected(poly, index) ==
  Repeat(LAMBDA x : StepReflected(poly, x), index, 4)
make_crc_nibble_table_forward(width, poly, index) ==
  Repeat(LAMBDA x : StepForward(width, poly, x), Up(index, width - 4, width), 4)

crc_update_byte_reflected(poly, crc, byte) ==
  Repeat(LAMBDA x : SymDiff(Down(x, 4), make_crc_nibble_table_reflected(poly, x \cap (0 .. 3))),
         SymDiff(crc, byte), 2)

crc_update_byte_forward(width, poly, crc, byte) ==
  Repeat(LAMBDA x : SymDiff(Up(x, 4, width),
                        make_crc_nibble_table_forward(width, poly, Down(x, width - 4))),
         SymDiff(crc, Up(byte, width - 8, width)), 2)

\* update_byte of the three algorithms, with a table and without.
crc8_update_byte(tab, crc, byte) ==
  IF tab THEN crc_update_byte_forward(8, crc8_polynomial, crc, byte)
  ELSE Repeat(LAMBDA x : StepForward(8, crc8_polynomial, x), SymDiff(crc, byte), 8)
crc16_update_byte(tab, crc, byte) ==
  IF tab THEN crc_update_byte_forward(16, crc16_polynomial, crc, byte)
  ELSE Repeat(LAMBDA x : StepForward(16, crc16_polynomial, x),
              SymDiff(crc, Up(byte, 8, 16)), 8)
crc32_update_byte(tab, crc, byte) ==
  IF tab THEN crc_update_byte_reflected(crc32_polynomial, crc, byte)
  ELSE Repeat(LAMBDA x : StepReflected(crc32_polynomial, x), SymDiff(crc, byte), 8)

update(alg, tab, crc, byte) ==
  CASE alg = "crc8"  -> crc8_update_byte(tab, crc, byte)
    [] alg = "crc16" -> crc16_update_byte(tab, crc, byte)
    [] alg = "crc32" -> crc32_update_byte(tab, crc, byte)

crc_fold(alg, tab, bytes, p) ==
  SymDiff(FoldLeft(LAMBDA crc, byte : update(alg, tab, crc, byte), p.initial, bytes), p.final_xor)

\* A text is folded up to its terminator, the first zero byte.
c_string_length(text) == Min({i \in 1 .. Len(text) : text[i] = {}}) - 1
crc_fold_text(alg, tab, text, p) ==
  crc_fold(alg, tab, SubSeq(text, 1, c_string_length(text)), p)

\* The checksum functions, of bytes and of texts.
crc8(tab, is_text, data, p) ==
  IF is_text THEN crc_fold_text("crc8", tab, data, p) ELSE crc_fold("crc8", tab, data, p)
crc16(tab, is_text, data, p) ==
  IF is_text THEN crc_fold_text("crc16", tab, data, p) ELSE crc_fold("crc16", tab, data, p)
crc32(tab, is_text, data, p) ==
  IF is_text THEN crc_fold_text("crc32", tab, data, p) ELSE crc_fold("crc32", tab, data, p)

-----------------------------------------------------------------------------
\* The observers of bitset.
bit(index) == 2^(index % word_bits)
last_word_mask ==
  IF N % word_bits = 0 THEN 2^word_bits - 1 ELSE 2^(N % word_bits) - 1

test(index) == (Shr(words_[index \div word_bits], index % word_bits) & 1) # 0

count ==
  LET total[k \in 0 .. word_count] == IF k = 0 THEN 0 ELSE total[k - 1] + popcount(words_[k - 1])
  IN  total[word_count]

any == \E k \in K : words_[k] # 0
all == count = N

\* The lowest one bit of the words `w`, from word k on.
LowestFrom(w, k) ==
  IF \A j \in K : j >= k => w[j] = 0 THEN N
  ELSE LET first == Min({j \in K : j >= k /\ w[j] # 0})
       IN  first * word_bits + countr_zero(w[first], word_bits)

find_first_set == LowestFrom(words_, 0)

find_next_set(from) ==
  IF from >= N THEN N
  ELSE LET k == from \div word_bits
           high == Shl(2^word_bits - 1, from % word_bits, word_bits)
       IN  LowestFrom([words_ EXCEPT ![k] = @ & high], k)

\* The tail of the last word is not masked.
find_first_clear == LowestFrom([k \in K |-> Flip(words_[k], word_bits)], 0)

-----------------------------------------------------------------------------
Init == words_ = [k \in K |-> 0] /\ bits = {}

set(index) ==
  /\ words_' = [words_ EXCEPT ![index \div word_bits] = @ | bit(index)]
  /\ bits' = bits \cup {index}

reset(index) ==
  /\ words_' = [words_ EXCEPT ![index \div word_bits] = @ & Flip(bit(index), word_bits)]
  /\ bits' = bits \ {index}

reset_all ==
  /\ words_' = [k \in K |-> 0]
  /\ bits' = {}

\* The words after operator<<=, before the last one is masked; each is
\* computed from words the loop, which runs downwards, has not written yet.
ShiftedUp(n) ==
  LET words == n \div word_bits
      rest == n % word_bits
  IN  [k \in K |->
        IF k < words THEN 0
        ELSE Shl(words_[k - words], rest, word_bits)
               | (IF rest # 0 /\ k > words
                  THEN Shr(words_[(k - words) - 1], word_bits - rest) ELSE 0)]

\* Fault: the tail of the last word keeps what was shifted past bit N - 1.
shift_left_NoMask(n) ==
  /\ words_' = IF n >= N THEN [k \in K |-> 0] ELSE ShiftedUp(n)
  /\ bits' = {i + n : i \in bits} \cap (0 .. N - 1)

shift_left(n) ==
  /\ words_' = IF n >= N THEN [k \in K |-> 0]
               ELSE [ShiftedUp(n) EXCEPT ![word_count - 1] = @ & last_word_mask]
  /\ bits' = {i + n : i \in bits} \cap (0 .. N - 1)

shift_right(n) ==
  LET words == n \div word_bits
      rest == n % word_bits
  IN
  /\ words_' = IF n >= N THEN [k \in K |-> 0]
               ELSE [k \in K |->
                      IF k + words >= word_count THEN 0
                      ELSE Shr(words_[k + words], rest)
                             | (IF rest # 0 /\ k + words + 1 < word_count
                                THEN Shl(words_[k + words + 1], word_bits - rest, word_bits)
                                ELSE 0)]
  /\ bits' = {i - n : i \in bits} \cap (0 .. N - 1)

Next ==
  \/ \E i \in 0 .. N - 1 : set(i) \/ reset(i)
  \/ reset_all
  \/ \E n \in 0 .. N + 1 : shift_left(n) \/ shift_right(n)

Spec == Init /\ [][Next]_vars

-----------------------------------------------------------------------------
TypeOK == words_ \in [K -> 0 .. 2^word_bits - 1] /\ bits \subseteq 0 .. N - 1

Number(S) == MapThenSumSet(LAMBDA i : 2^i, S)

(***************************************************************************)
(* After any calls the bitset holds the bits it stands for, its tail bits  *)
(* are zero, and the counts and searches, which lean on that zero tail and *)
(* step from word to word, answer for those bits                           *)
(* (detail/bitset.hpp:58-159, :109).                                       *)
(***************************************************************************)
BitsetExact ==
  /\ TypeOK
  /\ \A k \in K : words_[k] = Number({i - k * word_bits : i \in
                    {j \in bits : j \div word_bits = k}})
  /\ \A i \in 0 .. N - 1 : test(i) <=> i \in bits
  /\ count = Cardinality(bits) /\ (any <=> bits # {}) /\ (all <=> bits = 0 .. N - 1)
  /\ find_first_set = Min(bits \cup {N})
  /\ find_first_clear = Min(0 .. N \ bits)
  /\ \A from \in 0 .. N + 1 : find_next_set(from) = Min({i \in bits : i >= from} \cup {N})

\* The bits at and above lsb of a field of the number, moved down.
Field(S, lsb, width) == {i - lsb : i \in S \cap (lsb .. lsb + width - 1)}

(***************************************************************************)
(* On the number the bits spell: counting, rounding to a power of two (0   *)
(* when it does not fit), cutting out and replacing a field, the register  *)
(* masks and the byte orders do what they promise, the full-width field    *)
(* and both ends of the type's range included (bit.hpp:100-255,            *)
(* bitfield.hpp:49-73, mmio.hpp:46-66, endian.hpp:69-140).                 *)
(***************************************************************************)
NumbersExact ==
  LET v == Number(bits)
      top == Max(bits \cup {-1})
      field_vals == {0, v, 2^N - 1}
  IN
  /\ popcount(v) = Cardinality(bits) /\ (has_single_bit(v) <=> Cardinality(bits) = 1)
  /\ countl_zero(v, N) = (N - 1) - top /\ countr_zero(v, N) = Min(bits \cup {N})
  /\ bit_floor(v, N) = Max({0} \cup {p \in {2^i : i \in 0 .. N - 1} : p <= v})
  /\ LET above == {p \in {2^i : i \in 0 .. N - 1} : p >= v}
     IN  bit_ceil(v, N) = IF above = {} THEN 0 ELSE Min(above)
  /\ \A lsb \in 0 .. N - 1 : \A width \in 1 .. N - lsb :
       /\ extract(v, lsb, width) = Number(Field(bits, lsb, width))
       /\ \A f \in field_vals :
            LET low == f % 2^width
                put == insert(v, f, lsb, width)
            IN  /\ extract(encode(f, lsb, width), lsb, width) = low
                /\ put = mmio_merge(v, mask(lsb, width), encode(f, lsb, width))
                /\ put = mmio_set(mmio_clear(v, mask(lsb, width)), low * 2^lsb)
                /\ put = (v - extract(v, lsb, width) * 2^lsb) + low * 2^lsb
  /\ LET bytes == N \div byte_bits
         order == [i \in 0 .. N - 1 |->
                    ((bytes - 1) - (i \div byte_bits)) * byte_bits + (i % byte_bits)]
     IN  byteswap(v) = Number({order[i] : i \in bits})
  /\ \A native \in {"little", "big"} :
       /\ from_little_endian(native, to_little_endian(native, v)) = v
       /\ from_big_endian(native, to_big_endian(native, v)) = v
       /\ to_big_endian(native, v) = byteswap(to_little_endian(native, v))

(***************************************************************************)
(* Division of polynomials over GF(2): the remainder of the message, with  *)
(* the initial register added to its first bits, by x^width + the          *)
(* generator.  `power(i, b)` is the exponent of bit b of the i-th byte; a  *)
(* reflected algorithm sends bit 0 first, and its register is reversed.    *)
(***************************************************************************)
Remainder(alg, bytes, initial) ==
  LET width == Widths[alg]
      reflected == alg = "crc32"
      reg(x) == IF reflected THEN {(width - 1) - i : i \in x} ELSE x
      generator == {width} \cup reg(CASE alg = "crc8"  -> crc8_polynomial
                                      [] alg = "crc16" -> crc16_polynomial
                                      [] alg = "crc32" -> crc32_polynomial)
      n == Len(bytes)
      power(i, b) == 8 * (n - i) + (IF reflected THEN 7 - b ELSE b) + width
      dividend == SymDiff({power(i, b) : <<i, b>> \in {<<j, c>> \in (1 .. n) \X (0 .. 7) : c \in bytes[j]}},
                      {e + 8 * n : e \in reg(initial)})
      left[e \in width - 1 .. width + 8 * n] ==   \* no exponent above e is left
        IF e = width + 8 * n THEN dividend
        ELSE LET d == left[e + 1] IN
             IF e + 1 \in d THEN SymDiff(d, {(g + (e + 1)) - width : g \in generator}) ELSE d
  IN  reg(left[width - 1])

(***************************************************************************)
(* A message that begins with the byte the bits spell, checksummed in two  *)
(* parts with the second seeded from the first's result, gives what one    *)
(* call over all of it gives, with the table and without, as bytes and as  *)
(* a text; and that is the remainder the algorithm is defined by           *)
(* (crc16.hpp:35-48, 69-78, detail/crc.hpp:44-141).                        *)
(***************************************************************************)
ChecksumsExact ==
  \A alg \in DOMAIN Widths, tail \in Tails, tab \in BOOLEAN :
  \A p \in {Defaults[alg], Given} :
    LET message == <<bits>> \o tail
        crc(is_text, data, q) == CASE alg = "crc8"  -> crc8(tab, is_text, data, q)
                                   [] alg = "crc16" -> crc16(tab, is_text, data, q)
                                   [] alg = "crc32" -> crc32(tab, is_text, data, q)
        first(k) == crc(FALSE, SubSeq(message, 1, k), p)
        whole(k) == crc(FALSE, SubSeq(message, k + 1, Len(message)),
                        [p EXCEPT !.initial = SymDiff(first(k), p.final_xor)])
        expected == SymDiff(Remainder(alg, message, p.initial), p.final_xor)
    IN  /\ \A k \in 0 .. Len(message) : whole(k) = expected
        /\ {} \notin Range(message) => crc(TRUE, Append(message, {}), p) = expected

=============================================================================
