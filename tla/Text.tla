--------------------------------- MODULE Text ---------------------------------
(***************************************************************************)
(* Bounded conversions between integers and text (format.hpp, parse.hpp).  *)
(* A number is formatted into a buffer, over what was there, and the line  *)
(* is read back; other lines arrive a character at a time.  Integers are   *)
(* Bits wide; digits are folded in an accumulator of AccBits.              *)
(***************************************************************************)
EXTENDS Integers, Sequences, FiniteSetsExt

CONSTANTS
  Bits, AccBits,
  Characters,       \* the character codes that arrive
  MaxLine, MaxBuffer,
  Values            \* the integers that are formatted

\* Character codes.
Zero == 48
Minus == 45
Lower == 97
Upper == 65

UintMax == 2^Bits - 1
IntMax == 2^(Bits - 1) - 1
IntMin == -(2^(Bits - 1))

VARIABLES
  out,      \* the buffer
  text,     \* the line
  sent      \* what the line was formatted from: <<kind, value>>, or <<>>

vars == <<out, text, sent>>

-----------------------------------------------------------------------------
\* parse.hpp

is_decimal_digit(c) == c >= Zero /\ c <= Zero + 9

hex_digit_value(c) ==
  CASE c >= Zero /\ c <= Zero + 9   -> c - Zero
    [] c >= Lower /\ c <= Lower + 5 -> c - Lower + 10
    [] c >= Upper /\ c <= Upper + 5 -> c - Upper + 10
    [] OTHER                        -> 16

\* Folds the digits in front: [value, consumed, overflowed].
fold_decimal(s, limit_head, limit_tail) ==
  LET run[i \in 0 .. Len(s)] ==
        IF i = 0 THEN [value |-> 0, consumed |-> 0, overflowed |-> FALSE]
        ELSE LET r     == run[i - 1]
                 digit == s[i] - Zero
             IN  IF r.consumed < i - 1 \/ ~is_decimal_digit(s[i]) THEN r
                 ELSE IF r.value > limit_head \/ (r.value = limit_head /\ digit > limit_tail)
                 THEN [r EXCEPT !.consumed = i, !.overflowed = TRUE]
                 ELSE [r EXCEPT !.consumed = i, !.value = (@ * 10 + digit) % 2^AccBits]
  IN  run[Len(s)]

fold_hex(s, limit_head) ==
  LET run[i \in 0 .. Len(s)] ==
        IF i = 0 THEN [value |-> 0, consumed |-> 0, overflowed |-> FALSE]
        ELSE LET r     == run[i - 1]
                 digit == hex_digit_value(s[i])
             IN  IF r.consumed < i - 1 \/ digit = 16 THEN r
                 ELSE IF r.value > limit_head
                 THEN [r EXCEPT !.consumed = i, !.overflowed = TRUE]
                 ELSE [r EXCEPT !.consumed = i, !.value = (@ * 16 + digit) % 2^AccBits]
  IN  run[Len(s)]

negative_limit_of == (IntMax + 1) % 2^AccBits

\* An expected<parsed<T>, parse_error>.
parsed(v, tail) == [value |-> v, rest |-> tail]
unexpected(e) == [error |-> e]
has_value(result) == "value" \in DOMAIN result

Rest(s, n) == SubSeq(s, n + 1, Len(s))

try_parse_uint(s) ==
  LET run == fold_decimal(s, UintMax \div 10, UintMax % 10)
  IN  CASE s = <<>>         -> unexpected("empty")
        [] s # <<>> /\ run.consumed = 0 -> unexpected("not_a_number")
        [] run.overflowed   -> unexpected("out_of_range")
        [] OTHER            -> parsed(run.value, Rest(s, run.consumed))

\* Fault: both signs share the positive limit.
try_parse_int_OneLimit(s) ==
  LET negative == s # <<>> /\ s[1] = Minus
      digits   == IF negative THEN Tail(s) ELSE s
      run      == fold_decimal(digits, IntMax \div 10, IntMax % 10)
  IN  CASE s = <<>>         -> unexpected("empty")
        [] s # <<>> /\ run.consumed = 0 -> unexpected("not_a_number")
        [] run.overflowed   -> unexpected("out_of_range")
        [] OTHER            -> parsed(IF negative THEN -run.value ELSE run.value,
                                      Rest(digits, run.consumed))

\* The negative range is larger by one, and its end is not negated.
try_parse_int(s) ==
  LET negative == s # <<>> /\ s[1] = Minus
      digits   == IF negative THEN Tail(s) ELSE s
      limit    == IF negative THEN negative_limit_of ELSE IntMax
      run      == fold_decimal(digits, limit \div 10, limit % 10)
      value    == CASE ~negative                        -> run.value
                    [] negative /\ run.value = limit    -> IntMin
                    [] OTHER                            -> -run.value
  IN  CASE s = <<>>         -> unexpected("empty")
        [] s # <<>> /\ run.consumed = 0 -> unexpected("not_a_number")
        [] run.overflowed   -> unexpected("out_of_range")
        [] OTHER            -> parsed(value, Rest(digits, run.consumed))

try_parse_hex(s) ==
  LET run == fold_hex(s, UintMax \div 16)
  IN  CASE s = <<>>         -> unexpected("empty")
        [] s # <<>> /\ run.consumed = 0 -> unexpected("not_a_number")
        [] run.overflowed   -> unexpected("out_of_range")
        [] OTHER            -> parsed(run.value, Rest(s, run.consumed))

-----------------------------------------------------------------------------
\* format.hpp

decimal_digits(magnitude) ==
  LET digits[m \in Nat] == IF m >= 10 THEN 1 + digits[m \div 10] ELSE 1
  IN  digits[magnitude]

hex_digits(value) ==
  LET digits[v \in Nat] == IF v >= 16 THEN 1 + digits[v \div 16] ELSE 1
  IN  digits[value]

\* buffer with the `count` characters from `first` on written backwards from
\* the least digit.
write_decimal(buffer, first, count, magnitude) ==
  [i \in DOMAIN buffer |->
     IF i \in first .. first + count - 1
     THEN Zero + ((magnitude \div 10^(first + count - 1 - i)) % 10) ELSE buffer[i]]

write_hex(buffer, count, value, letters) ==
  [i \in DOMAIN buffer |->
     LET nibble == (value \div 16^(count - i)) % 16
     IN  IF i > count THEN buffer[i]
         ELSE IF nibble < 10 THEN Zero + nibble ELSE letters + nibble - 10]

\* In the unsigned domain, where the most negative value has a magnitude.
magnitude_of(v) == IF v < 0 THEN (-(v % 2^AccBits)) % 2^AccBits ELSE v

\* The buffer after a call, and the span returned.
Written(buffer, count) == [out |-> buffer, text |-> SubSeq(buffer, 1, count)]
Refused(buffer) == Written(buffer, 0)

try_format_uint(buffer, v) ==
  LET count == decimal_digits(v)
  IN  IF count > Len(buffer) THEN Refused(buffer)
      ELSE Written(write_decimal(buffer, 1, count, v), count)

try_format_int(buffer, v) ==
  LET digits == decimal_digits(magnitude_of(v))
      count  == digits + IF v < 0 THEN 1 ELSE 0
      signed == [buffer EXCEPT ![1] = Minus]
  IN  CASE count > Len(buffer)            -> Refused(buffer)
        [] count <= Len(buffer) /\ v < 0  ->
             Written(write_decimal(signed, 2, digits, magnitude_of(v)), count)
        [] OTHER                          ->
             Written(write_decimal(buffer, 1, digits, magnitude_of(v)), count)

try_format_hex(buffer, v, digits, letters) ==
  LET needed == hex_digits(v)
      count  == IF digits = 0 THEN needed ELSE digits
  IN  IF count > Len(buffer) \/ needed > count THEN Refused(buffer)
      ELSE Written(write_hex(buffer, count, v, letters), count)

-----------------------------------------------------------------------------
Init ==
  /\ out \in {[i \in 1 .. n |-> 0] : n \in 0 .. MaxBuffer}
  /\ text = <<>> /\ sent = <<>>

\* A number is formatted, and the text written is the line.
Send(kind, v, written) ==
  /\ out' = written.out /\ text' = written.text
  /\ sent' = <<kind, v>>

send_uint(v) == v >= 0 /\ Send("uint", v, try_format_uint(out, v))

send_int(v) == v \in IntMin .. IntMax /\ Send("int", v, try_format_int(out, v))

send_hex(v, digits, letters) ==
  v >= 0 /\ Send(<<"hex", digits>>, v, try_format_hex(out, v, digits, letters))

\* A line from elsewhere.
Receive(c) ==
  /\ out = <<>> /\ Len(text) < MaxLine
  /\ text' = Append(text, c) /\ sent' = <<>> /\ UNCHANGED out

Next ==
  \/ \E v \in Values : \/ send_uint(v) \/ send_int(v)
                       \/ \E digits \in 0 .. 3, letters \in {Lower, Upper} : send_hex(v, digits, letters)
  \/ \E c \in Characters : Receive(c)

Spec == Init /\ [][Next]_vars

-----------------------------------------------------------------------------
TypeOK ==
  /\ Len(out) \in 0 .. MaxBuffer /\ Len(text) \in 0 .. MaxLine
  /\ sent = <<>> \/ sent[2] \in Values

\* The number in front of s, by its place values.
Digit(base, c) == IF base = 10 /\ ~is_decimal_digit(c) THEN 16 ELSE hex_digit_value(c)
Front(base, s) == Max({n \in 0 .. Len(s) : \A i \in 1 .. n : Digit(base, s[i]) < base})
Number(base, s) ==
  LET n == Front(base, s)
  IN  MapThenSumSet(LAMBDA i : Digit(base, s[i]) * base^(n - i), 1 .. n)

\* What reading s as an integer of the given range must give.
Reading(base, s, sign, low, high) ==
  LET v == sign * Number(base, s)
      n == Front(base, s)
  IN  CASE n = 0                 -> unexpected("not_a_number")
        [] n > 0 /\ v \notin low .. high -> unexpected("out_of_range")
        [] OTHER                 -> parsed(v, Rest(s, n))

(***************************************************************************)
(* A line is read as the number its longest run of digits denotes, with    *)
(* the rest of the line, or refused as out of range, never wrapped, the    *)
(* least value included (parse.hpp:148-166, 223-233, 297-301).             *)
(***************************************************************************)
ParsesExactly ==
  IF text = <<>>
  THEN \A r \in {try_parse_uint(text), try_parse_int(text), try_parse_hex(text)} :
         r = unexpected("empty")
  ELSE /\ try_parse_uint(text) = Reading(10, text, 1, 0, UintMax)
       /\ try_parse_hex(text) = Reading(16, text, 1, 0, UintMax)
       /\ try_parse_int(text) = IF text[1] = Minus
                                THEN Reading(10, Tail(text), -1, IntMin, IntMax)
                                ELSE Reading(10, text, 1, IntMin, IntMax)

\* The characters a number takes.
Needed(kind, v) ==
  CASE kind = "uint" -> Min({n \in 1 .. MaxBuffer : v < 10^n})
    [] kind = "int"  -> Min({n \in 1 .. MaxBuffer : v < 10^n /\ -v < 10^(n - 1)})
    [] OTHER         -> LET n == Min({m \in 1 .. MaxBuffer : v < 16^m})
                        IN  IF kind[2] = 0 THEN n ELSE IF n > kind[2] THEN MaxBuffer + 1 ELSE kind[2]

ReadBack(kind) ==
  CASE kind = "uint" -> try_parse_uint(text)
    [] kind = "int"  -> try_parse_int(text)
    [] OTHER         -> try_parse_hex(text)

(***************************************************************************)
(* A formatted number reads back as itself, with nothing left over, in     *)
(* either letter case and over whatever the buffer held; it is refused     *)
(* only when it does not fit (format.hpp:20-22, 120-121, 246-252;          *)
(* parse.hpp:107-109).                                                     *)
(***************************************************************************)
RoundTrip ==
  sent # <<>> =>
    LET needed == Needed(sent[1], sent[2])
    IN  IF needed > Len(out) THEN text = <<>>
        ELSE /\ Len(text) = needed
             /\ ReadBack(sent[1]) = parsed(sent[2], <<>>)
             /\ SubSeq(out, 1, needed) = text

(***************************************************************************)
(* A refused call leaves its buffer as it was, and no call writes past the *)
(* text it returns (format.hpp:20-22, 129-130).                            *)
(***************************************************************************)
OnlyItsText == \A i \in DOMAIN out : i > Len(text') => out'[i] = out[i]

WritesOnlyItsText == [][OnlyItsText]_vars

=============================================================================
