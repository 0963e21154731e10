----------------------------- MODULE FixedString -----------------------------
(***************************************************************************)
(* metl::fixed_string (fixed_string.hpp) and the hashes of text (hash.hpp).*)
(* An argument may point into the string that is changed.  What a string   *)
(* must hold is kept beside its storage.                                   *)
(***************************************************************************)
EXTENDS Integers, Sequences, FiniteSetsExt

CONSTANTS
  Strings, Capacity,
  Chars,      \* values of a signed char, NUL apart
  Texts       \* C strings given as arguments

VARIABLES
  storage_,   \* Capacity + 1 chars
  size_,
  value       \* the characters each string must hold

vars == <<storage_, size_, value>>

NUL == 0

Init ==
  /\ storage_ = [s \in Strings |-> [i \in 0 .. Capacity |-> NUL]]
  /\ size_ = [s \in Strings |-> 0]
  /\ value = [s \in Strings |-> <<>>]

\* A pointer is into a text or into a string; CharAt(mem, p, i) is p[i].
Outside(text) == <<"text", text>>
Into(s, k) == <<s, k>>
CharAt(mem, p, i) ==
  IF p[1] = "text" THEN (IF i < Len(p[2]) THEN p[2][i + 1] ELSE NUL)
  ELSE mem[p[1]][p[2] + i]

Readable(p) == 0 .. IF p[1] = "text" THEN Len(p[2]) ELSE Capacity - p[2]

string_length(mem, p) == Min({n \in Readable(p) : CharAt(mem, p, n) = NUL})

can_append(s, count) == count <= Capacity - size_[s]
full(s) == size_[s] = Capacity

\* Front to back, reading what is there by then.
copy_in(mem, s, offset, p, count) ==
  LET after[i \in 0 .. count] ==
        IF i = 0 THEN mem
        ELSE [after[i - 1] EXCEPT ![s][offset + i - 1] = CharAt(after[i - 1], p, i - 1)]
  IN  after[count]

\* The characters a pointer denotes, as a C string and as a span of n.
Upto(seq) == SubSeq(seq, 1, Min({n \in 0 .. Len(seq) : n = Len(seq) \/ seq[n + 1] = NUL}))
Spelled(p) == IF p[1] = "text" THEN p[2] ELSE SubSeq(value[p[1]], p[2] + 1, Len(value[p[1]]))
Denoted(p) == Upto(Spelled(p))

-----------------------------------------------------------------------------
clear(s) ==
  /\ size_' = [size_ EXCEPT ![s] = 0]
  /\ storage_' = [storage_ EXCEPT ![s][0] = NUL]
  /\ value' = [value EXCEPT ![s] = <<>>]

\* Fault: the longer string's terminator stays behind.
swap_NoTerminator(s, t) ==
  /\ s # t
  /\ LET through == Max({size_[s], size_[t]})
         Swapped(x, y) == [i \in 0 .. Capacity |->
                             IF i < through THEN storage_[y][i] ELSE storage_[x][i]]
     IN  storage_' = [storage_ EXCEPT ![s] = Swapped(s, t), ![t] = Swapped(t, s)]
  /\ size_' = [size_ EXCEPT ![s] = size_[t], ![t] = size_[s]]
  /\ value' = [value EXCEPT ![s] = value[t], ![t] = value[s]]

\* The characters up to the longer one's terminator.
swap(s, t) ==
  /\ s # t
  /\ LET through == Max({size_[s], size_[t]})
         Swapped(x, y) == [i \in 0 .. Capacity |->
                             IF i <= through THEN storage_[y][i] ELSE storage_[x][i]]
     IN  storage_' = [storage_ EXCEPT ![s] = Swapped(s, t), ![t] = Swapped(t, s)]
  /\ size_' = [size_ EXCEPT ![s] = size_[t], ![t] = size_[s]]
  /\ value' = [value EXCEPT ![s] = value[t], ![t] = value[s]]

\* Copy and move alike.
assign_string(s, t) ==
  /\ storage_' = [storage_ EXCEPT ![s] = storage_[t]]
  /\ size_' = [size_ EXCEPT ![s] = size_[t]]
  /\ value' = [value EXCEPT ![s] = value[t]]

\* Each of the following refuses, or asserts, when there is no room.
try_push_back(s, c) ==
  /\ ~full(s)
  /\ storage_' = [storage_ EXCEPT ![s][size_[s]] = c, ![s][size_[s] + 1] = NUL]
  /\ size_' = [size_ EXCEPT ![s] = @ + 1]
  /\ value' = [value EXCEPT ![s] = Append(@, c)]

try_remove_last(s) ==
  /\ size_[s] > 0
  /\ size_' = [size_ EXCEPT ![s] = @ - 1]
  /\ storage_' = [storage_ EXCEPT ![s][size_[s] - 1] = NUL]
  /\ value' = [value EXCEPT ![s] = SubSeq(@, 1, Len(@) - 1)]

\* s becomes what it holds before `offset`, then the count characters at p.
Stored(s, offset, p, count) ==
  /\ storage_' = [copy_in(storage_, s, offset, p, count) EXCEPT ![s][offset + count] = NUL]
  /\ size_' = [size_ EXCEPT ![s] = offset + count]

try_assign(s, p) ==
  LET count == string_length(storage_, p)
  IN  /\ count <= Capacity
      /\ Stored(s, 0, p, count)
      /\ value' = [value EXCEPT ![s] = Denoted(p)]

try_append(s, p) ==
  LET count == string_length(storage_, p)
  IN  /\ can_append(s, count)
      /\ Stored(s, size_[s], p, count)
      /\ value' = [value EXCEPT ![s] = @ \o Denoted(p)]

try_append_span(s, p, count) ==
  /\ can_append(s, count)
  /\ Stored(s, size_[s], p, count)
  /\ value' = [value EXCEPT ![s] = @ \o SubSeq(Spelled(p), 1, count)]

Pointers == {Outside(text) : text \in Texts} \cup
            UNION {{Into(s, k) : k \in 0 .. size_[s]} : s \in Strings}

Next == \E s \in Strings :
  \/ clear(s) \/ try_remove_last(s)
  \/ \E t \in Strings : swap(s, t) \/ assign_string(s, t)
  \/ \E c \in Chars \cup {NUL} : try_push_back(s, c)
  \/ \E p \in Pointers : \/ try_assign(s, p) \/ try_append(s, p)
                         \/ \E n \in 0 .. Len(Spelled(p)) : try_append_span(s, p, n)

Spec == Init /\ [][Next]_vars

-----------------------------------------------------------------------------
\* static_cast<unsigned char>
unsigned_char(c) == c % 256

\* operator== of strings of any capacities.
equal(s, t) ==
  /\ size_[s] = size_[t]
  /\ \A i \in 0 .. size_[s] - 1 : storage_[s][i] = storage_[t][i]

\* The first place below n at which two strings differ, or n.
Differ(n, a(_), b(_)) == Min({n} \cup {i \in 0 .. n - 1 : a(i) # b(i)})

\* operator<=> : -1, 0 or 1.
Sign(x, y) == IF x < y THEN -1 ELSE IF x > y THEN 1 ELSE 0
three_way(s, t) ==
  LET n == Min({size_[s], size_[t]})
      i == Differ(n, LAMBDA k : storage_[s][k], LAMBDA k : storage_[t][k])
  IN  IF i < n THEN Sign(unsigned_char(storage_[s][i]), unsigned_char(storage_[t][i]))
      ELSE Sign(size_[s], size_[t])

less(s, t) ==
  LET n == Min({size_[s], size_[t]})
      i == Differ(n, LAMBDA k : storage_[s][k], LAMBDA k : storage_[t][k])
  IN  IF i < n THEN unsigned_char(storage_[s][i]) < unsigned_char(storage_[t][i])
      ELSE size_[s] < size_[t]

compare_c(s, p) ==
  LET text(k) == CharAt(storage_, p, k)
      n == Min({size_[s], string_length(storage_, p)})
      i == Differ(n, LAMBDA k : storage_[s][k], text)
  IN  CASE i = size_[s]                    -> IF text(i) = NUL THEN 0 ELSE -1
        [] i < size_[s] /\ text(i) = NUL   -> 1
        [] OTHER -> IF unsigned_char(storage_[s][i]) < unsigned_char(text(i)) THEN -1 ELSE 1

\* FNV-1a, told apart by the bytes folded in, in order.
fnv1a(data) == [i \in DOMAIN data |-> unsigned_char(data[i])]

\* fnv1a_hash of a string (std::hash as well) and of a C string.
hash_range(s) == fnv1a([i \in 1 .. size_[s] |-> storage_[s][i - 1]])
hash_c_string(p) ==
  fnv1a([i \in 1 .. string_length(storage_, p) |-> CharAt(storage_, p, i - 1)])

-----------------------------------------------------------------------------
TypeOK ==
  /\ storage_ \in [Strings -> [0 .. Capacity -> Chars \cup {NUL}]]
  /\ size_ \in [Strings -> 0 .. Capacity]

\* Order of char sequences by unsigned codes.
Before(x, y) ==
  \/ \E n \in 0 .. Min({Len(x), Len(y)}) :
       /\ SubSeq(x, 1, n) = SubSeq(y, 1, n)
       /\ n < Len(y) /\ (n = Len(x) \/ x[n + 1] % 256 < y[n + 1] % 256)

(***************************************************************************)
(* A string holds the characters its calls gave it and a terminator after  *)
(* them, also when a call was given part of the string itself, and when it *)
(* holds a NUL (fixed_string.hpp:153-165, 197-254, 382-392).               *)
(***************************************************************************)
HoldsItsText == \A s \in Strings :
  /\ size_[s] = Len(value[s])
  /\ \A i \in 1 .. Len(value[s]) : storage_[s][i - 1] = value[s][i]
  /\ storage_[s][size_[s]] = NUL

(***************************************************************************)
(* Equality, the two orders and the hashes depend on the characters held   *)
(* alone, as unsigned codes, never on what is left past the terminator; a  *)
(* string hashes as the C string that equals it (fixed_string.hpp:404-462, *)
(* 353-368, 485-495; hash.hpp:268-279).                                    *)
(***************************************************************************)
ComparesItsText == \A s \in Strings :
  /\ \A t \in Strings :
       /\ equal(s, t) = (value[s] = value[t])
       /\ less(s, t) = Before(value[s], value[t])
       /\ three_way(s, t) = IF value[s] = value[t] THEN 0
                            ELSE IF Before(value[s], value[t]) THEN -1 ELSE 1
       /\ value[s] = value[t] => hash_range(s) = hash_range(t)
  /\ \A p \in Pointers :
       LET text == Denoted(p)
       IN  /\ compare_c(s, p) = IF value[s] = text THEN 0
                                ELSE IF Before(value[s], text) THEN -1 ELSE 1
           /\ value[s] = text => hash_range(s) = hash_c_string(p)

=============================================================================
