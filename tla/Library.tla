------------------------------ MODULE Library ------------------------------
(***************************************************************************)
(* The kernel's own library (kfuncs.c), a call at a time: memory and       *)
(* string functions, numbers to text and back, and the list of nodes the   *)
(* boot loader hands over. Words have Bits bits instead of 64 and Word     *)
(* bytes instead of 8; a character is its value as a digit.                *)
(***************************************************************************)
EXTENDS Integers, Sequences, SequencesExt, FiniteSetsExt

CONSTANTS Bits, Word,
          MaxLen          \* bound: characters and bytes in a call

VARIABLES call, answer    \* the function with its arguments, and what it returned

Null == [null |-> TRUE]

Init == call = [f |-> "none"] /\ answer = Null

UMax == 2^Bits - 1
IMax == 2^(Bits - 1) - 1
IMin == -(2^(Bits - 1))

Minus == -3
Plus == -2
NoDigit == -1
Text == UNION {[1..n -> {Minus, Plus, NoDigit, 0, 1, 2, 9}] : n \in 0..MaxLen}
Bytes == UNION {[1..n -> 0..2] : n \in 0..MaxLen}

-----------------------------------------------------------------------------
(* Numbers *)

\* The digits that are read, from the first on.
Digits(s, base) ==
  LET ends == {n \in 1..Len(s) : s[n] < 0 \/ s[n] >= base}
  IN  IF ends = {} THEN s ELSE SubSeq(s, 1, Min(ends) - 1)

\* Mutant of TooLarge: the next digit is not thought of.
TooLargeLater(r, digit, base) == r > UMax \div base

TooLarge(r, digit, base) == r > (UMax - digit) \div base

\* The loop: the number so far, or -1 once the next step would leave the word.
Read(s, base) ==
  FoldLeft(LAMBDA r, digit : IF r = -1 \/ TooLarge(r, digit, base) THEN -1
                             ELSE (r * base + digit) % (UMax + 1),
           0, Digits(s, base))

Unsigned(s) == IF s # <<>> /\ s[1] = Plus THEN Tail(s) ELSE s

StrToU64(s, base) ==
  LET r == Read(Unsigned(s), base) IN IF r = -1 THEN UMax ELSE r

StrToI64(s, base) ==
  LET neg == s # <<>> /\ s[1] = Minus
      r == Read(IF neg THEN Tail(s) ELSE Unsigned(s), base)
  IN  IF r = -1 THEN (IF neg THEN IMin ELSE IMax)
      ELSE IF neg THEN (IF r > IMax + 1 THEN IMin ELSE -r)
      ELSE IF r > IMax THEN IMax ELSE r

\* Digits from the last on, as long as something is left of the number.
DigitsOf[v \in 0..UMax, base \in {2, 10}] ==
  IF v < base THEN <<v>> ELSE Append(DigitsOf[v \div base, base], v % base)

\* The buffer must have one byte more than the text and its end need.
Fitted(s, size) == IF size = 0 \/ Len(s) + 1 >= size THEN Null ELSE [text |-> s]

U64ToStr(v, size, base) == Fitted(DigitsOf[v, base], size)

\* Only base 10 has a sign; in another a negative number is a large one.
I64ToStr(v, size, base) ==
  IF base = 10 /\ v < 0 THEN Fitted(<<Minus>> \o DigitsOf[(-(v + 1)) + 1, base], size)
  ELSE Fitted(DigitsOf[v % (UMax + 1), base], size)

-----------------------------------------------------------------------------
(* Memory: functions from addresses to bytes *)

Write(mem, to, s) ==
  [a \in DOMAIN mem |-> IF a \in to..to + Len(s) - 1 THEN s[a - to + 1] ELSE mem[a]]

\* Whole words first, the rest byte by byte.
Memset(mem, to, c, n) ==
  LET words == n \div Word
      first == Write(mem, to, [k \in 1..words * Word |-> c])
  IN  Write(first, to + words * Word, [k \in 1..n - words * Word |-> c])

\* Bytes are moved in the order of the indices in ks.
Moved(mem, to, from, ks) ==
  FoldLeft(LAMBDA m, k : [m EXCEPT ![to + k] = m[from + k]], mem, ks)

Memcpy(mem, to, from, n) == Moved(mem, to, from, [k \in 1..n |-> k - 1])

Backwards(n) == [k \in 1..n |-> n - k]

MovesUp(to, from) == to < from

Memmove(mem, to, from, n) ==
  IF n = 0 \/ to = from THEN mem
  ELSE IF MovesUp(to, from) THEN Memcpy(mem, to, from, n)
  ELSE Moved(mem, to, from, Backwards(n))

Sign(n) == IF n < 0 THEN -1 ELSE IF n > 0 THEN 1 ELSE 0

\* repe cmpsb stops behind the first difference, or at the end.
Memcmp(s, t) ==
  LET d == {k \in 1..Len(s) : s[k] # t[k]}
  IN  IF d = {} THEN 0 ELSE Sign(s[Min(d)] - t[Min(d)])

\* Strings end with 0.
At(s, k) == IF k <= Len(s) THEN s[k] ELSE 0

Strncmp(s, t, n) ==
  LET d == {k \in 1..n : At(s, k) # At(t, k) \/ At(s, k) = 0}
  IN  IF d = {} THEN 0 ELSE Sign(At(s, Min(d)) - At(t, Min(d)))

Strcmp(s, t) == Strncmp(s, t, MaxLen + 1)

\* Padded with zeros, and without an end if it is too long.
Strncpy(s, n) ==
  LET ends == {k \in 1..Len(s) + 1 : At(s, k) = 0}
  IN  [k \in 1..n |-> IF k < Min(ends) THEN s[k] ELSE 0]

-----------------------------------------------------------------------------
(* The boot information: nodes in a list *)

Node == [magic : BOOLEAN, fits : BOOLEAN, kind : {"info", "map", "other"}, good : BOOLEAN]

\* info: the features asked for are all there; map: it has entries.
InitBootinfo(nodes) ==
  FoldLeft(LAMBDA found, n :
             IF found = Null THEN Null
             ELSE IF ~n.magic \/ ~n.fits THEN Null
             ELSE IF n.kind = "other" THEN found
             ELSE IF found[n.kind] \/ ~n.good THEN Null
             ELSE [found EXCEPT ![n.kind] = TRUE],
           [info |-> FALSE, map |-> FALSE], nodes)

BootinfoTaken(nodes) == InitBootinfo(nodes) = [info |-> TRUE, map |-> TRUE]

-----------------------------------------------------------------------------
Called(f, args, result) == call' = [f |-> f, args |-> args] /\ answer' = result

Idle == call.f = "none"

ReadNumber ==
  /\ Idle
  /\ \E s \in Text, base \in {2, 10} :
       \/ Called("str_to_u64", <<s, base>>, StrToU64(s, base))
       \/ Called("str_to_i64", <<s, base>>, StrToI64(s, base))

WriteUnsigned ==
  /\ Idle
  /\ \E v \in 0..UMax, size \in 0..Bits + 2, base \in {2, 10} :
       Called("u64_to_str", <<v, size, base>>, U64ToStr(v, size, base))

WriteSigned ==
  /\ Idle
  /\ \E v \in IMin..IMax, size \in 0..Bits + 2, base \in {2, 10} :
       Called("i64_to_str", <<v, size, base>>, I64ToStr(v, size, base))

Memory == [a \in 0..MaxLen + 1 |-> a]

Copy ==
  /\ Idle
  /\ \E to, from \in DOMAIN Memory, n \in 0..MaxLen :
       /\ to + n - 1 \in DOMAIN Memory /\ from + n - 1 \in DOMAIN Memory
       /\ \/ Called("memset", <<to, from, n>>, Memset(Memory, to, from, n))
          \/ Called("memmove", <<to, from, n>>, Memmove(Memory, to, from, n))

Compare ==
  /\ Idle
  /\ \E s, t \in Bytes :
       \/ Len(s) = Len(t) /\ Called("memcmp", <<s, t>>, Memcmp(s, t))
       \/ Called("strcmp", <<s, t>>, Strcmp(s, t))
       \/ \E n \in 0..MaxLen : Called("strncmp", <<s, t, n>>, Strncmp(s, t, n))
       \/ \E n \in 0..MaxLen : Called("strncpy", <<s, n>>, Strncpy(s, n))

ReadNodes ==
  /\ Idle
  /\ \E nodes \in UNION {[1..n -> Node] : n \in 0..2} :
       Called("init_bootinfo", <<nodes>>, BootinfoTaken(nodes))

Return == ~Idle /\ call' = [f |-> "none"] /\ answer' = Null

Next ==
  \/ ReadNumber \/ WriteUnsigned \/ WriteSigned \/ Copy \/ Compare \/ ReadNodes \/ Return

-----------------------------------------------------------------------------
(***************************************************************************)
(* What is returned is what the function is for. A number is the value of  *)
(* its digits or the end of the range, and text read back is the number it *)
(* was made of; memmove copies as if nothing overlapped, memset writes     *)
(* every byte and no other; comparisons are the order of bytes; the boot   *)
(* information is taken if there is one good node of each kind.            *)
(***************************************************************************)
Value(s, base) == FoldLeft(LAMBDA r, digit : r * base + digit, 0, s)

Into(n, low, high) == Max({low, Min({n, high})})

TextRight(f, args) ==
  CASE f = "str_to_u64" ->
         answer = Into(Value(Digits(Unsigned(args[1]), args[2]), args[2]), 0, UMax)
    [] f = "str_to_i64" /\ args[1] # <<>> /\ args[1][1] = Minus ->
         answer = Into(-Value(Digits(Tail(args[1]), args[2]), args[2]), IMin, IMax)
    [] f = "u64_to_str" ->
         IF answer = Null THEN args[2] < Len(DigitsOf[args[1], args[3]]) + 2
         ELSE /\ StrToU64(answer.text, args[3]) = args[1]
              /\ Len(answer.text) < args[2]
    [] f = "i64_to_str" ->
         answer # Null => /\ args[3] = 10 => StrToI64(answer.text, 10) = args[1]
                          /\ Len(answer.text) < args[2]
    [] OTHER -> TRUE

Less(s, t) ==
  \E k \in 1..MaxLen + 1 : At(s, k) < At(t, k) /\ \A n \in 1..k - 1 : At(s, n) = At(t, n)

UpTo0(s) == SubSeq(s, 1, Min({k \in 1..Len(s) + 1 : At(s, k) = 0}) - 1)

MemoryRight(f, args) ==
  CASE f = "memset" ->
         answer = [a \in DOMAIN Memory |->
                     IF a \in args[1]..args[1] + args[3] - 1 THEN args[2] ELSE a]
    [] f = "memmove" ->
         answer = [a \in DOMAIN Memory |->
                     IF a \in args[1]..args[1] + args[3] - 1 THEN a - args[1] + args[2] ELSE a]
    [] f = "memcmp" -> (answer < 0) = Less(args[1], args[2])
    [] f = "strcmp" -> (answer = 0) = (UpTo0(args[1]) = UpTo0(args[2]))
    [] f = "strncmp" -> answer = -Strncmp(args[2], args[1], args[3])
    [] OTHER -> TRUE

Count(nodes, kind) == Cardinality({k \in 1..Len(nodes) : nodes[k].kind = kind})

NodesRight(f, args) ==
  f = "init_bootinfo" /\ answer =>
    Count(args[1], "info") = 1 /\ Count(args[1], "map") = 1

LibraryRight ==
  call.f # "none" =>
    TextRight(call.f, call.args) /\ MemoryRight(call.f, call.args) /\ NodesRight(call.f, call.args)
=============================================================================
