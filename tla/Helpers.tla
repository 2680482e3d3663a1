------------------------------ MODULE Helpers ------------------------------
(***************************************************************************)
(* The conversions the program relies on, as functions: base32 and the     *)
(* onion addresses made with it (base32.c, onion.c), the lengths of        *)
(* dynamic arrays (array.c), the division of a window and the test for the *)
(* end of a string (helpers.c).                                            *)
(***************************************************************************)
EXTENDS Integers, Sequences, FiniteSets, SequencesExt, Bitwise

CONSTANTS Bytes,     \* bound: the bytes encoded
          MaxBytes,  \* bound: and how many of them
          Lengths,   \* bound: the sizes divided and allocated
          Layouts    \* the layouts of app_ui_define, as sequences of fields

Pad == "="
Alphabet == <<"a", "b", "c", "d", "e", "f", "g", "h", "i", "j", "k", "l", "m", "n", "o", "p", "q",
              "r", "s", "t", "u", "v", "w", "x", "y", "z", "2", "3", "4", "5", "6", "7">>
-----------------------------------------------------------------------------
(* base32.c *)

EncodeChar(n) == Alphabet[(n % 32) + 1]
DecodeChar(ch) == IF Contains(Alphabet, ch) THEN SelectInSeq(Alphabet, LAMBDA a : a = ch) - 1 ELSE 0
ValidChar(ch) == Contains(Alphabet, ch) \/ ch \in {"8", "9"}
Valid(coded) == \A i \in DOMAIN coded : ValidChar(coded[i])

\* The byte in which a block of 5 bits starts, and the bits of the byte that follow it.
GetByte(block) == (block * 5) \div 8
GetOffset(block) == (GetByte(block) + 1) * 8 - (block + 1) * 5

ShiftLeft(n, shift) == IF shift >= 0 THEN (n * 2^shift) % 256 ELSE n \div 2^(-shift)
ShiftRight(n, shift) == ShiftLeft(n, -shift)

Chunk(s, size, k) == SubSeq(s, (k - 1) * size + 1, IF k * size < Len(s) THEN k * size ELSE Len(s))
Chunked(s, size, Op(_)) ==
  FlattenSeq([k \in 1..((Len(s) + size - 1) \div size) |-> Op(Chunk(s, size, k))])

\* Mutation: the bits in the next byte are shifted by one too many.
BlockShifted(plain, i) ==
  LET b == GetByte(i) + 1
      more == IF GetOffset(i) < 0 /\ b < Len(plain)
              THEN ShiftRight(plain[b + 1], 9 + GetOffset(i)) ELSE 0
  IN  EncodeChar(ShiftRight(plain[b], GetOffset(i)) | more)
\* The character for one block of 5 bits.
Block(plain, i) ==
  LET b == GetByte(i) + 1
      more == IF GetOffset(i) < 0 /\ b < Len(plain)
              THEN ShiftRight(plain[b + 1], 8 + GetOffset(i)) ELSE 0
  IN  EncodeChar(ShiftRight(plain[b], GetOffset(i)) | more)

EncodeChunk(plain, pad) ==
  LET blocks == {i \in 0..7 : GetByte(i) < Len(plain)}
  IN  [i \in 1..IF pad THEN 8 ELSE Cardinality(blocks) |->
         IF i - 1 \in blocks THEN Block(plain, i - 1) ELSE Pad]

Encode(plain, pad) == Chunked(plain, 5, LAMBDA s : EncodeChunk(s, pad))

\* The cells of the output are ORed block by block; only the first is cleared at the start,
\* the others hold what was in the memory until a block that ends in them sets them.
DecodeChunk(padded, memory) ==
  LET coded == SelectSeq(padded, LAMBDA ch : ch # Pad)
      len == Len(coded)
      Step(cells, i) ==
        LET b == GetByte(i)
            index == DecodeChar(coded[i + 1])
            ored == [cells EXCEPT ![b] = @ | ShiftLeft(index, GetOffset(i))]
        IN  IF GetOffset(i) < 0 /\ -GetOffset(i) + (len - (i + 1)) * 5 >= 8
            THEN [ored EXCEPT ![b + 1] = ShiftLeft(index, 8 + GetOffset(i))] ELSE ored
      cells == FoldLeft(Step, [b \in 0..4 |-> IF b = 0 THEN 0 ELSE memory],
                        [i \in 1..len |-> i - 1])
  IN  [b \in 1..IF len = 8 THEN 5 ELSE GetByte(len) |-> cells[b - 1]]

Decode(coded, memory) == Chunked(coded, 8, LAMBDA s : DecodeChunk(s, memory))
-----------------------------------------------------------------------------
(* onion.c: a public key, two bytes of a hash of it and the version *)

Version == 3
\* SHA3-256, of which only this matters here: a key has one checksum.
Checksum(key) == <<FoldLeft(LAMBDA sum, b : (3 * sum + b) % 256, 7, key), Len(key)>>

AddressFromPubKey(key) == [base |-> Encode(key \o Checksum(key) \o <<Version>>, FALSE),
                           end |-> ".onion"]
ExtractKey(address) == SubSeq(Decode(address.base, 255), 1, 32)
AddressValid(address) ==
  LET raw == Decode(address.base, 255)
  IN  /\ Len(address.base) = 56 /\ address.end = ".onion" /\ Valid(address.base)
      /\ raw[Len(raw)] = Version
      /\ SubSeq(raw, Len(raw) - 2, Len(raw) - 1) = Checksum(SubSeq(raw, 1, 32))
-----------------------------------------------------------------------------
(* array.c and helpers.c *)

ArrayChunk == 8
ArrayExpand(length, wanted) ==
  IF length < wanted THEN ((wanted \div ArrayChunk) + 1) * ArrayChunk ELSE length

Sum(s) == FoldLeft(+, 0, s)
Fields(layout, unit) == [i \in DOMAIN layout |-> IF layout[i].type = unit THEN layout[i].size ELSE 0]

\* The real sizes of the fields, or <<>> if divide fails and sets nothing.
Divide(layout, full) ==
  LET space == full - Sum(Fields(layout, "fixed"))
      percents == Fields(layout, "percent")
      sizes == [i \in DOMAIN layout |-> IF layout[i].type = "fixed" THEN layout[i].size
                                        ELSE (space * layout[i].size) \div 100]
      taken == Sum([i \in DOMAIN layout |-> IF layout[i].type = "percent" THEN sizes[i] ELSE 0])
      last == SelectLastInSeq(layout, LAMBDA f : f.type = "percent")
  IN  IF Sum(percents) > 100 \/ space < 0 THEN <<>>
      ELSE IF taken > space \/ Sum(percents) = 100
      THEN [sizes EXCEPT ![last] = @ + space - taken] ELSE sizes

\* str_ends_with compares from the end of both.
EndsWith(str, end) ==
  /\ Len(str) >= Len(end)
  /\ \A i \in 0..Len(end) - 1 : str[Len(str) - i] = end[Len(end) - i]
-----------------------------------------------------------------------------
(* One conversion at a time, and what it must give *)

VARIABLES input, output
hvars == <<input, output>>

Inputs == [kind : {"base32"}, plain : BoundedSeq(Bytes, MaxBytes), pad : BOOLEAN, memory : {0, 255}]
          \cup [kind : {"onion"}, key : {[i \in 1..32 |-> IF i <= n THEN a ELSE b] :
                                           a \in Bytes, b \in Bytes, n \in {5, 17}}]
          \cup [kind : {"array"}, length : Lengths, wanted : Lengths]
          \cup [kind : {"divide"}, layout : Layouts, full : Lengths]
          \cup [kind : {"ends"}, str : BoundedSeq({"x", "y"}, 3), end : BoundedSeq({"x", "y"}, 2)]

Nothing == <<>>
HelpersInit == input \in Inputs /\ output = Nothing

Convert(in) ==
  CASE in.kind = "base32" -> LET coded == Encode(in.plain, in.pad)
                             IN  <<coded, Decode(coded, in.memory)>>
    [] in.kind = "onion"  -> <<AddressFromPubKey(in.key)>>
    [] in.kind = "array"  -> <<ArrayExpand(in.length, in.wanted)>>
    [] in.kind = "divide" -> <<Divide(in.layout, in.full)>>
    [] in.kind = "ends"   -> <<EndsWith(in.str, in.end)>>

HelpersNext == output = Nothing /\ output' = Convert(input) /\ UNCHANGED input
-----------------------------------------------------------------------------
(* Properties *)

\* The bits of a byte string, and base32 by its definition: every 5 of them, the last ones
\* filled up with zeros, are a character.
Bit(plain, n) == IF n < 8 * Len(plain) THEN (plain[(n \div 8) + 1] \div 2^(7 - (n % 8))) % 2 ELSE 0
Base32(plain, pad) ==
  LET chars == (8 * Len(plain) + 4) \div 5
      value(j) == Sum([k \in 1..5 |-> Bit(plain, 5 * j + k - 1) * 2^(5 - k)])
  IN  [j \in 1..IF pad THEN 8 * ((chars + 7) \div 8) ELSE chars |->
         IF j <= chars THEN Alphabet[value(j - 1) + 1] ELSE Pad]

\* base32 is base32, in any memory, and decodes to what was encoded; a key is recovered from
\* its address, which is valid; an array has room for what was asked; the parts of a divided
\* window fill it; and a string ends with its suffixes.
HelpersRight ==
  output # Nothing =>
    CASE input.kind = "base32" -> /\ output[1] = Base32(input.plain, input.pad)
                                  /\ output[2] = input.plain
                                  /\ ~input.pad => Valid(output[1])
      [] input.kind = "onion"  -> AddressValid(output[1]) /\ ExtractKey(output[1]) = input.key
      [] input.kind = "array"  -> output[1] >= input.wanted /\ output[1] >= input.length
      [] input.kind = "divide" ->
           /\ output[1] = <<>> <=> Sum(Fields(input.layout, "fixed")) > input.full
           /\ output[1] # <<>> => Sum(output[1]) = input.full
                                  /\ \A i \in DOMAIN output[1] : output[1][i] >= 0
      [] input.kind = "ends"   -> output[1] = IsSuffix(input.end, input.str)
=============================================================================
