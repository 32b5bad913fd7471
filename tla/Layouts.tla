------------------------------- MODULE Layouts -------------------------------
(***************************************************************************)
(* From the format string of an allocation to its header, and back from    *)
(* the header to the object's size and pointers (header.c, format_string.c *)
(* and the two allocation functions of gc.c).                              *)
(*                                                                         *)
(* A format string is a sequence of coefficients and letters; a letter     *)
(* without a coefficient has coefficient 1.  A float stands like an int    *)
(* and a double like a long everywhere in the code, so "f" and "d" are     *)
(* left out.  A header is a 64-bit word: the set of its bits that are 1.   *)
(***************************************************************************)
EXTENDS Integers, Sequences, FiniteSets, FiniteSetsExt, SequencesExt, Functions

CONSTANTS
  Formats,    \* format strings given to h_alloc_struct
  DataSizes   \* bytes asked of h_alloc_data: the buffer of 2040 holds no more

Letters == {"c", "i", "l", "*"}

ASSUME FormatsAssumption == Formats \subseteq Seq([n : Nat, letter : Letters])
ASSUME DataSizesAssumption == DataSizes \subseteq 0 .. 2039

WORD_SIZE == 8
HALF_WORD_SIZE == 4
MAX_ALLOC_SIZE == 2040
MAX_BITVECTOR_LAYOUT_SIZE == 55
OffByNine(n) == n <= MAX_BITVECTOR_LAYOUT_SIZE + 9   \* mutant: all bits but the size's
FitsBitvector(n) == n <= MAX_BITVECTOR_LAYOUT_SIZE

VARIABLES
  expanded,  \* the expanded format string of the object allocated last
  header,    \* its header
  size,      \* the bytes allocated for it, header not counted
  status     \* "none", "allocated" or "abort"

vars == <<expanded, header, size, status>>

format_string_letter_to_size(c) ==
  CASE c = "c" -> 1 [] c = "i" -> 4 [] c \in {"l", "*"} -> 8

\* format_string_expander.
Expand(fs) == FlattenSeq([k \in DOMAIN fs |-> [i \in 1 .. fs[k].n |-> fs[k].letter]])
TooManyDigits(fs) == \E k \in DOMAIN fs : fs[k].n > 999

\* The buffer of the expansion is as large as an object may be; what a longer one
\* overwrites is not followed.
ASSUME BufferAssumption ==
  \A fs \in Formats : TooManyDigits(fs) \/ Len(Expand(fs)) < MAX_ALLOC_SIZE

HasPointers(fs) == \E k \in DOMAIN fs : fs[k].letter = "*"
HasChars(fs) == \E k \in DOMAIN fs : fs[k].letter = "c"

-----------------------------------------------------------------------------
(* Sizes of raw data.                                                      *)

RoundUp(n, unit) == ((n + unit - 1) \div unit) * unit

IsArray(s) == Len(s) > 1 /\ \A k \in DOMAIN s : s[k] = s[1]

\* The bytes after a field of size n, where room bytes of the word are left.
Packed(acc, c) ==
  LET n == format_string_letter_to_size(c) IN
  IF n <= acc.room THEN [bytes |-> acc.bytes + n, room |-> acc.room - n]
  ELSE [bytes |-> acc.bytes + acc.room + n, room |-> WORD_SIZE - n]

expanded_format_string_required_space_for_data_alloc(s) ==
  IF IsArray(s) THEN RoundUp(Len(s) * format_string_letter_to_size(s[1]), WORD_SIZE)
  ELSE LET after[k \in 0 .. Len(s)] ==
             IF k = 0 THEN [bytes |-> 0, room |-> WORD_SIZE] ELSE Packed(after[k - 1], s[k])
           end == after[Len(s)]
       IN  IF end.room # WORD_SIZE THEN end.bytes + end.room ELSE end.bytes

-----------------------------------------------------------------------------
(* Headers.                                                                *)

\* The bits of n, the lowest of them at position low, and back.
BitsOf(n, low, width) == {low + j : j \in {k \in 0 .. (width - 1) : (n \div 2^k) % 2 = 1}}
ValueOf(h, low, width) ==
  SumFunction([j \in h \cap (low .. (low + width - 1)) |-> 2^(j - low)])

header_creation_raw(bytes) == {0, 1} \cup BitsOf(bytes, 3, 20)

\* required_amount_of_bits_to_represent_struct_with_bitvector_layout: two for a
\* long, one for an int or a pointer.
required_amount_of_bits(s) == Len(s) + Cardinality({k \in DOMAIN s : s[k] = "l"})

\* The layout bits that are 1, from the highest bit of the header downwards.
PointerBits(s) ==
  {63 - required_amount_of_bits(SubSeq(s, 1, k - 1)) : k \in {j \in DOMAIN s : s[j] = "*"}}

\* create_layout_bitvector_according_to_format_string: the layout, then the
\* number of its bits over bits 3..8, then the type of the header.
LayoutHeader(s) ==
  (PointerBits(s) \ (0 .. 8)) \cup BitsOf(required_amount_of_bits(s), 3, 6) \cup {0, 1, 2}

\* The header that points to a copy of the format string in the heap.
StringHeader == {12}

header_creation_layout(fs) ==
  LET s == Expand(fs) IN
  IF ~HasPointers(fs)
    THEN header_creation_raw(expanded_format_string_required_space_for_data_alloc(s))
  ELSE IF ~HasChars(fs) /\ FitsBitvector(required_amount_of_bits(s))
    THEN LayoutHeader(s)
  ELSE StringHeader

identify_header(h) ==
  CASE 0 \notin h /\ 1 \notin h -> "format"
    [] 0 \in h /\ 1 \notin h -> "forward"
    [] {0, 1} \subseteq h /\ 2 \notin h -> "raw"
    [] {0, 1} \subseteq h /\ 2 \in h -> "struct"

size_of_raw_allocation(h) == ValueOf(h, 3, 20)

FieldCount(h) == ValueOf(h, 3, 6)

\* size_of_struct_allocation of header h; s is the string a header points to.
SizeOfHalves(h, s) ==              \* mutant: a layout bit stands for half a word
  IF identify_header(h) = "format" THEN Len(s) * WORD_SIZE ELSE FieldCount(h) * HALF_WORD_SIZE
size_of_struct_allocation(h, s) ==
  IF identify_header(h) = "format" THEN Len(s) * WORD_SIZE ELSE FieldCount(h) * WORD_SIZE

\* A step of interpret_bitvector: the next layout bit.
BitvectorStep(acc, one) ==
  IF one
    THEN LET at == IF acc.offset % WORD_SIZE = 0 THEN acc.offset ELSE acc.offset + HALF_WORD_SIZE
         IN  [offset |-> at + WORD_SIZE, ptrs |-> Append(acc.ptrs, at)]
    ELSE [acc EXCEPT !.offset = @ + HALF_WORD_SIZE]

interpret_bitvector(h) ==
  LET after[k \in 0 .. 63] ==
        IF k = 0 THEN [offset |-> 0, ptrs |-> <<>>]
        ELSE BitvectorStep(after[k - 1], (64 - k) \in h)
  IN  after[FieldCount(h)].ptrs

\* A step of interpret_format_string: the next letter.
FormatStepKeepsRoom(acc, c) ==     \* mutant: a pointer does not start a new word
  LET n == format_string_letter_to_size(c) IN
  IF c = "*"
    THEN [acc EXCEPT !.offset = @ + WORD_SIZE, !.ptrs = Append(@, acc.offset)]
  ELSE IF n > acc.room
    THEN [acc EXCEPT !.offset = @ + acc.room, !.room = WORD_SIZE]
  ELSE [acc EXCEPT !.offset = @ + n, !.room = @ - n]
FormatStep(acc, c) ==
  LET n == format_string_letter_to_size(c) IN
  IF c = "*"
    THEN [offset |-> acc.offset + WORD_SIZE, room |-> WORD_SIZE,
          ptrs |-> Append(acc.ptrs, acc.offset)]
  ELSE IF n > acc.room
    THEN [acc EXCEPT !.offset = @ + acc.room, !.room = WORD_SIZE]
  ELSE [acc EXCEPT !.offset = @ + n, !.room = @ - n]

interpret_format_string(s) ==
  LET after[k \in 0 .. Len(s)] ==
        IF k = 0 THEN [offset |-> 0, room |-> WORD_SIZE, ptrs |-> <<>>]
        ELSE FormatStep(after[k - 1], s[k])
  IN  after[Len(s)].ptrs

header_interpretation(h, s) ==
  IF identify_header(h) = "format" THEN interpret_format_string(s) ELSE interpret_bitvector(h)

-----------------------------------------------------------------------------
(* The allocation functions.                                               *)

Init ==
  /\ expanded = <<>>
  /\ header = {}
  /\ size = 0
  /\ status = "none"

\* Nothing is left after the expansion; only a header that points to the format
\* string is made all the same, for an object that is nothing but its header.
Refused(fs) == Expand(fs) = <<>> /\ ~(HasPointers(fs) /\ HasChars(fs))

Allocated(fs) ==
  /\ status = "none"
  /\ ~Refused(fs)
  /\ expanded' = Expand(fs)
  /\ header' = header_creation_layout(fs)
  /\ size' = IF identify_header(header') = "raw"
               THEN size_of_raw_allocation(header')
               ELSE size_of_struct_allocation(header', expanded')
  /\ status' = "allocated"

h_alloc_struct(fs) == ~TooManyDigits(fs) /\ Allocated(fs)

\* An assertion fails on the way to a header.
AllocStops(fs) ==
  /\ status = "none"
  /\ Refused(fs) \/ TooManyDigits(fs)
  /\ status' = "abort"
  /\ UNCHANGED <<expanded, header, size>>

\* h_alloc_data prints the size as a string of digits only, which is expanded to
\* that many chars.
OfChars(bytes) == <<[n |-> bytes, letter |-> "c"]>>
h_alloc_data(bytes) == Allocated(OfChars(bytes))

Next ==
  \/ \E fs \in Formats : h_alloc_struct(fs)
  \/ \E bytes \in DataSizes : h_alloc_data(bytes)
  \/ \E fs \in Formats \cup {OfChars(0)} : AllocStops(fs)

Spec == Init /\ [][Next]_vars

-----------------------------------------------------------------------------
(* What the C compiler makes of a struct with these fields: each of them   *)
(* at a multiple of its size, and the struct a multiple of the largest.    *)

CStep(acc, c) ==
  LET n == format_string_letter_to_size(c)
      at == RoundUp(acc.end, n)
  IN  [end |-> at + n,
       align |-> IF n > acc.align THEN n ELSE acc.align,
       ptrs |-> IF c = "*" THEN Append(acc.ptrs, at) ELSE acc.ptrs]

CLayout(s) ==
  LET after[k \in 0 .. Len(s)] ==
        IF k = 0 THEN [end |-> 0, align |-> 1, ptrs |-> <<>>] ELSE CStep(after[k - 1], s[k])
  IN  after[Len(s)]
CSize(s) == RoundUp(CLayout(s).end, CLayout(s).align)

-----------------------------------------------------------------------------
(* Properties.                                                             *)

\* No long begins in the middle of a word that an int begins.
LongsAligned(s) ==
  \A k \in DOMAIN s : s[k] = "l" => CLayout(SubSeq(s, 1, k - 1)).end % WORD_SIZE = 0

\* The collector finds the pointers of a struct where the compiler has put them,
\* from the bits of its header alone, up to the longest layout that a header
\* holds: no pointer is missed and no other field is taken for one.
PointersFound ==
  identify_header(header) = "struct" /\ LongsAligned(expanded) =>
    header_interpretation(header, expanded) = CLayout(expanded).ptrs

\* The bytes of fields i to j, without padding.
FieldBytes(s, i, j) == SumFunction([k \in i .. j |-> format_string_letter_to_size(s[k])])

\* Between two pointers there is nothing, or fields that fill a single word: a
\* field that does not fit in what is left of a word is not counted by
\* interpret_format_string, nor is one that follows a full word.
WordsBetweenPointers(s) ==
  LET ptrs == {k \in DOMAIN s : s[k] = "*"} IN
  \A k \in ptrs :
    LET before == {0} \cup {j \in ptrs : j < k} IN
    /\ FieldBytes(s, Max(before) + 1, k - 1) \in {0, WORD_SIZE}
    /\ CLayout(SubSeq(s, 1, k - 1)).end = FieldBytes(s, 1, k - 1)

\* So are those of a struct whose header points to its format string, as long as
\* the other fields come in whole words.
FormatPointersFound ==
  status = "allocated" /\ identify_header(header) = "format" /\ WordsBetweenPointers(expanded) =>
    header_interpretation(header, expanded) = CLayout(expanded).ptrs

\* An object has the room that its struct takes, so that the client's stores stay
\* inside of it: those with pointers, arrays, and those without chars.
SizeCovers ==
  status = "allocated"
  /\ (identify_header(header) # "raw" \/ IsArray(expanded) \/ "c" \notin Range(expanded))
    => size >= CSize(expanded)

-----------------------------------------------------------------------------
(* What the project's own texts say of the program, and the code does not  *)
(* keep.                                                                   *)

\* header_interpretation saves "the offsets to the pointers" of a bitvector
\* layout header (header.h), also after a long.
StructPointersFound ==
  identify_header(header) = "struct" =>
    header_interpretation(header, expanded) = CLayout(expanded).ptrs
=============================================================================
