--------------------------------- MODULE QR ---------------------------------
(***************************************************************************)
(* The QR encoder (qr.go): byte mode, level M, versions 1 to 10, and a     *)
(* reader to hold its pictures against.                                    *)
(*                                                                         *)
(* A byte is the set of its bits that are 1, so that the addition of the   *)
(* field is the symmetric difference. A picture is the set of its dark     *)
(* modules. The penalty score is left out: any mask may be chosen.         *)
(***************************************************************************)
EXTENDS Integers, FiniteSets, SequencesExt

CONSTANTS
    Texts,          \* the texts that are encoded: sequences of bytes
    None, Refused

VARIABLES
    text,           \* the text to be shown
    picture         \* its picture: size, mask and dark modules

vars == <<text, picture>>

Byte == SUBSET (0 .. 7)
Xor(a, b) == (a \ b) \cup (b \ a)
Bit(n, i) == (n \div 2^i) % 2 = 1

-----------------------------------------------------------------------------
(* GF(256) and Reed-Solomon.                                               *)

\* A byte is a polynomial over GF(2); the field's is x^8 + x^4 + x^3 + x^2 + 1.
Product(a, b) == {k \in 0 .. 14 : Cardinality({i \in a : k - i \in b}) % 2 = 1}
Reduce(c) == Xor(c \cap (0 .. 7), Product({k - 8 : k \in c \ (0 .. 7)}, {4, 3, 2, 0}))

\* What the tables of powers and logarithms compute.
gfMul(a, b) == Reduce(Reduce(Product(a, b)))
gfExp[i \in Nat] == IF i = 0 THEN {0} ELSE Reduce({k + 1 : k \in gfExp[i - 1]})

\* The product of (x - a^i) for i below n, the highest coefficient first.
rsGenerator[n \in Nat] ==
    IF n = 0 THEN <<{0}>>
    ELSE LET g == rsGenerator[n - 1]
             root == gfExp[n - 1]
         IN  Append([j \in 1 .. n |-> IF j = 1 THEN g[1] ELSE Xor(g[j], gfMul(g[j - 1], root))],
                    gfMul(g[n], root))

\* The remainder of data * x^n: a long division, one codeword after the other
\* (by halves, which keeps the recursion shallow).
rsEncode(data, n) ==
    LET g == rsGenerator[n]
        divide[rem \in Seq(Byte), lo \in Nat, hi \in Nat] ==
            IF lo < hi
            THEN LET mid == (lo + hi) \div 2
                 IN  divide[divide[rem, lo, mid], mid + 1, hi]
            ELSE LET factor == Xor(data[lo], rem[1])
                 IN  Append([i \in 1 .. n - 1 |-> Xor(rem[i + 1], gfMul(g[i + 1], factor))],
                            gfMul(g[n + 1], factor))
    IN  divide[[i \in 1 .. n |-> {}], 1, Len(data)]

-----------------------------------------------------------------------------
(* Versions.                                                               *)

qrVersion(ec, blocks1, data1, blocks2, data2, centres) ==
    [ecPerBlock |-> ec, alignment |-> centres,
     sizes |-> [k \in 1 .. blocks1 + blocks2 |-> IF k <= blocks1 THEN data1 ELSE data2]]

qrVersions == <<
    qrVersion(10, 1, 16, 0, 0, {}),          qrVersion(16, 1, 28, 0, 0, {6, 18}),
    qrVersion(26, 1, 44, 0, 0, {6, 22}),     qrVersion(18, 2, 32, 0, 0, {6, 26}),
    qrVersion(24, 2, 43, 0, 0, {6, 30}),     qrVersion(16, 4, 27, 0, 0, {6, 34}),
    qrVersion(18, 4, 31, 0, 0, {6, 22, 38}), qrVersion(22, 2, 38, 2, 39, {6, 24, 42}),
    qrVersion(22, 3, 36, 2, 37, {6, 26, 46}), qrVersion(26, 4, 43, 1, 44, {6, 28, 50}) >>

qrFormatM == <<\h5412, \h5125, \h5E7C, \h5B4B, \h45F9, \h40CE, \h4F97, \h4AA0>>
qrVersionInfo == [v \in 7 .. 10 |-> <<\h07C94, \h085BC, \h09A99, \h0A4D3>>[v - 6]]

Start(v, k) == FoldLeft(+, 0, SubSeq(qrVersions[v].sizes, 1, k - 1))
dataCodewords(v) == Start(v, Len(qrVersions[v].sizes) + 1)
countBits(v) == IF v >= 10 THEN 16 ELSE 8
byteCapacity(v) == (dataCodewords(v) * 8 - 4 - countBits(v)) \div 8

Fitting(t) == {v \in 1 .. 10 : Len(t) <= byteCapacity(v)}
VersionFor(t) == CHOOSE v \in Fitting(t) : \A u \in Fitting(t) : v <= u
Size(v) == v * 4 + 17

-----------------------------------------------------------------------------
(* qrEncode: from text to codewords.                                       *)

UnpackBytes(bytes) ==
    [j \in 1 .. 8 * Len(bytes) |-> 7 - ((j - 1) % 8) \in bytes[(j - 1) \div 8 + 1]]

\* Mode, length, text and terminator; a last byte that is not full ends in zeros.
Bits(t, v) ==
    LET n == countBits(v)
        head == <<FALSE, TRUE, FALSE, FALSE>>
                \o [i \in 1 .. n |-> Bit(Len(t), n - i)]
                \o UnpackBytes(t)
        room == dataCodewords(v) * 8 - Len(head)
    IN  head \o [i \in 1 .. (IF room < 4 THEN room ELSE 4) |-> FALSE]

PackBytes(bits) ==
    [k \in 1 .. (Len(bits) + 7) \div 8 |->
        {i \in 0 .. 7 : 8 * k - i <= Len(bits) /\ bits[8 * k - i]}]

Padded(t, v) ==
    LET bytes == PackBytes(Bits(t, v))
    IN  [i \in 1 .. dataCodewords(v) |->
            CASE i <= Len(bytes) -> bytes[i]
              [] (i - Len(bytes)) % 2 = 1 -> {7, 6, 5, 3, 2}
              [] OTHER -> {4, 0}]

\* Seeded fault: block after block.
Interleaved_Blockwise(blocks) == FlattenSeq(blocks)

\* The first codeword of every block, then the second ...
Interleaved(blocks) ==
    LET longest == CHOOSE n \in {Len(b) : b \in Range(blocks)} :
                        \A b \in Range(blocks) : Len(b) <= n
        Row(i) == LET long == SelectSeq(blocks, LAMBDA b : i <= Len(b))
                  IN  [k \in DOMAIN long |-> long[k][i]]
    IN  FlattenSeq([i \in 1 .. longest |-> Row(i)])

Codewords(t, v) ==
    LET padded == Padded(t, v)
        sizes == qrVersions[v].sizes
        data == [k \in DOMAIN sizes |->
                    SubSeq(padded, Start(v, k) + 1, Start(v, k) + sizes[k])]
        ec == [k \in DOMAIN sizes |-> rsEncode(data[k], qrVersions[v].ecPerBlock)]
    IN  Interleaved(data) \o Interleaved(ec)

-----------------------------------------------------------------------------
(* functionPatterns, the patterns that carry no text. Each comes after the *)
(* ones before it and leaves alone what they have reserved.                *)

Grid(n) == (0 .. n - 1) \X (0 .. n - 1)
Within(q, p, lo, hi) == q[1] - p[1] \in lo .. hi /\ q[2] - p[2] \in lo .. hi
Edge(q, p, lo, hi) ==
    Within(q, p, lo, hi) /\ (q[1] - p[1] \in {lo, hi} \/ q[2] - p[2] \in {lo, hi})

Finders(n) == {<<0, 0>>, <<0, n - 7>>, <<n - 7, 0>>}
FinderArea(n) == {q \in Grid(n) : \E p \in Finders(n) : Within(q, p, -1, 7)}
FinderDark(n) == {q \in FinderArea(n) :
                    \E p \in Finders(n) : Edge(q, p, 0, 6) \/ Within(q, p, 2, 4)}

TimingArea(n) == {<<6, i>> : i \in 8 .. n - 9} \cup {<<i, 6>> : i \in 8 .. n - 9}
TimingDark(n) == {q \in TimingArea(n) : (q[1] + q[2]) % 2 = 0}

\* A centre that is reserved already is skipped.
Centres(v) ==
    LET at == qrVersions[v].alignment
    IN  (at \X at) \ (FinderArea(Size(v)) \cup TimingArea(Size(v)))
AlignmentArea(v) ==
    {<<p[1] + dr, p[2] + dc>> : p \in Centres(v), dr \in -2 .. 2, dc \in -2 .. 2}
AlignmentDark(v) ==
    {q \in AlignmentArea(v) : \E p \in Centres(v) : q = p \/ Edge(q, p, -2, 2)}

DarkModule(n) == <<n - 8, 8>>
FormatArea(n) ==
    LET along == (0 .. 8) \cup (n - 8 .. n - 1)
    IN  {<<8, i>> : i \in along} \cup {<<i, 8>> : i \in along}

VersionArea(v) ==
    IF v < 7 THEN {}
    ELSE ((0 .. 5) \X (Size(v) - 11 .. Size(v) - 9)) \cup ((Size(v) - 11 .. Size(v) - 9) \X (0 .. 5))
VersionDark(v) ==
    {q \in VersionArea(v) :
        LET r == IF q[1] < q[2] THEN q[1] ELSE q[2]
            c == IF q[1] < q[2] THEN q[2] ELSE q[1]
        IN  Bit(qrVersionInfo[v], 3 * r + c - (Size(v) - 11))}

Reserved(v) ==
    LET n == Size(v)
    IN  FinderArea(n) \cup TimingArea(n) \cup AlignmentArea(v) \cup FormatArea(n) \cup VersionArea(v)
FunctionDark(v) ==
    LET n == Size(v)
    IN  FinderDark(n) \cup TimingDark(n) \cup AlignmentDark(v) \cup {DarkModule(n)} \cup VersionDark(v)

-----------------------------------------------------------------------------
(* buildMatrix.                                                            *)

\* Pairs of columns from the right, up and down in turn, without column 6.
Zigzag(n) ==
    LET Right(k) == LET c == n + 1 - 2 * k IN IF c <= 6 THEN c - 1 ELSE c
        Row(k, i) == IF k % 2 = 1 THEN n - i ELSE i - 1
        Strip(k) == FlattenSeq([i \in 1 .. n |->
                        << <<Row(k, i), Right(k)>>, <<Row(k, i), Right(k) - 1>> >>])
    IN  FlattenSeq([k \in 1 .. (n - 1) \div 2 |-> Strip(k)])

\* Modules that are left over stay light.
PlaceData(v, codewords) ==
    LET reserved == Reserved(v)
        free == SelectSeq(Zigzag(Size(v)), LAMBDA q : q \notin reserved)
        bits == UnpackBytes(codewords)
    IN  FunctionDark(v) \cup {free[i] : i \in {j \in DOMAIN free : j <= Len(bits) /\ bits[j]}}

maskAt(mask, r, c) ==
    CASE mask = 0 -> (r + c) % 2 = 0
      [] mask = 1 -> r % 2 = 0
      [] mask = 2 -> c % 3 = 0
      [] mask = 3 -> (r + c) % 3 = 0
      [] mask = 4 -> (r \div 2 + c \div 3) % 2 = 0
      [] mask = 5 -> ((r * c) % 2) + ((r * c) % 3) = 0
      [] mask = 6 -> (((r * c) % 2) + ((r * c) % 3)) % 2 = 0
      [] mask = 7 -> (((r + c) % 2) + ((r * c) % 3)) % 2 = 0

applyMask(dark, reserved, mask, n) ==
    Xor(dark, {q \in Grid(n) \ reserved : maskAt(mask, q[1], q[2])})

\* Where the bits of the format go: around the top left finder, and along the others.
FirstCopy(i) ==
    CASE i < 6 -> <<8, i>>
      [] i = 6 -> <<8, 7>>
      [] i = 7 -> <<8, 8>>
      [] i = 8 -> <<7, 8>>
      [] OTHER -> <<14 - i, 8>>
SecondCopy(n, i) == IF i < 8 THEN <<8, n - 1 - i>> ELSE <<n - 15 + i, 8>>

placeFormat(dark, mask, n) ==
    LET Cells(I) == {FirstCopy(i) : i \in I} \cup {SecondCopy(n, i) : i \in I}
    IN  (dark \ Cells(0 .. 14))
        \cup Cells({i \in 0 .. 14 : Bit(qrFormatM[mask + 1], i)})
        \cup {DarkModule(n)}

buildMatrix(v, codewords, mask) ==
    LET n == Size(v)
    IN  [size |-> n, mask |-> mask,
         dark |-> placeFormat(applyMask(PlaceData(v, codewords), Reserved(v), mask, n), mask, n)]

-----------------------------------------------------------------------------
Init == text \in Texts /\ picture = None

\* QRCodeSVG draws the text with the mask that scores best, or fails.
QRCodeSVG ==
    /\ picture = None
    /\ IF Fitting(text) = {} THEN picture' = Refused
       ELSE LET v == VersionFor(text)
                codewords == Codewords(text, v)
            IN  \E mask \in 0 .. 7 : picture' = buildMatrix(v, codewords, mask)
    /\ UNCHANGED text

Next == QRCodeSVG

-----------------------------------------------------------------------------
(* A reader, from ISO/IEC 18004 and not from the code: what a scanner      *)
(* makes of a picture. It takes the version from the size, and the block   *)
(* structure of a version and the masks as given.                          *)

version == (picture.size - 17) \div 4

\* A format is 00 for level M and the mask, with ten bits that make it a multiple
\* of x^10 + x^8 + x^5 + x^4 + x^2 + x + 1, and a pattern added on top.
FormatSays(word, mask) ==
    LET plain == Xor(word, {14, 12, 10, 4, 1})
    IN  /\ \E q \in SUBSET (0 .. 4) : plain = Product(q, {10, 8, 5, 4, 2, 1, 0})
        /\ \A i \in 10 .. 14 : i \in plain <=> Bit(mask, i - 10)

\* Bit 14 is the left end of row 8 in the first copy, the low end of column 8 in the second.
FirstFormat ==
    LET Cell(i) == CASE i >= 9 -> <<8, 14 - i>>
                     [] i \in {7, 8} -> <<8, 15 - i>>
                     [] i = 6 -> <<7, 8>>
                     [] i <= 5 -> <<i, 8>>
    IN  {i \in 0 .. 14 : Cell(i) \in picture.dark}
SecondFormat ==
    {i \in 0 .. 14 : (IF i >= 8 THEN <<picture.size - 15 + i, 8>>
                      ELSE <<8, picture.size - 1 - i>>) \in picture.dark}

\* The modules that are no data: corners, timing, alignment, version.
Fixed(q) ==
    LET n == picture.size
        r == q[1]
        c == q[2]
        at == qrVersions[version].alignment
        far == n - 7
    IN  \/ r <= 8 /\ (c <= 8 \/ c >= n - 8)
        \/ r >= n - 8 /\ c <= 8
        \/ r = 6 \/ c = 6
        \/ \E p \in (at \X at) \ {<<6, 6>>, <<6, far>>, <<far, 6>>} : Within(q, p, -2, 2)
        \/ version >= 7 /\ ((r <= 5 /\ c >= n - 11) \/ (c <= 5 /\ r >= n - 11))

\* Position k of the way up and down through the columns.
Way(k) ==
    LET n == picture.size
        pair == k \div (2 * n)
        step == (k % (2 * n)) \div 2
        right == n - 1 - 2 * pair
    IN  <<IF pair % 2 = 0 THEN n - 1 - step ELSE step,
          (IF right <= 6 THEN right - 1 ELSE right) - (k % 2)>>

CodewordsRead ==
    LET n == picture.size
        cells == SelectSeq([k \in 1 .. n * (n - 1) |-> Way(k - 1)], LAMBDA q : ~Fixed(q))
        One(q) == (q \in picture.dark) # maskAt(picture.mask, q[1], q[2])
    IN  PackBytes([i \in 1 .. 8 * (Len(cells) \div 8) |-> One(cells[i])])

\* Codeword j of block k; short blocks come first.
BlockRead(words, k) ==
    LET sizes == qrVersions[version].sizes
        blocks == Len(sizes)
        short == Cardinality({b \in 1 .. blocks : sizes[b] = sizes[1]})
        Place(j) == IF j <= sizes[1] THEN (j - 1) * blocks + k ELSE sizes[1] * blocks + k - short
    IN  [j \in 1 .. sizes[k] |-> words[Place(j)]]
        \o [i \in 1 .. qrVersions[version].ecPerBlock |->
              words[dataCodewords(version) + (i - 1) * blocks + k]]

halved[e \in Nat] ==
    IF e = 0 THEN {0}
    ELSE LET root == halved[e \div 2]
             square == gfMul(root, root)
         IN  IF e % 2 = 0 THEN square ELSE gfMul(square, {1})
power == [e \in 0 .. 254 |-> halved[e]]

\* A block is a multiple of the generator: zero at each of its roots.
NoErrors(block) ==
    \A i \in 0 .. qrVersions[version].ecPerBlock - 1 :
        LET ones == UNION {{<<j, b>> : b \in gfMul(block[j], power[(i * (Len(block) - j)) % 255])} :
                           j \in DOMAIN block}
        IN  \A b \in 0 .. 7 : Cardinality({o \in ones : o[2] = b}) % 2 = 0

\* The text in the data codewords: mode 4, a length, the bytes.
TextRead(data) ==
    LET bits == UnpackBytes(data)
        Number(from, n) == FoldLeft(LAMBDA sum, i : 2 * sum + (IF bits[from + i] THEN 1 ELSE 0),
                                    0, [i \in 1 .. n |-> i])
        length == Number(4, countBits(version))
    IN  IF Number(0, 4) = 4
        THEN PackBytes(SubSeq(bits, 5 + countBits(version), 4 + countBits(version) + 8 * length))
        ELSE <<>>

-----------------------------------------------------------------------------
(* Properties.                                                             *)

TypeOK ==
    picture \notin {None, Refused} =>
        picture.mask \in 0 .. 7 /\ version \in 1 .. 10 /\ picture.dark \subseteq Grid(picture.size)

\* What QRCodeSVG (qr.go:553) shows is the text: a reader that takes the mask from the
\* second copy of the format finds blocks without an error, and the text in them.
Decodes ==
    picture \notin {None, Refused} =>
        /\ FormatSays(SecondFormat, picture.mask)
        /\ \E words \in {CodewordsRead} :
              LET sizes == qrVersions[version].sizes
                  data(k) == SubSeq(BlockRead(words, k), 1, sizes[k])
              IN  /\ \A k \in DOMAIN sizes : NoErrors(BlockRead(words, k))
                  /\ \E all \in {FlattenSeq([k \in DOMAIN sizes |-> data(k)])} :
                        TextRead(all) = text
=============================================================================
