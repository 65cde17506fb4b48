-------------------------- MODULE DiskDaemonProofs --------------------------
(***************************************************************************)
(* The disk daemon for every block size, number of blocks and contents:    *)
(* the hexadecimal code for every byte, what a damaged character does to a *)
(* block and its checksum, and the invariant that follows one request from *)
(* the driver to the disk file and back.                                   *)
(***************************************************************************)
EXTENDS DiskDaemon, NatSets, FiniteSetTheorems

-----------------------------------------------------------------------------
(* The hexadecimal code.                                                   *)

HexDigits == Digits \cup Letters

\* A digit stands for its value (the nibbles of encode() and decode()).
LEMMA DigitNibble == \A n \in 0 .. 15 : Digit(n) \in HexDigits /\ Nibble(Digit(n)) = n
<1> SUFFICES ASSUME NEW n \in 0 .. 15
             PROVE  Digit(n) \in HexDigits /\ Nibble(Digit(n)) = n
  OBVIOUS
<1>1. CASE n > 9
  <2>1. Digit(n) = 55 + n /\ Digit(n) \in Letters
    BY <1>1 DEF Digit, Letters
  <2>2. Nibble(Digit(n)) = char(n)
    BY <1>1, <2>1 DEF Nibble, Digits
  <2>3. char(n) = n
    BY DEF char
  <2>. QED  BY <2>1, <2>2, <2>3 DEF HexDigits
<1>2. CASE n <= 9
  BY <1>2 DEF Digit, Nibble, Digits, HexDigits
<1>. QED  BY <1>1, <1>2

\* No two digits have the same value.
LEMMA NibbleInjective ==
  \A c \in HexDigits : Nibble(c) \in 0 .. 15 /\ Digit(Nibble(c)) = c
<1> SUFFICES ASSUME NEW c \in HexDigits
             PROVE  Nibble(c) \in 0 .. 15 /\ Digit(Nibble(c)) = c
  OBVIOUS
<1>1. CASE c \in Digits
  BY <1>1 DEF Nibble, Digit, Digits
<1>2. CASE c \in Letters
  <2>1. Nibble(c) = char(c - 55) /\ c - 55 \in 10 .. 15
    BY <1>2 DEF Nibble, Digits, Letters
  <2>2. char(c - 55) = c - 55
    BY <2>1 DEF char
  <2>. QED  BY <2>1, <2>2 DEF Digit
<1>. QED  BY <1>1, <1>2 DEF HexDigits

\* The two nibbles of a byte and the byte they make.
LEMMA ByteOfNibbles ==
  \A hi, lo \in 0 .. 15 : LET b == char(hi * 16 + lo) IN
      b \in Bytes /\ (b % 256) \div 16 = hi /\ b % 16 = lo
<1> SUFFICES ASSUME NEW hi \in 0 .. 15, NEW lo \in 0 .. 15
             PROVE  LET b == char(hi * 16 + lo) IN
                      b \in Bytes /\ (b % 256) \div 16 = hi /\ b % 16 = lo
  OBVIOUS
<1> DEFINE n == hi * 16 + lo
<1>1. n \in 0 .. 255 /\ n % 256 = n
  OBVIOUS
<1>2. n \div 16 = hi /\ n % 16 = lo
  OBVIOUS
<1>3. CASE n > 127
  <2>1. char(n) = n - 256
    BY <1>1, <1>3 DEF char
  <2>2. (n - 256) % 256 = n /\ (n - 256) % 16 = lo
    BY <1>1, <1>2
  <2>. QED  BY <1>1, <1>2, <1>3, <2>1, <2>2 DEF Bytes
<1>4. CASE n <= 127
  <2>1. char(n) = n
    BY <1>1, <1>4 DEF char
  <2>. QED  BY <1>1, <1>2, <1>4, <2>1 DEF Bytes
<1>. QED  BY <1>1, <1>3, <1>4

LEMMA NibblesOfByte ==
  \A b \in Bytes : /\ (b % 256) \div 16 \in 0 .. 15 /\ b % 16 \in 0 .. 15
                   /\ char(((b % 256) \div 16) * 16 + (b % 16)) = b
<1> SUFFICES ASSUME NEW b \in Bytes
             PROVE  /\ (b % 256) \div 16 \in 0 .. 15 /\ b % 16 \in 0 .. 15
                    /\ char(((b % 256) \div 16) * 16 + (b % 16)) = b
  OBVIOUS
<1> DEFINE u == b % 256
<1>1. u \in 0 .. 255 /\ u = (IF b < 0 THEN b + 256 ELSE b)
  BY DEF Bytes
<1>2. b % 16 = u % 16
  BY <1>1 DEF Bytes
<1>3. u \div 16 \in 0 .. 15 /\ u % 16 \in 0 .. 15 /\ (u \div 16) * 16 + (u % 16) = u
  BY <1>1
<1>4. char(u) = b
  BY <1>1 DEF char, Bytes
<1>. QED  BY <1>2, <1>3, <1>4

\* decode() takes back what encode() made of a byte, also of one whose sign is
\* set (xinu-disk.c:19 and 46).
THEOREM EncodeDecode == \A b \in Bytes : decode(encode(b)) = b
<1> SUFFICES ASSUME NEW b \in Bytes PROVE decode(encode(b)) = b
  OBVIOUS
<1>1. encode(b)[1] = Digit((b % 256) \div 16) /\ encode(b)[2] = Digit(b % 16)
  BY DEF encode
<1>. QED  BY <1>1, DigitNibble, NibblesOfByte DEF decode

\* A block has one text: two digits that decode to a byte are the ones encode()
\* makes of it, so that no other digit in the place of one goes unnoticed.
THEOREM DecodeEncode ==
  \A c, d \in HexDigits : decode(<<c, d>>) \in Bytes /\ encode(decode(<<c, d>>)) = <<c, d>>
<1> SUFFICES ASSUME NEW c \in HexDigits, NEW d \in HexDigits
             PROVE  decode(<<c, d>>) \in Bytes /\ encode(decode(<<c, d>>)) = <<c, d>>
  OBVIOUS
<1>1. decode(<<c, d>>) = char(Nibble(c) * 16 + Nibble(d))
  BY DEF decode
<1>2. Nibble(c) \in 0 .. 15 /\ Nibble(d) \in 0 .. 15
  BY NibbleInjective
<1>. QED  BY <1>1, <1>2, ByteOfNibbles, NibbleInjective DEF encode

-----------------------------------------------------------------------------
(* Blocks.                                                                 *)

Images == [1 .. BLOCKSIZE -> Bytes]

\* x and y are blocks that differ in one byte at most.
Almost(x, y) ==
    /\ x \in Images /\ y \in Images
    /\ \A i, j \in 1 .. BLOCKSIZE : x[i] # y[i] /\ x[j] # y[j] => i = j

\* What decode() returns is a byte, whatever the characters.
LEMMA DecodeByte == \A c, d \in Int : decode(<<c, d>>) \in Bytes
<1>1. \A n \in Int : char(n) \in Bytes
  <2> SUFFICES ASSUME NEW n \in Int PROVE char(n) \in Bytes
    OBVIOUS
  <2>1. n % 256 \in 0 .. 255
    OBVIOUS
  <2> QED BY <2>1 DEF char, Bytes
<1>2. \A c \in Int : Nibble(c) \in Int
  BY <1>1 DEF Nibble, Bytes
<1> SUFFICES ASSUME NEW c \in Int, NEW d \in Int PROVE decode(<<c, d>>) \in Bytes
  OBVIOUS
<1>3. decode(<<c, d>>) = char(Nibble(c) * 16 + Nibble(d))
  BY DEF decode
<1>4. Nibble(c) * 16 + Nibble(d) \in Int
  BY <1>2
<1> QED BY <1>1, <1>3, <1>4

\* The digits of the text of a block.
LEMMA HexOfImage ==
  ASSUME NEW x \in Images, NEW i \in 1 .. BLOCKSIZE
  PROVE  /\ 2 * i - 1 \in 1 .. 2 * BLOCKSIZE /\ 2 * i \in 1 .. 2 * BLOCKSIZE
         /\ Hex(x)[2 * i - 1] = encode(x[i])[1] /\ Hex(x)[2 * i] = encode(x[i])[2]
         /\ Hex(x)[2 * i - 1] \in Int /\ Hex(x)[2 * i] \in Int
         /\ <<Hex(x)[2 * i - 1], Hex(x)[2 * i]>> = encode(x[i])
<1>1. /\ BLOCKSIZE \in Nat
      /\ 2 * i - 1 \in 1 .. 2 * BLOCKSIZE /\ 2 * i \in 1 .. 2 * BLOCKSIZE
      /\ ((2 * i - 1) + 1) \div 2 = i /\ (2 * i + 1) \div 2 = i
      /\ 2 - ((2 * i - 1) % 2) = 1 /\ 2 - ((2 * i) % 2) = 2
  BY DaemonAssumption
<1>2. Hex(x)[2 * i - 1] = encode(x[i])[1] /\ Hex(x)[2 * i] = encode(x[i])[2]
  BY <1>1 DEF Hex
<1>3. x[i] \in Bytes
  BY DEF Images
<1>4. encode(x[i]) = <<Digit((x[i] % 256) \div 16), Digit(x[i] % 16)>>
  BY DEF encode
<1>5. Digit((x[i] % 256) \div 16) \in HexDigits /\ Digit(x[i] % 16) \in HexDigits
  BY <1>3, NibblesOfByte, DigitNibble
<1>6. \A d \in HexDigits : d \in Int
  BY DEF HexDigits, Digits, Letters
<1> QED BY <1>1, <1>2, <1>4, <1>5, <1>6

\* The text of a block reads back as the block.
LEMMA UnhexHex == ASSUME NEW x \in Images PROVE Unhex(Hex(x)) = x
<1>1. ASSUME NEW i \in 1 .. BLOCKSIZE
      PROVE  decode(<<Hex(x)[2 * i - 1], Hex(x)[2 * i]>>) = x[i]
  <2>1. x[i] \in Bytes
    BY DEF Images
  <2>2. <<Hex(x)[2 * i - 1], Hex(x)[2 * i]>> = encode(x[i])
    BY HexOfImage
  <2> QED BY <2>1, <2>2, EncodeDecode
<1>2. x = [i \in 1 .. BLOCKSIZE |-> x[i]]
  BY DEF Images
<1> QED BY <1>1, <1>2 DEF Unhex

\* One other character in the text changes one byte at most.
LEMMA DamageAlmost ==
  ASSUME NEW x \in Images, NEW k \in 1 .. 2 * BLOCKSIZE, NEW c \in Damage
  PROVE  Almost(Unhex([Hex(x) EXCEPT ![k] = c]), x)
<1> DEFINE h == Hex(x)
           g == [h EXCEPT ![k] = c]
           y == Unhex(g)
<1>1. /\ BLOCKSIZE \in Nat /\ c \in Int
      /\ \A i \in 1 .. BLOCKSIZE : x[i] \in Bytes
      /\ \A i \in 1 .. BLOCKSIZE : 2 * i - 1 \in 1 .. 2 * BLOCKSIZE /\ 2 * i \in 1 .. 2 * BLOCKSIZE
  BY DaemonAssumption DEF Images
<1>2. \A i \in 1 .. BLOCKSIZE : h[2 * i - 1] \in Int /\ h[2 * i] \in Int
  BY HexOfImage
<1>3. \A j \in 1 .. 2 * BLOCKSIZE : g[j] = IF j = k THEN c ELSE h[j]
  BY DEF Hex
<1>4. \A i \in 1 .. BLOCKSIZE : y[i] = decode(<<g[2 * i - 1], g[2 * i]>>)
  BY DEF Unhex
<1> HIDE DEF h, g
<1>5. \A i \in 1 .. BLOCKSIZE : g[2 * i - 1] \in Int /\ g[2 * i] \in Int
  BY <1>1, <1>2, <1>3
<1>6. y \in Images
  BY <1>5, DecodeByte DEF Unhex, Images
<1>7. \A i \in 1 .. BLOCKSIZE : y[i] # x[i] => k = 2 * i - 1 \/ k = 2 * i
  <2> SUFFICES ASSUME NEW i \in 1 .. BLOCKSIZE, k # 2 * i - 1, k # 2 * i
               PROVE  y[i] = x[i]
    OBVIOUS
  <2>1. g[2 * i - 1] = h[2 * i - 1] /\ g[2 * i] = h[2 * i]
    BY <1>1, <1>3
  <2>2. <<h[2 * i - 1], h[2 * i]>> = encode(x[i])
    BY HexOfImage DEF h
  <2> QED BY <1>1, <1>4, <2>1, <2>2, EncodeDecode
<1>8. \A i, j \in 1 .. BLOCKSIZE : y[i] # x[i] /\ y[j] # x[j] => i = j
  <2> SUFFICES ASSUME NEW i \in 1 .. BLOCKSIZE, NEW j \in 1 .. BLOCKSIZE,
                      y[i] # x[i], y[j] # x[j]
               PROVE  i = j
    OBVIOUS
  <2>1. (k = 2 * i - 1 \/ k = 2 * i) /\ (k = 2 * j - 1 \/ k = 2 * j)
    BY <1>7
  <2> QED BY <2>1
<1> HIDE DEF y
<1> QED BY <1>6, <1>8 DEF Almost, y, g, h

\* A byte is the sum of its bits ...
LEMMA SumOfBits ==
  \A u \in 0 .. 255 :
      u = (u % 2) + 2 * ((u \div 2) % 2) + 4 * ((u \div 4) % 2) + 8 * ((u \div 8) % 2)
          + 16 * ((u \div 16) % 2) + 32 * ((u \div 32) % 2) + 64 * ((u \div 64) % 2)
          + 128 * ((u \div 128) % 2)
<1> SUFFICES ASSUME NEW u \in 0 .. 255
             PROVE  u = (u % 2) + 2 * ((u \div 2) % 2) + 4 * ((u \div 4) % 2)
                        + 8 * ((u \div 8) % 2) + 16 * ((u \div 16) % 2)
                        + 32 * ((u \div 32) % 2) + 64 * ((u \div 64) % 2)
                        + 128 * ((u \div 128) % 2)
  OBVIOUS
<1>1. u = 2 * (u \div 2) + (u % 2)
  OBVIOUS
<1>2. u \div 2 = 2 * (u \div 4) + ((u \div 2) % 2)
  OBVIOUS
<1>3. u \div 4 = 2 * (u \div 8) + ((u \div 4) % 2)
  OBVIOUS
<1>4. u \div 8 = 2 * (u \div 16) + ((u \div 8) % 2)
  OBVIOUS
<1>5. u \div 16 = 2 * (u \div 32) + ((u \div 16) % 2)
  OBVIOUS
<1>6. u \div 32 = 2 * (u \div 64) + ((u \div 32) % 2)
  OBVIOUS
<1>7. u \div 64 = 2 * (u \div 128) + ((u \div 64) % 2)
  OBVIOUS
<1>8. u \div 128 = (u \div 128) % 2
  OBVIOUS
<1> QED BY <1>1, <1>2, <1>3, <1>4, <1>5, <1>6, <1>7, <1>8

\* ... so that two bytes differ in a bit.
LEMMA BitsTell ==
  ASSUME NEW a \in Bytes, NEW b \in Bytes, a # b
  PROVE  \E w \in Weights : Bit(a, w) # Bit(b, w)
<1> SUFFICES ASSUME \A w \in Weights : Bit(a, w) = Bit(b, w) PROVE FALSE
  OBVIOUS
<1> DEFINE u == a % 256
           v == b % 256
<1>1. u \in 0 .. 255 /\ v \in 0 .. 255 /\ u # v
  <2>1. u = IF a < 0 THEN a + 256 ELSE a
    BY DEF Bytes
  <2>2. v = IF b < 0 THEN b + 256 ELSE b
    BY DEF Bytes
  <2> HIDE DEF u, v
  <2> QED BY <2>1, <2>2 DEF Bytes
<1>2. /\ (u \div 1) % 2 = (v \div 1) % 2 /\ (u \div 2) % 2 = (v \div 2) % 2
      /\ (u \div 4) % 2 = (v \div 4) % 2 /\ (u \div 8) % 2 = (v \div 8) % 2
      /\ (u \div 16) % 2 = (v \div 16) % 2 /\ (u \div 32) % 2 = (v \div 32) % 2
      /\ (u \div 64) % 2 = (v \div 64) % 2 /\ (u \div 128) % 2 = (v \div 128) % 2
  BY DEF Bit, Weights
<1> HIDE DEF u, v
<1>3. u \div 1 = u /\ v \div 1 = v
  BY <1>1
<1> DEFINE Sum(n) == (n % 2) + 2 * ((n \div 2) % 2) + 4 * ((n \div 4) % 2)
                     + 8 * ((n \div 8) % 2) + 16 * ((n \div 16) % 2)
                     + 32 * ((n \div 32) % 2) + 64 * ((n \div 64) % 2)
                     + 128 * ((n \div 128) % 2)
<1>4. u = Sum(u) /\ v = Sum(v)
  <2>1. \A n \in 0 .. 255 : n = Sum(n)
    BY SumOfBits
  <2> HIDE DEF Sum
  <2> QED BY <1>1, <2>1
<1>5. Sum(u) = Sum(v)
  BY <1>2, <1>3, Zenon
<1> QED BY <1>1, <1>4, <1>5

\* A checksum tells a block from one that differs in a single byte.
LEMMA ChecksumTells ==
  ASSUME NEW x, NEW y, Almost(x, y), chksum(x) = chksum(y)
  PROVE  x = y
<1> DEFINE dom == 1 .. BLOCKSIZE
<1>1. /\ x \in Images /\ y \in Images /\ BLOCKSIZE \in Nat
      /\ \A i, j \in dom : x[i] # y[i] /\ x[j] # y[j] => i = j
  BY DaemonAssumption DEF Almost
<1> SUFFICES ASSUME x # y PROVE FALSE
  OBVIOUS
<1>2. PICK k \in dom : x[k] # y[k]
  BY <1>1 DEF Images
<1>3. PICK w \in Weights : Bit(x[k], w) # Bit(y[k], w)
  <2>1. x[k] \in Bytes /\ y[k] \in Bytes
    BY <1>1 DEF Images
  <2> QED BY <1>2, <2>1, BitsTell
<1>4. Bit(x[k], w) \in {0, 1} /\ Bit(y[k], w) \in {0, 1}
  <2>1. ASSUME NEW b \in Bytes PROVE Bit(b, w) \in {0, 1}
    <3>1. b % 256 \in 0 .. 255 /\ w \in Nat \ {0}
      BY DEF Bytes, Weights
    <3>2. (b % 256) \div w \in Int
      BY <3>1
    <3> QED BY <3>2 DEF Bit
  <2> QED BY <1>1, <2>1 DEF Images
<1> DEFINE ones(z) == {i \in dom : Bit(z[i], w) = 1}
<1>5. /\ IsFiniteSet(ones(x)) /\ IsFiniteSet(ones(y))
      /\ Cardinality(ones(x)) \in Nat /\ Cardinality(ones(y)) \in Nat
  <2>1. IsFiniteSet(dom)
    BY <1>1, FS_Interval
  <2>2. IsFiniteSet(ones(x)) /\ IsFiniteSet(ones(y))
    <3>1. ones(x) \in SUBSET dom /\ ones(y) \in SUBSET dom
      OBVIOUS
    <3> HIDE DEF ones, dom
    <3> QED BY <2>1, <3>1, FS_Subset
  <2> HIDE DEF ones
  <2> QED BY <2>2, FS_CardinalityType
<1>6. Cardinality(ones(x)) % 2 = Cardinality(ones(y)) % 2
  <2>1. chksum(x)[w] = Cardinality(ones(x)) % 2 /\ chksum(y)[w] = Cardinality(ones(y)) % 2
    BY DEF chksum
  <2> QED BY <2>1
<1>7. \A i \in dom : i # k => Bit(x[i], w) = Bit(y[i], w)
  BY <1>1, <1>2
<1>8. CASE Bit(x[k], w) = 1
  <2>1. k \notin ones(y) /\ ones(x) = ones(y) \cup {k}
    BY <1>3, <1>7, <1>8
  <2>2. Cardinality(ones(y) \cup {k}) = Cardinality(ones(y)) + 1
    <3> HIDE DEF ones
    <3> QED BY <1>5, <2>1, FS_AddElement
  <2>3. Cardinality(ones(x)) = Cardinality(ones(y)) + 1
    BY <2>1, <2>2
  <2> HIDE DEF ones
  <2> QED BY <1>5, <1>6, <2>3
<1>9. CASE Bit(x[k], w) = 0
  <2>1. k \notin ones(x) /\ ones(y) = ones(x) \cup {k}
    BY <1>3, <1>4, <1>7, <1>9
  <2>2. Cardinality(ones(x) \cup {k}) = Cardinality(ones(x)) + 1
    <3> HIDE DEF ones
    <3> QED BY <1>5, <2>1, FS_AddElement
  <2>3. Cardinality(ones(y)) = Cardinality(ones(x)) + 1
    BY <2>1, <2>2
  <2> HIDE DEF ones
  <2> QED BY <1>5, <1>6, <2>3
<1> QED BY <1>4, <1>8, <1>9

-----------------------------------------------------------------------------
(* The inductive invariant: where each request can be, by what the driver  *)
(* waits for.                                                              *)

Says(lines, text) == Len(lines) = 1 /\ lines = <<lines[1]>> /\ lines[1].text = text
Kept(lost)        == \A b \in Blocks \ lost : datafile[b] = sent[b]

StateOK ==
    /\ pc \in {"banner", "listen", "ack", "serve", "body", "gone"}
    /\ block \in Blocks
    /\ datafile \in [Blocks -> Images] /\ sent \in [Blocks -> Images]
    /\ driver \in [state : {"asking", "ready", "reading", "writing", "written"}, block : Blocks]
    /\ risk \in SUBSET Blocks
    /\ ending \in {"crlf", "lf"}

\* First contact: only banners come back.
Contacting ==
    \/ /\ pc \in {"banner", "listen", "gone"}
       /\ outfile \in Seq({Line("banner", 0, <<>>)})
       /\ \/ infile = <<>>
          \/ pc = "listen" /\ Says(infile, "noise")
          \/ pc = "listen" /\ Says(infile, "question") /\ outfile = <<>>
    \/ pc = "ack" /\ infile = <<>> /\ outfile = <<>>

\* Contact again: what a driver that was restarted left behind is drained, and
\* a write among it is one of the risk.
Draining ==
    \/ /\ pc = "serve" /\ outfile = <<>>
       /\ \/ infile = <<>> \/ Says(infile, "question") \/ Says(infile, "end")
          \/ Says(infile, "R") /\ infile[1].block \in Blocks
          \/ Says(infile, "W") /\ infile[1].block \in risk
          \/ /\ Len(infile) = 2 /\ infile = <<infile[1], infile[2]>>
             /\ infile[1].text = "W" /\ infile[1].block \in risk
             /\ infile[2].text = "hex" /\ Unhex(infile[2].hex) \in Images
    \/ pc = "serve" /\ infile = <<>>
       /\ (Says(outfile, "ack") \/ Says(outfile, "data") \/ Says(outfile, "sum"))
    \/ pc = "serve" /\ Says(infile, "end") /\ Says(outfile, "sum")
    \/ /\ pc = "body" /\ block \in risk /\ outfile = <<>>
       /\ \/ infile = <<>> \/ Says(infile, "question")
          \/ Says(infile, "hex") /\ Unhex(infile[1].hex) \in Images

ReadyInv ==
    pc = "serve" /\ outfile = <<>> /\ (infile = <<>> \/ Says(infile, "end"))

ReadingInv ==
    /\ pc = "serve"
    /\ \/ infile = <<Line("R", driver.block, <<>>)>> /\ outfile = <<>>
       \/ /\ infile = <<>>
          /\ outfile = <<Line("data", chksum(datafile[driver.block]), Hex(datafile[driver.block]))>>

WritingInv ==
    /\ outfile = <<>>
    /\ \/ pc = "serve" /\ infile = <<Line("W", driver.block, <<>>)>>
       \/ pc = "body" /\ block = driver.block /\ infile = <<>>

\* The block is on its way, damaged in a character at most, or it is written and
\* its checksum comes back.
WrittenInv ==
    LET b == driver.block IN
    /\ b \notin risk
    /\ \/ /\ pc = "serve" /\ outfile = <<>> /\ Len(infile) = 2
          /\ infile = <<Line("W", b, <<>>), Line("hex", 0, infile[2].hex)>>
          /\ Almost(Unhex(infile[2].hex), sent[b])
       \/ /\ pc = "body" /\ block = b /\ outfile = <<>> /\ Len(infile) = 1
          /\ infile = <<Line("hex", 0, infile[1].hex)>>
          /\ Almost(Unhex(infile[1].hex), sent[b])
       \/ /\ pc = "serve" /\ (infile = <<>> \/ Says(infile, "end"))
          /\ outfile = <<Line("sum", chksum(datafile[b]), <<>>)>>
          /\ Almost(datafile[b], sent[b])

DaemonInv ==
    /\ StateOK
    /\ Kept(IF driver.state = "written" THEN risk \cup {driver.block} ELSE risk)
    /\ driver.state = "asking"  => Contacting \/ Draining
    /\ driver.state = "ready"   => ReadyInv
    /\ driver.state = "reading" => ReadingInv
    /\ driver.state = "writing" => WritingInv
    /\ driver.state = "written" => WrittenInv

-----------------------------------------------------------------------------
(* The steps.                                                              *)

\* Sequences of one line and of two.
LEMMA LineFacts ==
  \A x, y : /\ Len(<<x>>) = 1 /\ <<x>>[1] = x /\ Head(<<x>>) = x /\ Tail(<<x>>) = <<>>
            /\ <<x>> # <<>> /\ Append(<<>>, x) = <<x>> /\ <<x>> \o <<>> = <<x>>
            /\ Append(<<x>>, y) = <<x, y>> /\ <<x, y>> # <<>>
            /\ Len(<<x, y>>) = 2 /\ <<x, y>>[1] = x /\ <<x, y>>[2] = y
            /\ Head(<<x, y>>) = x /\ Tail(<<x, y>>) = <<y>>
            /\ Len(<<>>) = 0
<1> SUFFICES ASSUME NEW x, NEW y
             PROVE  /\ Len(<<x>>) = 1 /\ <<x>>[1] = x /\ Head(<<x>>) = x /\ Tail(<<x>>) = <<>>
                    /\ <<x>> # <<>> /\ Append(<<>>, x) = <<x>> /\ <<x>> \o <<>> = <<x>>
                    /\ Append(<<x>>, y) = <<x, y>> /\ <<x, y>> # <<>>
                    /\ Len(<<x, y>>) = 2 /\ <<x, y>>[1] = x /\ <<x, y>>[2] = y
                    /\ Head(<<x, y>>) = x /\ Tail(<<x, y>>) = <<y>>
                    /\ Len(<<>>) = 0
  OBVIOUS
<1> DEFINE S == {x, y}
<1>1. <<x>> \in Seq(S) /\ <<y>> \in Seq(S) /\ <<x, y>> \in Seq(S) /\ <<>> \in Seq(S)
  OBVIOUS
<1>2. /\ Len(<<x>>) = 1 /\ <<x>>[1] = x /\ Len(<<y>>) = 1 /\ <<y>>[1] = y /\ Len(<<>>) = 0
      /\ Len(<<x, y>>) = 2 /\ <<x, y>>[1] = x /\ <<x, y>>[2] = y
  OBVIOUS
<1>3. <<x>> # <<>> /\ <<x, y>> # <<>> /\ Head(<<x>>) = x /\ Head(<<x, y>>) = x
  OBVIOUS
<1>4. <<x>> \o <<>> = <<x>>
  BY <1>1, ConcatEmptySeq
<1>5. Tail(<<x>>) = <<>>
  <2>1. Tail(<<x>>) \in Seq(S) /\ Len(Tail(<<x>>)) = 0
    BY <1>1, <1>2, <1>3, HeadTailProperties
  <2> QED BY <2>1, EmptySeq
<1>6. Tail(<<x, y>>) = <<y>>
  <2>1. /\ Tail(<<x, y>>) \in Seq(S) /\ Len(Tail(<<x, y>>)) = 1
        /\ Tail(<<x, y>>)[1] = y
    BY <1>1, <1>2, <1>3, HeadTailProperties
  <2>2. \A i \in 1 .. Len(Tail(<<x, y>>)) : Tail(<<x, y>>)[i] = <<y>>[i]
    BY <1>2, <2>1
  <2> HIDE DEF S
  <2> QED BY <1>1, <1>2, <2>1, <2>2, SeqEqual
<1>7. Append(<<>>, x) = <<x>>
  <2>1. Append(<<>>, x) \in Seq(S) /\ Len(Append(<<>>, x)) = 1 /\ Append(<<>>, x)[1] = x
    BY <1>1, <1>2
  <2>2. \A i \in 1 .. Len(Append(<<>>, x)) : Append(<<>>, x)[i] = <<x>>[i]
    BY <1>2, <2>1
  <2> HIDE DEF S
  <2> QED BY <1>1, <1>2, <2>1, <2>2, SeqEqual
<1>8. Append(<<x>>, y) = <<x, y>>
  <2>1. /\ Append(<<x>>, y) \in Seq(S) /\ Len(Append(<<x>>, y)) = 2
        /\ Append(<<x>>, y)[1] = x /\ Append(<<x>>, y)[2] = y
    BY <1>1, <1>2
  <2>2. \A i \in 1 .. Len(Append(<<x>>, y)) : Append(<<x>>, y)[i] = <<x, y>>[i]
    BY <1>2, <2>1
  <2> HIDE DEF S
  <2> QED BY <1>1, <1>2, <2>1, <2>2, SeqEqual
<1> QED BY <1>2, <1>3, <1>4, <1>5, <1>6, <1>7, <1>8

\* A line and its parts.
LEMMA LineParts ==
  \A t, b, h : Line(t, b, h).text = t /\ Line(t, b, h).block = b /\ Line(t, b, h).hex = h
  BY DEF Line

\* What the driver waits for.
LEMMA DriverParts ==
  ASSUME StateOK
  PROVE  /\ driver.state \in {"asking", "ready", "reading", "writing", "written"}
         /\ driver.block \in Blocks /\ 0 \in Blocks
         /\ \A st, b : Driver(st, b).state = st /\ Driver(st, b).block = b
         /\ driver = Driver(driver.state, driver.block)
  BY DaemonAssumption DEF StateOK, Driver, Blocks

\* First contact: the daemon answers every line that is not the question with a
\* banner.
LEMMA ContactStep ==
  ASSUME DaemonInv, Banner \/ Listen \/ Acknowledge
  PROVE  DaemonInv'
<1>1. StateOK /\ pc \in {"banner", "listen", "ack"}
      /\ UNCHANGED <<block, datafile, ending, driver, sent, risk>>
  BY DEF DaemonInv, Banner, Listen, Acknowledge
<1>2. driver.state = "asking"
  <2>1. driver.state \notin {"ready", "reading", "writing", "written"}
    BY <1>1 DEF DaemonInv, ReadyInv, ReadingInv, WritingInv, WrittenInv
  <2> QED BY <1>1, <2>1, DriverParts
<1>3. Contacting
  BY <1>1, <1>2 DEF DaemonInv, Draining
<1>4. Kept(risk)' /\ driver'.state = "asking"
  BY <1>1, <1>2 DEF DaemonInv, Kept
<1>5. CASE Banner
  <2>1. pc = "banner" /\ pc' = "listen" /\ infile' = infile
        /\ outfile' = Append(outfile, Line("banner", 0, <<>>))
    BY <1>5 DEF Banner
  <2>2. infile = <<>> /\ outfile \in Seq({Line("banner", 0, <<>>)})
    BY <1>3, <2>1 DEF Contacting
  <2>3. outfile' \in Seq({Line("banner", 0, <<>>)})
    BY <2>1, <2>2
  <2>4. Contacting'
    BY <2>1, <2>2, <2>3 DEF Contacting
  <2> QED BY <1>1, <1>4, <2>1, <2>4 DEF DaemonInv, StateOK
<1>6. CASE Listen
  <2>1. /\ pc = "listen" /\ infile # <<>> /\ infile' = Tail(infile) /\ outfile' = outfile
        /\ pc' \in {"ack", "banner", "gone"}
        /\ pc' = "ack" <=> Head(infile).text = "question"
    BY <1>6 DEF Listen, Question
  <2>2. /\ outfile \in Seq({Line("banner", 0, <<>>)})
        /\ Says(infile, "noise") \/ (Says(infile, "question") /\ outfile = <<>>)
    BY <1>3, <2>1 DEF Contacting
  <2>3. infile' = <<>> /\ Head(infile) = infile[1]
    BY <2>1, <2>2, LineFacts DEF Says
  <2>4. Contacting'
    BY <2>1, <2>2, <2>3 DEF Contacting, Says
  <2> QED BY <1>1, <1>4, <2>1, <2>4 DEF DaemonInv, StateOK
<1>7. CASE Acknowledge
  <2>1. pc = "ack" /\ pc' = "serve" /\ infile' = infile
        /\ outfile' = Append(outfile, Line("ack", 0, <<>>))
    BY <1>7 DEF Acknowledge
  <2>2. infile = <<>> /\ outfile = <<>>
    BY <1>3, <2>1 DEF Contacting
  <2>3. Says(outfile, "ack")'
    BY <2>1, <2>2, LineFacts, LineParts DEF Says
  <2>4. Draining'
    BY <2>1, <2>2, <2>3 DEF Draining
  <2> QED BY <1>1, <1>4, <2>1, <2>4 DEF DaemonInv, StateOK
<1> QED BY <1>5, <1>6, <1>7

\* The loop takes one line.
LEMMA ServeStep ==
  ASSUME DaemonInv, Serve
  PROVE  DaemonInv'
<1> DEFINE line == Head(infile)
<1>1. /\ StateOK /\ pc = "serve" /\ infile # <<>> /\ infile' = Tail(infile)
      /\ pc' = IF line.text = "W" THEN "body" ELSE "serve"
      /\ block' = IF line.text = "W" THEN line.block ELSE block
      /\ line.text = "R" => outfile' = Append(outfile, Line("data", chksum(datafile[line.block]),
                                                            Hex(datafile[line.block])))
      /\ line.text = "question" => outfile' = outfile
                                   \/ outfile' = Append(outfile, Line("ack", 0, <<>>))
      /\ line.text \notin {"R", "question"} => outfile' = outfile
      /\ UNCHANGED <<datafile, ending, driver, sent, risk>>
  BY DEF DaemonInv, Serve, Question
<1>2. Kept(IF driver.state = "written" THEN risk \cup {driver.block} ELSE risk)'
  BY <1>1 DEF DaemonInv, Kept
<1>3. driver.block \in Blocks
  BY <1>1, DriverParts
<1>4. pc' \in {"serve", "body"}
  BY <1>1
<1>5. SUFFICES /\ block' \in Blocks
               /\ driver.state = "asking"  => Contacting' \/ Draining'
               /\ driver.state = "ready"   => ReadyInv'
               /\ driver.state = "reading" => ReadingInv'
               /\ driver.state = "writing" => WritingInv'
               /\ driver.state = "written" => WrittenInv'
  BY <1>1, <1>2, <1>4 DEF DaemonInv, StateOK
<1>6. CASE driver.state = "asking"
  <2>1. Draining
    BY <1>1, <1>6 DEF DaemonInv, Contacting
  <2>2. \/ outfile = <<>> /\ Says(infile, "question")
        \/ outfile = <<>> /\ Says(infile, "end")
        \/ outfile = <<>> /\ Says(infile, "R")
        \/ outfile = <<>> /\ Says(infile, "W") /\ infile[1].block \in risk
        \/ /\ outfile = <<>> /\ infile = <<infile[1], infile[2]>>
           /\ infile[1].text = "W" /\ infile[1].block \in risk
           /\ infile[2].text = "hex" /\ Unhex(infile[2].hex) \in Images
        \/ Says(infile, "end") /\ Says(outfile, "sum")
    BY <1>1, <2>1 DEF Draining
  <2>3. risk \subseteq Blocks /\ risk' = risk
    BY <1>1 DEF StateOK
  <2>4. CASE outfile = <<>> /\ Says(infile, "question")
    <3>1. line = infile[1] /\ infile' = <<>> /\ line.text = "question"
      BY <1>1, <2>4, LineFacts DEF Says
    <3>2. outfile' = <<>> \/ Says(outfile', "ack")
      BY <1>1, <2>4, <3>1, LineFacts, LineParts DEF Says
    <3>3. Draining'
      BY <1>1, <3>1, <3>2 DEF Draining
    <3> QED BY <1>1, <1>6, <3>1, <3>3 DEF StateOK
  <2>5. CASE outfile = <<>> /\ Says(infile, "end")
    <3>1. line = infile[1] /\ infile' = <<>> /\ line.text = "end"
      BY <1>1, <2>5, LineFacts DEF Says
    <3>2. Draining'
      BY <1>1, <2>5, <3>1 DEF Draining
    <3> QED BY <1>1, <1>6, <3>1, <3>2 DEF StateOK
  <2>6. CASE outfile = <<>> /\ Says(infile, "R")
    <3>1. line = infile[1] /\ infile' = <<>> /\ line.text = "R"
      BY <1>1, <2>6, LineFacts DEF Says
    <3>2. Says(outfile', "data")
      BY <1>1, <2>6, <3>1, LineFacts, LineParts DEF Says
    <3>3. Draining'
      BY <1>1, <3>1, <3>2 DEF Draining
    <3> QED BY <1>1, <1>6, <3>1, <3>3 DEF StateOK
  <2>7. CASE outfile = <<>> /\ Says(infile, "W") /\ infile[1].block \in risk
    <3>1. line = infile[1] /\ infile' = <<>> /\ line.text = "W"
      BY <1>1, <2>7, LineFacts DEF Says
    <3>2. Draining'
      BY <1>1, <2>7, <2>3, <3>1 DEF Draining
    <3> QED BY <1>1, <1>6, <2>3, <2>7, <3>1, <3>2
  <2>8. CASE /\ outfile = <<>> /\ infile = <<infile[1], infile[2]>>
             /\ infile[1].text = "W" /\ infile[1].block \in risk
             /\ infile[2].text = "hex" /\ Unhex(infile[2].hex) \in Images
    <3>0. PICK w, x : /\ infile = <<w, x>> /\ w = infile[1] /\ x = infile[2]
                      /\ w.text = "W" /\ w.block \in risk
                      /\ x.text = "hex" /\ Unhex(x.hex) \in Images
      BY <2>8
    <3>1. line = w /\ infile' = <<x>> /\ line.text = "W"
      BY <1>1, <3>0, LineFacts
    <3>2. infile'[1] = x /\ Says(infile', "hex")
      BY <3>0, <3>1, LineFacts DEF Says
    <3>3. Draining'
      BY <1>1, <2>8, <2>3, <3>0, <3>1, <3>2 DEF Draining
    <3> QED BY <1>1, <1>6, <2>3, <3>0, <3>1, <3>3
  <2>9. CASE Says(infile, "end") /\ Says(outfile, "sum")
    <3>1. line = infile[1] /\ infile' = <<>> /\ line.text = "end"
      BY <1>1, <2>9, LineFacts DEF Says
    <3>2. Draining'
      BY <1>1, <2>9, <3>1 DEF Draining
    <3> QED BY <1>1, <1>6, <3>1, <3>2 DEF StateOK
  <2> QED BY <2>2, <2>4, <2>5, <2>6, <2>7, <2>8, <2>9
<1>7. CASE driver.state = "ready"
  <2>1. outfile = <<>> /\ Says(infile, "end")
    BY <1>1, <1>7 DEF DaemonInv, ReadyInv
  <2>2. line = infile[1] /\ infile' = <<>> /\ line.text = "end"
    BY <1>1, <2>1, LineFacts DEF Says
  <2>3. ReadyInv'
    BY <1>1, <2>1, <2>2 DEF ReadyInv
  <2> QED BY <1>1, <1>7, <2>2, <2>3 DEF StateOK
<1>8. CASE driver.state = "reading"
  <2>1. infile = <<Line("R", driver.block, <<>>)>> /\ outfile = <<>>
    BY <1>1, <1>8 DEF DaemonInv, ReadingInv
  <2>2. line = Line("R", driver.block, <<>>) /\ infile' = <<>>
    BY <1>1, <2>1, LineFacts
  <2>3. line.text = "R" /\ line.block = driver.block
    BY <2>2, LineParts
  <2>4. outfile' = <<Line("data", chksum(datafile[driver.block]), Hex(datafile[driver.block]))>>
    BY <1>1, <2>1, <2>3, LineFacts
  <2>5. ReadingInv'
    BY <1>1, <2>2, <2>3, <2>4 DEF ReadingInv
  <2> QED BY <1>1, <1>8, <2>3, <2>5 DEF StateOK
<1>9. CASE driver.state = "writing"
  <2>1. infile = <<Line("W", driver.block, <<>>)>> /\ outfile = <<>>
    BY <1>1, <1>9 DEF DaemonInv, WritingInv
  <2>2. line = Line("W", driver.block, <<>>) /\ infile' = <<>>
    BY <1>1, <2>1, LineFacts
  <2>3. line.text = "W" /\ line.block = driver.block
    BY <2>2, LineParts
  <2>4. WritingInv'
    BY <1>1, <2>1, <2>2, <2>3 DEF WritingInv
  <2> QED BY <1>1, <1>3, <1>9, <2>3, <2>4
<1>10. CASE driver.state = "written"
  <2> DEFINE b == driver.block
  <2>1. /\ b \notin risk
        /\ \/ /\ outfile = <<>>
              /\ infile = <<Line("W", b, <<>>), Line("hex", 0, infile[2].hex)>>
              /\ Almost(Unhex(infile[2].hex), sent[b])
           \/ /\ Says(infile, "end")
              /\ outfile = <<Line("sum", chksum(datafile[b]), <<>>)>>
              /\ Almost(datafile[b], sent[b])
    BY <1>1, <1>10 DEF DaemonInv, WrittenInv
  <2>2. CASE /\ outfile = <<>>
             /\ infile = <<Line("W", b, <<>>), Line("hex", 0, infile[2].hex)>>
             /\ Almost(Unhex(infile[2].hex), sent[b])
    <3>0. PICK w, x, h : /\ infile = <<w, x>> /\ w = Line("W", b, <<>>)
                         /\ x = Line("hex", 0, h) /\ h = infile[2].hex
      BY <2>2
    <3>1. line = w /\ w = Line("W", b, <<>>) /\ infile' = <<x>>
      BY <1>1, <3>0, LineFacts
    <3>2. line.text = "W" /\ line.block = b
      BY <3>1, LineParts
    <3>3. Len(infile') = 1 /\ infile'[1] = x /\ infile'[1].hex = h
      <4>1. x.hex = h
        BY <3>0, LineParts
      <4> QED BY <3>1, <4>1, LineFacts
    <3>4. pc' = "body" /\ block' = b /\ outfile' = <<>>
      BY <1>1, <2>2, <3>2
    <3>5. infile' = <<Line("hex", 0, infile'[1].hex)>>
      BY <3>0, <3>1, <3>3
    <3>6. Almost(Unhex(infile'[1].hex), sent'[b])
      BY <1>1, <2>2, <3>0, <3>3
    <3>7. WrittenInv'
      BY <1>1, <2>1, <3>3, <3>4, <3>5, <3>6 DEF WrittenInv
    <3> QED BY <1>3, <1>10, <3>4, <3>7
  <2>3. CASE /\ Says(infile, "end")
             /\ outfile = <<Line("sum", chksum(datafile[b]), <<>>)>>
             /\ Almost(datafile[b], sent[b])
    <3>1. line = infile[1] /\ infile' = <<>> /\ line.text = "end"
      BY <1>1, <2>3, LineFacts DEF Says
    <3>2. WrittenInv'
      BY <1>1, <2>1, <2>3, <3>1 DEF WrittenInv
    <3> QED BY <1>1, <1>10, <3>1, <3>2 DEF StateOK
  <2> QED BY <2>1, <2>2, <2>3
<1> QED BY <1>1, <1>6, <1>7, <1>8, <1>9, <1>10, DriverParts

\* The line after W is stored, and its checksum answered.
LEMMA WriteStep ==
  ASSUME DaemonInv, writeBlockRequest
  PROVE  DaemonInv'
<1> DEFINE line == Head(infile)
<1>1. /\ StateOK /\ pc = "body" /\ infile # <<>> /\ pc' = "serve"
      /\ UNCHANGED <<block, ending, driver, sent, risk>>
  BY DEF DaemonInv, writeBlockRequest
<1>2. PICK bytes \in IF line.text = "hex" THEN {Unhex(line.hex)} ELSE Contents \cup {Zeroes} :
           /\ datafile' = [datafile EXCEPT ![block] = bytes]
           /\ outfile' = Append(outfile, Line("sum", chksum(bytes), <<>>))
  BY DEF writeBlockRequest
<1>3. infile' = IF line.text = "hex" THEN <<Line("end", 0, <<>>)>> \o Tail(infile)
                ELSE Tail(infile)
  BY DEF writeBlockRequest
<1>4. block \in Blocks /\ driver.block \in Blocks /\ datafile \in [Blocks -> Images]
  BY <1>1, DriverParts DEF StateOK
<1>5. Contents \cup {Zeroes} \subseteq Images
  <2>1. 0 \in Bytes
    BY DEF Bytes
  <2>2. Zeroes \in Images
    BY <2>1 DEF Images, Zeroes
  <2> QED BY <2>2, DaemonAssumption DEF Images
<1>9. Tail(infile) = <<>> => IF line.text = "hex" THEN Says(infile', "end") ELSE infile' = <<>>
  <2> SUFFICES ASSUME Tail(infile) = <<>>
               PROVE  IF line.text = "hex" THEN Says(infile', "end") ELSE infile' = <<>>
    OBVIOUS
  <2>1. PICK e : e = Line("end", 0, <<>>)
    OBVIOUS
  <2>2. e.text = "end"
    BY <2>1, LineParts
  <2>3. CASE line.text = "hex"
    <3>1. infile' = <<e>> \o <<>>
      BY <1>3, <2>1, <2>3
    <3>2. infile' = <<e>>
      BY <3>1, LineFacts
    <3> QED BY <2>2, <2>3, <3>2, LineFacts DEF Says
  <2>4. CASE line.text # "hex"
    BY <1>3, <2>4
  <2> QED BY <2>3, <2>4
<1>6. CASE driver.state = "asking"
  <2>1. Draining
    BY <1>1, <1>6 DEF DaemonInv, Contacting
  <2>2. /\ block \in risk /\ outfile = <<>> /\ infile = <<infile[1]>> /\ line = infile[1]
        /\ line.text = "question" \/ (line.text = "hex" /\ Unhex(line.hex) \in Images)
    BY <1>1, <2>1, LineFacts DEF Draining, Says
  <2>3. bytes \in Images
    BY <1>2, <1>5, <2>2
  <2>4. Says(outfile', "sum")
    BY <1>2, <2>2, LineFacts, LineParts DEF Says
  <2>5. Tail(infile) = <<>>
    BY <2>2, LineFacts
  <2>6. infile' = <<>> \/ Says(infile', "end")
    BY <1>9, <2>5
  <2>7. Draining'
    BY <1>1, <2>4, <2>6 DEF Draining
  <2>8. Kept(risk)'
    <3>1. \A b \in Blocks \ risk : datafile'[b] = datafile[b]
      BY <1>2, <1>4, <2>2
    <3> QED BY <1>1, <1>6, <3>1 DEF DaemonInv, Kept
  <2>9. StateOK'
    BY <1>1, <1>2, <1>4, <2>3 DEF StateOK
  <2> QED BY <1>1, <1>6, <2>7, <2>8, <2>9 DEF DaemonInv
<1>7. CASE driver.state = "written"
  <2> DEFINE b == driver.block
  <2>1. /\ b \notin risk /\ block = b /\ outfile = <<>> /\ Len(infile) = 1
        /\ infile = <<Line("hex", 0, infile[1].hex)>>
        /\ Almost(Unhex(infile[1].hex), sent[b])
    BY <1>1, <1>7 DEF DaemonInv, WrittenInv
  <2>2. PICK x, h : infile = <<x>> /\ x = Line("hex", 0, h) /\ h = infile[1].hex
    BY <2>1
  <2>3. line = x /\ line.text = "hex" /\ line.hex = h /\ Tail(infile) = <<>>
    BY <2>2, LineFacts, LineParts
  <2>4. bytes = Unhex(h) /\ Almost(bytes, sent[b]) /\ bytes \in Images
    BY <1>2, <2>1, <2>2, <2>3 DEF Almost
  <2>5. datafile'[b] = bytes /\ \A c \in Blocks \ {b} : datafile'[c] = datafile[c]
    BY <1>2, <1>4, <2>1
  <2>6. outfile' = <<Line("sum", chksum(datafile'[b]), <<>>)>>
    BY <1>2, <2>1, <2>5, LineFacts
  <2>7. Says(infile', "end")
    BY <1>9, <2>3
  <2>8. WrittenInv'
    BY <1>1, <2>1, <2>4, <2>5, <2>6, <2>7 DEF WrittenInv
  <2>9. Kept(risk \cup {b})'
    BY <1>1, <1>7, <2>5 DEF DaemonInv, Kept
  <2>10. StateOK'
    BY <1>1, <1>2, <1>4, <2>4 DEF StateOK
  <2> QED BY <1>1, <1>7, <2>8, <2>9, <2>10 DEF DaemonInv
<1>8. driver.state \notin {"ready", "reading", "writing"}
  BY <1>1 DEF DaemonInv, ReadyInv, ReadingInv, WritingInv
<1> QED BY <1>1, <1>6, <1>7, <1>8, DriverParts

\* The driver and the kernel console speak.
LEMMA SendStep ==
  ASSUME DaemonInv, Noise \/ Ask \/ Read \/ Write
  PROVE  DaemonInv'
<1>1. /\ StateOK
      /\ UNCHANGED <<daemon, outfile, ending, sent, risk>>
      /\ pc' = pc /\ block' = block /\ datafile' = datafile
  BY DEF DaemonInv, Noise, Ask, Read, Write, daemon
<1>2. CASE Noise
  <2>1. pc = "listen" /\ infile = <<>> /\ infile' = Append(infile, Line("noise", 0, <<>>))
        /\ driver' = driver
    BY <1>2 DEF Noise, Send
  <2>2. driver.state = "asking"
    <3>1. driver.state \notin {"ready", "reading", "writing", "written"}
      BY <2>1 DEF DaemonInv, ReadyInv, ReadingInv, WritingInv, WrittenInv
    <3> QED BY <1>1, <3>1, DriverParts
  <2>3. Contacting
    BY <2>1, <2>2 DEF DaemonInv, Draining
  <2>4. Says(infile', "noise")
    BY <2>1, LineFacts, LineParts DEF Says
  <2>5. Contacting'
    BY <1>1, <2>1, <2>3, <2>4 DEF Contacting
  <2>6. Kept(risk)'
    BY <1>1, <2>2 DEF DaemonInv, Kept
  <2> QED BY <1>1, <2>1, <2>2, <2>5, <2>6 DEF DaemonInv, StateOK
<1>3. CASE Ask
  <2>1. /\ driver.state = "asking" /\ driver' = driver
        /\ infile = <<>> /\ outfile = <<>> /\ pc \in {"listen", "serve", "body"}
        /\ infile' = Append(infile, Line("question", 0, <<>>))
    BY <1>3 DEF Ask, Quiet, Send
  <2>2. Says(infile', "question")
    BY <2>1, LineFacts, LineParts DEF Says
  <2>3. Contacting \/ Draining
    BY <2>1 DEF DaemonInv
  <2>4. Contacting' \/ Draining'
    <3>1. CASE pc = "listen"
      <4>1. outfile \in Seq({Line("banner", 0, <<>>)})
        BY <2>3, <3>1 DEF Contacting, Draining
      <4> QED BY <1>1, <2>1, <2>2, <3>1, <4>1 DEF Contacting
    <3>2. CASE pc = "serve"
      BY <1>1, <2>1, <2>2, <3>2 DEF Draining
    <3>3. CASE pc = "body"
      <4>1. block \in risk
        BY <2>3, <3>3 DEF Contacting, Draining
      <4> QED BY <1>1, <2>1, <2>2, <3>3, <4>1 DEF Draining
    <3> QED BY <2>1, <3>1, <3>2, <3>3
  <2>5. Kept(risk)'
    BY <1>1, <2>1 DEF DaemonInv, Kept
  <2> QED BY <1>1, <2>1, <2>4, <2>5 DEF DaemonInv, StateOK
<1>4. CASE Read
  <2>1. PICK b \in Blocks : infile' = Append(infile, Line("R", b, <<>>))
                            /\ driver' = Driver("reading", b)
    BY <1>4 DEF Read, Send
  <2>2. driver.state = "ready" /\ infile = <<>> /\ outfile = <<>>
    BY <1>4 DEF Read, Quiet
  <2>3. ReadyInv /\ Kept(risk)
    BY <2>2 DEF DaemonInv
  <2>4. driver'.state = "reading" /\ driver'.block = b
    BY <2>1 DEF Driver
  <2>5. infile' = <<Line("R", b, <<>>)>>
    BY <2>1, <2>2, LineFacts
  <2>6. ReadingInv'
    BY <1>1, <2>2, <2>3, <2>4, <2>5 DEF ReadingInv, ReadyInv
  <2>7. Kept(risk)'
    BY <1>1, <2>3 DEF Kept
  <2>8. StateOK'
    BY <1>1, <2>1 DEF StateOK, Driver
  <2> QED BY <2>4, <2>6, <2>7, <2>8 DEF DaemonInv
<1>5. CASE Write
  <2>1. PICK b \in Blocks : infile' = Append(infile, Line("W", b, <<>>))
                            /\ driver' = Driver("writing", b)
    BY <1>5 DEF Write, Send
  <2>2. driver.state = "ready" /\ infile = <<>> /\ outfile = <<>>
    BY <1>5 DEF Write, Quiet
  <2>3. ReadyInv /\ Kept(risk)
    BY <2>2 DEF DaemonInv
  <2>4. driver'.state = "writing" /\ driver'.block = b
    BY <2>1 DEF Driver
  <2>5. infile' = <<Line("W", b, <<>>)>>
    BY <2>1, <2>2, LineFacts
  <2>6. WritingInv'
    BY <1>1, <2>2, <2>3, <2>4, <2>5 DEF WritingInv, ReadyInv
  <2>7. Kept(risk)'
    BY <1>1, <2>3 DEF Kept
  <2>8. StateOK'
    BY <1>1, <2>1 DEF StateOK, Driver
  <2> QED BY <2>4, <2>6, <2>7, <2>8 DEF DaemonInv
<1> QED BY <1>2, <1>3, <1>4, <1>5

\* The driver sends the block, as it is or with a character damaged.
LEMMA BodyStep ==
  ASSUME DaemonInv, WriteBody
  PROVE  DaemonInv'
<1> DEFINE b == driver.block
<1>1. /\ StateOK /\ driver.state = "writing" /\ driver' = Driver("written", b)
      /\ risk' = risk \ {b}
      /\ UNCHANGED <<pc, block, datafile, outfile, ending>>
  BY DEF DaemonInv, WriteBody, daemon
<1>2. PICK bytes \in Contents :
        /\ sent' = [sent EXCEPT ![b] = bytes]
        /\ \/ infile' = Append(infile, Line("hex", 0, Hex(bytes)))
           \/ \E i \in 1 .. 2 * BLOCKSIZE, c \in Damage :
                 infile' = Append(infile, Line("hex", 0, [Hex(bytes) EXCEPT ![i] = c]))
  BY DEF WriteBody, Send
<1>3. bytes \in Images
  BY DaemonAssumption DEF Images
<1>4. PICK h : infile' = Append(infile, Line("hex", 0, h)) /\ Almost(Unhex(h), bytes)
  <2>1. CASE infile' = Append(infile, Line("hex", 0, Hex(bytes)))
    <3>1. Unhex(Hex(bytes)) = bytes
      BY <1>3, UnhexHex
    <3>2. Almost(bytes, bytes)
      BY <1>3 DEF Almost
    <3> QED BY <2>1, <3>1, <3>2
  <2>2. ASSUME NEW i \in 1 .. 2 * BLOCKSIZE, NEW c \in Damage,
               infile' = Append(infile, Line("hex", 0, [Hex(bytes) EXCEPT ![i] = c]))
        PROVE  \E h : infile' = Append(infile, Line("hex", 0, h)) /\ Almost(Unhex(h), bytes)
    <3>1. Almost(Unhex([Hex(bytes) EXCEPT ![i] = c]), bytes)
      BY <1>3, DamageAlmost
    <3> QED BY <2>2, <3>1
  <2> QED BY <1>2, <2>1, <2>2
<1>5. b \in Blocks /\ sent \in [Blocks -> Images] /\ risk \in SUBSET Blocks
  BY <1>1, DriverParts DEF StateOK
<1>6. sent'[b] = bytes /\ (\A c \in Blocks \ {b} : sent'[c] = sent[c]) /\ sent' \in [Blocks -> Images]
  BY <1>2, <1>3, <1>5
<1>7. driver'.state = "written" /\ driver'.block = b
  BY <1>1 DEF Driver
<1>8. /\ outfile = <<>>
      /\ \/ pc = "serve" /\ infile = <<Line("W", b, <<>>)>>
         \/ pc = "body" /\ block = b /\ infile = <<>>
  BY <1>1 DEF DaemonInv, WritingInv
<1>9. WrittenInv'
  <2>1. b \notin risk' /\ outfile' = <<>>
    BY <1>1, <1>8
  <2>2. CASE pc = "serve" /\ infile = <<Line("W", b, <<>>)>>
    <3>1. infile' = <<Line("W", b, <<>>), Line("hex", 0, h)>>
      BY <1>4, <2>2, LineFacts
    <3>2. Len(infile') = 2 /\ infile'[2] = Line("hex", 0, h)
      BY <3>1, LineFacts
    <3>3. infile'[2].hex = h
      BY <3>2, LineParts
    <3> QED BY <1>1, <1>4, <1>6, <1>7, <2>1, <2>2, <3>1, <3>2, <3>3 DEF WrittenInv
  <2>3. CASE pc = "body" /\ block = b /\ infile = <<>>
    <3>1. infile' = <<Line("hex", 0, h)>>
      BY <1>4, <2>3, LineFacts
    <3>2. Len(infile') = 1 /\ infile'[1] = Line("hex", 0, h)
      BY <3>1, LineFacts
    <3>3. infile'[1].hex = h
      BY <3>2, LineParts
    <3> QED BY <1>1, <1>4, <1>6, <1>7, <2>1, <2>3, <3>1, <3>2, <3>3 DEF WrittenInv
  <2> QED BY <1>8, <2>2, <2>3
<1>10. Kept(risk \cup {driver.block})'
  <2>1. Kept(risk)
    BY <1>1 DEF DaemonInv
  <2> QED BY <1>1, <1>6, <1>7, <2>1 DEF Kept
<1>11. StateOK'
  BY <1>1, <1>5, <1>6 DEF StateOK, Driver
<1> QED BY <1>7, <1>9, <1>10, <1>11 DEF DaemonInv

\* The driver takes an answer.
LEMMA ReceiveStep ==
  ASSUME DaemonInv, Receive
  PROVE  DaemonInv'
<1> DEFINE line == Head(outfile)
           b    == driver.block
<1>1. /\ StateOK /\ outfile # <<>> /\ outfile' = Tail(outfile)
      /\ UNCHANGED <<pc, block, datafile, infile, ending, sent>>
  BY DEF DaemonInv, Receive, daemon
<1>2. /\ driver.state = "asking" =>
            driver' = (IF line.text = "ack" THEN Driver("ready", 0) ELSE driver) /\ risk' = risk
      /\ driver.state = "written" =>
            driver' = Driver("ready", 0)
            /\ risk' = IF line.block = chksum(sent[b]) THEN risk ELSE risk \cup {b}
      /\ driver.state \notin {"asking", "written"} => driver' = Driver("ready", 0) /\ risk' = risk
  BY DEF Receive
<1>3. b \in Blocks /\ 0 \in Blocks /\ risk \in SUBSET Blocks
  BY <1>1, DriverParts DEF StateOK
<1>4. StateOK'
  <2>1. driver' = Driver("ready", 0) \/ driver' = driver
    BY <1>2
  <2>2. risk' \in SUBSET Blocks
    BY <1>2, <1>3
  <2> QED BY <1>1, <1>3, <2>1, <2>2 DEF StateOK, Driver
<1>5. Driver("ready", 0).state = "ready"
  BY DEF Driver
<1>6. CASE driver.state = "asking"
  <2>1. (Contacting \/ Draining) /\ Kept(risk)
    BY <1>6 DEF DaemonInv
  <2>2. Kept(risk)'
    BY <1>1, <1>2, <1>6, <2>1 DEF Kept
  <2>3. CASE Contacting
    <3>1. outfile \in Seq({Line("banner", 0, <<>>)})
      BY <1>1, <2>3 DEF Contacting
    <3>2. outfile' \in Seq({Line("banner", 0, <<>>)}) /\ line = Line("banner", 0, <<>>)
      BY <1>1, <3>1, HeadTailProperties
    <3>3. driver' = driver
      BY <1>2, <1>6, <3>2, LineParts
    <3>4. Contacting'
      BY <1>1, <2>3, <3>2 DEF Contacting
    <3> QED BY <1>4, <1>6, <2>2, <3>3, <3>4 DEF DaemonInv
  <2>4. CASE Draining
    <3>1. /\ pc = "serve" /\ outfile = <<outfile[1]>>
          /\ \/ infile = <<>>
             \/ Says(infile, "end") /\ outfile[1].text = "sum"
      BY <1>1, <2>4 DEF Draining, Says
    <3>2. outfile' = <<>> /\ line = outfile[1]
      BY <1>1, <3>1, LineFacts
    <3>3. CASE line.text = "ack"
      <4>1. driver'.state = "ready"
        BY <1>2, <1>5, <1>6, <3>3
      <4>2. ReadyInv'
        BY <1>1, <3>1, <3>2, <3>3 DEF ReadyInv
      <4> QED BY <1>4, <2>2, <4>1, <4>2 DEF DaemonInv
    <3>4. CASE line.text # "ack"
      <4>1. driver' = driver
        BY <1>2, <1>6, <3>4
      <4>2. Draining'
        BY <1>1, <3>1, <3>2 DEF Draining
      <4> QED BY <1>4, <1>6, <2>2, <4>1, <4>2 DEF DaemonInv
    <3> QED BY <3>3, <3>4
  <2> QED BY <2>1, <2>3, <2>4
<1>7. CASE driver.state = "reading"
  <2>1. pc = "serve" /\ infile = <<>> /\ outfile = <<outfile[1]>> /\ Kept(risk)
    BY <1>1, <1>7, LineFacts DEF DaemonInv, ReadingInv
  <2>2. outfile' = <<>> /\ driver'.state = "ready" /\ risk' = risk
    BY <1>1, <1>2, <1>5, <1>7, <2>1, LineFacts
  <2>3. ReadyInv'
    BY <1>1, <2>1, <2>2 DEF ReadyInv
  <2>4. Kept(risk)'
    BY <1>1, <2>1, <2>2 DEF Kept
  <2> QED BY <1>4, <2>2, <2>3, <2>4 DEF DaemonInv
<1>8. CASE driver.state = "written"
  <2>1. /\ pc = "serve" /\ (infile = <<>> \/ Says(infile, "end"))
        /\ outfile = <<Line("sum", chksum(datafile[b]), <<>>)>>
        /\ Almost(datafile[b], sent[b])
    BY <1>1, <1>8 DEF DaemonInv, WrittenInv
  <2>2. outfile' = <<>> /\ line = Line("sum", chksum(datafile[b]), <<>>)
    BY <1>1, <2>1, LineFacts
  <2>3. line.block = chksum(datafile[b])
    BY <2>2, LineParts
  <2>4. b \notin risk' => datafile[b] = sent[b]
    <3> SUFFICES ASSUME b \notin risk' PROVE datafile[b] = sent[b]
      OBVIOUS
    <3>1. chksum(datafile[b]) = chksum(sent[b])
      BY <1>2, <1>8, <2>3
    <3> QED BY <2>1, <3>1, ChecksumTells
  <2>5. driver'.state = "ready"
    BY <1>2, <1>5, <1>8
  <2>6. Kept(risk)'
    <3>1. Kept(risk \cup {b})
      BY <1>8 DEF DaemonInv
    <3>2. \A c \in Blocks \ risk' : c = b \/ c \in Blocks \ (risk \cup {b})
      BY <1>2, <1>8
    <3> QED BY <1>1, <2>4, <3>1, <3>2 DEF Kept
  <2>7. ReadyInv'
    BY <1>1, <2>1, <2>2 DEF ReadyInv
  <2> QED BY <1>4, <2>5, <2>6, <2>7 DEF DaemonInv
<1>9. driver.state \notin {"ready", "writing"}
  BY <1>1 DEF DaemonInv, ReadyInv, WritingInv
<1> QED BY <1>1, <1>6, <1>7, <1>8, <1>9, DriverParts

\* The driver starts over; a write it leaves joins the risk.
LEMMA RestartStep ==
  ASSUME DaemonInv, Restart
  PROVE  DaemonInv'
<1> DEFINE b == driver.block
<1>1. /\ StateOK /\ driver.state # "asking" /\ driver' = Driver("asking", 0)
      /\ risk' = IF driver.state \in {"writing", "written"} THEN risk \cup {b} ELSE risk
      /\ UNCHANGED <<pc, block, datafile, infile, outfile, ending, sent>>
  BY DEF DaemonInv, Restart, daemon
<1>2. b \in Blocks /\ 0 \in Blocks /\ risk \in SUBSET Blocks
  BY <1>1, DriverParts DEF StateOK
<1>3. driver'.state = "asking"
  BY <1>1 DEF Driver
<1>4. StateOK'
  BY <1>1, <1>2 DEF StateOK, Driver
<1>5. Kept(risk)'
  <2>1. (IF driver.state = "written" THEN risk \cup {b} ELSE risk) \subseteq risk'
    BY <1>1
  <2> QED BY <1>1, <2>1 DEF DaemonInv, Kept
<1>6. Draining'
  <2>1. CASE driver.state = "ready"
    BY <1>1, <2>1 DEF DaemonInv, ReadyInv, Draining
  <2>2. CASE driver.state = "reading"
    <3>1. pc = "serve" /\ \/ Says(infile, "R") /\ infile[1].block = b /\ outfile = <<>>
                          \/ infile = <<>> /\ Says(outfile, "data")
      BY <2>2, LineFacts, LineParts DEF DaemonInv, ReadingInv, Says
    <3> QED BY <1>1, <1>2, <3>1 DEF Draining
  <2>3. CASE driver.state = "writing"
    <3>1. /\ outfile = <<>>
          /\ \/ pc = "serve" /\ Says(infile, "W") /\ infile[1].block = b
             \/ pc = "body" /\ block = b /\ infile = <<>>
      BY <2>3, LineFacts, LineParts DEF DaemonInv, WritingInv, Says
    <3>2. b \in risk'
      BY <1>1, <2>3
    <3> QED BY <1>1, <3>1, <3>2 DEF Draining
  <2>4. CASE driver.state = "written"
    <3>1. b \in risk'
      BY <1>1, <2>4
    <3>2. WrittenInv
      BY <2>4 DEF DaemonInv
    <3>3. CASE /\ pc = "serve" /\ outfile = <<>> /\ Len(infile) = 2
               /\ infile = <<Line("W", b, <<>>), Line("hex", 0, infile[2].hex)>>
               /\ Almost(Unhex(infile[2].hex), sent[b])
      <4>1. /\ infile[1] = Line("W", b, <<>>) /\ infile[2] = Line("hex", 0, infile[2].hex)
            /\ infile = <<infile[1], infile[2]>>
        <5>1. PICK h : infile = <<Line("W", b, <<>>), Line("hex", 0, h)>> /\ h = infile[2].hex
          BY <3>3
        <5> QED BY <5>1, LineFacts
      <4>2. infile[1].text = "W" /\ infile[1].block = b /\ infile[2].text = "hex"
        BY <4>1, LineParts
      <4>3. Unhex(infile[2].hex) \in Images
        BY <3>3 DEF Almost
      <4> QED BY <1>1, <3>1, <3>3, <4>1, <4>2, <4>3 DEF Draining
    <3>4. CASE /\ pc = "body" /\ block = b /\ outfile = <<>> /\ Len(infile) = 1
               /\ infile = <<Line("hex", 0, infile[1].hex)>>
               /\ Almost(Unhex(infile[1].hex), sent[b])
      <4>1. Says(infile, "hex")
        <5>1. PICK h : infile = <<Line("hex", 0, h)>> /\ h = infile[1].hex
          BY <3>4
        <5> QED BY <5>1, LineFacts, LineParts DEF Says
      <4>2. Unhex(infile[1].hex) \in Images
        BY <3>4 DEF Almost
      <4> QED BY <1>1, <3>1, <3>4, <4>1, <4>2 DEF Draining
    <3>5. CASE /\ pc = "serve" /\ (infile = <<>> \/ Says(infile, "end"))
               /\ outfile = <<Line("sum", chksum(datafile[b]), <<>>)>>
      <4>1. Says(outfile, "sum")
        BY <3>5, LineFacts, LineParts DEF Says
      <4> QED BY <1>1, <3>5, <4>1 DEF Draining
    <3> QED BY <3>2, <3>3, <3>4, <3>5 DEF WrittenInv
  <2> QED BY <1>1, <2>1, <2>2, <2>3, <2>4, DriverParts
<1> QED BY <1>3, <1>4, <1>5, <1>6 DEF DaemonInv

-----------------------------------------------------------------------------
(* The disk.                                                               *)

LEMMA InitDaemonInv ==
  ASSUME Init
  PROVE  DaemonInv
<1>1. /\ pc = "banner" /\ block = 0 /\ datafile = [b \in Blocks |-> Zeroes] /\ sent = datafile
      /\ infile = <<>> /\ outfile = <<>> /\ ending \in {"crlf", "lf"}
      /\ driver = Driver("asking", 0) /\ risk = {}
  BY DEF Init
<1>2. 0 \in Blocks /\ Zeroes \in Images
  <2>1. 0 \in Bytes
    BY DEF Bytes
  <2> QED BY <2>1, DaemonAssumption DEF Images, Zeroes, Blocks
<1>3. StateOK /\ driver.state = "asking"
  BY <1>1, <1>2 DEF StateOK, Driver
<1>4. Contacting
  BY <1>1 DEF Contacting
<1>5. Kept(risk)
  BY <1>1 DEF Kept
<1> QED BY <1>3, <1>4, <1>5 DEF DaemonInv

LEMMA NextDaemonInv ==
  ASSUME DaemonInv, [Next]_vars
  PROVE  DaemonInv'
<1>1. CASE Banner \/ Listen \/ Acknowledge
  BY <1>1, ContactStep
<1>2. CASE Serve
  BY <1>2, ServeStep
<1>3. CASE writeBlockRequest
  BY <1>3, WriteStep
<1>4. CASE Noise \/ Ask \/ Read \/ Write
  BY <1>4, SendStep
<1>5. CASE WriteBody
  BY <1>5, BodyStep
<1>6. CASE Receive
  BY <1>6, ReceiveStep
<1>7. CASE Restart
  BY <1>7, RestartStep
<1>8. CASE UNCHANGED vars
  BY <1>8 DEF vars, daemon, counts, DaemonInv, StateOK, Kept, Contacting, Draining, ReadyInv,
              ReadingInv, WritingInv, WrittenInv
<1> QED BY <1>1, <1>2, <1>3, <1>4, <1>5, <1>6, <1>7, <1>8 DEF Next, Daemon

\* The disk keeps what the driver wrote, and a block that is read is the one that
\* was written (readBlockRequest(), writeBlockRequest(), diskServer()).
LEMMA InvKeepsData ==
  ASSUME DaemonInv
  PROVE  DataKept
<1> SUFFICES ASSUME NEW b \in Blocks \ risk
             PROVE  /\ pc = "serve" /\ infile = <<>> /\ driver.state = "ready"
                          => datafile[b] = sent[b]
                    /\ driver = Driver("reading", b) /\ outfile # <<>>
                          => /\ Unhex(Head(outfile).hex) = sent[b]
                             /\ Head(outfile).block = chksum(sent[b])
  BY DEF DataKept
<1>1. driver.state # "written" => datafile[b] = sent[b]
  BY DEF DaemonInv, Kept
<1>2. ASSUME driver = Driver("reading", b), outfile # <<>>
      PROVE  Unhex(Head(outfile).hex) = sent[b] /\ Head(outfile).block = chksum(sent[b])
  <2>1. driver.state = "reading" /\ driver.block = b
    BY <1>2 DEF Driver
  <2>2. outfile = <<Line("data", chksum(sent[b]), Hex(sent[b]))>>
    BY <1>1, <1>2, <2>1 DEF DaemonInv, ReadingInv
  <2>3. Head(outfile) = Line("data", chksum(sent[b]), Hex(sent[b]))
    BY <2>2, LineFacts
  <2>4. Head(outfile).hex = Hex(sent[b]) /\ Head(outfile).block = chksum(sent[b])
    BY <2>3, LineParts
  <2>5. sent[b] \in Images
    BY DEF DaemonInv, StateOK
  <2>6. Unhex(Hex(sent[b])) = sent[b]
    BY <2>5, UnhexHex
  <2> QED BY <2>4, <2>6
<1> QED BY <1>1, <1>2

\* In every state a disk block that was written to the end, and of which the
\* driver was told the right checksum, holds what was written, and a read gives
\* it back: characters that are damaged on the line show in the checksum, and a
\* restart in the middle of a request harms the block under way at most.
THEOREM DiskKeepsData == Spec => []DataKept
<1>1. Init => DaemonInv
  BY InitDaemonInv
<1>2. DaemonInv /\ [Next]_vars => DaemonInv'
  BY NextDaemonInv
<1>3. DaemonInv => DataKept
  BY InvKeepsData
<1> QED BY <1>1, <1>2, <1>3, PTL DEF Spec
=============================================================================
