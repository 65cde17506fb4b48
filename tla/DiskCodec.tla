----------------------------- MODULE DiskCodec -----------------------------
(***************************************************************************)
(* Bytes on the serial line of the disk daemon                             *)
(* (src/xinu-hw9/device/disk/xinu-disk.c): two hexadecimal digits each.    *)
(* char is signed, as it is on the host the daemon runs on.                *)
(***************************************************************************)
EXTENDS Integers

Bytes == -128 .. 127

\* An int stored in a char.
char(n) == IF n % 256 > 127 THEN (n % 256) - 256 ELSE n % 256

Digits  == 48 .. 57             \* '0' to '9'
Letters == 65 .. 70             \* 'A' to 'F'

Digit(n) == IF n > 9 THEN 65 + (n - 10) ELSE 48 + n

\* Faulty: shifts a signed byte without masking it.
encode_NoMask(b) == <<Digit(b \div 16), Digit(b % 16)>>

encode(b) == <<Digit((b % 256) \div 16), Digit(b % 16)>>

Nibble(c) == IF c \in Digits THEN c - 48 ELSE char(10 + c - 65)
decode(h) == char(Nibble(h[1]) * 16 + Nibble(h[2]))
=============================================================================
