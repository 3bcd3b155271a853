------------------------------- MODULE BnConv -------------------------------
(***************************************************************************)
(* Import and export of big numbers (big_num.h, "Conversion functions"):   *)
(* bytes and hexadecimal text, the low or the high end first.  A buffer is *)
(* a sequence of bytes, or of characters: the value of a hexadecimal digit *)
(* or a larger number for any other character, which is skipped.           *)
(***************************************************************************)
EXTENDS BigNum

Exported(err, buf, size) == [err |-> err, buf |-> buf, size |-> size]
Zeros(n) == [i \in 1 .. n |-> 0]
ByteLen(count) == count * BN_DIGIT_SIZE
(* Bytes up to the highest one that is not zero. *)
Significant(bn) ==
    LET set == {k \in 0 .. ByteLen(bn.digits) - 1 : ByteAt(bn.num, k) # 0} IN
    IF set = {} THEN 0 ELSE Max(set) + 1

(* Whole digits are written, those above are left as they are. *)
ImportBytes(bn, n, F(_)) ==
    LET digits == (n + BN_DIGIT_SIZE - 1) \div BN_DIGIT_SIZE IN
    IF bn.err # "ok" THEN bn
    ELSE IF bn.count = 0 \/ n = 0 THEN Failed(bn, "EINVAL")
    ELSE IF ByteLen(bn.count) < n THEN Failed(bn, "EOVERFLOW")
    ELSE bn_update_digits__int(
         [bn EXCEPT !.num = SetBytes(bn.num, ByteLen(digits), LAMBDA k : IF k < n THEN F(k) ELSE 0)],
         digits)
bn_import_be_bin(bn, buf) == ImportBytes(bn, Len(buf), LAMBDA k : buf[Len(buf) - k])
bn_import_le_bin(bn, buf) == ImportBytes(bn, Len(buf), LAMBDA k : buf[k + 1])

(* auto: BN_EXPORT_F_AUTO_SIZE, no filling up to the size of the buffer. *)
bn_export_be_bin(bn, auto, size) ==
    LET tm == Significant(bn)
        bytes == [i \in 1 .. tm |-> ByteAt(bn.num, tm - i)]
    IN  IF size = 0 THEN Exported("EINVAL", <<>>, 0)
        ELSE IF bn.digits = 0 THEN LET n == IF auto THEN 1 ELSE size IN Exported("ok", Zeros(n), n)
        ELSE IF tm > size THEN Exported("EOVERFLOW", <<>>, IF auto THEN tm ELSE size)
        ELSE IF auto THEN Exported("ok", bytes, tm)
        ELSE Exported("ok", Zeros(size - tm) \o bytes, size)

(* A number longer than the buffer is cut when its top digit is below     *)
(* 2^(1 + missing bits).                                                   *)
bn_export_le_bin(bn, auto, size) ==
    LET len == ByteLen(bn.digits)
        miss == len - size
        Bytes(n) == [i \in 1 .. n |-> ByteAt(bn.num, i - 1)]
    IN  IF size = 0 THEN Exported("EINVAL", <<>>, 0)
        ELSE IF len > size
             THEN IF \/ miss >= BN_DIGIT_SIZE
                     \/ bn.num[bn.digits - 1] >= 2^(1 + miss * BYTE_BITS)
                  THEN Exported("EOVERFLOW", <<>>, IF auto THEN len ELSE size)
                  ELSE Exported("ok", Bytes(size), size)
        ELSE IF auto THEN Exported("ok", Bytes(len), len)
        ELSE Exported("ok", Bytes(len) \o Zeros(size - len), size)

(* Two digits make a byte; a digit left over at the end is dropped. *)
ImportHex(bn, buf, ByteOf(_, _)) ==
    LET d == SelectSeq(buf, LAMBDA c : c < Nibble)
        n == Len(d) \div 2
        b == bn_init_digits__int(bn, bn.count)
        bytes == ByteLen(bn.count)
    IN  IF bn.err # "ok" THEN bn
        ELSE IF bn.count = 0 \/ Len(buf) = 0 THEN Failed(bn, "EINVAL")
        ELSE IF bytes < Len(buf) \div 2 \/ n > bytes THEN Failed(b, "EOVERFLOW")
        ELSE bn_update([b EXCEPT !.num = SetBytes(b.num, bytes,
                                  LAMBDA k : IF k < n THEN ByteOf(d[2 * k + 1], d[2 * k + 2]) ELSE 0)])
bn_import_le_hex(bn, buf) == ImportHex(bn, buf, LAMBDA x, y : x * Nibble + y)
bn_import_be_hex(bn, buf) == ImportHex(bn, Reverse(buf), LAMBDA x, y : y * Nibble + x)

HexOf(n, Byte2(_)) == [i \in 1 .. 2 * n |-> LET b == Byte2((i - 1) \div 2) IN
                                            IF i % 2 = 1 THEN b \div Nibble ELSE b % Nibble]
Even(n) == n - (n % 2)

bn_export_le_hex(bn, auto, size) ==
    LET n == ByteLen(bn.digits)
        hex == HexOf(n, LAMBDA k : ByteAt(bn.num, k))
        pad == IF auto THEN <<>> ELSE Zeros(Even(size - 2 * n))
    IN  IF size < 2 THEN Exported("EINVAL", <<>>, 0)
        ELSE IF bn.digits = 0
             THEN LET z == IF auto THEN 2 ELSE Even(size) IN Exported("ok", Zeros(z), z)
        ELSE IF 2 * n > size THEN Exported("EOVERFLOW", <<>>, 2 * n)
        ELSE Exported("ok", hex \o pad, Len(hex \o pad))

bn_export_be_hex(bn, auto, size) ==
    LET n == Significant(bn)
        hex == HexOf(n, LAMBDA k : ByteAt(bn.num, n - 1 - k))
        pad == IF auto THEN <<>> ELSE Zeros(Even(size - 2 * n))
    IN  IF size < 2 THEN Exported("EINVAL", <<>>, 0)
        ELSE IF bn.digits = 0
             THEN LET z == IF auto THEN 2 ELSE Even(size) IN Exported("ok", Zeros(z), z)
        ELSE IF 2 * n > size THEN Exported("EOVERFLOW", <<>>, 2 * n)
        ELSE Exported("ok", pad \o hex, Len(pad \o hex))
=============================================================================
