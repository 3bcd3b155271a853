-------------------------------- MODULE Ini --------------------------------
(***************************************************************************)
(* utils/ini.c: a configuration text kept as an array of lines, each line  *)
(* with its raw data and, for sections and values, the parts of it that    *)
(* are the name and the value.  buf_get_next_line() of buf_str.c splits    *)
(* the text, num2str.h and str2num.h convert the numbers.                  *)
(*                                                                         *)
(* A text is a sequence of characters (one-letter strings).  Allocation    *)
(* failures and the spare room of a line are left out.                     *)
(***************************************************************************)
EXTENDS Integers, Sequences, SequencesExt, FiniteSetsExt, Loops

CONSTANTS
    Texts,            \* texts that may be parsed
    Sects, Names,     \* section and value names used by callers
    Vals, Numbers,    \* values and numbers used by callers
    Fold(_),          \* the lower-case form of a character
    MaxLines          \* bound on the lines of the array

VARIABLES lines,      \* ini->lines
          last        \* the last call of ini_val_set() and friends
vars == <<lines, last>>

CR == "\r"
LF == "\n"
Digits == <<"0", "1", "2", "3", "4", "5", "6", "7", "8", "9">>
NONE == -1            \* INI_OFFSET_INVALID

mem_chr(s, c) == IF \E i \in DOMAIN s: s[i] = c THEN Min({i \in DOMAIN s: s[i] = c}) ELSE 0
mem_rchr(s, c) == IF \E i \in DOMAIN s: s[i] = c THEN Max({i \in DOMAIN s: s[i] = c}) ELSE 0
mem_cmpn(a, b) == a = b
mem_cmpi(a, b) == \A i \in DOMAIN a: Fold(a[i]) = Fold(b[i])
mem_cmpin(a, b) == Len(a) = Len(b) /\ mem_cmpi(a, b)

-----------------------------------------------------------------------------
(* num2str.h, str2num.h                                                    *)

\* The digits of n, and the length the code computes for them: it counts
\* powers of ten that are smaller than n, so an exact power of ten gets one
\* place too few and its first digit lands before the buffer.
Decimal(n) ==
    While(LAMBDA s: s.n > 0, LAMBDA s: [n |-> s.n \div 10, d |-> <<Digits[(s.n % 10) + 1]>> \o s.d],
          [n |-> n \div 10, d |-> <<Digits[(n % 10) + 1]>>]).d
Places(n) == 1 + Cardinality({k \in 1..9 : n > 10 ^ k})
usize2str(n) == SubSeq(Decimal(n), Len(Decimal(n)) - Places(n) + 1, Len(Decimal(n)))
\* A minus sign has a place of its own, which the extra digit overwrites.
ssize2str(n) ==
    IF n >= 0 THEN usize2str(n)
    ELSE IF Len(Decimal(-n)) > Places(-n) THEN Decimal(-n) ELSE <<"-">> \o Decimal(-n)

\* Characters that are not digits are skipped.
ustr2usize(s) ==
    For(Len(s), LAMBDA r, i: IF s[i + 1] \in Range(Digits)
                             THEN r * 10 + mem_chr(Digits, s[i + 1]) - 1 ELSE r, 0)
\* The last of the leading signs counts.
ustr2ssize(s) ==
    LET lead == SelectInSeq(s, LAMBDA c: c \notin {"-", "+"})
        signs == IF lead = 0 THEN Len(s) ELSE lead - 1
    IN  IF signs > 0 /\ s[signs] = "-" THEN -ustr2usize(s) ELSE ustr2usize(s)

-----------------------------------------------------------------------------
(* Reading and writing the text                                            *)

\* buf_get_next_line(): the line that starts after position pos (the end of
\* the line before), past one CR and one LF.
buf_get_next_line(buf, pos, first) ==
    LET at(p, c) == p < Len(buf) /\ buf[p + 1] = c
        p1 == IF ~first /\ at(pos, CR) THEN pos + 1 ELSE pos
        p2 == IF ~first /\ at(p1, LF) THEN p1 + 1 ELSE p1
        lf == {i \in (p2 + 1)..Len(buf) : buf[i] = LF}
        end == IF lf = {} THEN Len(buf)
               ELSE LET e == Min(lf) - 1 IN IF e > p2 /\ buf[e] = CR THEN e - 1 ELSE e
    IN  [eof |-> p2 = Len(buf), from |-> p2, end |-> end]

Line(type, data, name, val) == [type |-> type, data |-> data, name |-> name, val |-> val]

\* What kind of line a line of text is.
Parsed(data) ==
    LET close == mem_rchr(data, "]")
        eq == mem_chr(data, "=")
    IN  CASE data = <<>> -> Line("empty", data, <<>>, <<>>)
          [] data # <<>> /\ data[1] \in {";", "#"} -> Line("comment", data, <<>>, <<>>)
          [] data # <<>> /\ data[1] = "[" ->
               IF close = 0 THEN Line("invalid", data, <<>>, <<>>)
               ELSE Line("section", data, SubSeq(data, 2, close - 1), <<>>)
          [] OTHER ->
               IF eq = 0 THEN Line("invalid", data, <<>>, <<>>)
               ELSE Line("value", data, SubSeq(data, 1, eq - 1), SubSeq(data, eq + 1, Len(data)))

ini_buf_parse(ls, buf) ==
    LET next(s) == buf_get_next_line(buf, s.pos, s.first)
    IN  IF buf = <<>> THEN ls
        ELSE While(LAMBDA s: ~next(s).eof,
                   LAMBDA s: [ls |-> Append(s.ls, Parsed(SubSeq(buf, next(s).from + 1, next(s).end))),
                              pos |-> next(s).end, first |-> FALSE],
                   [ls |-> ls, pos |-> 0, first |-> TRUE]).ls

ini_buf_calc_size(ls) == FoldLeft(LAMBDA n, l: n + Len(l.data) + 2, 0, ls)

\* Each line is checked against the whole buffer, not against what is left.
ini_buf_gen(ls, buf_size) ==
    LET fits == SelectInSeq(ls, LAMBDA l: Len(l.data) + 2 > buf_size)
        n == IF fits = 0 THEN Len(ls) ELSE fits - 1
    IN  [error |-> fits # 0, buf |-> FlattenSeq([i \in 1..n |-> ls[i].data \o <<CR, LF>>])]

-----------------------------------------------------------------------------
(* Looking for sections and values.  Offsets are indices of the array.     *)

ini_sect_enum(ls, off) ==
    LET s == {i \in off..Len(ls) : ls[i].type = "section"}
    IN  IF s = {} THEN NONE ELSE Min(s)
SectFind(ls, name, same(_, _)) ==
    LET s == {i \in DOMAIN ls : ls[i].type = "section" /\ same(ls[i].name, name)}
    IN  IF s = {} THEN NONE ELSE Min(s)
ini_sect_find(ls, name) == SectFind(ls, name, mem_cmpn)
ini_sect_findi(ls, name) == SectFind(ls, name, mem_cmpin)

\* The first value line at or after off, and after the section's own line,
\* before the next section.
ini_sect_val_enum(ls, sect, off) ==
    LET from == IF sect + 1 > off THEN sect + 1 ELSE off
        stop == ini_sect_enum(ls, from)
        v == {i \in from..Len(ls) : ls[i].type = "value" /\ (stop = NONE \/ i < stop)}
    IN  IF v = {} THEN NONE ELSE Min(v)
\* Both searches for a value ignore case.
ini_sect_val_findi(ls, sect, name) ==
    LET s == While(LAMBDA o: o # NONE /\ ~mem_cmpin(ls[o].name, name),
                   LAMBDA o: ini_sect_val_enum(ls, sect, o + 1),
                   ini_sect_val_enum(ls, sect, 1))
    IN  IF sect = NONE \/ name = <<>> THEN NONE ELSE s
ini_sect_val_find(ls, sect, name) == ini_sect_val_findi(ls, sect, name)

Got(ls, off) == IF off = NONE THEN [error |-> TRUE] ELSE [error |-> FALSE, val |-> ls[off].val]
ini_val_get(ls, sect, name) ==
    LET s == ini_sect_find(ls, sect)
    IN  Got(ls, IF s = NONE THEN NONE ELSE ini_sect_val_find(ls, s, name))
ini_vali_get(ls, sect, name) ==
    LET s == ini_sect_findi(ls, sect)
    IN  Got(ls, IF s = NONE THEN NONE ELSE ini_sect_val_findi(ls, s, name))
AsNumber(g, conv(_)) == IF g.error THEN g ELSE [error |-> FALSE, val |-> conv(g.val)]
ini_val_get_int(ls, sect, name) == AsNumber(ini_val_get(ls, sect, name), ustr2ssize)
ini_val_get_uint(ls, sect, name) == AsNumber(ini_val_get(ls, sect, name), ustr2usize)
ini_vali_get_int(ls, sect, name) == AsNumber(ini_vali_get(ls, sect, name), ustr2ssize)
ini_vali_get_uint(ls, sect, name) == AsNumber(ini_vali_get(ls, sect, name), ustr2usize)

-----------------------------------------------------------------------------
(* Setting a value                                                         *)

\* Mutation: a new value always goes to the end of the file.
NewPlace_EndOfFile(ls, sect) == Len(ls) + 1
\* Where a new value of a section goes: at the end of the section, before
\* its empty lines.
NewPlace(ls, sect) ==
    LET next == ini_sect_enum(ls, sect + 1)
        end == IF next = NONE THEN Len(ls) + 1 ELSE next
    IN  While(LAMBDA i: i > 1 /\ ls[i - 1].type = "empty", LAMBDA i: i - 1, end)

ini_val_set(ls, sect, name, val) ==
    LET found == ini_sect_find(ls, sect)
        ls1 == IF found # NONE THEN ls
               ELSE Append(ls, Line("section", <<"[">> \o sect \o <<"]">>, sect, <<>>))
        s == IF found # NONE THEN found ELSE Len(ls1)
        v == ini_sect_val_find(ls1, s, name)
    IN  IF v = NONE
        THEN LET p == NewPlace(ls1, s)
             IN  SubSeq(ls1, 1, p - 1) \o
                 <<Line("value", name \o <<"=">> \o val, name, val)>> \o SubSeq(ls1, p, Len(ls1))
        ELSE [ls1 EXCEPT ![v].data = ls1[v].name \o <<"=">> \o val, ![v].val = val]
ini_val_set_int(ls, sect, name, n) == ini_val_set(ls, sect, name, ssize2str(n))
ini_val_set_uint(ls, sect, name, n) == ini_val_set(ls, sect, name, usize2str(n))

-----------------------------------------------------------------------------

Init == lines = <<>> /\ last = [op |-> "create"]

Parse ==
    \E t \in Texts:
        /\ lines' = ini_buf_parse(lines, t)
        /\ Len(lines') <= MaxLines
        /\ last' = [op |-> "parse"]

Set ==
    \E s \in Sects, n \in Names, v \in Vals:
        /\ lines' = ini_val_set(lines, s, n, v)
        /\ Len(lines') <= MaxLines
        /\ last' = [op |-> "set", sect |-> s, name |-> n, val |-> v]

SetInt ==
    \E s \in Sects, n \in Names, v \in Numbers:
        /\ lines' = ini_val_set_int(lines, s, n, v)
        /\ Len(lines') <= MaxLines
        /\ last' = [op |-> "int", sect |-> s, name |-> n, num |-> v]

SetUint ==
    \E s \in Sects, n \in Names, v \in Numbers:
        /\ v >= 0
        /\ lines' = ini_val_set_uint(lines, s, n, v)
        /\ Len(lines') <= MaxLines
        /\ last' = [op |-> "uint", sect |-> s, name |-> n, num |-> v]

Next == Parse \/ Set \/ SetInt \/ SetUint
Spec == Init /\ [][Next]_vars

-----------------------------------------------------------------------------

\* The text generated from the lines, into a buffer of the size
\* ini_buf_calc_size() gives, parses back to the same lines.
RoundTrip(ls) ==
    ls # <<>> =>
        LET g == ini_buf_gen(ls, ini_buf_calc_size(ls))
        IN  ~g.error /\ Len(g.buf) = ini_buf_calc_size(ls) /\ ini_buf_parse(<<>>, g.buf) = ls

\* After ini_val_set() the value reads back, under the name in any case, and
\* every value of another name or section reads as before.
OnlyThatSet ==
    last'.op \in {"set", "int", "uint"} =>
        \A s \in Sects, n \in Names:
            IF s = last'.sect /\ mem_cmpin(n, last'.name)
            THEN last'.op = "set" => ini_val_get(lines', s, n) = [error |-> FALSE, val |-> last'.val]
            ELSE ini_val_get(lines', s, n) = ini_val_get(lines, s, n)

\* A number set reads back as the number.
NumberIsRead ==
    /\ last.op = "int" => ini_val_get_int(lines, last.sect, last.name) = [error |-> FALSE, val |-> last.num]
    /\ last.op = "uint" => ini_vali_get_uint(lines, last.sect, last.name) = [error |-> FALSE, val |-> last.num]
=============================================================================
