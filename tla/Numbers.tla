------------------------------ MODULE Numbers ------------------------------
(***************************************************************************)
(* Conversions of numbers: the text of snprintf() (std/snprintf.c), the    *)
(* clock of the CMOS in seconds since 1970 (kern/timer.c,                  *)
(* arch/i386/machdep_res_init.c), and sectors of a hard disk as cylinder,  *)
(* head and sector (modules/bus/isa/wdc/wdc_read.c).                       *)
(*                                                                         *)
(* Text is a sequence of character codes.                                  *)
(***************************************************************************)
EXTENDS Integers, Sequences, SequencesExt

CONSTANT IntSpan        \* values of an int, 2^32 in the code

ASSUME NumbersAssumption == IntSpan \in Nat /\ IntSpan > 0 /\ IntSpan % 2 = 0

\* The value that is left of a number in the width of an int.
AsInt(n) == ((n + (IntSpan \div 2)) % IntSpan) - (IntSpan \div 2)

Digits(n) ==
  LET from[k \in 0..IntSpan] ==
        IF k = 0 THEN <<>> ELSE Append(from[k \div 10], 48 + (k % 10))
  IN  from[n]

\* snprintf__uint2str(): the 0 is there before the first digit.
Uint2Str(n) == IF n = 0 THEN <<48>> ELSE Digits(n)

\* snprintf__int2str(): the least int has no negation, so no digits; the
\* sign takes the place of the 0.
Int2Str(n) ==
  LET size == IF n < 0 THEN AsInt(0 - n) ELSE n
      digits == IF size > 0 THEN Digits(size) ELSE <<>>
  IN  IF n < 0 THEN <<45>> \o digits
      ELSE IF digits = <<>> THEN <<48>> ELSE digits

HexDigit(d) == IF d < 10 THEN 48 + d ELSE 87 + d

Hex(n, digits) == [k \in 1..digits |-> HexDigit((n \div 16^(digits - k)) % 16)]

HexDigits == [x |-> 8, Y |-> 4, y |-> 2]

NullText == <<40, 110, 117, 108, 108, 41>>              \* "(null)"

TakesArgAlways(token) == token.conv \notin {"%", "plain"}    \* mutant

\* Takes a word from the argument list.  The code of %X is commented out, its
\* va_arg() with it: the next conversion gets the argument meant for %X.
TakesArg(token) == token.conv \in {"i", "u", "c", "s"} \cup DOMAIN HexDigits

\* What a conversion, or a plain character of the format, makes of a word: a
\* number n, which for a string is its address, and the text at that address.
\* %X and unknown letters make nothing.
TextOf(token, word) ==
  CASE token.conv = "i" -> Int2Str(AsInt(word.n))
    [] token.conv = "u" -> Uint2Str(word.n % IntSpan)
    [] token.conv = "c" -> <<word.n>>
    [] token.conv = "s" -> IF word.n = 0 THEN NullText ELSE word.text
    [] token.conv \in DOMAIN HexDigits -> Hex(word.n, HexDigits[token.conv])
    [] token.conv = "%" -> <<37>>
    [] token.conv = "plain" -> <<token.ch>>
    [] OTHER -> <<>>

\* Characters that may be stored: the last place is for the 0.
Room(len) == len - 1

\* Characters are stored one by one, and the room looked at after each; a hex
\* number stores what there is room for.
Store(len, out, chars, hex) ==
  LET one(acc, c) ==
        IF Len(acc) > Len(out.text) /\ Len(acc) >= Room(len) THEN acc ELSE Append(acc, c)
      end == Len(out.text) + Len(chars)
  IN  IF hex
      THEN [out EXCEPT !.text = SubSeq(@ \o chars, 1, Min({end, Room(len)})),
                       !.full = end >= Room(len)]
      ELSE [out EXCEPT !.text = FoldLeft(one, @, chars),
                       !.full = chars # <<>> /\ end >= Room(len)]

\* vsnprintf(): part after part until the buffer is full.  "top" is the last
\* index written to, by a character or by the 0.
Snprintf(len, fmt, args) ==
  LET Convert(out, token) ==
        IF out.full THEN out
        ELSE LET word == IF TakesArg(token) THEN args[out.arg] ELSE [n |-> 0, text |-> <<>>]
             IN  Store(len, [out EXCEPT !.arg = IF TakesArg(token) THEN @ + 1 ELSE @],
                       TextOf(token, word), token.conv \in DOMAIN HexDigits)
      out == FoldLeft(Convert, [text |-> <<>>, arg |-> 1, full |-> FALSE], fmt)
      outputlen == Min({Len(out.text), Room(len)})
  IN  [text |-> SubSeq(out.text, 1, outputlen), top |-> Max({Len(out.text) - 1, outputlen})]

-----------------------------------------------------------------------------
BcdToInt(bcd) == (10 * ((bcd % 256) \div 16)) + (bcd % 16)

MonthLength(m) == <<31, 28, 31, 30, 31, 30, 31, 31, 30, 31, 30, 31>>[m]

\* Days that a leap year adds before a month of it.
LeapBefore(year, month) == year % 4 = 0 /\ month > 2

\* time_rawtounix(): every fourth year is a leap year, 2100 as well.
RawToDays(year, month, day) ==
  (day - 1)
    + FoldLeft(LAMBDA n, y : n + 365 + (IF y % 4 = 0 THEN 1 ELSE 0), 0,
               [k \in 1..year - 1970 |-> 1969 + k])
    + FoldLeft(LAMBDA n, m : n + MonthLength(m), 0, [m \in 1..month - 1 |-> m])
    + (IF LeapBefore(year, month) THEN 1 ELSE 0)

\* machdep_res_init(): the bytes of the CMOS are BCD, the century always.
CmosDays(century, year, month, day, bcd) ==
  LET Value(b) == IF bcd THEN BcdToInt(b) ELSE b
  IN  RawToDays(Value(year) + (100 * BcdToInt(century)), Value(month), Value(day))

-----------------------------------------------------------------------------
\* wdc_whichsector()
WhichSector(abssector, disk) ==
  LET track == abssector \div disk.secpertrack
  IN  [sector |-> (abssector % disk.secpertrack) + 1,
       head |-> track % disk.nrheads,
       cyl |-> track \div disk.nrheads]
=============================================================================
