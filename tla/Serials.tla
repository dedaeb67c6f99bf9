------------------------------- MODULE Serials -------------------------------
(***************************************************************************)
(* Serial numbers of certificates: how one is written for the log, in one     *)
(* buffer that is read and overwritten in the same loop, how a line of a      *)
(* blacklist is read, and whether a certificate's serial is on the list.      *)
(***************************************************************************)
EXTENDS Naturals, Sequences, FiniteSets

CONSTANTS
  Base,      \* digits are 0 .. Base-1, a byte is two of them
  MaxBytes,  \* longest serial that is written
  MaxLine,   \* longest line that is read
  MaxLines   \* longest list

\* There are digits; the bounds are numbers.
ASSUME SerialsAssumption == Base \in Nat \ {0} /\ MaxBytes \in Nat /\ MaxLine \in Nat

Colon  == Base
Junk   == Base + 1
Blank  == Base + 2
\* What comes out when the slice bounds are out of range.
Panic  == <<Base + 3>>
Digits == 0 .. Base - 1
ByteStrings(max) == UNION {[1 .. n -> 0 .. Base * Base - 1] : n \in 0 .. max}
Texts == UNION {[1 .. n -> Digits \cup {Colon, Junk}] : n \in 1 .. MaxLine}

\* big.Int.Bytes: the magnitude, without zeroes in front.
Magnitudes(max) == {b \in ByteStrings(max) : b = <<>> \/ b[1] # 0}

VARIABLES
  task,    \* "new", "write", "read" or "over"
  number,  \* the bytes of the serial that is written
  buf,     \* the buffer: a third for the result's head, the rest for the digits
  round,   \* turns of the loop that are over
  text,    \* what came out
  parsed,  \* the lines that were read and what came of each
  sns      \* the set
serialVars == <<task, number, buf, round, text, parsed, sns>>

SerialInit ==
  /\ task = "new" /\ number = <<>> /\ buf = <<>> /\ round = 0 /\ text = <<>>
  /\ parsed = {} /\ sns = {}

----------------------------------------------------------------------------
\* A slip: the digits start where the result does.
DigitsAtFront(n) == 0
\* Where in the buffer hex.Encode puts the digits.
DigitsAt(n) == n

StartFormat ==
  /\ task = "new" /\ task' = "write"
  /\ number' \in Magnitudes(MaxBytes)
  /\ LET n == Len(number')
         Digit(i) == IF i % 2 = 0 THEN number'[i \div 2 + 1] \div Base
                     ELSE number'[i \div 2 + 1] % Base
         from == DigitsAt(n)
     IN  buf' = [p \in 1 .. 3 * n |-> IF p \in from + 1 .. from + 2 * n
                                      THEN Digit(p - 1 - from) ELSE Blank]
  /\ UNCHANGED <<round, text, parsed, sns>>

\* buf = append(buf, x[i], x[i+1], ':'), over the buffer's own digits.
FormatTurn ==
  /\ task = "write" /\ round < Len(number)
  /\ LET from == DigitsAt(Len(number)) + 2 * round IN
     buf' = [buf EXCEPT ![3 * round + 1] = buf[from + 1],
                        ![3 * round + 2] = buf[from + 2],
                        ![3 * round + 3] = Colon]
  /\ round' = round + 1
  /\ UNCHANGED <<task, number, text, parsed, sns>>

\* The last colon is cut off; there is none when the serial is 0.
FormatEnd ==
  /\ task = "write" /\ round = Len(number) /\ task' = "over"
  /\ text' = IF buf = <<>> THEN Panic ELSE SubSeq(buf, 1, Len(buf) - 1)
  /\ UNCHANGED <<number, buf, round, parsed, sns>>

----------------------------------------------------------------------------
\* No byte string: what a bad line comes to.
Bad == <<Base * Base>>

\* The pairs a line of its length holds, the last with or without a colon.
Pairs(line) == (Len(line) + 2) \div 3
\* The pair at i is followed by a colon or by the end.
ColonAfter(line, i) == i * 3 + 2 < Len(line) => line[i * 3 + 3] = Colon

\* parseSerialBytes: pairs at every third place; one that is cut short is an
\* error, a colon at the end is not.
ParseSerial(line) ==
  LET size  == Pairs(line)
      pairs == {i \in 0 .. size - 1 : i * 3 + 1 < Len(line)}
      Good(i) == /\ {line[i * 3 + 1], line[i * 3 + 2]} \subseteq Digits
                 /\ ColonAfter(line, i)
  IN  IF Cardinality(pairs) = size /\ \A i \in pairs : Good(i)
      THEN [i \in 1 .. size |-> line[i * 3 - 2] * Base + line[i * 3 - 1]]
      ELSE Bad

CutLeadingZeroes(b) ==
  LET first == {i \in DOMAIN b : b[i] # 0 /\ \A j \in 1 .. i - 1 : b[j] = 0}
  IN  IF first = {} THEN <<>> ELSE SubSeq(b, CHOOSE i \in first : TRUE, Len(b))

\* One line of newSerialNumberSetFromReader; a bad line is reported and left.
ScanLine ==
  /\ task \in {"new", "read"} /\ task' = "read" /\ Cardinality(parsed) < MaxLines
  /\ \E line \in Texts :
       /\ parsed' = parsed \cup {<<line, ParseSerial(line)>>}
       /\ sns' = IF ParseSerial(line) = Bad THEN sns
                 ELSE sns \cup {CutLeadingZeroes(ParseSerial(line))}
  /\ UNCHANGED <<number, buf, round, text>>

Has(serial) == CutLeadingZeroes(serial) \in sns

SerialNext == StartFormat \/ FormatTurn \/ FormatEnd \/ ScanLine
SerialSpec == SerialInit /\ [][SerialNext]_serialVars

----------------------------------------------------------------------------
\* The number that bytes stand for.
Value(b) ==
  LET v[i \in 0 .. Len(b)] == IF i = 0 THEN 0 ELSE v[i - 1] * (Base * Base) + b[i]
  IN  v[Len(b)]

\* What is written is the serial's bytes, digit by digit: no turn of the loop
\* overwrites digits that a later one reads.
WritesBytes ==
  task = "over" /\ number # <<>> =>
    /\ Len(text) = 3 * Len(number) - 1
    /\ \A i \in 1 .. Len(number) :
         /\ text[3 * i - 2] = number[i] \div Base
         /\ text[3 * i - 1] = number[i] % Base
         /\ i < Len(number) => text[3 * i] = Colon

\* What is written for a serial, put on a list as it is, puts that serial on it.
ReadsWhatItWrote == task = "over" /\ number # <<>> => ParseSerial(text) = number

\* A line that was taken is pairs of digits between single colons, and a
\* certificate with a serial as long as a line is on the list exactly when a good
\* line has its serial's value, with whatever zeroes in front.
ListedByValue ==
  /\ \A l \in parsed : l[2] # Bad =>
       \A p \in DOMAIN l[1] : (l[1][p] = Colon <=> p % 3 = 0) /\ l[1][p] # Junk
  /\ task = "read" => \A serial \in Magnitudes((MaxLine + 2) \div 3) :
       Has(serial) <=> \E l \in parsed : l[2] # Bad /\ Value(l[2]) = Value(serial)

\* What is logged, listed and looked up is the same serial.
SerialsAgree == WritesBytes /\ ReadsWhatItWrote /\ ListedByValue
=============================================================================
