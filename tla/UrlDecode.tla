----------------------------- MODULE UrlDecode -----------------------------
(***************************************************************************)
(* HttpServerHelpers::url_decode, one turn of its loop a step, for names   *)
(* quoted by the client (urllib.parse.quote_plus) and for any other text   *)
(* a URL can have. Characters are their codes.                             *)
(***************************************************************************)
EXTENDS Integers, Sequences, SequencesExt

CONSTANTS
    NameBytes,      \* the bytes of names, with at most MaxName in a name
    MaxName,
    RawBytes,       \* the bytes of other texts, with at most MaxRaw in one
    MaxRaw,
    None

ASSUME BytesOnly == NameBytes \subseteq 0 .. 255 /\ RawBytes \subseteq 0 .. 255

ASSUME BoundsPositive == MaxName \in Nat \ {0} /\ MaxRaw \in Nat \ {0}

\* EOF is no number.
ASSUME NoneIsNoNumber == None \notin Int

VARIABLES
    name,           \* what the client has quoted, or None
    value,
    index,          \* the loop's i, from 0
    result

decodeVars == <<name, value, index, result>>

Space == 32
Percent == 37
Plus == 43
Minus == 45

HexDigits == <<48, 49, 50, 51, 52, 53, 54, 55, 56, 57, 65, 66, 67, 68, 69, 70>>

\* The codes of the hexadecimal digits, in upper and lower case.
Hex == [c \in ToSet(HexDigits) \cup 97 .. 102 |-> IF c >= 97 THEN c - 87
                                                   ELSE CHOOSE d \in 0 .. 15 : HexDigits[d + 1] = c]

\* quote_plus keeps letters, digits and _.-~ (external).
Unreserved == (48 .. 57) \cup (65 .. 90) \cup (97 .. 122) \cup {45, 46, 95, 126}

\* The text a byte is quoted as.
Quoted(c) ==
    IF c \in Unreserved THEN <<c>>
    ELSE IF c = Space THEN <<Plus>>
    ELSE <<Percent, HexDigits[c \div 16 + 1], HexDigits[(c % 16) + 1]>>

Quote(n) == FlattenSeq([k \in DOMAIN n |-> Quoted(n[k])])

Names == UNION {[1 .. k -> NameBytes] : k \in 1 .. MaxName}
Raws == UNION {[1 .. k -> RawBytes] : k \in 1 .. MaxRaw}

DecodeInit ==
    /\ \/ name \in Names /\ value = Quote(name)
       \/ name = None /\ value \in Raws
    /\ index = 0
    /\ result = <<>>

-----------------------------------------------------------------------------
len == Len(value)

\* value[k]: the terminating null behind the end, anything farther behind.
Chars(k) == IF k < len THEN {value[k + 1]} ELSE IF k = len THEN {0} ELSE 0 .. 255

\* What sscanf(buf, "%x") stores in number, which is 0 before; None for EOF.
\* Blanks are skipped, a sign is taken, and text that is no number is no EOF.
Scan(a, b) ==
    IF a = 0 \/ (a = Space /\ b \in {0, Space}) THEN None
    ELSE IF a \in DOMAIN Hex THEN IF b \in DOMAIN Hex THEN 16 * Hex[a] + Hex[b] ELSE Hex[a]
    ELSE IF b \notin DOMAIN Hex THEN 0
    ELSE IF a \in {Space, Plus} THEN Hex[b]
    ELSE IF a = Minus THEN -Hex[b]
    ELSE 0

\* Faulty: an escape at the very end is left as it is.
InRange_Short(k) == k < len - 3 \/ len < 3

\* i < len - 2, in size_t: for a text of one character the difference wraps
\* around.
InRange(k) == k < len - 2 \/ len < 2

At(c) == index < len /\ value[index + 1] = c

DecodePlus ==
    /\ At(Plus)
    /\ result' = Append(result, Space)
    /\ index' = index + 1
    /\ UNCHANGED <<name, value>>

DecodeEscape ==
    /\ At(Percent)
    /\ InRange(index)
    /\ \E a \in Chars(index + 1), b \in Chars(index + 2) :
          /\ Scan(a, b) # None
          /\ result' = Append(result, Scan(a, b) % 256)
    /\ index' = index + 3
    /\ UNCHANGED <<name, value>>

CopyPercent ==
    /\ At(Percent)
    /\ ~InRange(index) \/ \E a \in Chars(index + 1), b \in Chars(index + 2) : Scan(a, b) = None
    /\ result' = Append(result, Percent)
    /\ index' = index + 1
    /\ UNCHANGED <<name, value>>

CopyOther ==
    /\ index < len
    /\ value[index + 1] \notin {Plus, Percent}
    /\ result' = Append(result, value[index + 1])
    /\ index' = index + 1
    /\ UNCHANGED <<name, value>>

DecodeNext == DecodePlus \/ DecodeEscape \/ CopyPercent \/ CopyOther

DecodeSpec == DecodeInit /\ [][DecodeNext]_decodeVars

-----------------------------------------------------------------------------
(* Properties.                                                             *)

Returned == index >= len

\* The name a client quotes is the name the engine is asked for: different
\* names are different records.
RoundTrip == Returned /\ name # None => result = name

\* The loop ends at the end of the text, although an escape moves the index
\* by three; what lies behind the terminating null never decides what is done.
StaysInText ==
    /\ index <= len
    /\ At(Percent) /\ InRange(index) /\ index + 2 > len =>
          \A a \in Chars(index + 1), b \in Chars(index + 2) : Scan(a, b) = None

\* No name is decoded to nothing: the checks for an empty name behind the
\* decoder are for no URL that reaches the handlers.
NeverEmpty == Returned => result # <<>>

\* Names are decoded to themselves, inside of their text.
NamesDecoded == RoundTrip /\ NeverEmpty /\ StaysInText

-----------------------------------------------------------------------------
(* The inductive invariant.                                                *)

\* The text of each byte of the name is in the value, one behind the other: at[k]
\* is where that of name[k + 1] begins.
Laid(at) ==
    /\ at[0] = 0 /\ at[Len(name)] = len
    /\ \A k \in 1 .. Len(name) :
          /\ at[k - 1] + Len(Quoted(name[k])) = at[k] /\ at[k] <= len
          /\ \A j \in DOMAIN Quoted(name[k]) : value[at[k - 1] + j] = Quoted(name[k])[j]

\* The loop is at the text of the byte behind those it has decoded.
AtNextByte ==
    /\ name \in Names
    /\ Len(result) <= Len(name)
    /\ \A k \in 1 .. Len(result) : result[k] = name[k]
    /\ \E at \in [0 .. Len(name) -> 0 .. len] : Laid(at) /\ index = at[Len(result)]

DecodeInv ==
    /\ value \in Seq(Int) /\ value # <<>>
    /\ result \in Seq(Int)
    /\ index \in 0 .. len
    /\ index > 0 => result # <<>>
    /\ name # None => AtNextByte
=============================================================================
