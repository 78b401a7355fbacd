----------------------------- MODULE QueryString -----------------------------
(***************************************************************************)
(* Crow's query_string (query_string.h), which the parser makes of the URL *)
(* of every request: the URL is cut into pairs and their values are        *)
(* decoded in place, and lookups walk over the pairs.                      *)
(*                                                                         *)
(* A text is a sequence of characters that ends with Nul; the hexadecimal  *)
(* digits are "1" and "7", and the letter "q" is the byte 0x71. The names  *)
(* that are looked up have no escapes.                                     *)
(***************************************************************************)
EXTENDS Naturals, Sequences, SequencesExt, FiniteSetsExt

CONSTANTS
    QueryUrls,      \* the URLs, without Nul
    QueryNames,     \* the names that are looked up
    MaxPairs        \* MAX_KEY_VALUE_PAIRS_COUNT

VARIABLES
    url,            \* the URL as it came
    text,           \* url_, which is decoded in place
    pairs,          \* key_value_pairs_: positions in text
    decoded,        \* how many of them qs_parse has decoded
    stage,          \* "splitting", "decoding", "parsed", or "overrun" where the
                    \* code reads behind the table of the pairs
    popped          \* the last pop, pop_list or pop_dict: its name, the pairs before

vars == <<url, text, pairs, decoded, stage, popped>>

Nul == "nul"
NotFound == <<"not found">>

Hex == {"1", "7"}

Byte(upper, lower) == IF upper = "7" /\ lower = "1" THEN "q" ELSE "other byte"

\* What CROW_QS_ISQSCHR is false for.
Ends == {"=", "#", "&", Nul}

Init ==
    /\ url \in QueryUrls
    /\ text = Append(url, Nul)
    /\ pairs = <<>>
    /\ decoded = 0
    /\ stage = "splitting"
    /\ popped = [by |-> "nothing", name |-> <<>>, before |-> <<>>]

-----------------------------------------------------------------------------
(* Steps on C strings; t is a text, p a position in it.                    *)

\* p + strcspn(p, stops)
Span(t, p, stops) == Min({q \in p .. Len(t) : t[q] \in stops \cup {Nul}})

\* The string at p.
StringAt(t, p) == SubSeq(t, p, Span(t, p, {}) - 1)

At(t, p) == IF p > Len(t) THEN Nul ELSE t[p]

IsEscape(t, p) == At(t, p + 1) \in Hex /\ At(t, p + 2) \in Hex

\* The characters of t that the one at p stands with.
Width(t, p) == IF t[p] = "%" THEN 3 ELSE 1

\* The character at p, as qs_decode and qs_strncmp read it.
Read(t, p) ==
    CASE t[p] = "+" -> " "
      [] t[p] = "%" -> IF IsEscape(t, p) THEN Byte(t[p + 1], t[p + 2]) ELSE Nul
      [] OTHER -> t[p]

\* qs_decode: i is where the next byte is written, j where it is read from.
RECURSIVE Decoded(_, _, _)
Decoded(t, i, j) ==
    IF t[j] \in Ends \/ Read(t, j) = Nul THEN [t EXCEPT ![i] = Nul]
    ELSE Decoded([t EXCEPT ![i] = Read(t, j)], i + 1, j + Width(t, j))

\* Faulty: a name matches every key it begins.
KeyEnds_Anywhere(t, p) == TRUE

\* The end of qs_strncmp: the key must end where the name does.
KeyEnds(t, p) == At(t, p) \in Ends

\* qs_strncmp of a name with the key at p, which is not decoded in place.
RECURSIVE SameKey(_, _, _)
SameKey(t, name, p) ==
    IF name = <<>> THEN KeyEnds(t, p)
    ELSE /\ p <= Len(t)
         /\ t[p] \notin Ends
         /\ Read(t, p) = Head(name)
         /\ SameKey(t, Tail(name), p + Width(t, p))

-----------------------------------------------------------------------------
(* qs_parse.                                                               *)

\* The first loop: the pairs begin behind the first "?" or "#" and behind each
\* "&". With more pairs than the table has room for the count becomes one more
\* than its size, and the second loop reads behind it.
Split ==
    LET begin == Span(text, 1, {"?", "#"})
        starts == {q + 1 : q \in {r \in begin .. Len(url) : r = begin \/ text[r] = "&"}}
        found == SetToSortSeq(starts, <)
    IN
    /\ stage = "splitting"
    /\ pairs' = SubSeq(found, 1, Min({Len(found), MaxPairs}))
    /\ stage' = IF found = <<>> THEN "parsed"
                ELSE IF Len(found) > MaxPairs THEN "overrun"
                ELSE "decoding"
    /\ UNCHANGED <<url, text, decoded, popped>>

\* A turn of the second loop: the value of one pair, in place.
DecodePair ==
    LET end == Span(text, pairs[decoded + 1], {"=", "&", "#"})
    IN
    /\ stage = "decoding"
    /\ decoded < Len(pairs)
    /\ text' = IF text[end] \in {"&", Nul} THEN [text EXCEPT ![end] = Nul]
               ELSE Decoded(text, end + 1, end + 1)
    /\ decoded' = decoded + 1
    /\ stage' = IF decoded' = Len(pairs) THEN "parsed" ELSE stage
    /\ UNCHANGED <<url, pairs, popped>>

-----------------------------------------------------------------------------
(* Lookups.                                                                *)

\* The value of the pair at p, as qs_k2v finds it.
ValueAt(p) ==
    LET end == Span(text, p, {"="})
    IN  StringAt(text, IF text[end] = "=" THEN end + 1 ELSE end)

\* get_list without brackets, and get, its first.
GetList(name) ==
    LET found == SelectSeq(pairs, LAMBDA p : SameKey(text, name, p))
    IN  [i \in DOMAIN found |-> ValueAt(found[i])]

Get(name) == IF GetList(name) = <<>> THEN NotFound ELSE GetList(name)[1]

\* std::unordered_map::insert leaves a key that is there as it is.
Kept(of) == Head(of)

\* qs_dict_name2kv: where the text between the first brackets of the pair at p
\* begins and ends; without brackets it is the empty text at the end.
Opened(p) == LET q == Span(text, p, {"["}) IN IF text[q] = "[" THEN q + 1 ELSE q

Closed(p) == Span(text, p, {"]"})

Braced(p) == p < Opened(p) /\ Opened(p) <= Closed(p) /\ p < Closed(p)

Braces(p) == SubSeq(text, Opened(p), Closed(p) - 1)

\* get_dict asks for the pairs that begin with the name, one by one, until one
\* is not of the form.
GetDict(name) ==
    LET those == SelectSeq(pairs, LAMBDA p : IsPrefix(name, StringAt(text, p)))
        misfit == SelectInSeq(those, LAMBDA p : ~Braced(p))
        found == IF misfit = 0 THEN those ELSE SubSeq(those, 1, misfit - 1)
        Of(key) == SelectSeq(found, LAMBDA p : Braces(p) = key)
    IN  [key \in {Braces(p) : p \in ToSet(found)} |-> ValueAt(Kept(Of(key)))]

\* The pairs without those whose text begins with the prefix.
Without(prefix) == SelectSeq(pairs, LAMBDA p : ~IsPrefix(prefix, StringAt(text, p)))

\* Faulty: the first pair is erased, whatever its name.
Erased_First(name) == 1

\* The pair pop erases: the first whose text begins with the name and "=".
Erased(name) == SelectInSeq(pairs, LAMBDA p : IsPrefix(Append(name, "="), StringAt(text, p)))

Popped(by, name, remaining) ==
    /\ stage = "parsed"
    /\ popped' = [by |-> by, name |-> name, before |-> pairs]
    /\ pairs' = remaining
    /\ UNCHANGED <<url, text, decoded, stage>>

Pop(name) ==
    Popped("pop", name, IF Get(name) # NotFound /\ Erased(name) > 0
                        THEN RemoveAt(pairs, Erased(name)) ELSE pairs)

\* pop_list; with brackets they are a part of the name.
PopList(name) ==
    Popped("pop_list", name, IF GetList(name) = <<>> THEN pairs ELSE Without(Append(name, "=")))

PopDict(name) ==
    Popped("pop_dict", name, IF DOMAIN GetDict(name) = {} THEN pairs ELSE Without(Append(name, "[")))

Next ==
    \/ Split \/ DecodePair
    \/ \E name \in QueryNames : Pop(name) \/ PopList(name) \/ PopDict(name)

Spec == Init /\ [][Next]_vars

-----------------------------------------------------------------------------
(* Properties. The reference reads each pair in the URL as it came.        *)

\* What a text stands for, up to the first escape that is none, or the first
\* character that ends a text for the code: "=" too, so that of x=1=2 the value
\* is 1, as the code has it.
RECURSIVE Meaning(_)
Meaning(u) ==
    IF u = <<>> \/ Head(u) \in Ends \/ Read(u, 1) = Nul THEN <<>>
    ELSE <<Read(u, 1)>> \o Meaning(SubSeq(u, Width(u, 1) + 1, Len(u)))

PairText(p) == SubSeq(url, p, Span(Append(url, Nul), p, {"&"}) - 1)

KeyText(p) == SubSeq(PairText(p), 1, Span(Append(PairText(p), Nul), 1, {"=", "#"}) - 1)

WholeKey(p) == \A i \in DOMAIN KeyText(p) : KeyText(p)[i] = "%" => IsEscape(KeyText(p), i)

Value(p) ==
    LET rest == SubSeq(PairText(p), Len(KeyText(p)) + 1, Len(PairText(p)))
    IN  IF rest = <<>> \/ Head(rest) = "#" THEN <<>> ELSE Meaning(Tail(rest))

\* The values of a name are those its pairs have in the URL, in their order:
\* decoding one value in place disturbs no other pair, and no key is taken for
\* a longer or a shorter one.
ListsValues ==
    stage = "parsed" /\ (\A i \in DOMAIN pairs : WholeKey(pairs[i])) =>
        \A name \in QueryNames :
            LET those == SelectSeq(pairs, LAMBDA p : Meaning(KeyText(p)) = name)
            IN  GetList(name) = [i \in DOMAIN those |-> Value(those[i])]

\* A pair that is not decoded yet is as it came: decoding shortens a value and
\* never writes behind its end.
UndecodedIntact ==
    stage = "decoding" /\ decoded < Len(pairs) =>
        LET p == pairs[decoded + 1] IN SubSeq(text, p, Len(url)) = SubSeq(url, p, Len(url))

\* get_dict gives each key in brackets the value of its first pair, if all pairs
\* that begin with the name are of the form name[key].
DictReads ==
    stage = "parsed" =>
        \A name \in QueryNames :
            LET those == SelectSeq(pairs, LAMBDA p : IsPrefix(name, PairText(p)))
                Sub(p) == SubSeq(KeyText(p), Len(name) + 2, Len(KeyText(p)) - 1)
                Of(key) == SelectSeq(those, LAMBDA p : Sub(p) = key)
                ofTheForm == \A i \in DOMAIN those :
                    LET key == KeyText(those[i])
                    IN  /\ Len(key) > Len(name) + 1 /\ key[Len(name) + 1] = "[" /\ Last(key) = "]"
                        /\ {"[", "]", "#"} \cap ToSet(Sub(those[i])) = {}
            IN  ofTheForm => GetDict(name) = [key \in {Sub(p) : p \in ToSet(those)} |-> Value(Of(key)[1])]

\* Where keys come without escapes, with values and with brackets in their order,
\* pop removes the first pair of the name, pop_list all of them and pop_dict
\* those with a bracket behind the name, and no other.
PopsItsPairs ==
    LET before == popped.before
        name == popped.name
        plain == \A p \in ToSet(before) :
                     LET key == KeyText(p)
                     IN  /\ Len(key) < Len(PairText(p)) /\ "#" \notin ToSet(PairText(p))
                         /\ Meaning(key) = key
                         /\ \A j \in DOMAIN key : key[j] = "]" => "[" \in ToSet(SubSeq(key, 1, j))
        first == SelectInSeq(before, LAMBDA p : KeyText(p) = name)
    IN  plain =>
            CASE popped.by = "nothing" -> TRUE
              [] popped.by = "pop" -> pairs = IF first = 0 THEN before ELSE RemoveAt(before, first)
              [] popped.by = "pop_list" -> pairs = SelectSeq(before, LAMBDA p : KeyText(p) # name)
              [] popped.by = "pop_dict" -> pairs = SelectSeq(before, LAMBDA p : ~IsPrefix(Append(name, "["), KeyText(p)))

\* Lookups read what the URL says, and decoding in place does not disturb it.
PairsRead == ListsValues /\ UndecodedIntact /\ DictReads
=============================================================================
