----------------------------- MODULE DigestText -----------------------------
(***************************************************************************)
(* The text of a digest, v1:sha256:<hex>: string() writes it and parse()   *)
(* reads it back, or refuses a text that was damaged on the way.           *)
(*                                                                         *)
(* A text is a sequence of symbols: ":", a tag, or a character of the hex  *)
(* part.  A text that holds a symbol where it does not belong stands for   *)
(* the corresponding string, "v1" followed by "0" for "v10".               *)
(***************************************************************************)
EXTENDS Outcome, Naturals, Sequences

CONSTANTS
  DigestSize,  \* sha256_digest_size
  Digests,     \* the digests printed: sequences of DigestSize bytes
  Symbols,     \* what a damaged text may hold
  MaxDamage    \* bound on the symbols inserted, removed or replaced

ASSUME DigestAssumption ==
  /\ DigestSize \in Nat \ {0} /\ MaxDamage \in Nat
  /\ Digests \subseteq [1..DigestSize -> 0..255]

VARIABLES
  pc,       \* what is done next
  printed,  \* the digest that was printed
  text,     \* its text, as it is
  damage,   \* how often it was damaged
  input,    \* what parse_digest has still to read
  value,    \* the bytes it has read
  error     \* the exception it threw, absent if none

digestVars == <<pc, printed, text, damage, input, value, error>>

HexDigit == <<"0", "1", "2", "3", "4", "5", "6", "7", "8", "9",
              "a", "b", "c", "d", "e", "f">>

Prefix == <<"v1", ":", "sha256", ":">>

\* The two digits of a byte.  (Variant: the low half first.)
NibblesSwapped(byte) == <<HexDigit[1 + (byte % 16)], HexDigit[1 + (byte \div 16)]>>

Nibbles(byte) == <<HexDigit[1 + (byte \div 16)], HexDigit[1 + (byte % 16)]>>

\* format_digest.  What it refuses to write no digest is: from_sha256 and parse
\* make them all.
Format(bytes) ==
  Prefix \o [i \in 1..(2 * Len(bytes)) |->
               Nibbles(bytes[(i + 1) \div 2])[IF i % 2 = 1 THEN 1 ELSE 2]]

\* hex_value; absent where it returns -1.  (Variant: an upper-case digit too.)
HexValueAnyCase(ch) == {i - 1 : i \in {j \in 1..16 : HexDigit[j] = IF ch = "A" THEN "a" ELSE ch}}

HexValue(ch) == {i - 1 : i \in {j \in 1..16 : HexDigit[j] = ch}}

-----------------------------------------------------------------------------
\* string() of a digest.
WriteText ==
  /\ pc = "idle"
  /\ pc' = "kept"
  /\ printed' \in Digests
  /\ text' = Format(printed')
  /\ UNCHANGED <<damage, input, value, error>>

\* The text is damaged while others keep it.
Damage ==
  /\ pc = "kept"
  /\ damage < MaxDamage
  /\ damage' = damage + 1
  /\ \E i \in 0..Len(text) : \E put \in {<<>>} \union {<<s>> : s \in Symbols} :
       \E cut \in 0..1 :
         text' = SubSeq(text, 1, i) \o put \o SubSeq(text, i + cut + 1, Len(text))
  /\ text' # text
  /\ UNCHANGED <<pc, printed, input, value, error>>

Goto(step) == pc' = step /\ UNCHANGED error
Throw(kind) == pc' = "failed" /\ error' = {kind}

Parse ==
  /\ pc = "kept"
  /\ Goto("version")
  /\ input' = text
  /\ UNCHANGED <<printed, text, damage, value>>

\* Up to the first separator, absent without one; and what follows it.
Tag(symbols) ==
  {SubSeq(symbols, 1, i - 1) :
     i \in {j \in DOMAIN symbols : symbols[j] = ":" /\ \A k \in 1..(j - 1) : symbols[k] # ":"}}

AfterTag(symbols, tag) == SubSeq(symbols, Len(tag) + 2, Len(symbols))

\* The version tag, then the algorithm tag.
ReadTag(step, expected, next, otherwise) ==
  /\ pc = step
  /\ \/ \E tag \in Tag(input) :
          /\ input' = AfterTag(input, tag)
          /\ \/ tag = expected /\ Goto(next)
             \/ tag # expected /\ Throw(otherwise)
     \/ Tag(input) = {} /\ Throw("invalid_digest_error") /\ UNCHANGED input
  /\ UNCHANGED <<printed, text, damage, value>>

ReadVersion == ReadTag("version", <<"v1">>, "algorithm", "invalid_digest_error")

ReadAlgorithm ==
  ReadTag("algorithm", <<"sha256">>, "length", "unsupported_digest_algorithm_error")

CheckLength ==
  /\ pc = "length"
  /\ \/ Len(input) = 2 * DigestSize /\ Goto("hex")
     \/ Len(input) # 2 * DigestSize /\ Throw("invalid_digest_error")
  /\ UNCHANGED <<printed, text, damage, input, value>>

\* One iteration of the loop over the bytes.
ReadByte ==
  /\ pc = "hex"
  /\ Len(value) < DigestSize
  /\ LET high == HexValue(input[2 * Len(value) + 1])
         low  == HexValue(input[2 * Len(value) + 2])
     IN  \/ /\ \E h \in high, l \in low : value' = Append(value, 16 * h + l)
            /\ UNCHANGED <<pc, error>>
         \/ /\ {} \in {high, low}
            /\ Throw("invalid_digest_error")
            /\ UNCHANGED value
  /\ UNCHANGED <<printed, text, damage, input>>

EndParse ==
  /\ pc = "hex"
  /\ Len(value) = DigestSize
  /\ Goto("parsed")
  /\ UNCHANGED <<printed, text, damage, input, value>>

Stopped == pc \in {"parsed", "failed"} /\ UNCHANGED digestVars

Init ==
  /\ pc = "idle"
  /\ printed = <<>>
  /\ text = <<>>
  /\ damage = 0
  /\ input = <<>>
  /\ value = <<>>
  /\ error = {}

Next ==
  \/ WriteText \/ Damage \/ Parse
  \/ ReadVersion \/ ReadAlgorithm \/ CheckLength \/ ReadByte \/ EndParse
  \/ Stopped

Spec == Init /\ [][Next]_digestVars

-----------------------------------------------------------------------------
\* A digest that was printed is read back, the same, by every undamaged text.
PrintedParsesBack ==
  damage = 0 => /\ pc # "failed"
                /\ pc = "parsed" => value = printed

\* A digest has one text: parse accepts no other spelling of the bytes it
\* returns, so that texts of digests may be compared instead of digests.
ParsedIsCanonical == pc = "parsed" => text = Format(value)

=============================================================================
