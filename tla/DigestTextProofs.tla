-------------------------- MODULE DigestTextProofs --------------------------
(***************************************************************************)
(* Proofs about DigestText: what was printed is read back, and a digest    *)
(* has one text.  They hold for digests of any length, any damage and any  *)
(* symbols.                                                                *)
(***************************************************************************)
EXTENDS DigestText, SequenceTheorems, TLAPS

Byte == 0..255

HexSymbol == {HexDigit[i] : i \in 1..16}

\* What may occur in a text.
Symbol == Symbols \union HexSymbol \union {"v1", ":", "sha256"}

\* The hex part of a text.
Digits(bytes) ==
  [i \in 1..(2 * Len(bytes)) |->
     Nibbles(bytes[(i + 1) \div 2])[IF i % 2 = 1 THEN 1 ELSE 2]]

TypeOK ==
  /\ pc \in {"idle", "kept", "version", "algorithm", "length", "hex", "parsed", "failed"}
  /\ pc # "idle" => printed \in Digests
  /\ text \in Seq(Symbol) /\ input \in Seq(Symbol)
  /\ value \in Seq(Byte) /\ Len(value) <= DigestSize
  /\ damage \in Nat

\* What has been read so far is a beginning of the text, and the rest is the
\* input.
ReadSoFar ==
  /\ pc \in {"idle", "kept", "version", "algorithm", "length"} => value = <<>>
  /\ pc = "version" => text = input
  /\ pc = "algorithm" => text = <<"v1", ":">> \o input
  /\ pc \in {"length", "hex", "parsed"} => text = Prefix \o input
  /\ pc \in {"hex", "parsed"} => Len(input) = 2 * DigestSize

\* A byte that was read is spelled as string() spells it.
SpelledAt(k) ==
  /\ input[2 * k - 1] = Nibbles(value[k])[1]
  /\ input[2 * k] = Nibbles(value[k])[2]

Spelled ==
  /\ pc \in {"hex", "parsed"} => \A k \in 1..Len(value) : SpelledAt(k)
  /\ pc = "parsed" => Len(value) = DigestSize

\* An undamaged text is that of the digest, and is not refused.
Undamaged ==
  damage = 0 => /\ pc # "failed"
                /\ pc # "idle" => text = Format(printed)

IInv == TypeOK /\ ReadSoFar /\ Spelled /\ Undamaged

-----------------------------------------------------------------------------
(***************************************************************************)
(* Digits and tags.                                                        *)
(***************************************************************************)

\* The digits are sixteen different characters.
LEMMA HexDistinct ==
  \A i, j \in 1..16 : HexDigit[i] = HexDigit[j] => i = j
BY DEF HexDigit

\* hex_value inverts the table of digits.
LEMMA HexValueOf ==
  ASSUME NEW n \in 0..15
  PROVE  HexValue(HexDigit[1 + n]) = {n}
<1>1. 1 + n \in 1..16 /\ (1 + n) - 1 = n
  OBVIOUS
<1>2. {j \in 1..16 : HexDigit[j] = HexDigit[1 + n]} = {1 + n}
  BY <1>1, HexDistinct
<1>3. QED
  BY <1>1, <1>2 DEF HexValue

\* And what it accepts is a digit of the table.
LEMMA HexValueIs ==
  ASSUME NEW ch, NEW n \in HexValue(ch)
  PROVE  n \in 0..15 /\ ch = HexDigit[1 + n]
<1>1. PICK i \in {j \in 1..16 : HexDigit[j] = ch} : n = i - 1
  BY DEF HexValue
<1>2. i \in 1..16 /\ 1 + n = i
  BY <1>1
<1>3. QED
  BY <1>1, <1>2

\* A byte is its two halves.
LEMMA Halves ==
  ASSUME NEW h \in 0..15, NEW l \in 0..15
  PROVE  /\ 16 * h + l \in Byte
         /\ (16 * h + l) \div 16 = h /\ (16 * h + l) % 16 = l
BY DEF Byte

\* And its halves make it.
LEMMA HalvesOf ==
  ASSUME NEW b \in Byte
  PROVE  /\ b \div 16 \in 0..15 /\ b % 16 \in 0..15
         /\ 16 * (b \div 16) + (b % 16) = b
BY DEF Byte

\* The digits of bytes, one by one.
LEMMA DigitsAre ==
  ASSUME NEW bytes \in Seq(Byte)
  PROVE  /\ Digits(bytes) \in Seq(HexSymbol)
         /\ Len(Digits(bytes)) = 2 * Len(bytes)
         /\ \A k \in 1..Len(bytes) :
              /\ Digits(bytes)[2 * k - 1] = Nibbles(bytes[k])[1]
              /\ Digits(bytes)[2 * k] = Nibbles(bytes[k])[2]
<1>1. PICK n \in Nat : n = Len(bytes)
  OBVIOUS
<1>2. ASSUME NEW k \in 1..n
      PROVE  /\ bytes[k] \in Byte
             /\ Nibbles(bytes[k])[1] \in HexSymbol
             /\ Nibbles(bytes[k])[2] \in HexSymbol
  <2>1. bytes[k] \in Byte
    BY <1>1, ElementOfSeq
  <2>2. PICK b \in Byte : b = bytes[k]
    BY <2>1
  <2>3. b \div 16 \in 0..15 /\ b % 16 \in 0..15
    BY HalvesOf
  <2>4. 1 + (b \div 16) \in 1..16 /\ 1 + (b % 16) \in 1..16
    BY <2>3
  <2>5. Nibbles(b)[1] = HexDigit[1 + (b \div 16)] /\ Nibbles(b)[2] = HexDigit[1 + (b % 16)]
    BY DEF Nibbles
  <2>6. QED
    BY <2>1, <2>2, <2>4, <2>5 DEF HexSymbol
<1>3. ASSUME NEW i \in 1..(2 * n)
      PROVE  Nibbles(bytes[(i + 1) \div 2])[IF i % 2 = 1 THEN 1 ELSE 2] \in HexSymbol
  <2>1. (i + 1) \div 2 \in 1..n
    OBVIOUS
  <2>2. QED
    BY <1>2, <2>1
<1>4. Digits(bytes) \in [1..(2 * n) -> HexSymbol]
  BY <1>1, <1>3 DEF Digits
<1>5. 2 * n \in Nat
  OBVIOUS
<1>6. Digits(bytes) \in Seq(HexSymbol)
  BY <1>4, <1>5, SeqDef
<1>7. Len(Digits(bytes)) = 2 * n
  BY <1>4, <1>6, LenProperties, SMT
<1>8. ASSUME NEW k \in 1..n
      PROVE  /\ Digits(bytes)[2 * k - 1] = Nibbles(bytes[k])[1]
             /\ Digits(bytes)[2 * k] = Nibbles(bytes[k])[2]
  <2>1. PICK odd \in 1..(2 * n) : odd = 2 * k - 1
    OBVIOUS
  <2>2. PICK even \in 1..(2 * n) : even = 2 * k
    OBVIOUS
  <2>3. (odd + 1) \div 2 = k /\ odd % 2 = 1
    BY <2>1
  <2>4. (even + 1) \div 2 = k /\ even % 2 = 0
    BY <2>2
  <2>5. Digits(bytes)[odd] = Nibbles(bytes[k])[1]
    BY <1>1, <2>3 DEF Digits
  <2>6. Digits(bytes)[even] = Nibbles(bytes[k])[2]
    BY <1>1, <2>4 DEF Digits
  <2>7. QED
    BY <2>1, <2>2, <2>5, <2>6
<1>9. QED
  BY <1>1, <1>6, <1>7, <1>8

\* A text ends with the digits.
LEMMA FormatIs == \A bytes : Format(bytes) = Prefix \o Digits(bytes)
BY DEF Format, Digits

\* The tag of a text that starts with a symbol and a separator, and the rest.
LEMMA TagOf ==
  ASSUME NEW t \in Symbol, t # ":", NEW rest \in Seq(Symbol)
  PROVE  /\ Tag(<<t, ":">> \o rest) = {<<t>>}
         /\ AfterTag(<<t, ":">> \o rest, <<t>>) = rest
<1>0. <<t, ":">> \in Seq(Symbol) /\ <<t>> \in Seq(Symbol)
  BY DEF Symbol
<1>1. PICK s \in Seq(Symbol) : s = <<t, ":">> \o rest
  BY <1>0, ConcatProperties
<1>2. /\ Len(s) = 2 + Len(rest) /\ Len(rest) \in Nat
      /\ s[1] = t /\ s[2] = ":"
      /\ \A i \in 1..Len(rest) : s[i + 2] = rest[i]
  BY <1>1
<1>3. {j \in DOMAIN s : s[j] = ":" /\ \A k \in 1..(j - 1) : s[k] # ":"} = {2}
  BY <1>2
<1>4. SubSeq(s, 1, 1) = <<t>>
  <2>1. \A i \in 1..1 : s[i] \in Symbol
    BY <1>2
  <2>2. /\ SubSeq(s, 1, 1) \in Seq(Symbol)
        /\ Len(SubSeq(s, 1, 1)) = IF 1 <= 1 THEN 1 - 1 + 1 ELSE 0
        /\ \A i \in 1..(1 - 1 + 1) : SubSeq(s, 1, 1)[i] = s[1 + i - 1]
    BY <2>1, SubSeqProperties
  <2>3. PICK one \in Seq(Symbol) : one = SubSeq(s, 1, 1)
    BY <2>2
  <2>4. Len(one) = 1 /\ one[1] = t
    BY <1>2, <2>2, <2>3
  <2>5. one = <<t>>
    BY <1>0, <2>4, SeqEqual
  <2>6. QED
    BY <2>3, <2>5
<1>5. Tag(s) = {<<t>>}
  <2>1. Tag(s) = {SubSeq(s, 1, i - 1) : i \in {2}}
    BY <1>3 DEF Tag
  <2>2. \A i \in {2} : i - 1 = 1
    OBVIOUS
  <2>3. QED
    BY <1>4, <2>1, <2>2
<1>6. SubSeq(s, 3, Len(s)) = rest
  <2>1. PICK cut \in Seq(Symbol) :
          /\ cut = SubSeq(s, 3, Len(s)) /\ Len(cut) = Len(rest)
          /\ \A i \in 1..Len(rest) : cut[i] = s[3 + i - 1]
    BY <1>2, SubSeqProperties
  <2>2. \A i \in 1..Len(rest) : cut[i] = rest[i]
    BY <1>2, <2>1
  <2>3. QED
    BY <2>1, <2>2, SeqEqual
<1>7. Len(<<t>>) + 2 = 3
  OBVIOUS
<1>8. QED
  BY <1>1, <1>5, <1>6, <1>7 DEF AfterTag

\* Conversely, a text with that tag starts so.
LEMMA TagIs ==
  ASSUME NEW s \in Seq(Symbol), NEW t \in Symbol, <<t>> \in Tag(s)
  PROVE  /\ AfterTag(s, <<t>>) \in Seq(Symbol)
         /\ s = <<t, ":">> \o AfterTag(s, <<t>>)
<1>1. PICK j \in DOMAIN s : SubSeq(s, 1, j - 1) = <<t>> /\ s[j] = ":"
  BY DEF Tag
<1>2. j \in 1..Len(s) /\ Len(s) \in Nat /\ \A i \in 1..Len(s) : s[i] \in Symbol
  BY <1>1
<1>3. j = 2 /\ s[1] = t
  <2>1. Len(SubSeq(s, 1, j - 1)) = IF 1 <= j - 1 THEN j - 1 ELSE 0
    BY <1>2, SubSeqProperties
  <2>2. j = 2
    BY <1>1, <1>2, <2>1
  <2>3. \A i \in 1..1 : s[i] \in Symbol
    BY <1>2, <2>2
  <2>4. SubSeq(s, 1, 1)[1] = s[1]
    BY <2>3, SubSeqProperties
  <2>5. j - 1 = 1
    BY <2>2
  <2>6. SubSeq(s, 1, 1) = <<t>>
    BY <1>1, <2>5
  <2>7. <<t>>[1] = t
    OBVIOUS
  <2>8. QED
    BY <2>2, <2>4, <2>6, <2>7
<1>a. PICK rest : rest = SubSeq(s, 3, Len(s))
  OBVIOUS
<1>4. /\ rest \in Seq(Symbol) /\ Len(rest) = Len(s) - 2
      /\ \A i \in 1..Len(rest) : rest[i] = s[3 + i - 1]
  <2>1. \A i \in 3..Len(s) : s[i] \in Symbol
    BY <1>2
  <2>2. PICK n \in Nat : n = Len(s) /\ n >= 2
    BY <1>2, <1>3
  <2>3. /\ SubSeq(s, 3, n) \in Seq(Symbol)
        /\ Len(SubSeq(s, 3, n)) = IF 3 <= n THEN n - 3 + 1 ELSE 0
        /\ \A i \in 1..(n - 3 + 1) : SubSeq(s, 3, n)[i] = s[3 + i - 1]
    BY <2>1, <2>2, SubSeqProperties
  <2>4. Len(rest) = n - 2
    BY <1>a, <2>2, <2>3
  <2>5. QED
    BY <1>a, <2>2, <2>3, <2>4
<1>5. <<t, ":">> \in Seq(Symbol)
  BY DEF Symbol
<1>6. PICK whole \in Seq(Symbol) : whole = <<t, ":">> \o rest
  BY <1>4, <1>5, ConcatProperties
<1>7. Len(whole) = Len(s) /\ \A i \in 1..Len(s) : whole[i] = s[i]
  BY <1>1, <1>2, <1>3, <1>4, <1>6
<1>8. whole = s
  BY <1>6, <1>7, SeqEqual
<1>9. QED
  BY <1>a, <1>4, <1>6, <1>8 DEF AfterTag

-----------------------------------------------------------------------------
(***************************************************************************)
(* The invariant.                                                          *)
(***************************************************************************)

\* Digits are symbols, and so are those of a prefix.
LEMMA FormatTyped ==
  ASSUME NEW bytes \in Seq(Byte)
  PROVE  /\ Digits(bytes) \in Seq(Symbol)
         /\ Prefix \in Seq(Symbol) /\ Len(Prefix) = 4
         /\ Format(bytes) \in Seq(Symbol)
<1>1. Digits(bytes) \in Seq(Symbol)
  BY DigitsAre, SeqMonotonic DEF Symbol
<1>2. Prefix \in Seq(Symbol) /\ Len(Prefix) = 4
  BY DEF Prefix, Symbol
<1>3. QED
  BY <1>1, <1>2, ConcatProperties, FormatIs

\* A digest is a sequence of bytes.
LEMMA DigestTyped ==
  ASSUME NEW d \in Digests
  PROVE  d \in Seq(Byte) /\ Len(d) = DigestSize
<1>1. d \in [1..DigestSize -> Byte] /\ DigestSize \in Nat
  BY DigestAssumption DEF Byte
<1>2. d \in Seq(Byte)
  BY <1>1, SeqDef
<1>3. QED
  BY <1>1, <1>2, LenProperties, SMT

\* Reading the first tag leaves the second one in front.
LEMMA PrefixSplit ==
  ASSUME NEW rest \in Seq(Symbol)
  PROVE  /\ Prefix \o rest = <<"v1", ":">> \o (<<"sha256", ":">> \o rest)
         /\ <<"sha256", ":">> \o rest \in Seq(Symbol)
<1>1. <<"v1", ":">> \in Seq(Symbol) /\ <<"sha256", ":">> \in Seq(Symbol)
  BY DEF Symbol
<1>2. Prefix = <<"v1", ":">> \o <<"sha256", ":">>
  BY DEF Prefix
<1>3. QED
  BY <1>1, <1>2, ConcatAssociative, ConcatProperties

\* What follows a prefix is unique.
LEMMA RestIs ==
  ASSUME NEW p \in Seq(Symbol), NEW s \in Seq(Symbol), NEW t \in Seq(Symbol), p \o s = p \o t
  PROVE  s = t
<1>1. /\ Len(p \o s) = Len(p) + Len(s) /\ Len(p \o t) = Len(p) + Len(t)
      /\ Len(p) \in Nat /\ Len(s) \in Nat /\ Len(t) \in Nat
  BY ConcatProperties
<1>2. Len(s) = Len(t)
  BY <1>1
<1>3. ASSUME NEW i \in 1..Len(s)
      PROVE  s[i] = t[i]
  <2>1. PICK k \in 1..(Len(p) + Len(s)) : k = Len(p) + i
    BY <1>1
  <2>2. (p \o s)[k] = s[i]
    BY <1>1, <2>1, ConcatProperties
  <2>3. (p \o t)[k] = t[i]
    BY <1>1, <1>2, <2>1, ConcatProperties
  <2>4. QED
    BY <2>2, <2>3
<1>4. QED
  BY <1>2, <1>3, SeqEqual

\* The hex part of an undamaged text, as far as it has not been read.
LEMMA HexOf ==
  ASSUME IInv, damage = 0, pc \in {"length", "hex", "parsed"}
  PROVE  input = Digits(printed) /\ printed \in Seq(Byte) /\ Len(printed) = DigestSize
<1>1. printed \in Seq(Byte) /\ Len(printed) = DigestSize
  BY DigestTyped DEF IInv, TypeOK
<1>2. Prefix \o input = Prefix \o Digits(printed)
  BY FormatIs DEF IInv, Undamaged, ReadSoFar
<1>3. QED
  BY <1>1, <1>2, FormatTyped, RestIs DEF IInv, TypeOK


\* At first nothing is known.
LEMMA InitEstablishes == Init => IInv
<1> SUFFICES ASSUME Init
             PROVE  IInv
  OBVIOUS
<1>1. TypeOK
  BY EmptySeq, DigestAssumption DEF Init, TypeOK
<1>2. QED
  BY <1>1 DEF Init, IInv, ReadSoFar, Spelled, Undamaged

\* Writing a text: it is that of the digest.
LEMMA WriteKeeps ==
  ASSUME IInv, WriteText
  PROVE  IInv'
<1>1. printed' \in Digests /\ text' = Format(printed') /\ pc' = "kept" /\ value = <<>>
  BY DEF IInv, WriteText, ReadSoFar
<1>2. text' \in Seq(Symbol)
  BY <1>1, DigestTyped, FormatTyped
<1>3. TypeOK'
  BY <1>1, <1>2 DEF IInv, TypeOK, WriteText
<1>4. QED
  BY <1>1, <1>3 DEF IInv, WriteText, ReadSoFar, Spelled, Undamaged

\* Damage counts, and leaves symbols.
LEMMA DamageKeeps ==
  ASSUME IInv, Damage
  PROVE  IInv'
<1>1. PICK i \in 0..Len(text), put \in {<<>>} \union {<<s>> : s \in Symbols}, cut \in 0..1 :
        text' = SubSeq(text, 1, i) \o put \o SubSeq(text, i + cut + 1, Len(text))
  BY DEF Damage
<1>2. text \in Seq(Symbol) /\ Len(text) \in Nat /\ \A k \in 1..Len(text) : text[k] \in Symbol
  BY DEF IInv, TypeOK
<1>3. SubSeq(text, 1, i) \in Seq(Symbol)
  <2>1. \A k \in 1..i : text[k] \in Symbol
    BY <1>2
  <2>2. QED
    BY <2>1, SubSeqProperties
<1>4. SubSeq(text, i + cut + 1, Len(text)) \in Seq(Symbol)
  <2>1. PICK m \in Int : m = i + cut + 1 /\ m >= 1
    OBVIOUS
  <2>2. \A k \in m..Len(text) : text[k] \in Symbol
    BY <1>2, <2>1
  <2>3. QED
    BY <1>2, <2>1, <2>2, SubSeqProperties
<1>5. put \in Seq(Symbol)
  <2>1. CASE put = <<>>
    BY <2>1, EmptySeq
  <2>2. ASSUME NEW s \in Symbols, put = <<s>>
        PROVE  put \in Seq(Symbol)
    BY <2>2 DEF Symbol
  <2>3. QED
    BY <2>1, <2>2
<1>6. text' \in Seq(Symbol)
  BY <1>1, <1>3, <1>4, <1>5, ConcatProperties
<1>7. damage \in Nat /\ damage' = damage + 1 /\ damage' \in Nat /\ damage' # 0
  BY DEF IInv, TypeOK, Damage
<1>8. TypeOK'
  BY <1>6, <1>7 DEF IInv, TypeOK, Damage
<1>9. QED
  BY <1>7, <1>8 DEF IInv, Damage, ReadSoFar, Spelled, Undamaged

\* Starting to parse: all of the text is input.
LEMMA ParseKeeps ==
  ASSUME IInv, Parse
  PROVE  IInv'
BY DEF IInv, TypeOK, ReadSoFar, Spelled, Undamaged, Parse, Goto

\* What is read next in an undamaged text.
LEMMA TagsAhead ==
  ASSUME IInv, damage = 0, pc \in {"version", "algorithm"}
  PROVE  /\ pc = "version" => Tag(input) = {<<"v1">>}
         /\ pc = "algorithm" => Tag(input) = {<<"sha256">>}
<1>1. PICK rest \in Seq(Symbol) : text = Prefix \o rest
  BY FormatIs, FormatTyped, DigestTyped DEF IInv, TypeOK, Undamaged
<1>2. /\ text = <<"v1", ":">> \o (<<"sha256", ":">> \o rest)
      /\ <<"sha256", ":">> \o rest \in Seq(Symbol)
  BY <1>1, PrefixSplit
<1>3. "v1" \in Symbol /\ "sha256" \in Symbol /\ "v1" # ":" /\ "sha256" # ":"
  BY DEF Symbol
<1>4. pc = "version" => Tag(input) = {<<"v1">>}
  BY <1>2, <1>3, TagOf DEF IInv, ReadSoFar
<1>5. CASE pc = "algorithm"
  <2>1. <<"v1", ":">> \o input = <<"v1", ":">> \o (<<"sha256", ":">> \o rest)
    BY <1>2, <1>5 DEF IInv, ReadSoFar
  <2>2. <<"v1", ":">> \in Seq(Symbol)
    BY DEF Symbol
  <2>3. input = <<"sha256", ":">> \o rest
    BY <1>2, <2>1, <2>2, RestIs DEF IInv, TypeOK
  <2>4. QED
    BY <1>3, <1>5, <2>3, TagOf
<1>6. QED
  BY <1>4, <1>5

\* A tag that is the expected one is cut off the front of the input.
LEMMA TagRead ==
  ASSUME IInv, NEW step, NEW t \in Symbol, NEW next, NEW otherwise,
         ReadTag(step, <<t>>, next, otherwise)
  PROVE  /\ pc = step /\ UNCHANGED <<printed, text, damage, value>>
         /\ input' \in Seq(Symbol)
         /\ \/ pc' = next /\ input = <<t, ":">> \o input'
            \/ pc' = "failed" /\ Tag(input) # {<<t>>}
<1>1. input \in Seq(Symbol)
  BY DEF IInv, TypeOK
<1>2. CASE Tag(input) = {} /\ Throw("invalid_digest_error") /\ UNCHANGED input
  BY <1>1, <1>2 DEF ReadTag, Throw
<1>3. ASSUME NEW tag \in Tag(input), input' = AfterTag(input, tag),
             \/ tag = <<t>> /\ Goto(next)
             \/ tag # <<t>> /\ Throw(otherwise)
      PROVE  /\ input' \in Seq(Symbol)
             /\ \/ pc' = next /\ input = <<t, ":">> \o input'
                \/ pc' = "failed" /\ Tag(input) # {<<t>>}
  <2>1. CASE tag = <<t>>
    BY <1>1, <1>3, <2>1, TagIs DEF Goto
  <2>2. CASE tag # <<t>>
    <3>1. SubSeq(input, Len(tag) + 2, Len(input)) \in Seq(Symbol)
      <4>1. PICK j \in DOMAIN input : tag = SubSeq(input, 1, j - 1)
        BY DEF Tag
      <4>2. /\ j \in 1..Len(input) /\ Len(input) \in Nat
            /\ \A i \in 1..Len(input) : input[i] \in Symbol
        BY <1>1, <4>1
      <4>3. \A i \in 1..(j - 1) : input[i] \in Symbol
        BY <4>2
      <4>4. tag \in Seq(Symbol)
        BY <4>1, <4>2, <4>3, SubSeqProperties
      <4>5. PICK m \in Int : m = Len(tag) + 2 /\ m >= 1
        BY <4>4
      <4>6. \A i \in m..Len(input) : input[i] \in Symbol
        BY <4>2, <4>5
      <4>7. QED
        BY <4>2, <4>5, <4>6, SubSeqProperties
    <3>2. QED
      BY <1>3, <2>2, <3>1 DEF AfterTag, Throw
  <2>3. QED
    BY <2>1, <2>2
<1>4. QED
  BY <1>2, <1>3 DEF ReadTag

\* The version tag.
LEMMA ReadVersionKeeps ==
  ASSUME IInv, ReadVersion
  PROVE  IInv'
<1>1. "v1" \in Symbol
  BY DEF Symbol
<1>2. /\ pc = "version" /\ UNCHANGED <<printed, text, damage, value>>
      /\ input' \in Seq(Symbol)
      /\ \/ pc' = "algorithm" /\ input = <<"v1", ":">> \o input'
         \/ pc' = "failed" /\ Tag(input) # {<<"v1">>}
  BY <1>1, TagRead DEF ReadVersion
<1>3. TypeOK'
  BY <1>2 DEF IInv, TypeOK
<1>4. damage = 0 => pc' # "failed"
  BY <1>2, TagsAhead
<1>5. QED
  BY <1>2, <1>3, <1>4 DEF IInv, ReadSoFar, Spelled, Undamaged

\* The algorithm tag.
LEMMA ReadAlgorithmKeeps ==
  ASSUME IInv, ReadAlgorithm
  PROVE  IInv'
<1>1. "sha256" \in Symbol
  BY DEF Symbol
<1>2. /\ pc = "algorithm" /\ UNCHANGED <<printed, text, damage, value>>
      /\ input' \in Seq(Symbol)
      /\ \/ pc' = "length" /\ input = <<"sha256", ":">> \o input'
         \/ pc' = "failed" /\ Tag(input) # {<<"sha256">>}
  BY <1>1, TagRead DEF ReadAlgorithm
<1>3. TypeOK'
  BY <1>2 DEF IInv, TypeOK
<1>4. damage = 0 => pc' # "failed"
  BY <1>2, TagsAhead
<1>5. pc' = "length" => text' = Prefix \o input'
  BY <1>2, PrefixSplit DEF IInv, ReadSoFar
<1>6. QED
  BY <1>2, <1>3, <1>4, <1>5 DEF IInv, ReadSoFar, Spelled, Undamaged

\* An undamaged hex part has the length it must have.
LEMMA CheckLengthKeeps ==
  ASSUME IInv, CheckLength
  PROVE  IInv'
<1>1. TypeOK'
  BY DEF IInv, TypeOK, CheckLength, Goto, Throw
<1>2. damage = 0 => pc' # "failed"
  <2>1. SUFFICES ASSUME damage = 0
                 PROVE  Len(input) = 2 * DigestSize
    BY DEF CheckLength, Goto, Throw
  <2>2. QED
    BY <2>1, HexOf, DigitsAre DEF CheckLength
<1>3. QED
  BY <1>1, <1>2 DEF IInv, ReadSoFar, Spelled, Undamaged, CheckLength, Goto, Throw

\* The two digits of the next byte of an undamaged text are digits.
LEMMA DigitsAhead ==
  ASSUME IInv, damage = 0, pc = "hex", Len(value) < DigestSize
  PROVE  /\ HexValue(input[2 * Len(value) + 1]) # {}
         /\ HexValue(input[2 * Len(value) + 2]) # {}
<1>1. input = Digits(printed) /\ printed \in Seq(Byte) /\ Len(printed) = DigestSize
  BY HexOf
<1>2. PICK k \in 1..Len(printed) : k = Len(value) + 1
  BY <1>1 DEF IInv, TypeOK
<1>3. 2 * Len(value) + 1 = 2 * k - 1 /\ 2 * Len(value) + 2 = 2 * k
  BY <1>1, <1>2 DEF IInv, TypeOK
<1>4. PICK b \in Byte : b = printed[k]
  BY <1>1, ElementOfSeq
<1>5. /\ input[2 * k - 1] = Nibbles(b)[1]
      /\ input[2 * k] = Nibbles(b)[2]
  BY <1>1, <1>4, DigitsAre
<1>6. Nibbles(b)[1] = HexDigit[1 + (b \div 16)] /\ Nibbles(b)[2] = HexDigit[1 + (b % 16)]
  BY DEF Nibbles
<1>7. /\ HexValue(HexDigit[1 + (b \div 16)]) # {}
      /\ HexValue(HexDigit[1 + (b % 16)]) # {}
  BY HexValueOf, HalvesOf
<1>8. QED
  BY <1>3, <1>5, <1>6, <1>7

\* A byte that is read has the digits that string() writes for it.
LEMMA ReadByteKeeps ==
  ASSUME IInv, ReadByte
  PROVE  IInv'
<1>1. PICK n \in Nat : n = Len(value)
  BY DEF IInv, TypeOK
<1>2. CASE {} \in {HexValue(input[2 * n + 1]), HexValue(input[2 * n + 2])}
           /\ Throw("invalid_digest_error") /\ UNCHANGED value
  <2>1. damage # 0
    BY <1>1, <1>2, DigitsAhead DEF ReadByte
  <2>2. QED
    BY <1>2, <2>1 DEF IInv, TypeOK, ReadSoFar, Spelled, Undamaged, ReadByte, Throw
<1>3. ASSUME NEW h \in HexValue(input[2 * n + 1]), NEW l \in HexValue(input[2 * n + 2]),
             value' = Append(value, 16 * h + l), UNCHANGED <<pc, error>>
      PROVE  IInv'
  <2>1. /\ h \in 0..15 /\ input[2 * n + 1] = HexDigit[1 + h]
        /\ l \in 0..15 /\ input[2 * n + 2] = HexDigit[1 + l]
    BY HexValueIs
  <2>2. PICK b \in Byte : b = 16 * h + l /\ b \div 16 = h /\ b % 16 = l
    BY <2>1, Halves
  <2>3. /\ value' \in Seq(Byte) /\ Len(value') = n + 1
        /\ value'[n + 1] = b /\ \A k \in 1..n : value'[k] = value[k]
    BY <1>1, <1>3, <2>2 DEF IInv, TypeOK
  <2>4. /\ pc = "hex" /\ pc' = "hex" /\ n < DigestSize
        /\ UNCHANGED <<printed, text, damage, input>>
    BY <1>1, <1>3 DEF ReadByte
  <2>5. TypeOK'
    BY <2>3, <2>4, DigestAssumption DEF IInv, TypeOK
  <2>6. ASSUME NEW k \in 1..Len(value')
        PROVE  SpelledAt(k)'
    <3>1. CASE k \in 1..n
      <4>1. SpelledAt(k) /\ value'[k] = value[k]
        BY <1>1, <2>3, <2>4, <3>1 DEF IInv, Spelled
      <4>2. QED
        BY <2>4, <4>1 DEF SpelledAt
    <3>2. CASE k = n + 1
      <4>1. value'[k] = b /\ 2 * n + 1 = 2 * k - 1 /\ 2 * n + 2 = 2 * k
        BY <2>3, <3>2
      <4>2. Nibbles(b)[1] = HexDigit[1 + h] /\ Nibbles(b)[2] = HexDigit[1 + l]
        BY <2>2 DEF Nibbles
      <4>3. input'[2 * k - 1] = Nibbles(b)[1] /\ input'[2 * k] = Nibbles(b)[2]
        BY <2>1, <2>4, <4>1, <4>2
      <4>4. QED
        BY <4>1, <4>3 DEF SpelledAt
    <3>3. QED
      BY <2>3, <3>1, <3>2
  <2>7. QED
    BY <2>4, <2>5, <2>6 DEF IInv, ReadSoFar, Spelled, Undamaged
<1>4. QED
  BY <1>1, <1>2, <1>3 DEF ReadByte

\* The end of the loop over the bytes.
LEMMA EndParseKeeps ==
  ASSUME IInv, EndParse
  PROVE  IInv'
BY DEF IInv, TypeOK, ReadSoFar, Spelled, SpelledAt, Undamaged, EndParse, Goto

\* Every step keeps the invariant.
LEMMA NextKeeps ==
  ASSUME IInv, [Next]_digestVars
  PROVE  IInv'
<1>1. CASE Stopped \/ UNCHANGED digestVars
  BY <1>1 DEF Stopped, digestVars, IInv, TypeOK, ReadSoFar, Spelled, SpelledAt, Undamaged
<1>2. QED
  BY <1>1, WriteKeeps, DamageKeeps, ParseKeeps, ReadVersionKeeps, ReadAlgorithmKeeps,
     CheckLengthKeeps, ReadByteKeeps, EndParseKeeps DEF Next

\* The inductive invariant: what was read is the beginning of the text, spelled
\* as string() spells it, and an undamaged text is not refused.
THEOREM Invariance == Spec => []IInv
<1>1. Init => IInv
  BY InitEstablishes
<1>2. IInv /\ [Next]_digestVars => IInv'
  BY NextKeeps
<1>3. QED
  BY <1>1, <1>2, PTL DEF Spec

-----------------------------------------------------------------------------
(***************************************************************************)
(* One digest, one text.                                                   *)
(***************************************************************************)

\* Bytes that have the digits of an input are all its digits.
LEMMA DigitsOfValue ==
  ASSUME IInv, pc = "parsed"
  PROVE  value \in Seq(Byte) /\ Len(value) = DigestSize /\ input = Digits(value)
<1>1. PICK n \in Nat : n = DigestSize
  BY DigestAssumption
<1>2. /\ value \in Seq(Byte) /\ Len(value) = n
      /\ input \in Seq(Symbol) /\ Len(input) = 2 * n
      /\ \A k \in 1..n : SpelledAt(k)
  BY <1>1 DEF IInv, TypeOK, ReadSoFar, Spelled
<1>3. /\ Digits(value) \in Seq(Symbol) /\ Len(Digits(value)) = 2 * n
      /\ \A k \in 1..n : /\ Digits(value)[2 * k - 1] = Nibbles(value[k])[1]
                         /\ Digits(value)[2 * k] = Nibbles(value[k])[2]
  BY <1>2, FormatTyped, DigitsAre
<1>4. \A k \in 1..n : /\ input[2 * k - 1] = Digits(value)[2 * k - 1]
                      /\ input[2 * k] = Digits(value)[2 * k]
  BY <1>2, <1>3 DEF SpelledAt
<1>5. ASSUME NEW i \in 1..(2 * n)
      PROVE  input[i] = Digits(value)[i]
  <2>1. PICK k \in 1..n : i = 2 * k - 1 \/ i = 2 * k
    <3>1. PICK k \in Int : k = (i + 1) \div 2
      OBVIOUS
    <3>2. k \in 1..n /\ (i = 2 * k - 1 \/ i = 2 * k)
      BY <3>1
    <3>3. QED
      BY <3>2
  <2>2. QED
    BY <1>4, <2>1
<1>6. input = Digits(value)
  BY <1>2, <1>3, <1>5, SeqEqual
<1>7. QED
  BY <1>1, <1>2, <1>6

\* parse accepts no spelling of a digest but the one string() writes, however
\* the text was damaged.
THEOREM Canonical == Spec => []ParsedIsCanonical
<1>1. IInv => ParsedIsCanonical
  BY DigitsOfValue, FormatIs DEF ParsedIsCanonical, IInv, ReadSoFar
<1>2. QED
  BY <1>1, Invariance, PTL

\* Two digests with the same digits are the same: each byte is read off its two.
LEMMA DigitsTell ==
  ASSUME NEW d \in Seq(Byte), NEW e \in Seq(Byte), Len(d) = Len(e), Digits(d) = Digits(e)
  PROVE  d = e
<1>1. ASSUME NEW k \in 1..Len(d)
      PROVE  d[k] = e[k]
  <2>1. PICK b \in Byte : b = d[k]
    BY ElementOfSeq
  <2>2. PICK c \in Byte : c = e[k]
    BY ElementOfSeq
  <2>3. Nibbles(b)[1] = Nibbles(c)[1] /\ Nibbles(b)[2] = Nibbles(c)[2]
    BY <2>1, <2>2, DigitsAre
  <2>4. /\ b \div 16 \in 0..15 /\ b % 16 \in 0..15 /\ 16 * (b \div 16) + (b % 16) = b
        /\ c \div 16 \in 0..15 /\ c % 16 \in 0..15 /\ 16 * (c \div 16) + (c % 16) = c
    BY HalvesOf
  <2>5. PICK h \in 0..15, l \in 0..15 : h = b \div 16 /\ l = b % 16
    BY <2>4
  <2>6. PICK i \in 0..15, j \in 0..15 : i = c \div 16 /\ j = c % 16
    BY <2>4
  <2>7. HexDigit[1 + h] = HexDigit[1 + i] /\ HexDigit[1 + l] = HexDigit[1 + j]
    BY <2>3, <2>5, <2>6 DEF Nibbles
  <2>8. {h} = {i} /\ {l} = {j}
    BY <2>7, HexValueOf
  <2>9. h = i /\ l = j
    BY <2>8
  <2>10. b = c
    BY <2>4, <2>5, <2>6, <2>9
  <2>11. QED
    BY <2>1, <2>2, <2>10
<1>2. QED
  BY <1>1, SeqEqual

\* An undamaged text is read, and as the digest it was written for.
THEOREM ReadsBack == Spec => []PrintedParsesBack
<1>1. IInv => PrintedParsesBack
  <2>1. SUFFICES ASSUME IInv, damage = 0
                 PROVE  /\ pc # "failed"
                        /\ pc = "parsed" => value = printed
    BY DEF PrintedParsesBack
  <2>2. pc # "failed"
    BY <2>1 DEF IInv, Undamaged
  <2>3. ASSUME pc = "parsed"
        PROVE  value = printed
    <3>1. input = Digits(printed) /\ printed \in Seq(Byte) /\ Len(printed) = DigestSize
      BY <2>1, <2>3, HexOf
    <3>2. input = Digits(value) /\ value \in Seq(Byte) /\ Len(value) = DigestSize
      BY <2>1, <2>3, DigitsOfValue
    <3>3. QED
      BY <3>1, <3>2, DigitsTell
  <2>4. QED
    BY <2>2, <2>3
<1>2. QED
  BY <1>1, Invariance, PTL

=============================================================================
