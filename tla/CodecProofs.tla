---------------------------- MODULE CodecProofs ----------------------------
(***************************************************************************)
(* Proofs about Codec: a record of any length and of any bytes survives    *)
(* the way through the merge topic.                                        *)
(***************************************************************************)
EXTENDS Codec, SumTheorems, SequenceTheorems

-----------------------------------------------------------------------------
(* Flattening, by the last piece *)

(* h[i] is what the first i pieces of s come to. *)
Flat(h, s, n) == h = [i \in 1..n |-> IF i = 1 THEN s[i] ELSE h[i-1] \o s[i]]

LEMMA FlatAt ==
  ASSUME NEW h, NEW s, NEW n, Flat(h, s, n)
  PROVE  \A i \in 1..n : h[i] = IF i = 1 THEN s[i] ELSE h[i-1] \o s[i]
<1> DEFINE piece(i) == IF i = 1 THEN s[i] ELSE h[i-1] \o s[i]
<1>1. h = [i \in 1..n |-> piece(i)]
  BY DEF Flat
<1> HIDE DEF piece
<1>2. \A i \in 1..n : h[i] = piece(i)
  BY <1>1
<1> QED
  BY <1>2 DEF piece

LEMMA FlattenUnfolded ==
  ASSUME NEW s, Len(s) # 0
  PROVE  FlattenSeq(s) = (CHOOSE h : Flat(h, s, Len(s)))[Len(s)]
BY DEF FlattenSeq, Flat

LEMMA FlatExists ==
  ASSUME NEW s, NEW n \in Nat
  PROVE  \E h : Flat(h, s, n)
<1> DEFINE Good == {k \in Nat : \E h : Flat(h, s, k)}
<1>1. 0 \in Good
  <2> DEFINE h == [i \in 1..0 |-> 0]
  <2>1. Flat(h, s, 0)
    BY DEF Flat
  <2> QED
    BY <2>1
<1>2. ASSUME NEW k \in Nat, k \in Good PROVE k + 1 \in Good
  <2>1. PICK h : Flat(h, s, k)
    BY <1>2
  <2> DEFINE g == [i \in 1..k + 1 |->
                     IF i = k + 1 THEN IF i = 1 THEN s[i] ELSE h[i-1] \o s[i] ELSE h[i]]
  <2>2. \A i \in 1..k : g[i] = h[i] /\ h[i] = IF i = 1 THEN s[i] ELSE h[i-1] \o s[i]
    <3>1. \A i \in 1..k : g[i] = h[i]
      OBVIOUS
    <3> HIDE DEF g
    <3> QED
      BY <2>1, <3>1, FlatAt
  <2>3. \A i \in 1..k + 1 : g[i] = IF i = 1 THEN s[i] ELSE g[i-1] \o s[i]
    <3> SUFFICES ASSUME NEW i \in 1..k + 1 PROVE g[i] = IF i = 1 THEN s[i] ELSE g[i-1] \o s[i]
      OBVIOUS
    <3>1. i # 1 => i - 1 \in 1..k
      OBVIOUS
    <3>2. i # 1 => g[i-1] = h[i-1]
      BY <2>2, <3>1
    <3>3. CASE i = k + 1
      BY <3>2, <3>3
    <3>4. CASE i # k + 1
      <4>1. i \in 1..k
        BY <3>4
      <4> HIDE DEF g
      <4> QED
        BY <2>2, <3>2, <4>1
    <3> QED
      BY <3>3, <3>4
  <2>4. g = [i \in 1..k + 1 |-> g[i]]
    OBVIOUS
  <2> HIDE DEF g
  <2>5. Flat(g, s, k + 1)
    BY <2>3, <2>4 DEF Flat
  <2> QED
    BY <2>5
<1> HIDE DEF Good
<1>3. \A k \in Nat : k \in Good => k + 1 \in Good
  BY <1>2
<1>4. Nat \subseteq Good
  BY <1>1, <1>3, NumberInduction
<1> QED
  BY <1>4 DEF Good

(* Pieces that come later change nothing. *)
LEMMA FlatUnique ==
  ASSUME NEW s, NEW t, NEW m \in Nat, \A i \in 1..m : s[i] = t[i],
         NEW g, Flat(g, s, m), NEW h, Flat(h, t, m + 1)
  PROVE  \A i \in 1..m : g[i] = h[i]
<1> DEFINE Good == {k \in Nat : k \in 1..m => g[k] = h[k]}
<1>1. 0 \in Good
  OBVIOUS
<1>2. \A i \in 1..m : /\ g[i] = IF i = 1 THEN s[i] ELSE g[i-1] \o s[i]
                      /\ h[i] = IF i = 1 THEN t[i] ELSE h[i-1] \o t[i]
  <2>1. \A i \in 1..m : g[i] = IF i = 1 THEN s[i] ELSE g[i-1] \o s[i]
    BY FlatAt
  <2>2. \A i \in 1..m + 1 : h[i] = IF i = 1 THEN t[i] ELSE h[i-1] \o t[i]
    BY FlatAt
  <2> QED
    BY <2>1, <2>2
<1>3. ASSUME NEW k \in Nat, k \in Good PROVE k + 1 \in Good
  <2> SUFFICES ASSUME k + 1 \in 1..m PROVE g[k + 1] = h[k + 1]
    OBVIOUS
  <2>1. CASE k = 0
    BY <1>2, <2>1
  <2>2. CASE k # 0
    <3>1. g[k] = h[k]
      BY <1>3, <2>2
    <3>2. k + 1 # 1 /\ (k + 1) - 1 = k /\ s[k + 1] = t[k + 1]
      BY <2>2
    <3>3. /\ g[k + 1] = g[(k + 1) - 1] \o s[k + 1] /\ h[k + 1] = h[(k + 1) - 1] \o t[k + 1]
      BY <1>2, <3>2
    <3> QED
      BY <3>1, <3>2, <3>3
  <2> QED
    BY <2>1, <2>2
<1> HIDE DEF Good
<1>4. \A k \in Nat : k \in Good => k + 1 \in Good
  BY <1>3
<1>5. Nat \subseteq Good
  BY <1>1, <1>4, NumberInduction
<1> QED
  BY <1>5 DEF Good

LEMMA FlattenAppend ==
  ASSUME NEW S, NEW s \in Seq(Seq(S)), NEW e \in Seq(S)
  PROVE  FlattenSeq(Append(s, e)) = FlattenSeq(s) \o e
<1> DEFINE t == Append(s, e)
           n == Len(s)
<1>1. n \in Nat /\ Len(t) = n + 1 /\ t[n + 1] = e /\ \A i \in 1..n : s[i] = t[i]
  OBVIOUS
<1> HIDE DEF t
<1>2. PICK h : Flat(h, t, n + 1) /\ FlattenSeq(t) = h[n + 1]
  <2>1. \E h : Flat(h, t, n + 1)
    <3>1. n + 1 \in Nat
      BY <1>1
    <3> HIDE DEF n
    <3> QED
      BY <3>1, FlatExists
  <2>2. Flat(CHOOSE h : Flat(h, t, n + 1), t, n + 1)
    BY <2>1
  <2>3. FlattenSeq(t) = (CHOOSE h : Flat(h, t, n + 1))[n + 1]
    BY <1>1, FlattenUnfolded
  <2> QED
    BY <2>2, <2>3
<1>3. h[n + 1] = IF n + 1 = 1 THEN e ELSE h[(n + 1) - 1] \o e
  <2>1. n + 1 \in 1..n + 1
    BY <1>1
  <2> QED
    BY <1>1, <1>2, <2>1, FlatAt
<1>4. CASE n = 0
  <2>1. s = <<>> /\ FlattenSeq(s) = s
    BY <1>4 DEF FlattenSeq
  <2>2. <<>> \o e = e
    OBVIOUS
  <2> QED
    BY <1>2, <1>3, <1>4, <2>1, <2>2 DEF t
<1>5. CASE n # 0
  <2>1. PICK g : Flat(g, s, n) /\ FlattenSeq(s) = g[n]
    <3>1. \E g : Flat(g, s, n)
      BY <1>1, FlatExists
    <3>2. Flat(CHOOSE g : Flat(g, s, n), s, n)
      BY <3>1
    <3>3. FlattenSeq(s) = (CHOOSE g : Flat(g, s, n))[n]
      BY <1>5, FlattenUnfolded
    <3> QED
      BY <3>2, <3>3
  <2>2. n \in 1..n /\ n + 1 \in Nat /\ n <= n + 1 /\ (n + 1) - 1 = n /\ n + 1 # 1
    BY <1>1, <1>5
  <2>3. g[n] = h[n]
    <3> HIDE DEF n
    <3>1. \A i \in 1..n : g[i] = h[i]
      BY <1>1, <1>2, <2>1, FlatUnique
    <3> QED
      BY <2>2, <3>1
  <2> QED
    BY <1>2, <1>3, <2>1, <2>2, <2>3 DEF t
<1> QED
  BY <1>4, <1>5

-----------------------------------------------------------------------------
(* One byte more *)

LEMMA Appended ==
  ASSUME NEW S, NEW s \in Seq(S), NEW e \in S
  PROVE  Append(s, e) = [i \in 1..Len(s) + 1 |-> IF i = Len(s) + 1 THEN e ELSE s[i]]
<1> DEFINE t == Append(s, e)
           n == Len(s)
<1>1. n \in Nat /\ t \in Seq(S) /\ Len(t) = n + 1
  OBVIOUS
<1>2. \A i \in 1..n + 1 : t[i] = IF i = n + 1 THEN e ELSE s[i]
  OBVIOUS
<1> HIDE DEF t
<1>3. DOMAIN t = 1..n + 1 /\ t = [i \in 1..n + 1 |-> t[i]]
  BY <1>1
<1> HIDE DEF n
<1>4. t = [i \in 1..n + 1 |-> IF i = n + 1 THEN e ELSE s[i]]
  BY <1>2, <1>3
<1> QED
  BY <1>4 DEF t, n

LEMMA ByteNumbers ==
  /\ \A c \in Byte : /\ c \in Nat /\ c \in Int /\ c < 256
                     /\ c < 128 => ~Continues(c)
                     /\ Continues(c) => ~(c < 128)
  /\ \A c, d \in Byte : (c % 32) * 64 + (d % 64) \in Nat
BY DEF Byte, Continues

LEMMA SeqFromFunction ==
  ASSUME NEW S, NEW n \in Nat, NEW f \in [1..n -> S]
  PROVE  f \in Seq(S) /\ Len(f) = n
OBVIOUS

LEMMA Utf8Bytes ==
  ASSUME NEW b \in Byte
  PROVE  /\ Utf8(b) \in Seq(Byte)
         /\ b < 128 => Utf8(b) = <<b>>
         /\ b >= 128 => \E lead \in 194..195, rest \in 128..191 :
              Utf8(b) = <<lead, rest>> /\ (lead % 32) * 64 + (rest % 64) = b
<1>1. CASE b < 128
  BY <1>1 DEF Utf8, Byte
<1>2. CASE b >= 128
  <2> DEFINE lead == 192 + b \div 64
             rest == 128 + (b % 64)
  <2>1. lead \in 194..195 /\ rest \in 128..191 /\ (lead % 32) * 64 + (rest % 64) = b
    BY <1>2 DEF Byte
  <2>2. Utf8(b) = <<lead, rest>>
    BY <1>2 DEF Utf8, Byte
  <2> HIDE DEF lead, rest
  <2>3. lead \in Byte /\ rest \in Byte
    BY <2>1 DEF Byte
  <2> QED
    BY <1>2, <2>1, <2>2, <2>3 DEF Byte
<1> QED
  BY <1>1, <1>2 DEF Byte

(* Encoding goes byte by byte. *)
LEMMA EncodedByte ==
  ASSUME NEW bytes \in Seq(Byte), NEW b \in Byte
  PROVE  Utf8Encode(Latin1Decode(Append(bytes, b))) = Utf8Encode(Latin1Decode(bytes)) \o Utf8(b)
<1> DEFINE pieces(s) == [i \in DOMAIN s |-> Utf8(s[i])]
           more == Append(bytes, b)
<1>1. \A c \in Byte : Utf8(c) \in Seq(Byte)
  BY Utf8Bytes
<1>2. pieces(bytes) \in Seq(Seq(Byte))
  <2>1. pieces(bytes) \in [1..Len(bytes) -> Seq(Byte)] /\ Len(bytes) \in Nat
    BY <1>1
  <2> HIDE DEF pieces
  <2> QED
    BY <2>1, SeqFromFunction
<1>3. pieces(more) = Append(pieces(bytes), Utf8(b))
  OBVIOUS
<1>4. Latin1Decode(bytes) = bytes /\ Latin1Decode(more) = more
  <2>1. \A s \in Seq(Byte) : Latin1Decode(s) = s
    BY DEF Latin1Decode
  <2>2. more \in Seq(Byte)
    OBVIOUS
  <2> HIDE DEF more
  <2> QED
    BY <2>1, <2>2
<1>5. Utf8Encode(bytes) = FlattenSeq(pieces(bytes)) /\ Utf8Encode(more) = FlattenSeq(pieces(more))
  BY DEF Utf8Encode
<1> HIDE DEF pieces, more
<1>6. FlattenSeq(Append(pieces(bytes), Utf8(b))) = FlattenSeq(pieces(bytes)) \o Utf8(b)
  BY <1>1, <1>2, FlattenAppend
<1> QED
  BY <1>3, <1>4, <1>5, <1>6 DEF more

(* Decoding goes by what starts with each byte, which one byte more does   *)
(* not change.                                                             *)
Characters(bytes) == [i \in DOMAIN bytes |-> StartsWith(bytes, i)]

LEMMA StartedChars ==
  ASSUME NEW bytes \in Seq(Byte), Utf8Decodable(bytes), NEW i \in 1..Len(bytes)
  PROVE  /\ StartsWith(bytes, i) \in Seq(Nat)
         /\ bytes[i] < 128 => StartsWith(bytes, i) = <<bytes[i]>>
         /\ Continues(bytes[i]) => StartsWith(bytes, i) = <<>>
         /\ bytes[i] >= 128 /\ ~Continues(bytes[i]) =>
              /\ i + 1 \in 1..Len(bytes)
              /\ StartsWith(bytes, i) = <<(bytes[i] % 32) * 64 + (bytes[i + 1] % 64)>>
<1>1. bytes[i] \in Byte
  OBVIOUS
<1>2. CASE bytes[i] < 128
  <2>1. ~Continues(bytes[i])
    BY <1>1, <1>2, ByteNumbers
  <2>2. StartsWith(bytes, i) = <<bytes[i]>>
    BY <1>2, <2>1 DEF StartsWith
  <2>3. bytes[i] \in Nat
    BY <1>1, ByteNumbers
  <2> QED
    BY <1>2, <2>1, <2>2, <2>3
<1>3. CASE Continues(bytes[i])
  <2>1. ~(bytes[i] < 128)
    BY <1>1, <1>3, ByteNumbers
  <2>2. StartsWith(bytes, i) = <<>>
    BY <1>3, <2>1 DEF StartsWith
  <2> QED
    BY <1>3, <2>1, <2>2
<1>4. CASE ~(bytes[i] < 128) /\ ~Continues(bytes[i])
  <2>1. i + 1 \in 1..Len(bytes)
    BY <1>4 DEF Utf8Decodable
  <2>2. StartsWith(bytes, i) = <<(bytes[i] % 32) * 64 + (bytes[i + 1] % 64)>>
    BY <1>4 DEF StartsWith
  <2>3. bytes[i + 1] \in Byte
    BY <2>1
  <2>4. (bytes[i] % 32) * 64 + (bytes[i + 1] % 64) \in Nat
    BY <1>1, <2>3, ByteNumbers
  <2> QED
    BY <1>4, <2>1, <2>2, <2>4
<1> QED
  BY <1>2, <1>3, <1>4

LEMMA CharactersAppend ==
  ASSUME NEW bytes \in Seq(Byte), Utf8Decodable(bytes),
         NEW more \in Seq(Byte), Len(more) >= Len(bytes),
         \A i \in 1..Len(bytes) : more[i] = bytes[i]
  PROVE  /\ Characters(bytes) \in Seq(Seq(Nat)) /\ Len(Characters(bytes)) = Len(bytes)
         /\ \A i \in 1..Len(bytes) : StartsWith(more, i) = Characters(bytes)[i]
<1>1. \A i \in 1..Len(bytes) : StartsWith(bytes, i) \in Seq(Nat)
  BY StartedChars
<1>2. DOMAIN bytes = 1..Len(bytes) /\ Len(bytes) \in Nat
  OBVIOUS
<1>3. Characters(bytes) \in [1..Len(bytes) -> Seq(Nat)]
  BY <1>1, <1>2 DEF Characters
<1>4. Characters(bytes) \in Seq(Seq(Nat)) /\ Len(Characters(bytes)) = Len(bytes)
  BY <1>2, <1>3, SeqFromFunction
<1>5. ASSUME NEW i \in 1..Len(bytes) PROVE StartsWith(more, i) = StartsWith(bytes, i)
  <2>1. more[i] = bytes[i] /\ bytes[i] \in Byte
    OBVIOUS
  <2>2. CASE bytes[i] < 128 \/ Continues(bytes[i])
    <3>1. bytes[i] < 128 => ~Continues(bytes[i])
      BY <2>1, ByteNumbers
    <3> QED
      BY <2>1, <2>2, <3>1 DEF StartsWith
  <2>3. CASE ~(bytes[i] < 128) /\ ~Continues(bytes[i])
    <3>1. i + 1 \in 1..Len(bytes)
      <4>1. bytes[i] \in Int
        BY <2>1, ByteNumbers
      <4>2. bytes[i] >= 128
        BY <2>3, <4>1
      <4> QED
        BY <2>3, <4>2, StartedChars
    <3>2. more[i + 1] = bytes[i + 1]
      BY <3>1
    <3> QED
      BY <2>1, <2>3, <3>2 DEF StartsWith
  <2> QED
    BY <2>2, <2>3
<1> QED
  BY <1>2, <1>4, <1>5 DEF Characters

(* A value with one character more, of one byte *)
LEMMA DecodedByte ==
  ASSUME NEW bytes \in Seq(Byte), Utf8Decodable(bytes), NEW b \in 0..127
  PROVE  /\ Utf8Decodable(Append(bytes, b))
         /\ Utf8Decode(Append(bytes, b)) = Utf8Decode(bytes) \o <<b>>
<1> DEFINE more == Append(bytes, b)
           n == Len(bytes)
<1>1. /\ more \in Seq(Byte) /\ Len(more) = n + 1 /\ n \in Nat
      /\ more[n + 1] = b /\ \A i \in 1..n : more[i] = bytes[i] /\ bytes[i] \in Byte
  <2>1. b \in Byte
    BY DEF Byte
  <2> QED
    BY <2>1
<1>2. DOMAIN more = 1..n + 1 /\ DOMAIN bytes = 1..n
  BY <1>1
<1> HIDE DEF more
<1>3. ~Continues(b) /\ ~LeadsTwo(b)
  BY DEF Continues, LeadsTwo
<1>4. Utf8Decodable(more)
  <2> SUFFICES ASSUME NEW i \in 1..n + 1
               PROVE  /\ more[i] < 128 \/ LeadsTwo(more[i]) \/ Continues(more[i])
                      /\ LeadsTwo(more[i]) <=> (i + 1 \in 1..n + 1 /\ Continues(more[i + 1]))
                      /\ Continues(more[i]) => i > 1
    BY <1>2 DEF Utf8Decodable
  <2>1. CASE i = n + 1
    <3>1. more[i] = b /\ i + 1 \notin 1..n + 1 /\ b < 128
      BY <1>1, <2>1
    <3> QED
      BY <1>3, <3>1
  <2>2. CASE i = n
    <3>1. i \in 1..n /\ i + 1 \notin 1..n /\ more[i] = bytes[i] /\ more[i + 1] = b
      BY <1>1, <2>2
    <3> QED
      BY <1>2, <1>3, <3>1 DEF Utf8Decodable
  <2>3. CASE i < n
    <3>1. i \in 1..n /\ i + 1 \in 1..n /\ i + 1 \in 1..n + 1 /\ more[i] = bytes[i]
          /\ more[i + 1] = bytes[i + 1]
      BY <1>1, <2>3
    <3> QED
      BY <1>2, <3>1 DEF Utf8Decodable
  <2> QED
    BY <1>1, <2>1, <2>2, <2>3
<1>5. /\ Characters(bytes) \in Seq(Seq(Nat)) /\ Len(Characters(bytes)) = n
      /\ \A i \in 1..n : StartsWith(more, i) = Characters(bytes)[i]
  BY <1>1, CharactersAppend
<1>6. StartsWith(more, n + 1) = <<b>>
  <2>1. more[n + 1] < 128 /\ ~Continues(more[n + 1])
    BY <1>1, <1>3
  <2> QED
    BY <1>1, <2>1 DEF StartsWith
<1>7. Characters(more) = Append(Characters(bytes), <<b>>)
  <2>1. Append(Characters(bytes), <<b>>) =
          [i \in 1..n + 1 |-> IF i = n + 1 THEN <<b>> ELSE Characters(bytes)[i]]
    BY <1>5
  <2>2. Characters(more) = [i \in 1..n + 1 |-> StartsWith(more, i)]
    BY <1>2 DEF Characters
  <2>3. \A i \in 1..n + 1 :
          StartsWith(more, i) = IF i = n + 1 THEN <<b>> ELSE Characters(bytes)[i]
    BY <1>1, <1>5, <1>6
  <2> QED
    BY <2>1, <2>2, <2>3
<1>8. <<b>> \in Seq(Nat)
  OBVIOUS
<1>9. FlattenSeq(Append(Characters(bytes), <<b>>)) = FlattenSeq(Characters(bytes)) \o <<b>>
  BY <1>5, <1>8, FlattenAppend
<1> QED
  BY <1>4, <1>7, <1>9 DEF more, Utf8Decode, Characters

(* and one of two bytes *)
LEMMA DecodedPair ==
  ASSUME NEW bytes \in Seq(Byte), Utf8Decodable(bytes),
         Utf8Decode(bytes) \in Seq(Nat),
         NEW lead \in 194..195, NEW rest \in 128..191,
         NEW c \in Nat, c = (lead % 32) * 64 + (rest % 64)
  PROVE  /\ Utf8Decodable(bytes \o <<lead, rest>>)
         /\ Utf8Decode(bytes \o <<lead, rest>>) = Utf8Decode(bytes) \o <<c>>
<1> DEFINE more == bytes \o <<lead, rest>>
           n == Len(bytes)
<1>1. /\ more \in Seq(Byte) /\ Len(more) = n + 2 /\ n \in Nat
      /\ more[n + 1] = lead /\ more[n + 2] = rest
      /\ \A i \in 1..n : more[i] = bytes[i] /\ bytes[i] \in Byte
  <2>1. lead \in Byte /\ rest \in Byte
    BY DEF Byte
  <2> QED
    BY <2>1
<1>2. DOMAIN more = 1..n + 2 /\ DOMAIN bytes = 1..n
  BY <1>1
<1> HIDE DEF more
<1>3. /\ ~Continues(lead) /\ LeadsTwo(lead) /\ ~(lead < 128)
      /\ Continues(rest) /\ ~LeadsTwo(rest) /\ ~(rest < 128)
  BY DEF Continues, LeadsTwo
<1>4. Utf8Decodable(more)
  <2> SUFFICES ASSUME NEW i \in 1..n + 2
               PROVE  /\ more[i] < 128 \/ LeadsTwo(more[i]) \/ Continues(more[i])
                      /\ LeadsTwo(more[i]) <=> (i + 1 \in 1..n + 2 /\ Continues(more[i + 1]))
                      /\ Continues(more[i]) => i > 1
    BY <1>2 DEF Utf8Decodable
  <2>1. CASE i = n + 2
    <3>1. more[i] = rest /\ i + 1 \notin 1..n + 2 /\ i > 1
      BY <1>1, <2>1
    <3> QED
      BY <1>3, <3>1
  <2>2. CASE i = n + 1
    <3>1. more[i] = lead /\ i + 1 \in 1..n + 2 /\ more[i + 1] = rest
      <4>1. i + 1 = n + 2 /\ i + 1 \in 1..n + 2
        BY <1>1, <2>2
      <4> QED
        BY <1>1, <2>2, <4>1
    <3> QED
      BY <1>3, <3>1
  <2>3. CASE i = n
    <3>1. i \in 1..n /\ i + 1 \notin 1..n /\ more[i] = bytes[i] /\ more[i + 1] = lead
      BY <1>1, <2>3
    <3> QED
      BY <1>2, <1>3, <3>1 DEF Utf8Decodable
  <2>4. CASE i < n
    <3>1. i \in 1..n /\ i + 1 \in 1..n /\ i + 1 \in 1..n + 2 /\ more[i] = bytes[i]
          /\ more[i + 1] = bytes[i + 1]
      BY <1>1, <2>4
    <3> QED
      BY <1>2, <3>1 DEF Utf8Decodable
  <2> QED
    BY <1>1, <2>1, <2>2, <2>3, <2>4
<1>5. /\ Characters(bytes) \in Seq(Seq(Nat)) /\ Len(Characters(bytes)) = n
      /\ \A i \in 1..n : StartsWith(more, i) = Characters(bytes)[i]
  <2>1. Len(more) >= Len(bytes) /\ \A i \in 1..Len(bytes) : more[i] = bytes[i]
    BY <1>1
  <2> QED
    BY <1>1, <2>1, CharactersAppend
<1>6. StartsWith(more, n + 1) = <<c>> /\ StartsWith(more, n + 2) = <<>>
  <2>1. (n + 1) + 1 = n + 2
    BY <1>1
  <2>2. more[(n + 1) + 1] = rest
    BY <1>1, <2>1
  <2>3. StartsWith(more, n + 1) = <<(lead % 32) * 64 + (rest % 64)>>
    BY <1>1, <1>3, <2>2 DEF StartsWith
  <2>4. StartsWith(more, n + 2) = <<>>
    BY <1>1, <1>3 DEF StartsWith
  <2> QED
    BY <2>3, <2>4
<1> DEFINE one == Append(Characters(bytes), <<c>>)
           two == Append(one, <<>>)
<1>7. <<c>> \in Seq(Nat) /\ <<>> \in Seq(Nat) /\ one \in Seq(Seq(Nat)) /\ Len(one) = n + 1
  BY <1>5
<1>8. Characters(more) = two
  <2>1. \A i \in 1..n + 1 : one[i] = IF i = n + 1 THEN <<c>> ELSE Characters(bytes)[i]
    BY <1>5
  <2>2. two = [i \in 1..n + 2 |-> IF i = n + 2 THEN <<>> ELSE one[i]]
    <3>1. Len(one) + 1 = n + 2
      BY <1>1, <1>7
    <3> HIDE DEF one
    <3> DEFINE none == <<>>
    <3>2. none \in Seq(Nat)
      OBVIOUS
    <3> HIDE DEF none
    <3>3. Append(one, none) =
            [i \in 1..Len(one) + 1 |-> IF i = Len(one) + 1 THEN none ELSE one[i]]
      BY <1>7, <3>2, Appended
    <3> QED
      BY <3>1, <3>3 DEF none
  <2>3. Characters(more) = [i \in 1..n + 2 |-> StartsWith(more, i)]
    BY <1>2 DEF Characters
  <2> HIDE DEF one, two
  <2>4. \A i \in 1..n + 2 : StartsWith(more, i) = IF i = n + 2 THEN <<>> ELSE one[i]
    <3> SUFFICES ASSUME NEW i \in 1..n + 2
                 PROVE  StartsWith(more, i) = IF i = n + 2 THEN <<>> ELSE one[i]
      OBVIOUS
    <3>1. CASE i = n + 2
      BY <1>6, <3>1
    <3>2. CASE i = n + 1
      <4>1. i # n + 2 /\ i \in 1..n + 1
        BY <1>1, <3>2
      <4>2. one[i] = <<c>>
        BY <2>1, <3>2, <4>1
      <4> QED
        BY <1>6, <3>2, <4>1, <4>2
    <3>3. CASE i \in 1..n
      <4>1. i # n + 1 /\ i # n + 2 /\ i \in 1..n + 1
        BY <1>1, <3>3
      <4> QED
        BY <1>5, <2>1, <3>3, <4>1
    <3> QED
      BY <1>1, <3>1, <3>2, <3>3
  <2> QED
    BY <2>2, <2>3, <2>4
<1>9. FlattenSeq(one) = FlattenSeq(Characters(bytes)) \o <<c>>
  BY <1>5, <1>7, FlattenAppend
<1>10. FlattenSeq(two) = FlattenSeq(one) \o <<>>
  <2> HIDE DEF one
  <2> QED
    BY <1>7, FlattenAppend
<1> HIDE DEF one, two
<1>11. \A s \in Seq(Byte) : Utf8Decode(s) = FlattenSeq(Characters(s))
  BY DEF Utf8Decode, Characters
<1>12. FlattenSeq(one) \o <<>> = FlattenSeq(one)
  <2>1. FlattenSeq(one) \in Seq(Nat)
    BY <1>7, <1>9, <1>11
  <2> HIDE DEF one
  <2> QED
    BY <2>1
<1>13. Utf8Decode(more) = Utf8Decode(bytes) \o <<c>>
  BY <1>1, <1>8, <1>9, <1>10, <1>11, <1>12
<1> QED
  BY <1>4, <1>13 DEF more

-----------------------------------------------------------------------------
(* The inductive invariant: the value is the encoded record, it can be     *)
(* decoded, and decodes to the record.                                     *)
Encoded ==
  /\ record \in Seq(Byte) /\ value \in Seq(Byte)
  /\ value = Utf8Encode(Latin1Decode(record))
  /\ Utf8Decodable(value) /\ Utf8Decode(value) = record

LEMMA InitEncoded == CodecInit => Encoded
<1> SUFFICES ASSUME CodecInit PROVE Encoded
  OBVIOUS
<1>1. record = <<>> /\ value = <<>>
  BY DEF CodecInit
<1>2. Latin1Decode(<<>>) = <<>>
  BY DEF Latin1Decode
<1>3. [i \in DOMAIN <<>> |-> Utf8(<<>>[i])] = <<>> /\ [i \in DOMAIN <<>> |-> StartsWith(<<>>, i)] = <<>>
  OBVIOUS
<1>4. FlattenSeq(<<>>) = <<>>
  BY DEF FlattenSeq
<1>5. Utf8Encode(<<>>) = <<>> /\ Utf8Decode(<<>>) = <<>>
  BY <1>3, <1>4 DEF Utf8Encode, Utf8Decode
<1> QED
  BY <1>1, <1>2, <1>5 DEF Encoded, Utf8Decodable

LEMMA NextEncoded == Encoded /\ [CodecNext]_codec => Encoded'
<1> SUFFICES ASSUME Encoded, [CodecNext]_codec PROVE Encoded'
  OBVIOUS
<1>1. ASSUME NEW b \in Bytes, Send(b) PROVE Encoded'
  <2>1. b \in Byte /\ record \in Seq(Byte) /\ value \in Seq(Byte)
    BY CodecAssumption DEF Encoded
  <2>2. record' = Append(record, b) /\ value' = Utf8Encode(Latin1Decode(record'))
    BY <1>1 DEF Send
  <2>3. value' = value \o Utf8(b)
    BY <2>1, <2>2, EncodedByte DEF Encoded
  <2>4. record' \in Seq(Byte) /\ record' = record \o <<b>>
    BY <2>1, <2>2
  <2>5. value' \in Seq(Byte)
    BY <2>1, <2>3, Utf8Bytes
  <2>6. Utf8Decodable(value') /\ Utf8Decode(value') = record \o <<b>>
    <3>1. CASE b < 128
      <4>1. b \in 0..127 /\ Utf8(b) = <<b>>
        <5>1. Utf8(b) = <<b>>
          BY <2>1, <3>1, Utf8Bytes
        <5>2. b \in 0..127
          BY <2>1, <3>1 DEF Byte
        <5> QED
          BY <5>1, <5>2
      <4>2. value' = Append(value, b)
        BY <2>1, <2>3, <4>1
      <4>3. Utf8Decodable(value) /\ Utf8Decode(value) = record
        BY DEF Encoded
      <4>4. Utf8Decodable(Append(value, b)) /\ Utf8Decode(Append(value, b)) = Utf8Decode(value) \o <<b>>
        BY <2>1, <4>1, <4>3, DecodedByte
      <4> QED
        BY <4>2, <4>3, <4>4
    <3>2. CASE b >= 128
      <4>1. PICK lead \in 194..195, rest \in 128..191 :
              Utf8(b) = <<lead, rest>> /\ (lead % 32) * 64 + (rest % 64) = b
        BY <2>1, <3>2, Utf8Bytes
      <4>2. b \in Nat /\ record \in Seq(Nat)
        BY <2>1, ByteNumbers
      <4>3. Utf8Decodable(value) /\ Utf8Decode(value) = record
        BY DEF Encoded
      <4>4. /\ Utf8Decodable(value \o <<lead, rest>>)
            /\ Utf8Decode(value \o <<lead, rest>>) = Utf8Decode(value) \o <<b>>
        BY <2>1, <4>1, <4>2, <4>3, DecodedPair
      <4> QED
        BY <2>3, <4>1, <4>3, <4>4
    <3> QED
      BY <2>1, <3>1, <3>2 DEF Byte
  <2> QED
    BY <2>2, <2>4, <2>5, <2>6 DEF Encoded
<1>2. CASE UNCHANGED codec
  BY <1>2 DEF Encoded, codec
<1> QED
  BY <1>1, <1>2 DEF CodecNext

LEMMA EncodedSurvives == Encoded => RecordSurvives
<1> SUFFICES ASSUME Encoded PROVE RecordSurvives
  OBVIOUS
<1>1. record \in Seq(Byte) /\ Utf8Decodable(value) /\ Utf8Decode(value) = record
  BY DEF Encoded
<1>2. \A i \in DOMAIN record : record[i] \in Byte /\ record[i] % 256 = record[i]
  <2>1. \A c \in Byte : c % 256 = c
    BY DEF Byte
  <2> QED
    BY <1>1, <2>1
<1>3. Latin1Encodable(record)
  BY <1>2 DEF Latin1Encodable
<1>4. Latin1Encode(record) = record
  <2>1. record = [i \in DOMAIN record |-> record[i]]
    BY <1>1
  <2> QED
    BY <1>2, <2>1 DEF Latin1Encode
<1> QED
  BY <1>1, <1>3, <1>4 DEF RecordSurvives, Readable, BytesRead

(* RecordSurvives is an invariant for records of any bytes and any length: *)
(* the utf-8 value that the Flink sink writes can always be decoded by the *)
(* Spark job, and encoding it in latin1 gives the Avro bytes               *)
(* (merge_streams_avro.py:118, read_streaming_data.py:138-139).            *)
THEOREM RecordsSurvive == CodecSpec => []RecordSurvives
<1>1. Encoded /\ [CodecNext]_codec => Encoded'
  BY NextEncoded
<1> QED
  BY InitEncoded, <1>1, EncodedSurvives, PTL DEF CodecSpec
=============================================================================
