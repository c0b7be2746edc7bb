------------------------------- MODULE Codec -------------------------------
(***************************************************************************)
(* The way of a serialized record through the merge topic.  The Flink job  *)
(* turns its Avro bytes into a string (latin1), the sink writes the string *)
(* (utf-8); the Spark job decodes the value of the message (utf-8) and     *)
(* encodes the string (latin1) to get the bytes the deserializer wants.    *)
(***************************************************************************)
EXTENDS Integers, SequencesExt

CONSTANTS Bytes,       \* the bytes of a record
          MaxLength    \* bound: the length of a record

Byte == 0..255

ASSUME CodecAssumption == Bytes \subseteq Byte /\ MaxLength \in Nat

VARIABLES record,    \* the bytes of the record
          value      \* the value of its message

codec == <<record, value>>

-----------------------------------------------------------------------------
(* latin1: the code point of a byte is its number; a string with a code    *)
(* point above 255 cannot be encoded.                                      *)
Latin1Decode(bytes) == [i \in DOMAIN bytes |-> bytes[i]]
Latin1Encodable(string) == \A i \in DOMAIN string : string[i] \in Byte
Latin1Encode(string) == [i \in DOMAIN string |-> string[i] % 256]

(* Mutant of Utf8: a code point below 256 takes one byte.                  *)
OneByte(c) == <<c>>

(* utf-8 of a code point below 2048. *)
Utf8(c) == IF c < 128 THEN <<c>> ELSE <<192 + c \div 64, 128 + (c % 64)>>

Utf8Encode(string) == FlattenSeq([i \in DOMAIN string |-> Utf8(string[i])])

Continues(b) == b \in 128..191
LeadsTwo(b) == b \in 194..223

(* What keeps a value from being decoded; the longer forms of utf-8 are    *)
(* left out and are refused.                                               *)
Utf8Decodable(bytes) ==
  \A i \in DOMAIN bytes :
    /\ bytes[i] < 128 \/ LeadsTwo(bytes[i]) \/ Continues(bytes[i])
    /\ LeadsTwo(bytes[i]) <=> (i + 1 \in DOMAIN bytes /\ Continues(bytes[i + 1]))
    /\ Continues(bytes[i]) => i > 1

(* The character that starts with byte i, if one does. *)
StartsWith(bytes, i) ==
  CASE bytes[i] < 128 -> <<bytes[i]>>
    [] Continues(bytes[i]) -> <<>>
    [] OTHER -> <<(bytes[i] % 32) * 64 + (bytes[i + 1] % 64)>>

Utf8Decode(bytes) == FlattenSeq([i \in DOMAIN bytes |-> StartsWith(bytes, i)])

-----------------------------------------------------------------------------
CodecInit == record = <<>> /\ value = <<>>

(* A record with one byte more is serialized and sent. *)
Send(b) ==
  /\ Len(record) < MaxLength
  /\ record' = Append(record, b)
  /\ value' = Utf8Encode(Latin1Decode(record'))

CodecNext == \E b \in Bytes : Send(b)

CodecSpec == CodecInit /\ [][CodecNext]_codec

(* process_raw, up to the call of the deserializer. *)
Readable == Utf8Decodable(value) /\ Latin1Encodable(Utf8Decode(value))
BytesRead == Latin1Encode(Utf8Decode(value))

(* Whatever its bytes are, a record can be decoded, and the deserializer   *)
(* gets the bytes the serializer gave (merge_streams_avro.py:118,          *)
(* read_streaming_data.py:138-139).                                        *)
RecordSurvives == Readable /\ BytesRead = record
=============================================================================
