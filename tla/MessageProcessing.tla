---------------------------- MODULE MessageProcessing ----------------------------
(***************************************************************************)
(* common/message_processor/MessageProcessing.hpp: an Envelope is a struct *)
(* of fixed size that travels as a protobuf message.  The conversions keep *)
(* the stamp, the types and the two user ids.  The payload they treat as a *)
(* C string: what follows its first zero byte is not carried.  The sizes   *)
(* in the header are not converted, nor read by anybody, and are left out. *)
(***************************************************************************)
EXTENDS Naturals, Sequences

CONSTANTS Chars, NUL,   \* the bytes of a text; the zero byte
          PayloadSize   \* sizeof(Envelope::payload)

ASSUME PayloadAssumption == PayloadSize \in Nat \ {0} /\ NUL \notin Chars

Payloads == [1 .. PayloadSize -> Chars \cup {NUL}]

\* The text in a char array that holds a zero byte.
CString(b) ==
  LET last == CHOOSE i \in 1 .. PayloadSize : b[i] = NUL /\ \A j \in 1 .. i - 1 : b[j] # NUL
  IN  [i \in 1 .. last - 1 |-> b[i]]

\* A char array set to zero into which n bytes of s have been copied.
Copied(s, n) == [i \in 1 .. PayloadSize |-> IF i <= n THEN s[i] ELSE NUL]

\* Texts scanf("%s") can read without writing past the array.
Texts == UNION {[1 .. n -> Chars] : n \in 0 .. PayloadSize - 1}

\* set_payload of raw_env.payload takes it for a const char*.
putEnvToProtoBuf(raw_env) == [raw_env EXCEPT !.payload = CString(@)]

\* memset, then memcpy of strlen bytes.
getEnvFromProtoBuf(proto_env) == [proto_env EXCEPT !.payload = Copied(@, Len(@))]
================================================================================
