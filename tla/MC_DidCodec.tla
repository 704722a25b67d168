---------------------------- MODULE MC_DidCodec ----------------------------
(* DidCodec on byte strings of up to six bytes drawn from the keys, the   *)
(* small lengths and the continuation bytes the decoder branches on, with *)
(* 10-bit uint64/int and 5-bit int32 (field numbers up to 15).              *)
EXTENDS DidCodec

(* 0x0a, 0x22, 0x52: the keys of Context, VerificationMethod and Service  *)
(* (and of Id and PublicKeyJwk inside the nested messages); 0x0c an       *)
(* end-group key; 0x60, 0x62, 0x63 the varint, length-delimited and       *)
(* start-group keys of the unknown field 12; 0x92 0x02 the key of field   *)
(* 34, which int32 truncation reads as field 2; 0x80 and 0xff             *)
(* continuation bytes; 0xff 0x03 the length 511, whose end wraps int.    *)
MCBytes == {0, 1, 2, 3, 10, 12, 34, 82, 96, 98, 99, 128, 146, 255}
============================================================================
