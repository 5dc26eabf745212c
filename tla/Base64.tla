------------------------------- MODULE Base64 -------------------------------
(***************************************************************************)
(* decode_base64 of main/ota_update.c, against what base64 is.  A text is  *)
(* a sequence of character codes, a chunk of firmware a sequence of bytes. *)
(***************************************************************************)
EXTENDS Integers, Sequences, SequencesExt

Pad == 61   (* '=' *)

(* base64_value: the value of a character code, -1 for one that has none.  *)
base64_value(c) ==
  CASE c \in 65 .. 90  -> c - 65        (* A-Z *)
    [] c \in 97 .. 122 -> c - 97 + 26   (* a-z *)
    [] c \in 48 .. 57  -> c - 48 + 52   (* 0-9 *)
    [] c = 43          -> 62            (* '+' *)
    [] c = 47          -> 63            (* '/' *)
    [] OTHER           -> -1

Decoded(err, bytes) == [err |-> err, bytes |-> bytes]

(* Four characters to one, two or three bytes.                             *)
QuadBytes(quad) ==
  LET val == [j \in 1 .. 4 |-> IF quad[j] = Pad THEN 0 ELSE base64_value(quad[j])]
      pad == Len(SelectSeq(quad, LAMBDA c : c = Pad))
  IN SubSeq(<< (val[1] * 4 + val[2] \div 16) % 256,
               ((val[2] % 16) * 16 + val[3] \div 4) % 256,
               ((val[3] % 4) * 64 + val[4]) % 256 >>, 1, 3 - pad)

(* Mutant: padding in the middle of a text is let through.                 *)
QuadValid_PadAnywhere(quad, is_last) ==
  \A j \in 1 .. 4 :
    IF quad[j] = Pad
    THEN j > 2
    ELSE base64_value(quad[j]) >= 0 /\ \A k \in 1 .. j - 1 : quad[k] # Pad

(* Padding only at the end of the text, and only for the last two.         *)
QuadValid(quad, is_last) ==
  \A j \in 1 .. 4 :
    IF quad[j] = Pad
    THEN j > 2 /\ is_last
    ELSE base64_value(quad[j]) >= 0 /\ \A k \in 1 .. j - 1 : quad[k] # Pad

decode_base64(src, dst_len) ==
  LET step(acc, i) ==
        LET quad  == SubSeq(src, 4 * i - 3, 4 * i)
            bytes == acc.bytes \o QuadBytes(quad)
        IN IF acc.err # "ok" THEN acc
           ELSE IF ~QuadValid(quad, 4 * i = Len(src)) THEN Decoded("invalid_arg", <<>>)
           ELSE IF Len(bytes) > dst_len THEN Decoded("invalid_size", <<>>)
           ELSE Decoded("ok", bytes)
  IN IF Len(src) = 0 \/ Len(src) % 4 # 0
     THEN Decoded("invalid_arg", <<>>)
     ELSE FoldLeft(step, Decoded("ok", <<>>), [i \in 1 .. Len(src) \div 4 |-> i])

-----------------------------------------------------------------------------
(* What base64 is: the characters carry six bits each, the bytes eight.    *)

Bits(v, width) == [k \in 1 .. width |-> (v \div 2 ^ (width - k)) % 2]

Symbols(text) == SelectSeq(text, LAMBDA c : c # Pad)
TextBits(text)  == FlattenSeq([i \in DOMAIN text |-> Bits(base64_value(text[i]), 6)])
ByteBits(bytes) == FlattenSeq([i \in DOMAIN bytes |-> Bits(bytes[i], 8)])

IsBase64(text) ==
  LET n == Len(Symbols(text)) IN
  /\ Len(text) > 0 /\ Len(text) % 4 = 0 /\ Len(text) - n <= 2
  /\ \A i \in DOMAIN text : (text[i] = Pad) <=> i > n
  /\ \A i \in 1 .. n : base64_value(text[i]) >= 0

(* Whole bytes, and nothing but the bits that do not fill one is left out. *)
IsDecodingOf(bytes, text) ==
  /\ Len(bytes) = (6 * Len(Symbols(text))) \div 8
  /\ ByteBits(bytes) = SubSeq(TextBits(Symbols(text)), 1, 8 * Len(bytes))

(* What a client sends: Python's base64.b64encode.                         *)
Alphabet == [v \in 0 .. 63 |-> CHOOSE c \in 43 .. 122 : base64_value(c) = v]

b64encode(bytes) ==
  LET byte(k) == IF k <= Len(bytes) THEN bytes[k] ELSE 0
      symbol(i) ==
        LET g == 3 * ((i - 1) \div 4) IN
        CASE i % 4 = 1 -> byte(g + 1) \div 4
          [] i % 4 = 2 -> (byte(g + 1) % 4) * 16 + byte(g + 2) \div 16
          [] i % 4 = 3 -> (byte(g + 2) % 16) * 4 + byte(g + 3) \div 64
          [] OTHER     -> byte(g + 3) % 64
  IN [i \in 1 .. 4 * ((Len(bytes) + 2) \div 3) |->
        IF i <= (8 * Len(bytes) + 5) \div 6 THEN Alphabet[symbol(i)] ELSE Pad]

(* A text is accepted exactly when it is base64 that fits, and yields the  *)
(* bytes whose bits it spells.                                             *)
DecodesRight(text, dst_len) ==
  LET d == decode_base64(text, dst_len) IN
  /\ d.err = "ok" <=> IsBase64(text) /\ (6 * Len(Symbols(text))) \div 8 <= dst_len
  /\ d.err = "ok" => IsDecodingOf(d.bytes, text)
=============================================================================
