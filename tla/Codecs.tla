-------------------------------- MODULE Codecs --------------------------------
(***************************************************************************)
(* The encoding forms of SuperUnicode (SUTR-1 to SUTR-4) as operators: what *)
(* one step of a decoder finds at the front of a source, and what encoding *)
(* a codepoint writes.                                                     *)
(*                                                                         *)
(* A codepoint is its magnitude: its bytes from the most significant one,  *)
(* without leading zeros, so that values have no upper bound.  A unit is a *)
(* byte, a 16-bit word, or in the forms of one unit for each codepoint the *)
(* magnitude itself.                                                       *)
(***************************************************************************)
EXTENDS Integers, Sequences, FiniteSetsExt, SequencesExt

Strip(s) ==
  LET first == SelectInSeq(s, LAMBDA b : b # 0)
  IN IF first = 0 THEN <<>> ELSE SubSeq(s, first, Len(s))

Pad(m, n) == [i \in 1 .. n |-> IF i <= n - Len(m) THEN 0 ELSE m[i - n + Len(m)]]

(* Values below 2^31. *)
Narrow(m) == Len(m) < 4 \/ (Len(m) = 4 /\ m[1] < 128)
NatOf(m) == LET p == Pad(m, 4) IN 16777216 * p[1] + 65536 * p[2] + 256 * p[3] + p[4]
MagnitudeOf[v \in Nat] ==
  Strip(<<v \div 16777216, (v \div 65536) % 256, (v \div 256) % 256, v % 256>>)

(* The kernel traps 7FFFFFF0 to 7FFFFFFE and, in Base SUCS, the sentinel. *)
InTopRow(m) == Len(m) = 4 /\ SubSeq(m, 1, 3) = <<127, 255, 255>> /\ m[4] >= 240
Valid(domain, m) ==
  CASE domain = "Base" -> Narrow(m) /\ ~InTopRow(m)
    [] domain = "Ext" -> ~(InTopRow(m) /\ m[4] # 255)
    [] domain = "Unicode" -> Narrow(m) /\ NatOf(m) <= 1114111 /\ NatOf(m) \notin 55296 .. 57343

Replacement == <<255, 253>>

--------------------------------------------------------------------------------
(* What a decoder finds: a codepoint, something ill-formed, or too little, *)
(* and how many units belong to it.                                        *)
Decoded(m, used) == [status |-> "ok", cp |-> m, used |-> used]
Invalid(used) == [status |-> "invalid", cp |-> <<>>, used |-> used]
Truncated(used) == [status |-> "truncated", cp |-> <<>>, used |-> used]
Checked(valid, m, used) == IF valid THEN Decoded(m, used) ELSE Invalid(used)

(* The multi-byte forms of one to six bytes: the least and the greatest    *)
(* value of each, and its first byte for 0.                                *)
FirstOf == <<0, 128, 2048, 65536, 1114112, 67108864>>
LastOf == <<127, 2047, 65535, 1114111, 67108863, 2147483647>>
LeadOf == <<0, 192, 224, 240, 248, 252>>

(* What is behind a byte, by the number of bytes that still follow it. *)
Shift == <<1, 64, 4096, 262144, 16777216, 1073741824>>

(* The length a first byte announces; 0 if it is not a first byte. *)
LeadLength(b) ==
  IF b \in 128 .. 191 \cup 254 .. 255 THEN 0 ELSE Max({n \in 1 .. 6 : LeadOf[n] <= b})

MultiByteValue(s, n) ==
  LET upTo[i \in 0 .. n - 1] ==
        IF i = 0 THEN s[1] - LeadOf[n] ELSE 64 * upTo[i - 1] + (s[i + 1] % 64)
  IN upTo[n - 1]

(* Slip: overlong forms are accepted. *)
MultiByte_Overlong(s, domain) ==
  LET n == LeadLength(s[1])
      m == MagnitudeOf[MultiByteValue(s, n)]
  IN IF n = 0 THEN Invalid(1)
     ELSE IF Len(s) < n THEN Truncated(Len(s))
     ELSE IF \E i \in 2 .. n : s[i] \notin 128 .. 191 THEN Invalid(1)
     ELSE Checked(Valid(domain, m), m, n)

(* Slip: the announced length is not compared with what is there before    *)
(* the bytes are looked at, and the missing ones pass for ill-formed ones. *)
MultiByte_Eager(s, domain) ==
  LET n == LeadLength(s[1])
      v == MultiByteValue(s, n)
      m == MagnitudeOf[v]
  IN IF n = 0 \/ Len(s) < n THEN Invalid(1)
     ELSE IF \E i \in 2 .. n : s[i] \notin 128 .. 191 THEN Invalid(1)
     ELSE Checked(v \in FirstOf[n] .. LastOf[n] /\ Valid(domain, m), m, n)

MultiByte(s, domain) ==
  LET n == LeadLength(s[1])
      v == MultiByteValue(s, n)
      m == MagnitudeOf[v]
  IN IF n = 0 THEN Invalid(1)
     ELSE IF Len(s) < n THEN Truncated(Len(s))
     ELSE IF \E i \in 2 .. n : s[i] \notin 128 .. 191 THEN Invalid(1)
     ELSE Checked(v \in FirstOf[n] .. LastOf[n] /\ Valid(domain, m), m, n)

HighBit == 32768
MaxWord == 65535

(* One word below 8000, or a word with the high bit and the low half. *)
Words(s) ==
  LET m == Strip(<<(s[1] % HighBit) \div 256, s[1] % 256, s[2] \div 256, s[2] % 256>>)
  IN IF s[1] < HighBit THEN Checked(Valid("Base", MagnitudeOf[s[1]]), MagnitudeOf[s[1]], 1)
     ELSE IF Len(s) < 2 THEN Truncated(1)
     ELSE Checked(NatOf(m) >= HighBit /\ Valid("Base", m), m, 2)

(* The same words as bytes, the high one first. *)
WordBytes(s) ==
  LET n == IF s[1] >= 128 THEN 4 ELSE 2
      d == Words([i \in 1 .. n \div 2 |-> 256 * s[2 * i - 1] + s[2 * i]])
  IN IF Len(s) < n THEN Truncated(Len(s)) ELSE [d EXCEPT !.used = 2 * @]

Unit(s, domain) == Checked(Valid(domain, s[1]), s[1], 1)

Container(s, n, domain) ==
  LET m == Strip(SubSeq(s, 1, n))
  IN IF Len(s) < n THEN Truncated(Len(s)) ELSE Checked(Valid(domain, m), m, n)

(* The frame of FE and eight bytes. *)
LongFrame(s) ==
  LET m == Strip(SubSeq(s, 2, 9))
  IN IF Len(s) < 9 THEN Truncated(Len(s)) ELSE Checked(~Narrow(m) /\ Valid("Ext", m), m, 9)

(* A LEB128 number.  More than three digits only say that it is longer than *)
(* any source: LebCap.  Numbers of ten digits, where the code looks for    *)
(* overflow, are left out.                                                 *)
LebUnit == <<1, 128, 16384>>
LebCap == 2097152
LebValue(digits) ==
  LET part(i) == IF i \in DOMAIN digits THEN LebUnit[i] * (digits[i] % 128) ELSE 0
  IN IF Len(digits) > 3 THEN LebCap ELSE part(1) + part(2) + part(3)
LebOf(n) ==
  LET size == Max({1} \cup {i \in 1 .. 3 : n >= LebUnit[i]})
  IN [i \in 1 .. size |-> ((n \div LebUnit[i]) % 128) + (IF i < size THEN 128 ELSE 0)]

(* The frame of FF, a length, and that many bytes. *)
BigFrame(s) ==
  LET ends == {i \in 2 .. Len(s) : s[i] < 128}
      end == Min(ends)
      size == LebValue(SubSeq(s, 2, end))
  IN IF ends = {} THEN Truncated(Len(s))
     ELSE IF (end > 2 /\ s[end] = 0) \/ size < 9 THEN Invalid(end)
     ELSE IF Len(s) < end + size THEN Truncated(Len(s))
     ELSE Checked(s[end + 1] # 0, SubSeq(s, end + 1, end + size), end + size)

Esutf8(s) ==
  CASE s[1] = 255 -> BigFrame(s)
    [] s[1] = 254 -> LongFrame(s)
    [] OTHER -> MultiByte(s, "Ext")

(* vsutf_decode, which knows no frame above 64 bits. *)
Vsutf(s) == IF s[1] = 255 THEN Invalid(1) ELSE Esutf8(s)

Decode(form, s) ==
  IF s = <<>> THEN Truncated(0)
  ELSE CASE form = "SUTF8" -> MultiByte(s, "Base")
         [] form = "UTF8" -> MultiByte(s, "Unicode")
         [] form = "VSUTF" -> Vsutf(s)
         [] form = "ESUTF8" -> Esutf8(s)
         [] form = "SUTF16" -> Words(s)
         [] form = "SUST16" -> WordBytes(s)
         [] form = "SUST32" -> Container(s, 4, "Base")
         [] form = "ESUST32" -> Container(s, 4, "Ext")
         [] form = "ESUST64" -> Container(s, 8, "Ext")
         [] form \in {"SUTF32", "SUCS"} -> Unit(s, "Base")
         [] form \in {"ESUTF32", "ESUTF64", "ESUCS", "SUCSBig"} -> Unit(s, "Ext")

(* The units a form is made of. *)
Magnitudes(n) == {m \in Seq(0 .. 255) : Len(m) <= n /\ (m # <<>> => m[1] # 0)}
UnitsOf(form) ==
  CASE form \in {"SUTF8", "UTF8", "ESUTF8", "VSUTF", "SUST16", "SUST32", "ESUST32", "ESUST64"} ->
         0 .. 255
    [] form = "SUTF16" -> 0 .. MaxWord
    [] form \in {"SUTF32", "SUCS", "ESUTF32"} -> Magnitudes(4)
    [] form \in {"ESUTF64", "ESUCS"} -> Magnitudes(8)
    [] form = "SUCSBig" -> Magnitudes(LebCap - 1)

(* The codepoints a form can hold. *)
Holds(form, m) ==
  CASE form \in {"SUTF8", "SUTF16", "SUTF32", "SUST16", "SUST32", "SUCS"} -> Valid("Base", m)
    [] form = "UTF8" -> Valid("Unicode", m)
    [] form \in {"ESUTF32", "ESUST32"} -> Valid("Ext", m) /\ Len(m) <= 4
    [] form \in {"ESUTF64", "ESUST64", "ESUCS", "VSUTF"} -> Valid("Ext", m) /\ Len(m) <= 8
    [] form \in {"ESUTF8", "SUCSBig"} -> Valid("Ext", m)

--------------------------------------------------------------------------------
EncodeBytes(m) ==
  LET v == NatOf(m)
      n == Min({i \in 1 .. 6 : v <= LastOf[i]})
  IN [i \in 1 .. n |-> IF i = 1 THEN LeadOf[n] + (v \div Shift[n])
                       ELSE 128 + ((v \div Shift[n - i + 1]) % 64)]

EncodeWords(m) ==
  LET v == NatOf(m)
  IN IF v < HighBit THEN <<v>> ELSE <<HighBit + (v \div 65536), v % 65536>>

EncodeWordBytes(m) ==
  LET w == EncodeWords(m)
  IN [i \in 1 .. 2 * Len(w) |->
        IF i % 2 = 1 THEN w[(i + 1) \div 2] \div 256 ELSE w[i \div 2] % 256]

EncodeFrame(m) ==
  CASE Narrow(m) -> EncodeBytes(m)
    [] ~Narrow(m) /\ Len(m) <= 8 -> <<254>> \o Pad(m, 8)
    [] OTHER -> <<255>> \o LebOf(Len(m)) \o m

Encode(form, m) ==
  CASE form \in {"SUTF8", "UTF8"} -> EncodeBytes(m)
    [] form \in {"ESUTF8", "VSUTF"} -> EncodeFrame(m)
    [] form = "SUTF16" -> EncodeWords(m)
    [] form = "SUST16" -> EncodeWordBytes(m)
    [] form \in {"SUST32", "ESUST32"} -> Pad(m, 4)
    [] form = "ESUST64" -> Pad(m, 8)
    [] form \in {"SUTF32", "SUCS", "ESUTF32", "ESUTF64", "ESUCS", "SUCSBig"} -> <<m>>

(* The functions callers ask beforehand how much room an encoding takes. *)
ByteLength(m) == Cardinality({i \in 1 .. 6 : NatOf(m) >= FirstOf[i]})
WordLength(m) == IF NatOf(m) < HighBit THEN 1 ELSE 2
FrameLength(m) ==
  CASE Narrow(m) -> ByteLength(m)
    [] ~Narrow(m) /\ Len(m) <= 8 -> 9
    [] OTHER -> 1 + Len(LebOf(Len(m))) + Len(m)

(* A number of any size takes its limbs of 32 bits. *)
Limbs(m) == (Len(m) + 3) \div 4

(* Slip: the length of SUST-16 is taken for the one of SUTF-16. *)
Length_Words(form, m) ==
  CASE form \in {"SUTF8", "UTF8"} -> ByteLength(m)
    [] form \in {"ESUTF8", "VSUTF"} -> FrameLength(m)
    [] form \in {"SUTF16", "SUST16"} -> WordLength(m)
    [] form \in {"SUST32", "ESUST32"} -> 4
    [] form = "ESUST64" -> 8
    [] form \in {"SUTF32", "SUCS", "ESUTF32", "ESUTF64", "ESUCS"} -> 1
    [] form = "SUCSBig" -> Limbs(m)

Length(form, m) ==
  CASE form \in {"SUTF8", "UTF8"} -> ByteLength(m)
    [] form \in {"ESUTF8", "VSUTF"} -> FrameLength(m)
    [] form = "SUTF16" -> WordLength(m)
    [] form = "SUST16" -> 2 * WordLength(m)
    [] form \in {"SUST32", "ESUST32"} -> 4
    [] form = "ESUST64" -> 8
    [] form \in {"SUTF32", "SUCS", "ESUTF32", "ESUTF64", "ESUCS"} -> 1
    [] form = "SUCSBig" -> Limbs(m)
================================================================================
