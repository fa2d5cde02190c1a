------------------------------- MODULE Converter -------------------------------
(***************************************************************************)
(* The batch converters (sutf_convert) and the bridges to Unicode          *)
(* (sucs_conv.c, extsucs_conv.c): one loop over two encoding forms.  A     *)
(* converter takes a window of a source and a buffer and stops at the end  *)
(* of either, or at something ill-formed, with both pointers at the first  *)
(* codepoint it did not deliver, so that its caller can go on from there   *)
(* with more source or another buffer.  A bridge reports nothing of a call *)
(* that failed, and its caller starts again.                               *)
(***************************************************************************)
EXTENDS Codecs

CONSTANTS Jobs,   \* [from, to, flags, units]: what is to be converted, and how
          Rooms   \* the sizes of the buffers callers offer

Both(a, b) == {<<a, b>>, <<b, a>>}

(* The conversions there are: ConvertSUTF.c, ConvertSUST.c, ConvertESUTF.c, *)
(* ConvertESUST.c, and the bridges.                                        *)
SutfConversions == Both("SUTF8", "SUTF16") \cup Both("SUTF8", "SUTF32") \cup Both("SUTF16", "SUTF32")
SustConversions == Both("SUST16", "SUST32") \cup Both("SUST16", "SUCS") \cup Both("SUST32", "SUCS")
EsutfConversions ==
  Both("ESUTF8", "ESUTF64") \cup Both("ESUTF8", "ESUTF32") \cup Both("ESUTF64", "ESUTF32")
    \cup Both("ESUTF8", "SUCSBig")
EsustConversions ==
  Both("ESUST32", "ESUST64") \cup Both("ESUST32", "ESUCS") \cup Both("ESUST64", "ESUCS")
BridgeConversions == Both("UTF8", "SUTF8") \cup Both("UTF8", "VSUTF")

Conversions ==
  SutfConversions \cup SustConversions \cup EsutfConversions \cup EsustConversions
    \cup BridgeConversions

ASSUME ConverterAssumption ==
  /\ \A j \in Jobs :
       /\ <<j.from, j.to>> \in Conversions /\ j.flags \in {"strict", "lenient"}
       /\ j.units \in Seq(UnitsOf(j.from)) /\ Len(j.units) < LebCap
  /\ Rooms \subseteq Nat

VARIABLES job,
          arrived,  \* units the caller of the converter has so far
          source,   \* units consumed
          target,   \* what the running call has written
          room,     \* the size of its buffer
          pc,       \* "loop" inside the converter, "caller" outside
          result,   \* of the last call
          text,     \* the codepoints delivered
          mark,     \* how many of them earlier calls delivered
          cut       \* a codepoint whose end was still to come has been replaced

convVars == <<job, arrived, source, target, room, pc, result, text, mark, cut>>

ConvInit ==
  /\ job \in Jobs
  /\ arrived = 0 /\ source = 0
  /\ target = <<>> /\ room = 0
  /\ pc = "caller" /\ result = "none"
  /\ text = <<>> /\ mark = 0
  /\ cut = FALSE

--------------------------------------------------------------------------------
Strict == job.flags = "strict"

(* A bridge takes its whole source at once. *)
Bridge == "UTF8" \in {job.from, job.to}

(* Numbers of any size are converted one by one. *)
OneByOne == "SUCSBig" \in {job.from, job.to}

Window == SubSeq(job.units, source + 1, arrived)

Looping == pc = "loop" /\ source < arrived
Deliverable(d) == d.status = "ok" /\ Holds(job.to, d.cp)
Malformed(d) == ~Deliverable(d) /\ d.status # "truncated"

(* The lenient converters replace whatever they cannot deliver; a lenient  *)
(* bridge only what the other side cannot hold.                            *)
Replaceable(d) == ~Strict /\ ~Deliverable(d) /\ (Bridge => d.status = "ok")

(* Slip: a buffer an encoding would fill exactly counts as too small. *)
HasRoom_Spare(m) == Length(job.to, m) < room - Len(target)

HasRoom(m) == Length(job.to, m) <= room - Len(target)

Write(m) ==
  /\ target' = target \o Encode(job.to, m)
  /\ text' = Append(text, m)

Return(r) == pc' = "caller" /\ result' = r

Unwritten == UNCHANGED <<target, text, source>>

Put(d) ==
  /\ Looping /\ Deliverable(d) /\ HasRoom(d.cp)
  /\ Write(d.cp)
  /\ source' = source + d.used
  /\ IF OneByOne THEN Return("conversionOK") ELSE UNCHANGED <<pc, result>>
  /\ UNCHANGED <<job, arrived, room, mark, cut>>

Replace(d) ==
  /\ Looping /\ Malformed(d) /\ Replaceable(d) /\ HasRoom(Replacement)
  /\ Write(Replacement)
  /\ source' = source + d.used
  /\ IF OneByOne THEN Return("conversionOK") ELSE UNCHANGED <<pc, result>>
  /\ UNCHANGED <<job, arrived, room, mark, cut>>

(* A codepoint whose end is missing is replaced as well, but ends the call. *)
ReplaceCut(d) ==
  /\ Looping /\ d.status = "truncated" /\ Replaceable(d) /\ HasRoom(Replacement)
  /\ Write(Replacement)
  /\ source' = source + d.used
  /\ Return("sourceExhausted")
  /\ cut' = (cut \/ arrived < Len(job.units))
  /\ UNCHANGED <<job, arrived, room, mark>>

StopCut(d) ==
  /\ Looping /\ d.status = "truncated" /\ ~Replaceable(d) /\ ~Bridge
  /\ Return("sourceExhausted")
  /\ Unwritten
  /\ UNCHANGED <<job, arrived, room, mark, cut>>

StopIllegal(d) ==
  /\ Looping /\ ~Deliverable(d) /\ ~Replaceable(d)
  /\ d.status = "truncated" => Bridge
  /\ Return("sourceIllegal")
  /\ Unwritten
  /\ UNCHANGED <<job, arrived, room, mark, cut>>

StopFull(d) ==
  /\ Looping
  /\ \/ Deliverable(d) /\ ~HasRoom(d.cp)
     \/ Replaceable(d) /\ ~HasRoom(Replacement)
  /\ Return("targetExhausted")
  /\ Unwritten
  /\ UNCHANGED <<job, arrived, room, mark, cut>>

Finish ==
  /\ pc = "loop" /\ source = arrived /\ ~OneByOne
  /\ Return("conversionOK")
  /\ Unwritten
  /\ UNCHANGED <<job, arrived, room, mark, cut>>

(* The caller. *)
Ended ==
  /\ pc = "caller"
  /\ \/ result = "sourceIllegal"
     \/ arrived = Len(job.units) /\ result \in {"conversionOK", "sourceExhausted"}
        /\ (OneByOne => source = arrived \/ result = "sourceExhausted")

(* The next call: with more source, or a larger buffer if the last one was *)
(* too small for a single codepoint, or as before if only the buffer was   *)
(* full.  The buffer's contents are taken away first; after a bridge that  *)
(* failed there is nothing to take.                                        *)
Call(end, size) ==
  /\ pc = "caller" /\ ~Ended
  /\ end >= arrived
  /\ Bridge => end = Len(job.units)
  /\ OneByOne => end > source
  /\ result \in {"conversionOK", "sourceExhausted"} =>
       end > arrived \/ (OneByOne /\ result = "conversionOK")
  /\ result = "targetExhausted" /\ (target = <<>> \/ Bridge) => size > room
  /\ arrived' = end /\ room' = size
  /\ target' = <<>>
  /\ IF Bridge
       THEN source' = 0 /\ text' = <<>> /\ mark' = 0
       ELSE mark' = Len(text) /\ UNCHANGED <<source, text>>
  /\ pc' = "loop" /\ UNCHANGED <<job, result, cut>>

(* One turn of the loop.  Window and codepoint are named by quantifiers to *)
(* have TLC compute each once.                                             *)
Convert ==
  \/ \E w \in {Window} : \E d \in {Decode(job.from, w)} :
       Put(d) \/ Replace(d) \/ ReplaceCut(d) \/ StopCut(d) \/ StopIllegal(d) \/ StopFull(d)
  \/ Finish

ConvNext == Convert \/ \E end \in 0 .. Len(job.units), size \in Rooms : Call(end, size)

ConvSpec == ConvInit /\ [][ConvNext]_convVars

(* A converter is a function without waiting, and its caller goes on until *)
(* the conversion ended.                                                   *)
FairSpec == ConvSpec /\ WF_convVars(ConvNext)

--------------------------------------------------------------------------------
(* What one call with the whole source and a large enough buffer delivers. *)
Whole(j) ==
  LET n == Len(j.units)
      bridge == "UTF8" \in {j.from, j.to}
      rest[i \in 1 .. n + 1] ==
        LET d == Decode(j.from, SubSeq(j.units, i, n))
        IN IF i > n THEN <<>>
           ELSE IF d.status = "ok" /\ Holds(j.to, d.cp) THEN <<d.cp>> \o rest[i + d.used]
           ELSE IF j.flags = "strict" \/ (bridge /\ d.status # "ok") THEN <<>>
           ELSE IF d.status = "truncated" THEN <<Replacement>>
           ELSE <<Replacement>> \o rest[i + d.used]
  IN rest[1]

(* The isLegal functions. *)
IsLegal(form, s) ==
  LET rest[i \in 1 .. Len(s) + 1] ==
        LET d == Decode(form, SubSeq(s, i, Len(s)))
        IN i > Len(s) \/ (d.status = "ok" /\ rest[i + d.used])
  IN rest[1]

Encodings(form, cps) == FlattenSeq([i \in 1 .. Len(cps) |-> Encode(form, cps[i])])

--------------------------------------------------------------------------------
(* A strict conversion succeeds on legal sources only, and on all of them  *)
(* whose codepoints the target can hold.                                   *)
LegalAgrees ==
  Ended /\ Strict =>
    LET legal == IsLegal(job.from, job.units)
        next == Decode(job.from, Window)
    IN /\ result = "conversionOK" => legal
       /\ legal /\ result # "conversionOK" => next.status = "ok" /\ ~Holds(job.to, next.cp)

(* The buffer holds the encodings of exactly the codepoints the call has   *)
(* delivered, and a strict conversion has consumed exactly theirs: decoding *)
(* undoes encoding, there is one encoding for each codepoint, and neither  *)
(* pointer runs ahead of the other when a call stops early.                *)
Faithful ==
  /\ LegalAgrees
  /\ target = Encodings(job.to, SubSeq(text, mark + 1, Len(text)))
  /\ Strict => SubSeq(job.units, 1, source) = Encodings(job.from, text)

(* However source and buffers are cut into pieces, the text is the one an  *)
(* uninterrupted conversion delivers.  ConvertSUTF.h asks callers to pass  *)
(* the rest of the source again; only a lenient call whose window ends     *)
(* inside a codepoint commits itself.                                      *)
Seamless ==
  pc = "caller" /\ ~cut =>
    LET whole == Whole(job)
    IN IsPrefix(text, whole) /\ (Ended => text = whole)

(* The length asked for beforehand is the length written: no call writes   *)
(* behind its buffer, replacements included.  A number of any size is the  *)
(* only one its call writes, and its limbs are there.                      *)
RoomKept ==
  IF job.to = "SUCSBig"
    THEN Len(target) <= 1 /\ \A i \in DOMAIN target : Limbs(target[i]) <= room
    ELSE Len(target) <= room

(* Every conversion ends: each call consumes or writes something or makes  *)
(* its caller bring more.                                                  *)
ConversionEnds == <>Ended
================================================================================
