------------------------------ MODULE MCConverter ------------------------------
(* Every pair of forms the code converts between, strictly and leniently,  *)
(* over sources of up to two pieces: for each form the shortest and the    *)
(* longest encodings, the values next to its limits, and everything its    *)
(* decoder refuses.                                                        *)
EXTENDS Converter

Multi ==
  {<<65>>, <<195, 169>>, <<237, 160, 128>>, <<244, 143, 191, 191>>, <<248, 132, 144, 128, 128>>,
   <<253, 191, 191, 191, 191, 175>>,
   <<>>, <<128>>, <<193, 129>>, <<244, 144, 128, 128>>, <<240, 65>>, <<253, 191, 191, 191, 191, 176>>}
MultiEnds == {<<>>, <<66>>, <<226, 130>>, <<254, 131>>}

Frames ==
  {<<195, 169>>, <<253, 191, 191, 191, 191, 191>>, <<254, 0, 0, 0, 0, 128, 0, 0, 0>>,
   <<254, 1, 0, 0, 0, 0, 0, 0, 0>>, <<255, 10, 1, 0, 0, 0, 0, 0, 0, 0, 0, 2>>,
   <<253, 191, 191, 191, 191, 176>>, <<254, 0, 0, 0, 0, 0, 0, 0, 65>>, <<255, 8>>, <<255, 137, 0>>,
   <<255, 9, 0, 0, 0, 0, 0, 0, 0, 0, 2>>, <<128>>}
FrameEnds == {<<>>, <<254, 0, 1>>, <<255, 137>>}

Word ==
  {<<>>, <<65>>, <<32767>>, <<32768, 32768>>, <<32785, 0>>, <<65535, 65519>>,
   <<32768, 65>>, <<65535, 65520>>, <<65535, 65535>>}
WordEnds == {<<>>, <<66>>, <<32769>>}

Bytes(words) ==
  [i \in 1 .. 2 * Len(words) |->
     IF i % 2 = 1 THEN words[(i + 1) \div 2] \div 256 ELSE words[i \div 2] % 256]

Single ==
  {<<>>, <<65>>, <<216, 0>>, <<16, 255, 255>>, <<127, 255, 255, 239>>,
   <<127, 255, 255, 240>>, <<127, 255, 255, 255>>, <<128, 0, 0, 0>>}
Long == {<<255, 255, 255, 255>>, <<1, 0, 0, 0, 0>>, <<255, 0, 0, 0, 0, 0, 0, 0>>}
Huge == {<<1, 0, 0, 0, 0, 0, 0, 0, 0, 0>>}

Then(P, Q) == {p \o q : p \in P, q \in Q}
Pairs(S) == {<<a, b>> : a \in S, b \in {<<66>>, <<127, 255, 255, 242>>}}

Sources(form) ==
  CASE form \in {"SUTF8", "UTF8"} -> Then(Multi, MultiEnds)
    [] form \in {"ESUTF8", "VSUTF"} -> Then(Frames, FrameEnds)
    [] form = "SUTF16" -> Then(Word, WordEnds)
    [] form = "SUST16" -> Then({Bytes(w) : w \in Word}, {<<>>, <<0, 66>>, <<128, 1, 0>>, <<128>>})
    [] form \in {"SUST32", "ESUST32"} -> Then({Pad(m, 4) : m \in Single}, {<<>>, <<0, 0, 0, 66>>, <<1>>})
    [] form = "ESUST64" -> Then({Pad(m, 8) : m \in Single \cup Long}, {<<>>, <<0, 1, 0>>})
    [] form \in {"SUTF32", "SUCS", "ESUTF32"} -> Pairs(Single)
    [] form \in {"ESUTF64", "ESUCS"} -> Pairs(Single \cup Long)
    [] form = "SUCSBig" -> Pairs(Single \cup Long \cup Huge)

MCJobs ==
  UNION {{[from |-> c[1], to |-> c[2], flags |-> f, units |-> s] :
            f \in {"strict", "lenient"},
            s \in {u \in Sources(c[1]) : "SUCSBig" \in {c[1], c[2]} => u # <<>>}} : c \in Conversions}
================================================================================
