---------------------------- MODULE MCHttpResponse ----------------------------
(* Instances of the responses for TLC: who sends what, and what is asked.  *)
EXTENDS HttpResponse, TLC

CONSTANTS c1, c2, r1, r2

Sender == r1 :> c1
EachItsOwn == r1 :> c1 @@ r2 :> c2
BothOnOne == r1 :> c1 @@ r2 :> c1

P(form, a, b) == [form |-> form, a |-> a, b |-> b]
L(name, value, pieces) == [name |-> name, value |-> value, pieces |-> pieces]
Full(path) == [path |-> path, lines |-> <<L("other", "text", <<>>)>>]
Lines(lines) == [path |-> "file", lines |-> lines]
Part(pieces) == Lines(<<L("other", "text", <<>>), L("Range", "text", pieces)>>)

LeaveAsks == r1 :> {Full("file")}

FileAsks == r1 :> {Full("file")} @@ r2 :> {Part(<<P("from", 1, 0)>>)}

PartAsks ==
  {Full("toolong"), Full("outside"), Full("file"),
   Part(<<>>), Part(<<P("from", 0, 0), P("bad", 0, 0)>>)}
    \cup {Part(<<P("suffix", 0, b)>>) : b \in -4..3}
    \cup {Part(<<P("from", a, 0), P("suffix", 0, 1)>>) : a \in 0..2}
    \cup {Part(<<P("range", a, b), P("from", 0, 0)>>) : a \in 0..2, b \in -1..3}
    \cup {Part(<<P("none", 0, 0), P("suffix", 0, 0), P("from", 0, 0)>>)}

(* Range lines that do not come first, or have nothing of their own, and   *)
(* bytes= behind the "Range:" of another line or of the path.              *)
LineAsks ==
  LET own   == L("Range", "text", <<P("from", 1, 0)>>)
      alien == L("within", "text", <<P("range", 0, 0)>>)
  IN  {Lines(<<own, L("within", "text", <<>>)>>),
       Lines(<<L("within", "text", <<>>), own>>),
       Lines(<<alien>>), Lines(<<alien, own>>), Lines(<<own, alien>>),
       Lines(<<L("Range", "none", <<>>), own>>),
       Lines(<<L("other", "text", <<>>), L("Range", "none", <<>>)>>),
       Lines(<<L("other", "text", <<>>), L("Range", "space", <<>>)>>)}

(* The second request may be read as a part of the first; on its own it is *)
(* refused at once.                                                        *)
RangeAsks ==
  r1 :> PartAsks \cup LineAsks
    @@ r2 :> {[path |-> "garbled", lines |-> <<L("Range", "text", <<P("range", 0, 0)>>)>>]}
=============================================================================
