------------------------------ MODULE HttpRequest ------------------------------
(***************************************************************************)
(* The Range header of a request, src/http_request.cpp: how the            *)
(* constructor's parse_range_header finds it among the lines of the        *)
(* request, and what parse_ranges makes of it.  Its value is the sequence  *)
(* of the pieces between the commas; a piece is known by what parse_ranges *)
(* finds on either side of its first dash:                                 *)
(*   "suffix"  -b    "from"  a-    "range"  a-b    "none"  no dash, or     *)
(* nothing beside it, and "bad" where std::stoll throws.  The text before  *)
(* the first dash has no sign, the text after it may have one.             *)
(***************************************************************************)
EXTENDS Integers, Sequences

CONSTANT OffMax  \* the largest off_t

ASSUME OffAssumption == OffMax \in Nat

Offs == (-OffMax - 1)..OffMax

(* The result n of an off_t subtraction.  Beyond the range of off_t it is  *)
(* undefined: any stands for the value that comes out of it.               *)
Off(n, any) == IF n \in Offs THEN n ELSE any

Forms == {"suffix", "from", "range", "none", "bad"}
Piece == [form : Forms, a : 0..OffMax, b : Offs]

(* A line of the request: a Range line, another line with "Range:" within  *)
(* it (If-Range: or X-Range: in front, or a path in the request line), or  *)
(* one without.  What follows "Range:" may begin with "bytes=", and then   *)
(* has pieces; it may be missing, or nothing but white space.              *)
Line ==
  {l \in [name : {"Range", "within", "other"}, value : {"text", "space", "none"},
          pieces : Seq(Piece)] :
     l.name = "other" \/ l.value # "text" => l.pieces = <<>>}

FirstOf(indices) == CHOOSE i \in indices : \A j \in indices : i <= j

-----------------------------------------------------------------------------
(* parse_range_header searches the whole text for "Range:", in any case    *)
(* and also within a longer name, and takes what follows up to the end of  *)
(* that line.  White space in front includes line ends: without a value it *)
(* takes the next line, if there is one, and else the white space itself.  *)
RangeLines(lines) ==
  {i \in 1..Len(lines) :
     /\ lines[i].name \in {"Range", "within"}
     /\ lines[i].value = "none" => i < Len(lines)}

is_range_request(lines) == RangeLines(lines) # {}

(* range_header, or rather its pieces: a header that does not begin with   *)
(* "bytes=" yields none.                                                   *)
range_header(lines) == lines[FirstOf(RangeLines(lines))].pieces

-----------------------------------------------------------------------------
Nothing == [kept |-> FALSE, start |-> 0, end |-> 0]
Keep(s, e) == [kept |-> TRUE, start |-> s, end |-> e]

(* A mutated suffix that begins one byte late.                             *)
parse_range_late(p, file_size, any) ==
  CASE p.form = "suffix" ->
         Keep(IF p.b > file_size THEN 0 ELSE Off(file_size - p.b + 1, any), file_size - 1)
    [] p.form = "from" ->
         IF p.a >= file_size THEN Nothing ELSE Keep(p.a, file_size - 1)
    [] p.form = "range" ->
         IF p.a > p.b \/ p.a >= file_size THEN Nothing
         ELSE Keep(p.a, IF p.b >= file_size THEN file_size - 1 ELSE p.b)
    [] OTHER -> Nothing

(* The body of the loop of parse_ranges, for one piece.                    *)
parse_range(p, file_size, any) ==
  CASE p.form = "suffix" ->
         Keep(IF p.b > file_size THEN 0 ELSE Off(file_size - p.b, any), file_size - 1)
    [] p.form = "from" ->
         IF p.a >= file_size THEN Nothing ELSE Keep(p.a, file_size - 1)
    [] p.form = "range" ->
         IF p.a > p.b \/ p.a >= file_size THEN Nothing
         ELSE Keep(p.a, IF p.b >= file_size THEN file_size - 1 ELSE p.b)
    [] OTHER -> Nothing

(* std::stoll throws std::invalid_argument or std::out_of_range, from      *)
(* whatever piece it is, and nothing on the way to the thread's function   *)
(* catches either.                                                         *)
Throws(pieces) == \E i \in 1..Len(pieces) : pieces[i].form = "bad"

(* The pieces that yield a range, whatever an overflow makes of it.        *)
Kept(pieces, file_size) ==
  {i \in 1..Len(pieces) : parse_range(pieces[i], file_size, 0).kept}

(* ranges[0], the only one that is served, when ranges is not empty.       *)
FirstKept(pieces, file_size) == FirstOf(Kept(pieces, file_size))

(* The check of handle_range_request before it trusts a range.             *)
Valid(range, file_size) ==
  range.start >= 0 /\ range.end < file_size /\ range.start <= range.end

-----------------------------------------------------------------------------
(* Reference: what a client means by its Range line.                       *)
Meant(lines) == {i \in 1..Len(lines) : lines[i].name = "Range" /\ lines[i].value = "text"}

MeantPieces(lines) == lines[FirstOf(Meant(lines))].pieces

(* No other line that has "Range:" in it comes first.                      *)
Plain(lines) == \E i \in Meant(lines) : \A j \in 1..(i - 1) : lines[j].name = "other"

(* The bytes of the file that a piece asks for.                            *)
Asked(p, file_size) ==
  {i \in 0..(file_size - 1) :
     \/ p.form = "suffix" /\ p.b >= 0 /\ i >= file_size - p.b
     \/ p.form = "from" /\ i >= p.a
     \/ p.form = "range" /\ p.a <= i /\ i <= p.b}

(* A suffix so far below zero that file_size - suffix_length overflows.    *)
Overflows(p, file_size) == p.form = "suffix" /\ file_size - p.b > OffMax
=============================================================================
