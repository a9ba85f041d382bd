----------------------------- MODULE JsonStream -----------------------------
(***************************************************************************)
(* providers/codex.py, _iter_stream_records with _JsonStreamBuffer: what   *)
(* codex writes to its stdout is read in pieces of any size and taken      *)
(* apart again into JSON objects, one a line as a rule.  A buffer that     *)
(* grows past its limit without a newline is searched for whole objects at *)
(* its front; what is left when the output ends is searched the same way.  *)
(*                                                                         *)
(* Output is words with white space in between.  A word of codex is an     *)
(* object, its symbols are braces, which may be nested, and "t", a text;   *)
(* but other words are possible.  White space is a newline or a space.     *)
(* Decoding bytes to characters is left out: the incremental decoder keeps *)
(* a character that was cut.                                               *)
(***************************************************************************)
EXTENDS Texts

CONSTANTS
  Outputs,        \* what codex may write in an attempt
  ReadSize,       \* most symbols a read returns
  BufferLimit     \* _STREAM_BUFFER_LIMIT

White == {"newline", "space"}
Alphabet == White \cup {"{", "}", "t"}

\* Words, each with the gap in front of it, and the gap at the end.
Output ==
  [words : Seq([gap : Seq(White), text : Seq(Alphabet) \ {<<>>}]), end : Seq(White)]

ASSUME StreamAssumption ==
  /\ Outputs \subseteq Output
  /\ ReadSize \in Nat \ {0} /\ BufferLimit \in Nat

VARIABLES
  output,     \* what is written in this attempt
  unread,     \* the symbols of it that have not been read
  buffer,
  records,    \* the records the turn has accepted
  reader      \* "idle", "reading", "ended", "failed"

streamVars == <<output, unread, buffer, records, reader>>

Written(o) ==
  FlattenSeq([i \in DOMAIN o.words |-> o.words[i].gap \o o.words[i].text]) \o o.end

StreamInit ==
  /\ output = [words |-> <<>>, end |-> <<>>] /\ unread = <<>>
  /\ buffer = <<>> /\ records = <<>> /\ reader = "idle"

\* The process is started and its output is known, to us.
StartReading(o) ==
  /\ reader = "idle"
  /\ output' = o /\ unread' = Written(o) /\ reader' = "reading"
  /\ UNCHANGED <<buffer, records>>

-----------------------------------------------------------------------------
\* Text.

InkAt(s) == {i \in DOMAIN s : s[i] \notin White}

\* str.lstrip and str.strip.
LStrip(s) == IF InkAt(s) = {} THEN <<>> ELSE SubSeq(s, Min(InkAt(s)), Len(s))
Strip(s) == IF InkAt(s) = {} THEN <<>> ELSE SubSeq(s, Min(InkAt(s)), Max(InkAt(s)))

\* raw_decode: where the object that s begins with ends, 0 when it does not.
Braces(s, n, b) == Cardinality({i \in 1..n : s[i] = b})
Closes(s, n) == Braces(s, n, "{") = Braces(s, n, "}")
ObjectEnd(s) ==
  LET ends == {i \in DOMAIN s : s[1] = "{" /\ Closes(s, i)} IN
  IF ends = {} THEN 0 ELSE Min(ends)

\* json.loads accepts the record and finds an object.
IsObject(s) == s # <<>> /\ ObjectEnd(s) = Len(s)

-----------------------------------------------------------------------------
\* _JsonStreamBuffer: what is taken from the front of a buffer, and the rest.

Newlines(s) == {i \in DOMAIN s : s[i] = "newline"}

\* One turn of _drain_lines: the first line is taken, unless it is blank.
TakeLine(d) ==
  LET end == Min(Newlines(d.rest))
      line == Strip(SubSeq(d.rest, 1, end - 1)) IN
  IF Newlines(d.rest) = {} THEN d
    ELSE [taken |-> IF line = <<>> THEN d.taken ELSE Append(d.taken, line),
          rest |-> SubSeq(d.rest, end + 1, Len(d.rest))]

\* The mutant: the rest of the buffer goes with the object in front of it.
TakeObjectAll(d) ==
  LET bare == LStrip(d.rest)
      end == ObjectEnd(bare) IN
  CASE bare = <<>> -> [d EXCEPT !.rest = <<>>]
    [] bare # <<>> /\ end = 0 -> d
    [] OTHER -> [taken |-> Append(d.taken, SubSeq(bare, 1, end)), rest |-> <<>>]

\* One turn of _drain_json_objects.  White space before an object is put back
\* as spaces.
TakeObject(d) ==
  LET bare == LStrip(d.rest)
      end == ObjectEnd(bare)
      left == SubSeq(bare, end + 1, Len(bare))
      spaces == [i \in 1..(Len(d.rest) - Len(bare)) |-> "space"] IN
  CASE bare = <<>> -> [d EXCEPT !.rest = <<>>]
    [] bare # <<>> /\ end = 0 -> d
    [] OTHER -> [taken |-> Append(d.taken, SubSeq(bare, 1, end)), rest |-> spaces \o left]

\* The loops.  Neither has more turns than the buffer has symbols.
Drain(s, what) ==
  LET after[n \in 0..Len(s)] ==
        IF n = 0 THEN [taken |-> <<>>, rest |-> s]
        ELSE IF what = "lines" THEN TakeLine(after[n - 1])
        ELSE TakeObject(after[n - 1])
  IN after[Len(s)]

\* feed.  No newline is left in a buffer that has been drained of lines.
Feed(s) ==
  LET d == Drain(s, "lines")
      o == Drain(d.rest, "objects") IN
  IF Len(d.rest) <= BufferLimit THEN d
    ELSE [taken |-> d.taken \o o.taken, rest |-> o.rest]

\* The ValueError of feed.
TooLong(s) ==
  LET bare == LStrip(s) IN Len(s) > BufferLimit /\ bare # <<>> /\ bare[1] # "{"

\* finalize: lines, objects, and the tail whatever it is.
Finalize(s) ==
  LET d == Drain(s, "lines")
      o == Drain(d.rest, "objects")
      tail == Strip(o.rest) IN
  d.taken \o o.taken \o (IF tail = <<>> THEN <<>> ELSE <<tail>>)

-----------------------------------------------------------------------------
\* The records of a piece are parsed one by one; the first that is not an
\* object ends the turn with a ProviderStreamParseError.
Accepted(recs) ==
  LET bad == {i \in DOMAIN recs : ~IsObject(recs[i])} IN
  IF bad = {} THEN recs
    ELSE SubSeq(recs, 1, (CHOOSE i \in bad : \A j \in bad : i <= j) - 1)

Accept(recs, next) ==
  /\ records' = records \o Accepted(recs)
  /\ reader' = IF Accepted(recs) = recs THEN next ELSE "failed"

\* stdout.read: a piece that is not empty.
ReadPiece(n) ==
  LET fed == Feed(buffer \o SubSeq(unread, 1, n)) IN
  /\ reader = "reading" /\ n <= Len(unread)
  /\ unread' = SubSeq(unread, n + 1, Len(unread))
  /\ buffer' = fed.rest
  /\ IF TooLong(fed.rest)
       THEN reader' = "failed" /\ UNCHANGED records
       ELSE Accept(fed.taken, "reading")
  /\ UNCHANGED output

\* The process has closed its stdout.
EndOfOutput ==
  /\ reader = "reading" /\ unread = <<>>
  /\ buffer' = <<>>
  /\ Accept(Finalize(buffer), "ended")
  /\ UNCHANGED <<output, unread>>

StreamNext ==
  \/ \E o \in Outputs : StartReading(o)
  \/ \E n \in 1..ReadSize : ReadPiece(n)
  \/ EndOfOutput

-----------------------------------------------------------------------------
StreamTypeOK ==
  /\ output \in Output
  /\ IsSuffix(unread, Written(output))
  /\ \A i \in DOMAIN records : IsObject(records[i])
  /\ reader \in {"idle", "reading", "ended", "failed"}

Ink(s) == Keep(s, Alphabet \ White)

Objects(o) == [i \in DOMAIN o.words |-> o.words[i].text]

\* What codex promises with --json: objects and nothing else, and one a line,
\* or no lines at all.
Framed(o) ==
  /\ \A i \in DOMAIN o.words : IsObject(o.words[i].text) /\ Newlines(o.words[i].text) = {}
  /\ \/ \A i \in DOMAIN o.words : i # 1 => Newlines(o.words[i].gap) # {}
     \/ Newlines(Written(o)) = {}

\* test_codex_provider.py:319, 336: codex.py:49-119.  However the output is cut
\* by reads and whatever the limit of the buffer, the records are the objects
\* that were written, in order; nothing is passed over without an error.
RecordsWhole ==
  /\ IsPrefix(Ink(FlattenSeq(records)), Ink(Written(output)))
  /\ reader = "ended" => Ink(FlattenSeq(records)) = Ink(Written(output))
  /\ Framed(output) =>
       /\ reader # "failed" /\ IsPrefix(records, Objects(output))
       /\ reader = "ended" => records = Objects(output)
=============================================================================
