---------------------------- MODULE MCJsonStream ----------------------------
(***************************************************************************)
(* Outputs for JsonStream: objects, some longer than the buffer, with and  *)
(* without newlines, text that is none, and an object that is cut off.     *)
(***************************************************************************)
EXTENDS JsonStream

Gaps == {<<>>, <<"newline">>, <<"space", "newline">>}
Words ==
  [gap : Gaps,
   text : {<<"{", "}">>, <<"{", "t", "}">>, <<"{", "{", "}", "}">>, <<"{">>, <<"t">>}]

Spaced(gap, text) == [gap |-> gap, text |-> text]

\* Four objects on one line.
LongOutput ==
  [words |-> <<Spaced(<<>>, <<"{", "}">>), Spaced(<<>>, <<"{", "{", "}", "t", "}">>),
               Spaced(<<"space">>, <<"{", "}">>), Spaced(<<"space">>, <<"{", "t", "}">>)>>,
   end |-> <<"space">>]

MCOutputs == [words : BoundedSeq(Words, 2), end : {<<>>, <<"newline">>}] \cup {LongOutput}
=============================================================================
