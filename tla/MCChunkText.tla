---------------------------- MODULE MCChunkText ----------------------------
(* Lines for ChunkText: short and long ones, blank ones, and fences.  No two *)
(* characters of them are the same.                                        *)
EXTENDS ChunkText

PlainLines ==
  {<<"a">>, <<Newline>>, <<"b", Newline>>, <<"c", "d", "e", Newline>>,
   <<"f", "g", "h", "i", "j", "k", "l", "m", "n", Newline>>}
FencedLines == {<<"ticks", Newline>>, <<"ticks", "o", Newline>>, <<"tildes", Newline>>}
MCLines == PlainLines \cup FencedLines
MCCharacters == UNION {ToSet(l) : l \in MCLines} \ ({Newline} \cup Markers)
=============================================================================
