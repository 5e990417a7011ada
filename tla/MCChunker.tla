---- MODULE MCChunker ----
EXTENDS Chunker
MCDeltas == {<<"letter">>, <<"digit">>, <<"dot">>, <<"space">>, <<"close">>, <<"newline">>, <<"fence">>,
  <<"letter","letter","letter","letter","letter","dot">>}
====
