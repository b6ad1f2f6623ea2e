----------------------------- MODULE MCTerminal -----------------------------
(* Typing in chunks that cut keys, commands and line ends anywhere, for TLC. *)
EXTENDS Terminal

MCChunks == { <<"~">>, <<"~", "C", "cr">>, <<"esc", "[">>, <<"A">>, <<"3", "~">>,
              <<"esc", "[", "D">>, <<"x">>, <<"cr", "nl">>, <<"bs">>, <<"^C">>, <<"pu", "tab">>, <<".">>,
              <<"put", "cr">>, <<"get", "cr">>, <<"~", "?", "cr", "x">>, <<"exit", "cr">>, <<"quit", "nl">>,
              <<"esc", "]", "x", "bel">>, <<"~", "cr">> }
=============================================================================
