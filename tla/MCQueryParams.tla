---------------------------- MODULE MCQueryParams ----------------------------
(* QueryParams with contents that look like the beginning of a boundary, and a *)
(* query string whose name does, with every character that must be escaped.    *)
EXTENDS QueryParams

SomeData == {<< >>, <<"CR", "LF", "-", "-", "x", "CR", "LF">>}
SomeQueries ==
  {<< >>,
   << <<(<<"a">>), <<"x", "&", "=", "+", "SP">> >>,
      <<(<<"b">>), << >> >>,
      <<(<<"a">>), <<"%">> >>,
      <<(<<"CR", "LF", "-">>), <<"x">> >> >>}
=============================================================================
