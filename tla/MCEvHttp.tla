------------------------------ MODULE MCEvHttp ------------------------------
(***************************************************************************)
(* EvHttp with a few request objects and messages of every framing.          *)
(***************************************************************************)
EXTENDS EvHttp

CONSTANTS r1, r2, r3

MCMessages ==
  [client |-> {<<"ok", "length", "blank", "unit">>,
               <<"ok", "close", "blank", "unit">>,
               <<"ok", "chunked", "blank", "size", "unit", "zero", "blank">>,
               <<"nocontent", "blank">>,
               <<"badline">>},
   server |-> {<<"get", "blank">>,
               <<"get10", "keep", "blank">>,
               <<"get10", "blank">>,
               <<"get", "close", "badheader">>,
               <<"post", "length", "blank", "unit">>,
               <<"post", "chunked", "blank", "size", "unit", "zero", "blank">>,
               <<"post", "chunked", "blank", "badsize">>,
               <<"post", "keep", "blank">>,
               <<"post", "blank", "unit">>}]
=============================================================================
