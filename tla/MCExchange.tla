----------------------------- MODULE MCExchange -----------------------------
(* Instances of Exchange for TLC. *)
EXTENDS Exchange, TLC

\* The page's requests have no data type; others ask for one, or for several.
MCOptions ==
  {[dataType |-> types] : types \in {<<"*">>, <<"json">>, <<"text">>, <<"html", "json">>, <<"xml">>,
     <<"text", "json">>, <<"*", "json">>, <<"script">>, <<"xml", "text">>, <<"jsonp">>, <<"csv">>}}
  \union {[dataType |-> types, crossDomain |-> TRUE] : types \in {<<"*">>, <<"script">>, <<"jsonp">>}}
  \union {[method |-> "PUT"], [method |-> "HEAD"],
          [dataType |-> <<"text", "json">>, throws |-> TRUE],
          [mimeType |-> {"json"}]}
Received(status, body, header) ==
  [status |-> status, native |-> "OK", responses |-> [type \in {"text"} |-> body], header |-> header]
MCAnswers ==
  {Received(status, body, header) :
     status \in {200, 204, 299, 300, 304, 500},
     body \in {"empty", "json", "xml", "plain"},
     header \in {{}, {"json"}, {"xml"}, {"script"}}}
  \union {[status |-> 200, native |-> "", responses |-> [type \in {"binary"} |-> "json"], header |-> {"json"}],
          Received(0, "json", {}), Received(1223, "empty", {})}
=============================================================================
