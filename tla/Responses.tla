----------------------------- MODULE Responses -----------------------------
(***************************************************************************)
(* What the callbacks of $.ajax are told of an answer: the settings of a   *)
(* request, the data types between what came and what was asked for, the   *)
(* converters on the way, and the outcome.  A text is abstracted to what   *)
(* it can be parsed as; "plain" is any other text, "empty" none.           *)
(***************************************************************************)
EXTENDS Integers, SequencesExt

CONSTANTS
  Options, \* what requests ask for: settings that differ from ajaxSettings
  Answers  \* what an XMLHttpRequest may have received

Unset == "undefined"
Value(as, body) == [as |-> as, body |-> body]
Undefined == Value(Unset, Unset)

(***************************************************************************)
(* The settings.  A converter is the name of what it does: "same" is true. *)
(***************************************************************************)
Converter(from, to, how) == [from |-> from, to |-> to, how |-> how]
ResponseFields == {"xml", "text", "json"}
Defaults ==
  [method |-> "GET", dataType |-> <<"*">>, crossDomain |-> FALSE, throws |-> FALSE,
   mimeType |-> {}, dataFilter |-> {},
   contents |-> <<"xml", "html", "json">>,
   converters |-> <<Converter("*", "text", "string"), Converter("text", "html", "same"),
                    Converter("text", "json", "parseJSON"), Converter("text", "xml", "parseXML")>>]

\* Options that are tables are extended, the others replaced.
Extended(table, more) ==
  LET Names(t) == {<<c.from, c.to>> : c \in ToSet(t)} IN
  SelectSeq(table, LAMBDA c : <<c.from, c.to>> \notin Names(more)) \o more
ajaxExtend(target, src) ==
  [k \in DOMAIN target |-> IF k \notin DOMAIN src THEN target[k]
                           ELSE IF k = "converters" THEN Extended(target[k], src[k]) ELSE src[k]]
\* The settings, to which the script type adds its own.
ajaxSettings == ajaxExtend(Defaults, [contents |-> Append(Defaults.contents, "script"),
                                      converters |-> <<Converter("text", "script", "eval")>>])
ajaxSetup(options) == ajaxExtend(ajaxSettings, options)

(***************************************************************************)
(* The prefilters.  One may redirect to another data type, whose           *)
(* prefilters come next; those of "script" redirect no more.               *)
(***************************************************************************)
\* An answer by a call: the text is a script that calls a function of the request.
jsonpFilter(s) ==
  IF s.dataTypes[1] # "jsonp" THEN s
  ELSE [s EXCEPT !.converters = Extended(@, <<Converter("script", "json", "container")>>),
                 !.dataTypes = <<"script", "json">> \o Tail(@)]
scriptFilter(s) == IF s.crossDomain THEN [s EXCEPT !.method = "GET"] ELSE s
\* A script of another site is not evaluated unless it was asked for.
safeFilter(s) ==
  IF s.crossDomain THEN [s EXCEPT !.contents = SelectSeq(@, LAMBDA type : type # "script")] ELSE s
inspect(s, type) == CASE type \in {"json", "jsonp"} -> jsonpFilter(s)
                      [] type = "script" -> scriptFilter(s)
                      [] type = "*" -> safeFilter(s)
                      [] OTHER -> s
inspectPrefilters(s) ==
  LET type == s.dataTypes[1]
      first == inspect(s, type)
      last == IF type = "jsonp" THEN inspect(first, "script") ELSE first
  IN  IF type = "*" THEN last ELSE inspect(last, "*")

\* $.ajax, up to the choice of a transport.
Prepared(options) ==
  LET s == ajaxSetup(options)
  IN  inspectPrefilters([k \in DOMAIN s \union {"dataTypes"} |->
                           IF k = "dataTypes" THEN s.dataType ELSE s[k]])
Transport(s) == IF s.dataTypes[1] = "script" /\ s.crossDomain THEN "tag" ELSE "xhr"

(***************************************************************************)
(* ajaxHandleResponses(): the types from what came to what was asked for.  *)
(* responses maps the types that came to their texts, a header is the set  *)
(* of the known types it names.                                            *)
(***************************************************************************)
\* Variant: the type of the answer is looked at whatever was asked for.
LabelAlways(s, header) ==
  LET named == SelectSeq(s.contents, LAMBDA type : type \in header)
  IN  SubSeq(named, 1, IF named = <<>> THEN 0 ELSE 1)
\* The known type that the answer names, when any would do.
Label(s, header) ==
  IF s.dataTypes[1] # "*" THEN <<>>
  ELSE LET named == SelectSeq(s.contents, LAMBDA type :
                                type \in IF s.mimeType # {} THEN s.mimeType ELSE header)
       IN  SubSeq(named, 1, IF named = <<>> THEN 0 ELSE 1)
HowTo(s, from, to) ==
  LET found == SelectSeq(s.converters, LAMBDA c : c.from = from /\ c.to = to)
  IN  IF found = <<>> THEN "none" ELSE Head(found).how
\* Only leading wildcards are removed.
Unwild(types) == LET named == {i \in DOMAIN types : types[i] # "*"}
                 IN  IF named = {} THEN <<>>
                     ELSE SubSeq(types, CHOOSE i \in named : \A j \in named : i <= j, Len(types))
ajaxHandleResponses(s, header, responses) ==
  LET types == Label(s, header) \o Unwild(s.dataTypes)
      Fits(type) == types = <<>> \/ HowTo(s, type, types[1]) # "none"
      came == DOMAIN responses
      final == IF types # <<>> /\ types[1] \in came THEN types[1]
               ELSE IF \E type \in came : Fits(type) THEN CHOOSE type \in came : Fits(type)
               ELSE CHOOSE type \in came : TRUE
  IN  [types |-> IF types # <<>> /\ final = types[1] THEN types ELSE <<final>> \o types,
       value |-> Value(final, responses[final])]

(***************************************************************************)
(* ajaxConvert()                                                           *)
(***************************************************************************)
Objects == {"json", "xml", "binary"}
\* String(): an object is no longer what it was, and parseXML("") is null, which
\* JSON.parse() takes.
Text(v) == CASE v.as = "xml" /\ v.body # "xml" -> "json"
             [] v.as \in Objects \/ v = Undefined -> "plain"
             [] OTHER -> v.body
\* What a converter makes of a value; "error" when it throws.
Applied(how, to, v, called) ==
  CASE how = "same" -> Value(to, v.body)
    [] how = "string" -> Value(to, Text(v))
    [] how = "eval" -> Value(to, v.body)
    [] how = "parseJSON" /\ v.body = "json" /\ v.as \notin Objects -> Value(to, "json")
    [] how = "parseXML" /\ v.body \in {"xml", "empty", Unset} /\ v.as \notin Objects -> Value(to, v.body)
    [] how = "container" /\ called -> Value(to, "json")
    [] OTHER -> Value("error", v.body)

\* The converter from one type to the next, or to one between.
Direct(s, from, to) == IF HowTo(s, from, to) # "none" THEN HowTo(s, from, to) ELSE HowTo(s, "*", to)
Seek(s, from, to) ==
  LET pairs == SelectSeq(s.converters,
                         LAMBDA c : c.to = to /\ Direct(s, from, c.from) # "none")
      second == Head(pairs)
      first == Direct(s, from, second.from)
  IN  CASE Direct(s, from, to) # "none" -> [how |-> Direct(s, from, to), to |-> to, then |-> <<>>]
        [] pairs = <<>> -> [how |-> "none", to |-> to, then |-> <<>>]
        [] first = "same" -> [how |-> second.how, to |-> to, then |-> <<>>]
        [] second.how = "same" -> [how |-> first, to |-> to, then |-> <<>>]
        [] OTHER -> [how |-> first, to |-> second.from, then |-> <<to>>]

\* One turn of the loop, at the first of the types that are left.
Turned(s, good, called, st) ==
  LET current == Head(st.types)
      field == IF current \in ResponseFields THEN [st.fields EXCEPT ![current] = st.value]
               ELSE st.fields
      value == IF st.first /\ good /\ st.value.body \in s.dataFilter
               THEN Value(st.value.as, "json") ELSE st.value
      rest == Tail(st.types)
      on == [st EXCEPT !.fields = field, !.value = value, !.first = FALSE, !.types = rest]
      step == Seek(s, current, Head(rest))
      made == Applied(step.how, step.to, value, called)
  IN  CASE rest = <<>> -> on
        [] rest # <<>> /\ Head(rest) = "*" -> [on EXCEPT !.types = <<current>> \o Tail(rest)]
        [] rest # <<>> /\ Head(rest) # "*" /\ (current = "*" \/ current = Head(rest)) -> on
        [] OTHER -> IF made.as = "error"
                    THEN [on EXCEPT !.types = <<>>, !.state =
                            IF s.throws /\ step.how # "none" THEN "throws" ELSE "parsererror"]
                    ELSE [on EXCEPT !.value = made,
                                    !.types = <<step.to>> \o step.then \o Tail(rest)]
ajaxConvert(s, types, value, good, called) ==
  FoldLeft(LAMBDA st, i : IF st.types = <<>> THEN st ELSE Turned(s, good, called, st),
           [types |-> types, value |-> value, first |-> TRUE, state |-> "success",
            fields |-> [f \in ResponseFields |-> Undefined]],
           [i \in 1 .. 3 * Len(types) |-> i])

(***************************************************************************)
(* The transport, and what done() tells of what it hears.                  *)
(***************************************************************************)
Heard(status, native, responses, header) ==
  [status |-> status, native |-> native, responses |-> responses, header |-> header]
Nothing == [type \in {} |-> Unset]
\* xhrSuccessStatus: a file has status 0, old IE says 1223 for 204.
FromXhr(event, xhr) ==
  IF event = "load"
  THEN Heard(CASE xhr.status = 0 -> 200 [] xhr.status = 1223 -> 204 [] OTHER -> xhr.status,
             xhr.native, xhr.responses, xhr.header)
  ELSE Heard(xhr.status, xhr.native, Nothing, {})
FromTag(event) == Heard(IF event = "error" THEN 404 ELSE 200, event, Nothing, {})
Aborted(text) == Heard(0, text, Nothing, {})

Told(s, heard, called) ==
  LET good == heard.status \in 200 .. 299 \/ heard.status = 304
      handled == IF heard.responses = Nothing THEN [types |-> s.dataTypes, value |-> Undefined]
                 ELSE ajaxHandleResponses(s, heard.header, heard.responses)
      made == ajaxConvert(s, handled.types, handled.value, good, called)
      text == CASE good /\ (heard.status = 204 \/ s.method = "HEAD") -> "nocontent"
                [] good /\ heard.status # 204 /\ s.method # "HEAD" ->
                     IF heard.status = 304 THEN "notmodified" ELSE made.state
                [] OTHER -> IF heard.status # 0 \/ heard.native = "" THEN "error" ELSE heard.native
  IN  [outcome |-> CASE made.state = "throws" -> "throws"
                     [] good /\ text # "parsererror" -> "done"
                     [] OTHER -> "fail",
       status |-> IF heard.status < 0 THEN 0 ELSE heard.status,
       text |-> text,
       statusText |-> IF heard.native = "" THEN text ELSE heard.native,
       data |-> IF text = "success" THEN made.value ELSE Undefined,
       fields |-> made.fields]

\* All that a request may hear, its abort and its timeout included; what a script
\* does may be to call the function that is waiting for it.
Hears(s) ==
  {Aborted("abort"), Aborted("timeout")} \union
  IF Transport(s) = "tag" THEN {FromTag(event) : event \in {"load", "error"}}
  ELSE {FromXhr("load", xhr) : xhr \in Answers}
       \union {FromXhr("error", [status |-> 0, native |-> ""])}
Ends(heard) == UNION {{Told(Prepared(o), h, called).outcome : h \in Hears(Prepared(o)) \intersect heard}
                        : o \in Options, called \in BOOLEAN}

-----------------------------------------------------------------------------
(***************************************************************************)
(* The reference: what came, read as one type after the other.             *)
(***************************************************************************)
Wanted(o, header) ==
  LET asked == IF "dataType" \in DOMAIN o THEN o.dataType ELSE <<"*">>
      said == IF "mimeType" \in DOMAIN o THEN o.mimeType ELSE header
      trusted == {"xml", "html", "json"} \union
                 IF "crossDomain" \in DOMAIN o THEN {} ELSE {"script"}
  IN  IF asked[1] # "*" THEN asked
      ELSE SetToSeq(said \intersect trusted) \o Tail(asked)
ReadAs(v, type) ==
  CASE type = v.as -> v
    [] type \in {"text", "html", "script"} -> Value(type, Text(v))
    [] type = "json" /\ Text(v) = "json" -> Value("json", "json")
    [] type = "xml" /\ Text(v) \in {"xml", "empty"} -> Value("xml", Text(v))
    [] OTHER -> Value("error", "none")
\* The value at each of the types, as far as it can be read.
Readings(came, types) ==
  FoldLeft(LAMBDA vs, type : IF Last(vs).as = "error" THEN vs ELSE Append(vs, ReadAs(Last(vs), type)),
           <<came>>, types)
=============================================================================
