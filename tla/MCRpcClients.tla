---------------------------- MODULE MCRpcClients ----------------------------
(* A small instance of RpcClients: two images of two bytes; the lines      *)
(* tried vary one part of a request at a time, and its members' order.     *)
EXTENDS RpcClients

MCImages == {<<7, 200>>, <<9, 200>>}
MCRequests == {<<1, "firmware.status">>, <<2, "heating.get">>, <<4, "firmware.cancel">>,
               <<9, "device.reset">>}

Text(s)   == Scalar(<<Str(s)>>)
Number(n) == Scalar(Decimal[n])
True      == Scalar(<<Word("true")>>)
Fraction  == Scalar(<<Digit(1), Punct("."), Digit(5)>>)
Negative  == Scalar(<<Punct("-"), Digit(1)>>)
Quoted(parts) == Scalar(<<Escaped("string", parts)>>)

(* \"id  \n  a\"b  heating\u002eget  heating.\/get                         *)
QuoteId   == Quoted(<<Escape("\""), Plain("id")>>)
Newline   == Quoted(<<Escape("n")>>)
TooLong   == Quoted(<<Plain("a"), Escape("\""), Plain("b")>>)
Unicode   == Quoted(<<Plain("heating"), Escape("u002e"), Plain("get")>>)
Slashed   == Quoted(<<Plain("heating."), Escape("/"), Plain("get")>>)

Versions == {Text("2.0"), Text("1.0"), Number(2)}
Ids == {Number(n) : n \in {0, 17, 12345, 123456}} \cup {Text(s) : s \in {"x", "id", "abc", "abcd"}}
       \cup {Scalar(NullId), True, Negative, Newline, TooLong, Object(<< <<"a", Number(1)>> >>)}
Names == {Text(m) : m \in Methods \cup {"params", "nope",
            "a.method.whose.name.is.longer.than.the.buffer.it.goes"}} \cup {Number(3), Unicode, Slashed}
Numbers == {Number(n) : n \in {0, 9, 25, 255, 256, 259, 260, 999}} \cup {Text("5"), Fraction, Negative}
Truths == {Scalar(<<Word(w)>>) : w \in {"true", "false", "trueish", "null"}} \cup {Text("enabled")}

(* Base64 texts: 'A', '/', '=', 'z', '!'.                                  *)
Texts == [1 .. 4 -> {65, 47, 61, 122, 33}] \cup [1 .. 8 -> {47, 61}]
         \cup {<<>>, <<65, 65, 65>>, <<65, 65, 65, 65, 65, 65, 65, 65, 65>>}
Chunk(text) == <<"data", Scalar(<<Data(text)>>)>>

(* The same with a slash in them escaped, which makes nine or ten of eight *)
(* characters.                                                             *)
Escapable == {<<>>, <<65, 65, 65>>, <<65, 65, 65, 65, 65, 65, 65>>}
SlashChunk(text) ==
  <<"data", Scalar(<<Escaped("data", <<Plain(text), Escape(<<47>>)>>)>>)>>

ParamValues ==
  {Object(<<>>), Number(1), Scalar(NullId)}
  \cup {Object(<< <<k, n>> >>) : k \in {"minutes", "ms", "limit"}, n \in Numbers}
  \cup {Object(<< <<"x", Text("enabled")>>, <<"enabled", b>> >>) : b \in Truths}
  \cup {Object(<< Chunk(<<65, 65>>), <<"offset", n>> >>) : n \in {Number(0), Number(256)}}
  \cup {Object(<< <<"size", n>>, <<"sha256", d>> >>) :
          n \in {Number(0), Number(2), Number(256)}, d \in {Scalar(<<Hex(<<7, 200>>)>>), Text("zz"), QuoteId}}

Envelopes == {<< <<"jsonrpc", v>>, <<"id", i>>, <<"method", m>> >> :
                v \in Versions, i \in Ids, m \in {Text("heating.get"), Text("params")}}
Calls == {<< <<"jsonrpc", Text("2.0")>>, <<"id", Number(17)>>, <<"method", m>>, <<"params", p>> >> :
            m \in Names, p \in ParamValues}
Orders == SetToSeqs({<<"jsonrpc", Text("2.0")>>, <<"id", Text("method")>>,
                     <<"method", Text("heating.set")>>, <<"note", QuoteId>>,
                     <<"params", Object(<< <<"enabled", True>> >>)>>})
Partial == {SelectSeq(ms, LAMBDA m : m[1] # k) :
              ms \in Orders, k \in {"jsonrpc", "id", "method", "params", "note"}}
Nested == {<< <<"meta", Object(<< <<"a", Text("params")>> >>)>> >> \o ms : ms \in Orders}
Writes == {<< <<"jsonrpc", Text("2.0")>>, <<"method", Text("firmware.write")>>,
              <<"params", Object(<< <<"offset", Number(0)>>, chunk >>)>> >> :
             chunk \in {Chunk(text) : text \in Texts} \cup {SlashChunk(text) : text \in Escapable}}

MCTriedLines ==
  ((Envelopes \cup Calls \cup Orders \cup Partial \cup Nested) \X {<<>>, <<Space>>})
  \cup (Writes \X {<<>>})
=============================================================================
