------------------------------- MODULE JsonRpc ------------------------------
(***************************************************************************)
(* How main/serial_console.c reads a command: there is no JSON parser,     *)
(* find_key_value scans the line for "key" followed by a colon, wherever   *)
(* that is, and the value is read where the scan stopped.                  *)
(*                                                                         *)
(* A line is a sequence of tokens <<kind, text>>: a string with its quotes *)
(* is one token, a digit is one, and so is a punctuation character or a    *)
(* space.  The texts of firmware chunks are sequences of character codes,  *)
(* the text of a digest is the content it is the digest of.  A string with *)
(* backslashes in it comes in parts.  Lines that are not JSON at all are   *)
(* left to ConsoleInput, which shows when they arise.                      *)
(***************************************************************************)
EXTENDS Integers, Sequences, SequencesExt

CONSTANTS
  UINT32_MAX,
  JSONRPC_ID_BUF_SIZE,
  JSONRPC_METHOD_BUF_SIZE,
  MAX_BASE64_CHARS         (* MEB_OTA_MAX_BASE64_CHARS                     *)

ASSUME JsonRpcConstants ==
  /\ UINT32_MAX \in Nat /\ UINT32_MAX >= 9
  /\ JSONRPC_ID_BUF_SIZE \in Nat /\ JSONRPC_METHOD_BUF_SIZE \in Nat
  /\ MAX_BASE64_CHARS \in Nat

Punct(c) == <<"punct", c>>
Word(w)  == <<"word", w>>      (* true, false, null *)
Digit(d) == <<"digit", d>>
Str(s)   == <<"string", s>>
Data(t)  == <<"data", t>>
Hex(d)   == <<"hex", d>>
End      == <<"end">>          (* '\0' *)
Space    == Punct(" ")

(* A string or chunk with escapes: parts <<backslash, text>>, where a      *)
(* backslash stands before the text or not.                                *)
Escaped(kind, parts) == <<"escaped", kind, parts>>
Plain(text)  == <<FALSE, text>>
Escape(text) == <<TRUE, text>>      (* one escape: its letter, or u002e *)
Join(kind, texts) ==
  <<kind, FoldLeft(LAMBDA a, b : a \o b, IF kind = "string" THEN "" ELSE <<>>, texts)>>

At(line, i) == IF i \in DOMAIN line THEN line[i] ELSE End
IsDigit(token) == token[1] = "digit"
IsEscaped(token) == token[1] = "escaped"
IsString(token) == token[1] \in {"string", "data", "hex", "escaped"}
(* The length between the quotes.                                          *)
TextLen(token) ==
  CASE token[1] = "hex" -> 64
    [] IsEscaped(token) ->
         FoldLeft(LAMBDA n, part : n + Len(part[2]) + (IF part[1] THEN 1 ELSE 0), 0, token[3])
    [] OTHER -> Len(token[2])

(* A result that may be missing: NULL, or false.                           *)
NULL == 0
None == <<>>
Some(v) == <<v>>
Both(a, b) == IF a = None \/ b = None THEN None ELSE Some(a \o b)

-----------------------------------------------------------------------------
(* Positions in a line, 1 to Len(line) + 1.                                *)
skip_ws(line, i) == Min({j \in i .. Len(line) + 1 : At(line, j) # Space})

is_value_delimiter(token) == token \in {End, Space, Punct(","), Punct("}"), Punct("]")}

(* The bytes "key", quotes included, which strstr also finds at the end of *)
(* a string that has an escaped quote before the key.                      *)
Spells(token, key) ==
  \/ token = Str(key)
  \/ IsEscaped(token) /\ IsSuffix(<<Escape("\""), Plain(key)>>, token[3])

(* Mutant: a string value is taken for the key.                            *)
FindKeyValue_NoColon(line, from, key) ==
  LET found == {i \in from .. Len(line) : Spells(line[i], key)}
  IN IF found = {} THEN NULL ELSE skip_ws(line, skip_ws(line, Min(found) + 1) + 1)

find_key_value(line, from, key) ==
  LET found == {i \in from .. Len(line) :
                  Spells(line[i], key) /\ At(line, skip_ws(line, i + 1)) = Punct(":")}
  IN IF found = {} THEN NULL ELSE skip_ws(line, skip_ws(line, Min(found) + 1) + 1)

(* A backslash is left out, and what comes after it is kept as it is.      *)
parse_string_value(line, i, out_len) ==
  LET token == At(line, i)
      out   == IF IsEscaped(token)
               THEN Join(token[2], [k \in DOMAIN token[3] |-> token[3][k][2]])
               ELSE token
  IN IF IsString(token) /\ TextLen(out) <= out_len - 1 THEN Some(out) ELSE None

parse_bool_value(line, i) ==
  IF At(line, i) \in {Word("true"), Word("false")} /\ is_value_delimiter(At(line, i + 1))
  THEN Some(At(line, i) = Word("true"))
  ELSE None

Overflow == -1

AddDigit(parsed, digit) ==
  IF parsed = Overflow \/ parsed > (UINT32_MAX - digit) \div 10
  THEN Overflow
  ELSE (parsed * 10 + digit) % (UINT32_MAX + 1)

parse_uint_value(line, i) ==
  LET stop   == Min({j \in i .. Len(line) + 1 : ~IsDigit(At(line, j))})
      parsed == FoldLeft(AddDigit, 0, [k \in 1 .. stop - i |-> line[i + k - 1][2]])
  IN IF i # NULL /\ stop > i /\ parsed # Overflow /\ is_value_delimiter(At(line, stop))
     THEN Some(parsed)
     ELSE None

(* The id is kept as it stands, backslashes included, to be put into the   *)
(* answer.                                                                 *)
NullId == <<Word("null")>>

parse_id_token(line) ==
  LET i    == find_key_value(line, 1, "id")
      stop == Min({j \in i .. Len(line) + 1 :
                     At(line, j) \in {End, Space, Punct(","), Punct("}")}})
      id   == SubSeq(line, i, stop - 1)
  IN CASE i = NULL -> [ok |-> TRUE, has_id |-> FALSE, id |-> NullId]
       [] i # NULL /\ IsString(At(line, i)) ->
            [ok |-> TextLen(line[i]) + 2 <= JSONRPC_ID_BUF_SIZE - 1,
             has_id |-> TRUE, id |-> <<line[i]>>]
       [] OTHER ->
            [ok |-> /\ stop > i /\ Len(id) <= JSONRPC_ID_BUF_SIZE - 1
                    /\ id = NullId \/ id[1] = Punct("-") \/ IsDigit(id[1]),
             has_id |-> TRUE, id |-> id]

-----------------------------------------------------------------------------
(* What each handler reads of its parameters.                              *)

Methods ==
  {"heating.set", "heating.get", "heating.set_auto_off_timer", "device.info",
   "device.uptime", "device.reset", "device.diagnostics", "device.can_diagnostics",
   "device.events", "telemetry.set_interval", "firmware.begin", "firmware.write",
   "firmware.end", "firmware.cancel", "firmware.status", "firmware.reboot"}

DefaultLimit(method) == IF method = "device.events" THEN 8 ELSE 5

(* Params of a handler that insists on an object, searched from its brace. *)
ParseParams(line, method) ==
  LET params   == find_key_value(line, 1, "params")
      object   == At(line, params) = Punct("{")
      value(k) == IF object THEN find_key_value(line, params, k) ELSE NULL
  IN CASE method = "heating.set" -> parse_bool_value(line, value("enabled"))
       [] method = "heating.set_auto_off_timer" -> parse_uint_value(line, value("minutes"))
       [] method = "telemetry.set_interval" -> parse_uint_value(line, value("ms"))
       [] method = "firmware.begin" ->
            Both(parse_uint_value(line, value("size")),
                 parse_string_value(line, value("sha256"), 65))
       [] method = "firmware.write" ->
            Both(parse_uint_value(line, value("offset")),
                 parse_string_value(line, value("data"), MAX_BASE64_CHARS + 1))
       [] method \in {"device.events", "device.diagnostics"} ->    (* parse_optional_limit *)
            IF params # NULL /\ ~object THEN None
            ELSE IF value("limit") = NULL THEN Some(DefaultLimit(method))
            ELSE parse_uint_value(line, value("limit"))
       [] OTHER -> Some(NULL)

(* What becomes of a line: nothing, an error, or the call of a handler.    *)
Outcome(kind, id, method, args) ==
  [kind |-> kind, has_id |-> id.has_id, id |-> id.id, method |-> method, args |-> args]

Ignored == Outcome("ignored", [has_id |-> FALSE, id |-> NullId], "", None)

(* meb_serial_console_process_command                                      *)
process_command(line) ==
  LET id      == parse_id_token(line)
      jsonrpc == parse_string_value(line, find_key_value(line, 1, "jsonrpc"), 8)
      name    == parse_string_value(line, find_key_value(line, 1, "method"),
                                    JSONRPC_METHOD_BUF_SIZE)
      method  == name[1][2]
      args    == ParseParams(line, method)
  IN IF At(line, skip_ws(line, 1)) # Punct("{") THEN Ignored
     ELSE IF ~id.ok THEN Outcome("invalid_id", [id EXCEPT !.id = NullId], "", None)
     ELSE IF jsonrpc # Some(Str("2.0")) \/ name = None
          THEN Outcome("invalid_request", id, "", None)
     ELSE IF method \notin Methods THEN Outcome("method_not_found", id, "", None)
     ELSE IF args = None THEN Outcome("invalid_params", id, method, None)
     ELSE Outcome("call", id, method, args)

-----------------------------------------------------------------------------
(* What the line says, as JSON: an object is a sequence of members         *)
(* <<key, value>>, a value is a scalar, given by its tokens, or an object. *)

Scalar(tokens)  == <<"scalar", tokens>>
Object(members) == <<"object", members>>
Missing         == <<"missing">>

ObjectText(members, gap, ValueText(_)) ==
  LET text(i) == (IF i > 1 THEN <<Punct(",")>> \o gap ELSE <<>>)
                 \o <<Str(members[i][1])>> \o gap \o <<Punct(":")>> \o gap
                 \o ValueText(members[i][2])
  IN <<Punct("{")>> \o FlattenSeq([i \in DOMAIN members |-> text(i)]) \o <<Punct("}")>>

(* The line of an object, two levels deep, with a gap between its tokens.  *)
LineOf(members, gap) ==
  LET inner(v) == ObjectText(v[2], gap, LAMBDA w : w[2])
  IN ObjectText(members, gap, LAMBDA v : IF v[1] = "scalar" THEN v[2] ELSE inner(v))

Decimal[n \in Nat] ==
  IF n < 10 THEN <<Digit(n)>> ELSE Append(Decimal[n \div 10], Digit(n % 10))

Keys(members) == {members[i][1] : i \in DOMAIN members}
Value(members, key) ==
  IF key \in Keys(members)
  THEN members[CHOOSE i \in DOMAIN members : members[i][1] = key][2]
  ELSE Missing

IsScalar(value) == value[1] = "scalar"

(* What an escape stands for: itself, or another character.                *)
Itself(kind) == IF kind = "string" THEN {"\"", "\\", "/"} ELSE {<<47>>}
Others == [e \in {"n", "u002e"} |-> IF e = "n" THEN "\n" ELSE "."]
Meaning(token) ==
  LET meant(part) == IF ~part[1] \/ part[2] \in Itself(token[2]) THEN part[2] ELSE Others[part[2]]
  IN IF IsEscaped(token)
     THEN Join(token[2], [k \in DOMAIN token[3] |-> meant(token[3][k])])
     ELSE token
AsBool(value) ==
  IF IsScalar(value) /\ value[2] \in {<<Word("true")>>, <<Word("false")>>}
  THEN Some(value[2] = <<Word("true")>>) ELSE None
AsUint(value) ==
  LET number == FoldLeft(LAMBDA n, t : 10 * n + t[2], 0, value[2])
  IN IF IsScalar(value) /\ (\A i \in DOMAIN value[2] : IsDigit(value[2][i])) /\ number <= UINT32_MAX
     THEN Some(number) ELSE None
AsString(value, out_len) ==
  IF IsScalar(value) /\ IsString(value[2][1]) /\ TextLen(Meaning(value[2][1])) < out_len
  THEN Some(Meaning(value[2][1])) ELSE None

(* A number, a string or null, not too long.                               *)
AsId(value) ==
  [ok |-> value = Missing \/ /\ IsScalar(value)
                             /\ \/ value[2] = NullId
                                \/ IsDigit(value[2][1]) \/ value[2][1] = Punct("-")
                                \/ IsString(value[2][1])
                             /\ IF IsString(value[2][1])
                                THEN TextLen(value[2][1]) <= JSONRPC_ID_BUF_SIZE - 3
                                ELSE Len(value[2]) < JSONRPC_ID_BUF_SIZE,
   has_id |-> value # Missing,
   id |-> IF IsScalar(value) THEN value[2] ELSE NullId]

ReadParams(params, method) ==
  LET value(k) == IF params[1] = "object" THEN Value(params[2], k) ELSE Missing
  IN CASE method = "heating.set" -> AsBool(value("enabled"))
       [] method = "heating.set_auto_off_timer" -> AsUint(value("minutes"))
       [] method = "telemetry.set_interval" -> AsUint(value("ms"))
       [] method = "firmware.begin" ->
            Both(AsUint(value("size")), AsString(value("sha256"), 65))
       [] method = "firmware.write" ->
            Both(AsUint(value("offset")), AsString(value("data"), MAX_BASE64_CHARS + 1))
       [] method \in {"device.events", "device.diagnostics"} ->
            IF IsScalar(params) THEN None
            ELSE IF value("limit") = Missing THEN Some(DefaultLimit(method))
            ELSE AsUint(value("limit"))
       [] OTHER -> Some(NULL)

Read(members) ==
  LET id     == AsId(Value(members, "id"))
      name   == AsString(Value(members, "method"), JSONRPC_METHOD_BUF_SIZE)
      method == name[1][2]
      args   == ReadParams(Value(members, "params"), method)
  IN CASE ~id.ok -> Outcome("invalid_id", [id EXCEPT !.id = NullId], "", None)
       [] id.ok /\ (AsString(Value(members, "jsonrpc"), 8) # Some(Str("2.0")) \/ name = None) ->
            Outcome("invalid_request", id, "", None)
       [] OTHER -> IF method \notin Methods THEN Outcome("method_not_found", id, "", None)
                   ELSE IF args = None THEN Outcome("invalid_params", id, method, None)
                   ELSE Outcome("call", id, method, args)

(* Names that mean the same wherever the scan meets them, so that a line   *)
(* can be read right only if they stand where they belong, and once.       *)
Envelope   == {"jsonrpc", "id", "method", "params"}
Parameters == {"enabled", "minutes", "ms", "limit", "size", "sha256", "offset", "data"}

Unshadowed(members) ==
  LET distinct(ms) == Cardinality(Keys(ms)) = Len(ms) IN
  /\ distinct(members) /\ Keys(members) \cap Parameters = {}
  /\ \A i \in DOMAIN members : members[i][2][1] = "object" =>
       /\ distinct(members[i][2][2])
       /\ Keys(members[i][2][2]) \cap Envelope = {}
       /\ members[i][1] = "params" \/ Keys(members[i][2][2]) \cap Parameters = {}

(* The strings a handler reads have only escapes that stand for the        *)
(* character after the backslash: parse_string_value knows no others.      *)
PlainEscapes(members) ==
  LET plain(value) == IsScalar(value) => \A i \in DOMAIN value[2] :
        IsEscaped(value[2][i]) => \A k \in DOMAIN value[2][i][3] :
          value[2][i][3][k][1] => value[2][i][3][k][2] \in Itself(value[2][i][2])
      read(ms) == \A i \in DOMAIN ms :
        ms[i][1] \in {"jsonrpc", "method", "sha256", "data"} => plain(ms[i][2])
  IN /\ read(members)
     /\ \A i \in DOMAIN members : members[i][2][1] = "object" => read(members[i][2][2])

(* The scan finds what the JSON says.                                      *)
ReadRight(members, gap) ==
  Unshadowed(members) /\ PlainEscapes(members) =>
    process_command(LineOf(members, gap)) = Read(members)
=============================================================================
