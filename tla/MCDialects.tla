----------------------------- MODULE MCDialects -----------------------------
(***************************************************************************)
(* The messages of the Dialects runs: short sequences of tags of every     *)
(* grammar, and single calls with many arguments.                          *)
(***************************************************************************)
EXTENDS Dialects

CONSTANT MaxTags        \* the length of a message of several tags

Enter == [keys |-> Chord(<<"enter">>, "+")]
Here == [x |-> Px(3), y |-> Px(4)]

\* Tags of every grammar.
Tags ==
  {Open("tool_call", "", <<>>), Close("tool_call"), Json("key", Enter),
   Open("invoke", "key", Enter), Close("invoke"), Spelled("eq", Open("function", "key", Enter)),
   Open("function", "click", Here), Close("function"), Open("action", "click", Here),
   Close("action"), Spelled("self", Open("action", "done", <<>>)),
   Open("answer", "", <<>>), Close("answer"), Bare("click", Here), Bare("left_click", Here)}

Structures == UNION {[1 .. n -> Tags] : n \in 1 .. MaxTags}
DialectNative == {<<a, b, c>> : a, b, c \in {Open("actions", "", <<>>), Close("actions"),
                  Bare("click", Here), Bare("wait", <<>>), Spelled("bad", Bare("click", <<>>)),
                  Bare("fly", Here)}}

Value(key) ==
  CASE key \in {"x", "y", "nx", "ny", "to_x", "to_y"} -> {Px(3), Num(5, TRUE), Px(-2), Text("junk")}
    [] key \in {"coordinate", "point", "start_box", "start_coordinate", "to"} ->
         {Pair(Px(1), Px(2)), Pair(Num(5, TRUE), Num(25, TRUE)), Box(Px(0), Px(0), Px(4), Px(8)),
          Text("junk")}
    [] key = "button" -> {Text("left"), Text("right"), Text("middle")}
    [] key \in {"direction", "scroll_direction"} -> {Text("up"), Text("left"), Text("junk")}
    [] key \in {"dx", "dy", "pixels", "scroll_x", "scroll_y", "amount", "clicks"} ->
         {Px(5), Text("junk")}
    [] key \in {"ms", "time", "seconds"} -> {Px(2), Px(-2), Num(-5, TRUE), Text("junk")}
    [] key \in {"keys", "combo", "key"} ->
         {Chord(<<"ctrl", "c">>, "+"), Chord(<<"ctrl", "c">>, " "), Chord(<<>>, "+")}
    [] key \in {"action", "type"} -> {Text("click"), Text("done"), Text("triple_click"), Text("junk")}
    [] key = "status" -> {Text("ok"), Text("failure")}
    [] OTHER -> {Text("words")}

\* Single calls: any two or three of the keys, each with a few values.
Filled(name, keys, most) ==
  {Bare(name, a) : a \in UNION {{f \in [ks -> UNION {Value(key) : key \in ks}] :
                                    \A key \in ks : f[key] \in Value(key)} :
                                 ks \in {s \in SUBSET keys : Cardinality(s) <= most}}}

Singles ==
  UNION {Filled(v, {"x", "y", "nx", "ny", "coordinate", "button"}, 3) :
           v \in {"click", "double_click", "right_click", "move", "tap"}}
  \cup Filled("scroll", {"x", "y", "pixels", "scroll_y", "dx", "dy", "direction", "clicks"}, 3)
  \cup Filled("drag", {"x", "y", "to_x", "to_y", "start_coordinate", "to", "button"}, 4)
  \cup UNION {Filled(v, {"ms", "time"}, 2) : v \in {"wait", "sleep"}}
  \cup UNION {Filled(v, {"keys", "combo"}, 2) : v \in {"key", "hotkey"}}
  \cup UNION {Filled(v, {"text", "scope", "status"}, 2) :
                v \in {"type_text", "screenshot", "done", "finish", "triple_click", "fly"}}
  \cup Filled("computer", {"action", "type", "x", "y"}, 3)
DialectSingles == {<<call>> : call \in Singles}
JsonObjects == {<<Open("tool_call", "", <<>>), j, Close("tool_call")>> :
                  j \in {Json("", [action |-> Text("screenshot")]), Json("", <<>>),
                         Spelled("bad", Json("", <<>>))}}

\* Messages in the documented shape, up to three calls long.
Blocks ==
  LET fn == <<Spelled("eq", Open("function", "key", Enter)), Close("function")>>
      invoke == <<Open("invoke", "click", Here), Close("invoke")>>
      tool(body) == <<Open("tool_call", "", <<>>)>> \o body \o <<Close("tool_call")>>
  IN {fn, invoke, tool(fn \o fn), tool(invoke \o invoke), tool(<<Json("key", Enter)>>),
      <<Open("action", "click", Here), Close("action")>>, <<Bare("tap", Here)>>,
      <<Open("answer", "", <<>>), Close("answer")>>}
Conversations == {FlattenSeq(bs) : bs \in UNION {[1 .. n -> Blocks] : n \in 1 .. 3}}

MCMessages == Conversations \cup Structures \cup DialectNative \cup DialectSingles \cup JsonObjects
=============================================================================
