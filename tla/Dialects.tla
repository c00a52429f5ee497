------------------------------ MODULE Dialects ------------------------------
(***************************************************************************)
(* dialect.py: what a model writes becomes an ordered list of actions, or  *)
(* a teaching error.                                                       *)
(*                                                                         *)
(* A message is a sequence of tags; the position of a tag stands for its   *)
(* offset.  A tag that opens a call carries the parameters written right   *)
(* behind it.  parse_xml_actions runs one scan per grammar, each over the  *)
(* whole message, and a later scan leaves alone what an earlier one took;  *)
(* every scan is a step here.  The native grammar is one scan.             *)
(*                                                                         *)
(* Numbers are counted in tenths and remember whether they were written    *)
(* with a point.  Left out: entities, fences, name-space prefixes, the     *)
(* repair of truncated JSON (a JSON object parses or it does not), and a   *)
(* parameter that is not closed.                                           *)
(***************************************************************************)
EXTENDS Integers, Sequences, FiniteSets, SequencesExt

CONSTANT Messages       \* the messages the model may write: sequences of tags

VARIABLES
  text,       \* the message
  format,     \* the caller's format: "auto", "xml" or "dialect"
  pass,       \* the scan to run next
  found,      \* the actions found so far, with the offset of their calls
  consumed,   \* the spans the scans have taken
  result      \* "none", "error" or "actions"

dvars == <<text, format, pass, found, consumed, result>>

(***************************************************************************)
(* The vocabularies.                                                       *)
(***************************************************************************)
Pointing == {"click", "double_click", "right_click", "move"}

Native ==
  LET at == {"x", "y", "nx", "ny"}
      spec(must, may) == [required |-> must, allowed |-> must \cup may]
  IN [click |-> spec({}, at \cup {"button"}),
      double_click |-> spec({}, at \cup {"button"}),
      right_click |-> spec({}, at \cup {"button"}),
      move |-> spec({}, at), scroll |-> spec({"dy"}, at \cup {"dx"}),
      type_text |-> spec({"text"}, {}), key |-> spec({"combo"}, {}),
      screenshot |-> spec({}, {"scope"}), wait |-> spec({}, {"ms"}),
      done |-> spec({}, {}), stop |-> spec({}, {})]

Aliases ==
  [click |-> {"click", "left_click", "leftclick", "tap"},
   double_click |-> {"double_click", "doubleclick"},
   right_click |-> {"right_click", "rightclick", "context_click"},
   move |-> {"move", "mouse_move", "move_to", "moveto", "hover"},
   type_text |-> {"type", "type_text", "input_text", "write", "typewrite"},
   key |-> {"key", "keypress", "press", "press_key", "hotkey"},
   scroll |-> {"scroll", "hscroll", "vscroll"},
   drag |-> {"drag", "left_click_drag", "click_and_drag", "drag_to"},
   screenshot |-> {"screenshot", "take_screenshot"}, wait |-> {"wait", "sleep"}]
DoneVerbs == {"done", "stop", "terminate", "finished", "finish", "complete", "answer"}
Unsupported == {"middle_click", "triple_click", "cursor_position", "hold_key",
                "left_mouse_down", "left_mouse_up"}
Wrappers == {"computer_use", "computer", "computer_tool", "computer_13",
             "computer_20241022", "computer_20250124"}
Verbs == UNION {Aliases[c] : c \in DOMAIN Aliases}
Known == Verbs \cup DoneVerbs \cup Unsupported

TargetKeys == {"x", "y", "nx", "ny", "coordinate", "coordinates", "point", "start_box"}
Actionish == TargetKeys \cup {"keys", "combo", "button", "dx", "dy", "pixels"}
Allowed ==
  [click |-> TargetKeys \cup {"button"}, double_click |-> TargetKeys \cup {"button"},
   right_click |-> TargetKeys \cup {"button"}, move |-> TargetKeys,
   scroll |-> TargetKeys \cup {"pixels", "scroll_x", "scroll_y", "dx", "dy", "direction",
                "scroll_direction", "amount", "scroll_amount", "clicks"},
   drag |-> TargetKeys \cup {"start_coordinate", "from", "to", "to_x", "to_y",
                "end_coordinate", "end_box", "button"},
   type_text |-> {"text", "content", "value"}, key |-> {"keys", "combo", "key", "text"},
   screenshot |-> {"scope"}, wait |-> {"ms", "time", "duration", "seconds"}]
DoneAllowed == {"status", "answer", "text", "content", "value"}

(***************************************************************************)
(* Values, tags and spans.                                                 *)
(***************************************************************************)
Num(n, float) == [k |-> "num", n |-> n, float |-> float]
Px(n) == Num(10 * n, FALSE)
Text(s) == [k |-> "text", s |-> s]
Pair(a, b) == [k |-> "list", of |-> <<a, b>>]
Box(a, b, c, d) == [k |-> "list", of |-> <<a, b, c, d>>]
Chord(keys, sep) == [k |-> "keys", of |-> keys, sep |-> sep]

\* `spell` tells <function=click> ("eq") from <function name="click"> ("name"), and an
\* element that closes itself ("self"); a malformed tag is "bad".
Open(form, name, args) ==
  [tag |-> "open", form |-> form, spell |-> "name", name |-> name, args |-> args]
Spelled(how, token) == [token EXCEPT !.spell = how]
Close(form) == [Open(form, "", <<>>) EXCEPT !.tag = "close"]
Bare(name, args) == [Open("bare", name, args) EXCEPT !.tag = "bare"]
Json(name, args) == [Open("json", name, args) EXCEPT !.tag = "json"]

Has(args, key) == key \in DOMAIN args
HasAny(args, keys) == \E i \in DOMAIN keys : Has(args, keys[i])
FirstOf(args, keys) ==
  args[keys[CHOOSE i \in DOMAIN keys :
                 /\ Has(args, keys[i])
                 /\ \A j \in 1 .. i - 1 : ~Has(args, keys[j])]]

Bad == [verb |-> "error"]
Done == [verb |-> "done"]
Centre == <<"norm", 5, 5>>
Nowhere == <<>>

\* Python rounds halves to the even neighbour.
Rounded(n) ==
  LET q == n \div 10  r == n % 10
  IN IF r > 5 \/ (r = 5 /\ q % 2 = 1) THEN q + 1 ELSE q

(***************************************************************************)
(* The native grammar: _target, _one.                                      *)
(***************************************************************************)
InUnit(v) == v.n \in 0 .. 10
IsNum(v) == v.k = "num"

\* A point, Nowhere, or <<"bad">>.
NativeTarget(a) ==
  LET px == Has(a, "x") \/ Has(a, "y")
      norm == Has(a, "nx") \/ Has(a, "ny")
      both(p, q) == Has(a, p) /\ Has(a, q) /\ IsNum(a[p]) /\ IsNum(a[q])
  IN CASE px /\ norm -> <<"bad">>
       [] px /\ ~norm -> IF both("x", "y") THEN <<"px", a.x.n, a.y.n>> ELSE <<"bad">>
       [] norm /\ ~px -> IF both("nx", "ny") /\ InUnit(a.nx) /\ InUnit(a.ny)
                           THEN <<"norm", a.nx.n, a.ny.n>> ELSE <<"bad">>
       [] OTHER -> Nowhere

\* The verb a button makes of a pointing verb: only a click has a right-hand twin.
Resolved(verb, button) ==
  CASE button = "right" /\ verb = "click" -> "right_click"
    [] button = (IF verb = "right_click" THEN "right" ELSE "left") -> verb
    [] OTHER -> "error"

\* _one: one tag of the native grammar.
One(verb, a) ==
  LET at == NativeTarget(a)
      button == IF Has(a, "button") THEN a.button.s ELSE ""
      num(key) == ~Has(a, key) \/ IsNum(a[key])
  IN CASE verb \notin DOMAIN Native -> Bad
       [] OTHER ->
          CASE ~(DOMAIN a \subseteq Native[verb].allowed) -> Bad
            [] ~(Native[verb].required \subseteq DOMAIN a) -> Bad
            [] verb \in {"done", "stop"} -> Done
            [] verb \in Pointing ->
                 LET to == IF button = "" THEN verb ELSE Resolved(verb, button)
                 IN IF at \in {Nowhere, <<"bad">>} \/ to = "error" THEN Bad
                    ELSE [verb |-> to, target |-> at]
            [] verb = "scroll" ->
                 IF at = <<"bad">> \/ ~num("dy") \/ ~num("dx") THEN Bad
                 ELSE [verb |-> verb, target |-> IF at = Nowhere THEN Centre ELSE at,
                       dy |-> <<a.dy.n>>, dx |-> IF Has(a, "dx") THEN <<a.dx.n>> ELSE <<>>]
            [] verb = "wait" -> IF num("ms")
                                  THEN [verb |-> verb, ms |-> IF Has(a, "ms")
                                                                THEN <<a.ms.n>> ELSE <<>>]
                                  ELSE Bad
            [] verb = "key" -> [verb |-> verb, keys |-> a.combo]
            [] OTHER -> [verb |-> verb]

(***************************************************************************)
(* The tool-call grammars: one call to one canonical action.               *)
(***************************************************************************)
\* _coord_pair: two numbers, or the centre of a box; <<>> is a refusal.
CoordPair(v) ==
  LET nums == IF v.k = "list" THEN SelectSeq(v.of, IsNum) ELSE <<>>
      centre(i) == Num((nums[i].n + nums[i + 2].n) \div 2, TRUE)
  IN CASE Len(nums) = 2 -> nums
       [] Len(nums) = 4 -> <<centre(1), centre(2)>>
       [] OTHER -> <<>>

\* _pair_to_target: a fractional pair inside the unit square is normalised.
ToTarget(p) ==
  IF p = <<>> \/ \E i \in DOMAIN p : ~IsNum(p[i]) THEN <<"bad">>
  ELSE IF (p[1].float \/ p[2].float) /\ InUnit(p[1]) /\ InUnit(p[2])
         THEN <<"norm", p[1].n, p[2].n>>
         ELSE <<"px", 10 * Rounded(p[1].n), 10 * Rounded(p[2].n)>>

PointKeys == <<"coordinate", "coordinates", "point", "start_box">>

\* _xml_target.
XmlTarget(a) ==
  CASE Has(a, "nx") \/ Has(a, "ny") ->
         IF Has(a, "nx") /\ Has(a, "ny") /\ IsNum(a.nx) /\ IsNum(a.ny)
              /\ InUnit(a.nx) /\ InUnit(a.ny)
           THEN <<"norm", a.nx.n, a.ny.n>> ELSE <<"bad">>
    [] ~(Has(a, "nx") \/ Has(a, "ny")) /\ (Has(a, "x") \/ Has(a, "y")) ->
         IF Has(a, "x") /\ Has(a, "y") THEN ToTarget(<<a.x, a.y>>) ELSE <<"bad">>
    [] OTHER -> IF HasAny(a, PointKeys) THEN ToTarget(CoordPair(FirstOf(a, PointKeys)))
                ELSE Nowhere

\* _xml_drag: a start and an end, each under one of several names.
XmlDrag(a) ==
  LET starts == <<"start_coordinate", "start_box", "from">>
      ends == <<"coordinate", "coordinates", "end_coordinate", "end_box", "to", "point">>
      point(keys, x, y) ==
        CASE HasAny(a, keys) -> ToTarget(CoordPair(FirstOf(a, keys)))
          [] ~HasAny(a, keys) /\ Has(a, x) /\ Has(a, y) -> ToTarget(<<a[x], a[y]>>)
          [] OTHER -> Nowhere
      from == point(starts, "x", "y")
      to == point(ends, "to_x", "to_y")
  IN IF {from, to} \cap {Nowhere, <<"bad">>} # {} THEN Bad
     ELSE [verb |-> "drag", target |-> from, to |-> to]

\* _xml_scroll: the later spelling of a magnitude wins; a wheel click is 100 pixels, and
\* `pixels` counts upwards where the wire counts downwards.
XmlScroll(a) ==
  LET nums == {"pixels", "scroll_y", "scroll_x", "dy", "dx"} \cap DOMAIN a
      way == IF HasAny(a, <<"direction", "scroll_direction">>)
               THEN FirstOf(a, <<"direction", "scroll_direction">>).s ELSE ""
      amounts == <<"amount", "scroll_amount", "clicks">>
      amount == IF HasAny(a, amounts) THEN FirstOf(a, amounts) ELSE Px(3)
      px == 100 * amount.n
      at == XmlTarget(a)
      dy == CASE way = "up" -> <<-px>>
              [] way = "down" -> <<px>>
              [] way \notin {"up", "down"} /\ Has(a, "dy") -> <<a.dy.n>>
              [] way \notin {"up", "down"} /\ ~Has(a, "dy") /\ Has(a, "scroll_y") -> <<a.scroll_y.n>>
              [] way \notin {"up", "down"} /\ ~HasAny(a, <<"dy", "scroll_y">>)
                   /\ Has(a, "pixels") -> <<-a.pixels.n>>
              [] OTHER -> <<>>
      dx == CASE way = "left" -> <<-px>>
              [] way = "right" -> <<px>>
              [] way \notin {"left", "right"} /\ Has(a, "dx") -> <<a.dx.n>>
              [] way \notin {"left", "right"} /\ ~Has(a, "dx") /\ Has(a, "scroll_x") -> <<a.scroll_x.n>>
              [] OTHER -> <<>>
  IN IF \/ \E key \in nums : ~IsNum(a[key])
        \/ way # "" /\ ~IsNum(amount)
        \/ way \notin {"", "up", "down", "left", "right"}
        \/ at = <<"bad">>
       THEN Bad
     ELSE IF dx = <<>> /\ dy = <<>> THEN Bad
     ELSE [verb |-> "scroll", target |-> IF at = Nowhere THEN Centre ELSE at,
           dy |-> dy, dx |-> dx]

\* _xml_wait: milliseconds, or seconds under three names.
XmlWait(a) ==
  LET seconds == <<"time", "duration", "seconds">>
      ms == CASE Has(a, "ms") -> a.ms
              [] ~Has(a, "ms") /\ HasAny(a, seconds) ->
                   LET s == FirstOf(a, seconds)
                   IN IF IsNum(s) THEN Num(1000 * s.n, FALSE) ELSE s
              [] OTHER -> Px(0)
  IN IF ~IsNum(ms) THEN Bad
     ELSE IF ms.n <= -10 THEN Bad
     ELSE [verb |-> "wait", ms |-> IF HasAny(a, <<"ms">> \o seconds) THEN <<ms.n>> ELSE <<>>]

\* _xml_key: a chord is joined with "+" however it was written.
XmlKey(a) ==
  LET names == <<"keys", "combo", "key", "text">>
  IN IF ~HasAny(a, names) THEN Bad
     ELSE IF FirstOf(a, names).of = <<>> THEN Bad
     ELSE [verb |-> "key", keys |-> Chord(FirstOf(a, names).of, "+")]

\* _xml_done.
XmlDone(a) ==
  [verb |-> "done",
   failed |-> Has(a, "status") /\ a.status.s \notin
                {"success", "succeeded", "done", "complete", "completed", "ok"}]

\* The pointing branch of _build_xml_action.
XmlPointing(canon, a) ==
  LET at == XmlTarget(a)
      to == IF Has(a, "button") /\ canon # "move" THEN Resolved(canon, a.button.s) ELSE canon
  IN IF at \in {Nowhere, <<"bad">>} \/ to = "error" THEN Bad
     ELSE [verb |-> to, target |-> at]

Build(canon, a) ==
  CASE canon \in Pointing -> XmlPointing(canon, a)
    [] canon = "drag" -> XmlDrag(a)
    [] canon = "scroll" -> XmlScroll(a)
    [] canon = "type_text" -> IF HasAny(a, <<"text", "content", "value">>)
                                THEN [verb |-> canon] ELSE Bad
    [] canon = "key" -> XmlKey(a)
    [] canon = "screenshot" -> [verb |-> canon]
    [] canon = "wait" -> XmlWait(a)

\* A wrapper names its verb in `action`, or, as one model writes it, in `type`.
InnerKey(a) ==
  CASE Has(a, "action") -> "action"
    [] ~Has(a, "action") /\ Has(a, "type") /\ a.type.k = "text" /\ a.type.s \in Known -> "type"
    [] OTHER -> ""

\* _normalize_call.
Normal(name, a) ==
  LET inner == InnerKey(a)
      wraps == name \in Wrappers
      verb == IF wraps /\ inner # "" THEN a[inner].s ELSE name
      args == IF wraps /\ inner # ""
                THEN [key \in DOMAIN a \ {inner} |-> a[key]] ELSE a
      refused == (wraps /\ inner = "") \/ verb \in Unsupported
  IN CASE refused -> Bad
       [] ~refused /\ verb \in DoneVerbs ->
            IF DOMAIN args \subseteq DoneAllowed THEN XmlDone(args) ELSE Bad
       [] ~refused /\ verb \in Verbs ->
            LET canon == CHOOSE c \in DOMAIN Aliases : verb \in Aliases[c]
            IN IF DOMAIN args \subseteq Allowed[canon] THEN Build(canon, args) ELSE Bad
       [] OTHER -> Bad

\* _normalize_json_call: an object with no name is an action on its own if it says so.
NormalJson(token) ==
  CASE token.spell = "bad" -> Bad
    [] token.spell # "bad" /\ token.name = "" ->
         IF Has(token.args, "action") THEN Normal("computer_use", token.args) ELSE Bad
    [] OTHER -> Normal(token.name, token.args)

(***************************************************************************)
(* The scans.                                                              *)
(***************************************************************************)
IsOpen(t, i, form) == t[i].tag = "open" /\ t[i].form = form /\ t[i].spell # "bad"
IsClose(t, i, form) == t[i].tag = "close" /\ t[i].form = form

\* Where the match that starts at i ends: its closing tag or the end of the text; a
\* <tool_call> also ends before the next one.
EndOf(t, i, form) ==
  LET stops == {j \in i + 1 .. Len(t) :
                  IsClose(t, j, form) \/ (form = "tool_call" /\ IsOpen(t, j, form))}
      j == CHOOSE k \in stops : \A l \in stops : k <= l
  IN IF t[i].spell = "self" THEN i
     ELSE IF stops = {} THEN Len(t)
     ELSE IF IsClose(t, j, form) THEN j ELSE j - 1

\* finditer: the starts of the matches, leftmost first, none inside an earlier one.
Starts(t, form) ==
  LET upto[i \in 0 .. Len(t)] ==
        IF i = 0 THEN <<>>
        ELSE IF IsOpen(t, i, form) /\ \A s \in ToSet(upto[i - 1]) : EndOf(t, s, form) < i
               THEN Append(upto[i - 1], i) ELSE upto[i - 1]
  IN upto[Len(t)]

Overlaps(taken, a, b) == \E s \in taken : s[1] <= b /\ a <= s[2]

\* _params: every parameter inside the match counts, and a later one overrides.
Params(t, a, b) ==
  LET of(key) == {i \in a .. b : t[i].tag = "open" /\ t[i].spell # "self" /\ Has(t[i].args, key)}
      keys == UNION {DOMAIN t[i].args : i \in {j \in a .. b : t[j].tag = "open" /\ t[j].spell # "self"}}
  IN [key \in keys |->
        t[CHOOSE i \in of(key) : \A j \in of(key) : j <= i].args[key]]

CallAt(t, i, form) == Normal(t[i].name, Params(t, i, EndOf(t, i, form)))
CallsOf(t, form) == LET s == Starts(t, form) IN [n \in DOMAIN s |-> CallAt(t, s[n], form)]

\* _parse_tool_call_body: element calls, the functions before the invokes; without
\* any, the first JSON object.
BodyCalls(body) ==
  LET json == {i \in DOMAIN body : body[i].tag = "json"}
      elements == CallsOf(body, "function") \o CallsOf(body, "invoke")
  IN CASE elements # <<>> -> elements
       [] elements = <<>> /\ json # {} ->
            <<NormalJson(body[CHOOSE i \in json : \A j \in json : i <= j])>>
       [] OTHER -> <<Bad>>

Body(t, i) == LET e == EndOf(t, i, "tool_call")
              IN SubSeq(t, i + 1, IF IsClose(t, e, "tool_call") THEN e - 1 ELSE e)

\* Every marker but a lone native verb sends the message to the tool-call grammars.
LooksLikeXml(t) ==
  \E i \in DOMAIN t :
     \/ t[i].tag = "open" /\ t[i].form # "actions"
     \/ t[i].tag = "bare" /\ t[i].name \in (Known \cup Wrappers) \ DOMAIN Native

(***************************************************************************)
(* The steps.                                                              *)
(***************************************************************************)
DialectInit ==
  /\ text \in Messages
  /\ format \in {"auto", "xml", "dialect"}
  /\ pass = "route" /\ found = <<>> /\ consumed = {} /\ result = "none"

\* parse_actions.
Route ==
  /\ pass = "route"
  /\ pass' = IF format = "xml" \/ (format = "auto" /\ LooksLikeXml(text))
               THEN "tool_call" ELSE "native"
  /\ UNCHANGED <<text, format, found, consumed, result>>

\* One scan found `calls` (offset and action) over the spans `spans`; an error in any
\* of them is the answer to the whole message.
Took(calls, spans, next) ==
  /\ UNCHANGED <<text, format>>
  /\ IF \E i \in DOMAIN calls : calls[i][2] = Bad
       THEN /\ result' = "error" /\ pass' = "end"
            /\ UNCHANGED <<found, consumed>>
       ELSE /\ found' = found \o calls
            /\ consumed' = consumed \cup spans
            /\ pass' = next
            /\ result' = result

At(i, actions) == [n \in DOMAIN actions |-> <<i, actions[n]>>]

TakeToolCalls ==
  /\ pass = "tool_call"
  /\ LET s == Starts(text, "tool_call")
     IN Took(FlattenSeq([n \in DOMAIN s |-> At(s[n], BodyCalls(Body(text, s[n])))]),
             {<<i, EndOf(text, i, "tool_call")>> : i \in ToSet(s)}, "invoke")

\* The matches of a form that no earlier scan has taken a part of.
Free(form) ==
  SelectSeq(Starts(text, form), LAMBDA i : ~Overlaps(consumed, i, EndOf(text, i, form)))

TakeElements(form, next) ==
  /\ pass = form
  /\ LET s == Free(form)
     IN Took([n \in DOMAIN s |-> <<s[n], CallAt(text, s[n], form)>>],
             {<<i, EndOf(text, i, form)>> : i \in ToSet(s)}, next)

TakeInvokes == TakeElements("invoke", "function")
TakeFunctions == TakeElements("function", "action")
TakeActions == TakeElements("action", "answer")

TakeAnswers ==
  /\ pass = "answer"
  /\ LET s == Free("answer")
     IN Took([n \in DOMAIN s |-> <<s[n], Done>>],
             {<<i, EndOf(text, i, "answer")>> : i \in ToSet(s)}, "bare")

\* A tag nothing has taken.  <function=x> is not in the grammar of a bare tag at all, a
\* call container is an error, markup with no argument of an action is prose.
BareAction(token) ==
  CASE token.tag = "open" /\ token.form = "answer" -> Done
    [] token.tag = "open" /\ token.form \in {"tool_call", "invoke", "function", "action"} -> Bad
    [] token.tag = "bare" /\ token.name \in Known \cup Wrappers -> Normal(token.name, token.args)
    [] OTHER -> Bad

IsBareCall(token) ==
  \/ token.tag = "open" /\ token.spell # "eq" /\ token.form # "actions"
  \/ token.tag = "bare" /\ (token.name \in Known \cup Wrappers \/ DOMAIN token.args \cap Actionish # {})

TakeBare ==
  /\ pass = "bare"
  /\ LET left == SelectSeq([i \in DOMAIN text |-> i],
                           LAMBDA i : IsBareCall(text[i]) /\ ~Overlaps(consumed, i, i))
     IN Took([n \in DOMAIN left |-> <<left[n], BareAction(text[left[n]])>>],
             {<<i, i>> : i \in ToSet(left)}, "order")

\* Mutant of Ordered: the calls come in the order of the scans.
InScanOrder(calls) == calls

\* The calls in the order of their offsets; the sort is stable.
Ordered(calls) ==
  LET keyed == [i \in DOMAIN calls |-> <<calls[i][1], i, calls[i][2]>>]
      sorted == SortSeq(keyed, LAMBDA a, b : a[1] < b[1] \/ (a[1] = b[1] /\ a[2] < b[2]))
  IN [i \in DOMAIN calls |-> <<sorted[i][1], sorted[i][3]>>]

Order ==
  /\ pass = "order"
  /\ pass' = "end"
  /\ found' = Ordered(found)
  /\ result' = IF found = <<>> THEN "error" ELSE "actions"
  /\ UNCHANGED <<text, format, consumed>>

\* _parse_dialect_actions: the tags of the <actions> block, or of the whole text; any
\* tag the grammar does not match is an error.
NativeBody(t) ==
  LET ends(i) == {j \in i + 1 .. Len(t) : IsClose(t, j, "actions")}
      opens == {i \in DOMAIN t : IsOpen(t, i, "actions") /\ ends(i) # {}}
      a == CHOOSE i \in opens : \A j \in opens : i <= j
      b == CHOOSE i \in ends(a) : \A j \in ends(a) : i <= j
  IN IF opens = {} THEN [i \in DOMAIN t |-> i] ELSE [i \in 1 .. b - a - 1 |-> a + i]

NativeCall(token) ==
  IF token.tag = "bare" /\ token.spell # "bad" THEN One(token.name, token.args) ELSE Bad

ParseNative ==
  /\ pass = "native"
  /\ LET tags == SelectSeq(NativeBody(text), LAMBDA i :
                   /\ text[i].tag \in {"bare", "open"}
                   /\ text[i].form # "actions")
     IN Took([n \in DOMAIN tags |-> <<tags[n], NativeCall(text[tags[n]])>>], {}, "order")

Parsed == pass = "end" /\ UNCHANGED dvars

DialectNext ==
  \/ Route \/ TakeToolCalls \/ TakeInvokes \/ TakeFunctions \/ TakeActions
  \/ TakeAnswers \/ TakeBare \/ Order \/ ParseNative \/ Parsed

DialectSpec == DialectInit /\ [][DialectNext]_dvars

-----------------------------------------------------------------------------
(***************************************************************************)
(* Properties.                                                             *)
(***************************************************************************)
\* A message in the shape the module's documentation shows: every container is closed
\* before the next opens (a <tool_call> may hold calls of one grammar, and one JSON
\* object at most), and nothing is malformed.
Flat(t) ==
  LET outer(i) == \E a \in 1 .. i - 1, b \in i + 1 .. Len(t) :
                     /\ t[a].tag = "open" /\ IsClose(t, b, t[a].form)
                     /\ \A j \in a + 1 .. b - 1 : ~IsClose(t, j, t[a].form)
                     /\ t[a].form # "tool_call"
      inTool(i) == {a \in 1 .. i - 1 :
                      /\ IsOpen(t, a, "tool_call")
                      /\ \A j \in a .. i : ~IsClose(t, j, "tool_call")}
  IN /\ \A i \in DOMAIN t : t[i].spell # "bad" /\ ~outer(i)
     /\ \A i \in DOMAIN t :
          CASE t[i].tag = "open" /\ t[i].form = "tool_call" ->
                 /\ \E b \in i + 2 .. Len(t) :
                      /\ IsClose(t, b, "tool_call")
                      /\ \A j \in i + 1 .. b - 1 : t[j].form # "tool_call"
                      /\ \/ b = i + 2 /\ t[i + 1].tag = "json"
                         \/ \E form \in {"invoke", "function"} :
                              \A j \in i + 1 .. b - 1 : t[j].form = form
            [] t[i].tag = "open" /\ t[i].form # "tool_call" /\ t[i].spell # "self" ->
                 i < Len(t) /\ IsClose(t, i + 1, t[i].form)
            [] t[i].tag = "close" /\ t[i].form # "tool_call" ->
                 i > 1 /\ t[i - 1].tag = "open" /\ t[i - 1].form = t[i].form
            [] t[i].tag = "close" /\ t[i].form = "tool_call" ->
                 \E a \in 1 .. i - 2 : IsOpen(t, a, "tool_call")
                                        /\ \A j \in a .. i - 1 : ~IsClose(t, j, "tool_call")
            [] t[i].tag = "json" -> inTool(i) # {}
            [] OTHER -> inTool(i) = {}

\* The calls a reader of the message counts.
Written(t) ==
  {i \in DOMAIN t :
     \/ t[i].tag = "open" /\ t[i].form \in {"invoke", "function", "action", "answer"}
     \/ t[i].tag = "json"
     \/ t[i].tag = "bare" /\ (t[i].name \in Known \cup Wrappers \cup DOMAIN Native)}

ByTheToolCalls == format = "xml" \/ (format = "auto" /\ LooksLikeXml(text))

\* Of a message in the documented shape the tool-call grammars lose no call: either the
\* whole message is an error or every call is one action, and the actions come in the
\* order in which the calls were written.
NothingDropped ==
  (result = "actions" /\ ByTheToolCalls /\ Flat(text)) =>
    /\ Len(found) = Cardinality(Written(text))
    /\ \A i, j \in DOMAIN found : i < j => found[i][1] <= found[j][1]

\* The native grammar executes all of the plan or none of it: as many actions as there
\* are tags in its body, in order.
NativeIsWhole ==
  (result = "actions" /\ ~ByTheToolCalls) =>
    LET tags == {i \in ToSet(NativeBody(text)) : text[i].tag \in {"bare", "open"}
                                               /\ text[i].form # "actions"}
    IN /\ Len(found) = Cardinality(tags)
       /\ \A i, j \in DOMAIN found : i < j => found[i][1] < found[j][1]

\* What the tool-call grammars accept, the wire accepts: a pointing action and a scroll
\* have a point, a normalised point lies in the unit square, a drag has both ends, a
\* scroll has a magnitude, no wait is negative, no chord is empty or unjoined.
Canonical(a) ==
  LET point(p) == p[1] = "px" \/ (p[1] = "norm" /\ p[2] \in 0 .. 10 /\ p[3] \in 0 .. 10)
  IN CASE a.verb \in Pointing -> point(a.target)
       [] a.verb = "drag" -> point(a.target) /\ point(a.to)
       [] a.verb = "scroll" -> point(a.target) /\ (a.dx # <<>> \/ a.dy # <<>>)
       [] a.verb = "wait" -> a.ms = <<>> \/ a.ms[1] > -10
       [] a.verb = "key" -> a.keys.of # <<>> /\ a.keys.sep = "+"
       [] OTHER -> a.verb # "error"

ActionsAreCanonical ==
  (result = "actions" /\ ByTheToolCalls) => \A i \in DOMAIN found : Canonical(found[i][2])

\* A call that asks for a button gets that button or an error, whatever the grammar.
ButtonHonoured ==
  result = "actions" /\ Len(found) = 1 /\ Len(text) = 1 /\ Has(text[1].args, "button") =>
    LET button == text[1].args.button.s
        verb == found[1][2].verb
    IN verb \in Pointing => (button = "right") = (verb = "right_click")

\* What the two grammars promise of a message, as a whole.
DialectsSound == NothingDropped /\ NativeIsWhole /\ ActionsAreCanonical /\ ButtonHonoured

\* dialect.py:452 says of parse_xml_actions that "an action-shaped tag is **never
\* silently dropped**": the call elements of a message are at most as many as the
\* actions that come of it.
NeverSilentlyDropped ==
  (result = "actions" /\ ByTheToolCalls) =>
    Len(found) >= Cardinality({i \in Written(text) : text[i].tag # "json"})
=============================================================================
