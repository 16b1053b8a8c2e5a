------------------------------ MODULE MCParser ------------------------------
(* Calls of each wire: OpenAI fragments with and without an index and with  *)
(* the name repeated, Anthropic blocks, whole Gemini calls, bodies.         *)
EXTENDS Parser

Frag(idx, name, args) == [idx |-> idx, name |-> name, args |-> args]
Wire(w, n) == <<[wire |-> w, n |-> n]>>
Block(open, idx, name, args) == <<[open |-> open, idx |-> idx, name |-> name, args |-> args]>>

Quiet == [kind |-> "chunk", class |-> "payload", text |-> <<>>, frags |-> <<>>,
          whole |-> <<>>, anth |-> <<>>, usage |-> <<>>]
Says(t) == [Quiet EXCEPT !.text = <<t>>]
Sends(f) == [Quiet EXCEPT !.frags = f]
Blocks(e) == [Quiet EXCEPT !.anth = e]
Uses(w, n) == [Quiet EXCEPT !.usage = Wire(w, n)]
Odd == [Quiet EXCEPT !.class = "unknown"]
Ping == [Quiet EXCEPT !.class = "empty"]

Plain == [messages |-> <<"user", "assistant">>, contents |-> <<>>, tools |-> 1,
          declared |-> 0, stream |-> TRUE]
Google == [messages |-> <<>>,
           contents |-> <<[role |-> "user", result |-> FALSE],
                          [role |-> "model", result |-> FALSE],
                          [role |-> "user", result |-> TRUE]>>,
           tools |-> 0, declared |-> 2, stream |-> FALSE]
Asks(b) == [kind |-> "request", body |-> <<b>>]
Answers(c, u) == [kind |-> "response", body |-> <<[calls |-> c, usage |-> u]>>]
Bills(s) == [kind |-> "billing",
             body |-> <<[stream |-> s,
                         usage |-> Wire("openai", [prompt |-> 7, completion |-> 7])]>>]
CutBill == [kind |-> "billing", body |-> <<>>]
Gin(n) == [kind |-> "gin", status |-> n]
Fails == [kind |-> "error"]

(* Of a string literal a part may be there twice and the value still parse. *)
MCValues == {<<"a", "b", "c">>, <<"d", "e">>, <<"v">>} \cup
            {<<"s">> \o t \o <<"z">> : t \in {<<"t">>, <<"t", "t">>}}
MCScripts == {
  <<Asks(Plain), Sends(<<Frag(0, "f", <<>>)>>), Sends(<<Frag(0, "", <<"a">>)>>),
    Sends(<<Frag(0, "", <<"b">>)>>), Sends(<<Frag(0, "", <<"c">>), Frag(1, "g", <<"d">>)>>),
    Sends(<<Frag(1, "", <<"e">>)>>),
    Uses("openai", [prompt |-> 4, completion |-> 2, total |-> 6]), Bills("ok")>>,
  <<Asks(Plain), Sends(<<Frag(0, "f", <<"a">>)>>), Sends(<<Frag(0, "f", <<"b">>)>>),
    Sends(<<Frag(0, "f", <<"c">>)>>), Sends(<<Frag(1, "f", <<"v">>)>>), Bills("")>>,
  <<Asks(Plain), Says("x"), Sends(<<Frag(NoIndex, "f", <<"a">>)>>),
    Sends(<<Frag(NoIndex, "", <<"b", "c">>)>>), Sends(<<Frag(NoIndex, "g", <<"v">>)>>),
    Bills("error"), Gin(200)>>,
  <<Asks(Plain), Uses("anthropic", [in |-> 1, read |-> 5, write |-> 1]),
    Blocks(Block(TRUE, 1, "f", <<>>)), Blocks(Block(FALSE, 1, "", <<"a">>)), Ping,
    Blocks(Block(FALSE, 1, "", <<"b", "c">>)), Uses("anthropic", [in |-> 1, out |-> 3]),
    Bills("ok")>>,
  <<Asks(Google), Says("x"), [Quiet EXCEPT !.whole = <<Frag(NoIndex, "f", <<"v">>)>>],
    [Quiet EXCEPT !.whole = <<Frag(NoIndex, "f", <<"d", "e">>)>>],
    Uses("gemini", [prompt |-> 2, thoughts |-> 3, total |-> 5]), CutBill, Gin(500)>>,
  <<Asks(Plain), Fails, Asks(Plain), Says("x"), Odd, Says("y"), Odd, Bills("")>>,
  <<Asks(Google), Answers({"f"}, Wire("gemini", [prompt |-> 2, candidates |-> 1])),
    Bills(""), Gin(200)>>,
  <<Asks(Plain), Sends(<<Frag(0, "f", <<"s">>)>>), Sends(<<Frag(0, "", <<"t">>)>>),
    Sends(<<Frag(0, "", <<"z">>), Frag(1, "g", <<"v">>)>>),
    Uses("openai", [prompt |-> 4, cached |-> 3]),
    Uses("openai", [prompt |-> 4, completion |-> 2, cached |-> Blank]), Bills("ok"), Says("x")>>,
  <<Asks(Plain), Says("x"), Bills("ok"), Says("y"),
    Uses("openai", [prompt |-> 4, completion |-> 2]), Gin(200)>>}

UsagesIn(l) ==
  CASE l.kind = "chunk" -> Range(l.usage)
    [] l.kind \in {"response", "billing"} /\ l.body # <<>> -> Range(l.body[1].usage)
    [] OTHER -> {}
MCUsages == UNION {UNION {UsagesIn(s[i]) : i \in DOMAIN s} : s \in MCScripts}
=============================================================================
