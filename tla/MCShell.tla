------------------------------ MODULE MCShell -------------------------------
(***************************************************************************)
(* The instance of Shell for TLC: lines that use every part of runcmd(),   *)
(* the programs of the labs, and the parser and grep on all short inputs.  *)
(***************************************************************************)
EXTENDS Shell

CONSTANTS MaxTokens, MaxPattern, MaxText, BUFSIZE

G == INSTANCE Grep

MCContents == [f \in FileName |-> IF f = "f" THEN <<4, 5, BLANK, 7>> ELSE Missing]

MCLines ==
    { <<>>,
      <<"echo", "&">>,
      <<"nosuch">>,
      <<"cat", "<", "g">>,
      <<"cat", "<", "f", "|", "cat">>,
      <<"cat", "<", "f", "|", "echo">>,
      <<"echo", "|", "nosuch">>,
      <<"(", "echo", ";", "echo", ")", ">", "g", ";", "cat", "<", "g">>,
      <<"echo", ">>", "f", ";", "cat", "<", "f">>,
      <<"echo", ">", "f", ">", "g">>,
      <<"(", "cat", ";", "cat", ")", "<", "f">>,
      <<"echo", "&", ";", "nosuch">>,
      <<"echo", "|", "xargs", "echo">>,
      <<"xargs">>,
      <<"(", "xargs", "echo", ";", "cat", ")", "<", "f">>,
      <<"cat", "<", "f", "|", "xargs", "nosuch">>,
      <<"echo", "|", "xargs", "nosuch">>,
      <<"cd", "/">>,
      <<"cd", "/", ";", "echo">>,
      <<"primes">>,
      <<"pingpong">>,
      <<"echo", "|", "cat", "|", "cat">>,
      <<"(", "echo", "&", ")", "|", "cat">>,
      <<"(", "cat", "<", "f", "|", "cat", "|", "cat", ")", ">", "g", ";">>,
      <<"echo", ")">> }

Strings(chars, n) == UNION {[1..k -> chars] : k \in 0..n}

(* parsecmd(): on every line of a few tokens the recursive descent gives   *)
(* the tree of the grammar, and panics on exactly the lines that are not   *)
(* in the language, whatever the nesting of blocks, lists, pipes, "&" and  *)
(* redirections.                                                           *)
ParseIsGrammar ==
    proc[sh].code = <<Op("getcmd")>> =>
      \A l \in Strings(symbols \cup {"w"}, MaxTokens) : parsecmd(l) = Line(l)

(* match(), grep(): the matcher finds a pattern in a text exactly when the *)
(* pattern means it, and however read() cuts the input, grep prints each   *)
(* complete matching line once and in order, up to one that does not fit.  *)
GrepIsExact ==
    proc[sh].code = <<Op("getcmd")>> =>
      /\ \A re \in Strings({"a", ".", "*", "^", "$"}, MaxPattern), t \in Strings({"a", "b"}, MaxText) :
           G!match(re, t) <=> G!Meant(re, t)
      /\ \A in \in Strings({"a", "b", G!newline}, MaxText + 1), sizes \in Strings(1..3, 3) :
           G!grep(<<"a">>, <<>>, in, sizes)
             = SelectSeq(G!Fitting(G!LinesOf(in)), LAMBDA l : G!Meant(<<"a">>, l))
=============================================================================
