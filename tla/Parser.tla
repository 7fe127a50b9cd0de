------------------------------- MODULE Parser -------------------------------
(***************************************************************************)
(* The shell's parser (user/sh.c): a recursive descent over the tokens of  *)
(* a line.  gettoken() and peek() are the head of a sequence of tokens: a  *)
(* symbol, or any other string for a word.  A parse is a record of the     *)
(* command tree and the tokens left; panic() is Fail.                      *)
(***************************************************************************)
EXTENDS Integers, Sequences, FiniteSets, SequencesExt, FiniteSetsExt

CONSTANT MAXARGS

symbols == {"<", "|", ">", ">>", "&", ";", "(", ")"}
redirections == {"<", ">", ">>"}

execcmd(argv) == [type |-> "EXEC", argv |-> argv]
pipecmd(l, r) == [type |-> "PIPE", left |-> l, right |-> r]
listcmd(l, r) == [type |-> "LIST", left |-> l, right |-> r]
backcmd(c) == [type |-> "BACK", cmd |-> c]
redircmd(c, tok, file) ==
    [type |-> "REDIR", cmd |-> c, file |-> file,
     mode |-> CASE tok = "<" -> "O_RDONLY" [] tok = ">" -> "O_TRUNC" [] tok = ">>" -> "O_CREATE",
     fd |-> IF tok = "<" THEN 0 ELSE 1]
Syntax == [type |-> "SYNTAX"]

peek(s, toks) == s # <<>> /\ Head(s) \in toks
IsWord(s) == s # <<>> /\ Head(s) \notin symbols

Parsed(c, s) == [ok |-> TRUE, cmd |-> c, s |-> s]
Fail == [ok |-> FALSE, cmd |-> Syntax, s |-> <<>>]

\* The rest of a production, when its first part was parsed.
Join(a, b, F(_, _)) == IF b.ok THEN Parsed(F(a.cmd, b.cmd), b.s) ELSE Fail

RECURSIVE parseline(_), parsepipe(_), parseexec(_), parseredirs(_), parseargs(_, _)
RECURSIVE Backs(_)

\* A parse of redirections wraps the command in them, the last one outermost.
parseredirs(r) ==
    IF ~r.ok \/ ~peek(r.s, redirections) THEN r
    ELSE IF ~IsWord(Tail(r.s)) THEN Fail
    ELSE parseredirs(Parsed(redircmd(r.cmd, r.s[1], r.s[2]), SubSeq(r.s, 3, Len(r.s))))

\* parseexec() adds arguments to the execcmd inside the redirections around it.
RECURSIVE AddArg(_, _)
AddArg(c, w) ==
    IF c.type = "EXEC" THEN execcmd(Append(c.argv, w)) ELSE [c EXCEPT !.cmd = AddArg(@, w)]

parseargs(r, argc) ==
    IF ~r.ok \/ r.s = <<>> \/ peek(r.s, {"|", ")", "&", ";"}) THEN r
    ELSE IF ~IsWord(r.s) \/ argc + 1 >= MAXARGS THEN Fail
    ELSE parseargs(parseredirs(Parsed(AddArg(r.cmd, Head(r.s)), Tail(r.s))), argc + 1)

parseblock(r) ==
    IF r.ok /\ peek(r.s, {")"}) THEN parseredirs(Parsed(r.cmd, Tail(r.s))) ELSE Fail

parseexec(s) ==
    IF peek(s, {"("}) THEN parseblock(parseline(Tail(s)))
    ELSE parseargs(parseredirs(Parsed(execcmd(<<>>), s)), 0)

parsepipe(s) ==
    LET Right(a) == IF a.ok /\ peek(a.s, {"|"}) THEN Join(a, parsepipe(Tail(a.s)), pipecmd) ELSE a
    IN  Right(parseexec(s))

Backs(r) == IF r.ok /\ peek(r.s, {"&"}) THEN Backs(Parsed(backcmd(r.cmd), Tail(r.s))) ELSE r

\* mutant: a list is only looked for where there was no "&"
parselineNoList(s) ==
    LET Right(a) ==
          IF a.ok /\ a.cmd.type # "BACK" /\ peek(a.s, {";"})
          THEN Join(a, parseline(Tail(a.s)), listcmd) ELSE a
    IN  Right(Backs(parsepipe(s)))

parseline(s) ==
    LET Right(a) == IF a.ok /\ peek(a.s, {";"}) THEN Join(a, parseline(Tail(a.s)), listcmd) ELSE a
    IN  Right(Backs(parsepipe(s)))

parsecmd(s) ==
    LET Whole(r) == IF r.ok /\ r.s = <<>> THEN r.cmd ELSE Syntax IN Whole(parseline(s))
-----------------------------------------------------------------------------
(* The language, read off a whole line: a list is split at its first ";"   *)
(* outside parentheses, a pipeline at its first such "|", trailing "&" are *)
(* taken off, and what is left is a block or words with redirections.      *)

Depth(s, i) ==
    Cardinality({j \in 1..i : s[j] = "("}) - Cardinality({j \in 1..i : s[j] = ")"})
Top(s, t) == {i \in DOMAIN s : s[i] = t /\ Depth(s, i) = 0}
Before(s, i) == SubSeq(s, 1, i - 1)
After(s, i) == SubSeq(s, i + 1, Len(s))

IsSyntax(c) == c.type = "SYNTAX"
Both(l, r, F(_, _)) == IF IsSyntax(l) \/ IsSyntax(r) THEN Syntax ELSE F(l, r)

RedirPositions(s) == {i \in DOMAIN s : s[i] \in redirections}
ArgPositions(s) == DOMAIN s \ (RedirPositions(s) \cup {i + 1 : i \in RedirPositions(s)})
At(s, P) == [k \in 1..Cardinality(P) |-> s[SetToSortSeq(P, <)[k]]]

\* A command inside the redirections of s, in their order.
Redirected(c, s) ==
    FoldLeft(LAMBDA d, i : redircmd(d, s[i], s[i + 1]), c, SetToSortSeq(RedirPositions(s), <))

WordsAndRedirs(s) ==
    /\ \A i \in RedirPositions(s) : i + 1 \in DOMAIN s /\ s[i + 1] \notin symbols
    /\ \A i \in ArgPositions(s) : s[i] \notin symbols

RECURSIVE Line(_), Piped(_), Single(_), Background(_)

Line(s) ==
    IF Top(s, ";") = {} THEN Background(s)
    ELSE Both(Background(Before(s, Min(Top(s, ";")))), Line(After(s, Min(Top(s, ";")))), listcmd)

Background(s) ==
    IF s # <<>> /\ Last(s) = "&" THEN Both(Background(Front(s)), execcmd(<<>>), LAMBDA c, d : backcmd(c))
    ELSE Piped(s)

Piped(s) ==
    IF Top(s, "|") = {} THEN Single(s)
    ELSE Both(Single(Before(s, Min(Top(s, "|")))), Piped(After(s, Min(Top(s, "|")))), pipecmd)

Block(s, m) ==
    IF WordsAndRedirs(After(s, m)) /\ ArgPositions(After(s, m)) = {}
    THEN Both(Line(SubSeq(s, 2, m - 1)), execcmd(<<>>), LAMBDA c, d : Redirected(c, After(s, m)))
    ELSE Syntax

Single(s) ==
    IF peek(s, {"("})
    THEN IF Top(s, ")") = {} THEN Syntax ELSE Block(s, Min(Top(s, ")")))
    ELSE IF WordsAndRedirs(s) /\ Cardinality(ArgPositions(s)) < MAXARGS
    THEN Redirected(execcmd(At(s, ArgPositions(s))), s)
    ELSE Syntax
=============================================================================
