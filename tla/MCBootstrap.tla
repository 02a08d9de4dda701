---------------------------- MODULE MCBootstrap -----------------------------
(***************************************************************************)
(* Bootstrap for TLC.  One variable of the environment takes all its       *)
(* values at a time, beside usual values of the others; FCLONES_ARGS is    *)
(* combined with the safety switch, the durations with each other; up to   *)
(* two words come in every quoting style, longer lists in one.             *)
(***************************************************************************)
EXTENDS Bootstrap

CONSTANT MaxWords  \* bound on the words of one variable

\* Every kind of token, an empty word, and one that needs quoting.
Words == {<<"hidden">>, <<"name">>, <<"name=">>, <<"path">>, <<"--">>,
          <<"format">>, <<"transform">>, <<>>, <<"path", "sp", "sq", "bs", "dq">>}

Values(n) ==
  {v \in [words : BoundedSeq(Words, n), style : {"bs", "sq", "dq"}, cut : BOOLEAN] :
     v.cut => v.words # <<>> /\ v.style # "bs"}

Plain(words) == [words |-> words, style |-> "bs", cut |-> FALSE]

Usual == [args |-> Plain(<<<<"name">>, <<"path">>>>), actionArgs |-> Plain(<<<<"hidden">>>>),
          scanPaths |-> Plain(<<<<"path">>>>), action |-> "link", unsafe |-> FALSE,
          timeout |-> "unset", interval |-> "positive"]

MCSettings ==
  {[Usual EXCEPT !.args = v, !.unsafe = u] :
     v \in Values(2) \union {Plain(w) : w \in BoundedSeq(Words, MaxWords)}, u \in BOOLEAN}
    \union {[Usual EXCEPT !.actionArgs = v] : v \in Values(2)}
    \union {[Usual EXCEPT !.scanPaths = v] : v \in Values(2)}
    \union {[Usual EXCEPT !.action = a, !.timeout = t, !.interval = i] :
              a \in {"unset", "group", "link", "bogus"}, t \in Durations,
              i \in Durations \union {"off"}}
=============================================================================
