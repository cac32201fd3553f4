----------------------------- MODULE MCWikidot -----------------------------
(* Texts for TLC. *)
EXTENDS Wikidot, TLC

Pair(k, n, body) == <<Tok("[" \o k, n)>> \o body \o <<Tok(k \o "]", n)>>
Word(n) == Tok("word", n)
Var == Tok("var", 0)
Lit == Tok("lit", 0)
Ref(n) == Tok("ref", n)
Note(n, more) == Pair("note", n, <<Word(n)>> \o more)
H(level, body) == Pair("h", level, body)

\* What a page may be put together from; w is a word of its own.
Units(w) ==
    {H(2, <<Word(w)>>), H(1, <<Lit>>), H(13, <<Var>>) \o H(4, <<Word(w)>>),
     Pair("def", 1, <<Word(8), Var>>), Pair("def", 2, <<Word(9)>>) \o <<Ref(2), Ref(3)>>,
     Note(w, <<>>), Note(w, <<Lit, Var>>), <<Tok("notes", 0)>>, <<Tok("toc", 0)>>,
     Pair("fold", 0, H(2, <<Word(w)>>) \o Note(w, <<Var>>) \o <<Lit>>),
     Pair("div", 0, Pair("div", 0, Note(w, <<>>)) \o <<Tok("toc", 0)>> \o H(3, <<Word(w)>>)),
     Pair("tab", 0, Pair("raw", 0, <<Ref(1)>>) \o H(2, <<Ref(1)>>)),
     Pair("anchor", 0, Note(w, <<Ref(1)>>)),
     Pair("box", 0, H(2, <<Word(w)>>) \o Pair("li", 0, <<Var>>)),
     <<Tok("include", 2)>>, <<Tok("include", 3)>>,
     Pair("cell", 0, <<Lit, Var, Ref(1)>>), Pair("module", 0, <<Var, Word(w)>>),
     Pair("float", 0, <<Tok("notes", 0)>> \o Note(w, <<>>)),
     Pair("raw", 0, Pair("def", 1, <<Word(7)>>) \o H(2, <<Word(w)>>)),
     Pair("fold", 0, Pair("cell", 0, <<Lit>>) \o Pair("span", 0, <<Var, Lit>>))}

MCDocs == {a \o b : a \in Units(1), b \in Units(2)}
MCTarget == H(2, <<Word(3)>>) \o Pair("def", 1, <<Word(8), Var>>) \o Pair("module", 0, <<Var>>)

SlotSymmetry == Permutations(Slots)

=============================================================================
