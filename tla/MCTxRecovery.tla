---------------------------- MODULE MCTxRecovery ----------------------------
(* The texts TLC tries on TxRecovery.                                      *)
EXTENDS TxRecovery

TextOf(s, g, p) == [stmts |-> s, glued |-> g, parses |-> p]
Keyword(d) == CASE d = "begin" -> "begin" [] d = "work" -> "word" [] OTHER -> "end"

(* A statement begins with its keyword or a comment, in which a ";" and a  *)
(* keyword may stand, or a quote; or a quoted ";" and keyword follow.      *)
Shown(d, tails) == {<<k>> \o tail : k \in {Keyword(d), "word"}, tail \in tails}
StmtsWith(tails) == UNION {{[does |-> d, shows |-> s] : s \in Shown(d, tails)} : d \in Does}

Stmts == StmtsWith({<<>>, <<"semi", "begin">>, <<"semi", "end">>, <<"quote">>,
                    <<"quote", "semi", "end", "quote">>})
FewStmts == StmtsWith({<<>>, <<"quote">>})

(* All of them alone and in pairs, the plainer ones in threes; and as      *)
(* texts that do not parse or whose first word touches a ";".              *)
Runs(S, n) == [1 .. n -> S]
AllTexts ==
    {TextOf(s, FALSE, TRUE) : s \in Runs(Stmts, 1) \cup Runs(Stmts, 2) \cup Runs(FewStmts, 3)}
    \cup {TextOf(s, g, p) : s \in Runs(FewStmts, 1) \cup Runs(FewStmts, 2),
                            g \in BOOLEAN, p \in BOOLEAN}
=============================================================================
