----------------------------- MODULE Fts5Parse ------------------------------
(***************************************************************************)
(* The parser of full-text expressions, fts5ParseExpression of             *)
(* src/sqlite4-build/src/fts5.c, above its phrases: one token of the       *)
(* expression after the other is added to a tree, through a stack of the   *)
(* places in the tree that can still grow.                                 *)
(***************************************************************************)
EXTENDS Integers, Sequences, SequencesExt, FiniteSets, FiniteSetsExt

CONSTANTS
    MaxToken        \* bound: tokens of an expression

VARIABLES
    tokens,         \* the expression so far
    node,           \* the nodes, in the order of their allocation: [t, k, l, r],
                    \* phrase k if t is "p"
    root,           \* pExpr->pRoot
    hier,           \* aHier: [pp, nOpen], pp = <<node, side>> or <<0, "root">>
    rc              \* OK or ERROR

vars == <<tokens, node, root, hier, rc>>

Null == 0

\* TOKEN_NOT and so on: the tighter the operator, the smaller.
TypeOf(t) == CASE t = "NOT" -> 6 [] t = "AND" -> 7 [] t = "OR" -> 8

Init ==
    /\ tokens = <<>>
    /\ node = <<>>
    /\ root = Null
    /\ hier = <<[pp |-> <<0, "root">>, nOpen |-> 0]>>
    /\ rc = "OK"

-----------------------------------------------------------------------------
\* *pp and its assignment, on a record with node and root.
Deref(x, pp) ==
    CASE pp[2] = "root" -> x.root
      [] pp[2] = "l" -> x.node[pp[1]].l
      [] pp[2] = "r" -> x.node[pp[1]].r

SetAt(x, pp, n) ==
    CASE pp[2] = "root" -> [x EXCEPT !.root = n]
      [] pp[2] = "l" -> [x EXCEPT !.node[pp[1]].l = n]
      [] pp[2] = "r" -> [x EXCEPT !.node[pp[1]].r = n]

Tree == [node |-> node, root |-> root, hier |-> hier]

\* fts5AddBinary: the tree at the top of the stack becomes the left side of a
\* new node, whose right side is the new top.
AddBinary(x, t) ==
    LET pp == Last(x.hier).pp
        n == Len(x.node) + 1
        grown == [x EXCEPT !.node = Append(@, [t |-> t, k |-> 0, l |-> Deref(x, pp), r |-> Null])]
    IN [SetAt(grown, pp, n) EXCEPT !.hier = Append(@, [pp |-> <<n, "r">>, nOpen |-> 0])]

\* A node for the phrase that is the k-th token.
AddPhrase(x, k) ==
    LET n == Len(x.node) + 1
    IN SetAt([x EXCEPT !.node = Append(@, [t |-> "p", k |-> k, l |-> Null, r |-> Null])],
             Last(x.hier).pp, n)

\* The loop in front of fts5AddBinary: down the stack while the operator below
\* binds tighter than t, to the innermost open parenthesis at most.
RECURSIVE Popped(_, _)
Popped(x, t) ==
    LET n == Len(x.hier)
    IN IF /\ n > 1
          /\ x.hier[n].nOpen = 0
          /\ TypeOf(x.node[Deref(x, x.hier[n - 1].pp)].t) < TypeOf(t)
       THEN Popped([x EXCEPT !.hier = Front(@)], t)
       ELSE x

Becomes(x) ==
    /\ node' = x.node
    /\ root' = x.root
    /\ hier' = x.hier
    /\ UNCHANGED rc

Error ==
    /\ rc' = "ERROR"
    /\ UNCHANGED <<node, root, hier>>

AtTop == Deref(Tree, Last(hier).pp)

-----------------------------------------------------------------------------
(* The cases of the loop over the tokens.                                  *)

Reads(t) ==
    /\ rc = "OK"
    /\ Len(tokens) < MaxToken
    /\ tokens' = Append(tokens, t)

\* A phrase behind an expression is joined to it with AND.
Phrase ==
    /\ Reads("p")
    /\ LET x == IF AtTop # Null THEN AddBinary(Tree, "AND") ELSE Tree
       IN Becomes(AddPhrase(x, Len(tokens) + 1))

Operator(t) ==
    /\ Reads(t)
    /\ IF AtTop = Null THEN Error ELSE Becomes(AddBinary(Popped(Tree, t), t))

LeftParen ==
    /\ Reads("(")
    /\ IF AtTop # Null THEN Error
       ELSE Becomes([Tree EXCEPT !.hier[Len(hier)].nOpen = @ + 1])

RightParen ==
    /\ Reads(")")
    /\ LET opened == {i \in DOMAIN hier : hier[i].nOpen > 0}
       IN IF AtTop = Null \/ opened = {} THEN Error
          ELSE LET i == Max(opened)
               IN Becomes([Tree EXCEPT
                             !.hier = [SubSeq(hier, 1, i) EXCEPT ![i].nOpen = @ - 1]])

Next ==
    \/ Phrase
    \/ \E t \in {"NOT", "AND", "OR"} : Operator(t)
    \/ LeftParen
    \/ RightParen

Spec == Init /\ [][Next]_vars

\* The checks after the last token.
Accepted ==
    /\ rc = "OK"
    /\ AtTop # Null
    /\ \A i \in DOMAIN hier : hier[i].nOpen = 0

-----------------------------------------------------------------------------
(* The expression as its grammar reads it: <<op, left, right>>, or         *)
(* <<"p", k>> for the phrase that is the k-th token, or Invalid.           *)

RECURSIVE Parsed(_)
Parsed(n) ==
    IF node[n].t = "p" THEN <<"p", node[n].k>>
    ELSE <<node[n].t, Parsed(node[n].l), Parsed(node[n].r)>>

\* The depth of parentheses behind the k-th token.
Depth(s, k) ==
    Cardinality({j \in 1..k : s[j] = "("}) - Cardinality({j \in 1..k : s[j] = ")"})

\* The k-th token is a phrase behind an expression: an AND is left out.
Joined(s, k) == k > 1 /\ s[k] = "p" /\ s[k - 1] \in {"p", ")"}

\* The top-level operators t of tokens i to j: an AND left out is at the token
\* that follows it.
At(s, i, j, t) ==
    {k \in (i + 1)..j :
        /\ Depth(s, k) = Depth(s, i - 1)
        /\ s[k] = t \/ (t = "AND" /\ Joined(s, k))}

Invalid == <<>>

RECURSIVE Meaning(_, _, _)
Meaning(s, i, j) ==
    LET Split(t) ==
            LET k == Min(At(s, i, j, t))
                left == Meaning(s, i, k - 1)
                right == Meaning(s, IF s[k] = t THEN k + 1 ELSE k, j)
            IN IF Invalid \in {left, right} THEN Invalid ELSE <<t, left, right>>
    IN IF i > j THEN Invalid
       ELSE IF At(s, i, j, "OR") # {} THEN Split("OR")
       ELSE IF At(s, i, j, "AND") # {} THEN Split("AND")
       ELSE IF At(s, i, j, "NOT") # {} THEN Split("NOT")
       ELSE IF i = j /\ s[i] = "p" THEN <<"p", i>>
       ELSE IF s[i] = "(" /\ s[j] = ")" THEN Meaning(s, i + 1, j - 1)
       ELSE Invalid

Balanced(s) ==
    /\ \A k \in DOMAIN s : Depth(s, k) >= 0
    /\ Depth(s, Len(s)) = 0

MeaningOf(s) == IF Balanced(s) THEN Meaning(s, 1, Len(s)) ELSE Invalid

ParsesAs(s) == IF Accepted THEN Parsed(root) = MeaningOf(s) ELSE MeaningOf(s) = Invalid

\* An expression is accepted exactly if the grammar in front of fts5ExprAdvance
\* allows it, and NOT binds tighter than AND and AND tighter than OR, whatever
\* parentheses and AND's left out are between them; except that beside a NOT
\* an AND that is left out is not there.
FtsParsesByPrecedence ==
    \/ \E k \in DOMAIN tokens : tokens[k] = "NOT" /\ \E i \in DOMAIN tokens : Joined(tokens, i)
    \/ ParsesAs(tokens)

\* An AND that is left out binds like one that is written.  It binds tighter
\* than a NOT before it: a NOT b c is a NOT (b AND c).
ImplicitAndIsAnd == ParsesAs(tokens)
=============================================================================
