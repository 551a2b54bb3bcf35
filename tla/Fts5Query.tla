----------------------------- MODULE Fts5Query ------------------------------
(***************************************************************************)
(* MATCH: how src/sqlite4-build/src/fts5.c finds the rows of an expression *)
(* in the index of Fts5.  Each token has a cursor on its entries, in the   *)
(* order of primary keys; nodes of the expression advance them until they  *)
(* agree on a row.  A cursor is here what it still has to visit.           *)
(*                                                                         *)
(* An expression is <<"p", phrase>> or <<operator, left, right>>, as       *)
(* Fts5Parse builds it.  A phrase is strings of tokens [z, pre], joined by *)
(* NEAR; no string is empty.  Nothing is written while a query is open.    *)
(***************************************************************************)
EXTENDS Fts5

CONSTANTS
    Exprs,          \* the expressions asked
    LastInStore     \* no key of the store follows those of the index

VARIABLES
    match,          \* the expression
    csr,            \* None, the tree of nodes with their cursors, or the error
    hits            \* the rows returned, the current one last

queryVars == <<docs, ftsIndex, sizes, global, match, csr, hits>>

QueryInit ==
    /\ docs \in UNION {[S -> Documents] : S \in SUBSET Pk}
    /\ LET x == Filled(Cleared, docs)
       IN ftsIndex = x.entries /\ sizes = x.sizes /\ global = x.global
    /\ match \in Exprs
    /\ csr = None
    /\ hits = <<>>

-----------------------------------------------------------------------------
(* The entries of a token.                                                 *)

\* Tokens in the order of their bytes.
TermBefore(x, y) ==
    \/ IsStrictPrefix(x, y)
    \/ \E i \in DOMAIN x \cap DOMAIN y :
          x[i] < y[i] /\ \A j \in 1..(i - 1) : x[j] = y[j]

PlaceBefore(p, q) == p.c < q.c \/ (p.c = q.c /\ p.o < q.o)

\* fts5ListMerge: of two tokens at one place that of p.
RECURSIVE ListMerge(_, _)
ListMerge(p, q) ==
    IF p = <<>> THEN q
    ELSE IF q = <<>> THEN p
    ELSE IF PlaceBefore(Head(p), Head(q)) THEN <<Head(p)>> \o ListMerge(Tail(p), q)
    ELSE IF PlaceBefore(Head(q), Head(p)) THEN <<Head(q)>> \o ListMerge(p, Tail(q))
    ELSE <<Head(p)>> \o ListMerge(Tail(p), Tail(q))

TermsFor(token) ==
    {t \in {k[1] : k \in DOMAIN ftsIndex} :
        IF token.pre THEN IsPrefix(token.z, t) ELSE t = token.z}

\* The entries [pk, data] of a token; of a prefix as fts5FindPrefixes joins
\* those of its tokens, a later token over an earlier one.
EntriesFor(token) ==
    LET T == SetToSortSeq(TermsFor(token), TermBefore)
        Of(pk) == SelectSeq(T, LAMBDA t : <<t, pk>> \in DOMAIN ftsIndex)
        Joined(pk) == FoldLeft(LAMBDA list, t : ListMerge(Places(ftsIndex[t, pk]), list),
                               <<>>, Of(pk))
        pks == SetToSortSeq({pk \in DOMAIN docs : Of(pk) # <<>>}, <)
    IN [i \in DOMAIN pks |->
          [pk |-> pks[i],
           data |-> IF token.pre THEN PlaceList(Joined(pks[i]))
                    ELSE ftsIndex[token.z, pks[i]]]]

\* sqlite4KVCursorSeek of fts5OpenExprCursors: NOTFOUND is an error here.
SeekFails(token) ==
    /\ LastInStore
    /\ \A k \in DOMAIN ftsIndex : TermBefore(k[1], token.z)

-----------------------------------------------------------------------------
(* An InstanceList: what was read last, which stays behind at the end.     *)

NextOf(it) ==
    IF it.rest = <<>> THEN [it EXCEPT !.eof = TRUE]
    ELSE [it EXCEPT !.at = Head(it.rest), !.rest = Tail(it.rest)]

FirstOf(data) == NextOf([at |-> Place(0, 0, 0), rest |-> Places(data), eof |-> FALSE])

\* fts5TokenAdvanceToMatch, which returns whether it is at the place p.
RECURSIVE AdvancedTo(_, _)
AdvancedTo(it, p) ==
    IF ~PlaceBefore(it.at, p) THEN it
    ELSE LET next == NextOf(it) IN IF next.eof THEN next ELSE AdvancedTo(next, p)

\* The loop of fts5StringFindInstances over the first token's places.
RECURSIVE Instances(_, _, _)
Instances(its, iCol, found) ==
    LET p == its[1].at
        moved == [i \in DOMAIN its |->
                    AdvancedTo(its[i], [p EXCEPT !.o = @ + (i - 1)])]
        here == /\ \A i \in DOMAIN its : moved[i].at.c = p.c /\ moved[i].at.o = p.o + (i - 1)
                /\ iCol < 0 \/ p.c = iCol
        list == IF here THEN Append(found, p) ELSE found
        first == NextOf(its[1])
    IN IF first.eof THEN list ELSE Instances([moved EXCEPT ![1] = first], iCol, list)

StringFindInstances(str, iCol) ==
    PlaceList(Instances([i \in DOMAIN str |-> FirstOf(str[i].left[1].data)], iCol, <<>>))

\* fts5IsNear.
IsNear(p, q, n) == p.c = q.c /\ p.o < q.o /\ p.o + n >= q.o

\* The loop of fts5StringNearTrim.
RECURSIVE Trimmed(_, _, _, _, _)
Trimmed(near, in, nTrail, nLead, kept) ==
    LET next == NextOf(in)
        skip == NextOf(near)
    IN IF IsNear(near.at, in.at, nTrail) \/ IsNear(in.at, near.at, nLead)
       THEN LET list == Append(kept, in.at)
            IN IF next.eof THEN list ELSE Trimmed(near, next, nTrail, nLead, list)
       ELSE IF PlaceBefore(near.at, in.at)
       THEN IF skip.eof THEN kept ELSE Trimmed(skip, in, nTrail, nLead, kept)
       ELSE LET same == near.at.c = in.at.c /\ near.at.o = in.at.o
                list == IF same /\ IsNear(near.at, next.at, nTrail) THEN Append(kept, near.at)
                        ELSE kept
            IN IF next.eof THEN list ELSE Trimmed(near, next, nTrail, nLead, list)

\* fts5StringNearTrim, on lists of strings of nTrim and nNext tokens.
NearTrim(list, nTrim, other, nNext, nNear) ==
    IF other = <<>> THEN <<>>
    ELSE PlaceList(Trimmed(FirstOf(other), FirstOf(list),
                           nNear + (nNext - 1) + 1, nNear + (nTrim - 1) + 1, <<>>))

-----------------------------------------------------------------------------
(* Phrases.  A node has its strings as sequences of tokens with what is    *)
(* left of their cursors, and the lists that were found for the row.       *)

Tokens(n) == UNION {{<<i, j>> : j \in DOMAIN n.strs[i]} : i \in DOMAIN n.strs}

TokenOrder(x, y) == x[1] < y[1] \/ (x[1] = y[1] /\ x[2] < y[2])

Left(n, x) == n.strs[x[1]][x[2]].left

\* fts5PhraseIsMatch: the lists of the strings for the current row.
Lists(n) ==
    LET found == [i \in DOMAIN n.strs |-> StringFindInstances(n.strs[i], n.iCol)]
        Trim(ls, i, j) ==
            [ls EXCEPT ![i] = NearTrim(@, Len(n.strs[i]), ls[j], Len(n.strs[j]),
                                       n.near[IF i < j THEN i ELSE j])]
        up == FoldLeft(LAMBDA ls, i : Trim(ls, i + 1, i), found, [i \in 1..Len(n.near) |-> i])
    IN FoldRight(LAMBDA i, ls : Trim(ls, i, i + 1), [i \in 1..Len(n.near) |-> i], up)

AtEnd(n) == [n EXCEPT !.pk = None]

Popped(n, x) == [n EXCEPT !.strs[x[1]][x[2]].left = Tail(@)]

\* fts5PhraseAdvanceToMatch with fts5PhraseIsMatch: a token whose entry is of a
\* later row than that of the first one makes the first one advance, a token of
\* an earlier row advances itself.
RECURSIVE ToMatch(_)
ToMatch(n) ==
    LET all == SetToSortSeq(Tokens(n), TokenOrder)
        first == all[1]
        pk == Left(n, first)[1].pk
        off == SelectInSeq(all, LAMBDA x : Left(n, x) = <<>> \/ Left(n, x)[1].pk # pk)
        lists == Lists(n)
    IN IF Left(n, first) = <<>> THEN AtEnd(n)
       ELSE IF off # 0
       THEN IF Left(n, all[off]) = <<>> THEN AtEnd(n)
            ELSE ToMatch(Popped(n, IF Left(n, all[off])[1].pk > pk THEN first ELSE all[off]))
       ELSE IF lists[1] = <<>> THEN ToMatch(Popped(n, first))
       ELSE [n EXCEPT !.lists = lists, !.pk = pk]

-----------------------------------------------------------------------------
(* Nodes.                                                                  *)

\* Mutant: a node at its end is smaller than any row.
KeyCompare_EndFirst(p, q) ==
    IF p = q THEN 0
    ELSE IF p = None THEN -1
    ELSE IF q = None THEN 1
    ELSE p - q

\* fts5KeyCompare: a node at its end is larger than any row.
KeyCompare(p, q) ==
    IF p = q THEN 0
    ELSE IF p = None THEN 1
    ELSE IF q = None THEN -1
    ELSE p - q

\* A tree whose cursors are in front of the first entries.
RECURSIVE Opened(_)
Opened(e) ==
    IF e[1] = "p"
    THEN LET ph == e[2]
         IN [op |-> "p", iCol |-> ph.iCol, near |-> ph.near,
             strs |-> [i \in DOMAIN ph.strs |-> [j \in DOMAIN ph.strs[i] |->
                         [left |-> EntriesFor(ph.strs[i][j])]]],
             lists |-> <<>>, pk |-> None]
    ELSE [op |-> e[1], l |-> Opened(e[2]), r |-> Opened(e[3]), pk |-> None]

\* fts5ExprAdvance, with the loops of TOKEN_AND and TOKEN_NOT.
RECURSIVE Advance(_, _), Agreed(_), Unmatched(_)

Agreed(n) ==
    LET res == KeyCompare(n.l.pk, n.r.pk)
    IN IF None \in {n.l.pk, n.r.pk} THEN AtEnd(n)
       ELSE IF res < 0 THEN Agreed([n EXCEPT !.l = Advance(@, FALSE)])
       ELSE IF res > 0 THEN Agreed([n EXCEPT !.r = Advance(@, FALSE)])
       ELSE [n EXCEPT !.pk = n.l.pk]

Unmatched(n) ==
    LET res == KeyCompare(n.l.pk, n.r.pk)
    IN IF None \in {n.l.pk, n.r.pk} \/ res < 0 THEN [n EXCEPT !.pk = n.l.pk]
       ELSE IF res > 0 THEN Unmatched([n EXCEPT !.r = Advance(@, FALSE)])
       ELSE Unmatched([n EXCEPT !.l = Advance(@, FALSE)])

Advance(n, bFirst) ==
    CASE n.op = "p" ->
           IF bFirst THEN ToMatch(n)
           ELSE IF Left(n, <<1, 1>>) = <<>> THEN AtEnd(n)
           ELSE ToMatch(Popped(n, <<1, 1>>))
      [] n.op = "AND" ->
           Agreed([n EXCEPT !.l = Advance(@, bFirst), !.r = Advance(@, bFirst)])
      [] n.op = "OR" ->
           LET res == IF bFirst THEN 0 ELSE KeyCompare(n.l.pk, n.r.pk)
               l == IF res <= 0 THEN Advance(n.l, bFirst) ELSE n.l
               r == IF res >= 0 THEN Advance(n.r, bFirst) ELSE n.r
           IN [n EXCEPT !.l = l, !.r = r,
                        !.pk = IF KeyCompare(l.pk, r.pk) > 0 THEN r.pk ELSE l.pk]
      [] n.op = "NOT" ->
           Unmatched([n EXCEPT !.l = Advance(@, bFirst),
                               !.r = IF bFirst THEN Advance(@, TRUE) ELSE @])

RECURSIVE TokensOf(_)
TokensOf(e) ==
    IF e[1] = "p" THEN UNION {ToSet(e[2].strs[i]) : i \in DOMAIN e[2].strs}
    ELSE TokensOf(e[2]) \cup TokensOf(e[3])

NotFound == [op |-> "error", pk |-> None]

Arrived(n) ==
    /\ csr' = n
    /\ hits' = IF n.pk = None THEN hits ELSE Append(hits, n.pk)

\* OP_FtsOpen: sqlite4Fts5Open.
Open ==
    /\ csr = None
    /\ Arrived(IF \E x \in TokensOf(match) : SeekFails(x) THEN NotFound
               ELSE Advance(Opened(match), TRUE))
    /\ UNCHANGED <<docs, ftsIndex, sizes, global, match>>

\* OP_FtsNext, while sqlite4Fts5Valid.
FtsNext ==
    /\ csr # None
    /\ csr.pk # None
    /\ Arrived(Advance(csr, FALSE))
    /\ UNCHANGED <<docs, ftsIndex, sizes, global, match>>

QueryNext == Open \/ FtsNext

QuerySpec == QueryInit /\ [][QueryNext]_queryVars

-----------------------------------------------------------------------------
\* fts5FindStr: the list of string iStr if its phrase is at row pk, or else the
\* number of the string behind those of n.
RECURSIVE FindStr(_, _, _)
FindStr(pk, n, iStr) ==
    IF n.op = "p"
    THEN IF iStr < Len(n.strs) /\ iStr >= 0 /\ n.pk = pk
         THEN [found |-> TRUE, list |-> n.lists[iStr + 1]]
         ELSE [found |-> FALSE, iStr |-> iStr - Len(n.strs)]
    ELSE LET left == FindStr(pk, n.l, iStr)
         IN IF left.found THEN left ELSE FindStr(pk, n.r, left.iStr)

\* sqlite4_mi_match_count, of all streams.
MatchCount(iC, iPhrase) ==
    LET str == FindStr(csr.pk, csr, iPhrase)
    IN IF str.found
       THEN Len(SelectSeq(Places(str.list), LAMBDA p : iC < 0 \/ p.c = iC))
       ELSE 0

-----------------------------------------------------------------------------
(* What an expression asks for.                                            *)

Column(doc, c) == {<<doc[c + 1][k].t, doc[c + 1][k].o>> : k \in DOMAIN doc[c + 1]}

Is(token, t) == IF token.pre THEN IsPrefix(token.z, t) ELSE t = token.z

\* The places at which a string begins.
BeginsAt(doc, str, iCol) ==
    {x \in UNION {{<<c, y[2]>> : y \in Column(doc, c)} : c \in Col} :
        /\ iCol < 0 \/ x[1] = iCol
        /\ \A j \in DOMAIN str : \E y \in Column(doc, x[1]) :
              y[2] = x[2] + j - 1 /\ Is(str[j], y[1])}

\* Two strings, of m and n tokens, with at most d tokens between them.
AreNear(x, m, y, n, d) ==
    /\ x[1] = y[1]
    /\ \/ x[2] < y[2] /\ y[2] - (x[2] + m) <= d
       \/ y[2] < x[2] /\ x[2] - (y[2] + n) <= d

\* The places of the strings of a phrase that belong to a chain of near ones.
RECURSIVE Chains(_, _, _)
Chains(doc, ph, k) ==
    LET at == BeginsAt(doc, ph.strs[k], ph.iCol)
    IN IF k = 1 THEN {<<x>> : x \in at}
       ELSE {ch \in {Append(c, x) : c \in Chains(doc, ph, k - 1), x \in at} :
               AreNear(ch[k - 1], Len(ph.strs[k - 1]), ch[k], Len(ph.strs[k]), ph.near[k - 1])}

AllChains(doc, ph) == Chains(doc, ph, Len(ph.strs))

RECURSIVE Matches(_, _)
Matches(e, doc) ==
    CASE e[1] = "p" -> AllChains(doc, e[2]) # {}
      [] e[1] = "AND" -> Matches(e[2], doc) /\ Matches(e[3], doc)
      [] e[1] = "OR" -> Matches(e[2], doc) \/ Matches(e[3], doc)
      [] e[1] = "NOT" -> Matches(e[2], doc) /\ ~Matches(e[3], doc)

\* The strings of an expression from left to right: their phrase, their place in
\* it, and whether each node above them finds the row.
RECURSIVE Strings(_, _)
Strings(e, doc) ==
    IF e[1] = "p"
    THEN [i \in DOMAIN e[2].strs |-> [ph |-> e[2], i |-> i, all |-> Matches(e, doc)]]
    ELSE LET below == Strings(e[2], doc) \o Strings(e[3], doc)
         IN [k \in DOMAIN below |-> [below[k] EXCEPT !.all = @ /\ Matches(e, doc)]]

Occurrences(doc, str, iC) ==
    Cardinality({ch[str.i] : ch \in {x \in AllChains(doc, str.ph) : iC < 0 \/ x[1][1] = iC}})

Rows == SetToSortSeq({pk \in DOMAIN docs : Matches(match, docs[pk])}, <)

\* A query returns the rows that match, each once and in the order of their keys,
\* however the cursors of its tokens overtake each other.
FtsFindsRows ==
    (csr # None /\ csr # NotFound) =>
        IF csr.pk = None THEN hits = Rows ELSE IsPrefix(hits, Rows)

\* The number of occurrences that ranking uses is that of the current row: not
\* that of a row at which a cursor has stopped before or has arrived already.
\* It is 0 of a phrase below a node that does not find the row and has gone on.
FtsCountsMatches ==
    (csr # None /\ csr.pk # None) =>
        LET doc == docs[csr.pk]
            strs == Strings(match, doc)
        IN \A k \in DOMAIN strs, c \in {-1} \cup Col :
              \/ MatchCount(c, k - 1) = Occurrences(doc, strs[k], c)
              \/ ~strs[k].all /\ MatchCount(c, k - 1) = 0

FtsFindsMatches == FtsFindsRows /\ FtsCountsMatches

\* A token that no row holds finds no row.  It is an error if its entries would
\* be the last of the store.
MissingTokenIsNoError == csr # NotFound
=============================================================================
