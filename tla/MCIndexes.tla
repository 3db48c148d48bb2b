----------------------------- MODULE MCIndexes -----------------------------
(***************************************************************************)
(* A small instance of Indexes: sixteen rows over twelve keys, five of     *)
(* them with the key 6, so that equal keys span several leaves; hashes     *)
(* that collide fully (keys 2 and 9) or in their low bits; points that     *)
(* share coordinates; texts of two terms, and a few of more, in blocks of  *)
(* one posting upward.                                                     *)
(***************************************************************************)
EXTENDS Indexes

RowKeys == <<6, 3, 9, 6, 1, 12, 6, 4, 10, 6, 7, 2, 11, 6, 5, 8>>
MCPairs == {<<RowKeys[r], r>> : r \in DOMAIN RowKeys}

\* Nothing; every row; the rows left after the first; one row per key; half.
OnePerKey == {e \in MCPairs : e[1] # 6 \/ e[2] = 1}
MCLoads == {{}, MCPairs, {e \in MCPairs : e[2] \in 4..14}, OnePerKey,
            {e \in OnePerKey : e[2] \in 1..9}, {e \in MCPairs : e[2] \in {1, 3, 4}}}
MCProbes == {0, 4, 6, 11}

MCHashOf == [k \in 1..12 |-> (<<5, 8, 13, 0, 6, 3, 2, 15, 8, 9, 1, 12>>)[k]]

MCPointOf == [k \in 0..12 |->
  (<<<<2, 2>>, <<0, 0>>, <<0, 3>>, <<1, 1>>, <<4, 0>>, <<4, 4>>, <<2, 3>>, <<3, 3>>,
     <<0, 4>>, <<3, 1>>, <<1, 4>>, <<4, 2>>, <<2, 0>>>>)[k + 1]]

\* A triangle and a polygon with a notch.
MCShapes == {<<<<0, 0>>, <<3, 1>>, <<1, 4>>>>,
             <<<<0, 0>>, <<4, 0>>, <<4, 4>>, <<2, 1>>, <<0, 4>>>>}

\* Documents arrive in any order of their identities; one identity comes twice.
Doc(id, tokens) == [id |-> id, tokens |-> tokens]
ShortTexts == {<<>>, <<3>>, <<5>>, <<3, 5>>, <<5, 5>>}
MCCollections ==
  {<<>>, <<Doc(4, <<>>)>>, <<Doc(1, <<3>>), Doc(1, <<5>>)>>}
  \cup {<<Doc(2, s), Doc(3, t), Doc(1, u)>> : s, t, u \in ShortTexts}
  \cup {<<Doc(7, <<3, 1, 3>>), Doc(2, <<1>>), Doc(9, <<3, 5, 1>>), Doc(5, <<>>), Doc(3, <<1>>)>>,
         <<Doc(1, <<6, 2>>), Doc(8, <<2, 6, 6>>), Doc(4, <<6>>), Doc(6, <<4, 2, 6>>)>>}
MCQueries == {<<>>, <<3>>, <<5, 3, 5>>, <<6, 1>>, <<2, 12, 4, 3>>}
MCLimits == {-1, 0, 1, 2}

\* No room; room for one posting, for two of one term or for two terms; all at once.
MCBuilds == {<<12, 2>>, <<13, 2>>, <<13, 3>>, <<14, 2>>, <<16, 2>>, <<99, 2>>}
=============================================================================
