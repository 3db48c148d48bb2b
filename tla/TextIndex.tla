------------------------------ MODULE TextIndex ------------------------------
(***************************************************************************)
(* Text retrieval (engine/text): the inverted index that spimi.py builds   *)
(* in blocks under a memory budget and merges a few runs at a time, its    *)
(* lexicon and postings file (index.py), and the ranked searches through   *)
(* it or through a scan (ranking.py).  A document is its identity and its  *)
(* tokens, a token is a number that orders like its term; collections are  *)
(* in the order of the scan.                                               *)
(*                                                                         *)
(* Logarithms are integers that grow with their argument, and scores are   *)
(* rounded to integers, as floating-point scores are rounded to doubles.   *)
(***************************************************************************)
EXTENDS Integers, SequencesExt, FiniteSetsExt

CONSTANTS BlockBase,     \* the estimate of an empty block
          TermCost,      \* what a term adds to it
          PostingCost    \* and what a posting does

Unlimited == -1          \* a search without LIMIT

Ascending(s) == SortSeq(s, LAMBDA a, b : a < b)
Ids(docs) == [i \in DOMAIN docs |-> docs[i].id]
Frequency(tokens, term) == Cardinality({i \in DOMAIN tokens : tokens[i] = term})

\* Counter: every token once, in the order of their first occurrences.
Counted(tokens) ==
  FoldLeft(LAMBDA seen, t : IF Contains(seen, t) THEN seen ELSE Append(seen, t), <<>>, tokens)

-----------------------------------------------------------------------------
(* Construction *)

\* _write_block: terms in order, and the postings of each by document.
Run(block) ==
  LET Of(term) == SortSeq(SelectSeq(block, LAMBDA p : p.term = term),
                          LAMBDA p, q : p.doc < q.doc)
      terms    == Ascending(Counted([i \in DOMAIN block |-> block[i].term]))
  IN  [i \in DOMAIN terms |-> [term |-> terms[i], postings |-> Of(terms[i])]]

Cost(block, p) ==
  PostingCost + (IF \E i \in DOMAIN block : block[i].term = p.term THEN 0 ELSE TermCost)

\* A block that has no room for the next posting is written as a run; an empty
\* one that has none is the end of the build.
Spilled(b, p, budget) ==
  IF b.block # <<>> /\ b.bytes + Cost(b.block, p) > budget
  THEN [b EXCEPT !.runs = Append(@, Run(b.block)), !.block = <<>>, !.bytes = BlockBase]
  ELSE b
Charge(b, p, budget) ==
  LET c == Spilled(b, p, budget)
  IN  IF c.bytes + Cost(c.block, p) > budget THEN [c EXCEPT !.fits = FALSE]
      ELSE [c EXCEPT !.block = Append(@, p), !.bytes = @ + Cost(c.block, p)]

PostingsOf(doc) ==
  LET terms == Counted(doc.tokens)
  IN  [i \in DOMAIN terms |-> [term |-> terms[i], doc |-> doc.id,
                               tf |-> Frequency(doc.tokens, terms[i])]]
Blocks(docs, budget) ==
  LET empty == [runs |-> <<>>, block |-> <<>>, bytes |-> BlockBase, fits |-> TRUE]
      last  == FoldLeft(LAMBDA b, p : IF b.fits THEN Charge(b, p, budget) ELSE b, empty,
                        FlattenSeq([i \in DOMAIN docs |-> PostingsOf(docs[i])]))
  IN  IF last.block = <<>> THEN last ELSE [last EXCEPT !.runs = Append(@, Run(last.block))]

\* The lists of one term, merged by the least of their heads.
MergePostings(lists) ==
  LET Head1(at, i) == lists[i][at[i]].doc
      Take(s, n) ==
        LET open  == {i \in DOMAIN lists : s.at[i] <= Len(lists[i])}
            first == CHOOSE i \in open : \A j \in open : Head1(s.at, i) <= Head1(s.at, j)
        IN  [at |-> [s.at EXCEPT ![first] = @ + 1], out |-> Append(s.out, lists[first][s.at[first]])]
      total == FlattenSeq(lists)
  IN  FoldLeft(Take, [at |-> [i \in DOMAIN lists |-> 1], out |-> <<>>], total).out

\* _merge_runs: term by term, from the runs whose next term it is.
MergeRuns(runs) ==
  LET terms == Ascending(Counted(FlattenSeq([i \in DOMAIN runs |->
                 [k \in DOMAIN runs[i] |-> runs[i][k].term]])))
      Lists(term) == [i \in DOMAIN runs |->
        LET entry == SelectSeq(runs[i], LAMBDA e : e.term = term)
        IN  IF entry = <<>> THEN <<>> ELSE entry[1].postings]
  IN  [k \in DOMAIN terms |-> [term |-> terms[k], postings |-> MergePostings(Lists(terms[k]))]]

\* A pass merges fan-in runs at a time; a run that is left alone goes on as it is.
MergePass(runs, fanIn) ==
  LET Group(g) == SubSeq(runs, fanIn * (g - 1) + 1,
                         IF fanIn * g < Len(runs) THEN fanIn * g ELSE Len(runs))
  IN  [g \in 1 .. (Len(runs) + fanIn - 1) \div fanIn |->
         IF Len(Group(g)) = 1 THEN Group(g)[1] ELSE MergeRuns(Group(g))]
Merged(runs, fanIn) ==
  FoldLeft(LAMBDA rs, n : IF Len(rs) > 1 THEN MergePass(rs, fanIn) ELSE rs, runs, runs)

Idf(n, df) == n + 2 - df
Weight(tf, n, df) == (1 + tf) * Idf(n, df)

\* _finish: the lexicon with its offsets, the postings one after the other, and
\* the documents with the squares of their norms from the final frequencies.
Finish(run, docs) ==
  LET Offset(k)   == FoldLeft(LAMBDA n, e : n + Len(e.postings), 0, SubSeq(run, 1, k - 1))
      Square(id)  == FoldLeft(LAMBDA n, e :
                       FoldLeft(LAMBDA m, p : IF p.doc # id THEN m
                                              ELSE m + Weight(p.tf, Len(docs), Len(e.postings)) ^ 2,
                                n, e.postings), 0, run)
      sorted      == SortSeq(docs, LAMBDA d, e : d.id < e.id)
  IN  [lexicon   |-> [k \in DOMAIN run |-> [term |-> run[k].term, dimension |-> k,
                                            offset |-> Offset(k), df |-> Len(run[k].postings)]],
       postings  |-> FlattenSeq([k \in DOMAIN run |-> run[k].postings]),
       documents |-> [i \in DOMAIN sorted |-> [id |-> sorted[i].id, length |-> Len(sorted[i].tokens),
                                               square |-> Square(sorted[i].id)]],
       tokens    |-> Len(FlattenSeq([i \in DOMAIN docs |-> docs[i].tokens]))]

\* build_spimi publishes nothing when an identity comes twice or a posting has no room.
BuildText(docs, budget, fanIn) ==
  LET built == Blocks(docs, budget)
      runs  == Merged(built.runs, fanIn)
  IN  IF ~ IsInjective(Ids(docs)) \/ ~ built.fits THEN <<>>
      ELSE Finish(IF runs = <<>> THEN <<>> ELSE runs[1], docs)

-----------------------------------------------------------------------------
(* The open index *)

Entry(x, term) == SelectSeq(x.lexicon, LAMBDA e : e.term = term)

\* postings: the slice of a term, empty for one that is not in the lexicon.
Postings(x, term) ==
  LET e == Entry(x, term)
  IN  IF e = <<>> THEN <<>> ELSE SubSeq(x.postings, e[1].offset + 1, e[1].offset + e[1].df)

TextContents(x) == UNION {{<<x.lexicon[k].term, p.doc>> :
                             p \in ToSet(Postings(x, x.lexicon[k].term))} : k \in DOMAIN x.lexicon}

Document(x, id) == SelectSeq(x.documents, LAMBDA d : d.id = id)[1]

\* _load and PostingIterator: terms and identities in order, slices that follow
\* each other and cover the file, postings of known documents in order.
IsAscending(s) == \A i \in 1 .. Len(s) - 1 : s[i] < s[i + 1]
LexiconCovers(x) ==
  /\ IsAscending([k \in DOMAIN x.lexicon |-> x.lexicon[k].term])
  /\ \A k \in DOMAIN x.lexicon :
       LET e    == x.lexicon[k]
           next == IF k = Len(x.lexicon) THEN Len(x.postings) ELSE x.lexicon[k + 1].offset
       IN  e.dimension = k /\ e.df \in 1 .. Len(x.documents) /\ e.offset + e.df = next
PostingsAreOrdered(x) ==
  \A k \in DOMAIN x.lexicon :
    LET list == Postings(x, x.lexicon[k].term)
    IN  /\ IsAscending([i \in DOMAIN list |-> list[i].doc])
        /\ \A i \in DOMAIN list : list[i].tf > 0 /\ list[i].doc \in ToSet(Ids(x.documents))

\* _load and validate: the postings add up to the length and the norm of every document.
DocumentsAgree(x) ==
  LET Sum(id, Of(_, _)) ==
        FoldLeft(LAMBDA n, e :
          FoldLeft(LAMBDA m, p : IF p.doc = id THEN m + Of(p, e) ELSE m, n, Postings(x, e.term)),
          0, x.lexicon)
      N == Len(x.documents)
  IN  /\ IsAscending(Ids(x.documents))
      /\ x.tokens = 0 <=> x.lexicon = <<>>
      /\ x.tokens = FoldLeft(LAMBDA n, d : n + d.length, 0, x.documents)
      /\ \A i \in DOMAIN x.documents :
           LET d == x.documents[i]
           IN  /\ d.length = 0 <=> d.square = 0
               /\ d.length = Sum(d.id, LAMBDA p, e : p.tf)
               /\ d.square = Sum(d.id, LAMBDA p, e : Weight(p.tf, N, e.df) ^ 2)

ValidText(x) == LexiconCovers(x) /\ PostingsAreOrdered(x) /\ DocumentsAgree(x)

-----------------------------------------------------------------------------
(* Ranked search *)

Models == {"TF_IDF", "BM25"}
Orders == {"score_desc", "score_asc", "id_asc", "id_desc"}

\* _prepare: the known terms of a query, in order, and how often it has them.
Known(x, query) == SelectSeq(Ascending(Counted(query)), LAMBDA t : Entry(x, t) # <<>>)

\* _contribution, with the constants 1.2 and 0.75 of BM25 as fractions.
Contribution(x, model, query, term, tf, length) ==
  LET n  == Len(x.documents)
      df == Entry(x, term)[1].df
  IN  IF model = "TF_IDF" THEN Weight(tf, n, df) * Weight(Frequency(query, term), n, df)
      ELSE (220 * Idf(n, df) * tf * x.tokens)
             \div (10 * tf * x.tokens + 3 * x.tokens + 9 * length * n)

\* Scores accumulate in the order in which documents are met.
Score(scores, id) == SelectSeq(scores, LAMBDA s : s.id = id)
Adds(scores, id, more) ==
  IF Score(scores, id) = <<>> THEN Append(scores, [id |-> id, score |-> more])
  ELSE [i \in DOMAIN scores |-> IF scores[i].id # id THEN scores[i]
                                ELSE [scores[i] EXCEPT !.score = @ + more]]

\* _index_scores: term after term, posting after posting.
IndexScores(x, model, query) ==
  FoldLeft(LAMBDA scores, t :
    FoldLeft(LAMBDA s, p :
      LET d == Document(x, p.doc)
      IN  IF d.square = 0 THEN s
          ELSE Adds(s, p.doc, Contribution(x, model, query, t, p.tf, d.length)),
      scores, Postings(x, t)), <<>>, Known(x, query))

\* _scan_scores: document after document, from its own tokens.
ScanScores(x, docs, model, query) ==
  LET Matches(d) == \E i \in DOMAIN d.tokens : Contains(Known(x, query), d.tokens[i])
      Of(d) == FoldLeft(LAMBDA n, t :
                 IF Contains(d.tokens, t)
                 THEN n + Contribution(x, model, query, t, Frequency(d.tokens, t), Len(d.tokens))
                 ELSE n, 0, Known(x, query))
      found == SelectSeq(docs, LAMBDA d : Document(x, d.id).square # 0 /\ Matches(d))
  IN  [i \in DOMAIN found |-> [id |-> found[i].id, score |-> Of(found[i])]]

\* The cosine orders as its square does, and as without the norm of the query.
Normalized(x, model, scores) ==
  [i \in DOMAIN scores |->
     IF model = "BM25" THEN scores[i]
     ELSE [scores[i] EXCEPT !.score = (20 * @ * @) \div Document(x, scores[i].id).square]]

\* _heap_select: the root is the worst hit, the lower score, then the larger id.
Worse(a, b) == a.score < b.score \/ (a.score = b.score /\ a.id > b.id)
HeapSelect(scores, limit) ==
  LET Keep(heap, s) ==
        LET root == CHOOSE h \in heap : \A g \in heap \ {h} : Worse(h, g)
        IN  IF Cardinality(heap) < limit THEN heap \cup {s}
            ELSE IF Worse(root, s) THEN (heap \ {root}) \cup {s} ELSE heap
  IN  SetToSortSeq(FoldLeft(Keep, {}, scores), LAMBDA a, b : Worse(b, a))

Before(order, a, b) ==
  CASE order = "score_desc" -> a.score > b.score \/ (a.score = b.score /\ a.id < b.id)
    [] order = "score_asc"  -> a.score < b.score \/ (a.score = b.score /\ a.id < b.id)
    [] order = "id_asc"     -> a.id < b.id
    [] order = "id_desc"    -> a.id > b.id
ExternalSelect(scores, order, limit) ==
  LET sorted == SortSeq(scores, LAMBDA a, b : Before(order, a, b))
  IN  IF limit = Unlimited \/ limit > Len(sorted) THEN sorted ELSE SubSeq(sorted, 1, limit)

\* search_text: only the best k by score come from a heap.
Selected(scores, order, limit) ==
  IF order = "score_desc" /\ limit # Unlimited THEN HeapSelect(scores, limit)
  ELSE ExternalSelect(scores, order, limit)
SearchText(x, docs, model, query, order, limit, useIndexes) ==
  IF limit = 0 \/ x.tokens = 0 \/ Known(x, query) = <<>> THEN <<>>
  ELSE Selected(Normalized(x, model, IF useIndexes THEN IndexScores(x, model, query)
                                     ELSE ScanScores(x, docs, model, query)), order, limit)
=============================================================================
