------------------------------- MODULE Search -------------------------------
(***************************************************************************)
(* One search over everything (search.rs, with the vectors of embed.rs):   *)
(* the words are looked up under the database lock, then the model is      *)
(* read, then the query's vector is made, which may ask a provider, then   *)
(* the vectors are compared under the lock again, and the two lists are    *)
(* fused by rank.  Between those steps rows go and the provider is         *)
(* switched.  How well a row fits is a position in a list that the model   *)
(* is given: the first of each list fits best, any rows in any order for   *)
(* the words, the old or the new ones first for the meaning.               *)
(***************************************************************************)
EXTENDS Integers, Sequences, SequencesExt, FiniteSets

CONSTANTS
  Notes, Commands, \* ids of rows that can be found, of two kinds
  Limits,          \* the sizes of a page that are asked for
  K                \* RRF_K

Docs   == Notes \cup Commands
Kinds  == {Notes, Commands}
Models == {"openai", "local"}

\* The orders in which S can be listed, each member once.
Ranked(S) == {s \in [1 .. Cardinality(S) -> S] : Range(s) = S}

Rank   == UNION {Ranked(S) : S \in SUBSET Docs}
Orders == {s \in Ranked(Docs) : \/ \A i, j \in DOMAIN s : i < j => s[i] < s[j]
                                \/ \A i, j \in DOMAIN s : i < j => s[i] > s[j]}

VARIABLES
  live,     \* rows there are
  vectors,  \* rows that vectors are there for
  model,    \* api_key(): what model() says now
  at,       \* where the search is
  ask,      \* what was asked for: the kinds, the size of the page, how rows fit;
            \* neural: the rows whose vector is of the provider's model
  lex, sem, \* the two lists
  filter,   \* the model whose vectors will be compared
  qv,       \* the model that made the query's vector
  page,     \* what the user sees
  gone,     \* rows deleted after the words were looked up
  changes   \* switches and deletions so far, of which one each is enough

vars == <<live, vectors, model, at, ask, lex, sem, filter, qv, page, gone, changes>>

TypeOK ==
  /\ live \subseteq Docs /\ gone \subseteq Docs /\ live \subseteq vectors
  /\ {model, filter} \subseteq Models /\ qv \in Models \cup {"none"}
  /\ at \in {"words", "model", "vector", "near", "fuse", "done"}
  /\ {lex, sem, page} \subseteq Rank

\* parse_kinds: no kind that is known means all.
ParseKinds(wanted) == IF wanted \cap Kinds = {} THEN Kinds ELSE wanted \cap Kinds

Init ==
  /\ live = Docs /\ vectors = Docs /\ model \in Models
  /\ at = "words"
  /\ \E wanted \in SUBSET Kinds, limit \in Limits, words \in Rank, near \in Orders, neural \in {{}, Notes, Docs} :
       ask = [kinds |-> ParseKinds(wanted), limit |-> limit, words |-> words, near |-> near, neural |-> neural]
  /\ lex = <<>> /\ sem = <<>> /\ page = <<>>
  /\ filter = "local" /\ qv = "none"
  /\ gone = {} /\ changes = {}

Pool == 3 * ask.limit

First(n, s)   == SubSeq(s, 1, IF n < Len(s) THEN n ELSE Len(s))
IndexIn(s, d) == CHOOSE i \in 1 .. Len(s) : s[i] = d

\* The rows of s that are in S, in the order of s.
Among(s, S) ==
  LET upTo[n \in 0 .. Len(s)] ==
        IF n = 0 THEN <<>> ELSE IF s[n] \in S THEN Append(upTo[n - 1], s[n]) ELSE upTo[n - 1]
  IN  upTo[Len(s)]

-----------------------------------------------------------------------------
(* The rest of the program. *)

\* A row goes, and its vector does or stays behind: Embed says when.
Delete(d) ==
  /\ d \in live /\ "delete" \notin changes
  /\ live' = live \ {d} /\ vectors' \in {vectors, vectors \ {d}}
  /\ gone' = IF at = "words" THEN gone ELSE gone \cup {d}
  /\ changes' = changes \cup {"delete"}
  /\ UNCHANGED <<model, at, ask, lex, sem, filter, qv, page>>

Switch ==
  /\ "switch" \notin changes
  /\ model' = IF model = "openai" THEN "local" ELSE "openai"
  /\ changes' = changes \cup {"switch"}
  /\ UNCHANGED <<live, vectors, at, ask, lex, sem, filter, qv, page, gone>>

-----------------------------------------------------------------------------
(* The words. *)

\* The rows of one kind that hold every word, best first; a kind without an
\* index (sessions) is looked through, the newest first.
FtsHits(k) == First(Pool, Among(ask.words, live \cap k))

\* The lists of all kinds, sorted together, cut.
Bm25 ==
  LET hits == UNION {Range(FtsHits(k)) : k \in ask.kinds}
  IN  First(Pool, Among(ask.words, hits))

LookUp ==
  /\ at = "words"
  /\ at' = "model"
  /\ lex' = Bm25
  /\ UNCHANGED <<live, vectors, model, ask, sem, filter, qv, page, gone, changes>>

-----------------------------------------------------------------------------
(* The vectors. *)

\* semantic_global reads the model for the comparison ...
ReadModel ==
  /\ at = "model"
  /\ at' = "vector"
  /\ filter' = model
  /\ UNCHANGED <<live, vectors, model, ask, lex, sem, qv, page, gone, changes>>

\* ... and query_vec reads it again to make the vector, or fails, in which
\* case the words alone answer.
QueryVec ==
  /\ at = "vector"
  /\ \/ at' = "near" /\ qv' = model
     \/ at' = "fuse" /\ model = "openai" /\ UNCHANGED qv
  /\ UNCHANGED <<live, vectors, model, ask, lex, sem, filter, page, gone, changes>>

\* cosine: vectors of two models differ in length, which is 0.
Comparable == qv = filter

\* Local vectors below the floor are noise; what cannot be compared is 0, and
\* of the provider's vectors all are taken.
Scored ==
  LET of == IF filter = "openai" THEN ask.neural ELSE Docs \ ask.neural
  IN  IF Comparable \/ filter = "openai" THEN Among(ask.near, of \cap vectors \cap UNION ask.kinds) ELSE <<>>

\* describe, after the list was cut: what the user reads of a row that is there.
Describe(s) == Among(s, live)

Near ==
  /\ at = "near"
  /\ at' = "fuse"
  /\ sem' = Describe(First(Pool, Scored))
  /\ UNCHANGED <<live, vectors, model, ask, lex, filter, qv, page, gone, changes>>

-----------------------------------------------------------------------------
(* The page. *)

\* 1 / (K + rank), or nothing.
Contribution(s, d) ==
  IF d \in Range(s) THEN [num |-> 1, den |-> K + IndexIn(s, d)] ELSE [num |-> 0, den |-> 1]

\* Mutant: the later list replaces what the first one gave.
Score_Last(d) == Contribution(IF d \in Range(sem) THEN sem ELSE lex, d)

\* A row that is in both lists gets the sum.
Score(d) ==
  LET l == Contribution(lex, d)
      r == Contribution(sem, d)
  IN  [num |-> l.num * r.den + r.num * l.den, den |-> l.den * r.den]

Higher(a, b) == Score(a).num * Score(b).den > Score(b).num * Score(a).den

\* The rows of both lists, each once, by their sums; equal ones by age, which
\* is any order here.
Rrf ==
  {s \in Ranked(Range(lex) \cup Range(sem)) : \A i, j \in DOMAIN s : i < j => ~Higher(s[j], s[i])}

Fuse ==
  /\ at = "fuse"
  /\ at' = "done"
  /\ \E s \in Rrf : page' = First(ask.limit, s)
  /\ UNCHANGED <<live, vectors, model, ask, lex, sem, filter, qv, gone, changes>>

Next ==
  \/ (\E d \in Docs : Delete(d)) \/ Switch
  \/ LookUp \/ ReadModel \/ QueryVec \/ Near \/ Fuse

-----------------------------------------------------------------------------
(* Properties. *)

Found == Range(lex) \cup Range(sem)
Both  == Range(lex) \cap Range(sem)

\* a is on the page above b, or b is not.
Above(a, b) ==
  b \in Range(page) => a \in Range(page) /\ IndexIn(page, a) < IndexIn(page, b)

\* A page shows every row once, the order of each pass where the other has no
\* say, and what both passes found above what one of them found (as long as
\* the lists are not longer than K + 1); it is only short when the passes found
\* no more, and a row on it that is gone went after the words were looked up,
\* although its vector may still be there (search.rs:343, 369-380, 511-544).
PagesAreFused ==
  at = "done" =>
    /\ IsInjective(page) /\ Range(page) \subseteq Found \cap (live \cup gone)
    /\ Len(page) = IF Cardinality(Found) < ask.limit THEN Cardinality(Found) ELSE ask.limit
    /\ Pool < K + 2 => \A a \in Both, b \in Found \ Both : Above(a, b)
    /\ \A s \in {lex, sem} : \A i, j \in 1 .. Len(s) :
         i < j /\ {s[i], s[j]} \cap Both = {} => Above(s[i], s[j])
=============================================================================
