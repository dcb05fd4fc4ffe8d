-------------------------- MODULE Assistant_proofs --------------------------
(***************************************************************************)
(* What Assistant promises about the turn, the search and the calls on the *)
(* wire, for any bounds and any finite set of rows.  The turn's invariant  *)
(* (TurnInv) looks ahead: calls are numbered as they are made, those at    *)
(* work are the last ones, and the conversation with a result owed to each *)
(* of them (Plan) has every call followed by its results.  Starting,       *)
(* cancelling or skipping a call turns an owed result into a given one and *)
(* leaves the plan as it is.  The search's (SearchInv) says what the two   *)
(* lists are, so that a page is what their sums make of them.  The wire's  *)
(* (WireInv) says to which call a fragment belongs, and that what is sent  *)
(* is, answer by answer, the calls and their results.                      *)
(***************************************************************************)
EXTENDS Assistant, SequenceTheorems, FiniteSetTheorems, WellFoundedInduction, TLAPS

-----------------------------------------------------------------------------
(* The turn.  Calls are numbered in the order they are made, and those at  *)
(* work are the last ones: the job's, then the queue.                      *)
Count == Nat \ {0}
Kind  == {"user", "text", "mcp", "calls", "tool"}
Msg   == [kind : Kind, calls : Seq(Turn!Call), id : Nat, how : Turn!Hows]
Jobs  == [call : Turn!Call, kind : {"shell", "file", "outside"}, st : {"ask", "run", "over", "declined"}]
Spent == [calls : Nat, asked : Nat, items : Nat, clears : Nat, toggles : Nat]

\* Calls up to Behind have been made and are no longer at work.
Waiting == Len(queue)
Ahead   == Waiting + (IF Turn!HasJob THEN 1 ELSE 0)
Behind  == budget.calls - Ahead

(* Only calls have calls; results are in the order of the calls.           *)
Sorted(ms, top) ==
  /\ ms \in Seq(Msg)
  /\ \A i \in DOMAIN ms : ms[i].calls # <<>> => ms[i].kind = "calls"
  /\ \A i \in DOMAIN ms : ms[i].kind = "tool" => ms[i].id <= top
  /\ \A i, j \in DOMAIN ms : i < j /\ ms[i].kind = "tool" /\ ms[j].kind = "tool" => ms[i].id < ms[j].id

(* The conversation as it will be once what is at work is answered.        *)
Shape(m) == [kind |-> m.kind, calls |-> m.calls, id |-> m.id]
Owed(c)  == [kind |-> "tool", calls |-> <<>>, id |-> c]
Plan(ms, top, more) ==
  [i \in 1 .. Len(ms) + more |-> IF i <= Len(ms) THEN Shape(ms[i]) ELSE Owed(top + (i - Len(ms)))]
Whole(ms) == Turn!AllAnswered(ms) /\ Turn!NoStrayResult(ms)

(* A call that may still be made or begun has left no trace.               *)
Untouched(top) == \A c \in Turn!Call : c > top => typed[c] = 0 /\ c \notin access

InHand ==
  /\ req # "none" => job = Turn!NoJob /\ queue = <<>>
  /\ budget \in Spent /\ budget.calls <= MaxCalls
  /\ queue \in Seq(Turn!Call) /\ Waiting <= budget.calls
  /\ \A i \in 1 .. Waiting : queue[i] = (budget.calls - Waiting) + i
  /\ Turn!HasJob => job \in Jobs /\ job.call = budget.calls - Waiting

Asked ==
  /\ typed \in [Turn!Call -> Nat] /\ access \subseteq Turn!Call
  /\ \A c \in access : typed[c] > 0 => c \in allowed

Allowed ==
  /\ Asked
  /\ Turn!HasJob /\ job.kind = "file" => job.call \notin access
  /\ Turn!HasJob /\ job.st = "run" /\ job.call \in access => job.call \in allowed

TurnInv ==
  /\ InHand /\ Allowed
  /\ pending \in Nat
  /\ Untouched(budget.calls - Waiting)
  /\ Sorted(messages, Behind)
  /\ budget.clears = 0 => Whole(Plan(messages, Behind, Ahead))

LEMMA AheadNat ==
  ASSUME InHand
  PROVE  /\ Waiting \in Nat /\ Ahead \in Nat /\ Behind \in Nat /\ budget.calls \in Nat
         /\ Behind + Ahead = budget.calls /\ Behind <= budget.calls - Waiting
         /\ Turn!HasJob => Behind = job.call - 1 /\ Ahead = Waiting + 1
         /\ ~Turn!HasJob => Behind = budget.calls - Waiting /\ Ahead = Waiting
<1>1. /\ Waiting \in Nat /\ budget.calls \in Nat /\ Waiting <= budget.calls
      /\ Turn!HasJob => job.call \in Nat \ {0} /\ job.call = budget.calls - Waiting
  BY DEF InHand, Spent, Jobs, Turn!Call, Waiting
<1>. QED
  BY <1>1 DEF Ahead, Behind

(* Messages. *)
LEMMA Made ==
  /\ \A k \in Kind : /\ Turn!Message(k) \in Msg /\ Turn!Message(k).kind = k
                     /\ Turn!Message(k).calls = <<>> /\ Turn!Message(k).id = 0
  /\ \A cs \in Seq(Turn!Call) : /\ Turn!Calls(cs) \in Msg /\ Turn!Calls(cs).kind = "calls"
                                /\ Turn!Calls(cs).calls = cs
  /\ \A c \in Nat, how \in Turn!Hows :
       /\ Turn!Result(c, how) \in Msg /\ Turn!Result(c, how).kind = "tool"
       /\ Turn!Result(c, how).calls = <<>> /\ Turn!Result(c, how).id = c
<1>1. ASSUME NEW k \in Kind
      PROVE  /\ Turn!Message(k) \in Msg /\ Turn!Message(k).kind = k
             /\ Turn!Message(k).calls = <<>> /\ Turn!Message(k).id = 0
  BY DEF Turn!Message, Msg, Turn!Hows
<1>2. ASSUME NEW cs \in Seq(Turn!Call)
      PROVE  /\ Turn!Calls(cs) \in Msg /\ Turn!Calls(cs).kind = "calls"
             /\ Turn!Calls(cs).calls = cs
  <2>1. PICK m : m = [kind |-> "calls", calls |-> cs, id |-> 0, how |-> "none"]
    OBVIOUS
  <2>2. m = Turn!Calls(cs)
    BY <2>1 DEF Turn!Calls, Turn!Message
  <2>3. m \in Msg
    BY <2>1 DEF Msg, Kind, Turn!Hows
  <2>. QED
    BY <2>1, <2>2, <2>3
<1>3. ASSUME NEW c \in Nat, NEW how \in Turn!Hows
      PROVE  /\ Turn!Result(c, how) \in Msg /\ Turn!Result(c, how).kind = "tool"
             /\ Turn!Result(c, how).calls = <<>> /\ Turn!Result(c, how).id = c
  <2>1. PICK blank : blank = Turn!Message("tool")
    OBVIOUS
  <2>2. blank \in Msg /\ blank.kind = "tool" /\ blank.calls = <<>>
    BY <1>1, <2>1 DEF Kind
  <2>3. Turn!Result(c, how) = [blank EXCEPT !.id = c, !.how = how]
    BY <2>1 DEF Turn!Result
  <2>. QED
    BY <2>2, <2>3 DEF Msg
<1>. QED
  BY <1>1, <1>2, <1>3

(* Other messages change neither the order nor the pairs.                  *)
Plain(xs) == xs \in Seq(Msg) /\ \A i \in 1 .. Len(xs) : xs[i].calls = <<>> /\ xs[i].kind # "tool"

(* Results of the calls after top.                                         *)
Answers(xs, top) ==
  xs \in Seq(Msg) /\ \A i \in 1 .. Len(xs) : xs[i].calls = <<>> /\ xs[i].kind = "tool" /\ xs[i].id = top + i

LEMMA Joined ==
  ASSUME NEW ms \in Seq(Msg), NEW xs \in Seq(Msg), NEW all, all = ms \o xs
  PROVE  /\ all \in Seq(Msg) /\ Len(all) = Len(ms) + Len(xs) /\ DOMAIN all = 1 .. Len(all)
         /\ Len(ms) \in Nat /\ Len(xs) \in Nat
         /\ \A i \in 1 .. Len(ms) : all[i] = ms[i]
         /\ \A i \in 1 .. Len(all) : i > Len(ms) => i - Len(ms) \in 1 .. Len(xs) /\ all[i] = xs[i - Len(ms)]
OBVIOUS

LEMMA PlainSorted ==
  ASSUME NEW top \in Nat, NEW ms, Sorted(ms, top), NEW xs, Plain(xs), NEW all, all = ms \o xs
  PROVE  Sorted(all, top)
<1>1. ms \in Seq(Msg) /\ xs \in Seq(Msg)
  BY DEF Sorted, Plain
<1>2. /\ all \in Seq(Msg) /\ Len(all) = Len(ms) + Len(xs) /\ DOMAIN all = 1 .. Len(all)
      /\ Len(ms) \in Nat /\ Len(xs) \in Nat
      /\ \A i \in 1 .. Len(ms) : all[i] = ms[i]
      /\ \A i \in 1 .. Len(all) : i > Len(ms) => i - Len(ms) \in 1 .. Len(xs) /\ all[i] = xs[i - Len(ms)]
  BY <1>1, Joined
<1>3. \A i \in 1 .. Len(all) : i \in 1 .. Len(ms) \/ i > Len(ms)
  BY <1>2
<1>4. \A i \in 1 .. Len(all) : i > Len(ms) => all[i].calls = <<>> /\ all[i].kind # "tool"
  BY <1>2 DEF Plain
<1>5. /\ \A i \in 1 .. Len(ms) : ms[i].calls # <<>> => ms[i].kind = "calls"
      /\ \A i \in 1 .. Len(ms) : ms[i].kind = "tool" => ms[i].id <= top
      /\ \A i, j \in 1 .. Len(ms) : i < j /\ ms[i].kind = "tool" /\ ms[j].kind = "tool" => ms[i].id < ms[j].id
  BY <1>1 DEF Sorted
<1>6. \A i \in 1 .. Len(all) : all[i].calls # <<>> => all[i].kind = "calls"
  BY <1>2, <1>3, <1>4, <1>5
<1>7. \A i \in 1 .. Len(all) : all[i].kind = "tool" => i \in 1 .. Len(ms)
  BY <1>3, <1>4
<1>8. \A i \in 1 .. Len(all) : all[i].kind = "tool" => all[i].id <= top
  BY <1>2, <1>5, <1>7
<1>9. \A i, j \in 1 .. Len(all) : i < j /\ all[i].kind = "tool" /\ all[j].kind = "tool" => all[i].id < all[j].id
  BY <1>2, <1>5, <1>7
<1>. QED
  BY <1>2, <1>6, <1>8, <1>9 DEF Sorted

LEMMA CallsSorted ==
  ASSUME NEW top \in Nat, NEW ms, Sorted(ms, top), NEW q \in Seq(Turn!Call),
         NEW all, all = Append(ms, Turn!Calls(q))
  PROVE  Sorted(all, top)
<1>1. PICK m : m = Turn!Calls(q)
  OBVIOUS
<1>2. m \in Msg /\ m.kind = "calls" /\ ms \in Seq(Msg)
  BY <1>1, Made DEF Sorted
<1>3. /\ all \in Seq(Msg) /\ DOMAIN all = 1 .. Len(ms) + 1 /\ all[Len(ms) + 1] = m
      /\ Len(ms) \in Nat /\ \A i \in 1 .. Len(ms) : all[i] = ms[i]
  BY <1>1, <1>2
<1>4. \A i \in 1 .. Len(ms) + 1 : i \in 1 .. Len(ms) \/ i = Len(ms) + 1
  BY <1>3
<1>5. /\ \A i \in 1 .. Len(ms) : ms[i].calls # <<>> => ms[i].kind = "calls"
      /\ \A i \in 1 .. Len(ms) : ms[i].kind = "tool" => ms[i].id <= top
      /\ \A i, j \in 1 .. Len(ms) : i < j /\ ms[i].kind = "tool" /\ ms[j].kind = "tool" => ms[i].id < ms[j].id
  BY <1>2 DEF Sorted
<1>6. \A i \in DOMAIN all : all[i].calls # <<>> => all[i].kind = "calls"
  BY <1>2, <1>3, <1>4, <1>5
<1>7. \A i \in DOMAIN all : all[i].kind = "tool" => i \in 1 .. Len(ms)
  BY <1>2, <1>3, <1>4
<1>8. \A i \in DOMAIN all : all[i].kind = "tool" => all[i].id <= top
  BY <1>3, <1>5, <1>7
<1>9. \A i, j \in DOMAIN all : i < j /\ all[i].kind = "tool" /\ all[j].kind = "tool" => all[i].id < all[j].id
  BY <1>3, <1>5, <1>7
<1>. QED
  BY <1>3, <1>6, <1>8, <1>9 DEF Sorted

LEMMA AnswersSorted ==
  ASSUME NEW top \in Nat, NEW ms, Sorted(ms, top), NEW xs, Answers(xs, top), NEW all, all = ms \o xs
  PROVE  Sorted(all, top + Len(xs))
<1>1. ms \in Seq(Msg) /\ xs \in Seq(Msg)
  BY DEF Sorted, Answers
<1>2. /\ all \in Seq(Msg) /\ Len(all) = Len(ms) + Len(xs) /\ DOMAIN all = 1 .. Len(all)
      /\ Len(ms) \in Nat /\ Len(xs) \in Nat
      /\ \A i \in 1 .. Len(ms) : all[i] = ms[i]
      /\ \A i \in 1 .. Len(all) : i > Len(ms) => i - Len(ms) \in 1 .. Len(xs) /\ all[i] = xs[i - Len(ms)]
  BY <1>1, Joined
<1>3. \A i \in 1 .. Len(all) : i \in 1 .. Len(ms) \/ i > Len(ms)
  BY <1>2
<1>4. \A i \in 1 .. Len(all) : i > Len(ms) =>
        all[i].calls = <<>> /\ all[i].kind = "tool" /\ all[i].id = top + (i - Len(ms))
  BY <1>2 DEF Answers
<1>5. /\ \A i \in 1 .. Len(ms) : ms[i].calls # <<>> => ms[i].kind = "calls"
      /\ \A i \in 1 .. Len(ms) : ms[i].kind = "tool" => ms[i].id <= top
      /\ \A i, j \in 1 .. Len(ms) : i < j /\ ms[i].kind = "tool" /\ ms[j].kind = "tool" => ms[i].id < ms[j].id
  BY <1>1 DEF Sorted
<1>6. \A i \in 1 .. Len(all) : all[i].calls # <<>> => all[i].kind = "calls"
  BY <1>2, <1>3, <1>4, <1>5
<1>7. \A i \in 1 .. Len(all) : all[i].id \in Nat
  <2>1. \A i \in 1 .. Len(all) : all[i] \in Msg
    BY <1>2
  <2>. QED
    BY <2>1 DEF Msg
<1>8. ASSUME NEW i \in 1 .. Len(all), all[i].kind = "tool" PROVE all[i].id <= top + Len(xs)
  <2>1. CASE i \in 1 .. Len(ms)
    BY <1>2, <1>5, <1>7, <1>8, <2>1
  <2>2. CASE i > Len(ms)
    BY <1>2, <1>4, <1>7, <2>2
  <2>. QED
    BY <1>3, <2>1, <2>2
<1>9. ASSUME NEW i \in 1 .. Len(all), NEW j \in 1 .. Len(all), i < j, all[i].kind = "tool", all[j].kind = "tool"
      PROVE  all[i].id < all[j].id
  <2>1. CASE j \in 1 .. Len(ms)
    BY <1>2, <1>5, <1>9, <2>1
  <2>2. CASE i \in 1 .. Len(ms) /\ j > Len(ms)
    BY <1>2, <1>4, <1>5, <1>7, <1>9, <2>2
  <2>3. CASE i > Len(ms)
    <3>1. j > Len(ms) /\ all[i].id = top + (i - Len(ms)) /\ all[j].id = top + (j - Len(ms))
      BY <1>2, <1>4, <1>9, <2>3
    <3>. QED
      BY <1>2, <1>9, <3>1
  <2>. QED
    BY <1>2, <1>3, <1>9, <2>1, <2>2, <2>3
<1>. QED
  BY <1>2, <1>6, <1>8, <1>9 DEF Sorted

(* Pairs, in a conversation p that goes on as r.                           *)
Rows(p, a) == DOMAIN p = 1 .. a /\ \A i \in 1 .. a : p[i].calls \in Seq(Turn!Call)

LEMMA PairsAre ==
  ASSUME NEW p, NEW a \in Nat, Rows(p, a)
  PROVE  /\ Turn!AllAnswered(p) <=>
              \A i \in 1 .. a : \A n \in 1 .. Len(p[i].calls) :
                i + n \in 1 .. a /\ p[i + n].kind = "tool" /\ p[i + n].id = p[i].calls[n]
         /\ Turn!NoStrayResult(p) <=>
              \A k \in 1 .. a : p[k].kind = "tool" =>
                \E i \in 1 .. k - 1 : k - i \in 1 .. Len(p[i].calls) /\ p[k].id = p[i].calls[k - i]
<1>1. \A i \in 1 .. a : DOMAIN p[i].calls = 1 .. Len(p[i].calls) /\ Len(p[i].calls) \in Nat
  BY DEF Rows
<1>2. \A i \in 1 .. a : \A n \in 1 .. Len(p[i].calls) :
        Turn!Answered(p, i, n) <=>
          i + n \in 1 .. a /\ p[i + n].kind = "tool" /\ p[i + n].id = p[i].calls[n]
  BY DEF Rows, Turn!Answered
<1>3. Turn!AllAnswered(p) <=>
        \A i \in 1 .. a : \A n \in 1 .. Len(p[i].calls) :
          i + n \in 1 .. a /\ p[i + n].kind = "tool" /\ p[i + n].id = p[i].calls[n]
  <2>1. Turn!AllAnswered(p) <=> \A i \in 1 .. a : \A n \in DOMAIN p[i].calls : Turn!Answered(p, i, n)
    BY DEF Turn!AllAnswered, Rows
  <2>2. \A i \in 1 .. a :
          (\A n \in DOMAIN p[i].calls : Turn!Answered(p, i, n)) <=>
          \A n \in 1 .. Len(p[i].calls) :
            i + n \in 1 .. a /\ p[i + n].kind = "tool" /\ p[i + n].id = p[i].calls[n]
    BY <1>1, <1>2
  <2>. QED
    BY <2>1, <2>2
<1>4. ASSUME NEW k \in 1 .. a, NEW i \in 1 .. k - 1
      PROVE  /\ i \in 1 .. a /\ i + (k - i) = k
             /\ k - i \in DOMAIN p[i].calls /\ Turn!Answered(p, i, k - i) <=>
                  k - i \in 1 .. Len(p[i].calls) /\ p[k].kind = "tool" /\ p[k].id = p[i].calls[k - i]
  <2>1. i \in 1 .. a /\ i + (k - i) = k
    OBVIOUS
  <2>2. PICK n : n = k - i
    OBVIOUS
  <2>3. i + n = k
    BY <2>1, <2>2
  <2>4. n \in 1 .. Len(p[i].calls) =>
          (Turn!Answered(p, i, n) <=> p[k].kind = "tool" /\ p[k].id = p[i].calls[n])
    BY <1>2, <2>1, <2>3
  <2>. QED
    BY <1>1, <2>1, <2>2, <2>4
<1>5. Turn!NoStrayResult(p) <=>
        \A k \in 1 .. a : p[k].kind = "tool" =>
          \E i \in 1 .. k - 1 : k - i \in 1 .. Len(p[i].calls) /\ p[k].id = p[i].calls[k - i]
  BY <1>4 DEF Turn!NoStrayResult, Rows
<1>. QED
  BY <1>3, <1>5

LEMMA WholeIs ==
  ASSUME NEW p, NEW a \in Nat, Rows(p, a)
  PROVE  Whole(p) <=>
           /\ \A i \in 1 .. a : \A n \in 1 .. Len(p[i].calls) :
                i + n \in 1 .. a /\ p[i + n].kind = "tool" /\ p[i + n].id = p[i].calls[n]
           /\ \A k \in 1 .. a : p[k].kind = "tool" =>
                \E i \in 1 .. k - 1 : k - i \in 1 .. Len(p[i].calls) /\ p[k].id = p[i].calls[k - i]
BY PairsAre DEF Whole

(* What neither calls nor answers leaves the pairs as they are.            *)
LEMMA WholeGoesOn ==
  ASSUME NEW a \in Nat, NEW b \in Nat, a <= b, NEW p, NEW r, Rows(p, a), Rows(r, b), Whole(p),
         \A i \in 1 .. a : r[i] = p[i],
         \A i \in 1 .. b : i > a => r[i].calls = <<>> /\ r[i].kind # "tool"
  PROVE  Whole(r)
<1>1. /\ \A i \in 1 .. a : \A n \in 1 .. Len(p[i].calls) :
           i + n \in 1 .. a /\ p[i + n].kind = "tool" /\ p[i + n].id = p[i].calls[n]
      /\ \A k \in 1 .. a : p[k].kind = "tool" =>
           \E i \in 1 .. k - 1 : k - i \in 1 .. Len(p[i].calls) /\ p[k].id = p[i].calls[k - i]
  BY WholeIs
<1>2. \A i \in 1 .. b : i \in 1 .. a \/ i > a
  OBVIOUS
<1>3. ASSUME NEW i \in 1 .. b, NEW n \in 1 .. Len(r[i].calls)
      PROVE  i + n \in 1 .. b /\ r[i + n].kind = "tool" /\ r[i + n].id = r[i].calls[n]
  <2>1. i \in 1 .. a
    BY <1>2, <1>3
  <2>2. r[i] = p[i] /\ i + n \in 1 .. a /\ p[i + n].kind = "tool" /\ p[i + n].id = p[i].calls[n]
    BY <1>1, <1>3, <2>1
  <2>3. i + n \in 1 .. b /\ r[i + n] = p[i + n]
    BY <2>2
  <2>. QED
    BY <2>2, <2>3
<1>4. ASSUME NEW k \in 1 .. b, r[k].kind = "tool"
      PROVE  \E i \in 1 .. k - 1 : k - i \in 1 .. Len(r[i].calls) /\ r[k].id = r[i].calls[k - i]
  <2>1. k \in 1 .. a /\ p[k].kind = "tool"
    BY <1>2, <1>4
  <2>2. PICK i \in 1 .. k - 1 : k - i \in 1 .. Len(p[i].calls) /\ p[k].id = p[i].calls[k - i]
    BY <1>1, <2>1
  <2>3. i \in 1 .. a
    BY <2>1
  <2>. QED
    BY <2>1, <2>2, <2>3
<1>. QED
  BY <1>3, <1>4, WholeIs

(* New calls, and a result for each.                                       *)
CallsFollow(p, a, r, b, q) ==
  /\ \A i \in 1 .. a : r[i] = p[i]
  /\ r[a + 1].calls = q /\ r[a + 1].kind = "calls"
  /\ \A i \in 1 .. b : i > a + 1 => r[i].calls = <<>> /\ r[i].kind = "tool" /\ r[i].id = q[i - (a + 1)]

LEMMA WholeWithCalls ==
  ASSUME NEW a \in Nat, NEW p, NEW r, NEW q \in Seq(Turn!Call), NEW b \in Nat, b = a + 1 + Len(q),
         Rows(p, a), Rows(r, b), Whole(p), CallsFollow(p, a, r, b, q)
  PROVE  Whole(r)
<1>1. /\ \A i \in 1 .. a : \A n \in 1 .. Len(p[i].calls) :
           i + n \in 1 .. a /\ p[i + n].kind = "tool" /\ p[i + n].id = p[i].calls[n]
      /\ \A k \in 1 .. a : p[k].kind = "tool" =>
           \E i \in 1 .. k - 1 : k - i \in 1 .. Len(p[i].calls) /\ p[k].id = p[i].calls[k - i]
  BY WholeIs
<1>0. /\ \A i \in 1 .. a : r[i] = p[i]
      /\ r[a + 1].calls = q /\ r[a + 1].kind = "calls"
      /\ \A i \in 1 .. b : i > a + 1 => r[i].calls = <<>> /\ r[i].kind = "tool" /\ r[i].id = q[i - (a + 1)]
  BY DEF CallsFollow
<1>2. \A i \in 1 .. b : i \in 1 .. a \/ i = a + 1 \/ i > a + 1
  OBVIOUS
<1>3. Len(q) \in Nat
  OBVIOUS
<1>4. ASSUME NEW i \in 1 .. b, NEW n \in 1 .. Len(r[i].calls)
      PROVE  i + n \in 1 .. b /\ r[i + n].kind = "tool" /\ r[i + n].id = r[i].calls[n]
  <2>1. CASE i \in 1 .. a
    <3>1. r[i] = p[i] /\ i + n \in 1 .. a /\ p[i + n].kind = "tool" /\ p[i + n].id = p[i].calls[n]
      BY <1>0, <1>1, <1>4, <2>1
    <3>2. i + n \in 1 .. b /\ r[i + n] = p[i + n]
      BY <1>0, <1>3, <3>1
    <3>. QED
      BY <3>1, <3>2
  <2>2. CASE i = a + 1
    <3>1. n \in 1 .. Len(q)
      BY <1>0, <2>2
    <3>2. i + n \in 1 .. b /\ i + n > a + 1 /\ (i + n) - (a + 1) = n
      BY <1>0, <1>3, <2>2, <3>1
    <3>. QED
      BY <1>0, <2>2, <3>1, <3>2
  <2>3. CASE i > a + 1
    BY <1>0, <1>4, <2>3
  <2>. QED
    BY <1>2, <2>1, <2>2, <2>3
<1>5. ASSUME NEW k \in 1 .. b, r[k].kind = "tool"
      PROVE  \E i \in 1 .. k - 1 : k - i \in 1 .. Len(r[i].calls) /\ r[k].id = r[i].calls[k - i]
  <2>1. CASE k \in 1 .. a
    <3>1. PICK i \in 1 .. k - 1 : k - i \in 1 .. Len(p[i].calls) /\ p[k].id = p[i].calls[k - i]
      BY <1>0, <1>1, <1>5, <2>1
    <3>2. i \in 1 .. a
      BY <2>1
    <3>. QED
      BY <1>0, <2>1, <3>1, <3>2
  <2>2. CASE k > a + 1
    <3>1. PICK i : i = a + 1
      OBVIOUS
    <3>2. i \in 1 .. k - 1 /\ k - i \in 1 .. Len(q) /\ r[i].calls = q /\ r[k].id = q[k - i]
      BY <1>0, <1>3, <2>2, <3>1
    <3>. QED
      BY <3>2
  <2>. QED
    BY <1>0, <1>2, <1>5, <2>1, <2>2
<1>. QED
  BY <1>4, <1>5, WholeIs

(* The plan of a conversation. *)
IsPlan(p, ms, top, more) ==
  /\ Len(ms) \in Nat /\ Rows(p, Len(ms) + more)
  /\ \A i \in 1 .. Len(ms) : p[i] = Shape(ms[i])
  /\ \A i \in 1 .. Len(ms) + more : i > Len(ms) => p[i] = Owed(top + (i - Len(ms)))

LEMMA ShapeIs ==
  /\ \A m : Shape(m).kind = m.kind /\ Shape(m).calls = m.calls /\ Shape(m).id = m.id
  /\ \A c : Owed(c).kind = "tool" /\ Owed(c).calls = <<>> /\ Owed(c).id = c
  /\ \A m, c : m.kind = "tool" /\ m.calls = <<>> /\ m.id = c => Shape(m) = Owed(c)
BY DEF Shape, Owed

LEMMA PlanIs ==
  ASSUME NEW ms \in Seq(Msg), NEW top \in Nat, NEW more \in Nat
  PROVE  IsPlan(Plan(ms, top, more), ms, top, more)
<1>1. Len(ms) \in Nat /\ \A i \in 1 .. Len(ms) : ms[i] \in Msg
  OBVIOUS
<1>2. PICK p : p = Plan(ms, top, more)
  OBVIOUS
<1>3. /\ DOMAIN p = 1 .. Len(ms) + more
      /\ \A i \in 1 .. Len(ms) + more : i <= Len(ms) => p[i] = Shape(ms[i])
      /\ \A i \in 1 .. Len(ms) + more : ~(i <= Len(ms)) => p[i] = Owed(top + (i - Len(ms)))
  BY <1>2 DEF Plan
<1>4. \A i \in 1 .. Len(ms) : p[i] = Shape(ms[i])
  BY <1>1, <1>3
<1>5. \A i \in 1 .. Len(ms) + more : i > Len(ms) => p[i] = Owed(top + (i - Len(ms)))
  BY <1>1, <1>3
<1>6. ASSUME NEW i \in 1 .. Len(ms) + more PROVE p[i].calls \in Seq(Turn!Call)
  <2>1. CASE i <= Len(ms)
    <3>1. ms[i].calls \in Seq(Turn!Call)
      BY <1>1, <2>1 DEF Msg
    <3>2. p[i].calls = ms[i].calls
      BY <1>3, <2>1, ShapeIs, Zenon
    <3>. QED
      BY <3>1, <3>2, Zenon
  <2>2. CASE ~(i <= Len(ms))
    <3>1. p[i].calls = <<>>
      BY <1>3, <2>2, ShapeIs, Zenon
    <3>2. <<>> \in Seq(Turn!Call)
      OBVIOUS
    <3>. QED
      BY <3>1, <3>2, Zenon
  <2>. QED
    BY <2>1, <2>2
<1>7. Rows(p, Len(ms) + more)
  BY <1>3, <1>6 DEF Rows
<1>8. IsPlan(p, ms, top, more)
  BY <1>1, <1>4, <1>5, <1>7 DEF IsPlan
<1>. QED
  BY <1>2, <1>8

LEMMA PlainPlan ==
  ASSUME NEW top \in Nat, NEW later \in Nat, NEW ms \in Seq(Msg), NEW xs, Plain(xs),
         Whole(Plan(ms, top, 0)), NEW all, all = ms \o xs
  PROVE  Whole(Plan(all, later, 0))
<1>1. PICK p, r : p = Plan(ms, top, 0) /\ r = Plan(all, later, 0)
  OBVIOUS
<1>2. /\ all \in Seq(Msg) /\ Len(all) = Len(ms) + Len(xs) /\ Len(ms) \in Nat /\ Len(xs) \in Nat
      /\ \A i \in 1 .. Len(ms) : all[i] = ms[i]
      /\ \A i \in 1 .. Len(all) : i > Len(ms) => i - Len(ms) \in 1 .. Len(xs) /\ all[i] = xs[i - Len(ms)]
  BY Joined DEF Plain
<1>3. Rows(p, Len(ms)) /\ \A i \in 1 .. Len(ms) : p[i] = Shape(ms[i])
  <2>1. Len(ms) + 0 = Len(ms)
    BY <1>2
  <2>2. IsPlan(p, ms, top, 0)
    BY <1>1, PlanIs
  <2>. QED
    BY <2>1, <2>2 DEF IsPlan
<1>4. Rows(r, Len(all)) /\ \A i \in 1 .. Len(all) : r[i] = Shape(all[i])
  <2>1. Len(all) + 0 = Len(all)
    BY <1>2
  <2>2. IsPlan(r, all, later, 0)
    BY <1>1, <1>2, PlanIs
  <2>. QED
    BY <2>1, <2>2 DEF IsPlan
<1>5. \A i \in 1 .. Len(ms) : r[i] = p[i]
  <2>1. \A i \in 1 .. Len(ms) : i \in 1 .. Len(all)
    BY <1>2
  <2>. QED
    BY <1>2, <1>3, <1>4, <2>1
<1>6. ASSUME NEW i \in 1 .. Len(all), i > Len(ms) PROVE r[i].calls = <<>> /\ r[i].kind # "tool"
  <2>1. all[i].calls = <<>> /\ all[i].kind # "tool"
    BY <1>2, <1>6 DEF Plain
  <2>2. r[i].calls = all[i].calls /\ r[i].kind = all[i].kind
    BY <1>4, ShapeIs
  <2>. QED
    BY <2>1, <2>2
<1>7. Len(all) \in Nat /\ Len(ms) <= Len(all)
  BY <1>2
<1>. QED
  BY <1>1, <1>2, <1>3, <1>4, <1>5, <1>6, <1>7, WholeGoesOn

LEMMA CallsPlan ==
  ASSUME NEW top \in Nat, NEW ms \in Seq(Msg), NEW q \in Seq(Turn!Call),
         \A i \in 1 .. Len(q) : q[i] = top + i, Whole(Plan(ms, top, 0)),
         NEW all, all = Append(ms, Turn!Calls(q))
  PROVE  Whole(Plan(all, top, Len(q)))
<1>1. PICK p, r : p = Plan(ms, top, 0) /\ r = Plan(all, top, Len(q))
  OBVIOUS
<1>2. PICK m \in Msg : m = Turn!Calls(q) /\ m.kind = "calls" /\ m.calls = q
  BY Made
<1>3. /\ all \in Seq(Msg) /\ Len(all) = Len(ms) + 1 /\ Len(ms) \in Nat /\ Len(q) \in Nat
      /\ all[Len(ms) + 1] = m /\ \A i \in 1 .. Len(ms) : all[i] = ms[i]
  BY <1>2
<1>4. Rows(p, Len(ms)) /\ \A i \in 1 .. Len(ms) : p[i] = Shape(ms[i])
  <2>1. Len(ms) + 0 = Len(ms)
    BY <1>3
  <2>2. IsPlan(p, ms, top, 0)
    BY <1>1, PlanIs
  <2>. QED
    BY <2>1, <2>2 DEF IsPlan
<1>5. /\ Rows(r, (Len(ms) + 1) + Len(q))
      /\ \A i \in 1 .. Len(ms) + 1 : r[i] = Shape(all[i])
      /\ \A i \in 1 .. (Len(ms) + 1) + Len(q) : i > Len(ms) + 1 =>
           r[i] = Owed(top + (i - (Len(ms) + 1)))
  <2>1. IsPlan(r, all, top, Len(q))
    BY <1>1, <1>3, PlanIs
  <2>. QED
    BY <1>3, <2>1 DEF IsPlan
<1>6. \A i \in 1 .. Len(ms) : r[i] = p[i]
  <2>1. \A i \in 1 .. Len(ms) : i \in 1 .. Len(ms) + 1
    BY <1>3
  <2>. QED
    BY <1>3, <1>4, <1>5, <2>1
<1>7. r[Len(ms) + 1].calls = q /\ r[Len(ms) + 1].kind = "calls"
  <2>1. Len(ms) + 1 \in 1 .. Len(ms) + 1
    BY <1>3
  <2>2. r[Len(ms) + 1] = Shape(m)
    BY <1>3, <1>5, <2>1
  <2>. QED
    BY <1>2, <2>2, ShapeIs
<1>8. ASSUME NEW i \in 1 .. (Len(ms) + 1) + Len(q), i > Len(ms) + 1
      PROVE  r[i].calls = <<>> /\ r[i].kind = "tool" /\ r[i].id = q[i - (Len(ms) + 1)]
  <2>1. PICK n : n = i - (Len(ms) + 1)
    OBVIOUS
  <2>2. n \in 1 .. Len(q)
    BY <1>3, <1>8, <2>1
  <2>3. q[n] = top + n
    BY <2>2
  <2>4. r[i] = Owed(top + n)
    BY <1>5, <1>8, <2>1
  <2>. QED
    BY <2>1, <2>3, <2>4, ShapeIs
<1>9. PICK a \in Nat, b \in Nat : a = Len(ms) /\ b = (Len(ms) + 1) + Len(q)
  BY <1>3
<1>10. b = a + 1 + Len(q) /\ Rows(p, a) /\ Rows(r, b) /\ Whole(p)
  BY <1>1, <1>4, <1>5, <1>9
<1>11. CallsFollow(p, a, r, b, q)
  BY <1>6, <1>7, <1>8, <1>9 DEF CallsFollow
<1>12. Whole(r)
  BY <1>10, <1>11, WholeWithCalls
<1>. QED
  BY <1>1, <1>12

(* An answer that is given was planned.                                    *)
Given(ms, xs, all, top, later, more, size) ==
  /\ top \in Nat /\ more \in Nat /\ Sorted(ms, top) /\ Answers(xs, top)
  /\ all = ms \o xs /\ later = top + Len(xs) /\ size = Len(xs) + more

LEMMA AnswersPlan ==
  ASSUME NEW ms, NEW xs, NEW all, NEW top, NEW later, NEW more, NEW size,
         Given(ms, xs, all, top, later, more, size)
  PROVE  Whole(Plan(ms, top, size)) => Whole(Plan(all, later, more))
<1>1. /\ top \in Nat /\ more \in Nat /\ ms \in Seq(Msg) /\ Answers(xs, top)
      /\ all = ms \o xs /\ later = top + Len(xs) /\ size = Len(xs) + more
  BY DEF Given, Sorted
<1>3. PICK p, r : p = Plan(ms, top, size) /\ r = Plan(all, later, more)
  OBVIOUS
<1>4. /\ all \in Seq(Msg) /\ Len(all) = Len(ms) + Len(xs) /\ Len(ms) \in Nat /\ Len(xs) \in Nat
      /\ \A i \in 1 .. Len(ms) : all[i] = ms[i]
      /\ \A i \in 1 .. Len(all) : i > Len(ms) => i - Len(ms) \in 1 .. Len(xs) /\ all[i] = xs[i - Len(ms)]
  BY <1>1, Joined DEF Answers
<1>5. later \in Nat /\ size \in Nat /\ Len(all) + more = Len(ms) + size
  BY <1>1, <1>4
<1>6. /\ \A i \in 1 .. Len(ms) : p[i] = Shape(ms[i])
      /\ \A i \in 1 .. Len(ms) + size : i > Len(ms) =>
           p[i] = Owed(top + (i - Len(ms)))
  <2>1. IsPlan(p, ms, top, size)
    BY <1>1, <1>3, <1>5, PlanIs
  <2>. QED
    BY <2>1 DEF IsPlan
<1>7. /\ \A i \in 1 .. Len(all) : r[i] = Shape(all[i])
      /\ \A i \in 1 .. Len(all) + more : i > Len(all) =>
           r[i] = Owed(later + (i - Len(all)))
  <2>1. IsPlan(r, all, later, more)
    BY <1>1, <1>3, <1>4, <1>5, PlanIs
  <2>. QED
    BY <2>1 DEF IsPlan
<1>8. ASSUME NEW i \in 1 .. Len(ms) + size PROVE p[i] = r[i]
  <2>1. CASE i \in 1 .. Len(ms)
    <3>1. i \in 1 .. Len(all)
      BY <1>1, <1>4, <2>1
    <3>. QED
      BY <1>1, <1>4, <1>6, <1>7, <2>1, <3>1
  <2>2. CASE i > Len(ms) /\ i \in 1 .. Len(all)
    <3>1. PICK m : m = all[i]
      OBVIOUS
    <3>2. m.kind = "tool" /\ m.calls = <<>> /\ m.id = top + (i - Len(ms))
      BY <1>1, <1>4, <2>2, <3>1 DEF Answers
    <3>3. r[i] = Owed(top + (i - Len(ms)))
      BY <1>1, <1>7, <2>2, <3>1, <3>2, ShapeIs
    <3>. QED
      BY <1>6, <2>2, <3>3
  <2>3. CASE i > Len(all)
    <3>1. later + (i - Len(all)) = top + (i - Len(ms)) /\ i > Len(ms) /\ i \in 1 .. Len(all) + more
      BY <1>1, <1>4, <1>5, <2>3
    <3>. QED
      BY <1>1, <1>6, <1>7, <2>3, <3>1
  <2>. QED
    BY <1>1, <1>4, <1>5, <2>1, <2>2, <2>3
<1>9. p = r
  <2>1. DOMAIN p = 1 .. Len(ms) + size /\ DOMAIN r = 1 .. Len(ms) + size
    BY <1>3, <1>5 DEF Plan
  <2>2. p = [i \in DOMAIN p |-> p[i]] /\ r = [i \in DOMAIN r |-> r[i]]
    BY <1>3 DEF Plan
  <2>. QED
    BY <1>8, <2>1, <2>2
<1>. QED
  BY <1>3, <1>9

-----------------------------------------------------------------------------
(* Steps.  First what all that end the work at hand have in common.        *)
LEMMA JobsAreJobs == \A j \in Jobs : j # Turn!NoJob
<1>1. \A j \in Jobs : j.call # 0
  BY DEF Jobs, Turn!Call
<1>2. Turn!NoJob.call = 0
  BY DEF Turn!NoJob
<1>. QED
  BY <1>1, <1>2

LEMMA Settles ==
  ASSUME job' = Turn!NoJob, queue' = <<>>, budget' \in Spent, budget'.calls <= MaxCalls,
         pending' \in Nat, typed' = typed, access' = access, allowed \subseteq allowed', Asked,
         Untouched(budget'.calls),
         NEW all, Sorted(all, budget'.calls), budget'.clears = 0 => Whole(Plan(all, budget'.calls, 0)),
         NEW xs, Plain(xs), messages' = all \o xs
  PROVE  TurnInv'
<1>1. budget'.calls \in Nat
  BY DEF Spent
<1>2. PICK top \in Nat : top = budget'.calls
  BY <1>1
<1>3. PICK ms : ms = messages'
  OBVIOUS
<1>4. Waiting' = 0 /\ ~Turn!HasJob' /\ Ahead' = 0 /\ Behind' = top /\ (budget.calls - Waiting)' = top
  <2>1. Waiting' = 0 /\ ~Turn!HasJob'
    BY DEF Waiting, Turn!HasJob
  <2>. QED
    BY <1>2, <2>1 DEF Ahead, Behind
<1>5. Sorted(ms, top)
  BY <1>2, <1>3, PlainSorted
<1>6. budget'.clears = 0 => Whole(Plan(ms, top, 0))
  <2>1. all \in Seq(Msg)
    BY DEF Sorted
  <2>. QED
    BY <1>2, <1>3, <2>1, PlainPlan
<1>7. InHand'
  <2>1. queue' \in Seq(Turn!Call) /\ 0 <= budget'.calls
    BY <1>1
  <2>. QED
    BY <1>2, <1>4, <2>1 DEF InHand
<1>8. Allowed'
  BY <1>4 DEF Allowed, Asked
<1>9. Untouched(top)'
  BY <1>2 DEF Untouched
<1>10. Untouched(budget.calls - Waiting)'
  BY <1>4, <1>9 DEF Untouched
<1>11. Sorted(messages, Behind)'
  BY <1>3, <1>4, <1>5 DEF Sorted
<1>12. (budget.clears = 0 => Whole(Plan(messages, Behind, Ahead)))'
  BY <1>3, <1>4, <1>6 DEF Plan
<1>. QED
  BY <1>7, <1>8, <1>10, <1>11, <1>12 DEF TurnInv

LEMMA ResultsAnswer ==
  ASSUME NEW top \in Nat, NEW q \in Seq(Turn!Call), \A i \in 1 .. Len(q) : q[i] = top + i,
         NEW how \in Turn!Hows
  PROVE  Answers(Turn!Results(q, how), top) /\ Len(Turn!Results(q, how)) = Len(q)
<1>1. PICK xs : xs = Turn!Results(q, how)
  OBVIOUS
<1>2. DOMAIN q = 1 .. Len(q) /\ Len(q) \in Nat /\ \A i \in 1 .. Len(q) : q[i] \in Nat
  BY DEF Turn!Call
<1>3. xs = [i \in 1 .. Len(q) |-> Turn!Result(q[i], how)]
  BY <1>1, <1>2 DEF Turn!Results
<1>4. \A i \in 1 .. Len(q) : /\ Turn!Result(q[i], how) \in Msg /\ Turn!Result(q[i], how).kind = "tool"
                             /\ Turn!Result(q[i], how).calls = <<>> /\ Turn!Result(q[i], how).id = q[i]
  BY <1>2, Made
<1>5. xs \in Seq(Msg) /\ Len(xs) = Len(q)
  BY <1>2, <1>3, <1>4
<1>6. \A i \in 1 .. Len(xs) : xs[i].calls = <<>> /\ xs[i].kind = "tool" /\ xs[i].id = top + i
  BY <1>3, <1>4, <1>5
<1>. QED
  BY <1>1, <1>5, <1>6 DEF Answers

LEMMA OneAnswers ==
  ASSUME NEW top \in Nat, NEW c \in Nat, c = top + 1, NEW how \in Turn!Hows
  PROVE  Answers(<<Turn!Result(c, how)>>, top)
<1>1. PICK m \in Msg : m = Turn!Result(c, how) /\ m.kind = "tool" /\ m.calls = <<>> /\ m.id = c
  BY Made
<1>2. PICK xs : xs = <<m>>
  OBVIOUS
<1>3. xs \in Seq(Msg) /\ Len(xs) = 1 /\ xs[1] = m
  BY <1>2
<1>4. Answers(xs, top)
  BY <1>1, <1>3 DEF Answers
<1>. QED
  BY <1>1, <1>2, <1>4

LEMMA ItemsArePlain ==
  ASSUME pending \in Nat, NEW ms \in Seq(Msg)
  PROVE  \E xs : Plain(xs) /\ Turn!Delivered(ms) = ms \o xs
<1>1. PICK m \in Msg : m = Turn!Message("mcp") /\ m.kind = "mcp" /\ m.calls = <<>>
  BY Made DEF Kind
<1>2. PICK xs : xs = [i \in 1 .. pending |-> m]
  OBVIOUS
<1>3. xs \in Seq(Msg) /\ Len(xs) = pending /\ \A i \in 1 .. pending : xs[i] = m
  BY <1>2
<1>4. Plain(xs)
  BY <1>1, <1>3 DEF Plain
<1>. QED
  BY <1>1, <1>2, <1>4 DEF Turn!Delivered

LEMMA OneIsPlain ==
  ASSUME NEW kind \in Kind \ {"tool"} PROVE Plain(<<Turn!Message(kind)>>)
<1>1. PICK m \in Msg : m = Turn!Message(kind) /\ m.kind = kind /\ m.calls = <<>>
  BY Made
<1>2. PICK xs : xs = <<m>>
  OBVIOUS
<1>3. xs \in Seq(Msg) /\ Len(xs) = 1 /\ xs[1] = m
  BY <1>2
<1>4. Plain(xs)
  BY <1>1, <1>3 DEF Plain
<1>. QED
  BY <1>1, <1>2, <1>4

LEMMA NothingIsPlain == /\ Plain(<<>>) /\ \A ms \in Seq(Msg) : ms \o <<>> = ms
BY DEF Plain

(* Work on the calls in q, with ms before them; top is the last call that  *)
(* has been dealt with.                                                    *)
Queued(q, top) ==
  /\ q \in Seq(Turn!Call)
  /\ \A i \in 1 .. Len(q) : q[i] = top + i

LEMMA AnswersSettle ==
  ASSUME NEW ms, NEW xs, NEW all, NEW top, NEW later, NEW more, NEW size,
         Given(ms, xs, all, top, later, more, size)
  PROVE  Sorted(all, later) /\ (Whole(Plan(ms, top, size)) => Whole(Plan(all, later, more)))
<1>1. /\ top \in Nat /\ more \in Nat /\ Sorted(ms, top) /\ Answers(xs, top)
      /\ all = ms \o xs /\ later = top + Len(xs) /\ size = Len(xs) + more
  BY DEF Given
<1>2. Sorted(all, later)
  BY <1>1, AnswersSorted
<1>3. Whole(Plan(ms, top, size)) => Whole(Plan(all, later, more))
  BY AnswersPlan
<1>. QED
  BY <1>2, <1>3

Typing(top) == \A c \in Turn!Call : typed'[c] # typed[c] => job'.call = c /\ c > top

LEMMA BeginKeeps ==
  ASSUME NEW top \in Nat, NEW ms, NEW q, Queued(q, top), Sorted(ms, top),
         budget' \in Spent, budget'.calls <= MaxCalls, budget'.calls = top + Len(q),
         budget'.clears = 0 => Whole(Plan(ms, top, Len(q))),
         Asked, Untouched(top), pending' \in Nat, allowed' = allowed, req' = "none",
         NEW n \in 0 .. Len(q) - 1, NEW kind \in {"shell", "file", "outside"},
         messages' = ms \o Turn!Results(SubSeq(q, 1, n), "ran"),
         Turn!Begin(q[n + 1], kind), queue' = SubSeq(q, n + 2, Len(q)),
         access' = IF kind \in {"shell", "outside"} THEN access \cup {q[n + 1]} ELSE access
  PROVE  TurnInv' /\ Typing(top)
<1>1. q \in Seq(Turn!Call) /\ Len(q) \in Nat /\ n \in Nat /\ n < Len(q) /\ \A i \in 1 .. Len(q) : q[i] = top + i
  BY DEF Queued
<1>2. PICK c \in Turn!Call : c = q[n + 1] /\ c = top + n + 1
  BY <1>1
<1>3. c \in Nat /\ budget'.calls \in Nat /\ c > top
  BY <1>1, <1>2 DEF Spent
<1>4. PICK done : done = SubSeq(q, 1, n)
  OBVIOUS
<1>5. Queued(done, top) /\ Len(done) = n
  <2>1. done \in Seq(Turn!Call) /\ Len(done) = n /\ \A i \in 1 .. n : done[i] = q[i] /\ i \in 1 .. Len(q)
    BY <1>1, <1>4
  <2>. QED
    BY <1>1, <2>1 DEF Queued
<1>6. PICK rest : rest = SubSeq(q, n + 2, Len(q))
  OBVIOUS
<1>7. /\ rest \in Seq(Turn!Call) /\ Len(rest) = Len(q) - (n + 1)
      /\ \A i \in 1 .. Len(rest) : rest[i] = c + i
  <2>1. rest \in Seq(Turn!Call) /\ Len(rest) = Len(q) - (n + 1)
    BY <1>1, <1>6
  <2>2. ASSUME NEW i \in 1 .. Len(rest) PROVE rest[i] = c + i
    <3>1. rest[i] = q[(n + 2) + i - 1] /\ (n + 2) + i - 1 \in 1 .. Len(q)
      BY <1>1, <1>6, <2>1
    <3>. QED
      BY <1>1, <1>2, <3>1
  <2>. QED
    BY <2>1, <2>2
<1>8. /\ job' \in Jobs /\ job'.call = c /\ job'.kind = kind
      /\ job'.st = "run" \/ job'.st = "over" => kind = "file"
      /\ typed' = typed \/ (typed' = [typed EXCEPT ![c] = @ + 1] /\ kind = "file")
  <2>1. \A k \in {"shell", "file", "outside"}, st \in {"ask", "run", "over"} :
          [call |-> c, kind |-> k, st |-> st] \in Jobs
    BY DEF Jobs
  <2>2. CASE kind = "file" /\ coding
    BY <1>2, <2>1, <2>2 DEF Turn!Begin, Turn!Approved
  <2>3. CASE ~(kind = "file" /\ coding)
    <3>1. PICK j : j = [call |-> c, kind |-> kind, st |-> "ask"]
      OBVIOUS
    <3>2. job' = j /\ typed' = typed
      BY <1>2, <2>3, <3>1 DEF Turn!Begin
    <3>3. j \in Jobs /\ j.call = c /\ j.kind = kind /\ j.st = "ask"
      BY <2>1, <3>1
    <3>. QED
      BY <3>2, <3>3
  <2>. QED
    BY <2>2, <2>3
<1>9. /\ Turn!HasJob' /\ Waiting' = Len(q) - (n + 1) /\ Ahead' = Len(q) - n /\ Behind' = top + n
      /\ (budget.calls - Waiting)' = c
  <2>1. Turn!HasJob' /\ Waiting' = Len(q) - (n + 1)
    BY <1>6, <1>7, <1>8, JobsAreJobs DEF Turn!HasJob, Waiting
  <2>. QED
    BY <1>1, <1>2, <2>1 DEF Ahead, Behind
<1>10. InHand'
  <2>1. Waiting' <= budget'.calls
    BY <1>1, <1>9
  <2>2. \A i \in 1 .. Waiting' : queue'[i] = c + i
    BY <1>6, <1>7, <1>9
  <2>. QED
    BY <1>6, <1>7, <1>8, <1>9, <2>1, <2>2 DEF InHand
<1>11. typed' \in [Turn!Call -> Nat] /\ \A x \in Turn!Call : x # c => typed'[x] = typed[x]
  <2>1. typed \in [Turn!Call -> Nat]
    BY DEF Asked
  <2>2. CASE typed' = typed
    BY <2>1, <2>2
  <2>3. CASE typed' = [typed EXCEPT ![c] = @ + 1]
    BY <2>1, <2>3
  <2>. QED
    BY <1>8, <2>2, <2>3
<1>12. typed[c] = 0 /\ c \notin access
  BY <1>3 DEF Untouched
<1>13. Allowed'
  <2>1. access' \subseteq Turn!Call /\ (kind = "file" => c \notin access')
    BY <1>2, <1>12 DEF Asked
  <2>2. ASSUME NEW x \in access', typed'[x] > 0 PROVE x \in allowed'
    <3>1. CASE x = c
      <4>1. kind # "file" /\ typed' = typed
        BY <1>8, <2>1, <2>2, <3>1
      <4>. QED
        BY <1>12, <2>2, <3>1, <4>1
    <3>2. CASE x # c
      BY <1>2, <1>11, <2>1, <2>2, <3>2 DEF Asked
    <3>. QED
      BY <3>1, <3>2
  <2>. QED
    BY <1>8, <1>11, <2>1, <2>2 DEF Allowed, Asked
<1>14. Untouched(budget.calls - Waiting)'
  <2>1. \A x \in Turn!Call : x > c => x > top /\ x # c
    BY <1>3 DEF Turn!Call
  <2>2. \A x \in Turn!Call : x > c => typed'[x] = 0 /\ x \notin access'
    BY <1>2, <1>11, <2>1 DEF Untouched
  <2>. QED
    BY <1>9, <2>2 DEF Untouched
<1>15. PICK later, more, size : later = top + n /\ more = Len(q) - n /\ size = Len(q)
  OBVIOUS
<1>16. PICK out : out = messages'
  OBVIOUS
<1>17. Sorted(out, later) /\ (budget'.clears = 0 => Whole(Plan(out, later, more)))
  <2>1. PICK xs : xs = Turn!Results(done, "ran")
    OBVIOUS
  <2>2. Answers(xs, top) /\ Len(xs) = Len(done)
    BY <1>5, <2>1, ResultsAnswer DEF Queued, Turn!Hows
  <2>3. out = ms \o xs
    BY <1>4, <1>16, <2>1
  <2>4. later = top + Len(xs) /\ size = Len(xs) + more /\ more \in Nat
    BY <1>1, <1>5, <1>15, <2>2
  <2>5. Given(ms, xs, out, top, later, more, size)
    BY <2>2, <2>3, <2>4 DEF Given
  <2>6. Sorted(out, later) /\ (Whole(Plan(ms, top, size)) => Whole(Plan(out, later, more)))
    BY <2>5, AnswersSettle
  <2>. QED
    BY <1>15, <2>6
<1>18. Sorted(messages, Behind)' /\ (budget.clears = 0 => Whole(Plan(messages, Behind, Ahead)))'
  BY <1>9, <1>15, <1>16, <1>17 DEF Sorted, Plan
<1>19. Typing(top)
  BY <1>3, <1>8, <1>11 DEF Typing
<1>. QED
  BY <1>10, <1>13, <1>14, <1>18, <1>19 DEF TurnInv

LEMMA ContinueKeeps ==
  ASSUME NEW top \in Nat, NEW ms, NEW q, Queued(q, top), Sorted(ms, top), pending \in Nat,
         budget' \in Spent, budget'.calls <= MaxCalls, budget'.calls = top + Len(q),
         budget'.clears = 0 => Whole(Plan(ms, top, Len(q))),
         Asked, Untouched(top), allowed' = allowed, typed' = typed, access' = access,
         Turn!Continue(ms \o Turn!Results(q, "ran"))
  PROVE  TurnInv'
<1>1. PICK xs : xs = Turn!Results(q, "ran")
  OBVIOUS
<1>2. PICK all, later, none, size : all = ms \o xs /\ later = budget'.calls /\ none = 0 /\ size = Len(q)
  OBVIOUS
<1>3. Sorted(all, later) /\ (budget'.clears = 0 => Whole(Plan(all, later, none)))
  <2>1. Answers(xs, top) /\ Len(xs) = Len(q)
    BY <1>1, ResultsAnswer DEF Queued, Turn!Hows
  <2>2. later = top + Len(xs) /\ size = Len(xs) + none /\ none \in Nat
    BY <1>2, <2>1 DEF Queued
  <2>3. Given(ms, xs, all, top, later, none, size)
    BY <1>2, <2>1, <2>2 DEF Given
  <2>4. Sorted(all, later) /\ (Whole(Plan(ms, top, size)) => Whole(Plan(all, later, none)))
    BY <2>3, AnswersSettle
  <2>. QED
    BY <1>2, <2>4
<1>4. all \in Seq(Msg)
  BY <1>3 DEF Sorted
<1>5. /\ job' = Turn!NoJob /\ queue' = <<>>
      /\ \/ messages' = all /\ pending' = pending
         \/ messages' = Turn!Delivered(all) /\ pending' = 0
  BY <1>1, <1>2 DEF Turn!Continue, Turn!Request
<1>6. PICK items : Plain(items) /\ messages' = all \o items
  BY <1>4, <1>5, ItemsArePlain, NothingIsPlain
<1>7. pending' \in Nat
  BY <1>5
<1>8. Untouched(budget'.calls)
  <2>1. \A c \in Turn!Call : c > budget'.calls => c > top
    BY DEF Turn!Call, Spent, Queued
  <2>. QED
    BY <2>1 DEF Untouched
<1>. QED
  BY <1>2, <1>3, <1>5, <1>6, <1>7, <1>8, Settles

LEMMA NextToolKeeps ==
  ASSUME NEW top \in Nat, NEW ms, NEW q, Queued(q, top), Sorted(ms, top), pending \in Nat,
         budget' \in Spent, budget'.calls <= MaxCalls, budget'.calls = top + Len(q),
         budget'.clears = 0 => Whole(Plan(ms, top, Len(q))),
         Asked, Untouched(top), allowed' = allowed, Turn!NextTool(ms, q)
  PROVE  TurnInv' /\ Typing(top)
<1>1. CASE Turn!Continue(ms \o Turn!Results(q, "ran")) /\ UNCHANGED <<typed, access>>
  BY <1>1, ContinueKeeps DEF Typing
<1>2. ASSUME NEW n \in 0 .. Len(q) - 1, NEW kind \in {"shell", "file", "outside"},
             /\ messages' = ms \o Turn!Results(SubSeq(q, 1, n), "ran")
             /\ Turn!Begin(q[n + 1], kind)
             /\ queue' = SubSeq(q, n + 2, Len(q))
             /\ access' = IF kind \in {"shell", "outside"} THEN access \cup {q[n + 1]} ELSE access
             /\ req' = "none"
             /\ UNCHANGED <<pending, rounds>>
      PROVE  TurnInv' /\ Typing(top)
  BY <1>2, BeginKeeps
<1>. QED
  BY <1>1, <1>2 DEF Turn!NextTool

-----------------------------------------------------------------------------
(* The turn's actions. *)
Bounds == MaxCalls \in Nat /\ CallsPerTurn \in Nat

Counts == {"asked", "items", "clears", "toggles"}

LEMMA Spending ==
  ASSUME InHand, NEW what, Turn!Spend(what, 1), what \in Counts
  PROVE  /\ budget' \in Spent /\ budget'.calls = budget.calls /\ budget'.calls <= MaxCalls
         /\ budget'.clears = 0 => budget.clears = 0 /\ what # "clears"
<1>1. budget \in Spent /\ budget.calls <= MaxCalls
  BY DEF InHand
<1>2. CASE what = "asked"
  <2>1. budget' = [budget EXCEPT !.asked = @ + 1]
    BY <1>2 DEF Turn!Spend
  <2>. QED
    BY <1>1, <1>2, <2>1 DEF Spent
<1>3. CASE what = "items"
  <2>1. budget' = [budget EXCEPT !.items = @ + 1]
    BY <1>3 DEF Turn!Spend
  <2>. QED
    BY <1>1, <1>3, <2>1 DEF Spent
<1>4. CASE what = "toggles"
  <2>1. budget' = [budget EXCEPT !.toggles = @ + 1]
    BY <1>4 DEF Turn!Spend
  <2>. QED
    BY <1>1, <1>4, <2>1 DEF Spent
<1>5. CASE what = "clears"
  <2>1. budget' = [budget EXCEPT !.clears = @ + 1]
    BY <1>5 DEF Turn!Spend
  <2>. QED
    BY <1>1, <1>5, <2>1 DEF Spent
<1>. QED
  BY <1>2, <1>3, <1>4, <1>5 DEF Counts

LEMMA Idle ==
  ASSUME TurnInv, ~Turn!HasJob, queue = <<>>
  PROVE  /\ job = Turn!NoJob /\ Asked /\ pending \in Nat /\ budget \in Spent /\ budget.calls <= MaxCalls
         /\ Waiting = 0 /\ Behind = budget.calls /\ Ahead = 0 /\ Untouched(budget.calls)
         /\ messages \in Seq(Msg) /\ Sorted(messages, budget.calls)
         /\ budget.clears = 0 => Whole(Plan(messages, budget.calls, 0))
<1>1. /\ InHand /\ Allowed /\ pending \in Nat /\ Untouched(budget.calls - Waiting) /\ Sorted(messages, Behind)
      /\ budget.clears = 0 => Whole(Plan(messages, Behind, Ahead))
  BY DEF TurnInv
<1>2. Waiting = 0
  BY DEF Waiting
<1>3. budget.calls \in Nat /\ budget \in Spent /\ budget.calls <= MaxCalls
  BY <1>1 DEF InHand, Spent
<1>4. Ahead = 0 /\ Behind = budget.calls /\ budget.calls - Waiting = budget.calls
  BY <1>2, <1>3 DEF Ahead, Behind
<1>5. Asked /\ job = Turn!NoJob
  BY <1>1 DEF Allowed, Turn!HasJob
<1>6. messages \in Seq(Msg)
  BY <1>1 DEF Sorted
<1>. QED
  BY <1>1, <1>2, <1>3, <1>4, <1>5, <1>6

LEMMA HasItsJob ==
  ASSUME job.st \in {"ask", "run", "over", "declined"} PROVE Turn!HasJob
BY DEF Turn!HasJob, Turn!NoJob

(* What leaves the conversation and the calls at work as they are.         *)
LEMMA Still ==
  ASSUME TurnInv, UNCHANGED <<messages, queue, req, typed, access>>,
         job' = job \/ (Turn!HasJob /\ job' \in Jobs /\ job'.call = job.call /\ job'.kind = job.kind
                        /\ (job'.st = "run" /\ job'.call \in access => job'.call \in allowed')),
         pending' \in Nat, allowed \subseteq allowed', budget' \in Spent, budget'.calls = budget.calls,
         budget'.clears = 0 => budget.clears = 0
  PROVE  TurnInv'
<1>1. /\ InHand /\ Allowed /\ Untouched(budget.calls - Waiting) /\ Sorted(messages, Behind)
      /\ budget.clears = 0 => Whole(Plan(messages, Behind, Ahead))
  BY DEF TurnInv
<1>2. Turn!HasJob' <=> Turn!HasJob
  BY JobsAreJobs DEF Turn!HasJob
<1>3. Waiting' = Waiting /\ Ahead' = Ahead /\ Behind' = Behind /\ (budget.calls - Waiting)' = budget.calls - Waiting
  BY <1>2 DEF Waiting, Ahead, Behind
<1>4. req # "none" => job' = job
  BY <1>1 DEF InHand, Turn!HasJob
<1>5. InHand'
  BY <1>1, <1>2, <1>3, <1>4 DEF InHand
<1>6. Allowed'
  BY <1>1, <1>2 DEF Allowed, Asked
<1>7. Untouched(budget.calls - Waiting)'
  BY <1>1, <1>3 DEF Untouched
<1>8. Sorted(messages, Behind)' /\ (budget.clears = 0 => Whole(Plan(messages, Behind, Ahead)))'
  BY <1>1, <1>3 DEF Sorted, Plan
<1>. QED
  BY <1>5, <1>6, <1>7, <1>8 DEF TurnInv

(* A command of the job at work is typed.                                  *)
LEMMA JobTypes ==
  ASSUME TurnInv, Turn!HasJob, UNCHANGED <<messages, queue, req, access>>, pending' = pending,
         job' \in Jobs, job'.call = job.call, job'.kind = job.kind,
         typed' = [typed EXCEPT ![job.call] = @ + 1],
         allowed \subseteq allowed', job.call \in access => job.call \in allowed',
         budget' \in Spent, budget'.calls = budget.calls, budget'.clears = 0 => budget.clears = 0
  PROVE  TurnInv' /\ Typing(Behind)
<1>1. /\ InHand /\ Allowed /\ Untouched(budget.calls - Waiting) /\ Sorted(messages, Behind)
      /\ budget.clears = 0 => Whole(Plan(messages, Behind, Ahead)) /\ pending \in Nat
  BY DEF TurnInv
<1>2. Turn!HasJob'
  BY JobsAreJobs DEF Turn!HasJob
<1>3. Waiting' = Waiting /\ Ahead' = Ahead /\ Behind' = Behind /\ (budget.calls - Waiting)' = budget.calls - Waiting
  BY <1>2 DEF Waiting, Ahead, Behind
<1>4. req = "none"
  BY <1>1 DEF InHand, Turn!HasJob
<1>5. InHand'
  BY <1>1, <1>2, <1>3, <1>4 DEF InHand
<1>6. PICK c \in Turn!Call : c = job.call
  BY <1>1 DEF InHand, Jobs
<1>7. /\ typed \in [Turn!Call -> Nat] /\ typed' \in [Turn!Call -> Nat]
      /\ \A x \in Turn!Call : x # c => typed'[x] = typed[x]
  BY <1>1, <1>6 DEF Allowed, Asked
<1>8. Allowed'
  <2>1. access' \subseteq Turn!Call
    BY <1>1 DEF Allowed, Asked
  <2>2. ASSUME NEW x \in access', typed'[x] > 0 PROVE x \in allowed'
    <3>1. CASE x = c
      BY <1>6, <2>2, <3>1
    <3>2. CASE x # c
      BY <1>1, <1>7, <2>1, <2>2, <3>2 DEF Allowed, Asked
    <3>. QED
      BY <3>1, <3>2
  <2>. QED
    BY <1>1, <1>2, <1>7, <2>1, <2>2 DEF Allowed, Asked
<1>9. c = budget.calls - Waiting /\ c \in Nat /\ c > Behind
  <2>1. Behind = job.call - 1 /\ job.call = budget.calls - Waiting
    BY <1>1, AheadNat DEF InHand
  <2>2. c \in Nat
    BY DEF Turn!Call
  <2>. QED
    BY <1>6, <2>1, <2>2
<1>10. Untouched(budget.calls - Waiting)'
  <2>1. \A x \in Turn!Call : x > c => x # c
    BY <1>9 DEF Turn!Call
  <2>2. \A x \in Turn!Call : x > c => typed'[x] = 0 /\ x \notin access'
    BY <1>1, <1>7, <1>9, <2>1 DEF Untouched
  <2>. QED
    BY <1>3, <1>9, <2>2 DEF Untouched
<1>11. Sorted(messages, Behind)' /\ (budget.clears = 0 => Whole(Plan(messages, Behind, Ahead)))'
  BY <1>1, <1>3 DEF Sorted, Plan
<1>12. Typing(Behind)
  BY <1>6, <1>7, <1>9 DEF Typing
<1>. QED
  BY <1>1, <1>5, <1>8, <1>10, <1>11, <1>12 DEF TurnInv

LEMMA ApproveKeeps ==
  ASSUME TurnInv, Turn!HasJob, Turn!Approved(job.call, job.kind),
         UNCHANGED <<messages, queue, req, access, pending>>,
         allowed \subseteq allowed', job.call \in access => job.call \in allowed',
         budget' \in Spent, budget'.calls = budget.calls, budget'.clears = 0 => budget.clears = 0
  PROVE  TurnInv' /\ (typed' = typed \/ Typing(Behind))
<1>1. job \in Jobs /\ pending \in Nat
  BY DEF TurnInv, InHand
<1>2. \A s \in {"run", "over"} :
        LET j == [call |-> job.call, kind |-> job.kind, st |-> s]
        IN j \in Jobs /\ j.call = job.call /\ j.kind = job.kind
  BY <1>1 DEF Jobs
<1>3. job' \in Jobs /\ job'.call = job.call /\ job'.kind = job.kind
  BY <1>2 DEF Turn!Approved
<1>4. CASE typed' = [typed EXCEPT ![job.call] = @ + 1]
  BY <1>1, <1>3, <1>4, JobTypes
<1>5. CASE typed' = typed
  BY <1>1, <1>3, <1>5, Still
<1>. QED
  BY <1>4, <1>5 DEF Turn!Approved

LEMMA SendKeeps == ASSUME TurnInv, Turn!Send PROVE TurnInv'
<1>1. ~Turn!HasJob /\ queue = <<>> /\ InHand
  BY DEF Turn!Send, Turn!Busy, TurnInv
<1>2. /\ job = Turn!NoJob /\ Asked /\ pending \in Nat /\ Untouched(budget.calls)
      /\ messages \in Seq(Msg) /\ Sorted(messages, budget.calls)
      /\ budget.clears = 0 => Whole(Plan(messages, budget.calls, 0))
  BY <1>1, Idle
<1>3. /\ budget' \in Spent /\ budget'.calls = budget.calls /\ budget'.calls <= MaxCalls
      /\ budget'.clears = 0 => budget.clears = 0
  BY <1>1, Spending DEF Turn!Send, Counts
<1>4. UNCHANGED <<job, queue, pending, typed, access, allowed>>
  BY DEF Turn!Send
<1>5. PICK m \in Msg : m = Turn!Message("user")
  BY Made DEF Kind
<1>6. PICK xs : Plain(xs) /\ messages' = messages \o xs
  <2>1. CASE messages' = messages
    BY <1>2, <2>1, NothingIsPlain
  <2>2. CASE messages' = Append(messages, m)
    <3>1. Append(messages, m) = messages \o <<m>>
      BY <1>2
    <3>2. Plain(<<m>>)
      BY <1>5, OneIsPlain DEF Kind
    <3>. QED
      BY <2>2, <3>1, <3>2
  <2>. QED
    BY <1>5, <2>1, <2>2 DEF Turn!Send
<1>. QED
  BY <1>1, <1>2, <1>3, <1>4, <1>6, Settles

LEMMA EndAnswerKeeps == ASSUME TurnInv, Turn!EndAnswer PROVE TurnInv'
<1>1. ~Turn!HasJob /\ queue = <<>>
  BY DEF Turn!EndAnswer, TurnInv, InHand, Turn!HasJob
<1>2. /\ job = Turn!NoJob /\ Asked /\ pending \in Nat /\ Untouched(budget.calls)
      /\ budget \in Spent /\ budget.calls <= MaxCalls /\ budget.calls \in Nat
      /\ messages \in Seq(Msg) /\ Sorted(messages, budget.calls)
      /\ budget.clears = 0 => Whole(Plan(messages, budget.calls, 0))
  BY <1>1, Idle DEF Spent
<1>3. UNCHANGED <<job, queue, typed, access, allowed, budget>> /\ pending' = 0
  BY DEF Turn!EndAnswer
<1>4. PICK text : text \in {<<>>, <<Turn!Message("text")>>} /\ messages' = Turn!Delivered(messages \o text)
  BY DEF Turn!EndAnswer
<1>5. Plain(text)
  BY <1>4, OneIsPlain, NothingIsPlain DEF Kind
<1>6. PICK all : all = messages \o text
  OBVIOUS
<1>7. Sorted(all, budget.calls)
  BY <1>2, <1>5, <1>6, PlainSorted
<1>8. budget.clears = 0 => Whole(Plan(all, budget.calls, 0))
  BY <1>2, <1>5, <1>6, PlainPlan
<1>9. all \in Seq(Msg)
  BY <1>7 DEF Sorted
<1>10. PICK xs : Plain(xs) /\ messages' = all \o xs
  BY <1>2, <1>4, <1>6, <1>9, ItemsArePlain
<1>. QED
  BY <1>1, <1>2, <1>3, <1>7, <1>8, <1>10, Settles

LEMMA DeliverKeeps == ASSUME TurnInv, Turn!Deliver PROVE TurnInv'
<1>1. ~Turn!HasJob /\ queue = <<>>
  BY DEF Turn!Deliver, Turn!Busy
<1>2. /\ job = Turn!NoJob /\ Asked /\ pending \in Nat /\ Untouched(budget.calls)
      /\ budget \in Spent /\ budget.calls <= MaxCalls
      /\ messages \in Seq(Msg) /\ Sorted(messages, budget.calls)
      /\ budget.clears = 0 => Whole(Plan(messages, budget.calls, 0))
  BY <1>1, Idle
<1>3. UNCHANGED <<job, queue, typed, access, allowed, budget>> /\ pending' = 0
  BY DEF Turn!Deliver
<1>4. PICK xs : Plain(xs) /\ messages' = messages \o xs
  BY <1>2, ItemsArePlain DEF Turn!Deliver
<1>. QED
  BY <1>1, <1>2, <1>3, <1>4, Settles

LEMMA McpItemKeeps == ASSUME TurnInv, Turn!McpItem PROVE TurnInv'
<1>1. InHand /\ pending \in Nat
  BY DEF TurnInv
<1>2. /\ budget' \in Spent /\ budget'.calls = budget.calls /\ budget'.calls <= MaxCalls
      /\ budget'.clears = 0 => budget.clears = 0
  BY <1>1, Spending DEF Turn!McpItem, Counts
<1>3. UNCHANGED <<req, job, queue, typed, access, allowed>>
  BY DEF Turn!McpItem
<1>4. CASE Turn!Busy
  <2>1. messages' = messages /\ pending' \in Nat
    BY <1>1, <1>4 DEF Turn!McpItem, Turn!Waits
  <2>. QED
    BY <1>2, <1>3, <2>1, Still
<1>5. CASE ~Turn!Busy
  <2>1. ~Turn!HasJob /\ queue = <<>>
    BY <1>5 DEF Turn!Busy
  <2>2. /\ job = Turn!NoJob /\ Asked /\ Untouched(budget.calls)
        /\ messages \in Seq(Msg) /\ Sorted(messages, budget.calls)
        /\ budget.clears = 0 => Whole(Plan(messages, budget.calls, 0))
    BY <2>1, Idle
  <2>3. PICK m \in Msg : m = Turn!Message("mcp")
    BY Made DEF Kind
  <2>4. messages' = messages \o <<m>> /\ pending' = pending
    <3>1. Append(messages, m) = messages \o <<m>>
      BY <2>2
    <3>. QED
      BY <1>5, <2>3, <3>1 DEF Turn!McpItem, Turn!Waits
  <2>5. Plain(<<m>>)
    BY <2>3, OneIsPlain DEF Kind
  <2>. QED
    BY <1>1, <1>2, <1>3, <2>1, <2>2, <2>4, <2>5, Settles
<1>. QED
  BY <1>4, <1>5

LEMMA ClearAllKeeps == ASSUME TurnInv, Turn!ClearAll PROVE TurnInv'
<1>1. InHand /\ pending \in Nat /\ Asked /\ Untouched(budget.calls - Waiting)
  BY DEF TurnInv, Allowed
<1>2. /\ budget' \in Spent /\ budget'.calls = budget.calls /\ budget'.calls <= MaxCalls /\ budget'.clears # 0
  BY <1>1, Spending DEF Turn!ClearAll, Counts
<1>3. /\ job' = Turn!NoJob /\ queue' = <<>> /\ UNCHANGED <<pending, typed, access, allowed>>
      /\ messages' = <<>>
  BY DEF Turn!ClearAll
<1>4. PICK all : all = <<>>
  OBVIOUS
<1>5. all \in Seq(Msg) /\ DOMAIN all = {}
  BY <1>4
<1>6. Sorted(all, budget'.calls)
  BY <1>5 DEF Sorted
<1>7. Plain(<<>>) /\ messages' = all \o <<>>
  BY <1>3, <1>4, <1>5, NothingIsPlain
<1>8. Untouched(budget'.calls)
  <2>1. \A c \in Turn!Call : c > budget'.calls => c > budget.calls - Waiting
    BY <1>1, <1>2, AheadNat DEF Turn!Call
  <2>. QED
    BY <1>1, <2>1 DEF Untouched
<1>. QED
  BY <1>1, <1>2, <1>3, <1>6, <1>7, <1>8, Settles

LEMMA ClearMessageKeeps == ASSUME TurnInv, Turn!ClearMessage PROVE TurnInv'
<1>1. /\ InHand /\ Allowed /\ pending \in Nat /\ Untouched(budget.calls - Waiting)
      /\ Sorted(messages, Behind)
  BY DEF TurnInv
<1>2. /\ budget' \in Spent /\ budget'.calls = budget.calls /\ budget'.calls <= MaxCalls /\ budget'.clears # 0
  BY <1>1, Spending DEF Turn!ClearMessage, Counts
<1>3. UNCHANGED <<req, job, queue, pending, typed, access, allowed>>
  BY DEF Turn!ClearMessage
<1>4. PICK i \in DOMAIN messages : messages' = Turn!RemoveAt(messages, i)
  BY DEF Turn!ClearMessage
<1>5. PICK ms : ms = messages'
  OBVIOUS
<1>6. /\ messages \in Seq(Msg) /\ DOMAIN messages = 1 .. Len(messages) /\ Len(messages) \in Nat
  BY <1>1 DEF Sorted
<1>7. /\ ms \in Seq(Msg) /\ DOMAIN ms = 1 .. Len(messages) - 1
      /\ \A k \in 1 .. Len(messages) - 1 : ms[k] = messages[IF k < i THEN k ELSE k + 1]
  <2>1. PICK a, b : a = SubSeq(messages, 1, i - 1) /\ b = SubSeq(messages, i + 1, Len(messages))
    OBVIOUS
  <2>2. /\ a \in Seq(Msg) /\ Len(a) = i - 1 /\ \A k \in 1 .. i - 1 : a[k] = messages[k]
    BY <1>4, <1>6, <2>1
  <2>3. /\ b \in Seq(Msg) /\ Len(b) = Len(messages) - i
        /\ \A k \in 1 .. Len(messages) - i : b[k] = messages[(i + 1) + k - 1]
    BY <1>4, <1>6, <2>1
  <2>4. ms = a \o b
    BY <1>4, <1>5, <2>1 DEF Turn!RemoveAt
  <2>5. /\ ms \in Seq(Msg) /\ Len(ms) = Len(a) + Len(b) /\ DOMAIN ms = 1 .. Len(ms)
        /\ \A k \in 1 .. Len(a) : ms[k] = a[k]
        /\ \A k \in 1 .. Len(ms) : k > Len(a) => k - Len(a) \in 1 .. Len(b) /\ ms[k] = b[k - Len(a)]
    BY <2>2, <2>3, <2>4, Joined
  <2>6. ASSUME NEW k \in 1 .. Len(messages) - 1 PROVE ms[k] = messages[IF k < i THEN k ELSE k + 1]
    <3>1. CASE k < i
      BY <1>4, <1>6, <2>2, <2>5, <3>1
    <3>2. CASE ~(k < i)
      <4>1. PICK n : n = k - (i - 1)
        OBVIOUS
      <4>2. n \in 1 .. Len(messages) - i /\ ms[k] = b[n] /\ (i + 1) + n - 1 = k + 1
        BY <1>4, <1>6, <2>2, <2>3, <2>5, <3>2, <4>1
      <4>. QED
        BY <2>3, <3>2, <4>2
    <3>. QED
      BY <3>1, <3>2
  <2>. QED
    BY <1>4, <1>6, <2>2, <2>3, <2>5, <2>6
<1>8. Sorted(ms, Behind)
  <2>1. PICK f : f = [k \in 1 .. Len(messages) - 1 |-> IF k < i THEN k ELSE k + 1]
    OBVIOUS
  <2>2. \A k \in DOMAIN ms : f[k] \in DOMAIN messages /\ ms[k] = messages[f[k]]
    BY <1>4, <1>6, <1>7, <2>1
  <2>3. \A k, l \in DOMAIN ms : k < l => f[k] < f[l]
    BY <1>4, <1>6, <1>7, <2>1
  <2>4. /\ \A k \in DOMAIN ms : ms[k].calls # <<>> => ms[k].kind = "calls"
        /\ \A k \in DOMAIN ms : ms[k].kind = "tool" => ms[k].id <= Behind
    BY <1>1, <2>2 DEF Sorted
  <2>5. \A k, l \in DOMAIN ms : k < l /\ ms[k].kind = "tool" /\ ms[l].kind = "tool" => ms[k].id < ms[l].id
    BY <1>1, <2>2, <2>3 DEF Sorted
  <2>. QED
    BY <1>7, <2>4, <2>5 DEF Sorted
<1>9. Waiting' = Waiting /\ Ahead' = Ahead /\ Behind' = Behind /\ (budget.calls - Waiting)' = budget.calls - Waiting
  BY <1>2, <1>3 DEF Waiting, Ahead, Behind, Turn!HasJob
<1>10. InHand' /\ Allowed' /\ Untouched(budget.calls - Waiting)'
  BY <1>1, <1>2, <1>3, <1>9 DEF InHand, Allowed, Asked, Untouched, Turn!HasJob
<1>11. Sorted(messages, Behind)'
  BY <1>5, <1>8, <1>9 DEF Sorted
<1>. QED
  BY <1>1, <1>2, <1>3, <1>10, <1>11 DEF TurnInv

LEMMA ApprovedKeeps ==
  ASSUME TurnInv, Turn!Approve PROVE TurnInv' /\ (typed' = typed \/ Typing(Behind))
<1>1. Turn!HasJob
  BY HasItsJob DEF Turn!Approve
<1>2. budget \in Spent
  BY DEF TurnInv, InHand
<1>3. /\ UNCHANGED <<messages, queue, req, access, pending, budget>> /\ allowed' = allowed \cup {job.call}
      /\ Turn!Approved(job.call, job.kind)
  BY DEF Turn!Approve
<1>. QED
  BY <1>1, <1>2, <1>3, ApproveKeeps

LEMMA DenyKeeps == ASSUME TurnInv, Turn!Deny PROVE TurnInv' /\ typed' = typed
<1>1. Turn!HasJob
  BY HasItsJob DEF Turn!Deny
<1>2. budget \in Spent /\ job \in Jobs /\ pending \in Nat
  BY <1>1 DEF TurnInv, InHand
<1>3. job' = [job EXCEPT !.st = "declined"] /\ UNCHANGED <<messages, req, queue, pending, typed, access, allowed, budget>>
  BY DEF Turn!Deny
<1>4. job' \in Jobs /\ job'.call = job.call /\ job'.kind = job.kind /\ job'.st = "declined"
  BY <1>2, <1>3 DEF Jobs
<1>. QED
  BY <1>1, <1>2, <1>3, <1>4, Still

LEMMA ToggleKeeps ==
  ASSUME TurnInv, Turn!ToggleCoding PROVE TurnInv' /\ (typed' = typed \/ Typing(Behind))
<1>1. InHand /\ Allowed /\ pending \in Nat
  BY DEF TurnInv
<1>2. /\ budget' \in Spent /\ budget'.calls = budget.calls
      /\ budget'.clears = 0 => budget.clears = 0
  BY <1>1, Spending DEF Turn!ToggleCoding, Counts
<1>3. UNCHANGED <<messages, req, queue, pending, access, allowed>>
  BY DEF Turn!ToggleCoding
<1>4. CASE Turn!Lets /\ Turn!Approved(job.call, job.kind)
  <2>1. Turn!HasJob
    BY <1>4, HasItsJob DEF Turn!Lets
  <2>2. job.call \notin access
    BY <1>1, <1>4, <2>1 DEF Allowed, Turn!Lets
  <2>. QED
    BY <1>2, <1>3, <1>4, <2>1, <2>2, ApproveKeeps
<1>5. CASE UNCHANGED <<job, typed>>
  BY <1>1, <1>2, <1>3, <1>5, Still
<1>. QED
  BY <1>4, <1>5 DEF Turn!ToggleCoding

LEMMA JobStepKeeps == ASSUME TurnInv, Turn!JobStep PROVE TurnInv' /\ Typing(Behind)
<1>1. Turn!HasJob
  BY HasItsJob DEF Turn!JobStep
<1>2. budget \in Spent /\ job \in Jobs /\ Allowed
  BY <1>1 DEF TurnInv, InHand
<1>3. job.call \in access => job.call \in allowed
  BY <1>1, <1>2 DEF Turn!JobStep, Allowed
<1>. QED
  BY <1>1, <1>2, <1>3, JobTypes DEF Turn!JobStep

LEMMA JobOverKeeps == ASSUME TurnInv, Turn!JobOver PROVE TurnInv' /\ Typing(Behind)
<1>1. Turn!HasJob
  BY HasItsJob DEF Turn!JobOver
<1>2. /\ InHand /\ Allowed /\ pending \in Nat /\ Untouched(budget.calls - Waiting) /\ Sorted(messages, Behind)
      /\ budget.clears = 0 => Whole(Plan(messages, Behind, Ahead))
  BY DEF TurnInv
<1>3. /\ Waiting \in Nat /\ Behind \in Nat /\ budget.calls \in Nat /\ job.call \in Nat
      /\ job.call = budget.calls - Waiting /\ Behind = job.call - 1 /\ Ahead = Waiting + 1
  BY <1>1, <1>2, AheadNat DEF InHand, Jobs, Turn!Call
<1>4. PICK c, top, more, size : c = job.call /\ top = Behind /\ more = Waiting /\ size = Ahead
  OBVIOUS
<1>5. PICK xs : xs = <<Turn!Result(c, "ran")>>
  OBVIOUS
<1>6. Answers(xs, top) /\ Len(xs) = 1
  <2>1. top \in Nat /\ c \in Nat /\ c = top + 1
    BY <1>3, <1>4
  <2>2. "ran" \in Turn!Hows
    BY DEF Turn!Hows
  <2>3. Answers(<<Turn!Result(c, "ran")>>, top)
    BY <2>1, <2>2, OneAnswers
  <2>. QED
    BY <1>5, <2>3
<1>7. messages \in Seq(Msg)
  BY <1>2 DEF Sorted
<1>8. PICK all : all = messages \o xs
  OBVIOUS
<1>9. all = Append(messages, Turn!Result(c, "ran"))
  BY <1>5, <1>7, <1>8
<1>10. Given(messages, xs, all, top, c, more, size)
  BY <1>2, <1>3, <1>4, <1>6, <1>8 DEF Given
<1>11. Sorted(all, c) /\ (Whole(Plan(messages, top, size)) => Whole(Plan(all, c, more)))
  BY <1>10, AnswersSettle
<1>12. Turn!NextTool(all, queue) /\ UNCHANGED <<allowed, budget>>
  BY <1>4, <1>9 DEF Turn!JobOver
<1>13. Queued(queue, c) /\ budget \in Spent /\ budget.calls <= MaxCalls /\ Asked
  BY <1>2, <1>3, <1>4 DEF InHand, Queued, Allowed, Waiting
<1>14. budget.calls = c + Len(queue)
  BY <1>3, <1>4 DEF Waiting
<1>15. budget.clears = 0 => Whole(Plan(all, c, Len(queue)))
  BY <1>2, <1>4, <1>11 DEF Waiting
<1>16. Untouched(c) /\ c \in Nat
  BY <1>2, <1>3, <1>4
<1>17. TurnInv' /\ Typing(c)
  BY <1>2, <1>11, <1>12, <1>13, <1>14, <1>15, <1>16, NextToolKeeps
<1>18. \A x \in Turn!Call : x > c => x > Behind
  BY <1>3, <1>4 DEF Turn!Call
<1>. QED
  BY <1>17, <1>18 DEF Typing

LEMMA AnswerWithCallsKeeps ==
  ASSUME Bounds, TurnInv, Turn!AnswerWithCalls PROVE TurnInv' /\ Typing(Behind)
<1>1. ~Turn!HasJob /\ queue = <<>>
  BY DEF Turn!AnswerWithCalls, TurnInv, InHand, Turn!HasJob
<1>2. /\ job = Turn!NoJob /\ Asked /\ pending \in Nat /\ Untouched(budget.calls)
      /\ budget \in Spent /\ budget.calls <= MaxCalls /\ Behind = budget.calls
      /\ messages \in Seq(Msg) /\ Sorted(messages, budget.calls)
      /\ budget.clears = 0 => Whole(Plan(messages, budget.calls, 0))
  BY <1>1, Idle
<1>3. PICK top \in Nat : top = budget.calls
  BY <1>2 DEF Spent
<1>4. PICK n \in 1 .. CallsPerTurn :
        /\ budget.calls + n <= MaxCalls
        /\ LET q == [i \in 1 .. n |-> budget.calls + i]
           IN Turn!NextTool(Append(messages, Turn!Calls(q)), q)
        /\ Turn!Spend("calls", n)
  BY DEF Turn!AnswerWithCalls
<1>5. n \in Nat /\ MaxCalls \in Nat /\ top + n <= MaxCalls
  BY <1>3, <1>4 DEF Bounds
<1>6. PICK q : q = [i \in 1 .. n |-> budget.calls + i]
  OBVIOUS
<1>7. q = [i \in 1 .. n |-> top + i]
  BY <1>3, <1>6
<1>8. q \in Seq(Turn!Call) /\ Len(q) = n /\ \A i \in 1 .. n : q[i] = top + i
  <2>1. \A i \in 1 .. n : top + i \in Turn!Call
    BY <1>5 DEF Turn!Call
  <2>. QED
    BY <1>5, <1>7, <2>1
<1>9. PICK all : all = Append(messages, Turn!Calls(q))
  OBVIOUS
<1>10. Turn!NextTool(all, q)
  BY <1>4, <1>6, <1>9
<1>11. budget' \in Spent /\ budget'.calls = top + n /\ budget'.clears = budget.clears
  <2>1. budget' = [budget EXCEPT !.calls = @ + n]
    BY <1>4 DEF Turn!Spend
  <2>. QED
    BY <1>2, <1>3, <1>5, <2>1 DEF Spent
<1>12. Sorted(all, top)
  BY <1>2, <1>3, <1>8, <1>9, CallsSorted
<1>13. budget'.clears = 0 => Whole(Plan(all, top, Len(q)))
  BY <1>2, <1>3, <1>8, <1>9, <1>11, CallsPlan
<1>14. Queued(q, top) /\ budget'.calls = top + Len(q) /\ budget'.calls <= MaxCalls
  BY <1>5, <1>8, <1>11 DEF Queued
<1>15. allowed' = allowed
  BY DEF Turn!AnswerWithCalls
<1>16. Untouched(top)
  BY <1>2, <1>3
<1>17. TurnInv' /\ Typing(top)
  BY <1>2, <1>10, <1>11, <1>12, <1>13, <1>14, <1>15, <1>16, NextToolKeeps
<1>. QED
  BY <1>2, <1>3, <1>17

LEMMA CancelKeeps == ASSUME TurnInv, Turn!Cancel PROVE TurnInv'
<1>1. /\ InHand /\ Allowed /\ pending \in Nat /\ Untouched(budget.calls - Waiting) /\ Sorted(messages, Behind)
      /\ budget.clears = 0 => Whole(Plan(messages, Behind, Ahead))
  BY DEF TurnInv
<1>2. /\ Waiting \in Nat /\ Ahead \in Nat /\ Behind \in Nat /\ budget.calls \in Nat
      /\ budget \in Spent /\ budget.calls <= MaxCalls /\ Behind + Ahead = budget.calls
      /\ messages \in Seq(Msg) /\ queue \in Seq(Turn!Call)
  BY <1>1, AheadNat DEF InHand, Sorted
<1>3. PICK top : top = budget.calls - Waiting
  OBVIOUS
<1>4. PICK first : first = IF Turn!HasJob THEN <<Turn!Result(job.call, Turn!HowCancelled)>> ELSE <<>>
  OBVIOUS
<1>5. /\ job' = Turn!NoJob /\ queue' = <<>> /\ UNCHANGED <<pending, typed, access, allowed, budget>>
      /\ messages' = (messages \o first) \o Turn!Cancelled
  BY <1>4 DEF Turn!Cancel, Turn!JobAfterCancel
<1>6. Answers(first, Behind) /\ top = Behind + Len(first) /\ Ahead = Len(first) + Waiting /\ top \in Nat
  <2>1. CASE Turn!HasJob
    <3>1. /\ job.call \in Nat /\ job.call = Behind + 1 /\ job.call = top /\ Ahead = Waiting + 1
      BY <1>1, <1>2, <1>3, <2>1, AheadNat DEF InHand, Jobs, Turn!Call
    <3>2. Turn!HowCancelled \in Turn!Hows
      BY DEF Turn!HowCancelled, Turn!Hows
    <3>3. PICK c, how, low : c = job.call /\ how = Turn!HowCancelled /\ low = Behind
      OBVIOUS
    <3>4. Answers(<<Turn!Result(c, how)>>, low)
      BY <1>2, <3>1, <3>2, <3>3, OneAnswers
    <3>5. first = <<Turn!Result(c, how)>> /\ Len(first) = 1
      BY <1>4, <2>1, <3>3
    <3>. QED
      BY <1>2, <3>1, <3>3, <3>4, <3>5
  <2>2. CASE ~Turn!HasJob
    <3>1. first = <<>> /\ Behind = top /\ Ahead = Waiting
      BY <1>1, <1>3, <1>4, <2>2, AheadNat
    <3>2. first \in Seq(Msg) /\ Len(first) = 0
      BY <3>1
    <3>3. Answers(first, Behind)
      BY <3>2 DEF Answers
    <3>. QED
      BY <1>2, <3>1, <3>2, <3>3
  <2>. QED
    BY <2>1, <2>2
<1>7. PICK one, low, size, more : one = messages \o first /\ low = Behind /\ size = Ahead /\ more = Waiting
  OBVIOUS
<1>8. Sorted(one, top) /\ (Whole(Plan(messages, low, size)) => Whole(Plan(one, top, more)))
  <2>1. Given(messages, first, one, low, top, more, size)
    BY <1>1, <1>2, <1>6, <1>7 DEF Given
  <2>. QED
    BY <2>1, AnswersSettle
<1>9. PICK xs : xs = Turn!Cancelled
  OBVIOUS
<1>10. Answers(xs, top) /\ Len(xs) = Waiting
  <2>1. \A i \in 1 .. Len(queue) : queue[i] = top + i
    BY <1>1, <1>3 DEF InHand, Waiting
  <2>. QED
    BY <1>2, <1>6, <1>9, <2>1, ResultsAnswer DEF Turn!Cancelled, Turn!Hows, Waiting
<1>11. PICK all, later, none : all = one \o xs /\ later = budget.calls /\ none = 0
  OBVIOUS
<1>12. Sorted(all, later) /\ (Whole(Plan(one, top, more)) => Whole(Plan(all, later, none)))
  <2>1. later = top + Len(xs) /\ more = Len(xs) + none
    BY <1>2, <1>3, <1>7, <1>10, <1>11
  <2>2. Given(one, xs, all, top, later, none, more)
    BY <1>6, <1>8, <1>10, <1>11, <2>1 DEF Given
  <2>. QED
    BY <2>2, AnswersSettle
<1>13. budget.clears = 0 => Whole(Plan(all, budget.calls, 0))
  BY <1>1, <1>7, <1>8, <1>11, <1>12
<1>14. all \in Seq(Msg) /\ messages' = all
  BY <1>5, <1>7, <1>9, <1>11, <1>12 DEF Sorted
<1>15. messages' = all \o <<>> /\ Plain(<<>>)
  BY <1>14, NothingIsPlain
<1>16. Untouched(budget.calls)
  <2>1. \A c \in Turn!Call : c > budget.calls => c > budget.calls - Waiting
    BY <1>2 DEF Turn!Call
  <2>. QED
    BY <1>1, <2>1 DEF Untouched
<1>17. Asked /\ Sorted(all, budget.calls)
  BY <1>1, <1>11, <1>12 DEF Allowed
<1>. QED
  BY <1>1, <1>2, <1>5, <1>13, <1>15, <1>16, <1>17, Settles

LEMMA TurnStarts == Bounds /\ Turn!Init => TurnInv
<1>. SUFFICES ASSUME Bounds, Turn!Init PROVE TurnInv
  OBVIOUS
<1>1. /\ messages = <<>> /\ req = "none" /\ job = Turn!NoJob /\ queue = <<>> /\ pending = 0
      /\ typed = [c \in Turn!Call |-> 0] /\ access = {} /\ allowed = {}
      /\ budget = [calls |-> 0, asked |-> 0, items |-> 0, clears |-> 0, toggles |-> 0]
  BY DEF Turn!Init
<1>2. budget \in Spent /\ budget.calls = 0
  BY <1>1 DEF Spent
<1>3. ~Turn!HasJob /\ Waiting = 0 /\ Ahead = 0 /\ Behind = 0
  BY <1>1, <1>2 DEF Turn!HasJob, Waiting, Ahead, Behind
<1>4. InHand
  BY <1>1, <1>2, <1>3 DEF InHand, Bounds
<1>5. Allowed /\ Untouched(budget.calls - Waiting)
  BY <1>1, <1>3 DEF Allowed, Asked, Untouched
<1>6. messages \in Seq(Msg) /\ DOMAIN messages = {} /\ Len(messages) = 0
  BY <1>1
<1>7. Sorted(messages, Behind)
  BY <1>6 DEF Sorted
<1>8. Whole(Plan(messages, Behind, Ahead))
  <2>1. Plan(messages, Behind, Ahead) = [i \in {} |-> IF i <= 0 THEN Shape(messages[i]) ELSE Owed(i)]
    BY <1>3, <1>6 DEF Plan
  <2>2. DOMAIN Plan(messages, Behind, Ahead) = {}
    BY <2>1
  <2>. QED
    BY <2>2 DEF Whole, Turn!AllAnswered, Turn!NoStrayResult
<1>. QED
  BY <1>1, <1>4, <1>5, <1>7, <1>8 DEF TurnInv

LEMMA TurnGoesOn ==
  Bounds /\ TurnInv /\ [Turn!Next]_(Turn!vars) => TurnInv' /\ (typed' = typed \/ Typing(Behind))
<1>. SUFFICES ASSUME Bounds, TurnInv, [Turn!Next]_(Turn!vars)
              PROVE  TurnInv' /\ (typed' = typed \/ Typing(Behind))
  OBVIOUS
<1>1. CASE Turn!Send
  BY <1>1, SendKeeps DEF Turn!Send
<1>2. CASE Turn!EndAnswer
  BY <1>2, EndAnswerKeeps DEF Turn!EndAnswer
<1>3. CASE Turn!AnswerWithCalls
  BY <1>3, AnswerWithCallsKeeps
<1>4. CASE Turn!Approve
  BY <1>4, ApprovedKeeps
<1>5. CASE Turn!Deny
  BY <1>5, DenyKeeps
<1>6. CASE Turn!ToggleCoding
  BY <1>6, ToggleKeeps
<1>7. CASE Turn!JobStep
  BY <1>7, JobStepKeeps
<1>8. CASE Turn!JobOver
  BY <1>8, JobOverKeeps
<1>9. CASE Turn!Cancel
  BY <1>9, CancelKeeps DEF Turn!Cancel
<1>10. CASE Turn!ClearMessage
  BY <1>10, ClearMessageKeeps DEF Turn!ClearMessage
<1>11. CASE Turn!ClearAll
  BY <1>11, ClearAllKeeps DEF Turn!ClearAll
<1>12. CASE Turn!McpItem
  BY <1>12, McpItemKeeps DEF Turn!McpItem
<1>13. CASE Turn!Deliver
  BY <1>13, DeliverKeeps DEF Turn!Deliver
<1>14. CASE UNCHANGED Turn!vars
  <2>1. UNCHANGED <<messages, req, job, queue, pending, typed, access, allowed, budget>>
    BY <1>14 DEF Turn!vars
  <2>2. budget \in Spent /\ pending \in Nat
    BY DEF TurnInv, InHand
  <2>. QED
    BY <2>1, <2>2, Still
<1>. QED
  BY <1>1, <1>2, <1>3, <1>4, <1>5, <1>6, <1>7, <1>8, <1>9, <1>10, <1>11, <1>12, <1>13, <1>14 DEF Turn!Next

LEMMA Takes == Spec => Turn!Init /\ [][Turn!Next]_(Turn!vars)
<1>1. Init => Turn!Init
  BY DEF Init
<1>2. [Next]_vars => [Turn!Next]_(Turn!vars)
  <2>. SUFFICES ASSUME [Next]_vars PROVE [Turn!Next]_(Turn!vars)
    OBVIOUS
  <2>1. UNCHANGED turnVars => UNCHANGED Turn!vars
    BY DEF turnVars, Turn!vars
  <2>2. UNCHANGED vars => UNCHANGED turnVars
    BY DEF vars
  <2>. QED
    BY <2>1, <2>2 DEF Next
<1>. QED
  BY <1>1, <1>2, PTL DEF Spec

LEMMA Bounded == Bounds
BY AssistantAssumption DEF Bounds

LEMMA TurnHolds == Spec => []TurnInv
<1>1. Turn!Init => TurnInv
  BY Bounded, TurnStarts
<1>2. TurnInv /\ [Turn!Next]_(Turn!vars) => TurnInv'
  BY Bounded, TurnGoesOn
<1>. QED
  BY <1>1, <1>2, Takes, PTL

-----------------------------------------------------------------------------
(* Access reviews are mandatory, whatever the provider asks for, however   *)
(* often code mode is switched and whenever a turn is cancelled            *)
(* (ai.lua:464-478).                                                       *)
THEOREM AccessAsked == Spec => []AccessIsAsked
<1>1. TurnInv => AccessIsAsked
  BY DEF TurnInv, Allowed, Asked, AccessIsAsked, Turn!AccessIsAsked
<1>. QED
  BY <1>1, TurnHolds, PTL

(* Nothing is typed for a call that has its answer, nor for one that is no *)
(* longer at work: the calls that are typed for come after all that have   *)
(* been answered (SPEC.md:382).                                            *)
LEMMA TypingIsQuiet ==
  ASSUME TurnInv, typed' = typed \/ Typing(Behind)
  PROVE  \A c \in Turn!Call : typed'[c] # typed[c] =>
           /\ job'.call = c
           /\ \A i \in DOMAIN messages : messages[i].kind = "tool" => messages[i].id # c
<1>. SUFFICES ASSUME NEW c \in Turn!Call, typed'[c] # typed[c]
     PROVE  /\ job'.call = c
            /\ \A i \in DOMAIN messages : messages[i].kind = "tool" => messages[i].id # c
  OBVIOUS
<1>1. job'.call = c /\ c > Behind
  BY DEF Typing
<1>2. InHand /\ Sorted(messages, Behind)
  BY DEF TurnInv
<1>3. Behind \in Nat /\ c \in Nat
  BY <1>2, AheadNat DEF Turn!Call
<1>4. ASSUME NEW i \in DOMAIN messages, messages[i].kind = "tool" PROVE messages[i].id # c
  <2>1. messages[i].id <= Behind
    BY <1>2, <1>4 DEF Sorted
  <2>2. messages[i] \in Msg
    BY <1>2 DEF Sorted
  <2>3. messages[i].id \in Nat
    BY <2>2 DEF Msg
  <2>. QED
    BY <1>1, <1>3, <2>1, <2>3
<1>. QED
  BY <1>1, <1>4

THEOREM QuietStays == Spec => QuietAfterAnswer
<1>1. TurnInv /\ [Turn!Next]_(Turn!vars) =>
        [\A c \in Turn!Call : typed'[c] # typed[c] =>
           /\ job'.call = c
           /\ \A i \in DOMAIN messages : messages[i].kind = "tool" => messages[i].id # c]_(Turn!vars)
  BY Bounded, TurnGoesOn, TypingIsQuiet
<1>. QED
  BY <1>1, TurnHolds, Takes, PTL DEF QuietAfterAnswer, Turn!QuietAfterAnswer

(* What is planned shows in what is there.                                 *)
LEMMA PairsShow ==
  ASSUME NEW ms \in Seq(Msg), NEW top \in Nat, NEW more \in Nat, Whole(Plan(ms, top, more))
  PROVE  Turn!NoStrayResult(ms) /\ (more = 0 => Turn!AllAnswered(ms))
<1>1. PICK p, a, b : p = Plan(ms, top, more) /\ a = Len(ms) /\ b = Len(ms) + more
  OBVIOUS
<1>2. a \in Nat /\ b \in Nat /\ a <= b /\ (more = 0 => a = b)
  BY <1>1
<1>3. Rows(p, b) /\ \A i \in 1 .. a : p[i] = Shape(ms[i])
  BY <1>1, PlanIs DEF IsPlan
<1>4. Rows(ms, a)
  <2>1. DOMAIN ms = 1 .. a /\ \A i \in 1 .. a : ms[i] \in Msg
    BY <1>1
  <2>. QED
    BY <2>1 DEF Rows, Msg
<1>5. \A i \in 1 .. a : p[i].kind = ms[i].kind /\ p[i].calls = ms[i].calls /\ p[i].id = ms[i].id
  BY <1>3, ShapeIs
<1>6. Whole(p)
  BY <1>1
<1>7. /\ \A i \in 1 .. b : \A n \in 1 .. Len(p[i].calls) :
           i + n \in 1 .. b /\ p[i + n].kind = "tool" /\ p[i + n].id = p[i].calls[n]
      /\ \A k \in 1 .. b : p[k].kind = "tool" =>
           \E i \in 1 .. k - 1 : k - i \in 1 .. Len(p[i].calls) /\ p[k].id = p[i].calls[k - i]
  BY <1>2, <1>3, <1>6, WholeIs
<1>8. Turn!NoStrayResult(ms)
  <2>1. ASSUME NEW k \in 1 .. a, ms[k].kind = "tool"
        PROVE  \E i \in 1 .. k - 1 : k - i \in 1 .. Len(ms[i].calls) /\ ms[k].id = ms[i].calls[k - i]
    <3>1. k \in 1 .. b
      BY <1>2
    <3>2. PICK i \in 1 .. k - 1 : k - i \in 1 .. Len(p[i].calls) /\ p[k].id = p[i].calls[k - i]
      BY <1>5, <1>7, <2>1, <3>1
    <3>3. i \in 1 .. a
      BY <1>2
    <3>. QED
      BY <1>5, <3>2, <3>3
  <2>. QED
    BY <1>2, <1>4, <2>1, PairsAre
<1>9. ASSUME more = 0 PROVE Turn!AllAnswered(ms)
  <2>1. ASSUME NEW i \in 1 .. a, NEW n \in 1 .. Len(ms[i].calls)
        PROVE  i + n \in 1 .. a /\ ms[i + n].kind = "tool" /\ ms[i + n].id = ms[i].calls[n]
    <3>1. i + n \in 1 .. a /\ p[i + n].kind = "tool" /\ p[i + n].id = p[i].calls[n]
      BY <1>2, <1>5, <1>7, <1>9
    <3>. QED
      BY <1>5, <3>1
  <2>. QED
    BY <1>2, <1>4, <2>1, PairsAre
<1>. QED
  BY <1>8, <1>9

(* As long as the user removes nothing, calls and results stay paired      *)
(* (SPEC.md:383-385, ai.lua:1077-1092).                                    *)
THEOREM PairsWhole == Spec => []PairsAreWhole
<1>1. TurnInv => PairsAreWhole
  <2>. SUFFICES ASSUME TurnInv, budget.clears = 0
                PROVE  /\ Turn!NoStrayResult(messages)
                       /\ Turn!HasJob \/ queue # <<>> \/ Turn!AllAnswered(messages)
    BY DEF PairsAreWhole, Turn!PairsAreWhole
  <2>1. InHand /\ Sorted(messages, Behind) /\ Whole(Plan(messages, Behind, Ahead))
    BY DEF TurnInv
  <2>2. Behind \in Nat /\ Ahead \in Nat /\ messages \in Seq(Msg)
    BY <2>1, AheadNat DEF Sorted
  <2>3. Turn!NoStrayResult(messages) /\ (Ahead = 0 => Turn!AllAnswered(messages))
    BY <2>1, <2>2, PairsShow
  <2>4. ~Turn!HasJob /\ queue = <<>> => Ahead = 0
    BY DEF Ahead, Waiting
  <2>. QED
    BY <2>3, <2>4
<1>. QED
  BY <1>1, TurnHolds, PTL

-----------------------------------------------------------------------------
(* What is sent.  FlattenSeq is a recursive function: what it returns is   *)
(* found by induction, and the induction is over sets of numbers.          *)
LEMMA UpToAll ==
  ASSUME NEW S, 0 \in S, \A n \in Nat : n \in S => n + 1 \in S
  PROVE  Nat \subseteq S
<1>. SUFFICES ASSUME Nat \ S # {} PROVE FALSE
  OBVIOUS
<1>1. PICK n \in Nat \ S : \A m \in Nat \ S : ~(<<m, n>> \in OpToRel(<, Nat))
  BY NatLessThanWellFounded, WFMin
<1>2. n # 0 /\ n - 1 \in Nat
  OBVIOUS
<1>3. <<n - 1, n>> \in OpToRel(<, Nat)
  BY <1>2 DEF OpToRel
<1>4. n - 1 \in S
  BY <1>1, <1>2, <1>3, Zenon
<1>5. (n - 1) + 1 = n
  OBVIOUS
<1>. QED
  BY <1>2, <1>4, <1>5

IsFlat(f, s, n) == f = [i \in 1 .. n |-> IF i = 1 THEN s[i] ELSE f[i - 1] \o s[i]]

LEMMA FlatExists ==
  ASSUME NEW s, NEW n \in Nat
  PROVE  \E f : IsFlat(f, s, n)
<1>. DEFINE S == {k \in Nat : \E f : IsFlat(f, s, k)}
<1>1. 0 \in S
  <2>1. PICK f : f = [i \in {} |-> 0]
    OBVIOUS
  <2>2. 1 .. 0 = {}
    OBVIOUS
  <2>3. IsFlat(f, s, 0)
    BY <2>1, <2>2 DEF IsFlat
  <2>. QED
    BY <2>3
<1>2. ASSUME NEW k \in Nat, k \in S PROVE k + 1 \in S
  <2>1. PICK f : IsFlat(f, s, k)
    BY <1>2
  <2>2. PICK g : g = [i \in 1 .. k + 1 |-> IF i = k + 1 THEN (IF i = 1 THEN s[i] ELSE f[i - 1] \o s[i]) ELSE f[i]]
    OBVIOUS
  <2>3. \A i \in 1 .. k + 1 : i # k + 1 => i \in 1 .. k /\ g[i] = f[i]
    BY <2>2
  <2>4. \A i \in 1 .. k : f[i] = IF i = 1 THEN s[i] ELSE f[i - 1] \o s[i]
    BY <2>1 DEF IsFlat
  <2>5. \A i \in 1 .. k + 1 : i # 1 => i - 1 \in 1 .. k /\ g[i - 1] = f[i - 1]
    BY <2>2
  <2>6. \A i \in 1 .. k + 1 : g[i] = IF i = 1 THEN s[i] ELSE g[i - 1] \o s[i]
    BY <2>2, <2>3, <2>4, <2>5
  <2>7. g = [i \in 1 .. k + 1 |-> g[i]]
    BY <2>2
  <2>8. IsFlat(g, s, k + 1)
    BY <2>6, <2>7 DEF IsFlat
  <2>. QED
    BY <2>8
<1>3. Nat \subseteq S
  <2>. HIDE DEF S
  <2>. QED
    BY <1>1, <1>2, UpToAll
<1>. QED
  BY <1>3

LEMMA Flattened ==
  ASSUME NEW s \in Seq(Seq(Msg)), NEW n \in Nat, n = Len(s)
  PROVE  \E h : /\ h[0] = <<>> /\ h[n] = Turn!FlattenSeq(s)
                /\ \A i \in 0 .. n - 1 : h[i + 1] = h[i] \o s[i + 1]
<1>1. CASE n = 0
  <2>1. Turn!FlattenSeq(s) = <<>>
    <3>1. s = <<>> /\ Len(s) = 0
      <4>1. PICK T : T = Seq(Msg)
        OBVIOUS
      <4>2. s \in Seq(T) /\ Len(s) = 0
        BY <1>1, <4>1
      <4>. QED
        BY <4>2, EmptySeq
    <3>2. Turn!FlattenSeq(s) = s
      BY <3>1, Zenon DEF Turn!FlattenSeq
    <3>. QED
      BY <3>1, <3>2
  <2>2. PICK h : h = [i \in {0} |-> <<>>]
    OBVIOUS
  <2>. QED
    BY <1>1, <2>1, <2>2
<1>2. CASE n # 0
  <2>1. PICK f : f = CHOOSE g : IsFlat(g, s, n)
    OBVIOUS
  <2>2. IsFlat(f, s, n)
    BY <2>1, FlatExists
  <2>3. Turn!FlattenSeq(s) = f[n]
    BY <1>2, <2>1 DEF Turn!FlattenSeq, IsFlat
  <2>4. f[1] = s[1] /\ \A i \in 1 .. n : i # 1 => f[i] = f[i - 1] \o s[i]
    <3>1. \A i \in 1 .. n : f[i] = IF i = 1 THEN s[i] ELSE f[i - 1] \o s[i]
      BY <2>2 DEF IsFlat
    <3>2. 1 \in 1 .. n
      BY <1>2
    <3>. QED
      BY <3>1, <3>2, Zenon
  <2>5. PICK h : h = [i \in 0 .. n |-> IF i = 0 THEN <<>> ELSE f[i]]
    OBVIOUS
  <2>6. h[0] = <<>> /\ \A i \in 1 .. n : h[i] = f[i]
    BY <2>5
  <2>7. ASSUME NEW i \in 0 .. n - 1 PROVE h[i + 1] = h[i] \o s[i + 1]
    <3>1. i + 1 \in 1 .. n /\ s[i + 1] \in Seq(Msg)
      OBVIOUS
    <3>2. CASE i = 0
      <4>1. PICK x \in Seq(Msg) : x = s[1]
        BY <3>1, <3>2
      <4>2. h[1] = x
        <5>1. 1 \in 1 .. n
          BY <1>2
        <5>. QED
          BY <2>4, <2>6, <4>1, <5>1, Zenon
      <4>3. <<>> \o x = x
        OBVIOUS
      <4>4. i + 1 = 1
        BY <3>2
      <4>5. h[1] = h[0] \o s[1]
        BY <2>6, <4>1, <4>2, <4>3, Zenon
      <4>. QED
        BY <3>2, <4>4, <4>5, Zenon
    <3>3. CASE i # 0
      <4>1. i \in 1 .. n /\ i + 1 # 1 /\ (i + 1) - 1 = i
        BY <3>3
      <4>. QED
        BY <2>4, <2>6, <3>1, <4>1
    <3>. QED
      BY <3>2, <3>3
  <2>8. h[n] = Turn!FlattenSeq(s)
    <3>1. n \in 1 .. n
      BY <1>2
    <3>. QED
      BY <2>3, <2>6, <3>1
  <2>. QED
    BY <2>6, <2>7, <2>8
<1>. QED
  BY <1>1, <1>2

(* Its ids being in order, a result is found.                              *)
LEMMA ResultFound ==
  ASSUME NEW ms, NEW top \in Nat, Sorted(ms, top), NEW i \in 1 .. Len(ms), NEW c \in Turn!Following(ms, i)
  PROVE  \E m \in Msg : /\ m = Turn!ResultOf(ms, i, c) /\ m.kind = "tool" /\ m.calls = <<>> /\ m.id = c
                        /\ \A k \in i + 1 .. Len(ms) : ms[k].kind = "tool" /\ ms[k].id = c => m = ms[k]
<1>1. ms \in Seq(Msg) /\ Len(ms) \in Nat /\ DOMAIN ms = 1 .. Len(ms)
  BY DEF Sorted
<1>2. \E k \in i + 1 .. Len(ms) : ms[k].kind = "tool" /\ ms[k].id = c
  BY <1>1 DEF Turn!Following
<1>3. PICK k : k = CHOOSE l \in i + 1 .. Len(ms) : ms[l].kind = "tool" /\ ms[l].id = c
  OBVIOUS
<1>4. k \in i + 1 .. Len(ms) /\ ms[k].kind = "tool" /\ ms[k].id = c
  BY <1>2, <1>3
<1>5. ms[k] = Turn!ResultOf(ms, i, c)
  BY <1>3 DEF Turn!ResultOf
<1>6. \A l \in i + 1 .. Len(ms) : l \in 1 .. Len(ms) /\ ms[l] \in Msg
  BY <1>1
<1>7. ms[k].calls = <<>>
  BY <1>1, <1>4, <1>6 DEF Sorted
<1>8. ASSUME NEW l \in i + 1 .. Len(ms), ms[l].kind = "tool", ms[l].id = c PROVE l = k
  <2>1. \A x, y \in 1 .. Len(ms) : x < y /\ ms[x].kind = "tool" /\ ms[y].kind = "tool" => ms[x].id < ms[y].id
    BY <1>1 DEF Sorted
  <2>2. c \in Nat
    BY <1>4, <1>6 DEF Msg
  <2>3. ~(l < k) /\ ~(k < l)
    BY <1>4, <1>6, <1>8, <2>1, <2>2
  <2>. QED
    BY <1>1, <1>4, <2>3
<1>. QED
  BY <1>4, <1>5, <1>6, <1>7, <1>8

(* Calls with all their results.                                           *)
Pairs(b, q) ==
  /\ q \in Seq(Turn!Call) /\ b \in Seq(Msg) /\ Len(b) = Len(q) + 1
  /\ b[1].calls = q /\ b[1].kind = "calls"
  /\ \A n \in 1 .. Len(q) : b[n + 1].calls = <<>> /\ b[n + 1].kind = "tool" /\ b[n + 1].id = q[n]

(* What is there of message i, when the conversation is whole.             *)
Stays(ms, i, b) ==
  IF ms[i].kind = "tool" THEN b = <<>>
  ELSE /\ i + Len(ms[i].calls) <= Len(ms)
       /\ \A k \in 1 .. Len(ms) : i < k /\ k <= i + Len(ms[i].calls) => ms[k].kind = "tool"
       /\ b \in Seq(Msg) /\ Len(b) = Len(ms[i].calls) + 1
       /\ \A n \in 1 .. Len(b) : b[n] = ms[i + n - 1]

LEMMA CleanedIs ==
  ASSUME NEW ms, NEW top \in Nat, Sorted(ms, top), NEW i \in 1 .. Len(ms),
         NEW b, b = Turn!Cleaned(ms, i)
  PROVE  /\ Plain(b) \/ \E q : Pairs(b, q)
         /\ Whole(ms) => Stays(ms, i, b)
<1>1. ms \in Seq(Msg) /\ Len(ms) \in Nat /\ DOMAIN ms = 1 .. Len(ms)
  BY DEF Sorted
<1>2. PICK m \in Msg : m = ms[i]
  BY <1>1
<1>3. m.calls \in Seq(Turn!Call) /\ m.kind \in Kind /\ (m.calls # <<>> => m.kind = "calls")
  BY <1>1, <1>2 DEF Msg, Sorted
<1>4. PICK q \in Seq(Turn!Call) : q = m.calls
  BY <1>3
<1>5. Len(q) \in Nat /\ DOMAIN q = 1 .. Len(q)
  OBVIOUS
<1>6. Rows(ms, Len(ms))
  <2>1. \A k \in 1 .. Len(ms) : ms[k] \in Msg
    BY <1>1
  <2>. QED
    BY <1>1, <2>1 DEF Rows, Msg
<1>7. Whole(ms) => \A n \in 1 .. Len(q) : i + n \in 1 .. Len(ms) /\ ms[i + n].kind = "tool" /\ ms[i + n].id = q[n]
  BY <1>1, <1>2, <1>4, <1>6, WholeIs
<1>8. Whole(ms) => i + Len(q) <= Len(ms)
  <2>. SUFFICES ASSUME Whole(ms) PROVE i + Len(q) <= Len(ms)
    OBVIOUS
  <2>1. CASE Len(q) = 0
    BY <1>1, <2>1
  <2>2. CASE Len(q) # 0
    <3>1. Len(q) \in 1 .. Len(q)
      BY <1>5, <2>2
    <3>. QED
      BY <1>1, <1>5, <1>7, <3>1
  <2>. QED
    BY <2>1, <2>2
<1>9. CASE m.kind = "tool"
  <2>1. b = <<>>
    BY <1>2, <1>9 DEF Turn!Cleaned
  <2>. QED
    BY <1>2, <1>9, <2>1, NothingIsPlain DEF Stays
<1>10. CASE m.kind = "calls" /\ Turn!ToSet(q) \subseteq Turn!Following(ms, i)
  <2>1. PICK rs : rs = [n \in 1 .. Len(q) |-> Turn!ResultOf(ms, i, q[n])]
    OBVIOUS
  <2>2. b = <<m>> \o rs
    <3>1. b = <<m>> \o [n \in DOMAIN m.calls |-> Turn!ResultOf(ms, i, m.calls[n])]
      BY <1>2, <1>4, <1>10 DEF Turn!Cleaned
    <3>. QED
      BY <1>4, <1>5, <2>1, <3>1
  <2>3. \A n \in 1 .. Len(q) : q[n] \in Turn!Following(ms, i)
    BY <1>5, <1>10 DEF Turn!ToSet
  <2>4. ASSUME NEW n \in 1 .. Len(q)
        PROVE  /\ rs[n] \in Msg /\ rs[n].kind = "tool" /\ rs[n].calls = <<>> /\ rs[n].id = q[n]
               /\ \A k \in i + 1 .. Len(ms) : ms[k].kind = "tool" /\ ms[k].id = q[n] => rs[n] = ms[k]
    <3>1. PICK c \in Turn!Following(ms, i) : c = q[n]
      BY <2>3
    <3>2. PICK r \in Msg : /\ r = Turn!ResultOf(ms, i, c) /\ r.kind = "tool" /\ r.calls = <<>> /\ r.id = c
                           /\ \A k \in i + 1 .. Len(ms) : ms[k].kind = "tool" /\ ms[k].id = c => r = ms[k]
      BY ResultFound
    <3>3. rs[n] = r
      BY <2>1, <3>1, <3>2
    <3>. QED
      BY <3>1, <3>2, <3>3
  <2>5. rs \in Seq(Msg) /\ Len(rs) = Len(q)
    BY <1>5, <2>1, <2>4
  <2>6. /\ b \in Seq(Msg) /\ Len(b) = Len(q) + 1 /\ b[1] = m
        /\ \A n \in 1 .. Len(q) : b[n + 1] = rs[n]
    <3>1. PICK one : one = <<m>>
      OBVIOUS
    <3>2. one \in Seq(Msg) /\ Len(one) = 1 /\ one[1] = m
      BY <3>1
    <3>3. b = one \o rs
      BY <2>2, <3>1
    <3>4. /\ b \in Seq(Msg) /\ Len(b) = Len(one) + Len(rs)
          /\ \A n \in 1 .. Len(one) : b[n] = one[n]
          /\ \A n \in 1 .. Len(b) : n > Len(one) => b[n] = rs[n - Len(one)]
      <4>1. one \in Seq(Msg) /\ rs \in Seq(Msg)
        BY <2>5, <3>2
      <4>. QED
        BY <3>3, <4>1, Joined
    <3>5. b \in Seq(Msg) /\ Len(b) = Len(q) + 1 /\ b[1] = m
      BY <1>5, <2>5, <3>2, <3>4
    <3>6. ASSUME NEW n \in 1 .. Len(q) PROVE b[n + 1] = rs[n]
      <4>1. n + 1 \in 1 .. Len(b) /\ n + 1 > Len(one) /\ (n + 1) - Len(one) = n
        BY <1>5, <3>2, <3>5
      <4>. QED
        BY <3>4, <4>1
    <3>. QED
      BY <3>5, <3>6
  <2>7. Pairs(b, q)
    <3>1. b[1].calls = q /\ b[1].kind = "calls"
      BY <1>4, <1>10, <2>6
    <3>2. \A n \in 1 .. Len(q) : b[n + 1].calls = <<>> /\ b[n + 1].kind = "tool" /\ b[n + 1].id = q[n]
      BY <2>4, <2>6
    <3>. QED
      BY <2>6, <3>1, <3>2 DEF Pairs
  <2>8. Whole(ms) => Stays(ms, i, b)
    <3>. SUFFICES ASSUME Whole(ms) PROVE Stays(ms, i, b)
      OBVIOUS
    <3>1. \A k \in 1 .. Len(ms) : i < k /\ k <= i + Len(q) => ms[k].kind = "tool"
      <4>1. ASSUME NEW k \in 1 .. Len(ms), i < k, k <= i + Len(q) PROVE ms[k].kind = "tool"
        <5>1. PICK n : n = k - i
          OBVIOUS
        <5>2. n \in 1 .. Len(q) /\ i + n = k
          BY <1>5, <4>1, <5>1
        <5>. QED
          BY <1>7, <5>2
      <4>. QED
        BY <4>1
    <3>2. ASSUME NEW n \in 1 .. Len(b) PROVE b[n] = ms[i + n - 1]
      <4>1. CASE n = 1
        BY <1>2, <2>6, <4>1
      <4>2. CASE n # 1
        <5>1. PICK k : k = n - 1
          OBVIOUS
        <5>2. k \in 1 .. Len(q) /\ k + 1 = n /\ i + k = i + n - 1
          BY <1>5, <2>6, <4>2, <5>1
        <5>3. i + k \in 1 .. Len(ms) /\ ms[i + k].kind = "tool" /\ ms[i + k].id = q[k]
          BY <1>7, <5>2
        <5>4. i + k \in i + 1 .. Len(ms)
          BY <1>1, <1>5, <5>2, <5>3
        <5>5. rs[k] = ms[i + k]
          BY <2>4, <5>2, <5>3, <5>4
        <5>. QED
          BY <2>6, <5>2, <5>5
      <4>. QED
        BY <4>1, <4>2
    <3>. QED
      BY <1>2, <1>4, <1>8, <1>10, <2>6, <3>1, <3>2 DEF Stays
  <2>. QED
    BY <2>7, <2>8
<1>11. CASE m.kind = "calls" /\ ~(Turn!ToSet(q) \subseteq Turn!Following(ms, i))
  <2>1. b = <<Turn!Message("text")>>
    BY <1>2, <1>4, <1>11 DEF Turn!Cleaned
  <2>2. Plain(b)
    BY <2>1, OneIsPlain DEF Kind
  <2>3. ~Whole(ms)
    <3>. SUFFICES ASSUME Whole(ms) PROVE FALSE
      OBVIOUS
    <3>1. ASSUME NEW n \in 1 .. Len(q) PROVE q[n] \in Turn!Following(ms, i)
      <4>1. i + n \in i + 1 .. Len(ms) /\ ms[i + n].id = q[n]
        BY <1>5, <1>7
      <4>2. ASSUME NEW l \in i + 1 .. i + n PROVE ms[l].kind = "tool"
        <5>1. PICK k : k = l - i
          OBVIOUS
        <5>2. k \in 1 .. Len(q) /\ i + k = l
          BY <1>5, <5>1
        <5>. QED
          BY <1>7, <5>2
      <4>. QED
        BY <4>1, <4>2 DEF Turn!Following
    <3>. QED
      BY <1>5, <1>11, <3>1 DEF Turn!ToSet
  <2>. QED
    BY <2>2, <2>3
<1>12. CASE m.kind \notin {"tool", "calls"}
  <2>1. b = <<m>>
    BY <1>2, <1>12 DEF Turn!Cleaned
  <2>2. q = <<>> /\ Len(q) = 0
    BY <1>3, <1>4, <1>12
  <2>3. b \in Seq(Msg) /\ Len(b) = 1 /\ b[1] = m
    BY <2>1
  <2>4. Plain(b)
    <3>1. m.calls = <<>> /\ m.kind # "tool"
      BY <1>4, <1>12, <2>2
    <3>2. \A n \in 1 .. Len(b) : b[n] = m
      BY <2>3
    <3>. QED
      BY <2>3, <3>1, <3>2 DEF Plain
  <2>5. Stays(ms, i, b)
    <3>1. \A k \in 1 .. Len(ms) : ~(i < k /\ k <= i + Len(q))
      BY <2>2
    <3>2. \A n \in 1 .. Len(b) : n = 1 /\ i + n - 1 = i
      BY <2>3
    <3>3. i + Len(q) <= Len(ms) /\ Len(b) = Len(q) + 1
      BY <1>1, <2>2, <2>3
    <3>. QED
      BY <1>2, <1>4, <1>12, <2>3, <3>1, <3>2, <3>3 DEF Stays
  <2>. QED
    BY <2>4, <2>5
<1>. QED
  BY <1>4, <1>9, <1>10, <1>11, <1>12

(* A block that is sent keeps what is before it whole.                     *)
LEMMA BlockKeeps ==
  ASSUME NEW x \in Seq(Msg), NEW b, Plain(b) \/ \E q : Pairs(b, q), Whole(x), NEW r, r = x \o b
  PROVE  r \in Seq(Msg) /\ Whole(r)
<1>1. b \in Seq(Msg)
  BY DEF Plain, Pairs
<1>2. /\ r \in Seq(Msg) /\ Len(r) = Len(x) + Len(b) /\ DOMAIN r = 1 .. Len(r)
      /\ Len(x) \in Nat /\ Len(b) \in Nat
      /\ \A i \in 1 .. Len(x) : r[i] = x[i]
      /\ \A i \in 1 .. Len(r) : i > Len(x) => i - Len(x) \in 1 .. Len(b) /\ r[i] = b[i - Len(x)]
  BY <1>1, Joined
<1>3. PICK a, size : a = Len(x) /\ size = Len(r)
  OBVIOUS
<1>4. a \in Nat /\ size \in Nat /\ a <= size
  BY <1>2, <1>3
<1>5. Rows(x, a) /\ Rows(r, size)
  <2>1. \A i \in 1 .. a : x[i] \in Msg
    BY <1>3
  <2>2. \A i \in 1 .. size : r[i] \in Msg
    BY <1>2, <1>3
  <2>3. DOMAIN x = 1 .. a
    BY <1>3
  <2>. QED
    BY <1>2, <1>3, <2>1, <2>2, <2>3 DEF Rows, Msg
<1>6. \A i \in 1 .. a : r[i] = x[i]
  BY <1>2, <1>3
<1>7. CASE Plain(b)
  <2>1. \A i \in 1 .. size : i > a => r[i].calls = <<>> /\ r[i].kind # "tool"
    BY <1>2, <1>3, <1>7 DEF Plain
  <2>. QED
    BY <1>2, <1>4, <1>5, <1>6, <2>1, WholeGoesOn
<1>8. ASSUME NEW q, Pairs(b, q) PROVE Whole(r)
  <2>1. /\ q \in Seq(Turn!Call) /\ Len(q) \in Nat /\ Len(b) = Len(q) + 1
        /\ b[1].calls = q /\ b[1].kind = "calls"
        /\ \A n \in 1 .. Len(q) : b[n + 1].calls = <<>> /\ b[n + 1].kind = "tool" /\ b[n + 1].id = q[n]
    BY <1>8 DEF Pairs
  <2>2. size = a + 1 + Len(q)
    BY <1>2, <1>3, <2>1
  <2>3. r[a + 1] = b[1]
    <3>1. a + 1 \in 1 .. Len(r) /\ a + 1 > Len(x) /\ (a + 1) - Len(x) = 1
      BY <1>3, <1>4, <2>1, <2>2
    <3>. QED
      BY <1>2, <3>1
  <2>4. ASSUME NEW i \in 1 .. size, i > a + 1
        PROVE  r[i].calls = <<>> /\ r[i].kind = "tool" /\ r[i].id = q[i - (a + 1)]
    <3>1. PICK n : n = i - (a + 1)
      OBVIOUS
    <3>2. n \in 1 .. Len(q) /\ i > Len(x) /\ i - Len(x) = n + 1
      BY <1>3, <1>4, <2>1, <2>2, <2>4, <3>1
    <3>3. r[i] = b[n + 1]
      BY <1>2, <1>3, <3>2
    <3>. QED
      BY <2>1, <3>1, <3>2, <3>3
  <2>5. CallsFollow(x, a, r, size, q)
    BY <1>6, <2>1, <2>3, <2>4 DEF CallsFollow
  <2>. QED
    BY <1>4, <1>5, <2>1, <2>2, <2>5, WholeWithCalls
<1>. QED
  BY <1>2, <1>7, <1>8

(* What the first j messages become: the messages up to e, when the        *)
(* conversation is whole.                                                  *)
Reaches(ms, j, e, x) ==
  /\ e \in Nat /\ j <= e /\ e <= Len(ms)
  /\ x \in Seq(Msg) /\ Len(x) = e /\ \A k \in 1 .. e : x[k] = ms[k]
  /\ \A k \in 1 .. e : k > j => ms[k].kind = "tool"
  /\ \A i \in 1 .. j : i + Len(ms[i].calls) <= e

Good(ms, j, x) == x \in Seq(Msg) /\ Whole(x) /\ (Whole(ms) => \E e : Reaches(ms, j, e, x))

LEMMA ReachesOn ==
  ASSUME NEW ms \in Seq(Msg), Whole(ms), NEW j \in Nat, j + 1 <= Len(ms), NEW e, NEW x, Reaches(ms, j, e, x),
         ms[j + 1].calls # <<>> => ms[j + 1].kind = "calls",
         NEW b, Stays(ms, j + 1, b), NEW r, r = x \o b
  PROVE  \E f : Reaches(ms, j + 1, f, r)
<1>1. /\ e \in Nat /\ j <= e /\ e <= Len(ms)
      /\ x \in Seq(Msg) /\ Len(x) = e /\ \A k \in 1 .. e : x[k] = ms[k]
      /\ \A k \in 1 .. e : k > j => ms[k].kind = "tool"
      /\ \A i \in 1 .. j : i + Len(ms[i].calls) <= e
  BY DEF Reaches
<1>2. Len(ms) \in Nat /\ \A k \in 1 .. Len(ms) : ms[k] \in Msg
  OBVIOUS
<1>3. \A k \in 1 .. Len(ms) : ms[k].calls \in Seq(Turn!Call) /\ Len(ms[k].calls) \in Nat
  BY <1>2 DEF Msg
<1>4. Rows(ms, Len(ms))
  BY <1>2, <1>3 DEF Rows
<1>5. PICK m : m = ms[j + 1]
  OBVIOUS
<1>6. j + 1 \in 1 .. Len(ms)
  BY <1>2
<1>7. CASE m.kind = "tool"
  <2>1. b = <<>> /\ r = x /\ Len(m.calls) = 0
    BY <1>1, <1>5, <1>7, NothingIsPlain DEF Stays
  <2>2. j + 1 <= e
    <3>1. \A k \in 1 .. Len(ms) : ms[k].kind = "tool" =>
            \E i \in 1 .. k - 1 : k - i \in 1 .. Len(ms[i].calls) /\ ms[k].id = ms[i].calls[k - i]
      BY <1>2, <1>4, WholeIs
    <3>2. PICK i \in 1 .. (j + 1) - 1 : (j + 1) - i \in 1 .. Len(ms[i].calls)
      BY <1>5, <1>6, <1>7, <3>1
    <3>3. i \in 1 .. j /\ i \in 1 .. Len(ms)
      BY <1>2
    <3>4. i + Len(ms[i].calls) <= e /\ Len(ms[i].calls) \in Nat
      BY <1>1, <1>3, <3>3
    <3>. QED
      BY <1>1, <3>2, <3>3, <3>4
  <2>3. \A k \in 1 .. e : k > j + 1 => ms[k].kind = "tool"
    BY <1>1
  <2>4. \A i \in 1 .. j + 1 : i + Len(ms[i].calls) <= e
    <3>1. \A i \in 1 .. j + 1 : i \in 1 .. j \/ i = j + 1
      OBVIOUS
    <3>2. (j + 1) + Len(ms[j + 1].calls) <= e
      BY <1>1, <1>5, <2>1, <2>2
    <3>. QED
      BY <1>1, <3>1, <3>2
  <2>5. Reaches(ms, j + 1, e, r)
    BY <1>1, <2>1, <2>2, <2>3, <2>4 DEF Reaches
  <2>. QED
    BY <2>5
<1>8. CASE m.kind # "tool"
  <2>1. e = j
    <3>1. SUFFICES ASSUME e > j PROVE FALSE
      BY <1>1
    <3>2. j + 1 \in 1 .. e /\ j + 1 > j
      BY <1>1, <3>1
    <3>. QED
      BY <1>1, <1>5, <1>8, <3>2
  <2>2. PICK size \in Nat : size = Len(m.calls)
    BY <1>3, <1>5, <1>6
  <2>3. /\ j + 1 + size <= Len(ms)
        /\ \A k \in 1 .. Len(ms) : j + 1 < k /\ k <= j + 1 + size => ms[k].kind = "tool"
        /\ b \in Seq(Msg) /\ Len(b) = size + 1
        /\ \A n \in 1 .. Len(b) : b[n] = ms[j + 1 + n - 1]
    BY <1>5, <1>8, <2>2 DEF Stays
  <2>4. PICK f \in Nat : f = j + 1 + size
    OBVIOUS
  <2>5. /\ r \in Seq(Msg) /\ Len(r) = Len(x) + Len(b)
        /\ \A i \in 1 .. Len(x) : r[i] = x[i]
        /\ \A i \in 1 .. Len(r) : i > Len(x) => i - Len(x) \in 1 .. Len(b) /\ r[i] = b[i - Len(x)]
    <3>1. x \in Seq(Msg) /\ b \in Seq(Msg)
      BY <1>1, <2>3
    <3>. QED
      BY <3>1, Joined
  <2>6. Len(r) = f
    BY <1>1, <2>1, <2>3, <2>4, <2>5
  <2>7. ASSUME NEW k \in 1 .. f PROVE r[k] = ms[k]
    <3>1. CASE k <= j
      BY <1>1, <2>1, <2>5, <3>1
    <3>2. CASE k > j
      <4>1. PICK n : n = k - j
        OBVIOUS
      <4>2. k \in 1 .. Len(r) /\ k > Len(x) /\ k - Len(x) = n /\ j + 1 + n - 1 = k
        BY <1>1, <2>1, <2>6, <3>2, <4>1
      <4>3. n \in 1 .. Len(b) /\ r[k] = b[n]
        BY <2>5, <4>2
      <4>. QED
        BY <2>3, <4>2, <4>3
    <3>3. k <= j \/ k > j
      OBVIOUS
    <3>. QED
      BY <3>1, <3>2, <3>3
  <2>8. \A k \in 1 .. f : k > j + 1 => ms[k].kind = "tool"
    BY <1>2, <2>3, <2>4
  <2>9. \A i \in 1 .. j + 1 : i + Len(ms[i].calls) <= f
    <3>1. \A i \in 1 .. j + 1 : i \in 1 .. j \/ i = j + 1
      OBVIOUS
    <3>2. (j + 1) + Len(ms[j + 1].calls) <= f
      BY <1>5, <2>2, <2>4
    <3>3. ASSUME NEW i \in 1 .. j PROVE i + Len(ms[i].calls) <= f
      <4>1. i + Len(ms[i].calls) <= j
        BY <1>1, <2>1
      <4>2. i \in 1 .. Len(ms)
        BY <1>2
      <4>. QED
        BY <1>3, <2>4, <4>1, <4>2
    <3>. QED
      BY <3>1, <3>2, <3>3
  <2>10. j + 1 <= f /\ f <= Len(ms)
    BY <2>3, <2>4
  <2>11. Reaches(ms, j + 1, f, r)
    BY <2>5, <2>6, <2>7, <2>8, <2>9, <2>10 DEF Reaches
  <2>. QED
    BY <2>11
<1>. QED
  BY <1>7, <1>8

LEMMA SanitizeIs ==
  ASSUME NEW ms, NEW top \in Nat, Sorted(ms, top), NEW out, out = Turn!Sanitize(ms)
  PROVE  Whole(out) /\ (Whole(ms) => out = ms)
<1>1. ms \in Seq(Msg) /\ Len(ms) \in Nat /\ DOMAIN ms = 1 .. Len(ms)
  BY DEF Sorted
<1>2. PICK s : s = [i \in DOMAIN ms |-> Turn!Cleaned(ms, i)]
  OBVIOUS
<1>3. \A i \in 1 .. Len(ms) : s[i] = Turn!Cleaned(ms, i)
  BY <1>1, <1>2
<1>4. \A i \in 1 .. Len(ms) : /\ Plain(s[i]) \/ \E q : Pairs(s[i], q)
                              /\ Whole(ms) => Stays(ms, i, s[i])
  BY <1>3, CleanedIs
<1>5. \A i \in 1 .. Len(ms) : s[i] \in Seq(Msg)
  BY <1>4 DEF Plain, Pairs
<1>6. s \in Seq(Seq(Msg)) /\ Len(s) = Len(ms)
  <2>1. PICK T : T = Seq(Msg)
    OBVIOUS
  <2>2. DOMAIN s = 1 .. Len(ms) /\ s = [i \in 1 .. Len(ms) |-> s[i]] /\ \A i \in 1 .. Len(ms) : s[i] \in T
    BY <1>1, <1>2, <1>5, <2>1
  <2>3. s \in Seq(T) /\ Len(s) = Len(ms)
    BY <1>1, <2>2
  <2>. QED
    BY <2>1, <2>3
<1>7. PICK n \in Nat : n = Len(ms)
  BY <1>1
<1>8. PICK h : /\ h[0] = <<>> /\ h[n] = Turn!FlattenSeq(s)
               /\ \A i \in 0 .. n - 1 : h[i + 1] = h[i] \o s[i + 1]
  BY <1>6, <1>7, Flattened
<1>9. out = h[n]
  BY <1>2, <1>8 DEF Turn!Sanitize
<1>. DEFINE S == {j \in Nat : j <= n => Good(ms, j, h[j])}
<1>10. 0 \in S
  <2>1. PICK x : x = h[0]
    OBVIOUS
  <2>2. x \in Seq(Msg) /\ Len(x) = 0 /\ DOMAIN x = {}
    BY <1>8, <2>1
  <2>3. Whole(x)
    BY <2>2 DEF Whole, Turn!AllAnswered, Turn!NoStrayResult
  <2>4. Reaches(ms, 0, 0, x)
    BY <1>1, <2>2 DEF Reaches
  <2>5. Good(ms, 0, x)
    BY <2>2, <2>3, <2>4 DEF Good
  <2>. QED
    BY <2>1, <2>5
<1>11. ASSUME NEW j \in Nat, j \in S PROVE j + 1 \in S
  <2>. SUFFICES ASSUME j + 1 <= n PROVE Good(ms, j + 1, h[j + 1])
    OBVIOUS
  <2>1. PICK x, b, r : x = h[j] /\ b = s[j + 1] /\ r = h[j + 1]
    OBVIOUS
  <2>2. j + 1 \in 1 .. Len(ms) /\ j \in 0 .. n - 1
    BY <1>7
  <2>3. r = x \o b
    BY <1>8, <2>1, <2>2
  <2>4. Good(ms, j, x)
    BY <1>11, <2>1
  <2>5. /\ Plain(b) \/ \E q : Pairs(b, q)
        /\ Whole(ms) => Stays(ms, j + 1, b)
    BY <1>4, <2>1, <2>2
  <2>6. x \in Seq(Msg) /\ Whole(x)
    BY <2>4 DEF Good
  <2>7. r \in Seq(Msg) /\ Whole(r)
    BY <2>3, <2>5, <2>6, BlockKeeps
  <2>8. ASSUME Whole(ms) PROVE \E f : Reaches(ms, j + 1, f, r)
    <3>1. PICK e : Reaches(ms, j, e, x)
      BY <2>4, <2>8 DEF Good
    <3>2. ms[j + 1].calls # <<>> => ms[j + 1].kind = "calls"
      BY <1>1, <2>2 DEF Sorted
    <3>3. Stays(ms, j + 1, b) /\ j + 1 <= Len(ms)
      BY <1>7, <2>5, <2>8
    <3>. QED
      BY <1>1, <2>3, <2>8, <3>1, <3>2, <3>3, ReachesOn
  <2>9. Good(ms, j + 1, r)
    BY <2>7, <2>8 DEF Good
  <2>. QED
    BY <2>1, <2>9
<1>12. Nat \subseteq S
  <2>. HIDE DEF S
  <2>. QED
    BY <1>10, <1>11, UpToAll
<1>13. Good(ms, n, out)
  BY <1>9, <1>12
<1>14. ASSUME Whole(ms) PROVE out = ms
  <2>1. PICK e : Reaches(ms, n, e, out)
    BY <1>13, <1>14 DEF Good
  <2>2. e = n /\ out \in Seq(Msg) /\ Len(out) = n /\ \A k \in 1 .. n : out[k] = ms[k]
    BY <1>7, <2>1 DEF Reaches
  <2>. QED
    BY <1>1, <1>7, <2>2
<1>. QED
  BY <1>13, <1>14 DEF Good

(* What a request carries is paired whatever the user has removed, and it  *)
(* carries every pair that is still whole (ai.lua:959-1002).               *)
THEOREM SentPaired == Spec => []SentIsPaired
<1>1. TurnInv => SentIsPaired
  <2>. SUFFICES ASSUME TurnInv PROVE SentIsPaired
    OBVIOUS
  <2>1. InHand /\ Sorted(messages, Behind)
    BY DEF TurnInv
  <2>2. PICK top \in Nat : top = Behind
    BY <2>1, AheadNat
  <2>3. PICK ms, out : ms = messages /\ out = Turn!Sanitize(messages)
    OBVIOUS
  <2>4. Whole(out) /\ (Whole(ms) => out = ms)
    BY <2>1, <2>2, <2>3, SanitizeIs
  <2>. QED
    BY <2>3, <2>4 DEF SentIsPaired, Turn!SentIsPaired, Whole
<1>. QED
  BY <1>1, TurnHolds, PTL

-----------------------------------------------------------------------------
(* The search.  A list of rows, each once.                                 *)
Once(s)   == s \in Seq(Finder!Docs) /\ \A i, j \in 1 .. Len(s) : s[i] = s[j] => i = j
Within(s, S) == \A i \in 1 .. Len(s) : s[i] \in S

LEMMA RangeIs ==
  ASSUME NEW s, Once(s)
  PROVE  /\ \A d : d \in Finder!Range(s) <=> \E i \in 1 .. Len(s) : s[i] = d
         /\ \A S : Within(s, S) <=> Finder!Range(s) \subseteq S
<1>1. DOMAIN s = 1 .. Len(s)
  BY DEF Once
<1>. QED
  BY <1>1 DEF Finder!Range, Within

LEMMA FirstIs ==
  ASSUME NEW s, Once(s), NEW n \in Nat
  PROVE  /\ Once(Finder!First(n, s))
         /\ Len(Finder!First(n, s)) = IF n < Len(s) THEN n ELSE Len(s)
         /\ \A i \in 1 .. Len(Finder!First(n, s)) : i \in 1 .. Len(s) /\ Finder!First(n, s)[i] = s[i]
<1>1. PICK m : m = IF n < Len(s) THEN n ELSE Len(s)
  OBVIOUS
<1>2. Len(s) \in Nat /\ m \in Nat /\ m <= Len(s)
  BY <1>1 DEF Once
<1>3. \A i \in 1 .. m : s[i] \in Finder!Docs
  BY <1>2 DEF Once
<1>4. PICK t : t = SubSeq(s, 1, m)
  OBVIOUS
<1>5. /\ t \in Seq(Finder!Docs)
      /\ Len(t) = IF 1 <= m THEN m - 1 + 1 ELSE 0
      /\ \A i \in 1 .. m - 1 + 1 : t[i] = s[1 + i - 1]
  BY <1>2, <1>3, <1>4, SubSeqProperties
<1>6. Len(t) = m
  BY <1>2, <1>5
<1>7. \A i \in 1 .. m : i \in 1 .. Len(s) /\ i \in 1 .. m - 1 + 1 /\ 1 + i - 1 = i
  BY <1>2
<1>8. \A i \in 1 .. m : i \in 1 .. Len(s) /\ t[i] = s[i]
  BY <1>5, <1>7
<1>9. Once(t)
  BY <1>5, <1>6, <1>8 DEF Once
<1>10. Finder!First(n, s) = t
  BY <1>1, <1>4 DEF Finder!First
<1>. QED
  BY <1>1, <1>6, <1>8, <1>9, <1>10

IsUpTo(f, s, S, n) ==
  f = [k \in 0 .. n |-> IF k = 0 THEN <<>> ELSE IF s[k] \in S THEN Append(f[k - 1], s[k]) ELSE f[k - 1]]

LEMMA UpToExists ==
  ASSUME NEW s, NEW S, NEW n \in Nat
  PROVE  \E f : IsUpTo(f, s, S, n)
<1>. DEFINE Reached == {k \in Nat : \E f : IsUpTo(f, s, S, k)}
<1>1. 0 \in Reached
  <2>1. PICK f : f = [k \in {0} |-> <<>>]
    OBVIOUS
  <2>2. 0 .. 0 = {0}
    OBVIOUS
  <2>3. IsUpTo(f, s, S, 0)
    BY <2>1, <2>2 DEF IsUpTo
  <2>. QED
    BY <2>3
<1>2. ASSUME NEW k \in Nat, k \in Reached PROVE k + 1 \in Reached
  <2>1. PICK f : IsUpTo(f, s, S, k)
    BY <1>2
  <2>2. PICK g : g = [i \in 0 .. k + 1 |->
                       IF i = k + 1 THEN (IF s[i] \in S THEN Append(f[i - 1], s[i]) ELSE f[i - 1]) ELSE f[i]]
    OBVIOUS
  <2>3. \A i \in 0 .. k + 1 : i # k + 1 => i \in 0 .. k /\ g[i] = f[i]
    BY <2>2
  <2>4. \A i \in 0 .. k : f[i] = IF i = 0 THEN <<>> ELSE IF s[i] \in S THEN Append(f[i - 1], s[i]) ELSE f[i - 1]
    BY <2>1 DEF IsUpTo
  <2>5. \A i \in 0 .. k + 1 : i # 0 => i - 1 \in 0 .. k /\ g[i - 1] = f[i - 1]
    BY <2>2
  <2>6. \A i \in 0 .. k + 1 : g[i] = IF i = 0 THEN <<>> ELSE IF s[i] \in S THEN Append(g[i - 1], s[i]) ELSE g[i - 1]
    BY <2>2, <2>3, <2>4, <2>5
  <2>7. g = [i \in 0 .. k + 1 |-> g[i]]
    BY <2>2
  <2>8. IsUpTo(g, s, S, k + 1)
    BY <2>6, <2>7 DEF IsUpTo
  <2>. QED
    BY <2>8
<1>3. Nat \subseteq Reached
  <2>. HIDE DEF Reached
  <2>. QED
    BY <1>1, <1>2, UpToAll
<1>. QED
  BY <1>3

(* Of a list, the rows in S: a list of no other rows, and no longer.       *)
LEMMA AmongIs ==
  ASSUME NEW s, Once(s), NEW S
  PROVE  /\ Once(Finder!Among(s, S))
         /\ Within(Finder!Among(s, S), S)
         /\ Len(Finder!Among(s, S)) <= Len(s)
<1>1. PICK n \in Nat : n = Len(s)
  BY DEF Once
<1>2. PICK f : f = CHOOSE g : IsUpTo(g, s, S, n)
  OBVIOUS
<1>3. IsUpTo(f, s, S, n)
  BY <1>2, UpToExists
<1>4. Finder!Among(s, S) = f[n]
  BY <1>1, <1>2 DEF Finder!Among, IsUpTo
<1>5. \A k \in 0 .. n : f[k] = IF k = 0 THEN <<>> ELSE IF s[k] \in S THEN Append(f[k - 1], s[k]) ELSE f[k - 1]
  BY <1>3 DEF IsUpTo
<1>6. \A i \in 1 .. n : s[i] \in Finder!Docs
  BY <1>1 DEF Once
<1>7. \A i, j \in 1 .. n : s[i] = s[j] => i = j
  BY <1>1 DEF Once
<1>. DEFINE Fine(t, k) == /\ t \in Seq(Finder!Docs) /\ Len(t) <= k
                          /\ \A i \in 1 .. Len(t) : t[i] \in S /\ \E j \in 1 .. k : t[i] = s[j]
                          /\ \A i, j \in 1 .. Len(t) : t[i] = t[j] => i = j
            Reached == {k \in Nat : k <= n => Fine(f[k], k)}
<1>8. 0 \in Reached
  <2>1. 0 \in 0 .. n
    OBVIOUS
  <2>2. f[0] = <<>>
    BY <1>5, <2>1
  <2>3. PICK e \in Seq(Finder!Docs) : e = <<>> /\ Len(e) = 0
    <3>1. <<>> \in Seq(Finder!Docs) /\ Len(<<>>) = 0
      OBVIOUS
    <3>. QED
      BY <3>1
  <2>4. 1 .. Len(e) = {} /\ Len(e) <= 0
    BY <2>3
  <2>5. Fine(e, 0)
    BY <2>4
  <2>6. Fine(f[0], 0)
    <3>. HIDE DEF Fine
    <3>. QED
      BY <2>2, <2>3, <2>5
  <2>. QED
    BY <2>6
<1>9. ASSUME NEW k \in Nat, k \in Reached PROVE k + 1 \in Reached
  <2>. SUFFICES ASSUME k + 1 <= n PROVE Fine(f[k + 1], k + 1)
    OBVIOUS
  <2>1. PICK t : t = f[k]
    OBVIOUS
  <2>2. Fine(t, k)
    BY <1>9, <2>1
  <2>3. k + 1 \in 0 .. n /\ k + 1 # 0 /\ (k + 1) - 1 = k /\ k + 1 \in 1 .. n
    OBVIOUS
  <2>4. PICK d \in Finder!Docs : d = s[k + 1]
    BY <1>6, <2>3
  <2>5. f[k + 1] = IF d \in S THEN Append(t, d) ELSE t
    BY <1>5, <2>1, <2>3, <2>4
  <2>6. \A j \in 1 .. k : j \in 1 .. k + 1 /\ j \in 1 .. n /\ s[j] # d
    BY <1>7, <2>3, <2>4
  <2>7. CASE d \notin S
    <3>1. Fine(t, k + 1)
      BY <2>2, <2>6
    <3>. QED
      BY <2>5, <2>7, <3>1
  <2>8. CASE d \in S
    <3>1. PICK u : u = Append(t, d)
      OBVIOUS
    <3>2. PICK m \in Nat : m = Len(t)
      BY <2>2
    <3>3. u \in Seq(Finder!Docs) /\ Len(u) = m + 1
      BY <2>2, <2>4, <3>1, <3>2
    <3>4. u[m + 1] = d /\ \A i \in 1 .. m : u[i] = t[i]
      BY <2>2, <2>4, <3>1, <3>2
    <3>5. \A i \in 1 .. m + 1 : i \in 1 .. m \/ i = m + 1
      OBVIOUS
    <3>6. \A i \in 1 .. m : t[i] # d
      BY <2>2, <2>6, <3>2
    <3>7. \A i, j \in 1 .. m + 1 : u[i] = u[j] => i = j
      BY <2>2, <3>2, <3>4, <3>5, <3>6
    <3>8. \A i \in 1 .. m + 1 : u[i] \in S /\ \E j \in 1 .. k + 1 : u[i] = s[j]
      <4>1. k + 1 \in 1 .. k + 1
        OBVIOUS
      <4>2. \A i \in 1 .. m : u[i] \in S /\ \E j \in 1 .. k + 1 : u[i] = s[j]
        BY <2>2, <2>6, <3>2, <3>4
      <4>3. u[m + 1] \in S /\ \E j \in 1 .. k + 1 : u[m + 1] = s[j]
        BY <2>4, <2>8, <3>4, <4>1
      <4>. QED
        BY <3>5, <4>2, <4>3
    <3>9. Len(u) <= k + 1
      BY <2>2, <3>2, <3>3
    <3>10. Fine(u, k + 1)
      BY <3>3, <3>7, <3>8, <3>9
    <3>11. f[k + 1] = u
      BY <2>5, <2>8, <3>1
    <3>. QED
      <4>. HIDE DEF Fine
      <4>. QED
        BY <3>10, <3>11
  <2>. QED
    BY <2>7, <2>8
<1>10. Fine(f[n], n)
  <2>1. Nat \subseteq Reached
    <3>. HIDE DEF Reached
    <3>. QED
      BY <1>8, <1>9, UpToAll
  <2>. QED
    BY <2>1
<1>. QED
  BY <1>1, <1>4, <1>10 DEF Once, Within

(* The lists and the page: each pass has listed rows there are or, if they *)
(* have gone since, were.                                                  *)
Listed(s) == Once(s) /\ Len(s) <= Finder!Pool /\ Within(s, live \cup gone)
Question  == ask.limit \in Limits /\ Once(ask.words) /\ Once(ask.near)
Places    == {"words", "model", "vector", "near", "fuse", "done"}

SearchInv ==
  /\ Question
  /\ at \in Places
  /\ at = "words" => lex = <<>> /\ sem = <<>>
  /\ Listed(lex) /\ Listed(sem)
  /\ at = "done" => \E s \in Finder!Rrf : page = Finder!First(ask.limit, s)

Finite == Limits \subseteq Nat \ {0} /\ K \in Nat \ {0} /\ IsFiniteSet(Finder!Docs)

LEMMA DocsAreFinite == Finite
BY AssistantAssumption DEF Finite, Finder!Docs

LEMMA CountIsCardinality == \A S : Finder!Cardinality(S) = Cardinality(S)
BY Zenon DEF Finder!Cardinality, Cardinality

(* An order of a set lists each member once.                               *)
LEMMA RankedIs ==
  ASSUME Finite, NEW S, S \subseteq Finder!Docs, NEW s \in Finder!Ranked(S)
  PROVE  /\ Once(s) /\ Len(s) = Cardinality(S) /\ Within(s, S)
         /\ \A d \in S : \E i \in 1 .. Len(s) : s[i] = d
<1>1. IsFiniteSet(S) /\ Cardinality(S) \in Nat
  BY FS_Subset, FS_CardinalityType DEF Finite
<1>2. PICK n \in Nat : n = Cardinality(S)
  BY <1>1
<1>3. s \in [1 .. n -> S] /\ Finder!Range(s) = S
  <2>1. s \in {r \in [1 .. Cardinality(S) -> S] : Finder!Range(r) = S}
    BY CountIsCardinality, Zenon DEF Finder!Ranked
  <2>2. s \in [1 .. Cardinality(S) -> S] /\ Finder!Range(s) = S
    BY <2>1, Zenon
  <2>. QED
    BY <1>2, <2>2
<1>4. s \in Seq(S) /\ Len(s) = n
  BY <1>2, <1>3
<1>5. s \in Seq(Finder!Docs)
  BY <1>3, <1>4
<1>6. \A d \in S : \E i \in 1 .. n : s[i] = d
  BY <1>3 DEF Finder!Range
<1>7. \A i, j \in 1 .. n : s[i] = s[j] => i = j
  <2>1. IsFiniteSet(1 .. n) /\ Cardinality(1 .. n) = n
    BY FS_Interval
  <2>2. s \in Surjection(1 .. n, S)
    BY <1>3, <1>6 DEF Surjection
  <2>3. s \in Injection(1 .. n, S)
    BY <1>2, <2>1, <2>2, FS_SurjSameCardinalityImpliesInj
  <2>. QED
    BY <2>3 DEF Injection, IsInjective
<1>. QED
  BY <1>2, <1>3, <1>4, <1>5, <1>6, <1>7 DEF Once, Within

LEMMA EmptyIs == \A S : Once(<<>>) /\ Len(<<>>) = 0 /\ Within(<<>>, S)
<1>1. PICK e \in Seq(Finder!Docs) : e = <<>> /\ Len(e) = 0
  <2>1. <<>> \in Seq(Finder!Docs) /\ Len(<<>>) = 0
    OBVIOUS
  <2>. QED
    BY <2>1
<1>2. 1 .. Len(e) = {}
  BY <1>1
<1>. QED
  BY <1>1, <1>2 DEF Once, Within

LEMMA SearchStarts == Finite /\ Finder!Init => SearchInv
<1>. SUFFICES ASSUME Finite, Finder!Init PROVE SearchInv
  OBVIOUS
<1>1. PICK words \in Finder!Rank, near \in Finder!Orders, wanted \in SUBSET Finder!Kinds,
               limit \in Limits, neural \in {{}, Notes, Finder!Docs} :
        ask = [kinds |-> Finder!ParseKinds(wanted), limit |-> limit, words |-> words, near |-> near, neural |-> neural]
  BY DEF Finder!Init
<1>2. ask.limit = limit /\ ask.words = words /\ ask.near = near
  BY <1>1
<1>3. Once(words)
  BY RankedIs DEF Finder!Rank
<1>4. Once(near)
  BY RankedIs DEF Finder!Orders
<1>5. at = "words" /\ lex = <<>> /\ sem = <<>>
  BY DEF Finder!Init
<1>6. "words" \in Places /\ "words" # "done"
  BY DEF Places
<1>7. 0 <= Finder!Pool
  BY <1>2 DEF Finder!Pool, Finite
<1>8. Listed(<<>>)
  BY <1>7, EmptyIs DEF Listed
<1>. QED
  BY <1>2, <1>3, <1>4, <1>5, <1>6, <1>8 DEF SearchInv, Question

LEMMA PoolIs == Finite /\ Question => Finder!Pool \in Nat
<1>. SUFFICES ASSUME Finite, Question PROVE Finder!Pool \in Nat
  OBVIOUS
<1>1. PICK n \in Nat : n = ask.limit
  BY DEF Finite, Question
<1>. QED
  BY <1>1 DEF Finder!Pool

LEMMA WordsListed == Finite /\ Question => Listed(Finder!Bm25)
<1>. SUFFICES ASSUME Finite, Question PROVE Listed(Finder!Bm25)
  OBVIOUS
<1>1. PICK p \in Nat : p = Finder!Pool
  BY PoolIs
<1>2. PICK hits : hits = UNION {Finder!Range(Finder!FtsHits(k)) : k \in ask.kinds}
  OBVIOUS
<1>3. Once(ask.words)
  BY DEF Question
<1>4. \A S : S \subseteq live => \A d \in Finder!Range(Finder!First(p, Finder!Among(ask.words, S))) : d \in live
  <2>. SUFFICES ASSUME NEW S, S \subseteq live PROVE Within(Finder!First(p, Finder!Among(ask.words, S)), live) /\ Once(Finder!First(p, Finder!Among(ask.words, S)))
    BY RangeIs
  <2>1. PICK t : t = Finder!Among(ask.words, S)
    OBVIOUS
  <2>2. Once(t) /\ Within(t, S)
    BY <1>3, <2>1, AmongIs
  <2>3. PICK u : u = Finder!First(p, t)
    OBVIOUS
  <2>4. Once(u) /\ \A i \in 1 .. Len(u) : i \in 1 .. Len(t) /\ u[i] = t[i]
    BY <2>2, <2>3, FirstIs
  <2>5. Within(u, live)
    BY <2>2, <2>4 DEF Within
  <2>. QED
    BY <2>1, <2>3, <2>4, <2>5
<1>5. \A k : Finder!FtsHits(k) = Finder!First(p, Finder!Among(ask.words, live \cap k))
  BY <1>1 DEF Finder!FtsHits
<1>6. hits \subseteq live
  <2>1. \A k : live \cap k \subseteq live
    OBVIOUS
  <2>2. \A k : \A d \in Finder!Range(Finder!FtsHits(k)) : d \in live
    BY <1>4, <1>5, <2>1
  <2>. QED
    BY <1>2, <2>2
<1>7. PICK t : t = Finder!Among(ask.words, hits)
  OBVIOUS
<1>8. Once(t) /\ Within(t, hits)
  BY <1>3, <1>7, AmongIs
<1>9. PICK u : u = Finder!First(p, t)
  OBVIOUS
<1>10. /\ Once(u) /\ Len(u) = IF p < Len(t) THEN p ELSE Len(t)
       /\ \A i \in 1 .. Len(u) : i \in 1 .. Len(t) /\ u[i] = t[i]
  BY <1>8, <1>9, FirstIs
<1>11. Len(t) \in Nat
  BY <1>8 DEF Once
<1>12. Len(u) <= p
  BY <1>10, <1>11
<1>13. Within(u, live \cup gone)
  BY <1>6, <1>8, <1>10 DEF Within
<1>14. Finder!Bm25 = u
  BY <1>1, <1>2, <1>7, <1>9 DEF Finder!Bm25
<1>. QED
  BY <1>1, <1>10, <1>12, <1>13, <1>14 DEF Listed

LEMMA NearListed == Finite /\ Question => Listed(Finder!Describe(Finder!First(Finder!Pool, Finder!Scored)))
<1>. SUFFICES ASSUME Finite, Question PROVE Listed(Finder!Describe(Finder!First(Finder!Pool, Finder!Scored)))
  OBVIOUS
<1>1. PICK p \in Nat : p = Finder!Pool
  BY PoolIs
<1>2. PICK t : t = Finder!Scored
  OBVIOUS
<1>3. Once(t)
  <2>1. \A S : Once(Finder!Among(ask.near, S))
    BY AmongIs DEF Question
  <2>2. PICK S : t = Finder!Among(ask.near, S) \/ t = <<>>
    BY <1>2 DEF Finder!Scored
  <2>. QED
    BY <2>1, <2>2, EmptyIs
<1>4. PICK u : u = Finder!First(p, t)
  OBVIOUS
<1>5. Once(u) /\ Len(u) = IF p < Len(t) THEN p ELSE Len(t)
  BY <1>3, <1>4, FirstIs
<1>6. PICK v : v = Finder!Among(u, live)
  OBVIOUS
<1>7. Once(v) /\ Within(v, live) /\ Len(v) <= Len(u)
  BY <1>5, <1>6, AmongIs
<1>8. Len(t) \in Nat /\ Len(u) \in Nat /\ Len(v) \in Nat
  BY <1>3, <1>5, <1>7 DEF Once
<1>9. Len(v) <= p
  BY <1>5, <1>7, <1>8
<1>10. Within(v, live \cup gone)
  BY <1>7 DEF Within
<1>11. Finder!Describe(Finder!First(Finder!Pool, Finder!Scored)) = v
  BY <1>1, <1>2, <1>4, <1>6 DEF Finder!Describe
<1>. QED
  BY <1>1, <1>7, <1>9, <1>10, <1>11 DEF Listed

LEMMA PageStays ==
  ASSUME SearchInv, UNCHANGED <<at, ask, lex, sem, page>>
  PROVE  (at = "done" => \E s \in Finder!Rrf : page = Finder!First(ask.limit, s))'
<1>1. Finder!Rrf' = Finder!Rrf
  BY DEF Finder!Rrf, Finder!Higher, Finder!Score, Finder!Contribution, Finder!IndexIn
<1>2. \A s : page = Finder!First(ask.limit, s) => page' = Finder!First(ask'.limit, s)
  OBVIOUS
<1>3. at = "done" => \E s \in Finder!Rrf : page' = Finder!First(ask'.limit, s)
  BY <1>2 DEF SearchInv
<1>. QED
  BY <1>1, <1>3 DEF Finder!First

LEMMA SearchGoesOn == Finite /\ SearchInv /\ [Finder!Next]_(Finder!vars) => SearchInv'
<1>. SUFFICES ASSUME Finite, SearchInv, [Finder!Next]_(Finder!vars) PROVE SearchInv'
  OBVIOUS
<1>1. /\ Question /\ at \in Places /\ (at = "words" => lex = <<>> /\ sem = <<>>)
      /\ Listed(lex) /\ Listed(sem)
  BY DEF SearchInv
<1>2. UNCHANGED ask
  BY DEF Finder!Next, Finder!vars, Finder!Delete, Finder!Switch, Finder!LookUp, Finder!ReadModel, Finder!QueryVec,
         Finder!Near, Finder!Fuse
<1>3. Question' /\ Finder!Pool' = Finder!Pool
  BY <1>1, <1>2 DEF Question, Finder!Pool, Once, Finder!Docs
(* rows that go are gone *)
<1>4. ASSUME live \cup gone \subseteq live' \cup gone', NEW s, Listed(s)
      PROVE  Once(s) /\ Len(s) <= Finder!Pool' /\ Within(s, live' \cup gone')
  BY <1>3, <1>4 DEF Listed, Within
<1>5. ASSUME lex' = lex, live \cup gone \subseteq live' \cup gone' PROVE Listed(lex)'
  <2>1. Once(lex) /\ Len(lex) <= Finder!Pool' /\ Within(lex, live' \cup gone')
    BY <1>1, <1>5, <1>4
  <2>. QED
    BY <1>5, <2>1 DEF Listed, Once, Within, Finder!Docs
<1>6. ASSUME sem' = sem, live \cup gone \subseteq live' \cup gone' PROVE Listed(sem)'
  <2>1. Once(sem) /\ Len(sem) <= Finder!Pool' /\ Within(sem, live' \cup gone')
    BY <1>1, <1>6, <1>4
  <2>. QED
    BY <1>6, <2>1 DEF Listed, Once, Within, Finder!Docs
<1>7. ASSUME NEW d \in Finder!Docs, Finder!Delete(d) PROVE SearchInv'
  <2>1. UNCHANGED <<at, ask, lex, sem, page>> /\ live' = live \ {d} /\ gone' = (IF at = "words" THEN gone ELSE gone \cup {d})
    BY <1>7 DEF Finder!Delete
  <2>2. CASE at = "words"
    <3>1. lex' = <<>> /\ sem' = <<>>
      BY <1>1, <2>1, <2>2
    <3>2. 0 <= Finder!Pool'
      BY <1>1, <1>3, PoolIs
    <3>3. Once(<<>>) /\ Len(<<>>) <= Finder!Pool' /\ Within(<<>>, live' \cup gone')
      BY <3>2, EmptyIs
    <3>4. Listed(lex)' /\ Listed(sem)'
      BY <3>1, <3>3 DEF Listed, Once, Within, Finder!Docs
    <3>. QED
      BY <1>1, <1>3, <2>1, <3>1, <3>4, PageStays DEF SearchInv
  <2>3. CASE at # "words"
    <3>1. live \cup gone \subseteq live' \cup gone'
      BY <2>1, <2>3
    <3>2. Listed(lex)' /\ Listed(sem)'
      BY <1>5, <1>6, <2>1, <3>1
    <3>. QED
      BY <1>1, <1>3, <2>1, <2>3, <3>2, PageStays DEF SearchInv
  <2>. QED
    BY <2>2, <2>3
<1>8. ASSUME UNCHANGED <<at, ask, lex, sem, page, live, gone>> PROVE SearchInv'
  BY <1>1, <1>3, <1>5, <1>6, <1>8, PageStays DEF SearchInv
<1>9. CASE Finder!LookUp
  <2>1. at' = "model" /\ UNCHANGED <<sem, live, gone>> /\ lex' = Finder!Bm25
    BY <1>9 DEF Finder!LookUp
  <2>2. PICK s : s = Finder!Bm25
    OBVIOUS
  <2>3. Once(s) /\ Len(s) <= Finder!Pool' /\ Within(s, live' \cup gone')
    BY <1>1, <1>3, <2>1, <2>2, WordsListed DEF Listed
  <2>4. lex' = s
    BY <2>1, <2>2
  <2>5. Listed(lex)'
    BY <2>3, <2>4 DEF Listed, Once, Within, Finder!Docs
  <2>6. Listed(sem)'
    BY <1>6, <2>1
  <2>. QED
    BY <1>3, <2>1, <2>5, <2>6 DEF SearchInv, Places
<1>10. CASE Finder!ReadModel
  <2>1. at' = "vector" /\ UNCHANGED <<lex, sem, live, gone>>
    BY <1>10 DEF Finder!ReadModel
  <2>. QED
    BY <1>3, <1>5, <1>6, <2>1 DEF SearchInv, Places
<1>11. CASE Finder!QueryVec
  <2>1. at' \in {"near", "fuse"} /\ UNCHANGED <<lex, sem, live, gone>>
    BY <1>11 DEF Finder!QueryVec
  <2>. QED
    BY <1>3, <1>5, <1>6, <2>1 DEF SearchInv, Places
<1>12. CASE Finder!Near
  <2>1. at' = "fuse" /\ UNCHANGED <<lex, live, gone>> /\ sem' = Finder!Describe(Finder!First(Finder!Pool, Finder!Scored))
    BY <1>12 DEF Finder!Near
  <2>2. PICK s : s = Finder!Describe(Finder!First(Finder!Pool, Finder!Scored))
    OBVIOUS
  <2>3. Once(s) /\ Len(s) <= Finder!Pool' /\ Within(s, live' \cup gone')
    BY <1>1, <1>3, <2>1, <2>2, NearListed DEF Listed
  <2>4. sem' = s
    BY <2>1, <2>2
  <2>5. Listed(sem)'
    BY <2>3, <2>4 DEF Listed, Once, Within, Finder!Docs
  <2>6. Listed(lex)'
    BY <1>5, <2>1
  <2>. QED
    BY <1>3, <2>1, <2>5, <2>6 DEF SearchInv, Places
<1>13. CASE Finder!Fuse
  <2>1. at' = "done" /\ UNCHANGED <<lex, sem, live, gone>>
    BY <1>13 DEF Finder!Fuse
  <2>2. PICK s \in Finder!Rrf : page' = Finder!First(ask.limit, s)
    BY <1>13 DEF Finder!Fuse
  <2>3. Finder!Rrf' = Finder!Rrf
    BY <2>1 DEF Finder!Rrf, Finder!Higher, Finder!Score, Finder!Contribution, Finder!IndexIn
  <2>4. \E z \in Finder!Rrf : page' = Finder!First(ask'.limit, z)
    BY <1>2, <2>2
  <2>5. (at = "done" => \E z \in Finder!Rrf : page = Finder!First(ask.limit, z))'
    BY <2>3, <2>4 DEF Finder!First
  <2>. QED
    BY <1>3, <1>5, <1>6, <2>1, <2>5 DEF SearchInv, Places
<1>14. CASE Finder!Switch
  BY <1>8, <1>14 DEF Finder!Switch
<1>15. CASE UNCHANGED Finder!vars
  BY <1>8, <1>15 DEF Finder!vars
<1>. QED
  BY <1>7, <1>9, <1>10, <1>11, <1>12, <1>13, <1>14, <1>15 DEF Finder!Next

LEMMA IndexIs ==
  ASSUME NEW s, Once(s), NEW i \in 1 .. Len(s)
  PROVE  Finder!IndexIn(s, s[i]) = i
<1>1. \A j \in 1 .. Len(s) : s[j] = s[i] => j = i
  BY DEF Once
<1>. QED
  BY <1>1 DEF Finder!IndexIn

LEMMA IndexFound ==
  ASSUME NEW s, Once(s), NEW d \in Finder!Range(s)
  PROVE  Finder!IndexIn(s, d) \in 1 .. Len(s)
<1>1. PICK i \in 1 .. Len(s) : s[i] = d
  BY RangeIs
<1>. QED
  BY <1>1, IndexIs

(* What is in both lists has more than what is in one, as long as both     *)
(* contributions are more than half of any one.                            *)
LEMMA TwoOutweighOne ==
  ASSUME NEW c \in Nat, NEW x \in Nat, NEW y \in Nat, NEW z \in Nat,
         c > 0, x >= c, y >= c, z >= c, x < 2 * c, y < 2 * c
  PROVE  (y + x) * z > x * y
<1>1. (y + x) * z >= (y + x) * c
  <2>1. PICK e \in Nat : z = c + e
    <3>1. z - c \in Nat /\ z = c + (z - c)
      OBVIOUS
    <3>. QED
      BY <3>1
  <2>2. (y + x) * (c + e) = (y + x) * c + (y + x) * e
    OBVIOUS
  <2>3. (y + x) * e >= 0 /\ (y + x) * c \in Nat
    OBVIOUS
  <2>. QED
    BY <2>1, <2>2, <2>3
<1>2. x * y < 2 * (x * c)
  <2>1. PICK e \in Nat : y + e = 2 * c /\ e >= 1
    <3>1. 2 * c - y \in Nat /\ y + (2 * c - y) = 2 * c /\ 2 * c - y >= 1
      OBVIOUS
    <3>. QED
      BY <3>1
  <2>2. x * (y + e) = x * y + x * e /\ x * (2 * c) = 2 * (x * c)
    OBVIOUS
  <2>3. x * e >= 1
    BY <2>1
  <2>. QED
    BY <2>1, <2>2, <2>3
<1>3. x * y < 2 * (y * c)
  <2>1. PICK e \in Nat : x + e = 2 * c /\ e >= 1
    <3>1. 2 * c - x \in Nat /\ x + (2 * c - x) = 2 * c /\ 2 * c - x >= 1
      OBVIOUS
    <3>. QED
      BY <3>1
  <2>2. y * (x + e) = x * y + y * e /\ y * (2 * c) = 2 * (y * c)
    OBVIOUS
  <2>3. y * e >= 1
    BY <2>1
  <2>. QED
    BY <2>1, <2>2, <2>3
<1>4. (y + x) * c = y * c + x * c
  OBVIOUS
<1>5. PICK a \in Nat, b \in Nat, d \in Nat, g \in Nat : a = x * y /\ b = x * c /\ d = y * c /\ g = (y + x) * z
  OBVIOUS
<1>. QED
  BY <1>1, <1>2, <1>3, <1>4, <1>5

LEMMA BothScore ==
  ASSUME Finite, Once(lex), Once(sem), NEW d \in Finder!Both
  PROVE  \E x, y \in Nat : /\ x - K \in 1 .. Len(lex) /\ y - K \in 1 .. Len(sem)
                           /\ Finder!Score(d).num = y + x /\ Finder!Score(d).den = x * y
<1>1. d \in Finder!Range(lex) /\ d \in Finder!Range(sem)
  BY DEF Finder!Both
<1>2. PICK i \in 1 .. Len(lex), j \in 1 .. Len(sem) : i = Finder!IndexIn(lex, d) /\ j = Finder!IndexIn(sem, d)
  BY <1>1, IndexFound
<1>3. PICK x \in Nat, y \in Nat : x = K + i /\ y = K + j
  BY DEF Finite
<1>4. Finder!Contribution(lex, d) = [num |-> 1, den |-> x] /\ Finder!Contribution(sem, d) = [num |-> 1, den |-> y]
  BY <1>1, <1>2, <1>3 DEF Finder!Contribution
<1>5. Finder!Score(d) = [num |-> 1 * y + 1 * x, den |-> x * y]
  BY <1>4 DEF Finder!Score
<1>6. x - K = i /\ y - K = j /\ 1 * y + 1 * x = y + x
  BY <1>3 DEF Finite
<1>. QED
  BY <1>5, <1>6

LEMMA OneScores ==
  ASSUME Finite, Once(lex), Once(sem), NEW s \in {lex, sem}, NEW i \in 1 .. Len(s), s[i] \notin Finder!Both
  PROVE  Finder!Score(s[i]).num = 1 /\ Finder!Score(s[i]).den = K + i
<1>1. PICK d : d = s[i]
  OBVIOUS
<1>2. d \in Finder!Range(s)
  BY <1>1, RangeIs
<1>3. PICK z \in Nat : z = K + i
  BY DEF Finite, Once
<1>4. Finder!Contribution(s, d) = [num |-> 1, den |-> z]
  BY <1>1, <1>2, <1>3, IndexIs DEF Finder!Contribution
<1>5. CASE s = lex
  <2>1. d \notin Finder!Range(sem)
    BY <1>1, <1>2, <1>5 DEF Finder!Both
  <2>2. Finder!Contribution(sem, d) = [num |-> 0, den |-> 1]
    BY <2>1 DEF Finder!Contribution
  <2>3. Finder!Score(d) = [num |-> 1 * 1 + 0 * z, den |-> z * 1]
    BY <1>4, <1>5, <2>2 DEF Finder!Score
  <2>4. 1 * 1 + 0 * z = 1 /\ z * 1 = z
    OBVIOUS
  <2>. QED
    BY <1>1, <1>3, <2>3, <2>4
<1>6. CASE s = sem
  <2>1. d \notin Finder!Range(lex)
    <3>1. d \in Finder!Range(lex) => d \in Finder!Both
      BY <1>2, <1>6 DEF Finder!Both
    <3>. QED
      BY <1>1, <3>1
  <2>2. Finder!Contribution(lex, d) = [num |-> 0, den |-> 1]
    BY <2>1 DEF Finder!Contribution
  <2>3. Finder!Score(d) = [num |-> 0 * z + 1 * 1, den |-> 1 * z]
    BY <1>4, <1>6, <2>2 DEF Finder!Score
  <2>4. 0 * z + 1 * 1 = 1 /\ 1 * z = z
    OBVIOUS
  <2>. QED
    BY <1>1, <1>3, <2>3, <2>4
<1>. QED
  BY <1>5, <1>6

LEMMA BothAreHigher ==
  ASSUME Finite, Question, Listed(lex), Listed(sem), Finder!Pool < K + 2,
         NEW a \in Finder!Both, NEW b \in Finder!Found \ Finder!Both
  PROVE  Finder!Higher(a, b)
<1>1. PICK p \in Nat : p = Finder!Pool
  BY PoolIs
<1>2. Once(lex) /\ Once(sem) /\ Len(lex) \in Nat /\ Len(sem) \in Nat /\ Len(lex) <= p /\ Len(sem) <= p /\ p < K + 2
  BY <1>1 DEF Listed, Once
<1>3. PICK x \in Nat, y \in Nat : /\ x - K \in 1 .. Len(lex) /\ y - K \in 1 .. Len(sem)
                                  /\ Finder!Score(a).num = y + x /\ Finder!Score(a).den = x * y
  BY <1>2, BothScore
<1>4. PICK s \in {lex, sem} : b \in Finder!Range(s)
  BY DEF Finder!Found
<1>5. PICK i \in 1 .. Len(s) : s[i] = b
  BY <1>2, <1>4, RangeIs
<1>6. Finder!Score(b).num = 1 /\ Finder!Score(b).den = K + i
  BY <1>2, <1>5, OneScores
<1>7. i \in Nat /\ i >= 1
  BY <1>2, <1>5
<1>8. K \in Nat /\ K > 0
  BY DEF Finite
<1>9. PICK c \in Nat, z \in Nat : c = K + 1 /\ z = K + i
  BY <1>7, <1>8
<1>10. c > 0 /\ x >= c /\ y >= c /\ z >= c /\ x < 2 * c /\ y < 2 * c
  BY <1>2, <1>3, <1>7, <1>8, <1>9
<1>11. (y + x) * z > x * y
  BY <1>10, TwoOutweighOne
<1>12. 1 * (x * y) = x * y
  OBVIOUS
<1>13. Finder!Score(a).num * Finder!Score(b).den > Finder!Score(b).num * Finder!Score(a).den
  BY <1>3, <1>6, <1>9, <1>11, <1>12
<1>. QED
  BY <1>13 DEF Finder!Higher

LEMMA EarlierAreHigher ==
  ASSUME Finite, Once(lex), Once(sem), NEW s \in {lex, sem}, NEW i \in 1 .. Len(s), NEW j \in 1 .. Len(s),
         i < j, {s[i], s[j]} \cap Finder!Both = {}
  PROVE  Finder!Higher(s[i], s[j])
<1>1. Finder!Score(s[i]).num = 1 /\ Finder!Score(s[i]).den = K + i
  BY OneScores
<1>2. Finder!Score(s[j]).num = 1 /\ Finder!Score(s[j]).den = K + j
  BY OneScores
<1>3. i \in Nat /\ j \in Nat /\ K \in Nat
  BY DEF Finite, Once
<1>4. 1 * (K + j) > 1 * (K + i)
  BY <1>3
<1>. QED
  BY <1>1, <1>2, <1>4 DEF Finder!Higher

LEMMA PageIsFused == Finite /\ SearchInv => Finder!PagesAreFused
<1>. SUFFICES ASSUME Finite, SearchInv, at = "done" PROVE Finder!PagesAreFused
  BY DEF Finder!PagesAreFused
<1>1. Question /\ Listed(lex) /\ Listed(sem)
  BY DEF SearchInv
<1>2. PICK s \in Finder!Rrf : page = Finder!First(ask.limit, s)
  BY DEF SearchInv
<1>3. PICK n \in Nat : n = ask.limit
  BY <1>1 DEF Question, Finite
<1>4. Once(lex) /\ Once(sem) /\ Within(lex, live \cup gone) /\ Within(sem, live \cup gone)
  BY <1>1 DEF Listed
<1>5. Finder!Found \subseteq Finder!Docs
  <2>1. \A t : Once(t) => Within(t, Finder!Docs)
    BY DEF Once, Within
  <2>. QED
    BY <1>4, <2>1, RangeIs DEF Finder!Found
<1>6. Finder!Found \subseteq live \cup gone
  BY <1>4, RangeIs DEF Finder!Found
<1>7. s \in Finder!Ranked(Finder!Found)
  BY DEF Finder!Rrf, Finder!Found
<1>8. /\ Once(s) /\ Len(s) = Cardinality(Finder!Found) /\ Within(s, Finder!Found)
      /\ \A d \in Finder!Found : \E i \in 1 .. Len(s) : s[i] = d
  <2>1. PICK S : S = Finder!Found
    OBVIOUS
  <2>. QED
    BY <1>5, <1>7, <2>1, RankedIs
<1>9. \A i, j \in 1 .. Len(s) : i < j => ~Finder!Higher(s[j], s[i])
  BY <1>8 DEF Finder!Rrf, Once
<1>10. PICK m \in Nat : m = Len(page)
  BY <1>2, <1>3, <1>8, FirstIs DEF Once
<1>11. /\ Once(page) /\ m = IF n < Len(s) THEN n ELSE Len(s)
       /\ \A i \in 1 .. m : i \in 1 .. Len(s) /\ page[i] = s[i]
  BY <1>2, <1>3, <1>8, <1>10, FirstIs
<1>12. \A a, b \in Finder!Found : a # b /\ Finder!Higher(a, b) => Finder!Above(a, b)
  <2>. SUFFICES ASSUME NEW a \in Finder!Found, NEW b \in Finder!Found, a # b, Finder!Higher(a, b), b \in Finder!Range(page)
                PROVE  a \in Finder!Range(page) /\ Finder!IndexIn(page, a) < Finder!IndexIn(page, b)
    BY DEF Finder!Above
  <2>1. PICK q \in 1 .. m : page[q] = b
    BY <1>10, <1>11, RangeIs
  <2>2. PICK p \in 1 .. Len(s) : s[p] = a
    BY <1>8
  <2>3. q \in 1 .. Len(s) /\ s[q] = b
    BY <1>11, <2>1
  <2>4. ~(q < p)
    BY <1>9, <2>2, <2>3
  <2>5. p \in Nat /\ q \in Nat /\ 1 <= p /\ q <= m
    BY <1>8, <2>1, <2>2 DEF Once
  <2>6. p \in 1 .. m
    BY <2>4, <2>5
  <2>7. page[p] = a
    BY <1>11, <2>2, <2>6
  <2>8. a \in Finder!Range(page) /\ Finder!IndexIn(page, a) = p /\ Finder!IndexIn(page, b) = q
    BY <1>10, <1>11, <2>1, <2>6, <2>7, RangeIs, IndexIs
  <2>9. p # q
    BY <2>2, <2>3
  <2>. QED
    BY <2>4, <2>5, <2>8, <2>9
<1>13. Finder!IsInjective(page) /\ Finder!Range(page) \subseteq Finder!Found
  <2>1. DOMAIN page = 1 .. m
    <3>1. page \in Seq(Finder!Docs)
      BY <1>11 DEF Once
    <3>. QED
      BY <1>10, <3>1
  <2>2. Finder!IsInjective(page)
    BY <1>10, <1>11, <2>1 DEF Finder!IsInjective, Once
  <2>3. Within(page, Finder!Found)
    BY <1>8, <1>10, <1>11 DEF Within
  <2>. QED
    BY <1>11, <2>2, <2>3, RangeIs
<1>14. Len(page) = IF Finder!Cardinality(Finder!Found) < ask.limit THEN Finder!Cardinality(Finder!Found) ELSE ask.limit
  <2>1. Len(s) \in Nat
    BY <1>8 DEF Once
  <2>. QED
    BY <1>3, <1>8, <1>10, <1>11, <2>1, CountIsCardinality
<1>15. Finder!Pool < K + 2 => \A a \in Finder!Both, b \in Finder!Found \ Finder!Both : Finder!Above(a, b)
  <2>1. Finder!Both \subseteq Finder!Found
    BY DEF Finder!Both, Finder!Found
  <2>. QED
    BY <1>1, <1>12, <2>1, BothAreHigher
<1>16. \A z \in {lex, sem} : \A i, j \in 1 .. Len(z) :
         i < j /\ {z[i], z[j]} \cap Finder!Both = {} => Finder!Above(z[i], z[j])
  <2>1. \A z \in {lex, sem} : \A i \in 1 .. Len(z) : z[i] \in Finder!Found
    BY <1>4, RangeIs DEF Finder!Found
  <2>2. \A z \in {lex, sem} : \A i, j \in 1 .. Len(z) : i < j => z[i] # z[j]
    BY <1>4 DEF Once
  <2>. QED
    BY <1>4, <1>12, <2>1, <2>2, EarlierAreHigher
<1>. QED
  BY <1>6, <1>13, <1>14, <1>15, <1>16 DEF Finder!PagesAreFused

LEMMA Looks == Spec => Finder!Init /\ [][Finder!Next]_(Finder!vars)
<1>1. Init => Finder!Init
  BY DEF Init
<1>2. [Next]_vars => [Finder!Next]_(Finder!vars)
  <2>. SUFFICES ASSUME [Next]_vars PROVE [Finder!Next]_(Finder!vars)
    OBVIOUS
  <2>1. UNCHANGED finderVars => UNCHANGED Finder!vars
    BY DEF finderVars, Finder!vars
  <2>2. UNCHANGED vars => UNCHANGED finderVars
    BY DEF vars
  <2>. QED
    BY <2>1, <2>2 DEF Next
<1>. QED
  BY <1>1, <1>2, PTL DEF Spec

(* A page is the fusion of its two lists, however many rows there are,     *)
(* whatever K and the size of the page, and whichever rows go and however  *)
(* the provider is switched in between (search.rs:343, 369-380, 511-544).  *)
THEOREM PagesFused == Spec => []PagesAreFused
<1>1. Finder!Init => SearchInv
  BY DocsAreFinite, SearchStarts
<1>2. SearchInv /\ [Finder!Next]_(Finder!vars) => SearchInv'
  BY DocsAreFinite, SearchGoesOn
<1>3. SearchInv => PagesAreFused
  BY DocsAreFinite, PageIsFused DEF PagesAreFused
<1>. QED
  BY <1>1, <1>2, <1>3, Looks, PTL
-----------------------------------------------------------------------------
(* Calls on the wire.                                                      *)
(* Folds.  Sequences are folded over sets of their positions, the last of  *)
(* which comes last: such a function there is, for any step that is a      *)
(* function.                                                               *)
Top(S) == CHOOSE x \in S : \A y \in S : x >= y

LEMMA TopIs == ASSUME NEW n \in Nat, NEW S, S \subseteq 1 .. n + 1, n + 1 \in S PROVE Top(S) = n + 1
<1>1. \A x \in S : x \in Nat /\ x <= n + 1
  OBVIOUS
<1>2. \A x \in S : (\A y \in S : x >= y) => x = n + 1
  BY <1>1
<1>3. \A y \in S : n + 1 >= y
  BY <1>1
<1>. QED
  BY <1>2, <1>3 DEF Top

Folds(g, f, base, s, n) ==
  g = [S \in SUBSET (1 .. n) |-> IF S = {} THEN base ELSE f[<<g[S \ {Top(S)}], s[Top(S)]>>]]

Foldable(X, Y, f, base, s, n) ==
  f \in [X \X Y -> X] /\ base \in X /\ n \in Nat /\ \A i \in 1 .. n : s[i] \in Y

LEMMA FoldExists ==
  ASSUME NEW X, NEW Y, NEW f, NEW base, NEW s, NEW n, Foldable(X, Y, f, base, s, n)
  PROVE  \E g : Folds(g, f, base, s, n) /\ \A S \in SUBSET (1 .. n) : g[S] \in X
<1>. DEFINE Fine(g, k) == Folds(g, f, base, s, k) /\ \A S \in SUBSET (1 .. k) : g[S] \in X
            Folded == {k \in Nat : k <= n => \E g : Fine(g, k)}
<1>. f \in [X \X Y -> X] /\ base \in X /\ n \in Nat /\ \A i \in 1 .. n : s[i] \in Y
  BY DEF Foldable
<1>1. 0 \in Folded
  <2>1. PICK g : g = [S \in {{}} |-> base]
    OBVIOUS
  <2>2. SUBSET (1 .. 0) = {{}}
    OBVIOUS
  <2>3. Fine(g, 0)
    BY <2>1, <2>2 DEF Folds
  <2>. QED
    BY <2>3
<1>2. ASSUME NEW k \in Nat, k \in Folded PROVE k + 1 \in Folded
  <2>. SUFFICES ASSUME k + 1 <= n PROVE \E g : Fine(g, k + 1)
    OBVIOUS
  <2>1. PICK g : Fine(g, k)
    BY <1>2
  <2>2. PICK m \in Nat : m = k + 1
    OBVIOUS
  <2>3. s[m] \in Y /\ m \in 1 .. m
    BY <2>2
  <2>4. PICK h : h = [S \in SUBSET (1 .. m) |-> IF m \in S THEN f[<<g[S \ {m}], s[m]>>] ELSE g[S]]
    OBVIOUS
  <2>5. \A S \in SUBSET (1 .. m) : S \ {m} \in SUBSET (1 .. k) /\ (m \notin S => S \in SUBSET (1 .. k) /\ S \ {m} = S)
    BY <2>2
  <2>6. \A S \in SUBSET (1 .. k) : S \in SUBSET (1 .. m) /\ m \notin S /\ g[S] \in X
    BY <2>1, <2>2
  <2>7. \A S \in SUBSET (1 .. k) : h[S] = g[S]
    BY <2>4, <2>6
  <2>8. \A S \in SUBSET (1 .. m) : h[S] \in X
    <3>1. \A x \in X : f[<<x, s[m]>>] \in X
      BY <2>3
    <3>2. \A S \in SUBSET (1 .. m) : m \in S => g[S \ {m}] \in X
      BY <2>5, <2>6
    <3>. QED
      BY <2>4, <2>5, <2>6, <3>1, <3>2
  <2>9. ASSUME NEW S \in SUBSET (1 .. m)
        PROVE  h[S] = IF S = {} THEN base ELSE f[<<h[S \ {Top(S)}], s[Top(S)]>>]
    <3>1. CASE m \in S
      <4>1. Top(S) = m
        BY <2>2, <3>1, TopIs
      <4>2. h[S \ {m}] = g[S \ {m}]
        BY <2>5, <2>7
      <4>. QED
        BY <2>4, <3>1, <4>1, <4>2
    <3>2. CASE m \notin S
      <4>1. S \in SUBSET (1 .. k) /\ h[S] = g[S]
        BY <2>5, <2>7, <3>2
      <4>2. g[S] = IF S = {} THEN base ELSE f[<<g[S \ {Top(S)}], s[Top(S)]>>]
        BY <2>1, <4>1 DEF Folds
      <4>3. PICK T : T = S \ {Top(S)}
        OBVIOUS
      <4>4. T \in SUBSET (1 .. k)
        BY <4>1, <4>3
      <4>5. h[T] = g[T]
        BY <2>7, <4>4
      <4>. QED
        BY <4>1, <4>2, <4>3, <4>5
    <3>. QED
      BY <3>1, <3>2
  <2>10. h = [S \in SUBSET (1 .. m) |-> h[S]]
    BY <2>4
  <2>11. Folds(h, f, base, s, m)
    BY <2>9, <2>10 DEF Folds
  <2>12. Fine(h, m)
    BY <2>8, <2>11
  <2>. QED
    BY <2>2, <2>12
<1>3. Nat \subseteq Folded
  <2>. HIDE DEF Folded
  <2>. QED
    BY <1>1, <1>2, UpToAll
<1>4. n \in Folded /\ n <= n
  BY <1>3
<1>. QED
  BY <1>4

LEMMA FirstOnes ==
  ASSUME NEW n \in Nat, NEW k \in 0 .. n - 1
  PROVE  /\ 1 .. k + 1 \in SUBSET (1 .. n) /\ 1 .. k \in SUBSET (1 .. n) /\ 1 .. k + 1 # {}
         /\ Top(1 .. k + 1) = k + 1 /\ (1 .. k + 1) \ {k + 1} = 1 .. k
<1>1. k \in Nat /\ k + 1 \in 1 .. k + 1 /\ 1 .. k + 1 \subseteq 1 .. k + 1
  OBVIOUS
<1>2. Top(1 .. k + 1) = k + 1
  BY <1>1, TopIs
<1>. QED
  BY <1>2

LEMMA TopIn ==
  ASSUME NEW n \in Nat, NEW S \in SUBSET (1 .. n), S # {}
  PROVE  Top(S) \in 1 .. n /\ S \ {Top(S)} \in SUBSET (1 .. n)
<1>. DEFINE Has == {k \in Nat : \A T \in SUBSET (1 .. k) : T # {} => \E x \in T : \A y \in T : x >= y}
<1>1. 0 \in Has
  <2>1. 1 .. 0 = {}
    OBVIOUS
  <2>. QED
    BY <2>1
<1>2. ASSUME NEW k \in Nat, k \in Has PROVE k + 1 \in Has
  <2>. SUFFICES ASSUME NEW T \in SUBSET (1 .. k + 1), T # {} PROVE \E x \in T : \A y \in T : x >= y
    OBVIOUS
  <2>1. CASE k + 1 \in T
    <3>1. \A y \in T : k + 1 >= y
      OBVIOUS
    <3>. QED
      BY <2>1, <3>1
  <2>2. CASE k + 1 \notin T
    <3>1. T \in SUBSET (1 .. k)
      BY <2>2
    <3>. QED
      BY <1>2, <3>1
  <2>. QED
    BY <2>1, <2>2
<1>3. Nat \subseteq Has
  <2>. HIDE DEF Has
  <2>. QED
    BY <1>1, <1>2, UpToAll
<1>4. \E x \in S : \A y \in S : x >= y
  BY <1>3
<1>5. Top(S) \in S
  BY <1>4 DEF Top
<1>. QED
  BY <1>5

LEMMA Run ==
  ASSUME NEW n \in Nat, NEW G, NEW h, h = [i \in 0 .. n |-> G[1 .. i]]
  PROVE  h[0] = G[{}] /\ h[n] = G[1 .. n] /\ \A i \in 0 .. n - 1 : h[i] = G[1 .. i] /\ h[i + 1] = G[1 .. i + 1]
<1>1. 1 .. 0 = {}
  OBVIOUS
<1>. QED
  BY <1>1

Ranged(s, n, Y) == n \in Nat /\ DOMAIN s = 1 .. n /\ \A i \in 1 .. n : s[i] \in Y

Role    == {"user", "assistant", "tool"}
CallRec == [index : Nat, id : Nat, named : BOOLEAN, args : Seq(Nat)]
Bare    == [id : Nat, args : Seq(Nat)]
Neutral == [role : Role, text : BOOLEAN, calls : Seq(Bare), id : Nat]
Wired   == [role : Role, text : BOOLEAN, uses : Seq(Bare), results : Seq(Nat)]
Bares   == Seq(Bare)
Lists   == Seq(Bares)
OnWire  == Seq(Wired)

Jsoned(base, cs)       == Calls!FoldLeft(Calls!ToJson, base, cs)
Normalized(base, ms, p) == Calls!FoldLeft(LAMBDA out, m : Calls!NormalizeOne(p, out, m), base, ms)
Filled(base, lists)    == Calls!FoldLeft(Calls!NotEmpty, base, lists)

LEMMA JsonTyped == ASSUME NEW out \in Bares, NEW c \in CallRec PROVE Calls!ToJson(out, c) \in Bares
<1>1. c.id \in Nat /\ c.args \in Seq(Nat)
  BY DEF CallRec
<1>2. [id |-> c.id, args |-> c.args] \in Bare
  BY <1>1 DEF Bare
<1>. QED
  BY <1>2 DEF Calls!ToJson, Bares

LEMMA FillTyped == ASSUME NEW out \in Lists, NEW cs \in Bares PROVE Calls!NotEmpty(out, cs) \in Lists
BY DEF Calls!NotEmpty, Lists

LEMMA SentTyped ==
  ASSUME NEW r \in Role, NEW t \in BOOLEAN, NEW u \in Bares, NEW i \in Seq(Nat)
  PROVE  /\ Calls!Sent(r, t, u, i) \in Wired
         /\ Calls!Sent(r, t, u, i).role = r /\ Calls!Sent(r, t, u, i).uses = u /\ Calls!Sent(r, t, u, i).results = i
BY DEF Calls!Sent, Wired, Bares

LEMMA OneTyped ==
  ASSUME NEW p \in Calls!Providers, NEW out \in OnWire, NEW m \in Neutral
  PROVE  Calls!NormalizeOne(p, out, m) \in OnWire
<1>1. m.role \in Role /\ m.text \in BOOLEAN /\ m.calls \in Bares /\ m.id \in Nat /\ out \in Seq(Wired)
  BY DEF Neutral, Bares, OnWire
<1>2. <<>> \in Bares /\ <<>> \in Seq(Nat) /\ <<m.id>> \in Seq(Nat) /\ Len(out) \in Nat
  BY <1>1 DEF Bares
<1>3. \A w \in Wired : Append(out, w) \in OnWire
  BY <1>1 DEF OnWire
<1>4. Append(out, Calls!Uses(m)) \in OnWire
  BY <1>1, <1>2, <1>3, SentTyped DEF Calls!Uses, Role
<1>5. Append(out, Calls!Sent(m.role, m.text, <<>>, <<>>)) \in OnWire
  BY <1>1, <1>2, <1>3, SentTyped
<1>6. Calls!ToolResult(p, out, m) \in OnWire
  <2>1. \A r \in {"user", "tool"} : Append(out, Calls!Sent(r, FALSE, <<>>, <<m.id>>)) \in OnWire
    BY <1>1, <1>2, <1>3, SentTyped DEF Role
  <2>2. CASE p = "anthropic" /\ out # <<>> /\ Calls!Last(out).role = "user" /\ Calls!Last(out).results # <<>>
    <3>1. Len(out) \in 1 .. Len(out)
      BY <1>1, <2>2
    <3>2. PICK w \in Wired : w = out[Len(out)]
      BY <1>1, <3>1
    <3>3. w.role \in Role /\ w.text \in BOOLEAN /\ w.uses \in Seq(Bare) /\ Append(w.results, m.id) \in Seq(Nat)
      BY <1>1, <3>2 DEF Wired
    <3>4. [w EXCEPT !.results = Append(w.results, m.id)] \in Wired
      BY <3>3 DEF Wired
    <3>5. Calls!ToolResult(p, out, m) = [out EXCEPT ![Len(out)] = [w EXCEPT !.results = Append(w.results, m.id)]]
      BY <2>2, <3>2 DEF Calls!ToolResult
    <3>. QED
      BY <1>1, <3>1, <3>4, <3>5 DEF OnWire
  <2>3. CASE ~(p = "anthropic" /\ out # <<>> /\ Calls!Last(out).role = "user" /\ Calls!Last(out).results # <<>>)
    BY <2>1, <2>3 DEF Calls!ToolResult
  <2>. QED
    BY <2>2, <2>3
<1>. QED
  BY <1>4, <1>5, <1>6 DEF Calls!NormalizeOne

JsonRuns(h, base, s, n) ==
  /\ h \in [0 .. n -> Bares] /\ h[0] = base /\ h[n] = Jsoned(base, s)
  /\ \A i \in 0 .. n - 1 : h[i + 1] = Calls!ToJson(h[i], s[i + 1])

LEMMA JsonRun ==
  ASSUME NEW base \in Bares, NEW s, NEW n, Ranged(s, n, CallRec)
  PROVE  \E h : JsonRuns(h, base, s, n)
<1>. n \in Nat /\ DOMAIN s = 1 .. n /\ \A i \in 1 .. n : s[i] \in CallRec
  BY DEF Ranged
<1>. DEFINE It(g) == g = [S \in SUBSET (1 .. n) |-> IF S = {} THEN base ELSE Calls!ToJson(g[S \ {Top(S)}], s[Top(S)])]
<1>1. PICK f : f = [x \in Bares \X CallRec |-> Calls!ToJson(x[1], x[2])]
  OBVIOUS
<1>2. \A e \in Bares, y \in CallRec : f[<<e, y>>] = Calls!ToJson(e, y)
  BY <1>1
<1>3. f \in [Bares \X CallRec -> Bares]
  BY <1>1, JsonTyped
<1>4. PICK g : Folds(g, f, base, s, n) /\ \A S \in SUBSET (1 .. n) : g[S] \in Bares
  <2>1. Foldable(Bares, CallRec, f, base, s, n)
    BY <1>3 DEF Foldable
  <2>. QED
    BY <2>1, FoldExists
<1>5. \A S \in SUBSET (1 .. n) : S # {} => Top(S) \in 1 .. n /\ S \ {Top(S)} \in SUBSET (1 .. n)
  BY TopIn
<1>6. \A S \in SUBSET (1 .. n) : g[S] = IF S = {} THEN base ELSE Calls!ToJson(g[S \ {Top(S)}], s[Top(S)])
  BY <1>2, <1>4, <1>5 DEF Folds
<1>7. g = [S \in SUBSET (1 .. n) |-> g[S]]
  BY <1>4 DEF Folds
<1>8. It(g)
  BY <1>6, <1>7
<1>9. PICK G : G = CHOOSE k : It(k)
  OBVIOUS
<1>10. It(G)
  BY <1>8, <1>9
<1>11. Jsoned(base, s) = G[1 .. n]
  BY <1>9, Zenon DEF Jsoned, Calls!FoldLeft, Calls!MapThenFoldSet, Calls!Max, Top
<1>12. PICK h : h = [i \in 0 .. n |-> G[1 .. i]]
  OBVIOUS
<1>13. h[0] = base /\ h[n] = G[1 .. n]
  <2>1. G[{}] = base
    BY <1>10
  <2>. QED
    BY <1>12, <2>1, Run
<1>14. ASSUME NEW i \in 0 .. n - 1 PROVE h[i + 1] = Calls!ToJson(h[i], s[i + 1])
  <2>1. /\ 1 .. i + 1 \in SUBSET (1 .. n) /\ 1 .. i + 1 # {}
        /\ Top(1 .. i + 1) = i + 1 /\ (1 .. i + 1) \ {i + 1} = 1 .. i
    BY FirstOnes
  <2>2. h[i] = G[1 .. i] /\ h[i + 1] = G[1 .. i + 1]
    BY <1>12
  <2>3. PICK T : T = 1 .. i + 1
    OBVIOUS
  <2>4. G[T] = Calls!ToJson(G[T \ {Top(T)}], s[Top(T)])
    BY <1>10, <2>1, <2>3, Zenon
  <2>. QED
    BY <2>1, <2>2, <2>3, <2>4
<1>15. h \in [0 .. n -> Bares]
  <2>. DEFINE In == {i \in Nat : i <= n => h[i] \in Bares}
  <2>1. 0 \in In
    BY <1>13
  <2>2. ASSUME NEW i \in Nat, i \in In PROVE i + 1 \in In
    <3>. SUFFICES ASSUME i + 1 <= n PROVE h[i + 1] \in Bares
      OBVIOUS
    <3>1. i \in 0 .. n - 1 /\ h[i] \in Bares /\ s[i + 1] \in CallRec
      BY <2>2
    <3>2. PICK e \in Bares : e = h[i]
      BY <3>1
    <3>3. PICK y \in CallRec : y = s[i + 1]
      BY <3>1
    <3>4. h[i + 1] = f[<<e, y>>]
      BY <1>2, <1>14, <3>1, <3>2, <3>3
    <3>. QED
      BY <1>3, <3>4
  <2>3. Nat \subseteq In
    <3>. HIDE DEF In
    <3>. QED
      BY <2>1, <2>2, UpToAll
  <2>4. \A i \in 0 .. n : h[i] \in Bares
    BY <2>3
  <2>. QED
    BY <1>12, <2>4
<1>. QED
  BY <1>11, <1>13, <1>14, <1>15 DEF JsonRuns

FillRuns(h, base, s, n) ==
  /\ h \in [0 .. n -> Lists] /\ h[0] = base /\ h[n] = Filled(base, s)
  /\ \A i \in 0 .. n - 1 : h[i + 1] = Calls!NotEmpty(h[i], s[i + 1])

LEMMA FillRun ==
  ASSUME NEW base \in Lists, NEW s, NEW n, Ranged(s, n, Bares)
  PROVE  \E h : FillRuns(h, base, s, n)
<1>. n \in Nat /\ DOMAIN s = 1 .. n /\ \A i \in 1 .. n : s[i] \in Bares
  BY DEF Ranged
<1>. DEFINE It(g) == g = [S \in SUBSET (1 .. n) |-> IF S = {} THEN base ELSE Calls!NotEmpty(g[S \ {Top(S)}], s[Top(S)])]
<1>1. PICK f : f = [x \in Lists \X Bares |-> Calls!NotEmpty(x[1], x[2])]
  OBVIOUS
<1>2. \A e \in Lists, y \in Bares : f[<<e, y>>] = Calls!NotEmpty(e, y)
  BY <1>1
<1>3. f \in [Lists \X Bares -> Lists]
  BY <1>1, FillTyped
<1>4. PICK g : Folds(g, f, base, s, n) /\ \A S \in SUBSET (1 .. n) : g[S] \in Lists
  <2>1. Foldable(Lists, Bares, f, base, s, n)
    BY <1>3 DEF Foldable
  <2>. QED
    BY <2>1, FoldExists
<1>5. \A S \in SUBSET (1 .. n) : S # {} => Top(S) \in 1 .. n /\ S \ {Top(S)} \in SUBSET (1 .. n)
  BY TopIn
<1>6. \A S \in SUBSET (1 .. n) : g[S] = IF S = {} THEN base ELSE Calls!NotEmpty(g[S \ {Top(S)}], s[Top(S)])
  BY <1>2, <1>4, <1>5 DEF Folds
<1>7. g = [S \in SUBSET (1 .. n) |-> g[S]]
  BY <1>4 DEF Folds
<1>8. It(g)
  BY <1>6, <1>7
<1>9. PICK G : G = CHOOSE k : It(k)
  OBVIOUS
<1>10. It(G)
  BY <1>8, <1>9
<1>11. Filled(base, s) = G[1 .. n]
  BY <1>9, Zenon DEF Filled, Calls!FoldLeft, Calls!MapThenFoldSet, Calls!Max, Top
<1>12. PICK h : h = [i \in 0 .. n |-> G[1 .. i]]
  OBVIOUS
<1>13. h[0] = base /\ h[n] = G[1 .. n]
  <2>1. G[{}] = base
    BY <1>10
  <2>. QED
    BY <1>12, <2>1, Run
<1>14. ASSUME NEW i \in 0 .. n - 1 PROVE h[i + 1] = Calls!NotEmpty(h[i], s[i + 1])
  <2>1. /\ 1 .. i + 1 \in SUBSET (1 .. n) /\ 1 .. i + 1 # {}
        /\ Top(1 .. i + 1) = i + 1 /\ (1 .. i + 1) \ {i + 1} = 1 .. i
    BY FirstOnes
  <2>2. h[i] = G[1 .. i] /\ h[i + 1] = G[1 .. i + 1]
    BY <1>12
  <2>3. PICK T : T = 1 .. i + 1
    OBVIOUS
  <2>4. G[T] = Calls!NotEmpty(G[T \ {Top(T)}], s[Top(T)])
    BY <1>10, <2>1, <2>3, Zenon
  <2>. QED
    BY <2>1, <2>2, <2>3, <2>4
<1>15. h \in [0 .. n -> Lists]
  <2>. DEFINE In == {i \in Nat : i <= n => h[i] \in Lists}
  <2>1. 0 \in In
    BY <1>13
  <2>2. ASSUME NEW i \in Nat, i \in In PROVE i + 1 \in In
    <3>. SUFFICES ASSUME i + 1 <= n PROVE h[i + 1] \in Lists
      OBVIOUS
    <3>1. i \in 0 .. n - 1 /\ h[i] \in Lists /\ s[i + 1] \in Bares
      BY <2>2
    <3>2. PICK e \in Lists : e = h[i]
      BY <3>1
    <3>3. PICK y \in Bares : y = s[i + 1]
      BY <3>1
    <3>4. h[i + 1] = f[<<e, y>>]
      BY <1>2, <1>14, <3>1, <3>2, <3>3
    <3>. QED
      BY <1>3, <3>4
  <2>3. Nat \subseteq In
    <3>. HIDE DEF In
    <3>. QED
      BY <2>1, <2>2, UpToAll
  <2>4. \A i \in 0 .. n : h[i] \in Lists
    BY <2>3
  <2>. QED
    BY <1>12, <2>4
<1>. QED
  BY <1>11, <1>13, <1>14, <1>15 DEF FillRuns

OneRuns(h, base, s, n, p) ==
  /\ h \in [0 .. n -> OnWire] /\ h[0] = base /\ h[n] = Normalized(base, s, p)
  /\ \A i \in 0 .. n - 1 : h[i + 1] = Calls!NormalizeOne(p, h[i], s[i + 1])

LEMMA OneRun ==
  ASSUME NEW p \in Calls!Providers, NEW base \in OnWire, NEW s, NEW n, Ranged(s, n, Neutral)
  PROVE  \E h : OneRuns(h, base, s, n, p)
<1>. n \in Nat /\ DOMAIN s = 1 .. n /\ \A i \in 1 .. n : s[i] \in Neutral
  BY DEF Ranged
<1>. DEFINE It(g) == g = [S \in SUBSET (1 .. n) |-> IF S = {} THEN base ELSE Calls!NormalizeOne(p, g[S \ {Top(S)}], s[Top(S)])]
<1>1. PICK f : f = [x \in OnWire \X Neutral |-> Calls!NormalizeOne(p, x[1], x[2])]
  OBVIOUS
<1>2. \A e \in OnWire, y \in Neutral : f[<<e, y>>] = Calls!NormalizeOne(p, e, y)
  BY <1>1
<1>3. f \in [OnWire \X Neutral -> OnWire]
  BY <1>1, OneTyped
<1>4. PICK g : Folds(g, f, base, s, n) /\ \A S \in SUBSET (1 .. n) : g[S] \in OnWire
  <2>1. Foldable(OnWire, Neutral, f, base, s, n)
    BY <1>3 DEF Foldable
  <2>. QED
    BY <2>1, FoldExists
<1>5. \A S \in SUBSET (1 .. n) : S # {} => Top(S) \in 1 .. n /\ S \ {Top(S)} \in SUBSET (1 .. n)
  BY TopIn
<1>6. \A S \in SUBSET (1 .. n) : g[S] = IF S = {} THEN base ELSE Calls!NormalizeOne(p, g[S \ {Top(S)}], s[Top(S)])
  BY <1>2, <1>4, <1>5 DEF Folds
<1>7. g = [S \in SUBSET (1 .. n) |-> g[S]]
  BY <1>4 DEF Folds
<1>8. It(g)
  BY <1>6, <1>7
<1>9. PICK G : G = CHOOSE k : It(k)
  OBVIOUS
<1>10. It(G)
  BY <1>8, <1>9
<1>11. Normalized(base, s, p) = G[1 .. n]
  BY <1>9, Zenon DEF Normalized, Calls!FoldLeft, Calls!MapThenFoldSet, Calls!Max, Top
<1>12. PICK h : h = [i \in 0 .. n |-> G[1 .. i]]
  OBVIOUS
<1>13. h[0] = base /\ h[n] = G[1 .. n]
  <2>1. G[{}] = base
    BY <1>10
  <2>. QED
    BY <1>12, <2>1, Run
<1>14. ASSUME NEW i \in 0 .. n - 1 PROVE h[i + 1] = Calls!NormalizeOne(p, h[i], s[i + 1])
  <2>1. /\ 1 .. i + 1 \in SUBSET (1 .. n) /\ 1 .. i + 1 # {}
        /\ Top(1 .. i + 1) = i + 1 /\ (1 .. i + 1) \ {i + 1} = 1 .. i
    BY FirstOnes
  <2>2. h[i] = G[1 .. i] /\ h[i + 1] = G[1 .. i + 1]
    BY <1>12
  <2>3. PICK T : T = 1 .. i + 1
    OBVIOUS
  <2>4. G[T] = Calls!NormalizeOne(p, G[T \ {Top(T)}], s[Top(T)])
    BY <1>10, <2>1, <2>3, Zenon
  <2>. QED
    BY <2>1, <2>2, <2>3, <2>4
<1>15. h \in [0 .. n -> OnWire]
  <2>. DEFINE In == {i \in Nat : i <= n => h[i] \in OnWire}
  <2>1. 0 \in In
    BY <1>13
  <2>2. ASSUME NEW i \in Nat, i \in In PROVE i + 1 \in In
    <3>. SUFFICES ASSUME i + 1 <= n PROVE h[i + 1] \in OnWire
      OBVIOUS
    <3>1. i \in 0 .. n - 1 /\ h[i] \in OnWire /\ s[i + 1] \in Neutral
      BY <2>2
    <3>2. PICK e \in OnWire : e = h[i]
      BY <3>1
    <3>3. PICK y \in Neutral : y = s[i + 1]
      BY <3>1
    <3>4. h[i + 1] = f[<<e, y>>]
      BY <1>2, <1>14, <3>1, <3>2, <3>3
    <3>. QED
      BY <1>3, <3>4
  <2>3. Nat \subseteq In
    <3>. HIDE DEF In
    <3>. QED
      BY <2>1, <2>2, UpToAll
  <2>4. \A i \in 0 .. n : h[i] \in OnWire
    BY <2>3
  <2>. QED
    BY <1>12, <2>4
<1>. QED
  BY <1>11, <1>13, <1>14, <1>15 DEF OneRuns

-----------------------------------------------------------------------------
(* What is added to lists of calls, and to messages, goes on with the fold. *)
LEMMA FillGrows ==
  ASSUME NEW a \in Lists, NEW b \in Lists, Len(a) < Len(b), \A i \in 1 .. Len(a) : b[i] = a[i],
         \A i \in 1 .. Len(b) : i > Len(a) + 1 => b[i] = <<>>
  PROVE  /\ Calls!NonEmpty(b) = Calls!NotEmpty(Calls!NonEmpty(a), b[Len(a) + 1])
         /\ Calls!NonEmpty(a) \in Lists
<1>1. PICK n \in Nat : n = Len(a)
  BY DEF Lists
<1>2. PICK m \in Nat : m = Len(b)
  BY DEF Lists
<1>3. <<>> \in Lists
  BY DEF Lists
<1>4. Ranged(a, n, Bares) /\ Ranged(b, m, Bares)
  BY <1>1, <1>2 DEF Ranged, Lists
<1>5. PICK g : FillRuns(g, <<>>, a, n)
  BY <1>3, <1>4, FillRun
<1>6. PICK h : FillRuns(h, <<>>, b, m)
  BY <1>3, <1>4, FillRun
<1>7. /\ g[0] = <<>> /\ g[n] = Calls!NonEmpty(a) /\ g[n] \in Lists
      /\ \A i \in 0 .. n - 1 : g[i + 1] = Calls!NotEmpty(g[i], a[i + 1])
  <2>1. Filled(<<>>, a) = Calls!NonEmpty(a)
    BY Zenon DEF Filled, Calls!NonEmpty
  <2>. QED
    BY <1>5, <2>1 DEF FillRuns
<1>8. /\ h[0] = <<>> /\ h[m] = Calls!NonEmpty(b)
      /\ \A i \in 0 .. m - 1 : h[i + 1] = Calls!NotEmpty(h[i], b[i + 1])
  <2>1. Filled(<<>>, b) = Calls!NonEmpty(b)
    BY Zenon DEF Filled, Calls!NonEmpty
  <2>. QED
    BY <1>6, <2>1 DEF FillRuns
<1>9. h[n] = g[n]
  <2>. DEFINE Alike == {i \in Nat : i <= n => h[i] = g[i]}
  <2>1. 0 \in Alike
    BY <1>7, <1>8
  <2>2. ASSUME NEW i \in Nat, i \in Alike PROVE i + 1 \in Alike
    <3>. SUFFICES ASSUME i + 1 <= n PROVE h[i + 1] = g[i + 1]
      OBVIOUS
    <3>1. i \in 0 .. n - 1 /\ i \in 0 .. m - 1 /\ h[i] = g[i] /\ b[i + 1] = a[i + 1]
      BY <1>1, <1>2, <2>2
    <3>. QED
      BY <1>7, <1>8, <3>1
  <2>3. Nat \subseteq Alike
    <3>. HIDE DEF Alike
    <3>. QED
      BY <2>1, <2>2, UpToAll
  <2>. QED
    BY <2>3
<1>10. h[n + 1] = Calls!NotEmpty(g[n], b[n + 1])
  <2>1. n \in 0 .. m - 1
    BY <1>1, <1>2
  <2>. QED
    BY <1>8, <1>9, <2>1
<1>11. h[m] = h[n + 1]
  <2>. DEFINE Alike == {i \in Nat : n + 1 + i <= m => h[n + 1 + i] = h[n + 1]}
  <2>1. 0 \in Alike
    OBVIOUS
  <2>2. ASSUME NEW i \in Nat, i \in Alike PROVE i + 1 \in Alike
    <3>. SUFFICES ASSUME n + 1 + (i + 1) <= m PROVE h[n + 1 + (i + 1)] = h[n + 1]
      OBVIOUS
    <3>1. PICK k \in Nat : k = n + 1 + i
      OBVIOUS
    <3>2. k \in 0 .. m - 1 /\ k + 1 = n + 1 + (i + 1) /\ k + 1 \in 1 .. m /\ k + 1 > n + 1 /\ h[k] = h[n + 1]
      BY <2>2, <3>1
    <3>3. b[k + 1] = <<>>
      BY <1>1, <1>2, <3>2
    <3>4. h[k + 1] = h[k]
      BY <1>8, <3>2, <3>3 DEF Calls!NotEmpty
    <3>. QED
      BY <3>2, <3>4
  <2>3. Nat \subseteq Alike
    <3>. HIDE DEF Alike
    <3>. QED
      BY <2>1, <2>2, UpToAll
  <2>4. m - (n + 1) \in Nat /\ n + 1 + (m - (n + 1)) = m
    BY <1>1, <1>2
  <2>5. m - (n + 1) \in Alike
    BY <2>3, <2>4
  <2>. QED
    BY <2>4, <2>5
<1>. QED
  BY <1>1, <1>7, <1>8, <1>10, <1>11

Goes(e, p, w, xs, w2) ==
  /\ e \in [0 .. Len(xs) -> OnWire] /\ e[0] = w /\ e[Len(xs)] = w2
  /\ \A i \in 1 .. Len(xs) : e[i] = Calls!NormalizeOne(p, e[i - 1], xs[i])

LEMMA NormalizeGoesOn ==
  ASSUME NEW p \in Calls!Providers, NEW ms \in Seq(Neutral), NEW xs \in Seq(Neutral), NEW all, all = ms \o xs
  PROVE  /\ Calls!NormalizeMessages(p, ms) \in OnWire
         /\ \E e : Goes(e, p, Calls!NormalizeMessages(p, ms), xs, Calls!NormalizeMessages(p, all))
<1>1. PICK n \in Nat : n = Len(ms)
  OBVIOUS
<1>2. PICK k \in Nat : k = Len(xs)
  OBVIOUS
<1>3. PICK m \in Nat : m = n + k
  OBVIOUS
<1>4. Ranged(ms, n, Neutral) /\ Ranged(all, m, Neutral) /\ <<>> \in OnWire
  BY <1>1, <1>2, <1>3 DEF Ranged, OnWire
<1>5. PICK g : OneRuns(g, <<>>, ms, n, p)
  BY <1>4, OneRun
<1>6. PICK h : OneRuns(h, <<>>, all, m, p)
  BY <1>4, OneRun
<1>7. /\ g[0] = <<>> /\ g[n] = Calls!NormalizeMessages(p, ms) /\ g[n] \in OnWire
      /\ \A i \in 0 .. n - 1 : g[i + 1] = Calls!NormalizeOne(p, g[i], ms[i + 1])
  <2>1. Normalized(<<>>, ms, p) = Calls!NormalizeMessages(p, ms)
    BY Zenon DEF Normalized, Calls!NormalizeMessages
  <2>. QED
    BY <1>5, <2>1 DEF OneRuns
<1>8. /\ h \in [0 .. m -> OnWire] /\ h[0] = <<>> /\ h[m] = Calls!NormalizeMessages(p, all)
      /\ \A i \in 0 .. m - 1 : h[i + 1] = Calls!NormalizeOne(p, h[i], all[i + 1])
  <2>1. Normalized(<<>>, all, p) = Calls!NormalizeMessages(p, all)
    BY Zenon DEF Normalized, Calls!NormalizeMessages
  <2>. QED
    BY <1>6, <2>1 DEF OneRuns
<1>9. \A i \in 1 .. n : all[i] = ms[i]
  BY <1>1
<1>10. h[n] = g[n]
  <2>. DEFINE Alike == {i \in Nat : i <= n => h[i] = g[i]}
  <2>1. 0 \in Alike
    BY <1>7, <1>8
  <2>2. ASSUME NEW i \in Nat, i \in Alike PROVE i + 1 \in Alike
    <3>. SUFFICES ASSUME i + 1 <= n PROVE h[i + 1] = g[i + 1]
      OBVIOUS
    <3>1. i \in 0 .. n - 1 /\ i \in 0 .. m - 1 /\ i + 1 \in 1 .. n /\ h[i] = g[i]
      BY <1>3, <2>2
    <3>2. all[i + 1] = ms[i + 1]
      BY <1>9, <3>1
    <3>. QED
      BY <1>7, <1>8, <3>1, <3>2
  <2>3. Nat \subseteq Alike
    <3>. HIDE DEF Alike
    <3>. QED
      BY <2>1, <2>2, UpToAll
  <2>. QED
    BY <2>3
<1>11. PICK e : e = [i \in 0 .. k |-> h[n + i]]
  OBVIOUS
<1>12. e \in [0 .. k -> OnWire] /\ e[0] = g[n] /\ e[k] = h[m]
  BY <1>3, <1>8, <1>10, <1>11
<1>13. ASSUME NEW i \in 1 .. k PROVE e[i] = Calls!NormalizeOne(p, e[i - 1], xs[i])
  <2>1. PICK j \in Nat : j = n + (i - 1)
    OBVIOUS
  <2>2. j \in 0 .. m - 1 /\ j + 1 = n + i /\ e[i] = h[j + 1] /\ e[i - 1] = h[j]
    BY <1>3, <1>11, <2>1
  <2>3. all[n + i] = xs[i]
    BY <1>1, <1>2
  <2>. QED
    BY <1>8, <2>2, <2>3
<1>14. Goes(e, p, Calls!NormalizeMessages(p, ms), xs, Calls!NormalizeMessages(p, all))
  BY <1>2, <1>7, <1>8, <1>12, <1>13 DEF Goes
<1>. QED
  BY <1>7, <1>14

LEMMA NothingYet ==
  /\ \A p \in Calls!Providers : Calls!NormalizeMessages(p, <<>>) = <<>>
  /\ Calls!NonEmpty(<<>>) = <<>>
<1>1. <<>> \in OnWire /\ <<>> \in Lists /\ Ranged(<<>>, 0, Neutral) /\ Ranged(<<>>, 0, Bares)
  BY DEF OnWire, Lists, Ranged
<1>2. ASSUME NEW p \in Calls!Providers PROVE Calls!NormalizeMessages(p, <<>>) = <<>>
  <2>1. PICK h : OneRuns(h, <<>>, <<>>, 0, p)
    BY <1>1, OneRun
  <2>2. Normalized(<<>>, <<>>, p) = Calls!NormalizeMessages(p, <<>>)
    BY Zenon DEF Normalized, Calls!NormalizeMessages
  <2>. QED
    BY <2>1, <2>2 DEF OneRuns
<1>3. PICK h : FillRuns(h, <<>>, <<>>, 0)
  BY <1>1, FillRun
<1>4. Calls!NonEmpty(<<>>) = <<>>
  BY <1>3 DEF FillRuns, Filled, Calls!NonEmpty
<1>. QED
  BY <1>2, <1>4

LEMMA JsonIs == ASSUME NEW cs \in Seq(CallRec) PROVE Calls!CallsJson(cs) \in Bares
<1>1. PICK n \in Nat : n = Len(cs)
  OBVIOUS
<1>2. <<>> \in Bares /\ Ranged(cs, n, CallRec)
  BY <1>1 DEF Bares, Ranged
<1>3. PICK h : JsonRuns(h, <<>>, cs, n)
  BY <1>2, JsonRun
<1>. QED
  BY <1>1, <1>3 DEF JsonRuns, Jsoned, Calls!CallsJson

-----------------------------------------------------------------------------
(* What an answer becomes: a message with its calls, then its results, in  *)
(* one message or in one each.                                             *)
Follow(p, cs) == IF p = "anthropic" THEN 1 ELSE Len(cs)
Results(p, cs, k) == IF p = "anthropic" THEN Calls!Ids(cs) ELSE <<cs[k].id>>

Block(p, w, cs, w2) ==
  /\ w2 \in OnWire /\ Len(w2) = Len(w) + 1 + Follow(p, cs)
  /\ \A i \in 1 .. Len(w) : w2[i] = w[i]
  /\ w2[Len(w) + 1].uses = cs /\ w2[Len(w) + 1].results = <<>>
  /\ \A k \in 1 .. Follow(p, cs) :
       w2[Len(w) + 1 + k].uses = <<>> /\ w2[Len(w) + 1 + k].results = Results(p, cs, k)

Answer(t, cs) == Calls!Message("assistant", t, cs, 0)
Result(c)     == Calls!Message("tool", TRUE, <<>>, c)

LEMMA MessageTyped ==
  ASSUME NEW r \in Role, NEW t \in BOOLEAN, NEW cs \in Bares, NEW c \in Nat
  PROVE  /\ Calls!Message(r, t, cs, c) \in Neutral
         /\ Calls!Message(r, t, cs, c).role = r /\ Calls!Message(r, t, cs, c).calls = cs
         /\ Calls!Message(r, t, cs, c).text = t /\ Calls!Message(r, t, cs, c).id = c
BY DEF Calls!Message, Neutral, Bares

LEMMA AnswerPut ==
  ASSUME NEW p \in Calls!Providers, NEW w \in OnWire, NEW t \in BOOLEAN, NEW cs \in Bares, cs # <<>>,
         NEW u, u = Calls!NormalizeOne(p, w, Answer(t, cs))
  PROVE  /\ u \in OnWire /\ Len(u) = Len(w) + 1 /\ \A i \in 1 .. Len(w) : u[i] = w[i]
         /\ u[Len(w) + 1].uses = cs /\ u[Len(w) + 1].results = <<>> /\ u[Len(w) + 1].role = "assistant"
<1>. "assistant" \in Role /\ <<>> \in Seq(Nat) /\ 0 \in Nat
  BY DEF Role
<1>1. PICK m \in Neutral : m = Answer(t, cs)
  BY MessageTyped DEF Answer
<1>2. m.calls = cs /\ m.text = t
  BY <1>1, MessageTyped DEF Answer
<1>3. PICK s \in Wired : s = Calls!Sent("assistant", t, cs, <<>>)
  BY SentTyped
<1>4. s.uses = cs /\ s.results = <<>> /\ s.role = "assistant"
  BY <1>3 DEF Calls!Sent
<1>5. u = Append(w, s)
  BY <1>1, <1>2, <1>3 DEF Calls!NormalizeOne, Calls!Uses
<1>6. u \in OnWire
  BY <1>1, OneTyped
<1>. QED
  BY <1>4, <1>5, <1>6 DEF OnWire

NewResult(p, w, c, u) ==
  /\ u \in OnWire /\ Len(u) = Len(w) + 1 /\ \A i \in 1 .. Len(w) : u[i] = w[i]
  /\ u[Len(w) + 1].uses = <<>> /\ u[Len(w) + 1].results = <<c>>
  /\ p = "anthropic" => u[Len(w) + 1].role = "user"

OneMore(w, c, u) ==
  /\ u \in OnWire /\ Len(u) = Len(w) /\ \A i \in 1 .. Len(w) : i # Len(w) => u[i] = w[i]
  /\ u[Len(w)].uses = w[Len(w)].uses /\ u[Len(w)].role = "user"
  /\ u[Len(w)].results = Append(w[Len(w)].results, c)

LEMMA ResultNew ==
  ASSUME NEW p \in Calls!Providers, NEW w \in OnWire, w # <<>>, NEW c \in Nat,
         p # "anthropic" \/ w[Len(w)].role # "user",
         NEW u, u = Calls!NormalizeOne(p, w, Result(c))
  PROVE  NewResult(p, w, c, u)
<1>. "tool" \in Role /\ <<>> \in Bares
  BY DEF Role, Bares
<1>1. PICK m \in Neutral : m = Result(c)
  BY MessageTyped DEF Result
<1>2. m.calls = <<>> /\ m.role = "tool" /\ m.id = c
  BY <1>1 DEF Result, Calls!Message
<1>3. u = Calls!ToolResult(p, w, m)
  BY <1>1, <1>2 DEF Calls!NormalizeOne
<1>4. u \in OnWire
  BY <1>1, OneTyped DEF Calls!Providers
<1>5. w \in Seq(Wired) /\ Len(w) \in 1 .. Len(w) /\ w[Len(w)] \in Wired
  BY DEF OnWire
<1>6. PICK r \in {"user", "tool"} : r = IF p = "anthropic" THEN "user" ELSE "tool"
  OBVIOUS
<1>7. <<>> \in Bares /\ <<c>> \in Seq(Nat) /\ r \in Role
  BY DEF Bares, Role
<1>8. PICK s \in Wired : s = Calls!Sent(r, FALSE, <<>>, <<c>>)
  BY <1>7, SentTyped
<1>9. s.role = r /\ s.uses = <<>> /\ s.results = <<c>>
  BY <1>8 DEF Calls!Sent
<1>10. u = Append(w, s)
  BY <1>2, <1>3, <1>6, <1>8 DEF Calls!ToolResult, Calls!Last
<1>. QED
  BY <1>4, <1>5, <1>6, <1>9, <1>10 DEF NewResult

LEMMA ResultMerged ==
  ASSUME NEW w \in OnWire, w # <<>>, NEW c \in Nat,
         w[Len(w)].role = "user", w[Len(w)].results # <<>>,
         NEW u, u = Calls!NormalizeOne("anthropic", w, Result(c))
  PROVE  OneMore(w, c, u)
<1>. "tool" \in Role /\ <<>> \in Bares
  BY DEF Role, Bares
<1>1. PICK m \in Neutral : m = Result(c)
  BY MessageTyped DEF Result
<1>2. m.calls = <<>> /\ m.role = "tool" /\ m.id = c
  BY <1>1 DEF Result, Calls!Message
<1>3. u = Calls!ToolResult("anthropic", w, m)
  BY <1>1, <1>2 DEF Calls!NormalizeOne
<1>4. u \in OnWire
  BY <1>1, OneTyped DEF Calls!Providers
<1>5. w \in Seq(Wired) /\ Len(w) \in 1 .. Len(w) /\ w[Len(w)] \in Wired
  BY DEF OnWire
<1>6. PICK s \in Wired : s = w[Len(w)]
  BY <1>5
<1>7. PICK new : new = [s EXCEPT !.results = Append(s.results, c)]
  OBVIOUS
<1>8. new.uses = s.uses /\ new.role = s.role /\ new.results = Append(s.results, c)
  BY <1>6, <1>7 DEF Wired
<1>9. u = [w EXCEPT ![Len(w)] = new]
  BY <1>2, <1>3, <1>6, <1>7 DEF Calls!ToolResult, Calls!Last
<1>. QED
  BY <1>4, <1>5, <1>6, <1>8, <1>9 DEF OneMore

(* The results so far, in one message.                                     *)
Merging(v, u, cs, k) ==
  /\ v \in OnWire /\ Len(v) = Len(u) + 1 /\ \A i \in 1 .. Len(u) : v[i] = u[i]
  /\ v[Len(u) + 1].role = "user" /\ v[Len(u) + 1].uses = <<>>
  /\ Len(v[Len(u) + 1].results) = k /\ \A j \in 1 .. k : v[Len(u) + 1].results[j] = cs[j].id

(* The results so far, in one message each.                                *)
Listing(v, u, cs, k) ==
  /\ v \in OnWire /\ Len(v) = Len(u) + k /\ \A i \in 1 .. Len(u) : v[i] = u[i]
  /\ \A j \in 1 .. k : v[Len(u) + j].uses = <<>> /\ v[Len(u) + j].results = <<cs[j].id>>

LEMMA IdsAre ==
  ASSUME NEW cs \in Bares
  PROVE  Len(cs) \in Nat /\ DOMAIN cs = 1 .. Len(cs) /\ \A j \in 1 .. Len(cs) : cs[j].id \in Nat
<1>1. \A j \in 1 .. Len(cs) : cs[j] \in Bare
  BY DEF Bares
<1>. QED
  BY <1>1 DEF Bares, Bare

LEMMA Merges ==
  ASSUME NEW u \in OnWire, u # <<>>, u[Len(u)].role = "assistant", NEW cs \in Bares,
         NEW e, \A k \in 1 .. Len(cs) : e[k + 1] = Calls!NormalizeOne("anthropic", e[k], Result(cs[k].id)),
         e[1] = u
  PROVE  \A k \in 1 .. Len(cs) : Merging(e[k + 1], u, cs, k)
<1>. DEFINE Merged == {k \in Nat : k + 1 <= Len(cs) => Merging(e[k + 2], u, cs, k + 1)}
<1>. /\ Len(cs) \in Nat /\ \A j \in 1 .. Len(cs) : cs[j].id \in Nat
  BY IdsAre
<1>a. u \in Seq(Wired) /\ Len(u) \in Nat /\ "anthropic" \in Calls!Providers
  BY DEF OnWire, Calls!Providers
<1>1. 0 \in Merged
  <2>. SUFFICES ASSUME 1 <= Len(cs) PROVE Merging(e[2], u, cs, 1)
    OBVIOUS
  <2>1. PICK c \in Nat : c = cs[1].id
    OBVIOUS
  <2>2. PICK v : v = e[2]
    OBVIOUS
  <2>3. v = Calls!NormalizeOne("anthropic", u, Result(c))
    BY <2>1, <2>2
  <2>4. /\ v \in OnWire /\ Len(v) = Len(u) + 1 /\ \A i \in 1 .. Len(u) : v[i] = u[i]
        /\ v[Len(u) + 1].uses = <<>> /\ v[Len(u) + 1].results = <<c>> /\ v[Len(u) + 1].role = "user"
    <3>1. u[Len(u)].role # "user"
      OBVIOUS
    <3>2. NewResult("anthropic", u, c, v)
      BY <1>a, <2>3, <3>1, ResultNew
    <3>. QED
      BY <3>2 DEF NewResult
  <2>5. Len(v[Len(u) + 1].results) = 1 /\ v[Len(u) + 1].results[1] = c
    BY <2>4
  <2>6. \A j \in 1 .. 1 : v[Len(u) + 1].results[j] = cs[j].id
    BY <2>1, <2>5
  <2>7. Merging(v, u, cs, 1)
    BY <2>4, <2>5, <2>6 DEF Merging
  <2>. QED
    BY <2>2, <2>7
<1>2. ASSUME NEW k \in Nat, k \in Merged PROVE k + 1 \in Merged
  <2>. SUFFICES ASSUME k + 2 <= Len(cs) PROVE Merging(e[k + 3], u, cs, k + 2)
    OBVIOUS
  <2>1. PICK v : v = e[k + 2]
    OBVIOUS
  <2>2. PICK z : z = e[k + 3]
    OBVIOUS
  <2>3. PICK c \in Nat : c = cs[k + 2].id
    OBVIOUS
  <2>4. z = Calls!NormalizeOne("anthropic", v, Result(c))
    <3>1. PICK i \in 1 .. Len(cs) : i = k + 2
      OBVIOUS
    <3>2. e[i + 1] = Calls!NormalizeOne("anthropic", e[i], Result(cs[i].id)) /\ i + 1 = k + 3
      BY <3>1
    <3>. QED
      BY <2>1, <2>2, <2>3, <3>1, <3>2
  <2>5. Merging(v, u, cs, k + 1)
    BY <1>2, <2>1
  <2>6. /\ v \in OnWire /\ Len(v) = Len(u) + 1 /\ \A i \in 1 .. Len(u) : v[i] = u[i]
        /\ v[Len(u) + 1].role = "user" /\ v[Len(u) + 1].uses = <<>>
        /\ Len(v[Len(u) + 1].results) = k + 1
        /\ \A j \in 1 .. k + 1 : v[Len(u) + 1].results[j] = cs[j].id
    BY <2>5 DEF Merging
  <2>7. PICK rs \in Seq(Nat) : rs = v[Len(u) + 1].results
    <3>1. v[Len(u) + 1] \in Wired
      BY <1>a, <2>6 DEF OnWire
    <3>. QED
      BY <3>1 DEF Wired
  <2>8. v # <<>> /\ rs # <<>>
    BY <1>a, <2>6, <2>7 DEF OnWire
  <2>9. /\ z \in OnWire /\ Len(z) = Len(v) /\ \A i \in 1 .. Len(v) : i # Len(v) => z[i] = v[i]
        /\ z[Len(v)].uses = v[Len(v)].uses /\ z[Len(v)].role = "user"
        /\ z[Len(v)].results = Append(v[Len(v)].results, c)
    <3>1. v[Len(v)].role = "user" /\ v[Len(v)].results # <<>>
      BY <2>6, <2>7, <2>8
    <3>2. OneMore(v, c, z)
      BY <2>4, <2>6, <2>8, <3>1, ResultMerged
    <3>. QED
      BY <3>2 DEF OneMore
  <2>10. Len(Append(rs, c)) = k + 2 /\ \A j \in 1 .. k + 2 : Append(rs, c)[j] = cs[j].id
    <3>1. Len(rs) = k + 1 /\ \A j \in 1 .. k + 1 : rs[j] = cs[j].id
      BY <2>6, <2>7
    <3>2. Len(Append(rs, c)) = k + 2 /\ Append(rs, c)[k + 2] = c
      BY <3>1
    <3>3. \A j \in 1 .. k + 1 : Append(rs, c)[j] = rs[j]
      BY <3>1
    <3>4. \A j \in 1 .. k + 2 : j \in 1 .. k + 1 \/ j = k + 2
      OBVIOUS
    <3>. QED
      BY <2>3, <3>1, <3>2, <3>3, <3>4
  <2>11. z[Len(u) + 1].results = Append(rs, c)
    BY <2>6, <2>7, <2>9
  <2>12. \A i \in 1 .. Len(u) : z[i] = u[i]
    BY <1>a, <2>6, <2>9
  <2>13. Merging(z, u, cs, k + 2)
    BY <2>6, <2>9, <2>10, <2>11, <2>12 DEF Merging
  <2>. QED
    BY <2>2, <2>13
<1>3. Nat \subseteq Merged
  <2>. HIDE DEF Merged
  <2>. QED
    BY <1>1, <1>2, UpToAll
<1>4. ASSUME NEW k \in 1 .. Len(cs) PROVE Merging(e[k + 1], u, cs, k)
  <2>1. PICK i \in Nat : i = k - 1
    OBVIOUS
  <2>2. i + 2 = k + 1 /\ i + 1 = k /\ k <= Len(cs)
    BY <2>1
  <2>3. i \in Merged
    BY <1>3
  <2>. QED
    BY <2>2, <2>3
<1>. QED
  BY <1>4

LEMMA ListsEach ==
  ASSUME NEW p \in Calls!Providers, p # "anthropic", NEW u \in OnWire, u # <<>>, NEW cs \in Bares,
         NEW e, \A k \in 1 .. Len(cs) : e[k + 1] = Calls!NormalizeOne(p, e[k], Result(cs[k].id)),
         e[1] = u
  PROVE  Listing(e[Len(cs) + 1], u, cs, Len(cs))
<1>. DEFINE Each == {k \in Nat : k <= Len(cs) => Listing(e[k + 1], u, cs, k)}
<1>. /\ Len(cs) \in Nat /\ \A j \in 1 .. Len(cs) : cs[j].id \in Nat
  BY IdsAre
<1>a. u \in Seq(Wired) /\ Len(u) \in Nat
  BY DEF OnWire
<1>1. 0 \in Each
  BY <1>a DEF Listing
<1>2. ASSUME NEW k \in Nat, k \in Each PROVE k + 1 \in Each
  <2>. SUFFICES ASSUME k + 1 <= Len(cs) PROVE Listing(e[k + 2], u, cs, k + 1)
    OBVIOUS
  <2>1. PICK v : v = e[k + 1]
    OBVIOUS
  <2>2. PICK z : z = e[k + 2]
    OBVIOUS
  <2>3. PICK c \in Nat : c = cs[k + 1].id
    OBVIOUS
  <2>4. z = Calls!NormalizeOne(p, v, Result(c))
    <3>1. PICK i \in 1 .. Len(cs) : i = k + 1
      OBVIOUS
    <3>2. e[i + 1] = Calls!NormalizeOne(p, e[i], Result(cs[i].id)) /\ i + 1 = k + 2
      BY <3>1
    <3>. QED
      BY <2>1, <2>2, <2>3, <3>1, <3>2
  <2>5. Listing(v, u, cs, k)
    BY <1>2, <2>1
  <2>6. /\ v \in OnWire /\ Len(v) = Len(u) + k /\ \A i \in 1 .. Len(u) : v[i] = u[i]
        /\ \A j \in 1 .. k : v[Len(u) + j].uses = <<>> /\ v[Len(u) + j].results = <<cs[j].id>>
    BY <2>5 DEF Listing
  <2>7. v # <<>>
    <3>1. Len(u) # 0
      BY <1>a
    <3>2. Len(v) # 0
      BY <1>a, <2>6, <3>1
    <3>. QED
      BY <3>2
  <2>8. /\ z \in OnWire /\ Len(z) = Len(v) + 1 /\ \A i \in 1 .. Len(v) : z[i] = v[i]
        /\ z[Len(v) + 1].uses = <<>> /\ z[Len(v) + 1].results = <<c>>
    <3>1. NewResult(p, v, c, z)
      BY <2>4, <2>6, <2>7, ResultNew
    <3>. QED
      BY <3>1 DEF NewResult
  <2>9. \A i \in 1 .. Len(u) : z[i] = u[i]
    BY <1>a, <2>6, <2>8
  <2>10. ASSUME NEW j \in 1 .. k + 1
         PROVE  z[Len(u) + j].uses = <<>> /\ z[Len(u) + j].results = <<cs[j].id>>
    <3>1. CASE j \in 1 .. k
      <4>1. Len(u) + j \in 1 .. Len(v)
        BY <1>a, <2>6, <3>1
      <4>. QED
        BY <2>6, <2>8, <3>1, <4>1
    <3>2. CASE j = k + 1
      <4>1. Len(u) + j = Len(v) + 1
        BY <1>a, <2>6, <3>2
      <4>. QED
        BY <2>3, <2>8, <3>2, <4>1
    <3>. QED
      BY <3>1, <3>2
  <2>11. Len(z) = Len(u) + (k + 1)
    BY <1>a, <2>6, <2>8
  <2>12. Listing(z, u, cs, k + 1)
    BY <2>8, <2>9, <2>10, <2>11 DEF Listing
  <2>. QED
    BY <2>2, <2>12
<1>3. Nat \subseteq Each
  <2>. HIDE DEF Each
  <2>. QED
    BY <1>1, <1>2, UpToAll
<1>4. Len(cs) \in Each
  BY <1>3
<1>. QED
  BY <1>4

LEMMA AnswerIsBlock ==
  ASSUME NEW p \in Calls!Providers, NEW w \in OnWire, NEW t \in BOOLEAN, NEW cs \in Bares, cs # <<>>,
         NEW e, e[1] = Calls!NormalizeOne(p, w, Answer(t, cs)),
         \A k \in 1 .. Len(cs) : e[k + 1] = Calls!NormalizeOne(p, e[k], Result(cs[k].id))
  PROVE  Block(p, w, cs, e[Len(cs) + 1])
<1>1. /\ Len(cs) \in Nat /\ DOMAIN cs = 1 .. Len(cs) /\ \A j \in 1 .. Len(cs) : cs[j].id \in Nat
  BY IdsAre
<1>2. Len(cs) # 0 /\ Len(w) \in Nat
  BY DEF Bares, OnWire
<1>3. PICK u : u = e[1]
  OBVIOUS
<1>4. /\ u \in OnWire /\ Len(u) = Len(w) + 1 /\ \A i \in 1 .. Len(w) : u[i] = w[i]
      /\ u[Len(w) + 1].uses = cs /\ u[Len(w) + 1].results = <<>> /\ u[Len(w) + 1].role = "assistant"
  BY <1>3, AnswerPut
<1>5. u # <<>> /\ u[Len(u)].role = "assistant"
  BY <1>2, <1>4
<1>6. PICK v : v = e[Len(cs) + 1]
  OBVIOUS
<1>7. CASE p = "anthropic"
  <2>1. Merging(v, u, cs, Len(cs))
    <3>1. \A k \in 1 .. Len(cs) : e[k + 1] = Calls!NormalizeOne("anthropic", e[k], Result(cs[k].id))
      BY <1>7
    <3>2. \A k \in 1 .. Len(cs) : Merging(e[k + 1], u, cs, k)
      BY <1>3, <1>4, <1>5, <3>1, Merges
    <3>3. Len(cs) \in 1 .. Len(cs)
      BY <1>1, <1>2
    <3>. QED
      BY <1>6, <3>2, <3>3
  <2>2. /\ v \in OnWire /\ Len(v) = Len(u) + 1 /\ \A i \in 1 .. Len(u) : v[i] = u[i]
        /\ v[Len(u) + 1].uses = <<>>
        /\ Len(v[Len(u) + 1].results) = Len(cs) /\ \A j \in 1 .. Len(cs) : v[Len(u) + 1].results[j] = cs[j].id
    BY <2>1 DEF Merging
  <2>3. v[Len(u) + 1].results = Calls!Ids(cs)
    <3>1. PICK rs \in Seq(Nat) : rs = v[Len(u) + 1].results
      <4>1. v[Len(u) + 1] \in Wired
        BY <1>2, <1>4, <2>2 DEF OnWire
      <4>. QED
        BY <4>1 DEF Wired
    <3>2. Calls!Ids(cs) = [i \in 1 .. Len(cs) |-> cs[i].id]
      BY <1>1 DEF Calls!Ids
    <3>3. rs = [i \in 1 .. Len(cs) |-> rs[i]]
      BY <2>2, <3>1
    <3>. QED
      BY <2>2, <3>1, <3>2, <3>3
  <2>4. Follow(p, cs) = 1 /\ \A k : Results(p, cs, k) = Calls!Ids(cs)
    BY <1>7 DEF Follow, Results
  <2>5. \A i \in 1 .. Len(w) : v[i] = w[i]
    BY <1>2, <1>4, <2>2
  <2>6. v[Len(w) + 1].uses = cs /\ v[Len(w) + 1].results = <<>> /\ Len(v) = Len(w) + 1 + Follow(p, cs)
    BY <1>2, <1>4, <2>2, <2>4
  <2>7. ASSUME NEW k \in 1 .. Follow(p, cs)
        PROVE  v[Len(w) + 1 + k].uses = <<>> /\ v[Len(w) + 1 + k].results = Results(p, cs, k)
    <3>1. Len(w) + 1 + k = Len(u) + 1
      BY <1>2, <1>4, <2>4
    <3>. QED
      BY <2>2, <2>3, <2>4, <3>1
  <2>. QED
    BY <1>6, <2>2, <2>5, <2>6, <2>7 DEF Block
<1>8. CASE p # "anthropic"
  <2>1. Listing(v, u, cs, Len(cs))
    BY <1>3, <1>4, <1>5, <1>6, <1>8, ListsEach
  <2>2. /\ v \in OnWire /\ Len(v) = Len(u) + Len(cs) /\ \A i \in 1 .. Len(u) : v[i] = u[i]
        /\ \A j \in 1 .. Len(cs) : v[Len(u) + j].uses = <<>> /\ v[Len(u) + j].results = <<cs[j].id>>
    BY <2>1 DEF Listing
  <2>3. Follow(p, cs) = Len(cs) /\ \A k : Results(p, cs, k) = <<cs[k].id>>
    BY <1>8 DEF Follow, Results
  <2>4. \A i \in 1 .. Len(w) : v[i] = w[i]
    BY <1>2, <1>4, <2>2
  <2>5. v[Len(w) + 1].uses = cs /\ v[Len(w) + 1].results = <<>> /\ Len(v) = Len(w) + 1 + Follow(p, cs)
    BY <1>1, <1>2, <1>4, <2>2, <2>3
  <2>6. ASSUME NEW k \in 1 .. Follow(p, cs)
        PROVE  v[Len(w) + 1 + k].uses = <<>> /\ v[Len(w) + 1 + k].results = Results(p, cs, k)
    <3>1. Len(w) + 1 + k = Len(u) + k /\ k \in 1 .. Len(cs)
      BY <1>4, <2>3
    <3>. QED
      BY <2>2, <2>3, <3>1
  <2>. QED
    BY <1>6, <2>2, <2>4, <2>5, <2>6 DEF Block
<1>. QED
  BY <1>7, <1>8

(* What was said is not taken back by what is said next.                   *)
WholeAt(p, w, i) ==
  /\ i + Follow(p, w[i].uses) <= Len(w)
  /\ \A k \in 1 .. Follow(p, w[i].uses) : w[i + k].results = Results(p, w[i].uses, k)
  /\ i + Follow(p, w[i].uses) < Len(w) => w[i + Follow(p, w[i].uses) + 1].results = <<>>

WholeOn(p, w) == \A i \in 1 .. Len(w) : w[i].uses # <<>> => WholeAt(p, w, i)

UsesOf(w) == [i \in DOMAIN w |-> w[i].uses]

LEMMA UsesTyped ==
  ASSUME NEW w \in OnWire
  PROVE  /\ UsesOf(w) \in Lists /\ Len(UsesOf(w)) = Len(w) /\ \A i \in 1 .. Len(w) : UsesOf(w)[i] = w[i].uses
         /\ \A i \in 1 .. Len(w) : w[i].uses \in Bares
<1>1. Len(w) \in Nat /\ DOMAIN w = 1 .. Len(w) /\ \A i \in 1 .. Len(w) : w[i] \in Wired
  BY DEF OnWire
<1>2. \A i \in 1 .. Len(w) : w[i].uses \in Bares
  BY <1>1 DEF Wired, Bares
<1>3. UsesOf(w) = [i \in 1 .. Len(w) |-> w[i].uses]
  BY <1>1 DEF UsesOf
<1>. QED
  BY <1>1, <1>2, <1>3 DEF Lists

LEMMA FollowNat == ASSUME NEW p, NEW cs \in Bares PROVE Follow(p, cs) \in Nat
BY IdsAre DEF Follow

LEMMA WholeStays ==
  ASSUME NEW p, NEW w \in OnWire, WholeOn(p, w), NEW w2 \in OnWire, Len(w) < Len(w2),
         \A i \in 1 .. Len(w) : w2[i] = w[i], w2[Len(w) + 1].results = <<>>
  PROVE  \A i \in 1 .. Len(w) : w2[i].uses # <<>> => WholeAt(p, w2, i)
<1>1. Len(w) \in Nat /\ Len(w2) \in Nat
  BY DEF OnWire
<1>2. SUFFICES ASSUME NEW i \in 1 .. Len(w), w2[i].uses # <<>> PROVE WholeAt(p, w2, i)
  OBVIOUS
<1>3. PICK cs \in Bares : cs = w[i].uses
  BY UsesTyped
<1>4. PICK n \in Nat : n = Follow(p, cs)
  BY FollowNat
<1>5. w2[i].uses = cs /\ cs # <<>>
  BY <1>2, <1>3
<1>6. /\ i + n <= Len(w)
      /\ \A k \in 1 .. n : w[i + k].results = Results(p, cs, k)
      /\ i + n < Len(w) => w[i + n + 1].results = <<>>
  BY <1>3, <1>4, <1>5 DEF WholeOn, WholeAt
<1>7. \A k \in 1 .. n : i + k \in 1 .. Len(w)
  BY <1>1, <1>6
<1>8. \A k \in 1 .. n : w2[i + k].results = Results(p, cs, k)
  BY <1>6, <1>7
<1>9. w2[i + n + 1].results = <<>>
  <2>1. CASE i + n < Len(w)
    <3>1. i + n + 1 \in 1 .. Len(w)
      BY <1>1, <2>1
    <3>. QED
      BY <1>6, <2>1, <3>1
  <2>2. CASE i + n = Len(w)
    BY <2>2
  <2>. QED
    BY <1>1, <1>6, <2>1, <2>2
<1>10. i + n <= Len(w2)
  BY <1>1, <1>6
<1>. QED
  BY <1>4, <1>5, <1>8, <1>9, <1>10 DEF WholeAt

Joins(p, w, cs, w2) ==
  /\ w2 \in OnWire /\ WholeOn(p, w2)
  /\ Calls!NonEmpty(UsesOf(w2)) = Calls!NotEmpty(Calls!NonEmpty(UsesOf(w)), cs)

LEMMA BlockJoins ==
  ASSUME NEW p \in Calls!Providers, NEW w \in OnWire, WholeOn(p, w), NEW cs \in Bares, cs # <<>>,
         NEW w2, Block(p, w, cs, w2)
  PROVE  Joins(p, w, cs, w2)
<1>1. PICK n \in Nat : n = Follow(p, cs)
  BY FollowNat
<1>2. /\ w2 \in OnWire /\ Len(w2) = Len(w) + 1 + n /\ Len(w) \in Nat
      /\ \A i \in 1 .. Len(w) : w2[i] = w[i]
      /\ w2[Len(w) + 1].uses = cs /\ w2[Len(w) + 1].results = <<>>
      /\ \A k \in 1 .. n : w2[Len(w) + 1 + k].uses = <<>> /\ w2[Len(w) + 1 + k].results = Results(p, cs, k)
  BY <1>1 DEF Block, OnWire
<1>3. \A i \in 1 .. Len(w2) : i > Len(w) + 1 => w2[i].uses = <<>>
  <2>1. SUFFICES ASSUME NEW i \in 1 .. Len(w2), i > Len(w) + 1 PROVE w2[i].uses = <<>>
    OBVIOUS
  <2>2. PICK k : k = i - (Len(w) + 1)
    OBVIOUS
  <2>3. Len(w) + 1 + k = i /\ k \in 1 .. n
    BY <1>2, <2>1, <2>2
  <2>. QED
    BY <1>2, <2>3
<1>4. WholeOn(p, w2)
  <2>1. \A i \in 1 .. Len(w) : w2[i].uses # <<>> => WholeAt(p, w2, i)
    <3>1. Len(w) < Len(w2)
      BY <1>2
    <3>. QED
      BY <1>2, <3>1, WholeStays
  <2>2. WholeAt(p, w2, Len(w) + 1)
    BY <1>1, <1>2 DEF WholeAt
  <2>3. \A i \in 1 .. Len(w2) : i \in 1 .. Len(w) \/ i = Len(w) + 1 \/ i > Len(w) + 1
    BY <1>2
  <2>4. \A i \in 1 .. Len(w2) : w2[i].uses # <<>> => i \in 1 .. Len(w) \/ i = Len(w) + 1
    BY <1>3, <2>3
  <2>. QED
    BY <2>1, <2>2, <2>4 DEF WholeOn
<1>5. Calls!NonEmpty(UsesOf(w2)) = Calls!NotEmpty(Calls!NonEmpty(UsesOf(w)), cs)
  <2>1. PICK a \in Lists : a = UsesOf(w)
    BY UsesTyped
  <2>2. PICK b \in Lists : b = UsesOf(w2)
    BY <1>2, UsesTyped
  <2>3. Len(a) = Len(w) /\ \A i \in 1 .. Len(w) : a[i] = w[i].uses
    BY <2>1, UsesTyped
  <2>4. Len(b) = Len(w2) /\ \A i \in 1 .. Len(w2) : b[i] = w2[i].uses
    BY <1>2, <2>2, UsesTyped
  <2>5. Len(a) < Len(b) /\ \A i \in 1 .. Len(a) : b[i] = a[i]
    BY <1>2, <2>3, <2>4
  <2>6. \A i \in 1 .. Len(b) : i > Len(a) + 1 => b[i] = <<>>
    BY <1>2, <1>3, <2>3, <2>4
  <2>7. b[Len(a) + 1] = cs
    <3>1. Len(w) + 1 \in 1 .. Len(w2)
      BY <1>2
    <3>. QED
      BY <1>2, <2>3, <2>4, <3>1
  <2>8. Calls!NonEmpty(b) = Calls!NotEmpty(Calls!NonEmpty(a), b[Len(a) + 1])
    BY <2>5, <2>6, FillGrows
  <2>. QED
    BY <2>1, <2>2, <2>7, <2>8
<1>. QED
  BY <1>2, <1>4, <1>5 DEF Joins

LEMMA PlainPut ==
  ASSUME NEW p \in Calls!Providers, NEW w \in OnWire, NEW r \in {"user", "assistant"}, NEW t \in BOOLEAN,
         NEW w2, w2 = Calls!NormalizeOne(p, w, Calls!Message(r, t, <<>>, 0))
  PROVE  /\ w2 \in OnWire /\ Len(w2) = Len(w) + 1 /\ \A i \in 1 .. Len(w) : w2[i] = w[i]
         /\ w2[Len(w) + 1].uses = <<>> /\ w2[Len(w) + 1].results = <<>>
<1>. r \in Role /\ <<>> \in Bares /\ <<>> \in Seq(Nat) /\ r # "tool" /\ 0 \in Nat
  BY DEF Role, Bares
<1>1. PICK m \in Neutral : m = Calls!Message(r, t, <<>>, 0)
  BY MessageTyped
<1>2. m.calls = <<>> /\ m.role = r /\ m.text = t
  BY <1>1 DEF Calls!Message
<1>3. PICK s \in Wired : s = Calls!Sent(r, t, <<>>, <<>>)
  BY SentTyped
<1>4. s.uses = <<>> /\ s.results = <<>>
  BY <1>3 DEF Calls!Sent
<1>5. w2 = Append(w, s)
  BY <1>1, <1>2, <1>3 DEF Calls!NormalizeOne
<1>6. w \in Seq(Wired) /\ w2 \in OnWire
  BY <1>1, OneTyped DEF OnWire
<1>. QED
  BY <1>4, <1>5, <1>6

LEMMA PlainJoins ==
  ASSUME NEW p \in Calls!Providers, NEW w \in OnWire, WholeOn(p, w), NEW r \in {"user", "assistant"},
         NEW t \in BOOLEAN
  PROVE  Joins(p, w, <<>>, Calls!NormalizeOne(p, w, Calls!Message(r, t, <<>>, 0)))
<1>1. PICK w2 : w2 = Calls!NormalizeOne(p, w, Calls!Message(r, t, <<>>, 0))
  OBVIOUS
<1>2. /\ w2 \in OnWire /\ Len(w2) = Len(w) + 1 /\ \A i \in 1 .. Len(w) : w2[i] = w[i]
      /\ w2[Len(w) + 1].uses = <<>> /\ w2[Len(w) + 1].results = <<>>
  BY <1>1, PlainPut
<1>3. Len(w) \in Nat
  BY DEF OnWire
<1>4. WholeOn(p, w2)
  <2>1. \A i \in 1 .. Len(w) : w2[i].uses # <<>> => WholeAt(p, w2, i)
    <3>1. Len(w) < Len(w2)
      BY <1>2, <1>3
    <3>. QED
      BY <1>2, <3>1, WholeStays
  <2>2. \A i \in 1 .. Len(w2) : i \in 1 .. Len(w) \/ i = Len(w) + 1
    BY <1>2, <1>3
  <2>. QED
    BY <1>2, <2>1, <2>2 DEF WholeOn
<1>5. Calls!NonEmpty(UsesOf(w2)) = Calls!NotEmpty(Calls!NonEmpty(UsesOf(w)), <<>>)
  <2>1. PICK a \in Lists : a = UsesOf(w)
    BY UsesTyped
  <2>2. PICK b \in Lists : b = UsesOf(w2)
    BY <1>2, UsesTyped
  <2>3. Len(a) = Len(w) /\ \A i \in 1 .. Len(w) : a[i] = w[i].uses
    BY <2>1, UsesTyped
  <2>4. Len(b) = Len(w2) /\ \A i \in 1 .. Len(w2) : b[i] = w2[i].uses
    BY <1>2, <2>2, UsesTyped
  <2>5. Len(a) < Len(b) /\ \A i \in 1 .. Len(a) : b[i] = a[i]
    BY <1>2, <1>3, <2>3, <2>4
  <2>6. \A i \in 1 .. Len(b) : i > Len(a) + 1 => b[i] = <<>>
    BY <1>2, <1>3, <2>3, <2>4
  <2>7. b[Len(a) + 1] = <<>>
    <3>1. Len(w) + 1 \in 1 .. Len(w2)
      BY <1>2, <1>3
    <3>. QED
      BY <1>2, <2>3, <2>4, <3>1
  <2>8. Calls!NonEmpty(b) = Calls!NotEmpty(Calls!NonEmpty(a), b[Len(a) + 1])
    BY <2>5, <2>6, FillGrows
  <2>. QED
    BY <2>1, <2>2, <2>7, <2>8
<1>. QED
  BY <1>1, <1>2, <1>4, <1>5 DEF Joins

(* What Finish adds, as the messages of one answer.                        *)
Added(t, cs) ==
  <<Answer(t, cs)>> \o (IF cs = <<>> THEN <<Calls!Message("user", TRUE, <<>>, 0)>>
                        ELSE [i \in DOMAIN cs |-> Calls!Message("tool", TRUE, <<>>, cs[i].id)])

LEMMA AddedJoins ==
  ASSUME NEW p \in Calls!Providers, NEW ms \in Seq(Neutral), NEW t \in BOOLEAN, NEW cs \in Bares,
         NEW xs, xs = Added(t, cs), NEW all, all = ms \o xs,
         NEW w, w = Calls!NormalizeMessages(p, ms), WholeOn(p, w)
  PROVE  xs \in Seq(Neutral) /\ Joins(p, w, cs, Calls!NormalizeMessages(p, all))
<1>. "assistant" \in Role /\ "user" \in Role /\ "tool" \in Role /\ <<>> \in Bares /\ 0 \in Nat
  BY DEF Role, Bares
<1>1. /\ Len(cs) \in Nat /\ DOMAIN cs = 1 .. Len(cs) /\ \A j \in 1 .. Len(cs) : cs[j].id \in Nat
  BY IdsAre
<1>2. PICK a \in Neutral : a = Answer(t, cs)
  BY MessageTyped DEF Answer
<1>3. CASE cs = <<>>
  <2>1. PICK b \in Neutral : b = Calls!Message("user", TRUE, <<>>, 0)
    BY MessageTyped
  <2>2. <<a>> \in Seq(Neutral) /\ Len(<<a>>) = 1 /\ <<a>>[1] = a /\ <<b>> \in Seq(Neutral) /\ Len(<<b>>) = 1 /\ <<b>>[1] = b
    OBVIOUS
  <2>3. xs \in Seq(Neutral) /\ Len(xs) = 2 /\ xs[1] = a /\ xs[2] = b
    <3>1. xs = <<a>> \o <<b>>
      BY <1>2, <1>3, <2>1 DEF Added
    <3>. QED
      BY <2>2, <3>1
  <2>4. PICK e : Goes(e, p, w, xs, Calls!NormalizeMessages(p, all))
    BY <2>3, NormalizeGoesOn
  <2>5. e[0] = w /\ e[2] = Calls!NormalizeMessages(p, all) /\ w \in OnWire
    BY <2>3, <2>4 DEF Goes
  <2>6. e[1] = Calls!NormalizeOne(p, w, a) /\ e[2] = Calls!NormalizeOne(p, e[1], b)
    <3>1. 1 \in 1 .. Len(xs) /\ 2 \in 1 .. Len(xs) /\ 1 - 1 = 0 /\ 2 - 1 = 1
      BY <2>3
    <3>. QED
      BY <2>3, <2>4, <2>5, <3>1 DEF Goes
  <2>7. a = Calls!Message("assistant", t, <<>>, 0)
    BY <1>2, <1>3 DEF Answer
  <2>8. Joins(p, w, <<>>, e[1])
    BY <2>5, <2>6, <2>7, PlainJoins
  <2>9. e[1] \in OnWire /\ WholeOn(p, e[1])
    BY <2>8 DEF Joins
  <2>10. Joins(p, e[1], <<>>, e[2])
    BY <2>1, <2>6, <2>9, PlainJoins
  <2>11. Joins(p, w, <<>>, e[2])
    BY <2>8, <2>10 DEF Joins, Calls!NotEmpty
  <2>. QED
    BY <1>3, <2>3, <2>5, <2>11
<1>4. CASE cs # <<>>
  <2>1. PICK ts : ts = [i \in 1 .. Len(cs) |-> Result(cs[i].id)]
    OBVIOUS
  <2>2. \A i \in 1 .. Len(cs) : Result(cs[i].id) \in Neutral
    BY <1>1, MessageTyped DEF Result
  <2>3. ts \in Seq(Neutral) /\ Len(ts) = Len(cs)
    BY <1>1, <2>1, <2>2
  <2>4. xs = <<a>> \o ts
    BY <1>1, <1>2, <1>4, <2>1 DEF Added, Result
  <2>5. xs \in Seq(Neutral) /\ Len(xs) = Len(cs) + 1 /\ xs[1] = a
    BY <1>1, <2>3, <2>4
  <2>6. \A k \in 1 .. Len(cs) : xs[k + 1] = Result(cs[k].id)
    BY <1>1, <2>1, <2>3, <2>4
  <2>7. PICK e : Goes(e, p, w, xs, Calls!NormalizeMessages(p, all))
    BY <2>5, NormalizeGoesOn
  <2>8. e[0] = w /\ e[Len(cs) + 1] = Calls!NormalizeMessages(p, all) /\ w \in OnWire
    BY <1>1, <2>5, <2>7 DEF Goes
  <2>9. e[1] = Calls!NormalizeOne(p, w, Answer(t, cs))
    <3>1. 1 \in 1 .. Len(xs) /\ 1 - 1 = 0
      BY <1>1, <2>5
    <3>. QED
      BY <1>2, <2>5, <2>7, <2>8, <3>1 DEF Goes
  <2>10. ASSUME NEW k \in 1 .. Len(cs) PROVE e[k + 1] = Calls!NormalizeOne(p, e[k], Result(cs[k].id))
    <3>1. PICK i : i = k + 1
      OBVIOUS
    <3>2. i \in 1 .. Len(xs) /\ i - 1 = k
      BY <1>1, <2>5, <3>1
    <3>3. e[i] = Calls!NormalizeOne(p, e[i - 1], xs[i])
      BY <2>7, <3>2 DEF Goes
    <3>. QED
      BY <2>6, <3>1, <3>2, <3>3
  <2>11. Block(p, w, cs, e[Len(cs) + 1])
    BY <1>4, <2>8, <2>9, <2>10, AnswerIsBlock
  <2>. QED
    BY <1>4, <2>5, <2>8, <2>11, BlockJoins
<1>. QED
  BY <1>3, <1>4

-----------------------------------------------------------------------------
(* Calls are assembled as they were meant: the place of a call bounds the  *)
(* index of its fragments.                                                 *)
Placed(cs) == cs \in Seq(CallRec) /\ \A i \in 1 .. Len(cs) : cs[i].index \in {2 * i, 2 * i + 1}

LEMMA PushNew ==
  ASSUME NEW cs \in Seq(CallRec), NEW d \in CallRec, d.id # 0, d.args = <<>>,
         \A i \in 1 .. Len(cs) : cs[i].index # d.index
  PROVE  Calls!PushToolDelta(cs, d) = Append(cs, d)
<1>1. PICK blank : blank = [index |-> d.index, id |-> 0, named |-> FALSE, args |-> <<>>]
  OBVIOUS
<1>2. d.index \in Nat /\ d.id \in Nat /\ d.named \in BOOLEAN /\ <<>> \in Seq(Nat)
  BY DEF CallRec
<1>3. blank \in CallRec
  BY <1>1, <1>2 DEF CallRec
<1>4. PICK all \in Seq(CallRec) : all = Append(cs, blank)
  <2>1. Append(cs, blank) \in Seq(CallRec)
    BY <1>3
  <2>. QED
    BY <2>1
<1>5. Calls!Taking(blank, d) = d
  <2>1. blank.index = d.index /\ blank.named = FALSE /\ blank.args = <<>>
    BY <1>1
  <2>2. (FALSE \/ d.named) = d.named
    BY <1>2
  <2>3. <<>> \o <<>> = <<>>
    OBVIOUS
  <2>4. Calls!Taking(blank, d) = [blank EXCEPT !.id = d.id, !.named = d.named, !.args = <<>>]
    <3>1. (blank.named \/ d.named) = d.named /\ blank.args \o d.args = <<>>
      BY <2>1, <2>2, <2>3
    <3>. QED
      BY <3>1 DEF Calls!Taking
  <2>5. PICK new : new = [blank EXCEPT !.id = d.id, !.named = d.named, !.args = <<>>]
    OBVIOUS
  <2>6. new \in CallRec /\ new.index = d.index /\ new.id = d.id /\ new.named = d.named /\ new.args = <<>>
    BY <1>2, <1>3, <2>1, <2>5 DEF CallRec
  <2>7. new = d
    <3>1. new = [index |-> new.index, id |-> new.id, named |-> new.named, args |-> new.args]
      BY <2>6 DEF CallRec
    <3>2. d = [index |-> d.index, id |-> d.id, named |-> d.named, args |-> d.args]
      BY DEF CallRec
    <3>. QED
      BY <2>6, <3>1, <3>2
  <2>. QED
    BY <2>4, <2>5, <2>7
<1>8. Len(all) = Len(cs) + 1 /\ all[Len(all)] = blank /\ Len(cs) \in Nat
  BY <1>4
<1>9. {i \in DOMAIN cs : cs[i].index = d.index} = {}
  OBVIOUS
<1>10. Calls!PushToolDelta(cs, d) = [all EXCEPT ![Len(all)] = Calls!Taking(blank, d)]
  BY <1>1, <1>4, <1>8, <1>9 DEF Calls!PushToolDelta
<1>11. PICK l \in Seq(CallRec) : l = [all EXCEPT ![Len(all)] = d]
  <2>1. [all EXCEPT ![Len(all)] = d] \in Seq(CallRec)
    BY <1>8
  <2>. QED
    BY <2>1
<1>12. PICK r \in Seq(CallRec) : r = Append(cs, d)
  <2>1. Append(cs, d) \in Seq(CallRec)
    OBVIOUS
  <2>. QED
    BY <2>1
<1>13. Len(l) = Len(cs) + 1 /\ Len(r) = Len(cs) + 1
  BY <1>8, <1>11, <1>12
<1>14. ASSUME NEW i \in 1 .. Len(cs) + 1 PROVE l[i] = r[i]
  <2>1. CASE i \in 1 .. Len(cs)
    <3>1. all[i] = cs[i]
      BY <1>4, <2>1
    <3>4. i \in 1 .. Len(all) /\ i # Len(all)
      BY <1>8, <2>1
    <3>3. l[i] = all[i]
      BY <1>11, <3>4
    <3>2. r[i] = cs[i]
      BY <1>12, <2>1
    <3>. QED
      BY <3>1, <3>2, <3>3
  <2>2. CASE i = Len(cs) + 1
    <3>1. l[i] = d
      BY <1>8, <1>11, <2>2
    <3>2. r[i] = d
      BY <1>12, <2>2
    <3>. QED
      BY <3>1, <3>2
  <2>. QED
    BY <1>8, <2>1, <2>2
<1>15. l = r
  BY <1>8, <1>13, <1>14, SeqEqual
<1>. QED
  BY <1>5, <1>10, <1>11, <1>12, <1>15

LEMMA PushMore ==
  ASSUME NEW cs, Placed(cs), NEW i \in 1 .. Len(cs), NEW x \in Nat,
         NEW d, d = [index |-> cs[i].index, id |-> 0, named |-> FALSE, args |-> <<x>>],
         NEW z, z = [cs EXCEPT ![i].args = @ \o d.args]
  PROVE  Calls!PushToolDelta(cs, d) = z /\ Placed(z)
<1>1. cs \in Seq(CallRec) /\ Len(cs) \in Nat /\ DOMAIN cs = 1 .. Len(cs) /\ \A j \in 1 .. Len(cs) : cs[j] \in CallRec
  BY DEF Placed
<1>2. PICK c \in CallRec : c = cs[i]
  BY <1>1
<1>3. c.index \in Nat /\ c.id \in Nat /\ c.named \in BOOLEAN /\ c.args \in Seq(Nat)
  BY DEF CallRec
<1>4. {k \in DOMAIN cs : cs[k].index = d.index} = {i}
  <2>1. ASSUME NEW k \in 1 .. Len(cs), cs[k].index = cs[i].index PROVE k = i
    <3>1. cs[k].index \in {2 * k, 2 * k + 1} /\ cs[i].index \in {2 * i, 2 * i + 1}
      BY DEF Placed
    <3>. QED
      BY <1>1, <2>1, <3>1
  <2>. QED
    BY <1>1, <2>1
<1>5. (CHOOSE k \in {i} : TRUE) = i
  OBVIOUS
<1>6. PICK more \in Seq(Nat) : more = c.args \o <<x>>
  <2>1. <<x>> \in Seq(Nat)
    OBVIOUS
  <2>2. c.args \o <<x>> \in Seq(Nat)
    BY <1>3, <2>1
  <2>. QED
    BY <2>2
<1>7. PICK new \in CallRec : new = [c EXCEPT !.args = more]
  <2>1. [c EXCEPT !.args = more] \in CallRec
    BY <1>3, <1>6 DEF CallRec
  <2>. QED
    BY <2>1
<1>8. Calls!Taking(c, d) = new
  <2>1. (c.named \/ FALSE) = c.named
    BY <1>3
  <2>2. d.id = 0 /\ d.named = FALSE /\ d.args = <<x>>
    OBVIOUS
  <2>3. Calls!Taking(c, d) = [c EXCEPT !.id = c.id, !.named = c.named, !.args = more]
    BY <1>6, <2>1, <2>2 DEF Calls!Taking
  <2>4. [c EXCEPT !.id = c.id, !.named = c.named, !.args = more] = new
    BY <1>7 DEF CallRec
  <2>. QED
    BY <2>3, <2>4
<1>9. z = [cs EXCEPT ![i] = new]
  BY <1>2, <1>6, <1>7
<1>10. Calls!PushToolDelta(cs, d) = [cs EXCEPT ![i] = Calls!Taking(c, d)]
  <2>1. {i} # {}
    OBVIOUS
  <2>. QED
    BY <1>2, <1>4, <1>5, <2>1, Zenon DEF Calls!PushToolDelta
<1>11. Calls!PushToolDelta(cs, d) = [cs EXCEPT ![i] = new]
  BY <1>8, <1>10
<1>12. Placed(z)
  <2>1. z \in Seq(CallRec)
    BY <1>1, <1>9
  <2>2. new.index = c.index
    BY <1>7 DEF CallRec
  <2>3. Len(z) = Len(cs) /\ \A j \in 1 .. Len(cs) : z[j].index = cs[j].index
    BY <1>1, <1>2, <1>9, <2>1, <2>2
  <2>. QED
    BY <2>1, <2>3 DEF Placed
<1>. QED
  BY <1>9, <1>11, <1>12

WireInv ==
  /\ calls = given /\ Placed(given)
  /\ conv \in Seq(Neutral) /\ meant \in Lists
  /\ \A p \in Calls!Providers :
       LET w == Calls!NormalizeMessages(p, conv)
       IN  w \in OnWire /\ WholeOn(p, w) /\ Calls!NonEmpty(UsesOf(w)) = Calls!NonEmpty(meant)

LEMMA WireStarts == Calls!Init => WireInv
<1>. SUFFICES ASSUME Calls!Init PROVE WireInv
  OBVIOUS
<1>1. calls = <<>> /\ given = <<>> /\ conv = <<>> /\ meant = <<>>
  BY DEF Calls!Init
<1>2. Placed(<<>>) /\ <<>> \in Seq(Neutral) /\ <<>> \in Lists /\ <<>> \in OnWire
  BY DEF Placed, Lists, OnWire
<1>3. UsesOf(<<>>) = <<>> /\ \A p : WholeOn(p, <<>>)
  BY DEF UsesOf, WholeOn
<1>. QED
  BY <1>1, <1>2, <1>3, NothingYet DEF WireInv

LEMMA BeginsKeeps == ASSUME WireInv, Calls!Begins PROVE WireInv'
<1>1. Placed(given) /\ calls = given /\ conv' = conv /\ meant' = meant
  BY DEF WireInv, Calls!Begins
<1>2. given \in Seq(CallRec) /\ Len(given) \in Nat
  BY <1>1 DEF Placed
<1>3. PICK n \in Nat : n = Len(given) + 1
  BY <1>2
<1>4. PICK named \in BOOLEAN, gap \in {0, 1} :
        /\ calls' = Calls!PushToolDelta(calls, [index |-> 2 * n + gap, id |-> 10 * Len(meant) + n, named |-> named, args |-> <<>>])
        /\ given' = Append(given, [index |-> 2 * n + gap, id |-> 10 * Len(meant) + n, named |-> named, args |-> <<>>])
  BY <1>3 DEF Calls!Begins
<1>5. PICK d : d = [index |-> 2 * n + gap, id |-> 10 * Len(meant) + n, named |-> named, args |-> <<>>]
  OBVIOUS
<1>6. d.index = 2 * n + gap /\ d.id = 10 * Len(meant) + n /\ d.named = named /\ d.args = <<>>
  BY <1>5
<1>7. Len(meant) \in Nat
  BY DEF WireInv, Lists
<1>8. d.index \in {2 * n, 2 * n + 1} /\ d.id \in Nat /\ d.id # 0
  BY <1>2, <1>3, <1>6, <1>7
<1>9. d \in CallRec
  <2>1. d.index \in Nat /\ d.id \in Nat /\ d.named \in BOOLEAN /\ d.args \in Seq(Nat)
    BY <1>6, <1>8
  <2>. QED
    BY <1>5, <2>1 DEF CallRec
<1>10. \A i \in 1 .. Len(given) : given[i].index # d.index
  BY <1>1, <1>2, <1>3, <1>8 DEF Placed
<1>11. calls' = Append(given, d) /\ given' = Append(given, d)
  BY <1>1, <1>2, <1>4, <1>5, <1>6, <1>8, <1>9, <1>10, PushNew
<1>12. Placed(Append(given, d))
  <2>1. PICK z : z = Append(given, d)
    OBVIOUS
  <2>2. z \in Seq(CallRec) /\ Len(z) = n /\ z[n] = d /\ \A i \in 1 .. Len(given) : z[i] = given[i]
    BY <1>2, <1>3, <1>9, <2>1
  <2>3. \A i \in 1 .. n : i \in 1 .. Len(given) \/ i = n
    BY <1>2, <1>3
  <2>4. \A i \in 1 .. Len(given) : given[i].index \in {2 * i, 2 * i + 1}
    BY <1>1 DEF Placed
  <2>. QED
    BY <1>8, <2>1, <2>2, <2>3, <2>4 DEF Placed
<1>. QED
  BY <1>1, <1>11, <1>12 DEF WireInv

LEMMA GoesKeeps == ASSUME WireInv, Calls!Goes PROVE WireInv'
<1>1. Placed(given) /\ calls = given /\ conv' = conv /\ meant' = meant
  BY DEF WireInv, Calls!Goes
<1>2. given \in Seq(CallRec) /\ DOMAIN given = 1 .. Len(given)
  BY <1>1 DEF Placed
<1>3. PICK i \in 1 .. Len(given) :
        /\ calls' = Calls!PushToolDelta(calls, [index |-> given[i].index, id |-> 0, named |-> FALSE, args |-> <<Len(given[i].args) + 1>>])
        /\ given' = [given EXCEPT ![i].args = @ \o [index |-> given[i].index, id |-> 0, named |-> FALSE, args |-> <<Len(given[i].args) + 1>>].args]
  BY <1>2 DEF Calls!Goes
<1>4. PICK x \in Nat : x = Len(given[i].args) + 1
  <2>1. given[i] \in CallRec
    BY <1>2
  <2>2. given[i].args \in Seq(Nat)
    BY <2>1 DEF CallRec
  <2>. QED
    BY <2>2
<1>5. PICK d : d = [index |-> given[i].index, id |-> 0, named |-> FALSE, args |-> <<x>>]
  OBVIOUS
<1>6. calls' = Calls!PushToolDelta(given, d) /\ given' = [given EXCEPT ![i].args = @ \o d.args]
  BY <1>1, <1>3, <1>4, <1>5
<1>7. PICK z : z = given'
  OBVIOUS
<1>8. Calls!PushToolDelta(given, d) = z /\ Placed(z)
  BY <1>1, <1>5, <1>6, <1>7, PushMore
<1>9. calls' = given' /\ Placed(given')
  BY <1>6, <1>7, <1>8
<1>. QED
  BY <1>1, <1>9 DEF WireInv

LEMMA FinishKeeps == ASSUME WireInv, Calls!Finish PROVE WireInv'
<1>1. /\ calls = given /\ given \in Seq(CallRec) /\ conv \in Seq(Neutral) /\ meant \in Lists
  BY DEF WireInv, Placed
<1>2. PICK cs \in Bares : cs = Calls!CallsJson(given)
  BY <1>1, JsonIs
<1>3. meant' = Append(meant, cs) /\ calls' = <<>> /\ given' = <<>>
  BY <1>2 DEF Calls!Finish
<1>4. PICK t \in BOOLEAN :
        conv' = conv \o <<Calls!Message("assistant", t, cs, 0)>> \o
                  (IF cs = <<>> THEN <<Calls!Message("user", TRUE, <<>>, 0)>>
                   ELSE [i \in DOMAIN cs |-> Calls!Message("tool", TRUE, <<>>, cs[i].id)])
  BY <1>1, <1>2 DEF Calls!Finish
<1>5. PICK xs : xs = Added(t, cs)
  OBVIOUS
<1>6. ASSUME NEW p \in Calls!Providers
      PROVE  xs \in Seq(Neutral) /\ Joins(p, Calls!NormalizeMessages(p, conv), cs, Calls!NormalizeMessages(p, conv \o xs))
  <2>1. WholeOn(p, Calls!NormalizeMessages(p, conv))
    BY DEF WireInv
  <2>. QED
    BY <1>1, <1>5, <2>1, AddedJoins
<1>7. xs \in Seq(Neutral)
  <2>1. "openai" \in Calls!Providers
    BY DEF Calls!Providers
  <2>. QED
    BY <1>6, <2>1
<1>8. conv' = conv \o xs
  <2>1. PICK a \in Neutral : a = Calls!Message("assistant", t, cs, 0)
    BY MessageTyped DEF Role
  <2>2. PICK ts : ts = IF cs = <<>> THEN <<Calls!Message("user", TRUE, <<>>, 0)>>
                       ELSE [i \in DOMAIN cs |-> Calls!Message("tool", TRUE, <<>>, cs[i].id)]
    OBVIOUS
  <2>3. ts \in Seq(Neutral)
    <3>1. /\ Len(cs) \in Nat /\ DOMAIN cs = 1 .. Len(cs) /\ \A j \in 1 .. Len(cs) : cs[j].id \in Nat
      BY IdsAre
    <3>2. "user" \in Role /\ "tool" \in Role /\ <<>> \in Bares
      BY DEF Role, Bares
    <3>3. PICK m \in Neutral : m = Calls!Message("user", TRUE, <<>>, 0)
      BY <3>2, MessageTyped
    <3>4. <<m>> \in Seq(Neutral)
      OBVIOUS
    <3>5. \A i \in 1 .. Len(cs) : Result(cs[i].id) \in Neutral
      BY <3>1, <3>2, MessageTyped DEF Result
    <3>6. [i \in 1 .. Len(cs) |-> Result(cs[i].id)] \in Seq(Neutral)
      BY <3>1, <3>5
    <3>7. [i \in DOMAIN cs |-> Calls!Message("tool", TRUE, <<>>, cs[i].id)] \in Seq(Neutral)
      BY <3>1, <3>6 DEF Result
    <3>. QED
      BY <2>2, <3>3, <3>4, <3>7, Zenon
  <2>4. conv' = (conv \o <<a>>) \o ts /\ xs = <<a>> \o ts
    BY <1>4, <1>5, <2>1, <2>2 DEF Added, Answer
  <2>5. <<a>> \in Seq(Neutral)
    OBVIOUS
  <2>. QED
    BY <1>1, <2>3, <2>4, <2>5, ConcatAssociative
<1>9. conv' \in Seq(Neutral)
  BY <1>1, <1>7, <1>8
<1>10. meant' \in Lists /\ Calls!NonEmpty(meant') = Calls!NotEmpty(Calls!NonEmpty(meant), cs)
  <2>1. PICK b \in Lists : b = Append(meant, cs)
    <3>1. Append(meant, cs) \in Lists
      BY <1>1 DEF Lists
    <3>. QED
      BY <3>1
  <2>2. Len(meant) \in Nat /\ Len(b) = Len(meant) + 1 /\ b[Len(meant) + 1] = cs /\ \A i \in 1 .. Len(meant) : b[i] = meant[i]
    BY <1>1, <2>1 DEF Lists
  <2>3. Len(meant) < Len(b) /\ \A i \in 1 .. Len(b) : i > Len(meant) + 1 => b[i] = <<>>
    BY <2>2
  <2>4. Calls!NonEmpty(b) = Calls!NotEmpty(Calls!NonEmpty(meant), b[Len(meant) + 1])
    BY <1>1, <2>2, <2>3, FillGrows
  <2>. QED
    BY <1>3, <2>1, <2>2, <2>4
<1>11. ASSUME NEW p \in Calls!Providers
       PROVE  LET w == Calls!NormalizeMessages(p, conv')
              IN  w \in OnWire /\ WholeOn(p, w) /\ Calls!NonEmpty(UsesOf(w)) = Calls!NonEmpty(meant')
  <2>1. Calls!NonEmpty(UsesOf(Calls!NormalizeMessages(p, conv))) = Calls!NonEmpty(meant)
    BY DEF WireInv
  <2>2. Joins(p, Calls!NormalizeMessages(p, conv), cs, Calls!NormalizeMessages(p, conv'))
    BY <1>6, <1>8
  <2>. QED
    BY <1>10, <2>1, <2>2 DEF Joins
<1>12. Placed(<<>>)
  BY DEF Placed
<1>. QED
  BY <1>3, <1>9, <1>10, <1>11, <1>12 DEF WireInv

LEMMA WireGoesOn == WireInv /\ [Calls!Next]_(Calls!vars) => WireInv'
<1>. SUFFICES ASSUME WireInv, [Calls!Next]_(Calls!vars) PROVE WireInv'
  OBVIOUS
<1>1. CASE Calls!Begins
  BY <1>1, BeginsKeeps
<1>2. CASE Calls!Goes
  BY <1>2, GoesKeeps
<1>3. CASE Calls!Finish
  BY <1>3, FinishKeeps
<1>4. CASE UNCHANGED Calls!vars
  BY <1>4 DEF Calls!vars, WireInv
<1>. QED
  BY <1>1, <1>2, <1>3, <1>4 DEF Calls!Next

LEMMA WireShows == WireInv => CallsComeBackWhole
<1>. SUFFICES ASSUME WireInv, NEW p \in Calls!Providers, NEW w, w = Calls!NormalizeMessages(p, conv)
     PROVE  /\ Calls!NonEmpty([i \in DOMAIN w |-> w[i].uses]) = Calls!NonEmpty(meant)
            /\ \A i \in DOMAIN w : w[i].uses # <<>> =>
                 LET n == IF p = "anthropic" THEN 1 ELSE Len(w[i].uses)
                 IN  /\ i + n <= Len(w)
                     /\ \A k \in 1 .. n :
                          w[i + k].results = IF p = "anthropic" THEN Calls!Ids(w[i].uses) ELSE <<w[i].uses[k].id>>
                     /\ i + n < Len(w) => w[i + n + 1].results = <<>>
  BY DEF CallsComeBackWhole, Calls!CallsComeBackWhole
<1>1. w \in OnWire /\ WholeOn(p, w) /\ Calls!NonEmpty(UsesOf(w)) = Calls!NonEmpty(meant)
  BY DEF WireInv
<1>2. DOMAIN w = 1 .. Len(w)
  BY <1>1 DEF OnWire
<1>. QED
  BY <1>1, <1>2 DEF UsesOf, WholeOn, WholeAt, Follow, Results

LEMMA Carries == Spec => Calls!Init /\ [][Calls!Next]_(Calls!vars)
<1>1. Init => Calls!Init
  BY DEF Init
<1>2. [Next]_vars => [Calls!Next]_(Calls!vars)
  <2>. SUFFICES ASSUME [Next]_vars PROVE [Calls!Next]_(Calls!vars)
    OBVIOUS
  <2>1. UNCHANGED callVars => UNCHANGED Calls!vars
    BY DEF callVars, Calls!vars
  <2>2. UNCHANGED vars => UNCHANGED callVars
    BY DEF vars
  <2>. QED
    BY <2>1, <2>2 DEF Next
<1>. QED
  BY <1>1, <1>2, PTL DEF Spec

(* However many calls an answer has, however their fragments are mixed and *)
(* whichever provider the conversation goes on with, every call goes back  *)
(* with its id and its arguments, and its result follows                   *)
(* (llm.rs:148-245, 495-528).                                              *)
THEOREM CallsWhole == Spec => []CallsComeBackWhole
<1>. QED
  BY WireStarts, WireGoesOn, WireShows, Carries, PTL
=============================================================================
