------------------------- MODULE ResponseStreamProofs -------------------------
(***************************************************************************)
(* Proofs about ResponseStream: where the frames of a body end is          *)
(* invisible to the client, and the decoders keep to their limits.         *)
(*                                                                         *)
(* The argument has four parts.  An operation of a decoder only appends to *)
(* what is pending and does not look at it, so a decoder that is drained   *)
(* between two frames goes on as one that is not (Commutes).  The buffer   *)
(* holds exactly the part of a block that its place in the stream says,    *)
(* however the tokens were framed (HeldPos), so push parses the blocks one *)
(* by one and each of them whole (PushTracks).  The end of the body is     *)
(* that of the last block, whether its empty line came or not (EndOfBody). *)
(* StreamInv says so of a state, and every step keeps it.                  *)
(*                                                                         *)
(* And that the decoders keep to their limits, which needs none of this:   *)
(* each operation of an emitter counts what it keeps before it keeps it    *)
(* (Within), whatever the block, and the buffer is never longer than what  *)
(* was read into it.  LimitsInv says so of a state.                        *)
(***************************************************************************)
EXTENDS ResponseStream, SequenceTheorems, FiniteSetTheorems, NaturalsInduction, WellFoundedInduction, TLAPS

-----------------------------------------------------------------------------
(* Numbers and sequences. *)

\* The greatest element of 1..k is k, as FoldLeft takes the elements from the last.
LEMMA MaxOf ==
    ASSUME NEW k \in Nat, NEW T \in SUBSET (1..(k + 1)), k + 1 \in T
    PROVE  Max(T) = k + 1 /\ T \ {k + 1} \in SUBSET (1..k) /\ T # {}
<1>1. \A x \in T : x <= k + 1
  OBVIOUS
<1>2. \E m \in T : \A y \in T : m >= y
  BY <1>1
<1>3. Max(T) \in T /\ \A y \in T : Max(T) >= y
  BY <1>2 DEF Max
<1>4. PICK m : m = Max(T)
  OBVIOUS
<1>5. m \in T /\ m >= k + 1
  BY <1>3, <1>4
<1>6. m = k + 1
  BY <1>1, <1>5
<1>7. T \ {k + 1} \in SUBSET (1..k)
  OBVIOUS
<1> QED
  BY <1>4, <1>6, <1>7

\* Induction over the numbers, as a least element.
LEMMA Least ==
    ASSUME NEW S \in SUBSET Nat, S # {}
    PROVE  \E k \in S : \A j \in S : k <= j
<1> DEFINE R == {ss \in Nat \X Nat : ss[1] < ss[2]}
<1>1. IsWellFoundedOn(R, Nat)
  BY NatLessThanWellFounded DEF OpToRel
<1>2. PICK k \in S : \A j \in S : ~ (<<j, k>> \in R)
  BY <1>1, WFMin
<1>3. ASSUME NEW j \in S PROVE k <= j
  <2>1. ~ (j < k) /\ j \in Nat /\ k \in Nat
    BY <1>2
  <2> QED
    BY <2>1
<1> QED
  BY <1>3

IsSeq(x) == \E S : x \in Seq(S)

\* Two sequences are sequences over one set.
LEMMA SeqOfTwo ==
    ASSUME NEW a, IsSeq(a), NEW b, IsSeq(b)
    PROVE  \E S : a \in Seq(S) /\ b \in Seq(S)
<1>1. PICK S : a \in Seq(S)
  BY DEF IsSeq
<1>2. PICK T : b \in Seq(T)
  BY DEF IsSeq
<1>3. a \in Seq(S \cup T) /\ b \in Seq(S \cup T)
  BY <1>1, <1>2
<1> QED
  BY <1>3

\* Two sequences joined are one.
LEMMA Joined ==
    ASSUME NEW a, IsSeq(a), NEW b, IsSeq(b)
    PROVE  IsSeq(a \o b)
<1>1. PICK S : a \in Seq(S) /\ b \in Seq(S)
  BY SeqOfTwo
<1> QED
  BY <1>1 DEF IsSeq

Regroups(a, b, c) == (a \o b) \o c = a \o (b \o c)

\* Joining is associative.
LEMMA JoinedAnyhow ==
    ASSUME NEW a, IsSeq(a), NEW b, IsSeq(b), NEW c, IsSeq(c)
    PROVE  Regroups(a, b, c)
<1>1. PICK S : a \in Seq(S) /\ b \in Seq(S)
  BY SeqOfTwo
<1>2. PICK T : c \in Seq(T)
  BY DEF IsSeq
<1>3. a \in Seq(S \cup T) /\ b \in Seq(S \cup T) /\ c \in Seq(S \cup T)
  BY <1>1, <1>2
<1> QED
  BY <1>3 DEF Regroups

\* The short sequences that the operators write down are sequences.
LEMMA Short ==
    ASSUME NEW x, NEW y
    PROVE  IsSeq(<<>>) /\ IsSeq(<<x>>) /\ IsSeq(<<x, y>>)
<1>1. <<>> \in Seq({x}) /\ <<x>> \in Seq({x}) /\ <<x, y>> \in Seq({x, y})
  OBVIOUS
<1> QED
  BY <1>1 DEF IsSeq

-----------------------------------------------------------------------------
(* Folds: FoldLeft chooses a function, so what it computes is told by its steps. *)

InnerAs(protocol, d) == IF protocol = "anthropic" THEN d.inner ELSE d

ErrorAs(protocol, d) == InnerAs(protocol, d).error

NewAs(protocol) ==
    CASE protocol = "chat" -> NewEmitter
      [] protocol = "anthropic" -> NewAnthropic
      [] protocol = "responses" -> NewResponses

InvalidAs(protocol, d) ==
    IF protocol = "anthropic" THEN AnthropicFail(d, "InvalidStream")
    ELSE [d EXCEPT !.error = "InvalidStream"]

Applied(protocol, d, b) ==
    CASE protocol = "chat" -> ChatParse(d, b)
      [] protocol = "anthropic" -> AnthropicParse(d, b)
      [] protocol = "responses" -> ResponsesParse(d, b)

ParseAs(protocol, d, b) ==
    IF ErrorAs(protocol, d) # "none" THEN d
    ELSE IF b = Malformed THEN InvalidAs(protocol, d)
    ELSE Applied(protocol, d, b)

Data(tokens) == {t \in ToSet(tokens) : t.kind = "data"}

DataOf(k) == {Token("data", k, 1), Token("data", k, 2)}

BlockAs(protocol, blocks, d, tokens) ==
    LET whole == {k \in DOMAIN blocks : Data(tokens) = DataOf(k)}
    IN IF Data(tokens) = {} \/ ErrorAs(protocol, d) # "none" THEN d
       ELSE IF whole = {} THEN InvalidAs(protocol, d)
       ELSE ParseAs(protocol, d, blocks[CHOOSE k \in whole : TRUE])

FlushedAs(protocol, d) ==
    CASE protocol = "chat" -> finish(d)
      [] protocol = "anthropic" -> AnthropicFinish(d)
      [] protocol = "responses" -> d

\* One step of a fold: c tells which.
Step(c, acc, x) ==
    CASE c.op = "call" -> ChatApplyCall(acc, x)
      [] c.op = "newline" -> Newline(acc, x)
      [] c.op = "token" -> TakeToken(acc, x)
      [] c.op = "parse" -> ParseAs(c.protocol, acc, x)
      [] c.op = "block" -> BlockAs(c.protocol, c.blocks, acc, x)

Iterates(c, g, n, s, b) ==
    g = [T \in SUBSET (1..n) |-> IF T = {} THEN b ELSE Step(c, g[T \ {Max(T)}], s[Max(T)])]

\* The function that a fold of n elements chooses exists.
LEMMA IterExists ==
    ASSUME NEW c, NEW s, NEW b, NEW n \in Nat
    PROVE  \E g : Iterates(c, g, n, s, b)
<1> DEFINE Bad == {k \in Nat : ~ \E g : Iterates(c, g, k, s, b)}
<1>1. ASSUME Bad # {} PROVE FALSE
  <2>1. PICK k \in Bad : \A j \in Bad : k <= j
    BY <1>1, Least
  <2>2. CASE k = 0
    <3> DEFINE z == [T \in SUBSET (1..0) |-> b]
    <3>0. \A T \in SUBSET (1..0) : T = {}
      OBVIOUS
    <3>1. Iterates(c, z, 0, s, b)
      BY <3>0, Zenon DEF Iterates
    <3> QED
      BY <2>1, <2>2, <3>1
  <2>3. CASE k # 0
    <3>1. PICK j \in Nat : k = j + 1
      BY <2>1, <2>3
    <3>2. j \notin Bad
      BY <2>1, <3>1
    <3>3. PICK g : Iterates(c, g, j, s, b)
      BY <3>2
    <3> DEFINE h == [T \in SUBSET (1..k) |-> IF k \in T THEN Step(c, g[T \ {k}], s[k]) ELSE g[T]]
    <3>4. ASSUME NEW T \in SUBSET (1..k)
          PROVE  h[T] = IF T = {} THEN b ELSE Step(c, h[T \ {Max(T)}], s[Max(T)])
      <4>1. CASE k \in T
        <5>1. Max(T) = k /\ T \ {k} \in SUBSET (1..j) /\ T # {}
          BY <3>1, <4>1, MaxOf
        <5>2. h[T \ {k}] = g[T \ {k}]
          BY <5>1, <3>1
        <5> QED
          BY <4>1, <5>1, <5>2
      <4>2. CASE k \notin T
        <5>1. T \in SUBSET (1..j)
          BY <3>1, <4>2
        <5>2. h[T] = g[T] /\ (T # {} => h[T \ {Max(T)}] = g[T \ {Max(T)}])
          BY <4>2
        <5> QED
          BY <3>3, <5>1, <5>2 DEF Iterates
      <4> QED
        BY <4>1, <4>2
    <3>5. Iterates(c, h, k, s, b)
      BY <3>4, Zenon DEF Iterates
    <3> QED
      BY <2>1, <3>5
  <2> QED
    BY <2>2, <2>3
<1> QED
  BY <1>1

Unrolled(c, g, n, s, b) ==
    /\ g[1..0] = b
    /\ \A k \in Nat : k < n => g[1..(k + 1)] = Step(c, g[1..k], s[k + 1])

\* What that function is of the first k elements, one step at a time.
LEMMA Unrolls ==
    ASSUME NEW c, NEW s, NEW b, NEW n \in Nat, NEW g, Iterates(c, g, n, s, b)
    PROVE  Unrolled(c, g, n, s, b)
<1>1. \A T \in SUBSET (1..n) :
         g[T] = IF T = {} THEN b ELSE Step(c, g[T \ {Max(T)}], s[Max(T)])
  BY Zenon DEF Iterates
<1>2. 1..0 \in SUBSET (1..n) /\ 1..0 = {}
  OBVIOUS
<1>3. ASSUME NEW k \in Nat, k < n PROVE g[1..(k + 1)] = Step(c, g[1..k], s[k + 1])
  <2>1. 1..(k + 1) \in SUBSET (1..(k + 1)) /\ k + 1 \in 1..(k + 1) /\ 1..(k + 1) \in SUBSET (1..n)
    BY <1>3
  <2>2. Max(1..(k + 1)) = k + 1 /\ 1..(k + 1) # {}
    BY <2>1, MaxOf
  <2>3. (1..(k + 1)) \ {k + 1} = 1..k
    OBVIOUS
  <2> QED
    BY <1>1, <2>1, <2>2, <2>3
<1> QED
  BY <1>1, <1>2, <1>3 DEF Unrolled

\* Two such functions agree when they take the same elements.
LEMMA UnrolledAlike ==
    ASSUME NEW c, NEW b, NEW s, NEW t, NEW n \in Nat, NEW m \in Nat, n <= m,
           \A i \in 1..n : s[i] = t[i],
           NEW g, Iterates(c, g, n, s, b), NEW h, Iterates(c, h, m, t, b)
    PROVE  g[1..n] = h[1..n]
<1>0. Unrolled(c, g, n, s, b) /\ Unrolled(c, h, m, t, b)
  BY Unrolls
<1> DEFINE Bad == {k \in Nat : k <= n /\ g[1..k] # h[1..k]}
<1>1. ASSUME Bad # {} PROVE FALSE
  <2>1. PICK k \in Bad : \A j \in Bad : k <= j
    BY <1>1, Least
  <2>2. CASE k = 0
    BY <1>0, <2>1, <2>2 DEF Unrolled
  <2>3. CASE k # 0
    <3>1. PICK j \in Nat : k = j + 1
      BY <2>1, <2>3
    <3>2. g[1..j] = h[1..j] /\ j < n /\ j < m
      BY <2>1, <3>1
    <3>3. g[1..(j + 1)] = Step(c, g[1..j], s[j + 1])
      BY <3>2, <1>0 DEF Unrolled
    <3>4. h[1..(j + 1)] = Step(c, h[1..j], t[j + 1])
      BY <3>2, <1>0 DEF Unrolled
    <3>5. s[j + 1] = t[j + 1]
      <4>1. j + 1 \in 1..n
        BY <3>2
      <4> QED
        BY <4>1
    <3> QED
      BY <2>1, <3>1, <3>2, <3>3, <3>4, <3>5
  <2> QED
    BY <2>2, <2>3
<1> QED
  BY <1>1

Chosen(c, b, n, s) == CHOOSE g : Iterates(c, g, n, s, b)

\* The function that is chosen is one.
LEMMA ChosenIs ==
    ASSUME NEW c, NEW b, NEW s, NEW n \in Nat
    PROVE  Iterates(c, Chosen(c, b, n, s), n, s, b)
BY IterExists, Zenon DEF Chosen

\* The fold of the first n elements of s.
Fold(c, b, s, n) == Chosen(c, b, n, s)[1..n]

\* A fold of nothing.
LEMMA FoldStart ==
    ASSUME NEW c, NEW b, NEW s
    PROVE  Fold(c, b, s, 0) = b
<1>1. Iterates(c, Chosen(c, b, 0, s), 0, s, b)
  BY ChosenIs
<1>2. Unrolled(c, Chosen(c, b, 0, s), 0, s, b)
  BY <1>1, Unrolls
<1> QED
  BY <1>2 DEF Unrolled, Fold

\* A fold depends on the elements it takes.
LEMMA FoldAlike ==
    ASSUME NEW c, NEW b, NEW s, NEW t, NEW n \in Nat, \A i \in 1..n : s[i] = t[i]
    PROVE  Fold(c, b, s, n) = Fold(c, b, t, n)
<1> DEFINE g == Chosen(c, b, n, s)
           h == Chosen(c, b, n, t)
<1>1. Iterates(c, g, n, s, b) /\ Iterates(c, h, n, t, b)
  BY ChosenIs
<1> HIDE DEF g, h
<1>2. g[1..n] = h[1..n]
  BY <1>1, UnrolledAlike
<1> QED
  BY <1>2 DEF Fold, g, h

\* A fold of one more element.
LEMMA FoldNext ==
    ASSUME NEW c, NEW b, NEW s, NEW n \in Nat
    PROVE  Fold(c, b, s, n + 1) = Step(c, Fold(c, b, s, n), s[n + 1])
<1> DEFINE g == Chosen(c, b, n, s)
           h == Chosen(c, b, n + 1, s)
<1>0. n + 1 \in Nat /\ n <= n + 1 /\ n < n + 1
  OBVIOUS
<1>1. Iterates(c, g, n, s, b) /\ Iterates(c, h, n + 1, s, b)
  BY <1>0, ChosenIs
<1> HIDE DEF g, h
<1>2. g[1..n] = h[1..n]
  BY <1>0, <1>1, UnrolledAlike
<1>3. Unrolled(c, h, n + 1, s, b)
  BY <1>0, <1>1, Unrolls
<1>4. h[1..(n + 1)] = Step(c, h[1..n], s[n + 1])
  BY <1>0, <1>3 DEF Unrolled
<1> QED
  BY <1>2, <1>4 DEF Fold, g, h

\* The calls of a chunk of Chat Completions (ChatParse) are taken by a fold.
LEMMA CallsFold ==
    ASSUME NEW b, NEW s, NEW n \in Nat, DOMAIN s = 1..n
    PROVE  FoldLeft(ChatApplyCall, b, s) = Fold([op |-> "call"], b, s, n)
<1> DEFINE c == [op |-> "call"]
           Is(g) == g = [T \in SUBSET (1..n) |->
                           IF T = {} THEN b ELSE ChatApplyCall(g[T \ {Max(T)}], s[Max(T)])]
<1>1. \A d, x : Step(c, d, x) = ChatApplyCall(d, x)
  BY DEF Step
<1> HIDE DEF c
<1>2. \A g : Is(g) <=> Iterates(c, g, n, s, b)
  BY <1>1 DEF Iterates
<1>3. \E g : Is(g)
  BY <1>2, IterExists
<1>4. Is(CHOOSE g : Is(g))
  BY <1>3
<1>5. FoldLeft(ChatApplyCall, b, s) = (CHOOSE g : Is(g))[1..n]
  BY DEF FoldLeft, MapThenFoldSet
<1>6. PICK h : h = CHOOSE g : Is(g)
  OBVIOUS
<1>7. Iterates(c, h, n, s, b) /\ Iterates(c, Chosen(c, b, n, s), n, s, b)
  BY <1>2, <1>4, <1>6, ChosenIs
<1>8. h[1..n] = Chosen(c, b, n, s)[1..n]
  BY <1>7, UnrolledAlike
<1> QED
  BY <1>5, <1>6, <1>8 DEF Fold, c

\* The tokens that normalize_newlines reads are taken by a fold.
LEMMA NewlinesFold ==
    ASSUME NEW b, NEW s, NEW n \in Nat, DOMAIN s = 1..n
    PROVE  FoldLeft(Newline, b, s) = Fold([op |-> "newline"], b, s, n)
<1> DEFINE c == [op |-> "newline"]
           Is(g) == g = [T \in SUBSET (1..n) |->
                           IF T = {} THEN b ELSE Newline(g[T \ {Max(T)}], s[Max(T)])]
<1>1. \A d, x : Step(c, d, x) = Newline(d, x)
  BY DEF Step
<1> HIDE DEF c
<1>2. \A g : Is(g) <=> Iterates(c, g, n, s, b)
  BY <1>1 DEF Iterates
<1>3. \E g : Is(g)
  BY <1>2, IterExists
<1>4. Is(CHOOSE g : Is(g))
  BY <1>3
<1>5. FoldLeft(Newline, b, s) = (CHOOSE g : Is(g))[1..n]
  BY DEF FoldLeft, MapThenFoldSet
<1>6. PICK h : h = CHOOSE g : Is(g)
  OBVIOUS
<1>7. Iterates(c, h, n, s, b) /\ Iterates(c, Chosen(c, b, n, s), n, s, b)
  BY <1>2, <1>4, <1>6, ChosenIs
<1>8. h[1..n] = Chosen(c, b, n, s)[1..n]
  BY <1>7, UnrolledAlike
<1> QED
  BY <1>5, <1>6, <1>8 DEF Fold, c

\* The tokens of a buffer (SplitBlocks) are taken by a fold.
LEMMA TokensFold ==
    ASSUME NEW b, NEW s, NEW n \in Nat, DOMAIN s = 1..n
    PROVE  FoldLeft(TakeToken, b, s) = Fold([op |-> "token"], b, s, n)
<1> DEFINE c == [op |-> "token"]
           Is(g) == g = [T \in SUBSET (1..n) |->
                           IF T = {} THEN b ELSE TakeToken(g[T \ {Max(T)}], s[Max(T)])]
<1>1. \A d, x : Step(c, d, x) = TakeToken(d, x)
  BY DEF Step
<1> HIDE DEF c
<1>2. \A g : Is(g) <=> Iterates(c, g, n, s, b)
  BY <1>1 DEF Iterates
<1>3. \E g : Is(g)
  BY <1>2, IterExists
<1>4. Is(CHOOSE g : Is(g))
  BY <1>3
<1>5. FoldLeft(TakeToken, b, s) = (CHOOSE g : Is(g))[1..n]
  BY DEF FoldLeft, MapThenFoldSet
<1>6. PICK h : h = CHOOSE g : Is(g)
  OBVIOUS
<1>7. Iterates(c, h, n, s, b) /\ Iterates(c, Chosen(c, b, n, s), n, s, b)
  BY <1>2, <1>4, <1>6, ChosenIs
<1>8. h[1..n] = Chosen(c, b, n, s)[1..n]
  BY <1>7, UnrolledAlike
<1> QED
  BY <1>5, <1>6, <1>8 DEF Fold, c

\* The operators with the protocol as a parameter are those of the model.
LEMMA AsTheDecoderDoes ==
    /\ \A d : InnerAs(stream.protocol, d) = Inner(d) /\ ErrorAs(stream.protocol, d) = Error(d)
    /\ \A d : InvalidAs(stream.protocol, d) = Invalid(d) /\ FlushedAs(stream.protocol, d) = Flushed(d)
    /\ NewAs(stream.protocol) = NewDecoder
    /\ \A d, b : ParseAs(stream.protocol, d, b) = Parse(d, b)
    /\ \A d, tokens : BlockAs(stream.protocol, sent, d, tokens) = parse_block(d, tokens)
<1>1. \A d : InnerAs(stream.protocol, d) = Inner(d)
  BY DEF InnerAs, Inner
<1>2. \A d : ErrorAs(stream.protocol, d) = Error(d)
  BY <1>1 DEF ErrorAs, Error
<1>3. \A d : InvalidAs(stream.protocol, d) = Invalid(d)
  BY DEF InvalidAs, Invalid
<1>4. \A d : FlushedAs(stream.protocol, d) = Flushed(d)
  BY DEF FlushedAs, Flushed
<1>5. NewAs(stream.protocol) = NewDecoder
  BY DEF NewAs, NewDecoder
<1>6. \A d, b : ParseAs(stream.protocol, d, b) = Parse(d, b)
  <2>1. ASSUME NEW d, NEW b PROVE ParseAs(stream.protocol, d, b) = Parse(d, b)
    <3>1. Parse(d, b) = IF Error(d) # "none" THEN d ELSE IF b = Malformed THEN Invalid(d)
                        ELSE Applied(stream.protocol, d, b)
      BY DEF Parse, Applied
    <3> QED
      BY <1>2, <1>3, <3>1 DEF ParseAs
  <2> QED
    BY <2>1
<1>7. \A d, tokens : BlockAs(stream.protocol, sent, d, tokens) = parse_block(d, tokens)
  BY <1>2, <1>3, <1>6 DEF BlockAs, parse_block, Data, DataOf
<1> QED
  BY <1>1, <1>2, <1>3, <1>4, <1>5, <1>6, <1>7

\* The blocks of a stream are parsed by a fold.
LEMMA ParseFold ==
    ASSUME NEW b, NEW s, NEW n \in Nat, DOMAIN s = 1..n
    PROVE  FoldLeft(Parse, b, s) = Fold([op |-> "parse", protocol |-> stream.protocol], b, s, n)
<1> DEFINE c == [op |-> "parse", protocol |-> stream.protocol]
           Is(g) == g = [T \in SUBSET (1..n) |->
                           IF T = {} THEN b ELSE Parse(g[T \ {Max(T)}], s[Max(T)])]
<1>0. c.op = "parse" /\ c.protocol = stream.protocol
  OBVIOUS
<1> HIDE DEF c
<1>1. \A d, x : Step(c, d, x) = Parse(d, x)
  <2>1. \A d, x : Step(c, d, x) = ParseAs(stream.protocol, d, x)
    BY <1>0 DEF Step
  <2> QED
    BY <2>1, AsTheDecoderDoes
<1>2. \A g : Is(g) <=> Iterates(c, g, n, s, b)
  BY <1>1 DEF Iterates
<1>3. \E g : Is(g)
  BY <1>2, IterExists
<1>4. Is(CHOOSE g : Is(g))
  BY <1>3
<1>5. FoldLeft(Parse, b, s) = (CHOOSE g : Is(g))[1..n]
  BY DEF FoldLeft, MapThenFoldSet
<1>6. PICK h : h = CHOOSE g : Is(g)
  OBVIOUS
<1>7. Iterates(c, h, n, s, b) /\ Iterates(c, Chosen(c, b, n, s), n, s, b)
  BY <1>2, <1>4, <1>6, ChosenIs
<1>8. h[1..n] = Chosen(c, b, n, s)[1..n]
  BY <1>7, UnrolledAlike
<1> QED
  BY <1>5, <1>6, <1>8 DEF Fold, c

\* The blocks of a buffer (parse_block) are parsed by a fold.
LEMMA BlocksFold ==
    ASSUME NEW b, NEW s, NEW n \in Nat, DOMAIN s = 1..n
    PROVE  FoldLeft(parse_block, b, s) = Fold([op |-> "block", protocol |-> stream.protocol, blocks |-> sent], b, s, n)
<1> DEFINE c == [op |-> "block", protocol |-> stream.protocol, blocks |-> sent]
           Is(g) == g = [T \in SUBSET (1..n) |->
                           IF T = {} THEN b ELSE parse_block(g[T \ {Max(T)}], s[Max(T)])]
<1>0. c.op = "block" /\ c.protocol = stream.protocol /\ c.blocks = sent
  OBVIOUS
<1> HIDE DEF c
<1>1. \A d, x : Step(c, d, x) = parse_block(d, x)
  <2>1. \A d, x : Step(c, d, x) = BlockAs(stream.protocol, sent, d, x)
    BY <1>0 DEF Step
  <2> QED
    BY <2>1, AsTheDecoderDoes
<1>2. \A g : Is(g) <=> Iterates(c, g, n, s, b)
  BY <1>1 DEF Iterates
<1>3. \E g : Is(g)
  BY <1>2, IterExists
<1>4. Is(CHOOSE g : Is(g))
  BY <1>3
<1>5. FoldLeft(parse_block, b, s) = (CHOOSE g : Is(g))[1..n]
  BY DEF FoldLeft, MapThenFoldSet
<1>6. PICK h : h = CHOOSE g : Is(g)
  OBVIOUS
<1>7. Iterates(c, h, n, s, b) /\ Iterates(c, Chosen(c, b, n, s), n, s, b)
  BY <1>2, <1>4, <1>6, ChosenIs
<1>8. h[1..n] = Chosen(c, b, n, s)[1..n]
  BY <1>7, UnrolledAlike
<1> QED
  BY <1>5, <1>6, <1>8 DEF Fold, c

-----------------------------------------------------------------------------
(* OutputEmitter: its operations do not look at what is pending. *)

EmitterFields ==
    {"pending", "aggregate_bytes", "response_id", "reasoning", "text", "tools", "reasoning_started",
     "text_started", "finish_reason", "usage_bytes", "terminal", "completed", "error"}

Emitter(s) ==
    /\ s = [f \in EmitterFields |-> s[f]]
    /\ IsSeq(s.pending)
    /\ IsFiniteSet(DOMAIN s.tools)
    /\ s.error \in {"none", "InvalidStream", "StreamStateLimit"}

Told(p, s) == [s EXCEPT !.pending = p \o @]

\* what an operation makes of an emitter, t, and of the one that told p before, u
Goes(p, t, u) == Emitter(t) /\ u = Told(p, t)

Moves(p, s, t, u) == Goes(p, t, u) /\ t.terminal = s.terminal

\* A new emitter is one.
LEMMA NewIs == Emitter(NewEmitter)
<1>1. IsFiniteSet(DOMAIN <<>>)
  BY FS_EmptySet
<1> QED
BY <1>1, Short DEF Emitter, NewEmitter, EmitterFields

\* An error is kept whatever was told before.
LEMMA FailMoves ==
    ASSUME NEW s, Emitter(s), NEW p, IsSeq(p), NEW e \in {"InvalidStream", "StreamStateLimit"}
    PROVE  Moves(p, s, Fail(s, e), Fail(Told(p, s), e))
BY DEF Moves, Goes, Emitter, EmitterFields, Told, Fail

\* emit adds to what is pending.
LEMMA EmitMoves ==
    ASSUME NEW s, Emitter(s), NEW p, IsSeq(p), NEW e, IsSeq(e)
    PROVE  Moves(p, s, emit(s, e), emit(Told(p, s), e))
<1>0. IsSeq(s.pending)
  BY DEF Emitter
<1>1. (p \o s.pending) \o e = p \o (s.pending \o e)
  <2>1. Regroups(p, s.pending, e)
    BY <1>0, JoinedAnyhow
  <2> QED
    BY <2>1 DEF Regroups
<1>2. IsSeq(s.pending \o e)
  BY <1>0, Joined
<1>3. Emitter(emit(s, e)) /\ emit(s, e).terminal = s.terminal
  BY <1>2 DEF Emitter, EmitterFields, emit
<1>4. emit(Told(p, s), e) = Told(p, emit(s, e))
  <2> DEFINE t == emit(Told(p, s), e)
             u == Told(p, emit(s, e))
  <2>1. t = [f \in EmitterFields |-> t[f]] /\ u = [f \in EmitterFields |-> u[f]]
    BY DEF Emitter, EmitterFields, Told, emit
  <2>2. t.pending = (p \o s.pending) \o e /\ u.pending = p \o (s.pending \o e)
    BY DEF Emitter, EmitterFields, Told, emit
  <2>3. \A f \in EmitterFields \ {"pending"} : t[f] = s[f] /\ u[f] = s[f]
    BY DEF Emitter, EmitterFields, Told, emit
  <2>4. \A f \in EmitterFields : t[f] = u[f]
    BY <1>1, <2>2, <2>3
  <2> QED
    BY <2>1, <2>4
<1> QED
  BY <1>3, <1>4 DEF Moves, Goes

\* reserve_aggregate_bytes does not look at what is pending.
LEMMA ReserveMoves ==
    ASSUME NEW s, Emitter(s), NEW p, IsSeq(p), NEW n
    PROVE  Moves(p, s, reserve_aggregate_bytes(s, n), reserve_aggregate_bytes(Told(p, s), n))
<1>1. Moves(p, s, [s EXCEPT !.aggregate_bytes = @ + n], [Told(p, s) EXCEPT !.aggregate_bytes = @ + n])
  BY DEF Moves, Goes, Emitter, EmitterFields, Told
<1>2. Told(p, s).aggregate_bytes = s.aggregate_bytes
  BY DEF Emitter, EmitterFields, Told
<1> QED
  BY <1>1, <1>2, FailMoves DEF reserve_aggregate_bytes

\* The fields of an emitter that told p before.
LEMMA ToldReads ==
    ASSUME NEW s, Emitter(s), NEW p, IsSeq(p)
    PROVE  /\ Emitter(Told(p, s)) /\ Told(p, s).pending = p \o s.pending
           /\ \A f \in EmitterFields \ {"pending"} : Told(p, s)[f] = s[f]
<1>0. IsSeq(s.pending)
  BY DEF Emitter
<1>1. IsSeq(p \o s.pending)
  BY <1>0, Joined
<1> QED
  BY <1>1 DEF Emitter, EmitterFields, Told

\* Those fields but what is pending, one by one.
LEMMA ReadsAlike ==
    ASSUME NEW s, Emitter(s), NEW p, IsSeq(p)
    PROVE  /\ Told(p, s).aggregate_bytes = s.aggregate_bytes /\ Told(p, s).response_id = s.response_id
           /\ Told(p, s).reasoning = s.reasoning /\ Told(p, s).text = s.text
           /\ Told(p, s).tools = s.tools /\ Told(p, s).reasoning_started = s.reasoning_started
           /\ Told(p, s).text_started = s.text_started /\ Told(p, s).finish_reason = s.finish_reason
           /\ Told(p, s).usage_bytes = s.usage_bytes /\ Told(p, s).terminal = s.terminal
           /\ Told(p, s).completed = s.completed /\ Told(p, s).error = s.error
BY ToldReads DEF EmitterFields

\* Two operations one after the other.
LEMMA Then ==
    ASSUME NEW p, NEW s, NEW t, NEW u, Moves(p, s, t, u), NEW v, NEW w, Moves(p, t, v, w)
    PROVE  Moves(p, s, v, w)
BY DEF Moves, Goes

\* start_reasoning does not look at what is pending.
LEMMA StartReasoningMoves ==
    ASSUME NEW s, Emitter(s), NEW p, IsSeq(p)
    PROVE  Moves(p, s, start_reasoning(s), start_reasoning(Told(p, s)))
<1> DEFINE t == [s EXCEPT !.reasoning_started = TRUE]
           u == [Told(p, s) EXCEPT !.reasoning_started = TRUE]
           e == <<ItemEvent("item.added", Reasoning, 0, <<>>), ItemEvent("part.added", Reasoning, 0, <<>>)>>
<1>1. Moves(p, s, t, u)
  BY DEF Moves, Goes, Emitter, EmitterFields, Told
<1>2. Emitter(t) /\ u = Told(p, t) /\ IsSeq(e)
  BY <1>1, Short DEF Moves, Goes
<1> HIDE DEF t, u, e
<1>3. Moves(p, t, emit(t, e), emit(u, e))
  BY <1>2, EmitMoves
<1>4. Moves(p, s, emit(t, e), emit(u, e))
  BY <1>1, <1>3, Then
<1>5. Moves(p, s, s, Told(p, s)) /\ Told(p, s).reasoning_started = s.reasoning_started
  BY ReadsAlike DEF Moves, Goes
<1> QED
  BY <1>4, <1>5 DEF start_reasoning, t, u, e

\* start_text does not.
LEMMA StartTextMoves ==
    ASSUME NEW s, Emitter(s), NEW p, IsSeq(p)
    PROVE  Moves(p, s, start_text(s), start_text(Told(p, s)))
<1> DEFINE t == [s EXCEPT !.text_started = TRUE]
           u == [Told(p, s) EXCEPT !.text_started = TRUE]
           e == <<ItemEvent("item.added", Message, message_output_index(s), <<>>),
                  ItemEvent("part.added", Message, message_output_index(s), <<>>)>>
<1>1. Moves(p, s, t, u)
  BY DEF Moves, Goes, Emitter, EmitterFields, Told
<1>2. Emitter(t) /\ u = Told(p, t) /\ IsSeq(e)
  BY <1>1, Short DEF Moves, Goes
<1>3. message_output_index(Told(p, s)) = message_output_index(s)
  BY ReadsAlike DEF message_output_index
<1> HIDE DEF t, u
<1>4. Moves(p, t, emit(t, e), emit(u, e))
  BY <1>2, EmitMoves
<1>5. Moves(p, s, emit(t, e), emit(u, e))
  BY <1>1, <1>4, Then
<1>6. Moves(p, s, s, Told(p, s)) /\ Told(p, s).text_started = s.text_started
  BY ReadsAlike DEF Moves, Goes
<1> QED
  BY <1>3, <1>5, <1>6 DEF start_text, t, u

\* The start of a response does not.
LEMMA StartMoves ==
    ASSUME NEW s, Emitter(s), NEW p, IsSeq(p), NEW id
    PROVE  Moves(p, s, Start(s, id), Start(Told(p, s), id))
<1> DEFINE r == reserve_aggregate_bytes(s, Len(id))
           q == reserve_aggregate_bytes(Told(p, s), Len(id))
           t == [r EXCEPT !.response_id = id]
           u == [q EXCEPT !.response_id = id]
           e == <<ItemEvent("created", Item("response", id), 0, <<>>)>>
<1>1. Moves(p, s, r, q)
  BY ReserveMoves
<1> HIDE DEF r, q
<1>2. Moves(p, r, t, u)
  BY <1>1 DEF Moves, Goes, Emitter, EmitterFields, Told
<1>3. Emitter(t) /\ u = Told(p, t) /\ IsSeq(e)
  BY <1>2, Short DEF Moves, Goes
<1> HIDE DEF t, u
<1>4. Moves(p, t, emit(t, e), emit(u, e))
  BY <1>3, EmitMoves
<1>5. Moves(p, s, emit(t, e), emit(u, e))
  BY <1>1, <1>2, <1>4, Then
<1>6. Moves(p, s, s, Told(p, s)) /\ Told(p, s).response_id = s.response_id
  BY ReadsAlike DEF Moves, Goes
<1> QED
  BY <1>5, <1>6 DEF Start, t, u, r, q

\* The usage does not.
LEMMA UsageMoves ==
    ASSUME NEW s, Emitter(s), NEW p, IsSeq(p)
    PROVE  Moves(p, s, Usage(s), Usage(Told(p, s)))
<1> DEFINE a == [s EXCEPT !.aggregate_bytes = @ - s.usage_bytes]
           b == [Told(p, s) EXCEPT !.aggregate_bytes = @ - s.usage_bytes]
           r == reserve_aggregate_bytes(a, 1)
           q == reserve_aggregate_bytes(b, 1)
<1>1. Moves(p, s, a, b)
  BY DEF Moves, Goes, Emitter, EmitterFields, Told
<1>2. Emitter(a) /\ b = Told(p, a)
  BY <1>1 DEF Moves, Goes
<1> HIDE DEF a, b
<1>3. Moves(p, a, r, q)
  BY <1>2, ReserveMoves
<1>4. Moves(p, s, r, q)
  BY <1>1, <1>3, Then
<1> HIDE DEF r, q
<1>5. Moves(p, r, [r EXCEPT !.usage_bytes = 1], [q EXCEPT !.usage_bytes = 1])
  BY <1>4 DEF Moves, Goes, Emitter, EmitterFields, Told
<1>6. Moves(p, s, [r EXCEPT !.usage_bytes = 1], [q EXCEPT !.usage_bytes = 1])
  BY <1>4, <1>5, Then
<1>7. Told(p, s).usage_bytes = s.usage_bytes
  BY ReadsAlike
<1> QED
  BY <1>6, <1>7 DEF Usage, resize_aggregate_bytes, a, b, r, q

\* A piece of text does not.
LEMMA TextDeltaMoves ==
    ASSUME NEW s, Emitter(s), NEW p, IsSeq(p), NEW text
    PROVE  Moves(p, s, TextDelta(s, text), TextDelta(Told(p, s), text))
<1> DEFINE a == start_text(s)
           b == start_text(Told(p, s))
           r == reserve_aggregate_bytes(a, Len(text))
           q == reserve_aggregate_bytes(b, Len(text))
           t == [r EXCEPT !.text = @ \o text]
           u == [q EXCEPT !.text = @ \o text]
           e == <<ItemEvent("delta", Message, message_output_index(r), text)>>
<1>1. Moves(p, s, a, b)
  BY StartTextMoves
<1>2. Emitter(a) /\ b = Told(p, a)
  BY <1>1 DEF Moves, Goes
<1> HIDE DEF a, b
<1>3. Moves(p, a, r, q)
  BY <1>2, ReserveMoves
<1>4. Emitter(r) /\ q = Told(p, r)
  BY <1>3 DEF Moves, Goes
<1> HIDE DEF r, q
<1>5. message_output_index(q) = message_output_index(r)
  BY <1>4, ReadsAlike DEF message_output_index
<1>6. Moves(p, r, t, u)
  BY <1>4 DEF Moves, Goes, Emitter, EmitterFields, Told
<1>7. Emitter(t) /\ u = Told(p, t) /\ IsSeq(e)
  BY <1>6, Short DEF Moves, Goes
<1> HIDE DEF t, u
<1>8. Moves(p, t, emit(t, e), emit(u, e))
  BY <1>7, EmitMoves
<1>9. Moves(p, s, emit(t, e), emit(u, e))
  BY <1>1, <1>3, <1>6, <1>8, Then
<1>10. Moves(p, s, s, Told(p, s))
  BY DEF Moves, Goes, Told, Emitter, EmitterFields
<1> QED
  BY <1>5, <1>9, <1>10 DEF TextDelta, t, u, r, q, a, b

\* A piece of reasoning does not.
LEMMA ReasoningDeltaMoves ==
    ASSUME NEW s, Emitter(s), NEW p, IsSeq(p), NEW text
    PROVE  Moves(p, s, ReasoningDelta(s, text), ReasoningDelta(Told(p, s), text))
<1> DEFINE a == start_reasoning(s)
           b == start_reasoning(Told(p, s))
           r == reserve_aggregate_bytes(a, Len(text))
           q == reserve_aggregate_bytes(b, Len(text))
           t == [r EXCEPT !.reasoning = @ \o text]
           u == [q EXCEPT !.reasoning = @ \o text]
           e == <<ItemEvent("delta", Reasoning, 0, text)>>
<1>1. Moves(p, s, a, b)
  BY StartReasoningMoves
<1>2. Emitter(a) /\ b = Told(p, a)
  BY <1>1 DEF Moves, Goes
<1> HIDE DEF a, b
<1>3. Moves(p, a, r, q)
  BY <1>2, ReserveMoves
<1>4. Emitter(r) /\ q = Told(p, r)
  BY <1>3 DEF Moves, Goes
<1> HIDE DEF r, q
<1>6. Moves(p, r, t, u)
  BY <1>4 DEF Moves, Goes, Emitter, EmitterFields, Told
<1>7. Emitter(t) /\ u = Told(p, t) /\ IsSeq(e)
  BY <1>6, Short DEF Moves, Goes
<1> HIDE DEF t, u
<1>8. Moves(p, t, emit(t, e), emit(u, e))
  BY <1>7, EmitMoves
<1>9. Moves(p, s, emit(t, e), emit(u, e))
  BY <1>1, <1>3, <1>6, <1>8, Then
<1>10. Moves(p, s, s, Told(p, s))
  BY DEF Moves, Goes, Told, Emitter, EmitterFields
<1> QED
  BY <1>9, <1>10 DEF ReasoningDelta, t, u, r, q, a, b

\* apply_tool_delta does not.
LEMMA ToolDeltaMoves ==
    ASSUME NEW s, Emitter(s), NEW p, IsSeq(p), NEW index, NEW id, NEW name, NEW arguments
    PROVE  Moves(p, s, apply_tool_delta(s, index, id, name, arguments),
                 apply_tool_delta(Told(p, s), index, id, name, arguments))
<1> DEFINE old   == IF index \in DOMAIN s.tools THEN s.tools[index] ELSE EmptyTool
           named == [old EXCEPT !.id = IF id = Absent THEN @ ELSE id,
                                !.name = @ \o Given(name),
                                !.arguments = @ \o Given(arguments)]
           tool  == [named EXCEPT !.added = @ \/ (named.id # <<>> /\ named.name # <<>>)]
           bytes == s.aggregate_bytes - Len(old.id) + Len(tool.id) + Len(Given(name)) + Len(Given(arguments))
           added == IF tool.added /\ ~ old.added
                    THEN <<ItemEvent("item.added", Call(tool.id), tool_output_index(s, index), tool.name)>>
                    ELSE <<>>
           delta == IF arguments # Absent
                    THEN <<ItemEvent("delta", Call(tool.id), tool_output_index(s, index), arguments)>>
                    ELSE <<>>
           full  == \/ bytes > MaxBytes
                    \/ index \notin DOMAIN s.tools /\ Cardinality(DOMAIN s.tools) >= MAX_STREAM_TOOL_CALLS
           tools == [i \in DOMAIN s.tools \cup {index} |-> IF i = index THEN tool ELSE s.tools[i]]
           t == [s EXCEPT !.aggregate_bytes = bytes, !.tools = tools]
           u == [Told(p, s) EXCEPT !.aggregate_bytes = bytes, !.tools = tools]
<1>1. /\ Told(p, s).tools = s.tools /\ Told(p, s).aggregate_bytes = s.aggregate_bytes
      /\ tool_output_index(Told(p, s), index) = tool_output_index(s, index)
  BY ReadsAlike DEF tool_output_index, message_output_index
<1>2. apply_tool_delta(s, index, id, name, arguments)
        = IF full THEN Fail(s, "StreamStateLimit") ELSE emit(t, added \o delta)
  BY DEF apply_tool_delta
<1>3. apply_tool_delta(Told(p, s), index, id, name, arguments)
        = IF full THEN Fail(Told(p, s), "StreamStateLimit") ELSE emit(u, added \o delta)
  BY <1>1 DEF apply_tool_delta
<1>4. IsSeq(added) /\ IsSeq(delta)
  BY Short
<1> HIDE DEF added, delta
<1>5. IsSeq(added \o delta)
  BY <1>4, Joined
<1>6. IsFiniteSet(DOMAIN s.tools \cup {index})
  BY FS_AddElement DEF Emitter
<1>7. DOMAIN tools = DOMAIN s.tools \cup {index}
  OBVIOUS
<1> HIDE DEF bytes, tools
<1>8. Moves(p, s, t, u)
  BY <1>6, <1>7 DEF Moves, Goes, Emitter, EmitterFields, Told
<1>9. Emitter(t) /\ u = Told(p, t)
  BY <1>8 DEF Moves, Goes
<1> HIDE DEF t, u, full
<1>10. Moves(p, t, emit(t, added \o delta), emit(u, added \o delta))
  BY <1>5, <1>9, EmitMoves
<1>11. Moves(p, s, emit(t, added \o delta), emit(u, added \o delta))
  BY <1>8, <1>10, Then
<1>12. Moves(p, s, Fail(s, "StreamStateLimit"), Fail(Told(p, s), "StreamStateLimit"))
  BY FailMoves
<1> QED
  BY <1>2, <1>3, <1>11, <1>12

Flats(g, s, n) == g = [i \in 1..n |-> IF i = 1 THEN s[i] ELSE g[i - 1] \o s[i]]

\* The function that FlattenSeq chooses exists.
LEMMA FlatsExists ==
    ASSUME NEW s, NEW n \in Nat
    PROVE  \E g : Flats(g, s, n)
<1> DEFINE Bad == {k \in Nat : ~ \E g : Flats(g, s, k)}
<1>1. ASSUME Bad # {} PROVE FALSE
  <2>1. PICK k \in Bad : \A j \in Bad : k <= j
    BY <1>1, Least
  <2>2. CASE k = 0
    <3> DEFINE z == [i \in 1..0 |-> <<>>]
    <3>1. 1..0 = {}
      OBVIOUS
    <3>2. Flats(z, s, 0)
      BY <3>1, Zenon DEF Flats
    <3> QED
      BY <2>1, <2>2, <3>2
  <2>3. CASE k # 0
    <3>1. PICK j \in Nat : k = j + 1
      BY <2>1, <2>3
    <3>2. PICK g : Flats(g, s, j)
      BY <2>1, <3>1
    <3> DEFINE next == IF k = 1 THEN s[k] ELSE g[j] \o s[k]
               h == [i \in 1..k |-> IF i = k THEN next ELSE g[i]]
    <3>3. \A i \in 1..j : g[i] = IF i = 1 THEN s[i] ELSE g[i - 1] \o s[i]
      BY <3>2, Zenon DEF Flats
    <3>4. ASSUME NEW i \in 1..k
          PROVE  h[i] = IF i = 1 THEN s[i] ELSE h[i - 1] \o s[i]
      <4>1. CASE i = k
        <5>1. CASE k = 1
          BY <4>1, <5>1
        <5>2. CASE k # 1
          <6>1. j \in 1..k /\ j # k /\ i - 1 = j
            BY <3>1, <4>1, <5>2
          <6>2. h[j] = g[j]
            BY <6>1
          <6> QED
            BY <4>1, <5>2, <6>1, <6>2
        <5> QED
          BY <5>1, <5>2
      <4>2. CASE i # k
        <5>1. i \in 1..j /\ h[i] = g[i]
          BY <3>1, <4>2
        <5>2. CASE i = 1
          BY <3>3, <5>1, <5>2
        <5>3. CASE i # 1
          <6>1. i - 1 \in 1..k /\ i - 1 # k
            BY <3>1, <5>1, <5>3
          <6>2. h[i - 1] = g[i - 1]
            BY <6>1
          <6> QED
            BY <3>3, <5>1, <5>3, <6>2
        <5> QED
          BY <5>2, <5>3
      <4> QED
        BY <4>1, <4>2
    <3>5. Flats(h, s, k)
      BY <3>4, Zenon DEF Flats
    <3> QED
      BY <2>1, <3>5
  <2> QED
    BY <2>2, <2>3
<1> QED
  BY <1>1

\* A sequence of sequences, flattened, is a sequence.
LEMMA Flattened ==
    ASSUME NEW n \in Nat, NEW s, DOMAIN s = 1..n, IsSeq(s), \A i \in 1..n : IsSeq(s[i])
    PROVE  IsSeq(FlattenSeq(s))
<1>1. Len(s) = n
  <2>1. PICK S : s \in Seq(S)
    BY DEF IsSeq
  <2> QED
    BY <2>1
<1>2. CASE n = 0
  BY <1>1, <1>2 DEF FlattenSeq
<1>3. CASE n # 0
  <2> DEFINE g == CHOOSE g : Flats(g, s, n)
  <2>1. Flats(g, s, n)
    BY FlatsExists
  <2>2. FlattenSeq(s) = g[n]
    BY <1>1, <1>3 DEF FlattenSeq, Flats
  <2> HIDE DEF g
  <2> DEFINE Bad == {k \in Nat : k \in 1..n /\ ~ IsSeq(g[k])}
  <2>3. \A i \in 1..n : g[i] = IF i = 1 THEN s[i] ELSE g[i - 1] \o s[i]
    BY <2>1, Zenon DEF Flats
  <2>4. ASSUME Bad # {} PROVE FALSE
    <3>1. PICK k \in Bad : \A j \in Bad : k <= j
      BY <2>4, Least
    <3>2. CASE k = 1
      BY <2>3, <3>1, <3>2
    <3>3. CASE k # 1
      <4>1. k - 1 \in 1..n /\ k - 1 \in Nat /\ ~ (k <= k - 1)
        BY <3>1, <3>3
      <4>2. IsSeq(g[k - 1]) /\ IsSeq(s[k])
        BY <3>1, <4>1
      <4>3. IsSeq(g[k - 1] \o s[k])
        BY <4>2, Joined
      <4> QED
        BY <2>3, <3>1, <3>3, <4>3
    <3> QED
      BY <3>2, <3>3
  <2> QED
    BY <1>3, <2>2, <2>4
<1> QED
  BY <1>2, <1>3

\* finish_items does not look at what is pending.
LEMMA FinishItemsMoves ==
    ASSUME NEW s, Emitter(s), NEW p, IsSeq(p)
    PROVE  Moves(p, s, finish_items(s), finish_items(Told(p, s)))
<1> DEFINE reasoning == IF s.reasoning_started THEN Closed(Reasoning, 0, s.reasoning) ELSE <<>>
           message   == IF s.text_started THEN Closed(Message, message_output_index(s), s.text) ELSE <<>>
           calls     == [i \in DOMAIN ToolIndices(s) |-> ClosedCall(s, ToolIndices(s)[i])]
           n         == Cardinality(DOMAIN s.tools)
<1>1. IsSeq(reasoning) /\ IsSeq(message)
  <2>1. \A item, index, body : IsSeq(Closed(item, index, body))
    <3>1. \A x, y, z : <<x, y, z>> \in Seq({x, y, z})
      OBVIOUS
    <3> QED
      BY <3>1 DEF IsSeq, Closed
  <2> QED
    BY <2>1, Short
<1>2. n \in Nat
  BY FS_CardinalityType DEF Emitter
<1>3. DOMAIN calls = 1..n
  BY DEF ToolIndices
<1>4. \A i \in 1..n : IsSeq(calls[i])
  <2>1. \A i \in 1..n : calls[i] = ClosedCall(s, ToolIndices(s)[i])
    BY <1>3
  <2>2. \A i : IsSeq(ClosedCall(s, i))
    BY Short DEF ClosedCall
  <2> QED
    BY <2>1, <2>2
<1>5. IsSeq(calls)
  <2>1. calls = [i \in 1..n |-> calls[i]]
    BY <1>3
  <2>2. calls \in Seq({calls[i] : i \in 1..n})
    BY <1>2, <2>1
  <2> QED
    BY <2>2 DEF IsSeq
<1> HIDE DEF reasoning, message, calls, n
<1>6. IsSeq(FlattenSeq(calls))
  BY <1>2, <1>3, <1>4, <1>5, Flattened
<1>7. IsSeq((reasoning \o message) \o FlattenSeq(calls))
  <2>1. IsSeq(reasoning \o message)
    BY <1>1, Joined
  <2> QED
    BY <1>6, <2>1, Joined
<1>8. finish_items(s) = emit(s, (reasoning \o message) \o FlattenSeq(calls))
  BY DEF finish_items, reasoning, message, calls
<1>9. finish_items(Told(p, s)) = emit(Told(p, s), (reasoning \o message) \o FlattenSeq(calls))
  <2>1. /\ Told(p, s).tools = s.tools /\ Told(p, s).reasoning_started = s.reasoning_started
        /\ Told(p, s).text_started = s.text_started /\ Told(p, s).text = s.text
        /\ Told(p, s).reasoning = s.reasoning
    BY ReadsAlike
  <2>2. ToolIndices(Told(p, s)) = ToolIndices(s)
    BY <2>1 DEF ToolIndices
  <2>3. message_output_index(Told(p, s)) = message_output_index(s)
    BY <2>1 DEF message_output_index
  <2>4. \A i : ClosedCall(Told(p, s), i) = ClosedCall(s, i)
    BY <2>1, <2>3 DEF ClosedCall, tool_output_index
  <2>5. calls = [i \in DOMAIN ToolIndices(Told(p, s)) |-> ClosedCall(Told(p, s), ToolIndices(Told(p, s))[i])]
    BY <2>2, <2>4 DEF calls
  <2> QED
    BY <2>1, <2>3, <2>5 DEF finish_items, reasoning, message
<1> QED
  BY <1>7, <1>8, <1>9, EmitMoves

\* The reason to stop does not.
LEMMA StopMoves ==
    ASSUME NEW s, Emitter(s), NEW p, IsSeq(p), NEW reason
    PROVE  Moves(p, s, Stop(s, reason), Stop(Told(p, s), reason))
<1> DEFINE r == reserve_aggregate_bytes(s, 1)
           q == reserve_aggregate_bytes(Told(p, s), 1)
           t == [r EXCEPT !.finish_reason = reason]
           u == [q EXCEPT !.finish_reason = reason]
<1>1. Moves(p, s, r, q)
  BY ReserveMoves
<1> HIDE DEF r, q
<1>2. Moves(p, r, t, u)
  BY <1>1 DEF Moves, Goes, Emitter, EmitterFields, Told
<1>3. Emitter(t) /\ u = Told(p, t)
  BY <1>2 DEF Moves, Goes
<1> HIDE DEF t, u
<1>4. Moves(p, t, finish_items(t), finish_items(u))
  BY <1>3, FinishItemsMoves
<1>5. Moves(p, s, finish_items(t), finish_items(u))
  BY <1>1, <1>2, <1>4, Then
<1>6. Moves(p, s, Fail(s, "InvalidStream"), Fail(Told(p, s), "InvalidStream"))
  BY FailMoves
<1>7. Told(p, s).finish_reason = s.finish_reason
  BY ReadsAlike
<1> QED
  BY <1>5, <1>6, <1>7 DEF Stop, t, u, r, q

\* The operations that end a response: they leave an ended one ended.
Lasts(s, t) == s.terminal => t.terminal

\* finalize does not, and ends the response.
LEMMA FinalizeGoes ==
    ASSUME NEW s, Emitter(s), NEW p, IsSeq(p)
    PROVE  Goes(p, finalize(s), finalize(Told(p, s))) /\ finalize(s).terminal
<1> DEFINE type == TerminalType(s.finish_reason)
           t == [s EXCEPT !.terminal = TRUE, !.completed = type = "completed"]
           u == [Told(p, s) EXCEPT !.terminal = TRUE, !.completed = type = "completed"]
           e == <<Event(type, Item("response", s.response_id), 0, <<>>, response_output(s))>>
<1>1. Goes(p, t, u) /\ t.terminal
  BY DEF Goes, Emitter, EmitterFields, Told
<1>2. Emitter(t) /\ u = Told(p, t) /\ IsSeq(e)
  BY <1>1, Short DEF Goes
<1>3. /\ Told(p, s).tools = s.tools /\ Told(p, s).reasoning_started = s.reasoning_started
      /\ Told(p, s).text_started = s.text_started /\ Told(p, s).text = s.text
      /\ Told(p, s).reasoning = s.reasoning /\ Told(p, s).finish_reason = s.finish_reason
      /\ Told(p, s).response_id = s.response_id
  BY ReadsAlike
<1>4. response_output(Told(p, s)) = response_output(s)
  <2>1. ToolIndices(Told(p, s)) = ToolIndices(s)
    BY <1>3 DEF ToolIndices
  <2> QED
    BY <1>3, <2>1 DEF response_output
<1>5. finalize(s) = emit(t, e)
  BY DEF finalize
<1>6. finalize(Told(p, s)) = emit(u, e)
  BY <1>3, <1>4 DEF finalize
<1> HIDE DEF t, u, e
<1>7. Moves(p, t, emit(t, e), emit(u, e))
  BY <1>2, EmitMoves
<1> QED
  BY <1>1, <1>5, <1>6, <1>7 DEF Moves

\* The end of a stream of Chat Completions does not.
LEMMA DoneGoes ==
    ASSUME NEW s, Emitter(s), NEW p, IsSeq(p)
    PROVE  Goes(p, Done(s), Done(Told(p, s))) /\ Lasts(s, Done(s))
<1>1. Moves(p, s, Fail(s, "InvalidStream"), Fail(Told(p, s), "InvalidStream"))
  BY FailMoves
<1>2. Told(p, s).finish_reason = s.finish_reason
  BY ReadsAlike
<1> QED
  BY <1>1, <1>2, FinalizeGoes DEF Done, Moves, Lasts

\* OutputEmitter::finish does not, and keeps an error.
LEMMA FinishGoes ==
    ASSUME NEW s, Emitter(s), NEW p, IsSeq(p)
    PROVE  /\ Goes(p, finish(s), finish(Told(p, s))) /\ Lasts(s, finish(s))
           /\ s.error # "none" => finish(s).error # "none"
<1>1. Goes(p, s, Told(p, s))
  BY DEF Goes
<1>2. Told(p, s).finish_reason = s.finish_reason /\ Told(p, s).terminal = s.terminal
  BY ReadsAlike
<1>3. finalize(s).error = s.error
  BY DEF finalize, emit, Emitter, EmitterFields
<1> QED
  BY <1>1, <1>2, <1>3, FinalizeGoes DEF finish, Lasts

\* apply does not when its operation does not.
LEMMA ApplyMoves ==
    ASSUME NEW s, Emitter(s), NEW p, IsSeq(p), NEW t, NEW u, Moves(p, s, t, u)
    PROVE  Moves(p, s, apply(s, t), apply(Told(p, s), u))
<1>1. Moves(p, s, s, Told(p, s)) /\ Moves(p, s, Fail(s, "InvalidStream"), Fail(Told(p, s), "InvalidStream"))
  BY FailMoves DEF Moves, Goes
<1>2. Told(p, s).error = s.error /\ Told(p, s).terminal = s.terminal
  BY ReadsAlike
<1> QED
  BY <1>1, <1>2 DEF apply

\* The same of an operation that may end the response.
LEMMA ApplyGoes ==
    ASSUME NEW s, Emitter(s), NEW p, IsSeq(p), NEW t, NEW u, Goes(p, t, u), Lasts(s, t)
    PROVE  Goes(p, apply(s, t), apply(Told(p, s), u)) /\ Lasts(s, apply(s, t))
<1>1. Moves(p, s, s, Told(p, s)) /\ Moves(p, s, Fail(s, "InvalidStream"), Fail(Told(p, s), "InvalidStream"))
  BY FailMoves DEF Moves, Goes
<1>2. Told(p, s).error = s.error /\ Told(p, s).terminal = s.terminal
  BY ReadsAlike
<1> QED
  BY <1>1, <1>2 DEF apply, Moves, Lasts

-----------------------------------------------------------------------------
(* ChatDecoder. *)

\* A chunk names its calls in a sequence.
IsChunk(b) == \E n \in Nat : DOMAIN b.choice.calls = 1..n

\* The calls of a chunk, one after the other, do not look at what is pending.
LEMMA CallsMove ==
    ASSUME NEW s, Emitter(s), NEW p, IsSeq(p), NEW calls, NEW n \in Nat, DOMAIN calls = 1..n
    PROVE  Moves(p, s, FoldLeft(ChatApplyCall, s, calls), FoldLeft(ChatApplyCall, Told(p, s), calls))
<1> DEFINE c == [op |-> "call"]
           a(k) == Fold(c, s, calls, k)
           b(k) == Fold(c, Told(p, s), calls, k)
<1>1. \A d, x : Step(c, d, x) = ChatApplyCall(d, x)
  BY DEF Step
<1>2. FoldLeft(ChatApplyCall, s, calls) = a(n) /\ FoldLeft(ChatApplyCall, Told(p, s), calls) = b(n)
  BY CallsFold
<1> HIDE DEF c
<1>3. a(0) = s /\ b(0) = Told(p, s)
  BY FoldStart
<1>4. \A k \in Nat : a(k + 1) = ChatApplyCall(a(k), calls[k + 1]) /\ b(k + 1) = ChatApplyCall(b(k), calls[k + 1])
  BY <1>1, FoldNext
<1> HIDE DEF a, b
<1> DEFINE Bad == {k \in Nat : ~ Moves(p, s, a(k), b(k))}
<1>5. ASSUME Bad # {} PROVE FALSE
  <2>1. PICK k \in Bad : \A j \in Bad : k <= j
    BY <1>5, Least
  <2>2. CASE k = 0
    BY <1>3, <2>1, <2>2 DEF Moves, Goes
  <2>3. CASE k # 0
    <3>1. PICK j \in Nat : k = j + 1
      BY <2>1, <2>3
    <3>2. Moves(p, s, a(j), b(j))
      BY <2>1, <3>1
    <3> DEFINE call == calls[j + 1]
               t == a(j)
               u == apply_tool_delta(t, call.index, call.id, call.name, call.arguments)
               v == apply_tool_delta(Told(p, t), call.index, call.id, call.name, call.arguments)
    <3>3. Emitter(t) /\ b(j) = Told(p, t)
      BY <3>2 DEF Moves, Goes
    <3>4. Moves(p, t, u, v)
      BY <3>3, ToolDeltaMoves
    <3>5. Moves(p, t, apply(t, u), apply(Told(p, t), v))
      BY <3>3, <3>4, ApplyMoves
    <3>6. a(k) = apply(t, u) /\ b(k) = apply(Told(p, t), v)
      BY <1>4, <3>1, <3>3 DEF ChatApplyCall
    <3> QED
      BY <2>1, <3>2, <3>5, <3>6, Then
  <2> QED
    BY <2>2, <2>3
<1> QED
  BY <1>2, <1>5

\* A chunk of Chat Completions is parsed whatever was told before.
LEMMA ChunkMoves ==
    ASSUME NEW s, Emitter(s), NEW p, IsSeq(p), NEW b, IsChunk(b), b.type # "[DONE]"
    PROVE  Moves(p, s, ChatParse(s, b), ChatParse(Told(p, s), b))
<1> DEFINE choice      == b.choice
           started(d)  == apply(d, Start(d, <<1>>))
           counted(d)  == IF b.usage THEN apply(d, Usage(d)) ELSE d
           reasoned(d) == apply(d, ReasoningDelta(d, Given(choice.reasoning)))
           written(d)  == apply(d, TextDelta(d, Given(choice.content)))
           called(d)   == FoldLeft(ChatApplyCall, d, choice.calls)
           stopped(d)  == IF choice.finish = "none" THEN d ELSE apply(d, Stop(d, choice.finish))
<1>1. \A d : ChatParse(d, b) = stopped(called(written(reasoned(counted(started(d))))))
  BY DEF ChatParse
<1>2. ASSUME NEW d, Emitter(d)
      PROVE  /\ Moves(p, d, started(d), started(Told(p, d)))
             /\ Moves(p, d, counted(d), counted(Told(p, d)))
             /\ Moves(p, d, reasoned(d), reasoned(Told(p, d)))
             /\ Moves(p, d, written(d), written(Told(p, d)))
             /\ Moves(p, d, called(d), called(Told(p, d)))
             /\ Moves(p, d, stopped(d), stopped(Told(p, d)))
  <2>0. Moves(p, d, d, Told(p, d))
    BY <1>2 DEF Moves, Goes
  <2>1. Moves(p, d, Start(d, <<1>>), Start(Told(p, d), <<1>>))
    BY <1>2, StartMoves
  <2>2. Moves(p, d, Usage(d), Usage(Told(p, d)))
    BY <1>2, UsageMoves
  <2>3. Moves(p, d, ReasoningDelta(d, Given(choice.reasoning)), ReasoningDelta(Told(p, d), Given(choice.reasoning)))
    BY <1>2, ReasoningDeltaMoves
  <2>4. Moves(p, d, TextDelta(d, Given(choice.content)), TextDelta(Told(p, d), Given(choice.content)))
    BY <1>2, TextDeltaMoves
  <2>5. Moves(p, d, called(d), called(Told(p, d)))
    BY <1>2, CallsMove DEF IsChunk
  <2>6. Moves(p, d, Stop(d, choice.finish), Stop(Told(p, d), choice.finish))
    BY <1>2, StopMoves
  <2>7. Moves(p, d, started(d), started(Told(p, d)))
    BY <1>2, <2>1, ApplyMoves
  <2>8. Moves(p, d, counted(d), counted(Told(p, d)))
    BY <1>2, <2>0, <2>2, ApplyMoves
  <2>9. Moves(p, d, reasoned(d), reasoned(Told(p, d)))
    BY <1>2, <2>3, ApplyMoves
  <2>10. Moves(p, d, written(d), written(Told(p, d)))
    BY <1>2, <2>4, ApplyMoves
  <2>11. Moves(p, d, stopped(d), stopped(Told(p, d)))
    BY <1>2, <2>0, <2>6, ApplyMoves
  <2> QED
    BY <2>5, <2>7, <2>8, <2>9, <2>10, <2>11
<1> HIDE DEF started, counted, reasoned, written, called, stopped
<1> DEFINE d1 == started(s)
           d2 == counted(d1)
           d3 == reasoned(d2)
           d4 == written(d3)
           d5 == called(d4)
           e1 == started(Told(p, s))
           e2 == counted(e1)
           e3 == reasoned(e2)
           e4 == written(e3)
           e5 == called(e4)
<1>3. Moves(p, s, d1, e1) /\ Emitter(d1) /\ e1 = Told(p, d1)
  BY <1>2 DEF Moves, Goes
<1>4. Moves(p, s, d2, e2) /\ Emitter(d2) /\ e2 = Told(p, d2)
  <2>1. Moves(p, d1, d2, e2)
    BY <1>2, <1>3
  <2> QED
    BY <1>3, <2>1, Then DEF Moves, Goes
<1>5. Moves(p, s, d3, e3) /\ Emitter(d3) /\ e3 = Told(p, d3)
  <2>1. Moves(p, d2, d3, e3)
    BY <1>2, <1>4
  <2> QED
    BY <1>4, <2>1, Then DEF Moves, Goes
<1>6. Moves(p, s, d4, e4) /\ Emitter(d4) /\ e4 = Told(p, d4)
  <2>1. Moves(p, d3, d4, e4)
    BY <1>2, <1>5
  <2> QED
    BY <1>5, <2>1, Then DEF Moves, Goes
<1>7. Moves(p, s, d5, e5) /\ Emitter(d5) /\ e5 = Told(p, d5)
  <2>1. Moves(p, d4, d5, e5)
    BY <1>2, <1>6
  <2> QED
    BY <1>6, <2>1, Then DEF Moves, Goes
<1>8. Moves(p, d5, stopped(d5), stopped(e5))
  BY <1>2, <1>7
<1>9. ChatParse(s, b) = stopped(d5) /\ ChatParse(Told(p, s), b) = stopped(e5)
  BY <1>1
<1> QED
  BY <1>7, <1>8, <1>9, Then

\* So is [DONE].
LEMMA ChatDoneGoes ==
    ASSUME NEW s, Emitter(s), NEW p, IsSeq(p), NEW b, b.type = "[DONE]"
    PROVE  Goes(p, ChatParse(s, b), ChatParse(Told(p, s), b)) /\ Lasts(s, ChatParse(s, b))
<1>1. Goes(p, Done(s), Done(Told(p, s))) /\ Lasts(s, Done(s))
  BY DoneGoes
<1>2. Goes(p, apply(s, Done(s)), apply(Told(p, s), Done(Told(p, s)))) /\ Lasts(s, apply(s, Done(s)))
  BY <1>1, ApplyGoes
<1> QED
  BY <1>2 DEF ChatParse

-----------------------------------------------------------------------------
(* AnthropicDecoder. *)

AnthropicFields == {"inner", "content", "tool_json", "tool_indices", "aggregate_bytes"}

Anthropic(d) == d = [f \in AnthropicFields |-> d[f]] /\ Emitter(d.inner)

ToldInner(p, d) == [d EXCEPT !.inner = Told(p, @)]

GoesInner(p, t, u) == Anthropic(t) /\ u = ToldInner(p, t)

MovesInner(p, s, t, u) == GoesInner(p, t, u) /\ t.inner.terminal = s.inner.terminal

\* The fields of an Anthropic decoder that told p before.
LEMMA ReadsInnerAlike ==
    ASSUME NEW s, Anthropic(s), NEW p, IsSeq(p)
    PROVE  /\ ToldInner(p, s).inner = Told(p, s.inner) /\ ToldInner(p, s).content = s.content
           /\ ToldInner(p, s).tool_json = s.tool_json /\ ToldInner(p, s).tool_indices = s.tool_indices
           /\ ToldInner(p, s).aggregate_bytes = s.aggregate_bytes
BY DEF Anthropic, AnthropicFields, ToldInner

\* Two operations one after the other.
LEMMA ThenInner ==
    ASSUME NEW p, NEW s, NEW t, NEW u, MovesInner(p, s, t, u), NEW v, NEW w, MovesInner(p, t, v, w)
    PROVE  MovesInner(p, s, v, w)
BY DEF MovesInner

\* An operation that does nothing.
LEMMA StaysInner ==
    ASSUME NEW s, Anthropic(s), NEW p, IsSeq(p)
    PROVE  MovesInner(p, s, s, ToldInner(p, s))
BY DEF MovesInner, GoesInner

\* An operation of the emitter within the decoder.
LEMMA WithInner ==
    ASSUME NEW s, Anthropic(s), NEW p, IsSeq(p), NEW i, NEW j, Goes(p, i, j)
    PROVE  /\ GoesInner(p, [s EXCEPT !.inner = i], [ToldInner(p, s) EXCEPT !.inner = j])
           /\ [s EXCEPT !.inner = i].inner = i
BY DEF Anthropic, AnthropicFields, ToldInner, GoesInner, Goes

\* An error is kept whatever was told before.
LEMMA FailMovesInner ==
    ASSUME NEW s, Anthropic(s), NEW p, IsSeq(p), NEW e \in {"InvalidStream", "StreamStateLimit"}
    PROVE  MovesInner(p, s, AnthropicFail(s, e), AnthropicFail(ToldInner(p, s), e))
<1>1. Emitter(s.inner)
  BY DEF Anthropic
<1>2. Moves(p, s.inner, Fail(s.inner, e), Fail(Told(p, s.inner), e))
  BY <1>1, FailMoves
<1>3. AnthropicFail(s, e) = [s EXCEPT !.inner = Fail(s.inner, e)]
  BY DEF AnthropicFail
<1>4. AnthropicFail(ToldInner(p, s), e) = [ToldInner(p, s) EXCEPT !.inner = Fail(Told(p, s.inner), e)]
  BY ReadsInnerAlike DEF AnthropicFail
<1> QED
  BY <1>2, <1>3, <1>4, WithInner DEF Moves, MovesInner

\* feed gives an event to the emitter, whatever was told before.
LEMMA FeedMoves ==
    ASSUME NEW s, Anthropic(s), NEW p, IsSeq(p), NEW i, NEW j, Moves(p, s.inner, i, j)
    PROVE  MovesInner(p, s, feed(s, i), feed(ToldInner(p, s), j))
<1>1. Emitter(s.inner)
  BY DEF Anthropic
<1>2. Moves(p, s.inner, apply(s.inner, i), apply(Told(p, s.inner), j))
  BY <1>1, ApplyMoves
<1>3. feed(s, i) = [s EXCEPT !.inner = apply(s.inner, i)]
  BY DEF feed
<1>4. feed(ToldInner(p, s), j) = [ToldInner(p, s) EXCEPT !.inner = apply(Told(p, s.inner), j)]
  BY ReadsInnerAlike DEF feed
<1> QED
  BY <1>2, <1>3, <1>4, WithInner DEF Moves, MovesInner

\* The same of an event that may end the response.
LEMMA FeedGoes ==
    ASSUME NEW s, Anthropic(s), NEW p, IsSeq(p), NEW i, NEW j, Goes(p, i, j), Lasts(s.inner, i)
    PROVE  GoesInner(p, feed(s, i), feed(ToldInner(p, s), j)) /\ Lasts(s.inner, feed(s, i).inner)
<1>1. Emitter(s.inner)
  BY DEF Anthropic
<1>2. Goes(p, apply(s.inner, i), apply(Told(p, s.inner), j)) /\ Lasts(s.inner, apply(s.inner, i))
  BY <1>1, ApplyGoes
<1>3. feed(s, i) = [s EXCEPT !.inner = apply(s.inner, i)]
  BY DEF feed
<1>4. feed(ToldInner(p, s), j) = [ToldInner(p, s) EXCEPT !.inner = apply(Told(p, s.inner), j)]
  BY ReadsInnerAlike DEF feed
<1> QED
  BY <1>2, <1>3, <1>4, WithInner

\* What is counted does not depend on what is pending.
LEMMA AggregateMoves ==
    ASSUME NEW s, Anthropic(s), NEW p, IsSeq(p), NEW v
    PROVE  MovesInner(p, s, [s EXCEPT !.aggregate_bytes = v], [ToldInner(p, s) EXCEPT !.aggregate_bytes = v])
BY DEF Anthropic, AnthropicFields, ToldInner, GoesInner, MovesInner

\* Nor does the content that is kept.
LEMMA ContentMoves ==
    ASSUME NEW s, Anthropic(s), NEW p, IsSeq(p), NEW v
    PROVE  MovesInner(p, s, [s EXCEPT !.content = v], [ToldInner(p, s) EXCEPT !.content = v])
BY DEF Anthropic, AnthropicFields, ToldInner, GoesInner, MovesInner

\* Nor does the input of a call.
LEMMA ToolJsonMoves ==
    ASSUME NEW s, Anthropic(s), NEW p, IsSeq(p), NEW v
    PROVE  MovesInner(p, s, [s EXCEPT !.tool_json = v], [ToldInner(p, s) EXCEPT !.tool_json = v])
BY DEF Anthropic, AnthropicFields, ToldInner, GoesInner, MovesInner

\* Nor do the indices of the calls.
LEMMA ToolIndicesMoves ==
    ASSUME NEW s, Anthropic(s), NEW p, IsSeq(p), NEW v
    PROVE  MovesInner(p, s, [s EXCEPT !.tool_indices = v], [ToldInner(p, s) EXCEPT !.tool_indices = v])
BY DEF Anthropic, AnthropicFields, ToldInner, GoesInner, MovesInner

\* Nor does what is reserved.
LEMMA ReserveMovesInner ==
    ASSUME NEW s, Anthropic(s), NEW p, IsSeq(p), NEW n
    PROVE  MovesInner(p, s, AnthropicReserve(s, n), AnthropicReserve(ToldInner(p, s), n))
<1>1. MovesInner(p, s, [s EXCEPT !.aggregate_bytes = s.aggregate_bytes + n],
                 [ToldInner(p, s) EXCEPT !.aggregate_bytes = s.aggregate_bytes + n])
  BY AggregateMoves
<1>2. ToldInner(p, s).aggregate_bytes = s.aggregate_bytes
  BY ReadsInnerAlike
<1> QED
  BY <1>1, <1>2, FailMovesInner DEF AnthropicReserve

\* The start of a message is parsed whatever was told before.
LEMMA MessageStartMoves ==
    ASSUME NEW s, Anthropic(s), NEW p, IsSeq(p)
    PROVE  MovesInner(p, s, MessageStart(s), MessageStart(ToldInner(p, s)))
<1> DEFINE t == feed(s, Start(s.inner, <<1>>))
           u == feed(ToldInner(p, s), Start(Told(p, s.inner), <<1>>))
<1>1. Moves(p, s.inner, Start(s.inner, <<1>>), Start(Told(p, s.inner), <<1>>))
  BY StartMoves DEF Anthropic
<1>2. MovesInner(p, s, t, u)
  BY <1>1, FeedMoves
<1> HIDE DEF t, u
<1>3. Anthropic(t) /\ u = ToldInner(p, t) /\ u.inner = Told(p, t.inner)
  BY <1>2, ReadsInnerAlike DEF MovesInner, GoesInner
<1>4. Moves(p, t.inner, Usage(t.inner), Usage(u.inner))
  BY <1>3, UsageMoves DEF Anthropic
<1>5. MovesInner(p, t, feed(t, Usage(t.inner)), feed(u, Usage(u.inner)))
  BY <1>3, <1>4, FeedMoves
<1> QED
  BY <1>2, <1>5, ThenInner, ReadsInnerAlike DEF MessageStart, t, u

\* So is the start of a call.
LEMMA ToolStartMoves ==
    ASSUME NEW s, Anthropic(s), NEW p, IsSeq(p), NEW ev
    PROVE  MovesInner(p, s, ToolStart(s, ev), ToolStart(ToldInner(p, s), ev))
<1> DEFINE index == IF ev.index \in DOMAIN s.tool_indices THEN s.tool_indices[ev.index]
                    ELSE Cardinality(DOMAIN s.tool_indices)
           put == Put(s.tool_indices, ev.index, index)
           t == [s EXCEPT !.tool_indices = put]
           u == [ToldInner(p, s) EXCEPT !.tool_indices = put]
           i == apply_tool_delta(s.inner, index, ev.body, ev.body, <<>>)
           j == apply_tool_delta(Told(p, s.inner), index, ev.body, ev.body, <<>>)
<1>1. ToolStart(s, ev) = feed(t, i)
  BY DEF ToolStart
<1>2. ToolStart(ToldInner(p, s), ev) = feed(u, j)
  BY ReadsInnerAlike DEF ToolStart
<1>3. Moves(p, s.inner, i, j)
  BY ToolDeltaMoves DEF Anthropic
<1> HIDE DEF put, i, j
<1>4. MovesInner(p, s, t, u)
  BY ToolIndicesMoves
<1>5. Anthropic(t) /\ u = ToldInner(p, t) /\ t.inner = s.inner
  BY <1>4 DEF MovesInner, GoesInner, Anthropic, AnthropicFields
<1> HIDE DEF t, u
<1>6. MovesInner(p, t, feed(t, i), feed(u, j))
  BY <1>3, <1>5, FeedMoves
<1> QED
  BY <1>1, <1>2, <1>4, <1>6, ThenInner

\* So is the start of a content block, within the limits or not.
LEMMA ContentBlockStartMoves ==
    ASSUME NEW s, Anthropic(s), NEW p, IsSeq(p), NEW ev
    PROVE  MovesInner(p, s, ContentBlockStart(s, ev), ContentBlockStart(ToldInner(p, s), ev))
<1> DEFINE r == AnthropicReserve(s, 1)
           q == AnthropicReserve(ToldInner(p, s), 1)
           t == [r EXCEPT !.content = Put(@, ev.index, ContentBlock(ev))]
           u == [q EXCEPT !.content = Put(@, ev.index, ContentBlock(ev))]
           full(d) == ev.index \notin DOMAIN d.content /\ Cardinality(DOMAIN d.content) >= MAX_CONTENT_BLOCKS
           next(d) == CASE ev.block = "text" -> feed(d, TextDelta(d.inner, ev.body))
                        [] ev.block = "thinking" -> feed(d, ReasoningDelta(d.inner, ev.body))
                        [] ev.block = "tool_use" -> ToolStart(d, ev)
                        [] ev.block = "redacted_thinking" -> d
                        [] OTHER -> AnthropicFail(d, "InvalidStream")
<1>1. MovesInner(p, s, r, q)
  BY ReserveMovesInner
<1>2. ContentBlockStart(s, ev) = IF full(s) THEN AnthropicFail(s, "StreamStateLimit") ELSE next(t)
  BY DEF ContentBlockStart
<1>3. ContentBlockStart(ToldInner(p, s), ev)
        = IF full(ToldInner(p, s)) THEN AnthropicFail(ToldInner(p, s), "StreamStateLimit") ELSE next(u)
  BY DEF ContentBlockStart
<1>4. full(ToldInner(p, s)) <=> full(s)
  BY ReadsInnerAlike
<1> HIDE DEF r, q, full
<1>5. Anthropic(r) /\ q = ToldInner(p, r) /\ q.content = r.content
  BY <1>1, ReadsInnerAlike DEF MovesInner, GoesInner
<1>6. MovesInner(p, r, t, u)
  <2> DEFINE put == Put(r.content, ev.index, ContentBlock(ev))
  <2>1. t = [r EXCEPT !.content = put] /\ u = [q EXCEPT !.content = put]
    BY <1>5
  <2> HIDE DEF put
  <2> QED
    BY <1>5, <2>1, ContentMoves
<1> HIDE DEF t, u
<1>7. Anthropic(t) /\ u = ToldInner(p, t) /\ u.inner = Told(p, t.inner) /\ Emitter(t.inner)
  BY <1>6, ReadsInnerAlike DEF MovesInner, GoesInner, Anthropic
<1>8. MovesInner(p, t, next(t), next(u))
  <2>1. MovesInner(p, t, feed(t, TextDelta(t.inner, ev.body)), feed(u, TextDelta(u.inner, ev.body)))
    BY <1>7, TextDeltaMoves, FeedMoves
  <2>2. MovesInner(p, t, feed(t, ReasoningDelta(t.inner, ev.body)), feed(u, ReasoningDelta(u.inner, ev.body)))
    BY <1>7, ReasoningDeltaMoves, FeedMoves
  <2>3. MovesInner(p, t, ToolStart(t, ev), ToolStart(u, ev))
    BY <1>7, ToolStartMoves
  <2>4. MovesInner(p, t, AnthropicFail(t, "InvalidStream"), AnthropicFail(u, "InvalidStream"))
    BY <1>7, FailMovesInner
  <2>5. MovesInner(p, t, t, u)
    BY <1>7, StaysInner
  <2> QED
    BY <2>1, <2>2, <2>3, <2>4, <2>5
<1> HIDE DEF next
<1>9. MovesInner(p, s, next(t), next(u))
  BY <1>1, <1>6, <1>8, ThenInner
<1> QED
  BY <1>2, <1>3, <1>4, <1>9, FailMovesInner

\* So is a text that is added to a content block.
LEMMA BlockTextMoves ==
    ASSUME NEW s, Anthropic(s), NEW p, IsSeq(p), NEW index, NEW block, NEW body
    PROVE  MovesInner(p, s, append_block_text(s, index, block, body),
                      append_block_text(ToldInner(p, s), index, block, body))
<1> DEFINE content == [s.content EXCEPT ![index].body = @ \o body]
<1>1. append_block_text(s, index, block, body)
        = IF index \in DOMAIN s.content /\ s.content[index].type = block
          THEN [s EXCEPT !.content = content] ELSE AnthropicFail(s, "InvalidStream")
  BY DEF append_block_text
<1>2. append_block_text(ToldInner(p, s), index, block, body)
        = IF index \in DOMAIN s.content /\ s.content[index].type = block
          THEN [ToldInner(p, s) EXCEPT !.content = content] ELSE AnthropicFail(ToldInner(p, s), "InvalidStream")
  BY ReadsInnerAlike DEF append_block_text
<1> HIDE DEF content
<1>3. MovesInner(p, s, [s EXCEPT !.content = content], [ToldInner(p, s) EXCEPT !.content = content])
  BY ContentMoves
<1> QED
  BY <1>1, <1>2, <1>3, FailMovesInner

\* So is a delta of a text or of a reasoning.
LEMMA TextBlockMoves ==
    ASSUME NEW s, Anthropic(s), NEW p, IsSeq(p), NEW ev
    PROVE  /\ MovesInner(p, s, TextBlockDelta(s, ev), TextBlockDelta(ToldInner(p, s), ev))
           /\ MovesInner(p, s, ThinkingBlockDelta(s, ev), ThinkingBlockDelta(ToldInner(p, s), ev))
<1> DEFINE r == AnthropicReserve(s, Len(ev.body))
           q == AnthropicReserve(ToldInner(p, s), Len(ev.body))
           t(block) == append_block_text(r, ev.index, block, ev.body)
           u(block) == append_block_text(q, ev.index, block, ev.body)
<1>1. MovesInner(p, s, r, q)
  BY ReserveMovesInner
<1> HIDE DEF r, q
<1>2. Anthropic(r) /\ q = ToldInner(p, r)
  BY <1>1 DEF MovesInner, GoesInner
<1>3. \A block : MovesInner(p, r, t(block), u(block))
  BY <1>2, BlockTextMoves
<1> HIDE DEF t, u
<1>4. \A block : /\ Anthropic(t(block)) /\ u(block) = ToldInner(p, t(block))
                 /\ u(block).inner = Told(p, t(block).inner) /\ Emitter(t(block).inner)
  BY <1>3, ReadsInnerAlike DEF MovesInner, GoesInner, Anthropic
<1>5. \A block : Moves(p, t(block).inner, TextDelta(t(block).inner, ev.body), TextDelta(u(block).inner, ev.body))
  BY <1>4, TextDeltaMoves
<1>6. \A block : Moves(p, t(block).inner, ReasoningDelta(t(block).inner, ev.body), ReasoningDelta(u(block).inner, ev.body))
  BY <1>4, ReasoningDeltaMoves
<1>7. MovesInner(p, t("text"), feed(t("text"), TextDelta(t("text").inner, ev.body)),
                 feed(u("text"), TextDelta(u("text").inner, ev.body)))
  BY <1>4, <1>5, FeedMoves
<1>8. MovesInner(p, t("thinking"), feed(t("thinking"), ReasoningDelta(t("thinking").inner, ev.body)),
                 feed(u("thinking"), ReasoningDelta(u("thinking").inner, ev.body)))
  BY <1>4, <1>6, FeedMoves
<1>9. MovesInner(p, s, feed(t("text"), TextDelta(t("text").inner, ev.body)),
                 feed(u("text"), TextDelta(u("text").inner, ev.body)))
  BY <1>1, <1>3, <1>7, ThenInner
<1>10. MovesInner(p, s, feed(t("thinking"), ReasoningDelta(t("thinking").inner, ev.body)),
                 feed(u("thinking"), ReasoningDelta(u("thinking").inner, ev.body)))
  BY <1>1, <1>3, <1>8, ThenInner
<1> QED
  BY <1>9, <1>10 DEF TextBlockDelta, ThinkingBlockDelta, t, u, r, q

\* So is a signature.
LEMMA SignatureMoves ==
    ASSUME NEW s, Anthropic(s), NEW p, IsSeq(p), NEW ev
    PROVE  MovesInner(p, s, SignatureDelta(s, ev), SignatureDelta(ToldInner(p, s), ev))
<1> DEFINE r == AnthropicReserve(s, Len(ev.body))
           q == AnthropicReserve(ToldInner(p, s), Len(ev.body))
           content == [r.content EXCEPT ![ev.index].signature = @ \o ev.body]
<1>1. MovesInner(p, s, r, q)
  BY ReserveMovesInner
<1>2. SignatureDelta(s, ev) = IF ev.index \in DOMAIN s.content THEN [r EXCEPT !.content = content]
                              ELSE AnthropicFail(s, "InvalidStream")
  BY DEF SignatureDelta
<1>3. q.content = r.content
  BY <1>1, ReadsInnerAlike DEF MovesInner, GoesInner
<1>4. SignatureDelta(ToldInner(p, s), ev)
        = IF ev.index \in DOMAIN s.content THEN [q EXCEPT !.content = content]
          ELSE AnthropicFail(ToldInner(p, s), "InvalidStream")
  BY <1>3, ReadsInnerAlike DEF SignatureDelta
<1> HIDE DEF r, q, content
<1>5. MovesInner(p, r, [r EXCEPT !.content = content], [q EXCEPT !.content = content])
  BY <1>1, ContentMoves DEF MovesInner, GoesInner
<1>6. MovesInner(p, s, [r EXCEPT !.content = content], [q EXCEPT !.content = content])
  BY <1>1, <1>5, ThenInner
<1> QED
  BY <1>2, <1>4, <1>6, FailMovesInner

\* So is a piece of the input of a call.
LEMMA InputJsonMoves ==
    ASSUME NEW s, Anthropic(s), NEW p, IsSeq(p), NEW ev
    PROVE  MovesInner(p, s, InputJsonDelta(s, ev), InputJsonDelta(ToldInner(p, s), ev))
<1> DEFINE r   == AnthropicReserve(s, Len(ev.body))
           q   == AnthropicReserve(ToldInner(p, s), Len(ev.body))
           old == IF ev.index \in DOMAIN s.tool_json THEN s.tool_json[ev.index] ELSE <<>>
           put == Put(r.tool_json, ev.index, old \o ev.body)
           t   == [r EXCEPT !.tool_json = put]
           u   == [q EXCEPT !.tool_json = put]
           i   == apply_tool_delta(r.inner, s.tool_indices[ev.index], Absent, Absent, ev.body)
           j   == apply_tool_delta(q.inner, s.tool_indices[ev.index], Absent, Absent, ev.body)
<1>1. MovesInner(p, s, r, q)
  BY ReserveMovesInner
<1>2. InputJsonDelta(s, ev) = IF ev.index \notin DOMAIN s.tool_indices THEN AnthropicFail(s, "InvalidStream")
                              ELSE feed(t, i)
  BY DEF InputJsonDelta
<1>3. q.tool_json = r.tool_json /\ q.inner = Told(p, r.inner) /\ Anthropic(r) /\ q = ToldInner(p, r)
  BY <1>1, ReadsInnerAlike DEF MovesInner, GoesInner
<1>4. InputJsonDelta(ToldInner(p, s), ev)
        = IF ev.index \notin DOMAIN s.tool_indices THEN AnthropicFail(ToldInner(p, s), "InvalidStream")
          ELSE feed(u, j)
  BY <1>3, ReadsInnerAlike DEF InputJsonDelta
<1> HIDE DEF r, q, put
<1>5. MovesInner(p, r, t, u)
  BY <1>3, ToolJsonMoves
<1>6. Anthropic(t) /\ u = ToldInner(p, t) /\ t.inner = r.inner
  BY <1>3, <1>5 DEF MovesInner, GoesInner, Anthropic, AnthropicFields
<1>7. Moves(p, t.inner, i, j)
  <2>1. Emitter(r.inner)
    BY <1>3 DEF Anthropic
  <2>2. Moves(p, r.inner, i, j)
    BY <1>3, <2>1, ToolDeltaMoves
  <2> QED
    BY <1>6, <2>2
<1> HIDE DEF t, u, i, j
<1>8. MovesInner(p, t, feed(t, i), feed(u, j))
  BY <1>6, <1>7, FeedMoves
<1>9. MovesInner(p, s, feed(t, i), feed(u, j))
  BY <1>1, <1>5, <1>8, ThenInner
<1> QED
  BY <1>2, <1>4, <1>9, FailMovesInner

\* So is every delta.
LEMMA ContentBlockDeltaMoves ==
    ASSUME NEW s, Anthropic(s), NEW p, IsSeq(p), NEW ev
    PROVE  MovesInner(p, s, ContentBlockDelta(s, ev), ContentBlockDelta(ToldInner(p, s), ev))
BY TextBlockMoves, SignatureMoves, InputJsonMoves, StaysInner DEF ContentBlockDelta

\* So is the stop of a content block.
LEMMA ContentBlockStopMoves ==
    ASSUME NEW s, Anthropic(s), NEW p, IsSeq(p), NEW ev
    PROVE  MovesInner(p, s, ContentBlockStop(s, ev), ContentBlockStop(ToldInner(p, s), ev))
<1> DEFINE json == [k \in DOMAIN s.tool_json \ {ev.index} |-> s.tool_json[k]]
           content == [s.content EXCEPT ![ev.index].input = s.tool_json[ev.index]]
           t == [s EXCEPT !.tool_json = json]
           u == [ToldInner(p, s) EXCEPT !.tool_json = json]
<1>1. ContentBlockStop(s, ev) =
        IF ev.index \notin DOMAIN s.tool_json THEN s
        ELSE IF s.tool_json[ev.index] = <<>> THEN AnthropicFail(s, "InvalidStream")
        ELSE [s EXCEPT !.tool_json = json, !.content[ev.index].input = s.tool_json[ev.index]]
  BY DEF ContentBlockStop
<1>2. ContentBlockStop(ToldInner(p, s), ev) =
        IF ev.index \notin DOMAIN s.tool_json THEN ToldInner(p, s)
        ELSE IF s.tool_json[ev.index] = <<>> THEN AnthropicFail(ToldInner(p, s), "InvalidStream")
        ELSE [ToldInner(p, s) EXCEPT !.tool_json = json, !.content[ev.index].input = s.tool_json[ev.index]]
  <2>1. PICK w : w = ToldInner(p, s)
    OBVIOUS
  <2>2. w.tool_json = s.tool_json
    BY <2>1, ReadsInnerAlike
  <2>3. ContentBlockStop(w, ev) =
          IF ev.index \notin DOMAIN w.tool_json THEN w
          ELSE IF w.tool_json[ev.index] = <<>> THEN AnthropicFail(w, "InvalidStream")
          ELSE [w EXCEPT !.tool_json = [k \in DOMAIN w.tool_json \ {ev.index} |-> w.tool_json[k]],
                         !.content[ev.index].input = w.tool_json[ev.index]]
    BY DEF ContentBlockStop
  <2> QED
    BY <2>1, <2>2, <2>3
<1> HIDE DEF json
<1>3. MovesInner(p, s, t, u)
  BY ToolJsonMoves
<1>4. Anthropic(t) /\ u = ToldInner(p, t) /\ t.content = s.content /\ u.content = s.content
  BY <1>3, ReadsInnerAlike DEF MovesInner, GoesInner, Anthropic, AnthropicFields
<1>5. [s EXCEPT !.tool_json = json, !.content[ev.index].input = s.tool_json[ev.index]]
        = [t EXCEPT !.content = content]
  BY <1>4
<1>6. [ToldInner(p, s) EXCEPT !.tool_json = json, !.content[ev.index].input = s.tool_json[ev.index]]
        = [u EXCEPT !.content = content]
  BY <1>4
<1> HIDE DEF t, u, content
<1>7. MovesInner(p, t, [t EXCEPT !.content = content], [u EXCEPT !.content = content])
  BY <1>4, ContentMoves
<1>8. MovesInner(p, s, [t EXCEPT !.content = content], [u EXCEPT !.content = content])
  BY <1>3, <1>7, ThenInner
<1> QED
  BY <1>1, <1>2, <1>5, <1>6, <1>8, FailMovesInner, StaysInner

\* So is a reason to stop.
LEMMA MessageDeltaMoves ==
    ASSUME NEW s, Anthropic(s), NEW p, IsSeq(p), NEW ev
    PROVE  MovesInner(p, s, MessageDelta(s, ev), MessageDelta(ToldInner(p, s), ev))
<1> DEFINE t == IF ev.block = "none" THEN s ELSE feed(s, Stop(s.inner, StopReason(ev.block)))
           u == IF ev.block = "none" THEN ToldInner(p, s)
                ELSE feed(ToldInner(p, s), Stop(Told(p, s.inner), StopReason(ev.block)))
<1>1. Moves(p, s.inner, Stop(s.inner, StopReason(ev.block)), Stop(Told(p, s.inner), StopReason(ev.block)))
  BY StopMoves DEF Anthropic
<1>2. MovesInner(p, s, t, u)
  BY <1>1, FeedMoves, StaysInner
<1>3. MessageDelta(s, ev) = feed(t, Usage(t.inner))
  BY DEF MessageDelta
<1>4. MessageDelta(ToldInner(p, s), ev) = feed(u, Usage(u.inner))
  BY ReadsInnerAlike DEF MessageDelta
<1> HIDE DEF t, u
<1>5. Anthropic(t) /\ u = ToldInner(p, t) /\ u.inner = Told(p, t.inner)
  BY <1>2, ReadsInnerAlike DEF MovesInner, GoesInner
<1>6. Moves(p, t.inner, Usage(t.inner), Usage(u.inner))
  BY <1>5, UsageMoves DEF Anthropic
<1>7. MovesInner(p, t, feed(t, Usage(t.inner)), feed(u, Usage(u.inner)))
  BY <1>5, <1>6, FeedMoves
<1> QED
  BY <1>2, <1>3, <1>4, <1>7, ThenInner

\* An Anthropic event is parsed whatever was told before; only message_stop ends the
\* response.
LEMMA AnthropicParseGoes ==
    ASSUME NEW s, Anthropic(s), s.inner.error = "none", NEW p, IsSeq(p), NEW ev
    PROVE  /\ GoesInner(p, AnthropicParse(s, ev), AnthropicParse(ToldInner(p, s), ev))
           /\ Lasts(s.inner, AnthropicParse(s, ev).inner)
           /\ ev.type # "message_stop" => AnthropicParse(s, ev).inner.terminal = s.inner.terminal
<1> DEFINE parsed(d) ==
             CASE ev.type = "message_start" -> MessageStart(d)
               [] ev.type = "content_block_start" -> ContentBlockStart(d, ev)
               [] ev.type = "content_block_delta" -> ContentBlockDelta(d, ev)
               [] ev.type = "content_block_stop" -> ContentBlockStop(d, ev)
               [] ev.type = "message_delta" -> MessageDelta(d, ev)
               [] ev.type = "message_stop" -> feed(d, Done(d.inner))
               [] ev.type = "error" -> AnthropicFail(d, "InvalidStream")
               [] OTHER -> d
<1>1. ToldInner(p, s).inner = Told(p, s.inner) /\ Emitter(s.inner)
  BY ReadsInnerAlike DEF Anthropic
<1>2. ToldInner(p, s).inner.error = "none"
  BY <1>1, ReadsAlike
<1>3. AnthropicParse(s, ev) = parsed(s)
  BY DEF AnthropicParse
<1>4. AnthropicParse(ToldInner(p, s), ev) = parsed(ToldInner(p, s))
  BY <1>2 DEF AnthropicParse
<1>5. CASE ev.type = "message_stop"
  <2>1. Goes(p, Done(s.inner), Done(Told(p, s.inner))) /\ Lasts(s.inner, Done(s.inner))
    BY <1>1, DoneGoes
  <2>2. /\ GoesInner(p, feed(s, Done(s.inner)), feed(ToldInner(p, s), Done(Told(p, s.inner))))
        /\ Lasts(s.inner, feed(s, Done(s.inner)).inner)
    BY <2>1, FeedGoes
  <2>3. parsed(s) = feed(s, Done(s.inner)) /\ parsed(ToldInner(p, s)) = feed(ToldInner(p, s), Done(Told(p, s.inner)))
    BY <1>1, <1>5
  <2> QED
    BY <1>3, <1>4, <1>5, <2>2, <2>3
<1>6. CASE ev.type # "message_stop"
  <2>1. MovesInner(p, s, parsed(s), parsed(ToldInner(p, s)))
    BY <1>6, MessageStartMoves, ContentBlockStartMoves, ContentBlockDeltaMoves, ContentBlockStopMoves,
       MessageDeltaMoves, FailMovesInner, StaysInner
  <2> QED
    BY <1>3, <1>4, <2>1 DEF MovesInner, Lasts
<1> QED
  BY <1>5, <1>6

-----------------------------------------------------------------------------
(* ResponsesDecoder. *)

ResponsesFields == {"terminal", "completed", "output", "sources", "item_id_bytes", "pending", "error"}

Responses(d) ==
    /\ d = [f \in ResponsesFields |-> d[f]] /\ IsSeq(d.pending)
    /\ d.error \in {"none", "InvalidStream", "StreamStateLimit"}

Adds(a, x, p) == IsSeq(Append(a, x)) /\ Append(p \o a, x) = p \o Append(a, x)

\* An event that is appended is appended to what was told before.
LEMMA Added ==
    ASSUME NEW a, IsSeq(a), NEW x, NEW p, IsSeq(p)
    PROVE  Adds(a, x, p)
<1>1. PICK S : a \in Seq(S) /\ p \in Seq(S)
  BY SeqOfTwo
<1>2. a \in Seq(S \cup {x}) /\ p \in Seq(S \cup {x}) /\ x \in S \cup {x}
  BY <1>1
<1>3. Append(a, x) \in Seq(S \cup {x})
  BY <1>2
<1>4. Append(p \o a, x) = p \o Append(a, x)
  <2> DEFINE u == Append(p \o a, x)
             v == p \o Append(a, x)
  <2>1. Len(u) = Len(p) + Len(a) + 1 /\ Len(v) = Len(p) + Len(a) + 1 /\ Len(p) \in Nat /\ Len(a) \in Nat
    BY <1>2, <1>3
  <2>2. u \in Seq(S \cup {x}) /\ v \in Seq(S \cup {x})
    BY <1>2, <1>3
  <2>3. ASSUME NEW i \in 1..Len(u) PROVE u[i] = v[i]
    <3>1. CASE i <= Len(p)
      <4>1. u[i] = (p \o a)[i] /\ (p \o a)[i] = p[i]
        BY <1>2, <2>1, <3>1
      <4>2. v[i] = p[i]
        BY <1>2, <1>3, <2>1, <3>1
      <4> QED
        BY <4>1, <4>2
    <3>2. CASE i > Len(p) /\ i <= Len(p) + Len(a)
      <4>1. u[i] = (p \o a)[i] /\ (p \o a)[i] = a[i - Len(p)]
        BY <1>2, <2>1, <3>2
      <4>2. v[i] = Append(a, x)[i - Len(p)]
        BY <1>2, <1>3, <2>1, <3>2
      <4>3. Append(a, x)[i - Len(p)] = a[i - Len(p)]
        BY <1>2, <2>1, <3>2
      <4> QED
        BY <4>1, <4>2, <4>3
    <3>3. CASE i = Len(p) + Len(a) + 1
      <4>1. u[i] = x
        BY <1>2, <2>1, <3>3
      <4>2. v[i] = Append(a, x)[Len(a) + 1]
        BY <1>2, <1>3, <2>1, <3>3
      <4> QED
        BY <1>2, <2>1, <4>1, <4>2
    <3> QED
      BY <2>1, <3>1, <3>2, <3>3
  <2> HIDE DEF u, v
  <2> QED
    BY <2>1, <2>2, <2>3, SeqEqual
<1> QED
  BY <1>3, <1>4 DEF Adds, IsSeq

\* A Responses event is parsed whatever was told before; only a terminal one ends the
\* response.
LEMMA ResponsesParseGoes ==
    ASSUME NEW s, Responses(s), s.error = "none", NEW p, IsSeq(p), NEW ev
    PROVE  /\ Responses(ResponsesParse(s, ev))
           /\ ResponsesParse(Told(p, s), ev) = Told(p, ResponsesParse(s, ev))
           /\ Lasts(s, ResponsesParse(s, ev))
           /\ ev.type \notin TerminalTypes => Lasts(ResponsesParse(s, ev), s)
<1> DEFINE Same(t, u) == Responses(t) /\ u = Told(p, t)
           final(d) == [d EXCEPT !.terminal = @ \/ ev.type \in TerminalTypes]
           kept(d) == IF ev.type = "response.completed"
                      THEN [final(d) EXCEPT !.completed = TRUE, !.output = ev.body]
                      ELSE final(d)
<1>1. ASSUME NEW d, Responses(d)
      PROVE  /\ Responses(Told(p, d)) /\ Told(p, d).pending = p \o d.pending
             /\ \A f \in ResponsesFields \ {"pending"} : Told(p, d)[f] = d[f]
  <2>1. IsSeq(p \o d.pending)
    BY <1>1, Joined DEF Responses
  <2> QED
    BY <1>1, <2>1 DEF Responses, ResponsesFields, Told
<1>2. Same(final(s), final(Told(p, s)))
  BY DEF Responses, ResponsesFields, Told
<1>3. /\ Same(kept(s), kept(Told(p, s)))
      /\ kept(s).terminal = (s.terminal \/ ev.type \in TerminalTypes) /\ kept(s).error = "none"
  BY DEF Responses, ResponsesFields, Told
<1> HIDE DEF final
<1>4. ASSUME NEW d, Responses(d), NEW e
      PROVE  Same(Sent(d, e), Sent(Told(p, d), e)) /\ Sent(d, e).terminal = d.terminal
  <2>0. IsSeq(d.pending)
    BY <1>4 DEF Responses
  <2>1. Adds(d.pending, e, p)
    BY <2>0, Added
  <2>2. Append(p \o d.pending, e) = p \o Append(d.pending, e) /\ IsSeq(Append(d.pending, e))
    BY <2>1 DEF Adds
  <2>3. Responses(Sent(d, e)) /\ Sent(d, e).terminal = d.terminal
    BY <1>4, <2>2 DEF Responses, ResponsesFields, Sent
  <2> DEFINE t == Sent(Told(p, d), e)
             u == Told(p, Sent(d, e))
  <2>4. t = [f \in ResponsesFields |-> t[f]] /\ u = [f \in ResponsesFields |-> u[f]]
    BY <1>4 DEF Responses, ResponsesFields, Sent, Told
  <2>5. t.pending = Append(p \o d.pending, e) /\ u.pending = p \o Append(d.pending, e)
    BY <1>4 DEF Responses, ResponsesFields, Sent, Told
  <2>6. \A f \in ResponsesFields \ {"pending"} : t[f] = d[f] /\ u[f] = d[f]
    BY <1>4 DEF Responses, ResponsesFields, Sent, Told
  <2>7. \A f \in ResponsesFields : t[f] = u[f]
    BY <2>2, <2>5, <2>6
  <2>8. t = u
    BY <2>4, <2>7
  <2> QED
    BY <2>3, <2>8
<1>5. ASSUME NEW d, Responses(d), NEW item, NEW source
      PROVE  /\ Same(record_source(d, item, source), record_source(Told(p, d), item, source))
             /\ record_source(d, item, source).terminal = d.terminal
  <2>1. Told(p, d).sources = d.sources /\ Told(p, d).item_id_bytes = d.item_id_bytes
    BY <1>1, <1>5 DEF ResponsesFields
  <2> DEFINE full == Cardinality(DOMAIN d.sources) >= MAX_REASONING_ITEMS \/ d.item_id_bytes + 1 > MaxIdBytes
             put  == [i \in DOMAIN d.sources \cup {item} |-> IF i = item THEN source ELSE d.sources[i]]
             n    == d.item_id_bytes + 1
  <2>2. record_source(d, item, source) =
          IF item \in DOMAIN d.sources THEN d
          ELSE IF full THEN [d EXCEPT !.error = "StreamStateLimit"]
          ELSE [d EXCEPT !.sources = put, !.item_id_bytes = n]
    BY DEF record_source
  <2>3. PICK w : w = Told(p, d)
    OBVIOUS
  <2>4. record_source(w, item, source) =
          IF item \in DOMAIN d.sources THEN w
          ELSE IF full THEN [w EXCEPT !.error = "StreamStateLimit"]
          ELSE [w EXCEPT !.sources = put, !.item_id_bytes = n]
    BY <2>1, <2>3 DEF record_source
  <2> HIDE DEF put, n, full
  <2>5. Same([d EXCEPT !.error = "StreamStateLimit"], [w EXCEPT !.error = "StreamStateLimit"])
    BY <1>5, <2>3 DEF Responses, ResponsesFields, Told
  <2>6. Same([d EXCEPT !.sources = put, !.item_id_bytes = n], [w EXCEPT !.sources = put, !.item_id_bytes = n])
    BY <1>5, <2>3 DEF Responses, ResponsesFields, Told
  <2>7. /\ [d EXCEPT !.error = "StreamStateLimit"].terminal = d.terminal
        /\ [d EXCEPT !.sources = put, !.item_id_bytes = n].terminal = d.terminal
    BY <1>5 DEF Responses, ResponsesFields
  <2> QED
    BY <1>5, <2>2, <2>3, <2>4, <2>5, <2>6, <2>7
<1>6. ASSUME NEW d, Responses(d), NEW item
      PROVE  /\ Same(remove_source(d, item), remove_source(Told(p, d), item))
             /\ remove_source(d, item).terminal = d.terminal
  <2>1. Told(p, d).sources = d.sources /\ Told(p, d).item_id_bytes = d.item_id_bytes
    BY <1>1, <1>6 DEF ResponsesFields
  <2> DEFINE put == [i \in DOMAIN d.sources \ {item} |-> d.sources[i]]
             n   == d.item_id_bytes - 1
  <2>2. remove_source(d, item) =
          IF item \notin DOMAIN d.sources THEN d ELSE [d EXCEPT !.sources = put, !.item_id_bytes = n]
    BY DEF remove_source
  <2>3. PICK w : w = Told(p, d)
    OBVIOUS
  <2>4. remove_source(w, item) =
          IF item \notin DOMAIN d.sources THEN w ELSE [w EXCEPT !.sources = put, !.item_id_bytes = n]
    BY <2>1, <2>3 DEF remove_source
  <2> HIDE DEF put, n
  <2>5. Same([d EXCEPT !.sources = put, !.item_id_bytes = n], [w EXCEPT !.sources = put, !.item_id_bytes = n])
    BY <1>6, <2>3 DEF Responses, ResponsesFields, Told
  <2>6. [d EXCEPT !.sources = put, !.item_id_bytes = n].terminal = d.terminal
    BY <1>6 DEF Responses, ResponsesFields
  <2> QED
    BY <1>6, <2>2, <2>3, <2>4, <2>5, <2>6
<1>7. ASSUME NEW d, Responses(d)
      PROVE  /\ Same(normalize_reasoning(d, ev), normalize_reasoning(Told(p, d), ev))
             /\ normalize_reasoning(d, ev).terminal = d.terminal
  <2> DEFINE r == record_source(d, ev.item, ev.source)
             q == record_source(Told(p, d), ev.item, ev.source)
             e == IF ev.source = "raw" THEN normalize_raw_reasoning_event(ev) ELSE ev
  <2>1. Same(r, q) /\ r.terminal = d.terminal
    BY <1>5, <1>7
  <2>5. normalize_reasoning(d, ev) =
          IF ev.item = "" THEN Sent(d, e) ELSE IF r.error # "none" THEN r
          ELSE IF r.sources[ev.item] = ev.source THEN Sent(r, e) ELSE r
    BY DEF normalize_reasoning, r, e
  <2>6. normalize_reasoning(Told(p, d), ev) =
          IF ev.item = "" THEN Sent(Told(p, d), e) ELSE IF q.error # "none" THEN q
          ELSE IF q.sources[ev.item] = ev.source THEN Sent(q, e) ELSE q
    BY DEF normalize_reasoning, q, e
  <2> HIDE DEF r, q, e
  <2>2. Same(Sent(d, e), Sent(Told(p, d), e)) /\ Sent(d, e).terminal = d.terminal
    BY <1>4, <1>7
  <2>3. q.error = r.error /\ q.sources = r.sources
    BY <1>1, <2>1 DEF ResponsesFields
  <2>4. Same(Sent(r, e), Sent(q, e)) /\ Sent(r, e).terminal = r.terminal
    BY <1>4, <2>1
  <2> QED
    BY <2>1, <2>2, <2>3, <2>4, <2>5, <2>6
<1>8. ASSUME NEW d, Responses(d)
      PROVE  Same(normalize(d, ev), normalize(Told(p, d), ev)) /\ normalize(d, ev).terminal = d.terminal
  <2> DEFINE r == remove_source(d, ev.item)
             q == remove_source(Told(p, d), ev.item)
             e == Summarized(ev)
  <2>1. Same(r, q) /\ r.terminal = d.terminal
    BY <1>6, <1>8
  <2>5. normalize(d, ev) =
          CASE ev.type = "untyped" -> d
            [] ev.type = "reasoning" -> normalize_reasoning(d, ev)
            [] ev.type = "response.output_item.done" -> Sent(r, e)
            [] ev.type = "response.completed" -> Sent(d, e)
            [] OTHER -> Sent(d, ev)
    BY DEF normalize, r, e
  <2>6. normalize(Told(p, d), ev) =
          CASE ev.type = "untyped" -> Told(p, d)
            [] ev.type = "reasoning" -> normalize_reasoning(Told(p, d), ev)
            [] ev.type = "response.output_item.done" -> Sent(q, e)
            [] ev.type = "response.completed" -> Sent(Told(p, d), e)
            [] OTHER -> Sent(Told(p, d), ev)
    BY DEF normalize, q, e
  <2> HIDE DEF r, q, e
  <2>2. Same(Sent(r, e), Sent(q, e)) /\ Sent(r, e).terminal = r.terminal
    BY <1>4, <2>1
  <2>3. /\ Same(Sent(d, ev), Sent(Told(p, d), ev)) /\ Sent(d, ev).terminal = d.terminal
        /\ Same(Sent(d, e), Sent(Told(p, d), e)) /\ Sent(d, e).terminal = d.terminal
    BY <1>4, <1>8
  <2>4. Same(d, Told(p, d))
    BY <1>8
  <2> QED
    BY <1>7, <1>8, <2>1, <2>2, <2>3, <2>4, <2>5, <2>6
<1>9. Told(p, s).error = s.error
  BY <1>1 DEF ResponsesFields
<1>10. ResponsesParse(s, ev) = IF ev.type = "[DONE]" THEN s ELSE normalize(kept(s), ev)
  BY DEF ResponsesParse, final
<1>11. ResponsesParse(Told(p, s), ev) = IF ev.type = "[DONE]" THEN Told(p, s) ELSE normalize(kept(Told(p, s)), ev)
  BY <1>9 DEF ResponsesParse, final
<1> HIDE DEF kept
<1>12. Same(normalize(kept(s), ev), normalize(kept(Told(p, s)), ev)) /\ normalize(kept(s), ev).terminal = kept(s).terminal
  BY <1>3, <1>8
<1> QED
  BY <1>3, <1>10, <1>11, <1>12 DEF Lasts

-----------------------------------------------------------------------------
(* The decoder of any protocol. *)

Protocols == {"chat", "anthropic", "responses"}

IsDecoder(protocol, d) ==
    CASE protocol = "chat" -> Emitter(d)
      [] protocol = "anthropic" -> Anthropic(d)
      [] protocol = "responses" -> Responses(d)

ToldAs(protocol, p, d) == IF protocol = "anthropic" THEN ToldInner(p, d) ELSE Told(p, d)

PendingAs(protocol, d) == InnerAs(protocol, d).pending

Terminal(protocol, d) == InnerAs(protocol, d).terminal

\* What an upstream may send, as far as the decoder relies on it.
IsBlock(protocol, b) == protocol = "chat" /\ b # Malformed /\ b.type # "[DONE]" => IsChunk(b)

\* A block that may end the response.
EndsAs(protocol, b) ==
    CASE protocol = "chat" -> b.type = "[DONE]"
      [] protocol = "anthropic" -> b.type = "message_stop"
      [] protocol = "responses" -> b.type \in TerminalTypes

\* A new decoder has told nothing, has no error and is not at its end.
LEMMA NewIsDecoder ==
    ASSUME NEW protocol \in Protocols
    PROVE  /\ IsDecoder(protocol, NewAs(protocol)) /\ PendingAs(protocol, NewAs(protocol)) = <<>>
           /\ ErrorAs(protocol, NewAs(protocol)) = "none" /\ ~ Terminal(protocol, NewAs(protocol))
<1>1. /\ NewEmitter.pending = <<>> /\ NewEmitter.error = "none" /\ NewEmitter.terminal = FALSE
  BY DEF NewEmitter
<1>2. Anthropic(NewAnthropic) /\ NewAnthropic.inner = NewEmitter
  <2>1. NewAnthropic = [f \in AnthropicFields |-> NewAnthropic[f]] /\ NewAnthropic.inner = NewEmitter
    BY DEF NewAnthropic, AnthropicFields
  <2> QED
    BY <2>1, NewIs DEF Anthropic
<1>3. Responses(NewResponses)
  <2>1. /\ NewResponses = [f \in ResponsesFields |-> NewResponses[f]]
        /\ NewResponses.pending = <<>> /\ NewResponses.error = "none"
    BY DEF NewResponses, ResponsesFields
  <2> QED
    BY <2>1, Short DEF Responses
<1>4. NewResponses.pending = <<>> /\ NewResponses.error = "none" /\ NewResponses.terminal = FALSE
  BY DEF NewResponses
<1>5. CASE protocol = "chat"
  BY <1>1, <1>5, NewIs DEF IsDecoder, NewAs, PendingAs, ErrorAs, Terminal, InnerAs
<1>6. CASE protocol = "anthropic"
  BY <1>1, <1>2, <1>6 DEF IsDecoder, NewAs, PendingAs, ErrorAs, Terminal, InnerAs
<1>7. CASE protocol = "responses"
  BY <1>3, <1>4, <1>7 DEF IsDecoder, NewAs, PendingAs, ErrorAs, Terminal, InnerAs
<1> QED
  BY <1>5, <1>6, <1>7 DEF Protocols

\* What can be read of a decoder that told p before.
LEMMA ToldAsReads ==
    ASSUME NEW protocol \in Protocols, NEW d, IsDecoder(protocol, d), NEW p, IsSeq(p)
    PROVE  /\ IsSeq(PendingAs(protocol, d))
           /\ PendingAs(protocol, ToldAs(protocol, p, d)) = p \o PendingAs(protocol, d)
           /\ ErrorAs(protocol, ToldAs(protocol, p, d)) = ErrorAs(protocol, d)
           /\ Terminal(protocol, ToldAs(protocol, p, d)) = Terminal(protocol, d)
           /\ IsDecoder(protocol, ToldAs(protocol, p, d))
<1>1. CASE protocol = "chat"
  <2>1. Emitter(d) /\ ToldAs(protocol, p, d) = Told(p, d) /\ InnerAs(protocol, d) = d
        /\ InnerAs(protocol, Told(p, d)) = Told(p, d)
    BY <1>1 DEF IsDecoder, ToldAs, InnerAs
  <2>2. IsSeq(d.pending) /\ Told(p, d).pending = p \o d.pending /\ Emitter(Told(p, d))
    BY <2>1, ToldReads DEF Emitter
  <2>3. Told(p, d).error = d.error /\ Told(p, d).terminal = d.terminal
    BY <2>1, ReadsAlike
  <2> QED
    BY <1>1, <2>1, <2>2, <2>3 DEF PendingAs, ErrorAs, Terminal, IsDecoder
<1>2. CASE protocol = "anthropic"
  <2>1. Anthropic(d) /\ ToldAs(protocol, p, d) = ToldInner(p, d) /\ InnerAs(protocol, d) = d.inner
        /\ InnerAs(protocol, ToldInner(p, d)) = Told(p, d.inner) /\ Emitter(d.inner)
    BY <1>2, ReadsInnerAlike DEF IsDecoder, ToldAs, InnerAs, Anthropic
  <2>2. IsSeq(d.inner.pending) /\ Told(p, d.inner).pending = p \o d.inner.pending /\ Emitter(Told(p, d.inner))
    BY <2>1, ToldReads DEF Emitter
  <2>3. Told(p, d.inner).error = d.inner.error /\ Told(p, d.inner).terminal = d.inner.terminal
    BY <2>1, ReadsAlike
  <2>4. Anthropic(ToldInner(p, d))
    BY <2>1, <2>2 DEF Anthropic, AnthropicFields, ToldInner
  <2> QED
    BY <1>2, <2>1, <2>2, <2>3, <2>4 DEF PendingAs, ErrorAs, Terminal, IsDecoder
<1>3. CASE protocol = "responses"
  <2>1. Responses(d) /\ ToldAs(protocol, p, d) = Told(p, d) /\ InnerAs(protocol, d) = d
        /\ InnerAs(protocol, Told(p, d)) = Told(p, d)
    BY <1>3 DEF IsDecoder, ToldAs, InnerAs
  <2>2. IsSeq(d.pending) /\ IsSeq(p \o d.pending)
    BY <2>1, Joined DEF Responses
  <2>3. /\ Told(p, d).error = d.error /\ Told(p, d).terminal = d.terminal
        /\ Told(p, d).pending = p \o d.pending /\ Responses(Told(p, d))
    BY <2>1, <2>2 DEF Responses, ResponsesFields, Told
  <2> QED
    BY <1>3, <2>1, <2>2, <2>3 DEF PendingAs, ErrorAs, Terminal, IsDecoder
<1> QED
  BY <1>1, <1>2, <1>3 DEF Protocols

\* An operation on the decoder tells the same whatever was told before.
Commutes(protocol, p, t, u) == IsDecoder(protocol, t) /\ u = ToldAs(protocol, p, t)

\* An error is kept whatever was told before.
LEMMA InvalidCommutes ==
    ASSUME NEW protocol \in Protocols, NEW d, IsDecoder(protocol, d), NEW p, IsSeq(p)
    PROVE  /\ Commutes(protocol, p, InvalidAs(protocol, d), InvalidAs(protocol, ToldAs(protocol, p, d)))
           /\ ErrorAs(protocol, InvalidAs(protocol, d)) # "none"
           /\ Terminal(protocol, InvalidAs(protocol, d)) = Terminal(protocol, d)
<1>1. CASE protocol = "chat"
  <2>1. /\ Goes(p, [d EXCEPT !.error = "InvalidStream"], [Told(p, d) EXCEPT !.error = "InvalidStream"])
        /\ [d EXCEPT !.error = "InvalidStream"].error = "InvalidStream"
        /\ [d EXCEPT !.error = "InvalidStream"].terminal = d.terminal
    BY <1>1 DEF IsDecoder, Goes, Emitter, EmitterFields, Told
  <2> QED
    BY <1>1, <2>1 DEF Goes, Commutes, InvalidAs, ToldAs, IsDecoder, ErrorAs, InnerAs, Terminal
<1>2. CASE protocol = "anthropic"
  <2>1. Anthropic(d)
    BY <1>2 DEF IsDecoder
  <2>2. MovesInner(p, d, AnthropicFail(d, "InvalidStream"), AnthropicFail(ToldInner(p, d), "InvalidStream"))
    BY <2>1, FailMovesInner
  <2>3. AnthropicFail(d, "InvalidStream").inner.error # "none"
    BY <2>1 DEF AnthropicFail, Fail, Anthropic, AnthropicFields, Emitter, EmitterFields
  <2> QED
    BY <1>2, <2>2, <2>3 DEF MovesInner, GoesInner, Commutes, InvalidAs, ToldAs, IsDecoder, ErrorAs, InnerAs, Terminal
<1>3. CASE protocol = "responses"
  <2>1. /\ Responses([d EXCEPT !.error = "InvalidStream"])
        /\ [Told(p, d) EXCEPT !.error = "InvalidStream"] = Told(p, [d EXCEPT !.error = "InvalidStream"])
        /\ [d EXCEPT !.error = "InvalidStream"].error = "InvalidStream"
        /\ [d EXCEPT !.error = "InvalidStream"].terminal = d.terminal
    BY <1>3 DEF IsDecoder, Responses, ResponsesFields, Told
  <2> QED
    BY <1>3, <2>1 DEF Commutes, InvalidAs, ToldAs, IsDecoder, ErrorAs, InnerAs, Terminal
<1> QED
  BY <1>1, <1>2, <1>3 DEF Protocols

\* A block is parsed whatever was told before; an error and the end of the response stay.
LEMMA ParseCommutes ==
    ASSUME NEW protocol \in Protocols, NEW d, IsDecoder(protocol, d), NEW p, IsSeq(p),
           NEW b, IsBlock(protocol, b)
    PROVE  /\ Commutes(protocol, p, ParseAs(protocol, d, b), ParseAs(protocol, ToldAs(protocol, p, d), b))
           /\ ErrorAs(protocol, d) # "none" => ParseAs(protocol, d, b) = d
           /\ Terminal(protocol, d) => Terminal(protocol, ParseAs(protocol, d, b))
           /\ Terminal(protocol, ParseAs(protocol, d, b)) => Terminal(protocol, d) \/ EndsAs(protocol, b)
<1>1. ErrorAs(protocol, ToldAs(protocol, p, d)) = ErrorAs(protocol, d)
  BY ToldAsReads
<1>2. CASE ErrorAs(protocol, d) # "none"
  <2>1. ParseAs(protocol, d, b) = d /\ ParseAs(protocol, ToldAs(protocol, p, d), b) = ToldAs(protocol, p, d)
    BY <1>1, <1>2 DEF ParseAs
  <2> QED
    BY <1>2, <2>1 DEF Commutes
<1>3. CASE ErrorAs(protocol, d) = "none" /\ b = Malformed
  <2>1. /\ ParseAs(protocol, d, b) = InvalidAs(protocol, d)
        /\ ParseAs(protocol, ToldAs(protocol, p, d), b) = InvalidAs(protocol, ToldAs(protocol, p, d))
    BY <1>1, <1>3 DEF ParseAs
  <2> QED
    BY <1>3, <2>1, InvalidCommutes
<1>4. CASE ErrorAs(protocol, d) = "none" /\ b # Malformed
  <2>0. /\ ParseAs(protocol, d, b) = Applied(protocol, d, b)
        /\ ParseAs(protocol, ToldAs(protocol, p, d), b) = Applied(protocol, ToldAs(protocol, p, d), b)
    BY <1>1, <1>4 DEF ParseAs
  <2>1. CASE protocol = "chat"
    <3>1. Emitter(d) /\ ToldAs(protocol, p, d) = Told(p, d)
      BY <2>1 DEF IsDecoder, ToldAs
    <3>2. /\ ParseAs(protocol, d, b) = ChatParse(d, b)
          /\ ParseAs(protocol, ToldAs(protocol, p, d), b) = ChatParse(Told(p, d), b)
      BY <2>0, <2>1, <3>1 DEF Applied
    <3>3. /\ Goes(p, ChatParse(d, b), ChatParse(Told(p, d), b)) /\ Lasts(d, ChatParse(d, b))
          /\ b.type # "[DONE]" => ChatParse(d, b).terminal = d.terminal
      <4>1. CASE b.type = "[DONE]"
        BY <3>1, <4>1, ChatDoneGoes
      <4>2. CASE b.type # "[DONE]"
        <5>1. IsChunk(b)
          BY <1>4, <2>1, <4>2 DEF IsBlock
        <5>2. Moves(p, d, ChatParse(d, b), ChatParse(Told(p, d), b))
          BY <3>1, <4>2, <5>1, ChunkMoves
        <5> QED
          BY <4>2, <5>2 DEF Moves, Lasts
      <4> QED
        BY <4>1, <4>2
    <3>4. Commutes(protocol, p, ParseAs(protocol, d, b), ParseAs(protocol, ToldAs(protocol, p, d), b))
      BY <2>1, <3>2, <3>3 DEF Commutes, Goes, IsDecoder, ToldAs
    <3> QED
      BY <1>4, <2>1, <3>2, <3>3, <3>4 DEF Lasts, Terminal, InnerAs, EndsAs
  <2>2. CASE protocol = "anthropic"
    <3>1. Anthropic(d) /\ ToldAs(protocol, p, d) = ToldInner(p, d) /\ d.inner.error = "none"
      BY <1>4, <2>2 DEF IsDecoder, ToldAs, ErrorAs, InnerAs
    <3>2. /\ ParseAs(protocol, d, b) = AnthropicParse(d, b)
          /\ ParseAs(protocol, ToldAs(protocol, p, d), b) = AnthropicParse(ToldInner(p, d), b)
      BY <2>0, <2>2, <3>1 DEF Applied
    <3>3. /\ GoesInner(p, AnthropicParse(d, b), AnthropicParse(ToldInner(p, d), b))
          /\ Lasts(d.inner, AnthropicParse(d, b).inner)
          /\ b.type # "message_stop" => AnthropicParse(d, b).inner.terminal = d.inner.terminal
      BY <3>1, AnthropicParseGoes
    <3>4. Commutes(protocol, p, ParseAs(protocol, d, b), ParseAs(protocol, ToldAs(protocol, p, d), b))
      BY <2>2, <3>2, <3>3 DEF Commutes, GoesInner, IsDecoder, ToldAs
    <3> QED
      BY <1>4, <2>2, <3>2, <3>3, <3>4 DEF Lasts, Terminal, InnerAs, EndsAs
  <2>3. CASE protocol = "responses"
    <3>1. Responses(d) /\ ToldAs(protocol, p, d) = Told(p, d) /\ d.error = "none"
      BY <1>4, <2>3 DEF IsDecoder, ToldAs, ErrorAs, InnerAs
    <3>2. /\ ParseAs(protocol, d, b) = ResponsesParse(d, b)
          /\ ParseAs(protocol, ToldAs(protocol, p, d), b) = ResponsesParse(Told(p, d), b)
      BY <2>0, <2>3, <3>1 DEF Applied
    <3>3. /\ Responses(ResponsesParse(d, b)) /\ ResponsesParse(Told(p, d), b) = Told(p, ResponsesParse(d, b))
          /\ Lasts(d, ResponsesParse(d, b)) /\ (b.type \notin TerminalTypes => Lasts(ResponsesParse(d, b), d))
      BY <3>1, ResponsesParseGoes
    <3>4. Commutes(protocol, p, ParseAs(protocol, d, b), ParseAs(protocol, ToldAs(protocol, p, d), b))
      BY <2>3, <3>2, <3>3 DEF Commutes, IsDecoder, ToldAs
    <3> QED
      BY <1>4, <2>3, <3>2, <3>3, <3>4 DEF Lasts, Terminal, InnerAs, EndsAs
  <2> QED
    BY <2>1, <2>2, <2>3 DEF Protocols
<1> QED
  BY <1>2, <1>3, <1>4

\* The end of a body is parsed whatever was told before.
LEMMA FlushCommutes ==
    ASSUME NEW protocol \in Protocols, NEW d, IsDecoder(protocol, d), NEW p, IsSeq(p)
    PROVE  /\ Commutes(protocol, p, FlushedAs(protocol, d), FlushedAs(protocol, ToldAs(protocol, p, d)))
           /\ ErrorAs(protocol, d) # "none" => ErrorAs(protocol, FlushedAs(protocol, d)) # "none"
           /\ Terminal(protocol, d) => FlushedAs(protocol, d) = d
           /\ protocol = "anthropic" => PendingAs(protocol, FlushedAs(protocol, d)) = PendingAs(protocol, d)
<1>1. CASE protocol = "chat"
  <2>1. Emitter(d)
    BY <1>1 DEF IsDecoder
  <2>2. Goes(p, finish(d), finish(Told(p, d))) /\ (d.error # "none" => finish(d).error # "none")
    BY <2>1, FinishGoes
  <2>3. d.terminal => finish(d) = d
    BY DEF finish
  <2> QED
    BY <1>1, <2>2, <2>3 DEF Goes, Commutes, FlushedAs, ToldAs, IsDecoder, ErrorAs, InnerAs, Terminal
<1>2. CASE protocol = "anthropic"
  <2>1. Anthropic(d) /\ Emitter(d.inner)
    BY <1>2 DEF IsDecoder, Anthropic
  <2>2. MovesInner(p, d, AnthropicFail(d, "InvalidStream"), AnthropicFail(ToldInner(p, d), "InvalidStream"))
    BY <2>1, FailMovesInner
  <2>3. ToldInner(p, d).inner.terminal = d.inner.terminal
    BY <2>1, ReadsInnerAlike, ReadsAlike
  <2>4. GoesInner(p, AnthropicFinish(d), AnthropicFinish(ToldInner(p, d)))
    BY <2>1, <2>2, <2>3 DEF AnthropicFinish, MovesInner, GoesInner
  <2>5. /\ AnthropicFail(d, "InvalidStream").inner.error # "none"
        /\ AnthropicFail(d, "InvalidStream").inner.pending = d.inner.pending
    BY <2>1 DEF AnthropicFail, Fail, Anthropic, AnthropicFields, Emitter, EmitterFields
  <2>6. /\ d.inner.error # "none" => AnthropicFinish(d).inner.error # "none"
        /\ d.inner.terminal => AnthropicFinish(d) = d
        /\ AnthropicFinish(d).inner.pending = d.inner.pending
    BY <2>5 DEF AnthropicFinish
  <2> QED
    BY <1>2, <2>4, <2>6 DEF GoesInner, Commutes, FlushedAs, ToldAs, IsDecoder, ErrorAs, InnerAs, Terminal, PendingAs
<1>3. CASE protocol = "responses"
  BY <1>3 DEF Commutes, FlushedAs, ToldAs, IsDecoder, ErrorAs, InnerAs, Terminal
<1> QED
  BY <1>1, <1>2, <1>3 DEF Protocols

-----------------------------------------------------------------------------
(* The tokens of a stream, and the part of a block that is in the buffer. *)

\* The formats of the theorem: data in two lines does not end them in CR LF.
Plain(st) == (st.eol = "lf" /\ st.lines \in {1, 2}) \/ (st.eol = "crlf" /\ st.lines = 1)

Length(st) == IF st.eol = "crlf" THEN 6 ELSE IF st.lines = 2 THEN 5 ELSE 4

One(k) == Token("data", k, 1)

Two(k) == Token("data", k, 2)

\* The token at o (from 0) of block k, as sent and as normalized.
TokenOf(st, k, o) ==
    CASE o = 0 -> One(k)
      [] o = 1 -> IF st.lines = 2 THEN LF ELSE Two(k)
      [] o = 2 -> IF st.lines = 2 THEN Two(k) ELSE IF st.eol = "crlf" THEN CR ELSE LF
      [] o = 3 -> LF
      [] o = 4 -> IF st.eol = "crlf" THEN CR ELSE LF
      [] o = 5 -> LF

LineOf(st, k, i) ==
    CASE i = 1 -> One(k)
      [] i = 2 -> IF st.lines = 2 THEN LF ELSE Two(k)
      [] i = 3 -> IF st.lines = 2 THEN Two(k) ELSE LF
      [] OTHER -> LF

TokenAt(st, p) == TokenOf(st, (p \div Length(st)) + 1, p % Length(st))

\* j line feeds left of the block before, and the first l tokens of block k.
Partial(st, r, j, k, l) ==
    /\ IsSeq(r) /\ Len(r) = j + l
    /\ j = 1 => r[1] = LF
    /\ \A i \in 1..l : r[j + i] = LineOf(st, k, i)

\* What the buffer r may hold when o tokens of block q + 1 are read and m blocks are
\* parsed; cr tells whether the token before was a CR of the same frame.
HeldAt(st, q, o, m, r, cr) ==
    IF st.eol = "lf" THEN m = q /\ cr = FALSE /\ Partial(st, r, 0, q + 1, o)
    ELSE \E j \in {0, 1} :
            \/ o \in 0..3 /\ m = q /\ (cr => o = 3) /\ Partial(st, r, j, q + 1, o)
            \/ o = 4 /\ m = q /\ ~ cr /\ Partial(st, r, j, q + 1, 3)
            \/ o = 4 /\ m = q + 1 /\ ~ cr /\ Partial(st, r, 0, q + 2, 0)
            \/ o = 5 /\ m = q + 1 /\ Partial(st, r, j, q + 2, 0)

Whole(r) == Len(r) >= 2 /\ r[Len(r)] = LF /\ r[Len(r) - 1] = LF

\* The kinds of tokens differ.
LEMMA TokensDiffer ==
    ASSUME NEW k, NEW l
    PROVE  /\ One(k).kind = "data" /\ Two(k).kind = "data" /\ LF.kind # "data" /\ CR.kind # "data"
           /\ One(k) # LF /\ Two(k) # LF /\ One(k) # CR /\ Two(k) # CR /\ LF # CR
           /\ One(k) # Two(l) /\ One(k).block = k /\ Two(k).block = k
BY DEF One, Two, Token, LF, CR

\* A sequence with one more element.
LEMMA AppendReads ==
    ASSUME NEW s, IsSeq(s), NEW x
    PROVE  /\ IsSeq(Append(s, x)) /\ Len(Append(s, x)) = Len(s) + 1 /\ Len(s) \in Nat
           /\ \A i \in 1..Len(s) : Append(s, x)[i] = s[i]
           /\ Append(s, x)[Len(s) + 1] = x
<1>1. PICK S : s \in Seq(S)
  BY DEF IsSeq
<1>2. s \in Seq(S \cup {x}) /\ x \in S \cup {x}
  BY <1>1
<1>3. Append(s, x) \in Seq(S \cup {x})
  BY <1>2
<1> QED
  BY <1>2, <1>3 DEF IsSeq

\* The domain of a sequence.
LEMMA SeqDomain ==
    ASSUME NEW s, IsSeq(s)
    PROVE  Len(s) \in Nat /\ DOMAIN s = 1..Len(s)
<1>1. PICK S : s \in Seq(S)
  BY DEF IsSeq
<1> QED
  BY <1>1

\* Nothing of a block is in an empty buffer.
LEMMA EmptyPartial ==
    ASSUME NEW st, NEW k
    PROVE  Partial(st, <<>>, 0, k, 0)
<1>1. IsSeq(<<>>) /\ Len(<<>>) = 0
  BY Short
<1>2. \A i \in 1..0 : FALSE
  OBVIOUS
<1> QED
  BY <1>1, <1>2 DEF Partial

\* One more line of a block.
LEMMA PartialNext ==
    ASSUME NEW st, NEW j \in {0, 1}, NEW k, NEW l \in Nat, NEW r, Partial(st, r, j, k, l)
    PROVE  Partial(st, Append(r, LineOf(st, k, l + 1)), j, k, l + 1)
<1> DEFINE b == Append(r, LineOf(st, k, l + 1))
<1>1. IsSeq(r) /\ Len(r) = j + l
  BY DEF Partial
<1>2. /\ IsSeq(b) /\ Len(b) = Len(r) + 1 /\ \A i \in 1..Len(r) : b[i] = r[i]
      /\ b[Len(r) + 1] = LineOf(st, k, l + 1)
  BY <1>1, AppendReads
<1> HIDE DEF b
<1>3. j = 1 => b[1] = LF
  <2>1. j = 1 => 1 \in 1..Len(r) /\ r[1] = LF
    BY <1>1 DEF Partial
  <2> QED
    BY <1>2, <2>1
<1>4. ASSUME NEW i \in 1..(l + 1) PROVE b[j + i] = LineOf(st, k, i)
  <2>1. CASE i \in 1..l
    <3>1. j + i \in 1..Len(r) /\ r[j + i] = LineOf(st, k, i)
      BY <1>1, <2>1 DEF Partial
    <3> QED
      BY <1>2, <3>1
  <2>2. CASE i = l + 1
    <3>1. j + i = Len(r) + 1
      BY <1>1, <2>2
    <3> QED
      BY <1>2, <2>2, <3>1
  <2> QED
    BY <2>1, <2>2
<1> QED
  BY <1>1, <1>2, <1>3, <1>4 DEF Partial, b

\* A line feed of the block before, alone in the buffer.
LEMMA PartialBlank ==
    ASSUME NEW st, NEW k, NEW r, Partial(st, r, 0, k, 0)
    PROVE  Partial(st, Append(r, LF), 1, k, 0) /\ ~ Whole(Append(r, LF))
<1>1. IsSeq(r) /\ Len(r) = 0
  BY DEF Partial
<1> DEFINE b == Append(r, LF)
<1>2. IsSeq(b) /\ Len(b) = Len(r) + 1 /\ b[Len(r) + 1] = LF
  BY <1>1, AppendReads
<1> HIDE DEF b
<1>3. Len(b) = 1 /\ b[1] = LF
  BY <1>1, <1>2
<1> QED
  BY <1>2, <1>3 DEF Partial, Whole, b

\* Two line ends are an empty line.
LEMMA PartialBlanks ==
    ASSUME NEW st, NEW k, NEW r, Partial(st, r, 1, k, 0)
    PROVE  Whole(Append(r, LF)) /\ Data(Append(r, LF)) = {}
<1> DEFINE b == Append(r, LF)
<1>1. IsSeq(r) /\ Len(r) = 1 /\ r[1] = LF
  BY DEF Partial
<1>0. IsSeq(b) /\ Len(b) = Len(r) + 1 /\ b[Len(r) + 1] = LF /\ \A i \in 1..Len(r) : b[i] = r[i]
  <2>1. IsSeq(r)
    BY <1>1
  <2> QED
    BY <2>1, AppendReads
<1> HIDE DEF b
<1>2. IsSeq(b) /\ Len(b) = 2 /\ b[1] = LF /\ b[2] = LF
  BY <1>0, <1>1
<1>3. DOMAIN b = 1..2
  BY <1>2, SeqDomain
<1>4. ToSet(b) = {LF}
  BY <1>2, <1>3 DEF ToSet
<1> QED
  BY <1>2, <1>4, TokensDiffer DEF Whole, Data, b

Size(st) == IF st.lines = 2 THEN 5 ELSE 4

\* A block is whole with its last token and not before, and then its data is there.
LEMMA PartialWhole ==
    ASSUME NEW st, Plain(st), NEW j \in {0, 1}, NEW k, NEW l \in 0..Size(st), NEW r, Partial(st, r, j, k, l), l > 0
    PROVE  /\ Whole(r) <=> l = Size(st)
           /\ l = Size(st) => Data(r) = DataOf(k)
<1>1. IsSeq(r) /\ Len(r) = j + l /\ (j = 1 => r[1] = LF) /\ \A i \in 1..l : r[j + i] = LineOf(st, k, i)
  BY DEF Partial
<1>2. DOMAIN r = 1..(j + l)
  <2>1. DOMAIN r = 1..Len(r)
    BY <1>1, SeqDomain
  <2> QED
    BY <1>1, <2>1
<1>3. CASE st.lines = 1
  <2>1. Size(st) = 4 /\ l \in 1..4
    BY <1>3 DEF Size
  <2>2. /\ l >= 1 => r[j + 1] = One(k)
        /\ l >= 2 => r[j + 2] = Two(k)
        /\ l >= 3 => r[j + 3] = LF
        /\ l >= 4 => r[j + 4] = LF
    BY <1>1, <1>3, <2>1 DEF LineOf
  <2>3. Whole(r) <=> l = 4
    BY <1>1, <2>1, <2>2, TokensDiffer DEF Whole
  <2>4. ASSUME l = 4 PROVE Data(r) = DataOf(k)
    <3>1. j = 0 => ToSet(r) = {One(k), Two(k), LF}
      BY <1>2, <2>2, <2>4 DEF ToSet
    <3>2. j = 1 => ToSet(r) = {One(k), Two(k), LF}
      BY <1>1, <1>2, <2>2, <2>4 DEF ToSet
    <3> QED
      BY <3>1, <3>2, TokensDiffer DEF Data, DataOf, One, Two
  <2> QED
    BY <2>1, <2>3, <2>4
<1>4. CASE st.lines = 2
  <2>1. Size(st) = 5 /\ l \in 1..5
    BY <1>4 DEF Size
  <2>2. /\ l >= 1 => r[j + 1] = One(k)
        /\ l >= 2 => r[j + 2] = LF
        /\ l >= 3 => r[j + 3] = Two(k)
        /\ l >= 4 => r[j + 4] = LF
        /\ l >= 5 => r[j + 5] = LF
    BY <1>1, <1>4, <2>1 DEF LineOf
  <2>3. Whole(r) <=> l = 5
    BY <1>1, <2>1, <2>2, TokensDiffer DEF Whole
  <2>4. ASSUME l = 5 PROVE Data(r) = DataOf(k)
    <3>1. j = 0 => ToSet(r) = {One(k), Two(k), LF}
      BY <1>2, <2>2, <2>4 DEF ToSet
    <3>2. j = 1 => ToSet(r) = {One(k), Two(k), LF}
      BY <1>1, <1>2, <2>2, <2>4 DEF ToSet
    <3> QED
      BY <3>1, <3>2, TokensDiffer DEF Data, DataOf, One, Two
  <2> QED
    BY <2>1, <2>3, <2>4
<1> QED
  BY <1>3, <1>4 DEF Plain

-----------------------------------------------------------------------------
(* One token more. *)

\* The place after o of block q + 1.
BlockNext(st, q, o) == IF o + 1 = Length(st) THEN q + 1 ELSE q

PlaceNext(st, o) == IF o + 1 = Length(st) THEN 0 ELSE o + 1

\* What becomes of the buffer when token o of block q + 1 is read.
Taken(st, q, o, m, r, cr) ==
    LET t == TokenOf(st, q + 1, o)
        b == Append(r, IF t = CR THEN LF ELSE t)
        Held(n, s, c) == HeldAt(st, BlockNext(st, q, o), PlaceNext(st, o), n, s, c)
    IN IF t = LF /\ cr THEN Held(m, r, FALSE)
       ELSE IF Whole(b) THEN \/ m = q /\ Data(b) = DataOf(m + 1) /\ Held(m + 1, <<>>, t = CR)
                             \/ Data(b) = {} /\ Held(m, <<>>, t = CR)
       ELSE Held(m, b, t = CR)

\* A token of a stream whose lines end in LF is taken as it is.
LEMMA TakenPlain ==
    ASSUME NEW st, Plain(st), st.eol = "lf", NEW q \in Nat, NEW o \in 0..(Length(st) - 1),
           NEW m, NEW r, NEW cr, HeldAt(st, q, o, m, r, cr)
    PROVE  Taken(st, q, o, m, r, cr)
<1>1. m = q /\ cr = FALSE /\ Partial(st, r, 0, q + 1, o)
  BY DEF HeldAt
<1>2. Length(st) = Size(st) /\ o \in Nat /\ o + 1 \in 0..Size(st) /\ o + 1 > 0 /\ st.lines \in {1, 2}
  BY DEF Length, Size, Plain
<1>3. TokenOf(st, q + 1, o) = LineOf(st, q + 1, o + 1) /\ LineOf(st, q + 1, o + 1) # CR
  <2>1. CASE st.lines = 2
    <3>1. o \in 0..4
      BY <2>1 DEF Length, Plain
    <3> QED
      BY <2>1, <3>1, TokensDiffer DEF TokenOf, LineOf
  <2>2. CASE st.lines = 1
    <3>1. o \in 0..3
      BY <2>2 DEF Length, Plain
    <3> QED
      BY <2>2, <3>1, TokensDiffer DEF TokenOf, LineOf
  <2> QED
    BY <1>2, <2>1, <2>2
<1> DEFINE t == TokenOf(st, q + 1, o)
           b == Append(r, t)
<1>4. Partial(st, b, 0, q + 1, o + 1)
  BY <1>1, <1>2, <1>3, PartialNext
<1>5. t # CR
  BY <1>3
<1> HIDE DEF b, t
<1>6. (Whole(b) <=> o + 1 = Size(st)) /\ (o + 1 = Size(st) => Data(b) = DataOf(q + 1))
  BY <1>2, <1>4, PartialWhole
<1>7. Partial(st, <<>>, 0, q + 2, 0)
  BY EmptyPartial
<1>8. CASE o + 1 = Size(st)
  <2>1. BlockNext(st, q, o) = q + 1 /\ PlaceNext(st, o) = 0
    BY <1>2, <1>8 DEF BlockNext, PlaceNext
  <2>2. HeldAt(st, q + 1, 0, q + 1, <<>>, FALSE)
    BY <1>7 DEF HeldAt
  <2>3. Whole(b) /\ Data(b) = DataOf(q + 1)
    BY <1>6, <1>8
  <2> QED
    BY <1>1, <1>5, <2>1, <2>2, <2>3 DEF Taken, t, b
<1>9. CASE o + 1 # Size(st)
  <2>1. BlockNext(st, q, o) = q /\ PlaceNext(st, o) = o + 1
    BY <1>2, <1>9 DEF BlockNext, PlaceNext
  <2>2. HeldAt(st, q, o + 1, q, b, FALSE)
    BY <1>4 DEF HeldAt
  <2>3. ~ Whole(b)
    BY <1>6, <1>9
  <2> QED
    BY <1>1, <1>5, <2>1, <2>2, <2>3 DEF Taken, t, b
<1> QED
  BY <1>8, <1>9

\* A token of a stream whose lines end in CR LF: LF after CR is dropped, unless a frame
\* ended between them.
LEMMA TakenCrlf ==
    ASSUME NEW st, Plain(st), st.eol = "crlf", NEW q \in Nat, NEW o \in 0..(Length(st) - 1),
           NEW m, NEW r, NEW cr \in BOOLEAN, HeldAt(st, q, o, m, r, cr)
    PROVE  Taken(st, q, o, m, r, cr)
<1>1. st.lines = 1 /\ Length(st) = 6 /\ Size(st) = 4 /\ o \in 0..5
  BY DEF Plain, Length, Size
<1> DEFINE t == TokenOf(st, q + 1, o)
           b == Append(r, IF t = CR THEN LF ELSE t)
<1>2. /\ o \in {0, 1} => t = LineOf(st, q + 1, o + 1) /\ t # CR /\ t # LF
      /\ o \in {2, 4} => t = CR
      /\ o \in {3, 5} => t = LF
      /\ LineOf(st, q + 1, 3) = LF /\ LineOf(st, q + 1, 4) = LF
  BY <1>1, TokensDiffer DEF TokenOf, LineOf
<1>3. LF # CR
  BY TokensDiffer
<1>4. o < 5 => BlockNext(st, q, o) = q /\ PlaceNext(st, o) = o + 1
  BY <1>1 DEF BlockNext, PlaceNext
<1>13. o = 3 => BlockNext(st, q, o) = q /\ PlaceNext(st, o) = 4
  BY <1>4
<1>14. o = 4 => BlockNext(st, q, o) = q /\ PlaceNext(st, o) = 5
  BY <1>4
<1>5. o = 5 => BlockNext(st, q, o) = q + 1 /\ PlaceNext(st, o) = 0
  BY <1>1 DEF BlockNext, PlaceNext
<1>6. Partial(st, <<>>, 0, q + 2, 0)
  BY EmptyPartial
<1> HIDE DEF b, t
<1>7. CASE o \in 0..2
  <2>1. PICK j \in {0, 1} : m = q /\ cr = FALSE /\ Partial(st, r, j, q + 1, o)
    BY <1>7 DEF HeldAt
  <2>2. (IF t = CR THEN LF ELSE t) = LineOf(st, q + 1, o + 1)
    BY <1>2, <1>7
  <2>3. Partial(st, b, j, q + 1, o + 1)
    BY <1>7, <2>1, <2>2, PartialNext DEF b
  <2>4. ~ Whole(b)
    BY <1>1, <1>7, <2>3, PartialWhole
  <2>5. HeldAt(st, q, o + 1, q, b, t = CR)
    <3>1. (t = CR) => o + 1 = 3
      BY <1>2, <1>7
    <3> QED
      BY <1>7, <2>3, <3>1 DEF HeldAt
  <2> QED
    BY <1>4, <1>7, <2>1, <2>4, <2>5 DEF Taken, t, b
<1>8. CASE o = 3 /\ cr
  <2>1. PICK j \in {0, 1} : m = q /\ Partial(st, r, j, q + 1, 3)
    BY <1>8 DEF HeldAt
  <2>2. HeldAt(st, q, 4, q, r, FALSE)
    BY <2>1 DEF HeldAt
  <2> QED
    BY <1>2, <1>13, <1>8, <2>1, <2>2 DEF Taken, t
<1>9. CASE o = 3 /\ ~ cr
  <2>1. PICK j \in {0, 1} : m = q /\ Partial(st, r, j, q + 1, 3)
    BY <1>9 DEF HeldAt
  <2>2. Partial(st, b, j, q + 1, 4)
    BY <1>2, <1>3, <1>9, <2>1, PartialNext DEF b
  <2>3. Whole(b) /\ Data(b) = DataOf(q + 1)
    BY <1>1, <2>2, PartialWhole
  <2>4. HeldAt(st, q, 4, q + 1, <<>>, FALSE)
    BY <1>6 DEF HeldAt
  <2> QED
    BY <1>2, <1>3, <1>13, <1>9, <2>1, <2>3, <2>4 DEF Taken, t, b
<1>10. CASE o = 4
  <2>1. CASE m = q
    <3>1. PICK j \in {0, 1} : ~ cr /\ Partial(st, r, j, q + 1, 3)
      BY <1>10, <2>1 DEF HeldAt
    <3>2. Partial(st, b, j, q + 1, 4)
      BY <1>2, <1>10, <3>1, PartialNext DEF b
    <3>3. Whole(b) /\ Data(b) = DataOf(q + 1)
      BY <1>1, <3>2, PartialWhole
    <3>4. HeldAt(st, q, 5, q + 1, <<>>, TRUE)
      BY <1>6 DEF HeldAt
    <3> QED
      BY <1>2, <1>3, <1>14, <1>10, <2>1, <3>1, <3>3, <3>4 DEF Taken, t, b
  <2>2. CASE m # q
    <3>1. m = q + 1 /\ ~ cr /\ Partial(st, r, 0, q + 2, 0)
      BY <1>10, <2>2 DEF HeldAt
    <3>2. b = Append(r, LF)
      BY <1>2, <1>10 DEF b
    <3>3. Partial(st, b, 1, q + 2, 0) /\ ~ Whole(b)
      BY <3>1, <3>2, PartialBlank
    <3>4. HeldAt(st, q, 5, q + 1, b, TRUE)
      BY <3>3 DEF HeldAt
    <3> QED
      BY <1>2, <1>3, <1>14, <1>10, <3>1, <3>3, <3>4 DEF Taken, t, b
  <2> QED
    BY <2>1, <2>2
<1>11. CASE o = 5 /\ cr
  <2>1. PICK j \in {0, 1} : m = q + 1 /\ Partial(st, r, j, q + 2, 0)
    BY <1>11 DEF HeldAt
  <2>2. HeldAt(st, q + 1, 0, q + 1, r, FALSE)
    BY <2>1 DEF HeldAt
  <2> QED
    BY <1>2, <1>5, <1>11, <2>1, <2>2 DEF Taken, t
<1>12. CASE o = 5 /\ ~ cr
  <2>1. PICK j \in {0, 1} : m = q + 1 /\ Partial(st, r, j, q + 2, 0)
    BY <1>12 DEF HeldAt
  <2>2. b = Append(r, LF) /\ t = LF /\ t # CR
    BY <1>2, <1>3, <1>12 DEF b
  <2>3. CASE j = 0
    <3>1. Partial(st, b, 1, q + 2, 0) /\ ~ Whole(b)
      BY <2>1, <2>2, <2>3, PartialBlank
    <3>2. HeldAt(st, q + 1, 0, q + 1, b, FALSE)
      BY <3>1 DEF HeldAt
    <3> QED
      BY <1>5, <1>12, <2>1, <2>2, <3>1, <3>2 DEF Taken, t, b
  <2>4. CASE j = 1
    <3>1. Whole(b) /\ Data(b) = {}
      BY <2>1, <2>2, <2>4, PartialBlanks
    <3>2. HeldAt(st, q + 1, 0, q + 1, <<>>, FALSE)
      BY <1>6 DEF HeldAt
    <3> QED
      BY <1>5, <1>12, <2>1, <2>2, <3>1, <3>2 DEF Taken, t, b
  <2> QED
    BY <2>3, <2>4
<1> QED
  BY <1>1, <1>7, <1>8, <1>9, <1>10, <1>11, <1>12

-----------------------------------------------------------------------------
(* Places in the stream. *)

\* The buffer when p tokens of the stream are read.
HeldPos(st, p, m, r, cr) == HeldAt(st, p \div Length(st), p % Length(st), m, r, cr)

\* Where the next token is.
LEMMA Places ==
    ASSUME NEW st, Plain(st), NEW p \in Nat
    PROVE  /\ p \div Length(st) \in Nat /\ p % Length(st) \in 0..(Length(st) - 1)
           /\ BlockNext(st, p \div Length(st), p % Length(st)) = (p + 1) \div Length(st)
           /\ PlaceNext(st, p % Length(st)) = (p + 1) % Length(st)
           /\ \A n \in Nat : p < n * Length(st) => (p \div Length(st)) + 1 <= n
<1>1. CASE Length(st) = 4
  BY <1>1 DEF BlockNext, PlaceNext
<1>2. CASE Length(st) = 5
  BY <1>2 DEF BlockNext, PlaceNext
<1>3. CASE Length(st) = 6
  BY <1>3 DEF BlockNext, PlaceNext
<1> QED
  BY <1>1, <1>2, <1>3 DEF Length

\* A token more is read: the buffer holds a part of a block, or a block is whole.
LEMMA HeldNext ==
    ASSUME NEW st, Plain(st), NEW p \in Nat, NEW m, NEW r, NEW cr \in BOOLEAN, HeldPos(st, p, m, r, cr)
    PROVE  LET t == TokenAt(st, p)
               b == Append(r, IF t = CR THEN LF ELSE t)
           IN IF t = LF /\ cr THEN HeldPos(st, p + 1, m, r, FALSE)
              ELSE IF Whole(b)
              THEN \/ m = p \div Length(st) /\ Data(b) = DataOf(m + 1) /\ HeldPos(st, p + 1, m + 1, <<>>, t = CR)
                   \/ Data(b) = {} /\ HeldPos(st, p + 1, m, <<>>, t = CR)
              ELSE HeldPos(st, p + 1, m, b, t = CR)
<1> DEFINE q == p \div Length(st)
           o == p % Length(st)
<1>1. /\ q \in Nat /\ o \in 0..(Length(st) - 1)
      /\ BlockNext(st, q, o) = (p + 1) \div Length(st) /\ PlaceNext(st, o) = (p + 1) % Length(st)
  BY Places
<1>2. HeldAt(st, q, o, m, r, cr)
  BY DEF HeldPos
<1> HIDE DEF q, o
<1>3. Taken(st, q, o, m, r, cr)
  BY <1>1, <1>2, TakenPlain, TakenCrlf DEF Plain
<1>4. TokenAt(st, p) = TokenOf(st, q + 1, o)
  BY DEF TokenAt, q, o
<1> QED
  BY <1>1, <1>3, <1>4 DEF Taken, HeldPos, q

\* That a CR was last is forgotten at the end of a frame.
LEMMA HeldAnyhow ==
    ASSUME NEW st, NEW p, NEW m, NEW r, NEW cr, HeldPos(st, p, m, r, cr)
    PROVE  HeldPos(st, p, m, r, FALSE)
BY DEF HeldPos, HeldAt

\* The blocks that are parsed are among those that were sent.
LEMMA HeldBounded ==
    ASSUME NEW st, Plain(st), NEW p \in Nat, NEW n \in Nat, p <= n * Length(st), NEW m, NEW r, NEW cr,
           HeldPos(st, p, m, r, cr)
    PROVE  m \in 0..n
<1> DEFINE q == p \div Length(st)
           o == p % Length(st)
<1>1. q \in Nat /\ q <= n /\ (o # 0 => q + 1 <= n)
  <2>1. CASE Length(st) = 4
    BY <2>1
  <2>2. CASE Length(st) = 5
    BY <2>2
  <2>3. CASE Length(st) = 6
    BY <2>3
  <2> QED
    BY <2>1, <2>2, <2>3 DEF Length
<1>2. HeldAt(st, q, o, m, r, cr)
  BY DEF HeldPos
<1> HIDE DEF q, o
<1>3. m = q \/ (m = q + 1 /\ o # 0)
  BY <1>2 DEF HeldAt
<1> QED
  BY <1>1, <1>3

\* Nothing of the buffer is normalized again, and no block of it is whole.
Clean(r) ==
    /\ IsSeq(r)
    /\ \A i \in 1..Len(r) : r[i] # CR /\ ~ (i > 1 /\ r[i] = LF /\ r[i - 1] = LF)

\* A part of a block has no CR and no empty line before its end.
LEMMA PartialClean ==
    ASSUME NEW st, Plain(st), NEW j \in {0, 1}, NEW k, NEW l \in 0..(Size(st) - 1), NEW r, Partial(st, r, j, k, l)
    PROVE  Clean(r)
<1>1. IsSeq(r) /\ Len(r) = j + l /\ (j = 1 => r[1] = LF) /\ \A i \in 1..l : r[j + i] = LineOf(st, k, i)
  BY DEF Partial
<1>2. CASE st.lines = 1
  <2>1. l \in 0..3
    BY <1>2 DEF Size
  <2>2. /\ l >= 1 => r[j + 1] = One(k)
        /\ l >= 2 => r[j + 2] = Two(k)
        /\ l >= 3 => r[j + 3] = LF
    BY <1>1, <1>2, <2>1 DEF LineOf
  <2>3. CASE j = 0
    BY <1>1, <2>1, <2>2, <2>3, TokensDiffer DEF Clean
  <2>4. CASE j = 1
    BY <1>1, <2>1, <2>2, <2>4, TokensDiffer DEF Clean
  <2> QED
    BY <2>3, <2>4
<1>3. CASE st.lines = 2
  <2>1. l \in 0..4
    BY <1>3 DEF Size
  <2>2. /\ l >= 1 => r[j + 1] = One(k)
        /\ l >= 2 => r[j + 2] = LF
        /\ l >= 3 => r[j + 3] = Two(k)
        /\ l >= 4 => r[j + 4] = LF
    BY <1>1, <1>3, <2>1 DEF LineOf
  <2>3. CASE j = 0
    BY <1>1, <2>1, <2>2, <2>3, TokensDiffer DEF Clean
  <2>4. CASE j = 1
    BY <1>1, <2>1, <2>2, <2>4, TokensDiffer DEF Clean
  <2> QED
    BY <2>3, <2>4
<1> QED
  BY <1>2, <1>3 DEF Plain

\* Nor has the buffer between two frames.
LEMMA HeldClean ==
    ASSUME NEW st, Plain(st), NEW p \in Nat, NEW m, NEW r, NEW cr, HeldPos(st, p, m, r, cr)
    PROVE  Clean(r)
<1> DEFINE q == p \div Length(st)
           o == p % Length(st)
<1>1. q \in Nat /\ o \in 0..(Length(st) - 1)
  BY Places
<1>2. HeldAt(st, q, o, m, r, cr)
  BY DEF HeldPos
<1> HIDE DEF q, o
<1>3. CASE st.eol = "lf"
  <2>1. Partial(st, r, 0, q + 1, o) /\ o \in 0..(Size(st) - 1)
    BY <1>1, <1>2, <1>3 DEF HeldAt, Length, Size, Plain
  <2> QED
    BY <2>1, PartialClean
<1>4. CASE st.eol # "lf"
  <2>1. \E j \in {0, 1} : \E l \in 0..3 : Partial(st, r, j, q + 1, l) \/ Partial(st, r, j, q + 2, l)
    BY <1>2, <1>4 DEF HeldAt
  <2>2. Size(st) = 4
    BY <1>4 DEF Plain, Size
  <2>3. PICK j \in {0, 1}, l \in 0..3 : Partial(st, r, j, q + 1, l) \/ Partial(st, r, j, q + 2, l)
    BY <2>1
  <2>4. l \in 0..(Size(st) - 1)
    BY <2>2
  <2> QED
    BY <2>3, <2>4, PartialClean
<1> QED
  BY <1>3, <1>4

-----------------------------------------------------------------------------
(* normalize_newlines and SplitBlocks. *)

NewlineOp == [op |-> "newline"]

TokenOp == [op |-> "token"]

ParseOp(protocol) == [op |-> "parse", protocol |-> protocol]

BlockOp(protocol, blocks) == [op |-> "block", protocol |-> protocol, blocks |-> blocks]

NoLines == [lines |-> <<>>, cr |-> FALSE]

NoBlocks == [blocks |-> <<>>, rest |-> <<>>]

FoldAll(c, b, s) == Fold(c, b, s, Len(s))

\* A fold of a sequence with one more element.
LEMMA FoldAppend ==
    ASSUME NEW c, NEW b, NEW s, IsSeq(s), NEW x
    PROVE  FoldAll(c, b, Append(s, x)) = Step(c, FoldAll(c, b, s), x)
<1> DEFINE t == Append(s, x)
<1>1. /\ IsSeq(t) /\ Len(t) = Len(s) + 1 /\ Len(s) \in Nat
      /\ \A i \in 1..Len(s) : t[i] = s[i]
      /\ t[Len(s) + 1] = x
  BY AppendReads
<1> HIDE DEF t
<1>2. Fold(c, b, t, Len(s)) = Fold(c, b, s, Len(s))
  BY <1>1, FoldAlike
<1>3. Fold(c, b, t, Len(s) + 1) = Step(c, Fold(c, b, t, Len(s)), t[Len(s) + 1])
  BY <1>1, FoldNext
<1> QED
  BY <1>1, <1>2, <1>3 DEF FoldAll, t

\* x is the first k elements of s.
Starts(x, s, k) == IsSeq(x) /\ Len(x) = k /\ \A i \in 1..k : x[i] = s[i]

\* The first k + 1 elements are the first k and one more.
LEMMA StartsNext ==
    ASSUME NEW x, NEW s, NEW k \in Nat, Starts(x, s, k)
    PROVE  Starts(Append(x, s[k + 1]), s, k + 1)
<1>1. IsSeq(x) /\ Len(x) = k /\ \A i \in 1..k : x[i] = s[i]
  BY DEF Starts
<1> DEFINE y == Append(x, s[k + 1])
<1>2. /\ IsSeq(y) /\ Len(y) = Len(x) + 1
      /\ \A i \in 1..Len(x) : y[i] = x[i]
      /\ y[Len(x) + 1] = s[k + 1]
  BY <1>1, AppendReads
<1> HIDE DEF y
<1>3. ASSUME NEW i \in 1..(k + 1) PROVE y[i] = s[i]
  BY <1>1, <1>2
<1>4. Len(y) = k + 1
  BY <1>1, <1>2
<1> QED
  BY <1>2, <1>3, <1>4 DEF Starts, y

\* The first Len(s) elements are the sequence.
LEMMA StartsWhole ==
    ASSUME NEW x, NEW s, IsSeq(s), Starts(x, s, Len(s))
    PROVE  x = s
<1>1. IsSeq(x) /\ Len(x) = Len(s) /\ \A i \in 1..Len(s) : x[i] = s[i]
  BY DEF Starts
<1>2. PICK S : x \in Seq(S) /\ s \in Seq(S)
  BY <1>1, SeqOfTwo
<1> QED
  BY <1>1, <1>2

\* The first 0 elements are none.
LEMMA StartsEmpty ==
    ASSUME NEW s
    PROVE  Starts(<<>>, s, 0)
<1>1. IsSeq(<<>>) /\ Len(<<>>) = 0
  BY Short
<1>2. \A i \in 1..0 : FALSE
  OBVIOUS
<1> QED
  BY <1>1, <1>2 DEF Starts

\* A step of normalize_newlines, and of SplitBlocks.
LEMMA NewlineStep ==
    ASSUME NEW acc, NEW x
    PROVE  Step(NewlineOp, acc, x) = Newline(acc, x) /\ Step(TokenOp, acc, x) = TakeToken(acc, x)
<1>1. NewlineOp.op = "newline" /\ TokenOp.op = "token"
  BY DEF NewlineOp, TokenOp
<1> QED
  BY <1>1 DEF Step

\* Normalizing what is normalized, and splitting what has no whole block, do nothing.
Normalized(t, r, k) ==
    LET f == Fold(NewlineOp, NoLines, t, k) IN f = [lines |-> f.lines, cr |-> FALSE] /\ Starts(f.lines, r, k)

\* A token that is no CR is left as it is.
LEMMA NormalizedNext ==
    ASSUME NEW r, Clean(r), NEW t, \A i \in 1..Len(r) : t[i] = r[i],
           NEW k \in Nat, k < Len(r), Normalized(t, r, k)
    PROVE  Normalized(t, r, k + 1)
<1> DEFINE f == Fold(NewlineOp, NoLines, t, k)
           g == Fold(NewlineOp, NoLines, t, k + 1)
<1>1. f = [lines |-> f.lines, cr |-> FALSE] /\ Starts(f.lines, r, k)
  BY DEF Normalized
<1>2. g = Newline(f, t[k + 1])
  BY FoldNext, NewlineStep
<1>3. k + 1 \in 1..Len(r)
  BY SeqDomain DEF Clean
<1>4. t[k + 1] = r[k + 1] /\ r[k + 1] # CR
  BY <1>3 DEF Clean
<1>5. Starts(Append(f.lines, r[k + 1]), r, k + 1)
  BY <1>1, StartsNext
<1> HIDE DEF f
<1>6. f.cr = FALSE
  BY <1>1
<1>7. Newline(f, r[k + 1]) = [lines |-> Append(f.lines, r[k + 1]), cr |-> FALSE]
  BY <1>4, <1>6 DEF Newline
<1>8. g = [lines |-> Append(f.lines, r[k + 1]), cr |-> FALSE]
  BY <1>2, <1>4, <1>7
<1> HIDE DEF g
<1>9. g.lines = Append(f.lines, r[k + 1]) /\ g = [lines |-> g.lines, cr |-> FALSE]
  BY <1>8
<1>10. Starts(g.lines, r, k + 1)
  BY <1>5, <1>9
<1> QED
  BY <1>9, <1>10 DEF Normalized, g

\* The buffer that is left of a frame is normalized already.
LEMMA CleanLines ==
    ASSUME NEW r, Clean(r), NEW t, \A i \in 1..Len(r) : t[i] = r[i]
    PROVE  Fold(NewlineOp, NoLines, t, Len(r)) = [lines |-> r, cr |-> FALSE]
<1>0. IsSeq(r) /\ Len(r) \in Nat
  BY SeqDomain DEF Clean
<1> DEFINE Bad == {k \in Nat : k <= Len(r) /\ ~ Normalized(t, r, k)}
<1>1. ASSUME Bad # {} PROVE FALSE
  <2>1. PICK k \in Bad : \A j \in Bad : k <= j
    BY <1>1, Least
  <2>2. Normalized(t, r, 0)
    <3> DEFINE f == Fold(NewlineOp, NoLines, t, 0)
    <3>1. f = [lines |-> <<>>, cr |-> FALSE]
      BY FoldStart DEF NoLines
    <3> HIDE DEF f
    <3>2. f.lines = <<>> /\ f = [lines |-> f.lines, cr |-> FALSE]
      BY <3>1
    <3>3. Starts(f.lines, r, 0)
      BY <3>2, StartsEmpty
    <3> QED
      BY <3>2, <3>3 DEF Normalized, f
  <2>3. PICK j \in Nat : k = j + 1
    BY <2>1, <2>2
  <2>4. Normalized(t, r, j) /\ j < Len(r)
    BY <1>0, <2>1, <2>3
  <2>5. Normalized(t, r, j + 1)
    BY <2>4, NormalizedNext
  <2> QED
    BY <2>1, <2>3, <2>5
<1>2. Normalized(t, r, Len(r))
  BY <1>0, <1>1
<1> DEFINE f == Fold(NewlineOp, NoLines, t, Len(r))
<1>3. f = [lines |-> f.lines, cr |-> FALSE] /\ Starts(f.lines, r, Len(r))
  BY <1>2 DEF Normalized
<1> HIDE DEF f
<1>4. f.lines = r
  BY <1>0, <1>3, StartsWhole
<1> QED
  BY <1>3, <1>4 DEF f

Unsplit(r, k) ==
    LET f == Fold(TokenOp, NoBlocks, r, k) IN f = [blocks |-> <<>>, rest |-> f.rest] /\ Starts(f.rest, r, k)

\* A token that ends no block is kept.
LEMMA UnsplitNext ==
    ASSUME NEW r, Clean(r), NEW k \in Nat, k < Len(r), Unsplit(r, k)
    PROVE  Unsplit(r, k + 1)
<1> DEFINE f == Fold(TokenOp, NoBlocks, r, k)
           g == Fold(TokenOp, NoBlocks, r, k + 1)
           b == Append(f.rest, r[k + 1])
<1>1. f = [blocks |-> <<>>, rest |-> f.rest] /\ Starts(f.rest, r, k)
  BY DEF Unsplit
<1>2. g = TakeToken(f, r[k + 1])
  BY FoldNext, NewlineStep
<1>3. k + 1 \in 1..Len(r)
  BY SeqDomain DEF Clean
<1>4. Starts(b, r, k + 1)
  BY <1>1, StartsNext
<1>5. ~ (Len(b) >= 2 /\ b[Len(b)] = LF /\ b[Len(b) - 1] = LF)
  <2> HIDE DEF b
  <2>1. Len(b) = k + 1 /\ b[k + 1] = r[k + 1] /\ (k + 1 >= 2 => b[k] = r[k])
    BY <1>4 DEF Starts
  <2>2. ~ (k + 1 > 1 /\ r[k + 1] = LF /\ r[k + 1 - 1] = LF)
    BY <1>3 DEF Clean
  <2> QED
    BY <2>1, <2>2
<1>6. g = [f EXCEPT !.rest = b]
  BY <1>2, <1>5 DEF TakeToken
<1> HIDE DEF f, b, g
<1>7. g = [blocks |-> <<>>, rest |-> b]
  BY <1>1, <1>6
<1>8. g.rest = b /\ g = [blocks |-> <<>>, rest |-> g.rest]
  BY <1>7
<1>9. Starts(g.rest, r, k + 1)
  BY <1>4, <1>8
<1> QED
  BY <1>8, <1>9 DEF Unsplit, g

\* There is no block in the buffer that is left of a frame.
LEMMA CleanTokens ==
    ASSUME NEW r, Clean(r)
    PROVE  FoldAll(TokenOp, NoBlocks, r) = [blocks |-> <<>>, rest |-> r]
<1>0. IsSeq(r) /\ Len(r) \in Nat
  BY SeqDomain DEF Clean
<1> DEFINE Bad == {k \in Nat : k <= Len(r) /\ ~ Unsplit(r, k)}
<1>1. ASSUME Bad # {} PROVE FALSE
  <2>1. PICK k \in Bad : \A j \in Bad : k <= j
    BY <1>1, Least
  <2>2. Unsplit(r, 0)
    BY FoldStart, StartsEmpty DEF Unsplit, NoBlocks
  <2>3. PICK j \in Nat : k = j + 1
    BY <2>1, <2>2
  <2>4. Unsplit(r, j) /\ j < Len(r)
    BY <1>0, <2>1, <2>3
  <2>5. Unsplit(r, j + 1)
    BY <2>4, UnsplitNext
  <2> QED
    BY <2>1, <2>3, <2>5
<1>2. Unsplit(r, Len(r))
  BY <1>0, <1>1
<1> DEFINE f == Fold(TokenOp, NoBlocks, r, Len(r))
<1>3. f = [blocks |-> <<>>, rest |-> f.rest] /\ Starts(f.rest, r, Len(r))
  BY <1>2 DEF Unsplit
<1> HIDE DEF f
<1>4. f.rest = r
  BY <1>0, <1>3, StartsWhole
<1> QED
  BY <1>3, <1>4 DEF f, FoldAll

-----------------------------------------------------------------------------
(* What is known while a frame is read. *)

\* The decoder of the first m blocks, each whole and alone.
After(protocol, blocks, m) == Fold(ParseOp(protocol), NewAs(protocol), blocks, m)

AreBlocks(protocol, blocks, n) == DOMAIN blocks = 1..n /\ \A k \in 1..n : IsBlock(protocol, blocks[k])

\* d has parsed m blocks, and told is what it told before.
Tracks(protocol, blocks, told, m, d) ==
    IsDecoder(protocol, d) /\ After(protocol, blocks, m) = ToldAs(protocol, told, d)

\* A step of parsing, by block and by buffer.
LEMMA ParseStep ==
    ASSUME NEW protocol, NEW blocks, NEW d, NEW x
    PROVE  /\ Step(ParseOp(protocol), d, x) = ParseAs(protocol, d, x)
           /\ Step(BlockOp(protocol, blocks), d, x) = BlockAs(protocol, blocks, d, x)
<1>1. /\ ParseOp(protocol).op = "parse" /\ ParseOp(protocol).protocol = protocol
      /\ BlockOp(protocol, blocks).op = "block" /\ BlockOp(protocol, blocks).protocol = protocol
      /\ BlockOp(protocol, blocks).blocks = blocks
  BY DEF ParseOp, BlockOp
<1>2. Step(ParseOp(protocol), d, x) = ParseAs(ParseOp(protocol).protocol, d, x)
  BY <1>1 DEF Step
<1>3. Step(BlockOp(protocol, blocks), d, x)
        = BlockAs(BlockOp(protocol, blocks).protocol, BlockOp(protocol, blocks).blocks, d, x)
  BY <1>1 DEF Step
<1> QED
  BY <1>1, <1>2, <1>3

\* The decoder of one more block.
LEMMA AfterNext ==
    ASSUME NEW protocol, NEW blocks, NEW m \in Nat
    PROVE  /\ After(protocol, blocks, 0) = NewAs(protocol)
           /\ After(protocol, blocks, m + 1) = ParseAs(protocol, After(protocol, blocks, m), blocks[m + 1])
<1> DEFINE op == ParseOp(protocol)
           new == NewAs(protocol)
<1>1. Fold(op, new, blocks, 0) = new
  BY FoldStart
<1>2. Fold(op, new, blocks, m + 1) = Step(op, Fold(op, new, blocks, m), blocks[m + 1])
  BY FoldNext
<1>3. Step(op, Fold(op, new, blocks, m), blocks[m + 1])
        = ParseAs(protocol, Fold(op, new, blocks, m), blocks[m + 1])
  BY ParseStep
<1> QED
  BY <1>1, <1>2, <1>3, Zenon DEF After

\* The data of two blocks differ.
LEMMA DataSame ==
    ASSUME NEW k, NEW l, DataOf(k) = DataOf(l)
    PROVE  k = l
<1>1. Token("data", k, 1) \in DataOf(l)
  BY DEF DataOf
<1>2. Token("data", k, 1).block = k /\ Token("data", l, 1).block = l /\ Token("data", l, 2).block = l
  BY DEF Token
<1> QED
  BY <1>1, <1>2 DEF DataOf

\* The data of the next block is parsed as that block, and what has no data says nothing.
LEMMA BlockTracks ==
    ASSUME NEW protocol \in Protocols, NEW n \in Nat, NEW blocks, AreBlocks(protocol, blocks, n),
           NEW told, IsSeq(told), NEW m \in 0..n, NEW d, Tracks(protocol, blocks, told, m, d), NEW tokens
    PROVE  /\ Data(tokens) = {} => Tracks(protocol, blocks, told, m, BlockAs(protocol, blocks, d, tokens))
           /\ Data(tokens) = DataOf(m + 1) /\ m < n =>
                 Tracks(protocol, blocks, told, m + 1, BlockAs(protocol, blocks, d, tokens))
<1>1. Data(tokens) = {} => BlockAs(protocol, blocks, d, tokens) = d
  BY DEF BlockAs
<1>2. ASSUME Data(tokens) = DataOf(m + 1), m < n
      PROVE  Tracks(protocol, blocks, told, m + 1, BlockAs(protocol, blocks, d, tokens))
  <2>1. m + 1 \in 1..n /\ IsBlock(protocol, blocks[m + 1]) /\ DOMAIN blocks = 1..n
    BY <1>2 DEF AreBlocks
  <2>2. Commutes(protocol, told, ParseAs(protocol, d, blocks[m + 1]),
                 ParseAs(protocol, ToldAs(protocol, told, d), blocks[m + 1]))
    BY <2>1, ParseCommutes DEF Tracks
  <2>3. After(protocol, blocks, m + 1) = ParseAs(protocol, ToldAs(protocol, told, d), blocks[m + 1])
    BY AfterNext DEF Tracks
  <2>4. Tracks(protocol, blocks, told, m + 1, ParseAs(protocol, d, blocks[m + 1]))
    BY <2>2, <2>3 DEF Tracks, Commutes
  <2>5. {k \in DOMAIN blocks : Data(tokens) = DataOf(k)} = {m + 1}
    BY <1>2, <2>1, DataSame
  <2>6. (CHOOSE k \in {m + 1} : TRUE) = m + 1
    OBVIOUS
  <2>7. DataOf(m + 1) # {}
    BY DEF DataOf
  <2>8. ErrorAs(protocol, d) # "none" => ParseAs(protocol, d, blocks[m + 1]) = d
    BY DEF ParseAs
  <2>9. BlockAs(protocol, blocks, d, tokens) = ParseAs(protocol, d, blocks[m + 1])
    BY <1>2, <2>5, <2>6, <2>7, <2>8 DEF BlockAs
  <2> QED
    BY <2>4, <2>9
<1> QED
  BY <1>1, <1>2

\* What is known when p tokens are read; acc is what is normalized of the buffer.
Tracked(st, protocol, blocks, told, start, p, acc, m) ==
    LET split == FoldAll(TokenOp, NoBlocks, acc.lines)
        d     == FoldAll(BlockOp(protocol, blocks), start, split.blocks)
    IN /\ acc = [lines |-> acc.lines, cr |-> acc.cr] /\ acc.cr \in BOOLEAN /\ IsSeq(acc.lines)
       /\ split = [blocks |-> split.blocks, rest |-> split.rest] /\ IsSeq(split.blocks)
       /\ HeldPos(st, p, m, split.rest, acc.cr)
       /\ Tracks(protocol, blocks, told, m, d)

\* A token more is read, and what is known stays known.
LEMMA TrackedNext ==
    ASSUME NEW st, Plain(st), NEW protocol \in Protocols, NEW n \in Nat, NEW blocks, AreBlocks(protocol, blocks, n),
           NEW told, IsSeq(told), NEW start, NEW p \in Nat, p < n * Length(st), NEW acc, NEW m,
           Tracked(st, protocol, blocks, told, start, p, acc, m)
    PROVE  \E l : Tracked(st, protocol, blocks, told, start, p + 1, Newline(acc, TokenAt(st, p)), l)
<1> DEFINE split == FoldAll(TokenOp, NoBlocks, acc.lines)
           d     == FoldAll(BlockOp(protocol, blocks), start, split.blocks)
           t     == TokenAt(st, p)
           x     == IF t = CR THEN LF ELSE t
           b     == Append(split.rest, x)
           next  == Newline(acc, t)
           cut   == FoldAll(TokenOp, NoBlocks, next.lines)
           e     == FoldAll(BlockOp(protocol, blocks), start, cut.blocks)
<1>1. /\ acc = [lines |-> acc.lines, cr |-> acc.cr] /\ acc.cr \in BOOLEAN /\ IsSeq(acc.lines)
      /\ split = [blocks |-> split.blocks, rest |-> split.rest] /\ IsSeq(split.blocks)
      /\ HeldPos(st, p, m, split.rest, acc.cr)
      /\ Tracks(protocol, blocks, told, m, d)
  BY DEF Tracked
<1>2. IF t = LF /\ acc.cr THEN HeldPos(st, p + 1, m, split.rest, FALSE)
      ELSE IF Whole(b)
      THEN \/ m = p \div Length(st) /\ Data(b) = DataOf(m + 1) /\ HeldPos(st, p + 1, m + 1, <<>>, t = CR)
           \/ Data(b) = {} /\ HeldPos(st, p + 1, m, <<>>, t = CR)
      ELSE HeldPos(st, p + 1, m, b, t = CR)
  <2> HIDE DEF split
  <2> QED
    BY <1>1, HeldNext
<1>3. m \in 0..n /\ (m = p \div Length(st) => m < n)
  <2>1. Length(st) \in Nat
    BY DEF Length
  <2>2. p <= n * Length(st) /\ p \div Length(st) \in Nat /\ (p \div Length(st)) + 1 <= n
    BY <2>1, Places
  <2>3. m \in 0..n
    BY <1>1, <2>2, HeldBounded
  <2> QED
    BY <2>2, <2>3
<1>4. Plain(st)
  OBVIOUS
<1> HIDE DEF t, split, d, cut, e, x, b, next
<1>5. CASE t = LF /\ acc.cr
  <2>1. next = [lines |-> acc.lines, cr |-> FALSE]
    BY <1>1, <1>5 DEF next, Newline
  <2>2. cut = split
    BY <2>1 DEF cut, split
  <2>3. e = d
    BY <2>2 DEF e, d
  <2>4. HeldPos(st, p + 1, m, split.rest, FALSE)
    BY <1>2, <1>5
  <2>5. next.cr = FALSE /\ next.lines = acc.lines /\ next = [lines |-> next.lines, cr |-> next.cr]
    BY <2>1
  <2>6. Tracked(st, protocol, blocks, told, start, p + 1, next, m)
    BY <1>1, <2>2, <2>3, <2>4, <2>5 DEF Tracked, cut, e
  <2> QED
    BY <2>6 DEF next, t
<1>6. CASE ~ (t = LF /\ acc.cr)
  <2>1. next = [lines |-> Append(acc.lines, x), cr |-> t = CR]
    BY <1>6 DEF next, Newline, x
  <2>2. /\ next.cr = (t = CR) /\ next.cr \in BOOLEAN /\ next.lines = Append(acc.lines, x)
        /\ next = [lines |-> next.lines, cr |-> next.cr]
    BY <2>1
  <2>3. IsSeq(next.lines)
    BY <1>1, <2>2, AppendReads
  <2>4. cut = TakeToken(split, x)
    <3>1. cut = Step(TokenOp, split, x)
      BY <1>1, <2>2, FoldAppend DEF cut, split
    <3> QED
      BY <3>1, NewlineStep
  <2>5. TakeToken(split, x) = IF Whole(b) THEN [blocks |-> Append(split.blocks, b), rest |-> <<>>]
                              ELSE [split EXCEPT !.rest = b]
    BY DEF TakeToken, Whole, b
  <2>6. CASE Whole(b)
    <3>1. cut = [blocks |-> Append(split.blocks, b), rest |-> <<>>]
      BY <2>4, <2>5, <2>6
    <3>2. cut.blocks = Append(split.blocks, b) /\ cut.rest = <<>> /\ cut = [blocks |-> cut.blocks, rest |-> cut.rest]
      BY <3>1
    <3>3. IsSeq(cut.blocks)
      BY <1>1, <3>2, AppendReads
    <3>4. e = BlockAs(protocol, blocks, d, b)
      <4>1. e = Step(BlockOp(protocol, blocks), d, b)
        BY <1>1, <3>2, FoldAppend DEF e, d
      <4> QED
        BY <4>1, ParseStep
    <3>5. /\ Data(b) = {} => Tracks(protocol, blocks, told, m, e)
          /\ Data(b) = DataOf(m + 1) /\ m < n => Tracks(protocol, blocks, told, m + 1, e)
      BY <1>1, <1>3, <3>4, BlockTracks
    <3>6. PICK l \in {m, m + 1} : HeldPos(st, p + 1, l, <<>>, t = CR) /\ Tracks(protocol, blocks, told, l, e)
      BY <1>2, <1>3, <1>6, <2>6, <3>5
    <3>7. HeldPos(st, p + 1, l, cut.rest, next.cr)
      BY <2>2, <3>2, <3>6
    <3>8. Tracked(st, protocol, blocks, told, start, p + 1, next, l)
      BY <2>2, <2>3, <3>2, <3>3, <3>6, <3>7 DEF Tracked, cut, e
    <3> QED
      BY <3>8 DEF next, t
  <2>7. CASE ~ Whole(b)
    <3>1. cut = [blocks |-> split.blocks, rest |-> b]
      BY <1>1, <2>4, <2>5, <2>7
    <3>2. cut.blocks = split.blocks /\ cut.rest = b /\ cut = [blocks |-> cut.blocks, rest |-> cut.rest]
      BY <3>1
    <3>3. e = d
      BY <3>2 DEF e, d
    <3>4. HeldPos(st, p + 1, m, cut.rest, next.cr)
      BY <1>2, <1>6, <2>2, <2>7, <3>2
    <3>5. Tracked(st, protocol, blocks, told, start, p + 1, next, m)
      BY <1>1, <2>2, <2>3, <3>2, <3>3, <3>4 DEF Tracked, cut, e
    <3> QED
      BY <3>5 DEF next, t
  <2> QED
    BY <2>6, <2>7
<1> QED
  BY <1>5, <1>6

-----------------------------------------------------------------------------
(* push. *)

\* c is a and then b.
Joins(a, b, c) ==
    /\ IsSeq(c) /\ Len(c) = Len(a) + Len(b) /\ Len(a) \in Nat /\ Len(b) \in Nat
    /\ \A i \in 1..Len(a) : c[i] = a[i]
    /\ \A i \in 1..Len(b) : c[Len(a) + i] = b[i]

\* The elements of two sequences joined.
LEMMA JoinReads ==
    ASSUME NEW a, IsSeq(a), NEW b, IsSeq(b)
    PROVE  Joins(a, b, a \o b)
<1>1. PICK S : a \in Seq(S) /\ b \in Seq(S)
  BY SeqOfTwo
<1>2. a \o b \in Seq(S) /\ Len(a \o b) = Len(a) + Len(b) /\ Len(a) \in Nat /\ Len(b) \in Nat
  BY <1>1
<1>3. ASSUME NEW i \in 1..Len(a) PROVE (a \o b)[i] = a[i]
  BY <1>1, <1>2
<1>4. ASSUME NEW i \in 1..Len(b) PROVE (a \o b)[Len(a) + i] = b[i]
  BY <1>1, <1>2
<1> QED
  BY <1>2, <1>3, <1>4 DEF IsSeq, Joins

TrackedSome(st, protocol, blocks, told, start, p, acc) ==
    \E m : Tracked(st, protocol, blocks, told, start, p, acc, m)

\* What is known after all the tokens of a frame.
LEMMA FrameTracked ==
    ASSUME NEW st, Plain(st), NEW protocol \in Protocols, NEW n \in Nat, NEW blocks, AreBlocks(protocol, blocks, n),
           NEW told, IsSeq(told), NEW start, NEW p \in Nat, NEW m, NEW pre, HeldPos(st, p, m, pre, FALSE),
           Tracks(protocol, blocks, told, m, start),
           NEW data, IsSeq(data), \A i \in 1..Len(data) : data[i] = TokenAt(st, p + i - 1),
           p + Len(data) <= n * Length(st)
    PROVE  TrackedSome(st, protocol, blocks, told, start, p + Len(data), Fold(NewlineOp, NoLines, pre \o data, Len(pre) + Len(data)))
<1> DEFINE all == pre \o data
           acc(i) == Fold(NewlineOp, NoLines, all, Len(pre) + i)
           Good(i) == TrackedSome(st, protocol, blocks, told, start, p + i, acc(i))
           Bad == {i \in Nat : i <= Len(data) /\ ~ Good(i)}
<1>1. Clean(pre) /\ IsSeq(pre)
  BY HeldClean DEF Clean
<1>2. /\ Len(pre) \in Nat /\ Len(data) \in Nat
      /\ \A i \in 1..Len(pre) : all[i] = pre[i]
      /\ \A i \in 1..Len(data) : all[Len(pre) + i] = data[i]
  <2>1. Joins(pre, data, pre \o data)
    BY <1>1, JoinReads
  <2> QED
    BY <2>1 DEF Joins
<1>3. Good(0)
  <2> HIDE DEF all
  <2>1. Fold(NewlineOp, NoLines, all, Len(pre)) = [lines |-> pre, cr |-> FALSE]
    BY <1>1, <1>2, CleanLines
  <2>2. Len(pre) + 0 = Len(pre) /\ p + 0 = p
    BY <1>2
  <2>3. acc(0) = [lines |-> pre, cr |-> FALSE]
    BY <2>1, <2>2
  <2>4. FoldAll(TokenOp, NoBlocks, pre) = [blocks |-> <<>>, rest |-> pre]
    BY <1>1, CleanTokens
  <2>5. FoldAll(BlockOp(protocol, blocks), start, <<>>) = start
    <3>1. Len(<<>>) = 0
      OBVIOUS
    <3> QED
      BY <3>1, FoldStart DEF FoldAll
  <2> DEFINE a == [lines |-> pre, cr |-> FALSE]
             split == [blocks |-> <<>>, rest |-> pre]
  <2>6. a.lines = pre /\ a.cr = FALSE /\ a = [lines |-> a.lines, cr |-> a.cr]
    OBVIOUS
  <2>7. split.blocks = <<>> /\ split.rest = pre /\ split = [blocks |-> split.blocks, rest |-> split.rest]
    OBVIOUS
  <2>8. IsSeq(<<>>)
    BY Short
  <2> HIDE DEF a, split
  <2>9. FoldAll(TokenOp, NoBlocks, a.lines) = split
    BY <2>4, <2>6 DEF split
  <2>10. Tracked(st, protocol, blocks, told, start, p, a, m)
    BY <1>1, <2>5, <2>6, <2>7, <2>8, <2>9 DEF Tracked
  <2> QED
    BY <2>2, <2>3, <2>10 DEF TrackedSome, a
<1>4. ASSUME NEW i \in Nat, i < Len(data), Good(i) PROVE Good(i + 1)
  <2>1. PICK l : Tracked(st, protocol, blocks, told, start, p + i, acc(i), l)
    BY <1>4 DEF TrackedSome
  <2>2. i + 1 \in 1..Len(data) /\ Length(st) \in Nat /\ p + i \in Nat /\ p + i < n * Length(st)
    BY <1>2, <1>4 DEF Length
  <2>3. all[Len(pre) + (i + 1)] = TokenAt(st, p + i)
    <3>1. data[i + 1] = TokenAt(st, p + (i + 1) - 1)
      BY <2>2
    <3>2. p + (i + 1) - 1 = p + i
      OBVIOUS
    <3> QED
      BY <1>2, <2>2, <3>1, <3>2
  <2>4. acc(i + 1) = Newline(acc(i), TokenAt(st, p + i))
    <3> HIDE DEF all
    <3>1. Len(pre) + (i + 1) = (Len(pre) + i) + 1 /\ Len(pre) + i \in Nat
      BY <1>2
    <3>2. Fold(NewlineOp, NoLines, all, (Len(pre) + i) + 1)
            = Newline(Fold(NewlineOp, NoLines, all, Len(pre) + i), all[(Len(pre) + i) + 1])
      BY <3>1, FoldNext, NewlineStep
    <3> QED
      BY <2>3, <3>1, <3>2
  <2> HIDE DEF acc
  <2>5. \E k : Tracked(st, protocol, blocks, told, start, (p + i) + 1, Newline(acc(i), TokenAt(st, p + i)), k)
    BY <2>1, <2>2, TrackedNext
  <2>6. (p + i) + 1 = p + (i + 1)
    OBVIOUS
  <2>7. \E k : Tracked(st, protocol, blocks, told, start, p + (i + 1), acc(i + 1), k)
    BY <2>4, <2>5, <2>6
  <2> QED
    BY <2>7 DEF TrackedSome
<1> HIDE DEF Good
<1>5. ASSUME Bad # {} PROVE FALSE
  <2>1. PICK k \in Bad : \A j \in Bad : k <= j
    BY <1>5, Least
  <2>2. PICK j \in Nat : k = j + 1
    BY <1>3, <2>1
  <2>3. Good(j) /\ j < Len(data)
    BY <1>2, <2>1, <2>2
  <2> QED
    BY <1>4, <2>1, <2>2, <2>3
<1>6. Good(Len(data))
  BY <1>2, <1>5
<1> QED
  BY <1>6 DEF Good

\* What push makes of a frame: the buffer it leaves and the blocks it has parsed.
Pushed(p, told, rest, d) ==
    \E m : HeldPos(stream, p, m, rest, FALSE) /\ Tracks(stream.protocol, sent, told, m, d)

\* push of any frame leaves a buffer and a decoder of whole blocks parsed one by one.
LEMMA PushTracks ==
    ASSUME Plain(stream), stream.protocol \in Protocols, NEW n \in Nat, AreBlocks(stream.protocol, sent, n),
           NEW told, IsSeq(told), NEW p \in Nat, NEW m, NEW pre, HeldPos(stream, p, m, pre, FALSE),
           NEW start, Tracks(stream.protocol, sent, told, m, start),
           NEW data, IsSeq(data), \A i \in 1..Len(data) : data[i] = TokenAt(stream, p + i - 1),
           p + Len(data) <= n * Length(stream)
    PROVE  LET split == SplitBlocks(normalize_newlines(pre \o data))
           IN Pushed(p + Len(data), told, split.rest, FoldLeft(parse_block, start, split.blocks))
<1> DEFINE all == pre \o data
           acc == Fold(NewlineOp, NoLines, all, Len(pre) + Len(data))
           split == FoldAll(TokenOp, NoBlocks, acc.lines)
           d == FoldAll(BlockOp(stream.protocol, sent), start, split.blocks)
<1>1. IsSeq(pre)
  BY HeldClean DEF Clean
<1>2. IsSeq(all) /\ Len(all) = Len(pre) + Len(data) /\ Len(all) \in Nat
  BY <1>1, JoinReads DEF Joins
<1>3. PICK l : Tracked(stream, stream.protocol, sent, told, start, p + Len(data), acc, l)
  BY FrameTracked DEF TrackedSome
<1> HIDE DEF all
<1>4. normalize_newlines(all) = acc.lines
  <2>1. DOMAIN all = 1..Len(all)
    BY <1>2, SeqDomain
  <2>2. FoldLeft(Newline, NoLines, all) = Fold(NewlineOp, NoLines, all, Len(all))
    BY <1>2, <2>1, NewlinesFold DEF NewlineOp
  <2> QED
    BY <1>2, <2>2 DEF normalize_newlines, NoLines
<1> HIDE DEF acc
<1>5. /\ IsSeq(acc.lines) /\ IsSeq(split.blocks)
      /\ HeldPos(stream, p + Len(data), l, split.rest, acc.cr)
      /\ Tracks(stream.protocol, sent, told, l, d)
  BY <1>3 DEF Tracked
<1>6. SplitBlocks(acc.lines) = split
  <2>1. DOMAIN acc.lines = 1..Len(acc.lines) /\ Len(acc.lines) \in Nat
    BY <1>5, SeqDomain
  <2>2. FoldLeft(TakeToken, NoBlocks, acc.lines) = Fold(TokenOp, NoBlocks, acc.lines, Len(acc.lines))
    BY <2>1, TokensFold DEF TokenOp
  <2> QED
    BY <2>2 DEF SplitBlocks, NoBlocks, FoldAll
<1> HIDE DEF split
<1>7. FoldLeft(parse_block, start, split.blocks) = d
  <2>1. DOMAIN split.blocks = 1..Len(split.blocks) /\ Len(split.blocks) \in Nat
    BY <1>5, SeqDomain
  <2> QED
    BY <2>1, BlocksFold DEF FoldAll, BlockOp
<1>8. HeldPos(stream, p + Len(data), l, split.rest, FALSE)
  BY <1>5, HeldAnyhow
<1>9. Pushed(p + Len(data), told, split.rest, d)
  BY <1>5, <1>8 DEF Pushed
<1> QED
  BY <1>4, <1>6, <1>7, <1>9 DEF all

-----------------------------------------------------------------------------
(* What is told grows. *)

\* c goes on where a ends.
Extends(a, c) == \E b : IsSeq(b) /\ c = a \o b

\* Every sequence extends itself.
LEMMA JoinedEmpty ==
    ASSUME NEW a, IsSeq(a)
    PROVE  IsSeq(<<>>) /\ a \o <<>> = a /\ Extends(a, a)
<1>1. PICK S : a \in Seq(S)
  BY DEF IsSeq
<1>2. a \o <<>> = a
  BY <1>1, ConcatEmptySeq
<1>3. IsSeq(<<>>)
  BY Short
<1>4. Extends(a, a)
  BY <1>2, <1>3, Zenon DEF Extends
<1> QED
  BY <1>2, <1>3, <1>4

\* Extending is transitive.
LEMMA ExtendsFurther ==
    ASSUME NEW a, IsSeq(a), NEW b, Extends(a, b), NEW c, Extends(b, c)
    PROVE  Extends(a, c) /\ IsSeq(b) /\ IsSeq(c)
<1>1. PICK x : IsSeq(x) /\ b = a \o x
  BY DEF Extends
<1>2. PICK y : IsSeq(y) /\ c = b \o y
  BY DEF Extends
<1>3. IsSeq(x \o y) /\ IsSeq(b)
  BY <1>1, <1>2, Joined
<1>4. IsSeq(c)
  BY <1>2, <1>3, Joined
<1>5. Regroups(a, x, y)
  BY <1>1, <1>2, JoinedAnyhow
<1>6. c = a \o (x \o y)
  BY <1>1, <1>2, <1>5 DEF Regroups
<1>7. Extends(a, c)
  BY <1>3, <1>6, Zenon DEF Extends
<1> QED
  BY <1>3, <1>4, <1>7

\* What is extended is a prefix.
LEMMA ExtendsPrefix ==
    ASSUME NEW a, IsSeq(a), NEW c, Extends(a, c)
    PROVE  IsPrefix(a, c)
<1>1. PICK b : IsSeq(b) /\ c = a \o b
  BY DEF Extends
<1>2. PICK S : a \in Seq(S) /\ b \in Seq(S)
  BY <1>1, SeqOfTwo
<1>3. c \in Seq(S) /\ Len(c) = Len(a) + Len(b) /\ Len(a) \in Nat /\ Len(b) \in Nat
  BY <1>1, <1>2
<1>4. \A i \in 1..Len(a) : c[i] = a[i]
  BY <1>1, <1>2, <1>3
<1>5. SubSeq(c, 1, Len(a)) = SubSeq(a, 1, Len(a))
  <2>1. SubSeq(c, 1, Len(a)) = [i \in 1..Len(a) |-> c[i]]
    BY <1>2, <1>3
  <2>2. SubSeq(a, 1, Len(a)) = [i \in 1..Len(a) |-> a[i]]
    BY <1>2, <1>3
  <2> QED
    BY <1>4, <2>1, <2>2
<1> QED
  BY <1>3, <1>5 DEF IsPrefix

DrainedAs(protocol, d) ==
    IF protocol = "anthropic" THEN [d EXCEPT !.inner.pending = <<>>] ELSE [d EXCEPT !.pending = <<>>]

\* Draining what is pending is the same as having told it.
LEMMA DrainTold ==
    ASSUME NEW s, IsSeq(s.pending), NEW p, IsSeq(p), NEW F, s = [f \in F |-> s[f]], "pending" \in F
    PROVE  /\ Told(p \o s.pending, [s EXCEPT !.pending = <<>>]) = Told(p, s)
           /\ Told(s.pending, [s EXCEPT !.pending = <<>>]) = s
<1> DEFINE e == [s EXCEPT !.pending = <<>>]
<1>1. e.pending = <<>> /\ e = [f \in F |-> e[f]] /\ \A f \in F \ {"pending"} : e[f] = s[f]
  OBVIOUS
<1> HIDE DEF e
<1>2. ASSUME NEW q, IsSeq(q) PROVE Told(q, e) = [s EXCEPT !.pending = q]
  <2>1. q \o e.pending = q
    BY <1>1, <1>2, JoinedEmpty
  <2> QED
    BY <1>1, <2>1 DEF Told
<1>3. IsSeq(p \o s.pending)
  BY Joined
<1>4. Told(p \o s.pending, e) = Told(p, s)
  BY <1>2, <1>3 DEF Told
<1>5. Told(s.pending, e) = [s EXCEPT !.pending = s.pending]
  BY <1>2
<1>6. [s EXCEPT !.pending = s.pending] = s
  OBVIOUS
<1> QED
  BY <1>4, <1>5, <1>6 DEF e

\* What is told is told on, and the decoder goes on without it.
LEMMA DrainReads ==
    ASSUME NEW protocol \in Protocols, NEW d, IsDecoder(protocol, d), NEW p, IsSeq(p)
    PROVE  /\ IsDecoder(protocol, DrainedAs(protocol, d)) /\ PendingAs(protocol, DrainedAs(protocol, d)) = <<>>
           /\ ErrorAs(protocol, DrainedAs(protocol, d)) = ErrorAs(protocol, d)
           /\ Terminal(protocol, DrainedAs(protocol, d)) = Terminal(protocol, d)
           /\ ToldAs(protocol, p \o PendingAs(protocol, d), DrainedAs(protocol, d)) = ToldAs(protocol, p, d)
           /\ ToldAs(protocol, PendingAs(protocol, d), DrainedAs(protocol, d)) = d
<1>0. IsSeq(<<>>)
  BY Short
<1>1. CASE protocol = "chat"
  <2>1. Emitter(d) /\ "pending" \in EmitterFields
    BY <1>1 DEF IsDecoder, EmitterFields
  <2> DEFINE e == [d EXCEPT !.pending = <<>>]
  <2>2. Emitter(e) /\ e.pending = <<>> /\ e.error = d.error /\ e.terminal = d.terminal
    BY <1>0, <2>1 DEF Emitter, EmitterFields
  <2>3. Told(p \o d.pending, e) = Told(p, d) /\ Told(d.pending, e) = d
    BY <2>1, DrainTold DEF Emitter
  <2> QED
    BY <1>1, <2>2, <2>3 DEF IsDecoder, DrainedAs, PendingAs, ErrorAs, Terminal, InnerAs, ToldAs
<1>2. CASE protocol = "anthropic"
  <2>1. Anthropic(d) /\ Emitter(d.inner) /\ "pending" \in EmitterFields
    BY <1>2 DEF IsDecoder, EmitterFields, Anthropic
  <2> DEFINE i == [d.inner EXCEPT !.pending = <<>>]
             e == [d EXCEPT !.inner = i]
  <2>2. Emitter(i) /\ i.pending = <<>> /\ i.error = d.inner.error /\ i.terminal = d.inner.terminal
    BY <1>0, <2>1 DEF Emitter, EmitterFields
  <2>3. Told(p \o d.inner.pending, i) = Told(p, d.inner) /\ Told(d.inner.pending, i) = d.inner
    BY <2>1, DrainTold DEF Emitter
  <2>4. DrainedAs(protocol, d) = e
    BY <1>2, <2>1 DEF DrainedAs, Anthropic, AnthropicFields
  <2> HIDE DEF i
  <2>5. Anthropic(e) /\ e.inner = i
    BY <2>1, <2>2 DEF Anthropic, AnthropicFields
  <2>6. ToldInner(p \o d.inner.pending, e) = ToldInner(p, d)
    BY <2>1, <2>3, <2>5 DEF ToldInner, Anthropic, AnthropicFields
  <2>7. ToldInner(d.inner.pending, e) = d
    BY <2>1, <2>3, <2>5 DEF ToldInner, Anthropic, AnthropicFields
  <2> HIDE DEF e
  <2> QED
    BY <1>2, <2>2, <2>4, <2>5, <2>6, <2>7 DEF IsDecoder, PendingAs, ErrorAs, Terminal, InnerAs, ToldAs
<1>3. CASE protocol = "responses"
  <2>1. Responses(d) /\ "pending" \in ResponsesFields
    BY <1>3 DEF IsDecoder, ResponsesFields
  <2> DEFINE e == [d EXCEPT !.pending = <<>>]
  <2>2. Responses(e) /\ e.pending = <<>> /\ e.error = d.error /\ e.terminal = d.terminal
    BY <1>0, <2>1 DEF Responses, ResponsesFields
  <2>3. Told(p \o d.pending, e) = Told(p, d) /\ Told(d.pending, e) = d
    BY <2>1, DrainTold DEF Responses
  <2> QED
    BY <1>3, <2>2, <2>3 DEF IsDecoder, DrainedAs, PendingAs, ErrorAs, Terminal, InnerAs, ToldAs
<1> QED
  BY <1>1, <1>2, <1>3 DEF Protocols

\* An operation that commutes only adds to what is pending.
LEMMA CommutesGrows ==
    ASSUME NEW protocol \in Protocols, NEW d, IsDecoder(protocol, d), NEW t, NEW u,
           Commutes(protocol, PendingAs(protocol, d), t, u)
    PROVE  IsDecoder(protocol, u) /\ Extends(PendingAs(protocol, d), PendingAs(protocol, u))
<1> DEFINE p == PendingAs(protocol, d)
<1>1. IsSeq(p)
  BY ToldAsReads, JoinedEmpty, Short
<1>2. IsDecoder(protocol, t) /\ u = ToldAs(protocol, p, t)
  BY DEF Commutes
<1> HIDE DEF p
<1>3. IsSeq(PendingAs(protocol, t)) /\ PendingAs(protocol, u) = p \o PendingAs(protocol, t) /\ IsDecoder(protocol, u)
  BY <1>1, <1>2, ToldAsReads
<1>4. Extends(p, PendingAs(protocol, u))
  BY <1>3 DEF Extends
<1> QED
  BY <1>3, <1>4 DEF p

\* A block only adds to what is pending.
LEMMA ParseGrows ==
    ASSUME NEW protocol \in Protocols, NEW d, IsDecoder(protocol, d), NEW b, IsBlock(protocol, b)
    PROVE  /\ IsDecoder(protocol, ParseAs(protocol, d, b))
           /\ Extends(PendingAs(protocol, d), PendingAs(protocol, ParseAs(protocol, d, b)))
<1> DEFINE p == PendingAs(protocol, d)
           e == DrainedAs(protocol, d)
<1>1. IsSeq(p)
  BY ToldAsReads, Short
<1>2. IsDecoder(protocol, e) /\ ToldAs(protocol, p, e) = d
  BY <1>1, DrainReads
<1> HIDE DEF e
<1>3. Commutes(protocol, p, ParseAs(protocol, e, b), ParseAs(protocol, d, b))
  BY <1>1, <1>2, ParseCommutes
<1> QED
  BY <1>3, CommutesGrows

\* So does the end of a body.
LEMMA FlushGrows ==
    ASSUME NEW protocol \in Protocols, NEW d, IsDecoder(protocol, d)
    PROVE  /\ IsDecoder(protocol, FlushedAs(protocol, d))
           /\ Extends(PendingAs(protocol, d), PendingAs(protocol, FlushedAs(protocol, d)))
<1> DEFINE p == PendingAs(protocol, d)
           e == DrainedAs(protocol, d)
<1>1. IsSeq(p)
  BY ToldAsReads, Short
<1>2. IsDecoder(protocol, e) /\ ToldAs(protocol, p, e) = d
  BY <1>1, DrainReads
<1> HIDE DEF e
<1>3. Commutes(protocol, p, FlushedAs(protocol, e), FlushedAs(protocol, d))
  BY <1>1, <1>2, FlushCommutes
<1> QED
  BY <1>3, CommutesGrows

-----------------------------------------------------------------------------
(* Blocks and their ends. *)

\* From m blocks to l: more is pending, an error stays and so does the end.
Further(protocol, blocks, m, l) ==
    /\ IsDecoder(protocol, After(protocol, blocks, l))
    /\ Extends(PendingAs(protocol, After(protocol, blocks, m)), PendingAs(protocol, After(protocol, blocks, l)))
    /\ ErrorAs(protocol, After(protocol, blocks, m)) # "none" =>
          After(protocol, blocks, l) = After(protocol, blocks, m)
    /\ Terminal(protocol, After(protocol, blocks, m)) => Terminal(protocol, After(protocol, blocks, l))

\* One more block.
LEMMA FurtherNext ==
    ASSUME NEW protocol \in Protocols, NEW n \in Nat, NEW blocks, AreBlocks(protocol, blocks, n),
           NEW m, IsSeq(PendingAs(protocol, After(protocol, blocks, m))),
           NEW l \in Nat, l < n, Further(protocol, blocks, m, l)
    PROVE  Further(protocol, blocks, m, l + 1)
<1> DEFINE d == After(protocol, blocks, l)
           e == After(protocol, blocks, l + 1)
<1>1. IsDecoder(protocol, d)
  BY DEF Further
<1>2. IsBlock(protocol, blocks[l + 1])
  BY DEF AreBlocks
<1>3. e = ParseAs(protocol, d, blocks[l + 1])
  BY AfterNext
<1> HIDE DEF d, e
<1>4. IsDecoder(protocol, e) /\ Extends(PendingAs(protocol, d), PendingAs(protocol, e))
  BY <1>1, <1>2, <1>3, ParseGrows
<1>5. /\ ErrorAs(protocol, d) # "none" => e = d
      /\ Terminal(protocol, d) => Terminal(protocol, e)
  BY <1>1, <1>2, <1>3, ParseCommutes, Short
<1>6. Extends(PendingAs(protocol, After(protocol, blocks, m)), PendingAs(protocol, e))
  <2>1. Extends(PendingAs(protocol, After(protocol, blocks, m)), PendingAs(protocol, d))
    BY DEF Further, d
  <2> QED
    BY <1>4, <2>1, ExtendsFurther
<1> QED
  BY <1>4, <1>5, <1>6 DEF Further, d, e

\* What m blocks tell is a beginning of what more blocks tell.
LEMMA AfterFurther ==
    ASSUME NEW protocol \in Protocols, NEW n \in Nat, NEW blocks, AreBlocks(protocol, blocks, n),
           NEW m \in 0..n, IsDecoder(protocol, After(protocol, blocks, m)), NEW l \in m..n
    PROVE  Further(protocol, blocks, m, l)
<1>0. IsSeq(PendingAs(protocol, After(protocol, blocks, m)))
  BY ToldAsReads, Short
<1> DEFINE Bad == {k \in Nat : m <= k /\ k <= n /\ ~ Further(protocol, blocks, m, k)}
<1>1. ASSUME Bad # {} PROVE FALSE
  <2>1. PICK k \in Bad : \A j \in Bad : k <= j
    BY <1>1, Least
  <2>2. Further(protocol, blocks, m, m)
    BY <1>0, JoinedEmpty DEF Further
  <2>3. k # m
    BY <2>1, <2>2
  <2>4. PICK j \in Nat : k = j + 1 /\ m <= j
    <3>1. k - 1 \in Nat /\ k = (k - 1) + 1 /\ m <= k - 1
      BY <2>1, <2>3
    <3> QED
      BY <3>1
  <2>5. Further(protocol, blocks, m, j) /\ j < n
    BY <2>1, <2>4
  <2>6. Further(protocol, blocks, m, j + 1)
    BY <1>0, <2>5, FurtherNext
  <2> QED
    BY <2>1, <2>4, <2>6
<1> QED
  BY <1>1

\* The decoder of the first m blocks is one.
LEMMA AfterIsDecoder ==
    ASSUME NEW protocol \in Protocols, NEW n \in Nat, NEW blocks, AreBlocks(protocol, blocks, n), NEW m \in 0..n
    PROVE  IsDecoder(protocol, After(protocol, blocks, m))
<1>1. After(protocol, blocks, 0) = NewAs(protocol)
  BY AfterNext
<1>2. IsDecoder(protocol, After(protocol, blocks, 0))
  BY <1>1, NewIsDecoder
<1>3. 0 \in 0..n
  OBVIOUS
<1>4. Further(protocol, blocks, 0, m)
  BY <1>2, <1>3, AfterFurther
<1> QED
  BY <1>4 DEF Further

\* A decoder is at the end of the response by a block that may end it.
LEMMA AfterTerminal ==
    ASSUME NEW protocol \in Protocols, NEW n \in Nat, NEW blocks, AreBlocks(protocol, blocks, n),
           NEW m \in 0..n, Terminal(protocol, After(protocol, blocks, m))
    PROVE  \E j \in 1..m : EndsAs(protocol, blocks[j])
<1> DEFINE T == {k \in Nat : k <= n /\ Terminal(protocol, After(protocol, blocks, k))}
<1>1. m \in T
  OBVIOUS
<1>2. PICK k \in T : \A j \in T : k <= j
  <2>1. T # {} /\ T \in SUBSET Nat
    BY <1>1
  <2> QED
    BY <2>1, Least
<1>3. ~ Terminal(protocol, After(protocol, blocks, 0))
  BY AfterNext, NewIsDecoder
<1>4. PICK j \in Nat : k = j + 1
  <2>1. k # 0
    BY <1>2, <1>3
  <2>2. k - 1 \in Nat /\ k = (k - 1) + 1
    BY <1>2, <2>1
  <2> QED
    BY <2>2
<1>5. j \in 0..n /\ j < n /\ ~ Terminal(protocol, After(protocol, blocks, j)) /\ Terminal(protocol, After(protocol, blocks, j + 1))
  BY <1>2, <1>4
<1>6. IsDecoder(protocol, After(protocol, blocks, j))
  BY <1>5, AfterIsDecoder
<1>7. After(protocol, blocks, j + 1) = ParseAs(protocol, After(protocol, blocks, j), blocks[j + 1])
  BY AfterNext
<1>8. IsBlock(protocol, blocks[j + 1])
  BY <1>5 DEF AreBlocks
<1>9. EndsAs(protocol, blocks[j + 1])
  <2> DEFINE d == After(protocol, blocks, j)
             b == blocks[j + 1]
  <2>1. /\ IsDecoder(protocol, d) /\ IsBlock(protocol, b) /\ ~ Terminal(protocol, d)
        /\ Terminal(protocol, ParseAs(protocol, d, b))
    BY <1>5, <1>6, <1>7, <1>8
  <2>2. IsSeq(<<>>)
    BY Short
  <2> HIDE DEF d, b
  <2>3. Terminal(protocol, d) \/ EndsAs(protocol, b)
    BY <2>1, <2>2, ParseCommutes
  <2> QED
    BY <2>1, <2>3 DEF b
<1>10. j + 1 \in 1..m
  BY <1>1, <1>2, <1>4
<1> QED
  BY <1>9, <1>10

\* The data of a buffer is that of the block it is in, or there is none.
PartialData(r, k) == Data(r) = {} \/ Data(r) = {One(k)} \/ Data(r) = DataOf(k)

HasData(st, r, k, l) ==
    /\ PartialData(r, k)
    /\ l = 0 => Data(r) = {}
    /\ l + 2 >= Size(st) => Data(r) = DataOf(k)

\* The data in a part of a block.
LEMMA PartialHasData ==
    ASSUME NEW st, Plain(st), NEW j \in {0, 1}, NEW k, NEW l \in 0..(Size(st) - 1), NEW r, Partial(st, r, j, k, l)
    PROVE  HasData(st, r, k, l)
<1>1. IsSeq(r) /\ Len(r) = j + l /\ (j = 1 => r[1] = LF) /\ \A i \in 1..l : r[j + i] = LineOf(st, k, i)
  BY DEF Partial
<1>2. DOMAIN r = 1..(j + l)
  <2>1. DOMAIN r = 1..Len(r)
    BY <1>1, SeqDomain
  <2> QED
    BY <1>1, <2>1
<1>3. \A i \in 1..l : LineOf(st, k, i) = (IF i = 1 THEN One(k) ELSE IF i = Size(st) - 2 THEN Two(k) ELSE LF)
  <2>1. CASE st.lines = 1
    BY <2>1 DEF LineOf, Size
  <2>2. CASE st.lines = 2
    BY <2>2 DEF LineOf, Size
  <2> QED
    BY <2>1, <2>2 DEF Plain
<1>4. Size(st) \in {4, 5}
  BY DEF Size
<1>5. \A i \in 1..(j + l) : r[i] = IF i = j + 1 THEN One(k) ELSE IF i = j + Size(st) - 2 THEN Two(k) ELSE LF
  <2>1. ASSUME NEW i \in 1..(j + l)
        PROVE  r[i] = IF i = j + 1 THEN One(k) ELSE IF i = j + Size(st) - 2 THEN Two(k) ELSE LF
    <3>1. CASE i <= j
      <4>1. i = 1 /\ j = 1
        BY <3>1
      <4>2. i # j + 1 /\ i # j + Size(st) - 2
        BY <1>4, <4>1
      <4> QED
        BY <1>1, <4>1, <4>2
    <3>2. CASE i > j
      <4>1. i - j \in 1..l /\ i = j + (i - j)
        BY <3>2
      <4>2. r[i] = LineOf(st, k, i - j)
        BY <1>1, <4>1
      <4>3. (i - j = 1 <=> i = j + 1) /\ (i - j = Size(st) - 2 <=> i = j + Size(st) - 2)
        BY <1>4
      <4> QED
        BY <1>3, <4>1, <4>2, <4>3
    <3> QED
      BY <3>1, <3>2
  <2> QED
    BY <2>1
<1>6. ToSet(r) = {r[i] : i \in 1..(j + l)}
  BY <1>2 DEF ToSet
<1>7. LF.kind # "data" /\ One(k).kind = "data" /\ Two(k).kind = "data" /\ DataOf(k) = {One(k), Two(k)}
  BY TokensDiffer DEF DataOf, One, Two
<1>8. CASE l = 0
  <2>1. \A i \in 1..(j + l) : r[i] = LF
    BY <1>1, <1>8
  <2>2. Data(r) = {}
    BY <1>6, <1>7, <2>1 DEF Data
  <2> QED
    BY <1>4, <1>8, <2>2 DEF PartialData, HasData
<1>9. CASE l > 0 /\ l < Size(st) - 2
  <2>1. \A i \in 1..(j + l) : r[i] = IF i = j + 1 THEN One(k) ELSE LF
    BY <1>4, <1>5, <1>9
  <2>2. j + 1 \in 1..(j + l)
    BY <1>9
  <2>3. Data(r) = {One(k)}
    BY <1>6, <1>7, <2>1, <2>2 DEF Data
  <2> QED
    BY <1>4, <1>9, <2>3 DEF PartialData, HasData
<1>10. CASE l >= Size(st) - 2
  <2>1. j + 1 \in 1..(j + l) /\ j + Size(st) - 2 \in 1..(j + l) /\ j + 1 # j + Size(st) - 2
    BY <1>4, <1>10
  <2>2. r[j + 1] = One(k) /\ r[j + Size(st) - 2] = Two(k)
    BY <1>5, <2>1
  <2>3. Data(r) = DataOf(k)
    BY <1>5, <1>6, <1>7, <2>1, <2>2 DEF Data
  <2> QED
    BY <1>4, <1>10, <2>3 DEF PartialData, HasData
<1> QED
  BY <1>4, <1>8, <1>9, <1>10

\* What may be missing of the last block: its last two line ends.
Cut(st) == IF st.eol = "lf" THEN 2 ELSE 4

\* The data in the buffer: of the block in hand, all of it when only line ends are missing.
LEMMA HeldData ==
    ASSUME NEW st, Plain(st), NEW p \in Nat, NEW n \in Nat, p <= n * Length(st), NEW m, NEW r, NEW cr,
           HeldPos(st, p, m, r, cr)
    PROVE  /\ Data(r) = {} \/ (PartialData(r, m + 1) /\ m + 1 <= n)
           /\ p + Cut(st) >= n * Length(st) =>
                 (m = n /\ Data(r) = {}) \/ (m + 1 = n /\ Data(r) = DataOf(m + 1))
<1> DEFINE q == p \div Length(st)
           o == p % Length(st)
           e == Cut(st)
<1>1. /\ q \in Nat /\ o \in 0..(Length(st) - 1) /\ q <= n
      /\ o # 0 => q + 1 <= n
      /\ o = 0 /\ p + e >= n * Length(st) => q = n
      /\ o # 0 /\ p + e >= n * Length(st) => q + 1 = n /\ o + e >= Length(st)
  <2>1. CASE Length(st) = 4
    BY <2>1 DEF Length, Plain, Cut
  <2>2. CASE Length(st) = 5
    BY <2>2 DEF Length, Plain, Cut
  <2>3. CASE Length(st) = 6
    BY <2>3 DEF Length, Plain, Cut
  <2> QED
    BY <2>1, <2>2, <2>3 DEF Length
<1>2. HeldAt(st, q, o, m, r, cr)
  BY DEF HeldPos
<1> HIDE DEF q, o
<1>3. CASE st.eol = "lf"
  <2>1. m = q /\ Partial(st, r, 0, m + 1, o) /\ o \in 0..(Size(st) - 1) /\ Length(st) = Size(st)
    BY <1>1, <1>2, <1>3 DEF HeldAt, Length, Size, Plain
  <2>2. PartialData(r, m + 1) /\ (o = 0 => Data(r) = {}) /\ (o + 2 >= Size(st) => Data(r) = DataOf(m + 1))
    <3>1. 0 \in {0, 1}
      OBVIOUS
    <3>2. HasData(st, r, m + 1, o)
      BY <2>1, <3>1, PartialHasData
    <3> QED
      BY <3>2 DEF HasData
  <2> QED
    BY <1>1, <1>3, <2>1, <2>2 DEF Cut
<1>4. CASE st.eol # "lf"
  <2>1. st.lines = 1 /\ Size(st) = 4 /\ Length(st) = 6 /\ e = 4
    BY <1>4 DEF Plain, Size, Length, Cut
  <2>2. \E j \in {0, 1} : \E l \in 0..3 :
           \/ m = q /\ (l = o \/ (o = 4 /\ l = 3)) /\ Partial(st, r, j, q + 1, l)
           \/ m = q + 1 /\ l = 0 /\ o # 0 /\ Partial(st, r, j, q + 2, l)
    BY <1>2, <1>4 DEF HeldAt
  <2>3. PICK j \in {0, 1}, l \in 0..3 :
           \/ m = q /\ (l = o \/ (o = 4 /\ l = 3)) /\ Partial(st, r, j, q + 1, l)
           \/ m = q + 1 /\ l = 0 /\ o # 0 /\ Partial(st, r, j, q + 2, l)
    BY <2>2
  <2>4. CASE m = q /\ (l = o \/ (o = 4 /\ l = 3)) /\ Partial(st, r, j, q + 1, l)
    <3>0. l \in 0..(Size(st) - 1) /\ Partial(st, r, j, m + 1, l)
      BY <2>1, <2>4
    <3>1. PartialData(r, m + 1) /\ (l = 0 => Data(r) = {}) /\ (l + 2 >= 4 => Data(r) = DataOf(m + 1))
      <4>1. PartialData(r, m + 1) /\ (l = 0 => Data(r) = {}) /\ (l + 2 >= Size(st) => Data(r) = DataOf(m + 1))
        <5> DEFINE k == m + 1
        <5>1. j \in {0, 1} /\ Plain(st) /\ l \in 0..(Size(st) - 1) /\ Partial(st, r, j, k, l)
          BY <3>0
        <5> HIDE DEF q, o, e, k
        <5>2. HasData(st, r, k, l)
          BY <5>1, PartialHasData
        <5> QED
          BY <5>2 DEF k, HasData
      <4> QED
        BY <2>1, <4>1
    <3>2. o = 0 <=> l = 0
      BY <2>4
    <3>3. o + 4 >= 6 => l + 2 >= 4
      BY <1>1, <2>4
    <3> QED
      BY <1>1, <2>1, <2>4, <3>1, <3>2, <3>3
  <2>5. CASE m = q + 1 /\ l = 0 /\ o # 0 /\ Partial(st, r, j, q + 2, l)
    <3>0. l \in 0..(Size(st) - 1) /\ Partial(st, r, j, q + 2, l)
      BY <2>1, <2>5
    <3>1. Data(r) = {}
      <4>1. HasData(st, r, q + 2, l)
        BY <3>0, PartialHasData
      <4> QED
        BY <2>5, <4>1 DEF HasData
    <3> QED
      BY <1>1, <2>1, <2>5, <3>1
  <2> QED
    BY <2>3, <2>4, <2>5
<1> QED
  BY <1>3, <1>4

-----------------------------------------------------------------------------
(* The end of the body. *)

\* What the decoder makes of n blocks and of their end.
UncutAs(protocol, blocks, n) == FlushedAs(protocol, After(protocol, blocks, n))

\* What is told, and what is pending, is a beginning of what the blocks tell.
LEMMA ToldIsPrefix ==
    ASSUME NEW protocol \in Protocols, NEW n \in Nat, NEW blocks, AreBlocks(protocol, blocks, n),
           NEW told, IsSeq(told), NEW m \in 0..n, NEW d, Tracks(protocol, blocks, told, m, d)
    PROVE  /\ IsSeq(told \o PendingAs(protocol, d))
           /\ Extends(told, PendingAs(protocol, UncutAs(protocol, blocks, n)))
           /\ Extends(told \o PendingAs(protocol, d), PendingAs(protocol, UncutAs(protocol, blocks, n)))
           /\ ErrorAs(protocol, d) # "none" => ErrorAs(protocol, UncutAs(protocol, blocks, n)) # "none"
<1> DEFINE a == After(protocol, blocks, m)
           z == After(protocol, blocks, n)
           u == UncutAs(protocol, blocks, n)
<1>1. IsDecoder(protocol, d) /\ a = ToldAs(protocol, told, d)
  BY DEF Tracks
<1>2. /\ IsSeq(PendingAs(protocol, d)) /\ PendingAs(protocol, a) = told \o PendingAs(protocol, d)
      /\ ErrorAs(protocol, a) = ErrorAs(protocol, d)
  <2> HIDE DEF a
  <2> QED
    BY <1>1, ToldAsReads
<1>3. IsDecoder(protocol, a)
  BY AfterIsDecoder
<1>4. Further(protocol, blocks, m, n)
  <2>1. n \in m..n
    OBVIOUS
  <2> QED
    BY <1>3, <2>1, AfterFurther
<1>5. /\ IsDecoder(protocol, z) /\ Extends(PendingAs(protocol, a), PendingAs(protocol, z))
      /\ ErrorAs(protocol, a) # "none" => z = a
  BY <1>4 DEF Further
<1> HIDE DEF a
<1>6. /\ Extends(PendingAs(protocol, z), PendingAs(protocol, u))
      /\ ErrorAs(protocol, z) # "none" => ErrorAs(protocol, u) # "none"
  <2>1. u = FlushedAs(protocol, z)
    BY DEF UncutAs
  <2> HIDE DEF u, z
  <2> QED
    BY <1>5, <2>1, FlushGrows, FlushCommutes, Short
<1> HIDE DEF z, u
<1>7. IsSeq(told \o PendingAs(protocol, d)) /\ Extends(told, told \o PendingAs(protocol, d))
  BY <1>2, Joined DEF Extends
<1>8. Extends(told \o PendingAs(protocol, d), PendingAs(protocol, u))
  BY <1>2, <1>5, <1>6, <1>7, ExtendsFurther
<1>9. Extends(told, PendingAs(protocol, u))
  BY <1>7, <1>8, ExtendsFurther
<1> QED
  BY <1>2, <1>5, <1>6, <1>7, <1>8, <1>9 DEF u

\* The end of the response, f, is what the client is to be told of.
EndsWell(protocol, blocks, n, told, f, lawful) ==
    LET u == UncutAs(protocol, blocks, n)
    IN /\ ErrorAs(protocol, f) # "none" \/ Extends(told \o PendingAs(protocol, f), PendingAs(protocol, u))
       /\ IsSeq(PendingAs(protocol, f))
       /\ lawful => /\ ErrorAs(protocol, u) = ErrorAs(protocol, f)
                    /\ PendingAs(protocol, u) = told \o PendingAs(protocol, f)
                    /\ Terminal(protocol, u) = Terminal(protocol, f)

\* All the blocks are parsed.
LEMMA EndOfAll ==
    ASSUME NEW protocol \in Protocols, NEW n \in Nat, NEW blocks, AreBlocks(protocol, blocks, n),
           NEW told, IsSeq(told), NEW d, Tracks(protocol, blocks, told, n, d), NEW lawful
    PROVE  EndsWell(protocol, blocks, n, told, FlushedAs(protocol, d), lawful)
<1> DEFINE f == FlushedAs(protocol, d)
           u == UncutAs(protocol, blocks, n)
<1>1. IsDecoder(protocol, d) /\ u = FlushedAs(protocol, ToldAs(protocol, told, d))
  BY DEF Tracks, UncutAs
<1>2. IsDecoder(protocol, f) /\ u = ToldAs(protocol, told, f)
  <2>1. Commutes(protocol, told, f, FlushedAs(protocol, ToldAs(protocol, told, d)))
    BY <1>1, FlushCommutes
  <2> QED
    BY <1>1, <2>1 DEF Commutes
<1> HIDE DEF f, u
<1>3. /\ IsSeq(PendingAs(protocol, f)) /\ PendingAs(protocol, u) = told \o PendingAs(protocol, f)
      /\ ErrorAs(protocol, u) = ErrorAs(protocol, f) /\ Terminal(protocol, u) = Terminal(protocol, f)
  BY <1>2, ToldAsReads
<1>4. Extends(PendingAs(protocol, u), PendingAs(protocol, u))
  BY <1>3, Joined, JoinedEmpty
<1> QED
  BY <1>3, <1>4 DEF EndsWell, f, u

\* Some are parsed, and nothing more would be told at the end.
LEMMA EndOfSome ==
    ASSUME NEW protocol \in Protocols, NEW n \in Nat, NEW blocks, AreBlocks(protocol, blocks, n),
           NEW told, IsSeq(told), NEW m \in 0..n, NEW d, Tracks(protocol, blocks, told, m, d),
           protocol = "anthropic" \/ Terminal(protocol, d)
    PROVE  EndsWell(protocol, blocks, n, told, FlushedAs(protocol, d), FALSE)
<1>1. IsDecoder(protocol, d)
  BY DEF Tracks
<1>2. PendingAs(protocol, FlushedAs(protocol, d)) = PendingAs(protocol, d)
  BY <1>1, FlushCommutes, Short
<1>3. IsSeq(PendingAs(protocol, d))
  BY <1>1, ToldAsReads, Short
<1>4. Extends(told \o PendingAs(protocol, d), PendingAs(protocol, UncutAs(protocol, blocks, n)))
  BY ToldIsPrefix
<1> QED
  BY <1>2, <1>3, <1>4 DEF EndsWell

\* Only the last block of a lawful stream may end it.
LastEnds(protocol, blocks, n) == \A j \in 1..n : EndsAs(protocol, blocks[j]) => j = n

\* The body is over, the buffer may hold a block.
LEMMA EndOfBody ==
    ASSUME NEW st, Plain(st), NEW protocol \in Protocols, NEW n \in Nat, NEW blocks, AreBlocks(protocol, blocks, n),
           NEW told, IsSeq(told), NEW k \in 0..n, NEW p \in Nat, p <= k * Length(st),
           p + Cut(st) >= k * Length(st),
           NEW m, NEW r, HeldPos(st, p, m, r, FALSE), NEW d, Tracks(protocol, blocks, told, m, d),
           k = n \/ (protocol = "anthropic" /\ k > 0 /\ EndsAs(protocol, blocks[k])),
           NEW lawful, lawful => LastEnds(protocol, blocks, n)
    PROVE  EndsWell(protocol, blocks, n, told, FlushedAs(protocol, BlockAs(protocol, blocks, d, r)), lawful)
<1> DEFINE e == BlockAs(protocol, blocks, d, r)
<1>0. k \in Nat
  OBVIOUS
<1>1. (m = k /\ Data(r) = {}) \/ (m + 1 = k /\ Data(r) = DataOf(m + 1))
  BY <1>0, HeldData
<1>2. m \in 0..n
  <2>1. m \in 0..k
    BY <1>0, HeldBounded
  <2> QED
    BY <2>1
<1>3. Tracks(protocol, blocks, told, k, e)
  <2>1. /\ Data(r) = {} => Tracks(protocol, blocks, told, m, e)
        /\ Data(r) = DataOf(m + 1) /\ m < n => Tracks(protocol, blocks, told, m + 1, e)
    BY <1>2, BlockTracks
  <2>2. m + 1 = k => m < n
    BY <1>2
  <2> QED
    BY <1>1, <2>1, <2>2
<1> HIDE DEF e
<1>4. CASE k = n
  BY <1>3, <1>4, EndOfAll DEF e
<1>5. CASE k # n
  <2>1. protocol = "anthropic" /\ k \in 1..n /\ EndsAs(protocol, blocks[k])
    BY <1>5
  <2>2. EndsWell(protocol, blocks, n, told, FlushedAs(protocol, e), FALSE)
    BY <1>3, <2>1, EndOfSome
  <2>3. ~ lawful
    BY <1>5, <2>1 DEF LastEnds
  <2> QED
    BY <2>2, <2>3 DEF EndsWell, e
<1> QED
  BY <1>4, <1>5

\* The decoder has seen the end, and is given what else is in the buffer.
LEMMA EndOfTerminal ==
    ASSUME NEW st, Plain(st), NEW protocol \in Protocols, NEW n \in Nat, NEW blocks, AreBlocks(protocol, blocks, n),
           NEW told, IsSeq(told), NEW p \in Nat, p <= n * Length(st),
           NEW m, NEW r, HeldPos(st, p, m, r, FALSE), NEW d, Tracks(protocol, blocks, told, m, d),
           Terminal(protocol, d), ErrorAs(protocol, d) = "none",
           NEW lawful, lawful => LastEnds(protocol, blocks, n)
    PROVE  EndsWell(protocol, blocks, n, told, FlushedAs(protocol, BlockAs(protocol, blocks, d, r)), lawful)
<1> DEFINE e == BlockAs(protocol, blocks, d, r)
<1>1. m \in 0..n
  BY HeldBounded
<1>2. IsDecoder(protocol, d) /\ After(protocol, blocks, m) = ToldAs(protocol, told, d)
  BY DEF Tracks
<1>3. Terminal(protocol, After(protocol, blocks, m))
  BY <1>2, ToldAsReads
<1>4. lawful => m = n
  <2>1. PICK j \in 1..m : EndsAs(protocol, blocks[j])
    BY <1>1, <1>3, AfterTerminal
  <2>2. LastEnds(protocol, blocks, n) => j = n
    BY <1>1, <2>1 DEF LastEnds
  <2> QED
    BY <1>1, <2>1, <2>2
<1>5. Data(r) = {} \/ (PartialData(r, m + 1) /\ m + 1 <= n)
  BY HeldData
<1>6. CASE Data(r) = {}
  <2>1. e = d
    BY <1>6 DEF BlockAs
  <2>2. CASE lawful
    <3>1. Tracks(protocol, blocks, told, n, d)
      BY <1>4, <2>2
    <3>2. EndsWell(protocol, blocks, n, told, FlushedAs(protocol, d), lawful)
      BY <3>1, EndOfAll
    <3> QED
      BY <2>1, <3>2
  <2>3. CASE ~ lawful
    <3>1. EndsWell(protocol, blocks, n, told, FlushedAs(protocol, d), FALSE)
      BY <1>1, EndOfSome
    <3> QED
      BY <2>1, <2>3, <3>1 DEF EndsWell
  <2> QED
    BY <2>2, <2>3
<1>7. CASE Data(r) = DataOf(m + 1) /\ m + 1 <= n
  <2>1. m < n /\ m + 1 \in 0..n /\ ~ lawful
    BY <1>1, <1>4, <1>7
  <2>2. Tracks(protocol, blocks, told, m + 1, e)
    BY <1>1, <1>7, <2>1, BlockTracks
  <2> HIDE DEF e
  <2>3. Further(protocol, blocks, m, m + 1)
    <3>1. m + 1 \in m..n
      BY <1>1, <2>1
    <3>2. IsDecoder(protocol, After(protocol, blocks, m))
      BY <1>1, AfterIsDecoder
    <3> QED
      BY <1>1, <3>1, <3>2, AfterFurther
  <2>4. Terminal(protocol, After(protocol, blocks, m + 1))
    BY <1>3, <2>3 DEF Further
  <2>5. Terminal(protocol, e)
    BY <2>2, <2>4, ToldAsReads DEF Tracks
  <2>6. EndsWell(protocol, blocks, n, told, FlushedAs(protocol, e), FALSE)
    BY <2>1, <2>2, <2>5, EndOfSome
  <2> QED
    BY <2>1, <2>6 DEF EndsWell, e
<1>8. CASE Data(r) = {One(m + 1)} /\ m + 1 <= n
  <2>1. ~ lawful
    BY <1>1, <1>4, <1>8
  <2>2. e = InvalidAs(protocol, d)
    <3>1. \A k : Data(r) # DataOf(k)
      BY <1>8, TokensDiffer DEF DataOf, One, Two
    <3>2. Data(r) # {}
      BY <1>8
    <3> QED
      BY <3>1, <3>2 DEF BlockAs
  <2>3. ErrorAs(protocol, e) # "none" /\ IsDecoder(protocol, e)
    BY <1>2, <2>2, InvalidCommutes, Short DEF Commutes
  <2> HIDE DEF e
  <2>4. ErrorAs(protocol, FlushedAs(protocol, e)) # "none"
    BY <2>3, FlushCommutes, Short
  <2>5. IsDecoder(protocol, FlushedAs(protocol, e))
    BY <2>3, FlushGrows
  <2>6. IsSeq(PendingAs(protocol, FlushedAs(protocol, e)))
    BY <2>5, ToldAsReads, Short
  <2> QED
    BY <2>1, <2>4, <2>6 DEF EndsWell, e
<1> QED
  BY <1>5, <1>6, <1>7, <1>8 DEF PartialData

-----------------------------------------------------------------------------
(* The wire. *)

JoinsOne(s, x, c) ==
    /\ IsSeq(c) /\ Len(c) = Len(s) + 1 /\ \A i \in 1..Len(s) : c[i] = s[i]
    /\ c[Len(s) + 1] = x

JoinsTwo(s, x, y, c) ==
    /\ IsSeq(c) /\ Len(c) = Len(s) + 2 /\ \A i \in 1..Len(s) : c[i] = s[i]
    /\ c[Len(s) + 1] = x /\ c[Len(s) + 2] = y

\* One or two tokens more.
LEMMA JoinOne ==
    ASSUME NEW s, IsSeq(s), NEW x, NEW y
    PROVE  JoinsOne(s, x, s \o <<x>>) /\ JoinsTwo(s, x, y, s \o <<x, y>>)
<1>1. IsSeq(<<x>>) /\ Len(<<x>>) = 1 /\ <<x>>[1] = x
  BY Short
<1>2. IsSeq(<<x, y>>) /\ Len(<<x, y>>) = 2 /\ <<x, y>>[1] = x /\ <<x, y>>[2] = y
  BY Short
<1>3. Joins(s, <<x>>, s \o <<x>>) /\ Joins(s, <<x, y>>, s \o <<x, y>>)
  BY <1>1, <1>2, JoinReads
<1> DEFINE c == s \o <<x>>
           d == s \o <<x, y>>
           o == <<x>>
           t == <<x, y>>
<1> HIDE DEF c, d, o, t
<1>4. JoinsOne(s, x, c)
  <2>1. Joins(s, o, c) /\ Len(o) = 1 /\ o[1] = x
    BY <1>1, <1>3 DEF c, o
  <2>2. 1 \in 1..Len(o)
    BY <2>1
  <2> QED
    BY <2>1, <2>2 DEF Joins, JoinsOne
<1>5. JoinsTwo(s, x, y, d)
  <2>1. Joins(s, t, d) /\ Len(t) = 2 /\ t[1] = x /\ t[2] = y
    BY <1>2, <1>3 DEF d, t
  <2>2. 1 \in 1..Len(t) /\ 2 \in 1..Len(t)
    BY <2>1
  <2> QED
    BY <2>1, <2>2 DEF Joins, JoinsTwo
<1> QED
  BY <1>4, <1>5 DEF c, d

\* The tokens of a block, by their places.
IsBlockOf(st, s, k) ==
    IsSeq(s) /\ Len(s) = Length(st) /\ \A o \in 0..(Length(st) - 1) : s[o + 1] = TokenOf(st, k, o)

\* The tokens of a block are those of its places.
LEMMA TokensAre ==
    ASSUME Plain(stream), NEW k
    PROVE  IsBlockOf(stream, Tokens(k), k) /\ 2 * Len(Eol) = Cut(stream)
<1> DEFINE break == IF stream.lines = 2 THEN Eol ELSE <<>>
           a == <<One(k)>>
           b == a \o break
           c == b \o <<Two(k)>>
           d == c \o Eol
           e == d \o Eol
<1>1. Tokens(k) = e
  BY DEF Tokens, One, Two
<1>2. IsSeq(a) /\ Len(a) = 1 /\ a[1] = One(k)
  BY Short
<1> HIDE DEF a
<1>3. CASE stream.eol = "lf"
  <2>1. Eol = <<LF>> /\ 2 * Len(Eol) = Cut(stream)
    BY <1>3 DEF Eol, Cut
  <2>2. CASE stream.lines = 1
    <3>1. b = a
      BY <1>2, <2>2, JoinedEmpty
    <3>2. IsSeq(c) /\ Len(c) = 2 /\ c[1] = One(k) /\ c[2] = Two(k)
      <4> HIDE DEF b
      <4>1. IsSeq(b) /\ Len(b) = 1 /\ b[1] = One(k)
        BY <1>2, <3>1
      <4>2. JoinsOne(b, Two(k), c)
        BY <4>1, JoinOne
      <4> QED
        BY <4>1, <4>2 DEF JoinsOne
    <3>3. IsSeq(d) /\ Len(d) = 3 /\ d[1] = One(k) /\ d[2] = Two(k) /\ d[3] = LF
      <4> HIDE DEF c
      <4>1. JoinsOne(c, LF, d)
        BY <2>1, <3>2, JoinOne
      <4> HIDE DEF d
      <4> QED
        BY <3>2, <4>1 DEF JoinsOne
    <3>4. IsSeq(e) /\ Len(e) = 4 /\ e[1] = One(k) /\ e[2] = Two(k) /\ e[3] = LF /\ e[4] = LF
      <4> HIDE DEF d
      <4>1. JoinsOne(d, LF, e)
        BY <2>1, <3>3, JoinOne
      <4> HIDE DEF e
      <4> QED
        BY <3>3, <4>1 DEF JoinsOne
    <3> HIDE DEF e
    <3>5. Length(stream) = 4
      BY <1>3, <2>2 DEF Length
    <3>6. ASSUME NEW o \in 0..3 PROVE e[o + 1] = TokenOf(stream, k, o)
      <4>1. TokenOf(stream, k, o) = IF o = 0 THEN One(k) ELSE IF o = 1 THEN Two(k) ELSE LF
        BY <1>3, <2>2 DEF TokenOf
      <4>2. o = 0 \/ o = 1 \/ o = 2 \/ o = 3
        OBVIOUS
      <4> QED
        BY <3>4, <4>1, <4>2
    <3> QED
      BY <1>1, <2>1, <3>4, <3>5, <3>6 DEF IsBlockOf
  <2>3. CASE stream.lines = 2
    <3>1. IsSeq(b) /\ Len(b) = 2 /\ b[1] = One(k) /\ b[2] = LF
      <4>0. break = <<LF>>
        BY <2>1, <2>3
      <4>1. JoinsOne(a, LF, b)
        BY <1>2, <4>0, JoinOne
      <4> HIDE DEF b
      <4> QED
        BY <1>2, <4>1 DEF JoinsOne
    <3>2. IsSeq(c) /\ Len(c) = 3 /\ c[1] = One(k) /\ c[2] = LF /\ c[3] = Two(k)
      <4> HIDE DEF b
      <4>1. JoinsOne(b, Two(k), c)
        BY <3>1, JoinOne
      <4> HIDE DEF c
      <4> QED
        BY <3>1, <4>1 DEF JoinsOne
    <3>3. IsSeq(d) /\ Len(d) = 4 /\ d[1] = One(k) /\ d[2] = LF /\ d[3] = Two(k) /\ d[4] = LF
      <4> HIDE DEF c
      <4>1. JoinsOne(c, LF, d)
        BY <2>1, <3>2, JoinOne
      <4> HIDE DEF d
      <4> QED
        BY <3>2, <4>1 DEF JoinsOne
    <3>4. IsSeq(e) /\ Len(e) = 5 /\ e[1] = One(k) /\ e[2] = LF /\ e[3] = Two(k) /\ e[4] = LF /\ e[5] = LF
      <4> HIDE DEF d
      <4>1. JoinsOne(d, LF, e)
        BY <2>1, <3>3, JoinOne
      <4> HIDE DEF e
      <4> QED
        BY <3>3, <4>1 DEF JoinsOne
    <3> HIDE DEF e
    <3>5. Length(stream) = 5
      BY <1>3, <2>3 DEF Length
    <3>6. ASSUME NEW o \in 0..4 PROVE e[o + 1] = TokenOf(stream, k, o)
      <4>1. TokenOf(stream, k, o) = IF o = 0 THEN One(k) ELSE IF o = 2 THEN Two(k) ELSE LF
        BY <1>3, <2>3 DEF TokenOf
      <4>2. o = 0 \/ o = 1 \/ o = 2 \/ o = 3 \/ o = 4
        OBVIOUS
      <4> QED
        BY <3>4, <4>1, <4>2
    <3> QED
      BY <1>1, <2>1, <3>4, <3>5, <3>6 DEF IsBlockOf
  <2> QED
    BY <1>3, <2>2, <2>3 DEF Plain
<1>4. CASE stream.eol # "lf"
  <2>0. stream.eol = "crlf" /\ stream.lines = 1
    BY <1>4 DEF Plain
  <2>1. Eol = <<CR, LF>> /\ 2 * Len(Eol) = Cut(stream)
    BY <1>4 DEF Eol, Cut
  <2>2. b = a
    BY <1>2, <2>0, JoinedEmpty
  <2>3. IsSeq(c) /\ Len(c) = 2 /\ c[1] = One(k) /\ c[2] = Two(k)
    <3> HIDE DEF b
    <3>1. IsSeq(b) /\ Len(b) = 1 /\ b[1] = One(k)
      BY <1>2, <2>2
    <3>2. JoinsOne(b, Two(k), c)
      BY <3>1, JoinOne
    <3> QED
      BY <3>1, <3>2 DEF JoinsOne
  <2>4. IsSeq(d) /\ Len(d) = 4 /\ d[1] = One(k) /\ d[2] = Two(k) /\ d[3] = CR /\ d[4] = LF
    <3> HIDE DEF c
    <3>1. JoinsTwo(c, CR, LF, d)
      BY <2>1, <2>3, JoinOne
    <3> HIDE DEF d
    <3> QED
      BY <2>3, <3>1 DEF JoinsTwo
  <2>5. IsSeq(e) /\ Len(e) = 6 /\ e[1] = One(k) /\ e[2] = Two(k) /\ e[3] = CR /\ e[4] = LF /\ e[5] = CR /\ e[6] = LF
    <3> HIDE DEF d
    <3>1. JoinsTwo(d, CR, LF, e)
      BY <2>1, <2>4, JoinOne
    <3> HIDE DEF e
    <3> QED
      BY <2>4, <3>1 DEF JoinsTwo
  <2> HIDE DEF e
  <2>6. Length(stream) = 6
    BY <2>0 DEF Length
  <2>7. ASSUME NEW o \in 0..5 PROVE e[o + 1] = TokenOf(stream, k, o)
    <3>1. TokenOf(stream, k, o) = IF o = 0 THEN One(k) ELSE IF o = 1 THEN Two(k)
                                  ELSE IF o = 2 \/ o = 4 THEN CR ELSE LF
      BY <2>0 DEF TokenOf
    <3>2. o = 0 \/ o = 1 \/ o = 2 \/ o = 3 \/ o = 4 \/ o = 5
      OBVIOUS
    <3> QED
      BY <2>5, <3>1, <3>2
  <2> QED
    BY <1>1, <2>1, <2>5, <2>6, <2>7 DEF IsBlockOf
<1> QED
  BY <1>3, <1>4

\* w holds the tokens of the stream from c on.
Carries(st, w, c) == IsSeq(w) /\ \A i \in 1..Len(w) : w[i] = TokenAt(st, c + i - 1)

\* One more block on the wire.
LEMMA CarriesMore ==
    ASSUME NEW st, Plain(st), NEW c \in Nat, NEW w, Carries(st, w, c), NEW n \in Nat, c + Len(w) = n * Length(st),
           NEW s, IsBlockOf(st, s, n + 1)
    PROVE  Carries(st, w \o s, c) /\ Len(w \o s) = Len(w) + Length(st) /\ Len(w) \in Nat
<1>1. IsSeq(w) /\ IsSeq(s) /\ Len(s) = Length(st)
  BY DEF Carries, IsBlockOf
<1> DEFINE x == w \o s
<1>0. Joins(w, s, x)
  BY <1>1, JoinReads
<1> HIDE DEF x
<1>2. /\ IsSeq(x) /\ Len(x) = Len(w) + Len(s) /\ Len(w) \in Nat /\ Len(s) \in Nat
      /\ \A i \in 1..Len(w) : x[i] = w[i]
      /\ \A i \in 1..Len(s) : x[Len(w) + i] = s[i]
  BY <1>0 DEF Joins
<1>3. ASSUME NEW i \in 1..Len(x) PROVE x[i] = TokenAt(st, c + i - 1)
  <2>1. CASE i <= Len(w)
    BY <1>2, <2>1 DEF Carries, x
  <2>2. CASE i > Len(w)
    <3> DEFINE o == i - Len(w) - 1
    <3>1. o \in 0..(Length(st) - 1) /\ o + 1 \in 1..Len(s) /\ i = Len(w) + (o + 1)
      BY <1>1, <1>2, <1>3, <2>2 DEF x
    <3>2. c + i - 1 = n * Length(st) + o
      <4>1. Length(st) \in Nat
        BY <1>1, <1>2
      <4>2. n * Length(st) \in Nat
        BY <4>1
      <4>3. Len(w) \in Nat /\ i = Len(w) + (o + 1) /\ o \in Int
        BY <1>2, <3>1
      <4> HIDE DEF o
      <4> QED
        BY <4>2, <4>3
    <3> HIDE DEF o
    <3>3. x[i] = TokenOf(st, n + 1, o)
      BY <1>2, <3>1 DEF IsBlockOf, x
    <3>4. (n * Length(st) + o) \div Length(st) = n /\ (n * Length(st) + o) % Length(st) = o
      <4>1. CASE Length(st) = 4
        BY <3>1, <4>1
      <4>2. CASE Length(st) = 5
        BY <3>1, <4>2
      <4>3. CASE Length(st) = 6
        BY <3>1, <4>3
      <4> QED
        BY <4>1, <4>2, <4>3 DEF Length
    <3> QED
      BY <3>2, <3>3, <3>4 DEF TokenAt
  <2> QED
    BY <1>2, <2>1, <2>2 DEF x
<1> QED
  BY <1>1, <1>2, <1>3 DEF Carries, x

\* A frame, and what it leaves on the wire.
LEMMA CarriesPart ==
    ASSUME NEW st, NEW c \in Nat, NEW w, Carries(st, w, c), NEW n \in 0..Len(w)
    PROVE  /\ Carries(st, SubSeq(w, 1, n), c) /\ Len(SubSeq(w, 1, n)) = n
           /\ Carries(st, SubSeq(w, n + 1, Len(w)), c + n) /\ Len(SubSeq(w, n + 1, Len(w))) = Len(w) - n
           /\ Len(w) \in Nat
<1>1. PICK S : w \in Seq(S)
  BY DEF Carries, IsSeq
<1>2. Len(w) \in Nat /\ n \in Nat
  BY <1>1
<1> DEFINE a == SubSeq(w, 1, n)
           b == SubSeq(w, n + 1, Len(w))
<1>3. a \in Seq(S) /\ Len(a) = n /\ \A i \in 1..n : a[i] = w[i]
  BY <1>1, <1>2, SubSeqProperties
<1>4. b \in Seq(S) /\ Len(b) = Len(w) - n /\ \A i \in 1..(Len(w) - n) : b[i] = w[n + i]
  <2>1. b \in Seq(S)
    BY <1>1, <1>2, SubSeqProperties
  <2>2. Len(b) = Len(w) - n
    BY <1>1, <1>2, SubSeqProperties
  <2>3. ASSUME NEW i \in 1..(Len(w) - n) PROVE b[i] = w[n + i]
    BY <1>1, <1>2, <2>1, <2>2
  <2> QED
    BY <2>1, <2>2, <2>3
<1> HIDE DEF a, b
<1>5. Carries(st, a, c)
  <2>1. ASSUME NEW i \in 1..Len(a) PROVE a[i] = TokenAt(st, c + i - 1)
    BY <1>2, <1>3 DEF Carries
  <2> QED
    BY <1>3, <2>1 DEF Carries, IsSeq
<1>6. Carries(st, b, c + n)
  <2>1. ASSUME NEW i \in 1..Len(b) PROVE b[i] = TokenAt(st, (c + n) + i - 1)
    <3>1. n + i \in 1..Len(w) /\ b[i] = w[n + i]
      BY <1>2, <1>4
    <3>2. w[n + i] = TokenAt(st, c + (n + i) - 1)
      BY <3>1 DEF Carries
    <3>3. c + (n + i) - 1 = (c + n) + i - 1
      BY <1>2, <1>4
    <3> QED
      BY <3>1, <3>2, <3>3
  <2> QED
    BY <1>4, <2>1 DEF Carries, IsSeq
<1> QED
  BY <1>2, <1>3, <1>4, <1>5, <1>6 DEF a, b

-----------------------------------------------------------------------------
(* The invariant. *)

\* What the upstream sent: bl, of which k are on the wire.
SentAs(st, bl, k, mis, end) ==
    /\ st \in Streams /\ end \in {"no", "eof", "broken"}
    /\ IsSeq(bl) /\ AreBlocks(st.protocol, bl, Len(bl))
    /\ k \in 0..Len(bl) /\ (st.source = "http" => k = Len(bl))
    /\ mis \in Nat /\ (mis = 0 => LastEnds(st.protocol, bl, Len(bl)))
    /\ st.source = "claude" /\ end = "eof" => k > 0 /\ EndsAs("anthropic", bl[k])

\* CutsAreInvisible, of values.
CutsAs(st, bl, told, ph, mis) ==
    LET u == UncutAs(st.protocol, bl, Len(bl))
    IN /\ IsSeq(told) /\ Extends(told, PendingAs(st.protocol, u))
       /\ ph = "done" /\ mis = 0 => ErrorAs(st.protocol, u) = "none" /\ told = PendingAs(st.protocol, u)
       /\ ph \in {"InvalidStream", "StreamStateLimit"} /\ mis = 0 =>
             ErrorAs(st.protocol, u) # "none" \/ ~ Terminal(st.protocol, u)

ActiveAs(st, ph, d, w, end) ==
    /\ ErrorAs(st.protocol, d) = "none"
    /\ ph = "streaming" => ~ Terminal(st.protocol, d)
    /\ ph = "finishing" => Terminal(st.protocol, d) \/ (w = <<>> /\ end = "eof")

\* c tokens are read and m blocks parsed.
ReadsAt(st, bl, told, end, k, w, r, d, c, m) ==
    /\ c \in Nat /\ c + Len(w) <= k * Length(st) /\ c + Len(w) + Cut(st) >= k * Length(st)
    /\ end # "eof" \/ st.source = "claude" => c + Len(w) = k * Length(st)
    /\ Carries(st, w, c)
    /\ HeldPos(st, c, m, r, FALSE)
    /\ Tracks(st.protocol, bl, told, m, d)

Reading(st, bl, told, end, k, w, r, d) == \E c, m : ReadsAt(st, bl, told, end, k, w, r, d, c, m)

StreamInv ==
    /\ SentAs(stream, sent, pumped, mishaps, ended)
    /\ CutsAs(stream, sent, delivered, phase, mishaps)
    /\ phase \in {"streaming", "finishing"} =>
          /\ ActiveAs(stream, phase, decoder, wire, ended)
          /\ Reading(stream, sent, delivered, ended, pumped, wire, buffer, decoder)

AllPlain == \A s \in Streams : Plain(s)

\* The streams are plain ones.
LEMMA StreamIs ==
    ASSUME NEW s \in Streams, AllPlain
    PROVE  /\ s.protocol \in Protocols /\ Plain(s) /\ s.source \in {"http", "claude"}
           /\ s.source = "claude" => s.protocol = "anthropic"
           /\ Length(s) \in Nat /\ Cut(s) \in Nat
BY StreamAssumption DEF AllPlain, Protocols, Length, Cut

\* A decoder that told nothing before.
LEMMA ToldNothing ==
    ASSUME NEW protocol \in Protocols, NEW d, IsDecoder(protocol, d)
    PROVE  ToldAs(protocol, <<>>, d) = d
<1>0. IsSeq(<<>>)
  BY Short
<1>1. IsSeq(<<>>) /\ IsSeq(PendingAs(protocol, d))
  BY <1>0, ToldAsReads
<1>2. <<>> \o PendingAs(protocol, d) = PendingAs(protocol, d)
  <2>1. PICK S : PendingAs(protocol, d) \in Seq(S)
    BY <1>1 DEF IsSeq
  <2> DEFINE x == PendingAs(protocol, d)
  <2>2. x \in Seq(S)
    BY <2>1
  <2> HIDE DEF x
  <2>3. <<>> \o x = x
    BY <2>2, ConcatEmptySeq
  <2> QED
    BY <2>3 DEF x
<1>3. /\ ToldAs(protocol, <<>> \o PendingAs(protocol, d), DrainedAs(protocol, d)) = ToldAs(protocol, <<>>, d)
      /\ ToldAs(protocol, PendingAs(protocol, d), DrainedAs(protocol, d)) = d
  <2> DEFINE drained == DrainedAs(protocol, d)
             waits == PendingAs(protocol, d)
  <2>1. \A p : IsSeq(p) => /\ ToldAs(protocol, p \o waits, drained) = ToldAs(protocol, p, d)
                          /\ ToldAs(protocol, waits, drained) = d
    <3> TAKE p
    <3> HAVE IsSeq(p)
    <3> QED
      BY DrainReads
  <2> HIDE DEF drained, waits
  <2>2. ToldAs(protocol, <<>> \o waits, drained) = ToldAs(protocol, <<>>, d) /\ ToldAs(protocol, waits, drained) = d
    BY <1>0, <2>1
  <2> QED
    BY <2>2 DEF drained, waits
<1> QED
  BY <1>2, <1>3

\* At first nothing is sent and nothing read.
LEMMA InitInv ==
    ASSUME AllPlain, Init
    PROVE  StreamInv
<1> DEFINE protocol == stream.protocol
<1>1. /\ stream \in Streams /\ sent = <<>> /\ mishaps = 0 /\ pumped = 0 /\ ended = "no"
      /\ wire = <<>> /\ buffer = <<>> /\ decoder = NewDecoder /\ delivered = <<>> /\ phase = "streaming"
  BY DEF Init
<1>2. protocol \in Protocols /\ Plain(stream) /\ Length(stream) \in {4, 5, 6} /\ Cut(stream) \in Nat
  BY <1>1, StreamIs DEF Length
<1>3. IsSeq(<<>>) /\ Len(<<>>) = 0 /\ AreBlocks(protocol, <<>>, 0)
  <2>1. IsSeq(<<>>)
    BY Short
  <2>2. DOMAIN <<>> = 1..0 /\ Len(<<>>) = 0 /\ \A k \in 1..0 : FALSE
    OBVIOUS
  <2> QED
    BY <2>1, <2>2 DEF AreBlocks
<1>4. NewDecoder = NewAs(protocol)
  BY AsTheDecoderDoes
<1>5. Tracks(protocol, <<>>, <<>>, 0, NewAs(protocol))
  <2>1. IsDecoder(protocol, NewAs(protocol)) /\ After(protocol, <<>>, 0) = NewAs(protocol)
    BY <1>2, NewIsDecoder, AfterNext
  <2>2. ToldAs(protocol, <<>>, NewAs(protocol)) = NewAs(protocol)
    BY <1>2, <2>1, ToldNothing
  <2> QED
    BY <2>1, <2>2 DEF Tracks
<1>6. SentAs(stream, sent, pumped, mishaps, ended)
  BY <1>1, <1>3 DEF SentAs, LastEnds
<1>7. CutsAs(stream, sent, delivered, phase, mishaps)
  <2>1. Extends(<<>>, PendingAs(protocol, UncutAs(protocol, <<>>, 0)))
    <3>1. 0 \in 0..0 /\ 0 \in Nat
      OBVIOUS
    <3> QED
      BY <1>2, <1>3, <1>5, <3>1, ToldIsPrefix
  <2> QED
    BY <1>1, <1>3, <2>1 DEF CutsAs
<1>8. ActiveAs(stream, phase, decoder, wire, ended)
  BY <1>1, <1>2, <1>4, NewIsDecoder DEF ActiveAs
<1>9. ReadsAt(stream, sent, delivered, ended, pumped, wire, buffer, decoder, 0, 0)
  <2>1. HeldPos(stream, 0, 0, <<>>, FALSE)
    <3>1. 0 \div Length(stream) = 0 /\ 0 % Length(stream) = 0
      BY <1>2
    <3>2. Partial(stream, <<>>, 0, 0 + 1, 0)
      BY EmptyPartial
    <3> QED
      BY <3>1, <3>2 DEF HeldPos, HeldAt
  <2>2. Carries(stream, <<>>, 0)
    BY <1>3 DEF Carries
  <2>3. 0 + Len(<<>>) = 0 * Length(stream) /\ 0 + Len(<<>>) <= 0 * Length(stream)
        /\ 0 + Len(<<>>) + Cut(stream) >= 0 * Length(stream)
    BY <1>2, <1>3
  <2>4. ReadsAt(stream, <<>>, <<>>, "no", 0, <<>>, <<>>, NewAs(protocol), 0, 0)
    BY <1>3, <1>5, <2>1, <2>2, <2>3 DEF ReadsAt
  <2> QED
    BY <1>1, <1>4, <2>4
<1> QED
  BY <1>6, <1>7, <1>8, <1>9 DEF StreamInv, Reading

\* Only the last block of a lawful stream may end the response.
LEMMA LawfulEnds ==
    ASSUME stream.protocol \in Protocols, NEW s, NEW n \in Nat, DOMAIN s = 1..n, LawfulStream(s)
    PROVE  LastEnds(stream.protocol, s, n)
<1>1. SUFFICES ASSUME NEW j \in 1..n, EndsAs(stream.protocol, s[j]), j # n PROVE FALSE
  BY DEF LastEnds
<1>2. n \in DOMAIN s /\ j \in 1..(n - 1)
  BY <1>1
<1>3. CASE stream.protocol = "chat"
  <2>1. ChatLawful(s)
    BY <1>3 DEF LawfulStream
  <2>2. s[j].type # "[DONE]"
    BY <1>2, <2>1 DEF ChatLawful
  <2> QED
    BY <1>1, <1>3, <2>2 DEF EndsAs
<1>4. CASE stream.protocol = "anthropic"
  <2>1. AnthropicLawful(s)
    BY <1>4 DEF LawfulStream
  <2>2. \A k \in DOMAIN s : \A i \in 1..(k - 1) : s[i].type # "message_stop"
    BY <2>1 DEF AnthropicLawful
  <2> QED
    BY <1>1, <1>2, <1>4, <2>2 DEF EndsAs
<1>5. CASE stream.protocol = "responses"
  <2>1. ResponsesLawful(s)
    BY <1>5 DEF LawfulStream
  <2>2. s[j].type \notin TerminalTypes
    BY <1>2, <2>1 DEF ResponsesLawful
  <2> QED
    BY <1>1, <1>5, <2>2 DEF EndsAs
<1> QED
  BY <1>3, <1>4, <1>5 DEF Protocols

\* What an upstream sends has one call in a chunk at most, as the bound of Blocks has it.
LEMMA BlocksAre ==
    ASSUME NEW k, NEW b \in Blocks(k)
    PROVE  IsBlock(stream.protocol, b)
<1> SUFFICES ASSUME stream.protocol = "chat", b # Malformed, b.type # "[DONE]" PROVE IsChunk(b)
  BY DEF IsBlock
<1>1. b \in ChatBlocks(k)
  BY DEF Blocks
<1>2. NoChoice.calls = <<>> /\ NoChoice = [f \in {"reasoning", "content", "calls", "finish"} |-> NoChoice[f]]
  BY DEF NoChoice
<1>3. \A choice, usage : ChatChunk(choice, usage).choice = choice
  BY DEF ChatChunk
<1>4. ChatDone.type = "[DONE]"
  BY DEF ChatDone
<1>5. b.choice.calls = <<>> \/ \E c : b.choice.calls = <<c>>
  <2>1. \/ \E c \in {[NoChoice EXCEPT !.reasoning = <<k>>], [NoChoice EXCEPT !.content = <<k>>]} :
              b = ChatChunk(c, FALSE)
        \/ \E f \in {"stop", "length", "content_filter"} : b = ChatChunk([NoChoice EXCEPT !.finish = f], FALSE)
        \/ b = ChatChunk(NoChoice, TRUE)
        \/ \E c : b = ChatChunk([NoChoice EXCEPT !.calls = <<c>>], FALSE)
    BY <1>1, <1>4, Zenon DEF ChatBlocks
  <2>2. /\ [NoChoice EXCEPT !.reasoning = <<k>>].calls = <<>> /\ [NoChoice EXCEPT !.content = <<k>>].calls = <<>>
        /\ \A f : [NoChoice EXCEPT !.finish = f].calls = <<>>
        /\ \A c : [NoChoice EXCEPT !.calls = <<c>>].calls = <<c>>
    BY <1>2
  <2> DEFINE Few(choice) == choice.calls = <<>> \/ \E c : choice.calls = <<c>>
  <2>3. /\ Few([NoChoice EXCEPT !.reasoning = <<k>>]) /\ Few([NoChoice EXCEPT !.content = <<k>>])
        /\ \A f : Few([NoChoice EXCEPT !.finish = f])
        /\ \A c : Few([NoChoice EXCEPT !.calls = <<c>>])
        /\ Few(NoChoice)
    BY <1>2, <2>2
  <2> HIDE DEF Few
  <2>4. \E choice, usage : b = ChatChunk(choice, usage) /\ Few(choice)
    BY <2>1, <2>3, Zenon
  <2>5. PICK choice, usage : b = ChatChunk(choice, usage) /\ Few(choice)
    BY <2>4
  <2>6. b.choice = choice
    BY <1>3, <2>5
  <2> QED
    BY <2>5, <2>6 DEF Few
<1>6. DOMAIN <<>> = 1..0 /\ \A c : DOMAIN <<c>> = 1..1
  OBVIOUS
<1> QED
  BY <1>5, <1>6 DEF IsChunk

-----------------------------------------------------------------------------
(* Its steps: what is sent. *)

\* What StreamInv says of every state.
LEMMA StateIs ==
    ASSUME AllPlain, StreamInv
    PROVE  /\ stream.protocol \in Protocols /\ Plain(stream) /\ Length(stream) \in Nat /\ Cut(stream) \in Nat
           /\ IsSeq(sent) /\ Len(sent) \in Nat /\ AreBlocks(stream.protocol, sent, Len(sent))
           /\ pumped \in 0..Len(sent) /\ pumped \in Nat /\ IsSeq(delivered)
           /\ mishaps \in Nat /\ (mishaps = 0 => LastEnds(stream.protocol, sent, Len(sent)))
<1>1. stream \in Streams /\ IsSeq(sent) /\ pumped \in 0..Len(sent)
  BY DEF StreamInv, SentAs
<1>2. Len(sent) \in Nat
  BY <1>1, SeqDomain
<1>3. stream.protocol \in Protocols /\ Plain(stream) /\ Length(stream) \in Nat /\ Cut(stream) \in Nat
  BY <1>1, StreamIs
<1>4. IsSeq(delivered)
  BY DEF StreamInv, CutsAs
<1> QED
  BY <1>1, <1>2, <1>3, <1>4 DEF StreamInv, SentAs

\* What a session that reads has read: c tokens, and m blocks of them.
ReadSo(c, m) ==
    /\ ReadsAt(stream, sent, delivered, ended, pumped, wire, buffer, decoder, c, m)
    /\ c \in Nat /\ Len(wire) \in Nat /\ m \in 0..pumped /\ m \in 0..Len(sent) /\ IsSeq(wire)

\* What it says of a session that reads.
LEMMA ReadSoFar ==
    ASSUME AllPlain, StreamInv, phase \in {"streaming", "finishing"}
    PROVE  \E c, m : ReadSo(c, m)
<1>1. PICK c, m : ReadsAt(stream, sent, delivered, ended, pumped, wire, buffer, decoder, c, m)
  BY DEF StreamInv, Reading
<1>2. /\ c \in Nat /\ c + Len(wire) <= pumped * Length(stream) /\ IsSeq(wire)
      /\ HeldPos(stream, c, m, buffer, FALSE)
  BY <1>1 DEF ReadsAt, Carries
<1>3. Len(wire) \in Nat
  BY <1>2, SeqDomain
<1>4. Plain(stream) /\ pumped \in Nat /\ Length(stream) \in Nat /\ Len(sent) \in Nat /\ pumped \in 0..Len(sent)
  BY StateIs
<1>5. c <= pumped * Length(stream)
  <2>1. pumped * Length(stream) \in Nat
    BY <1>4
  <2> QED
    BY <1>2, <1>3, <2>1
<1>6. m \in 0..pumped
  BY <1>2, <1>4, <1>5, HeldBounded
<1> QED
  BY <1>1, <1>2, <1>3, <1>4, <1>6 DEF ReadSo

\* What is known of a state when the session is through, or stays through.
LEMMA OverKeeps ==
    ASSUME AllPlain, StreamInv, phase' \notin {"streaming", "finishing", "done"},
           UNCHANGED <<stream, sent, mishaps, pumped, ended, delivered>>,
           phase' \in {"InvalidStream", "StreamStateLimit"} /\ mishaps = 0 =>
               LET u == UncutAs(stream.protocol, sent, Len(sent))
               IN ErrorAs(stream.protocol, u) # "none" \/ ~ Terminal(stream.protocol, u)
    PROVE  StreamInv'
<1>1. SentAs(stream, sent, pumped, mishaps, ended)'
  BY DEF StreamInv
<1>2. CutsAs(stream, sent, delivered, phase, mishaps)'
  BY DEF StreamInv, CutsAs
<1> QED
  BY <1>1, <1>2 DEF StreamInv

\* A step that tells nothing keeps the cuts invisible.
LEMMA SamePhase ==
    ASSUME StreamInv, UNCHANGED <<stream, sent, mishaps, delivered, phase>>,
           SentAs(stream, sent, pumped, mishaps, ended)',
           phase \in {"streaming", "finishing"} =>
              /\ ActiveAs(stream, phase, decoder, wire, ended)'
              /\ Reading(stream, sent, delivered, ended, pumped, wire, buffer, decoder)'
    PROVE  StreamInv'
<1>1. CutsAs(stream, sent, delivered, phase, mishaps)'
  BY DEF StreamInv
<1> QED
  BY <1>1 DEF StreamInv

-----------------------------------------------------------------------------
(* More is sent. *)

\* A decoder is not touched by the blocks after those it has parsed.
LEMMA TracksAlike ==
    ASSUME NEW protocol, NEW s, NEW t, NEW m \in Nat, \A i \in 1..m : s[i] = t[i],
           NEW told, NEW d, Tracks(protocol, s, told, m, d)
    PROVE  Tracks(protocol, t, told, m, d)
<1>1. After(protocol, s, m) = After(protocol, t, m)
  BY FoldAlike DEF After
<1> QED
  BY <1>1 DEF Tracks

\* One more block is sent, lawfully or not.
LEMMA ProduceMore ==
    ASSUME AllPlain, StreamInv, NEW b, IsBlock(stream.protocol, b), Produce(b)
    PROVE  /\ IsSeq(sent') /\ Len(sent') = Len(sent) + 1 /\ AreBlocks(stream.protocol, sent', Len(sent'))
           /\ mishaps' \in Nat /\ (mishaps' = 0 => LastEnds(stream.protocol, sent', Len(sent')))
           /\ \A i \in 1..Len(sent) : sent'[i] = sent[i]
<1>1. IsSeq(sent) /\ Len(sent) \in Nat /\ AreBlocks(stream.protocol, sent, Len(sent)) /\ mishaps \in Nat
      /\ stream.protocol \in Protocols
  BY StateIs
<1>2. PICK s : s = sent'
  OBVIOUS
<1>3. s = Append(sent, b)
  BY <1>2 DEF Produce
<1>4. IsSeq(s) /\ Len(s) = Len(sent) + 1 /\ (\A i \in 1..Len(sent) : s[i] = sent[i]) /\ s[Len(sent) + 1] = b
  BY <1>1, <1>3, AppendReads
<1>5. DOMAIN s = 1..(Len(sent) + 1) /\ Len(sent) + 1 \in Nat
  BY <1>1, <1>4, SeqDomain
<1>6. AreBlocks(stream.protocol, s, Len(sent) + 1)
  <2>1. ASSUME NEW k \in 1..(Len(sent) + 1) PROVE IsBlock(stream.protocol, s[k])
    <3>1. CASE k \in 1..Len(sent)
      BY <1>1, <1>4, <3>1 DEF AreBlocks
    <3>2. CASE k = Len(sent) + 1
      BY <1>4, <3>2
    <3> QED
      BY <1>1, <3>1, <3>2
  <2> QED
    BY <1>5, <2>1 DEF AreBlocks
<1>7. mishaps' = IF LawfulStream(s) THEN mishaps ELSE mishaps + 1
  BY <1>2 DEF Produce
<1>8. mishaps' \in Nat /\ (mishaps' = 0 => LawfulStream(s))
  BY <1>1, <1>7
<1>9. LawfulStream(s) => LastEnds(stream.protocol, s, Len(sent) + 1)
  BY <1>1, <1>5, LawfulEnds
<1> QED
  BY <1>2, <1>4, <1>6, <1>8, <1>9

\* What is told stays a beginning of what the blocks tell when a block is added.
LEMMA SentKeepsCuts ==
    ASSUME AllPlain, StreamInv, NEW b, IsBlock(stream.protocol, b), Produce(b)
    PROVE  /\ CutsAs(stream, sent, delivered, phase, mishaps)'
           /\ ActiveAs(stream, phase, decoder, wire, ended)'
           /\ stream' = stream /\ delivered' = delivered /\ ended' = "no" /\ ended = "no"
           /\ phase' = "streaming" /\ phase = "streaming" /\ decoder' = decoder /\ buffer' = buffer
           /\ \A c, m : ReadSo(c, m) => Tracks(stream.protocol, sent', delivered, m, decoder)
<1>1. /\ stream' = stream /\ delivered' = delivered /\ ended' = "no" /\ ended = "no"
      /\ phase' = "streaming" /\ phase = "streaming" /\ decoder' = decoder /\ buffer' = buffer
  BY DEF Produce
<1>2. /\ stream.protocol \in Protocols /\ IsSeq(delivered) /\ Len(sent) \in Nat
  BY StateIs
<1>3. PICK s : s = sent'
  OBVIOUS
<1>4. /\ Len(s) = Len(sent) + 1 /\ AreBlocks(stream.protocol, s, Len(s)) /\ \A i \in 1..Len(sent) : s[i] = sent[i]
  BY <1>3, ProduceMore
<1>5. ASSUME NEW c, NEW m, ReadSo(c, m)
      PROVE  Tracks(stream.protocol, s, delivered, m, decoder) /\ m \in 0..Len(s)
  <2>1. m \in 0..Len(sent) /\ Tracks(stream.protocol, sent, delivered, m, decoder)
    BY <1>5 DEF ReadSo, ReadsAt
  <2>2. m \in Nat /\ (\A i \in 1..m : sent[i] = s[i]) /\ m \in 0..Len(s)
    BY <1>2, <1>4, <2>1
  <2> QED
    BY <2>1, <2>2, TracksAlike
<1>6. PICK c, m : ReadSo(c, m)
  BY <1>1, ReadSoFar
<1>7. Extends(delivered, PendingAs(stream.protocol, UncutAs(stream.protocol, s, Len(s))))
  <2>1. Len(s) \in Nat
    BY <1>2, <1>4
  <2> QED
    BY <1>2, <1>4, <1>5, <1>6, <2>1, ToldIsPrefix
<1>8. CutsAs(stream, s, delivered, "streaming", mishaps')
  BY <1>2, <1>7 DEF CutsAs
<1>9. ActiveAs(stream, "streaming", decoder, wire', "no")
  BY <1>1 DEF StreamInv, ActiveAs
<1> QED
  BY <1>1, <1>3, <1>5, <1>8, <1>9

\* An HTTP upstream sends a block.
LEMMA SendKeeps ==
    ASSUME AllPlain, StreamInv, Send
    PROVE  StreamInv'
<1>1. PICK b \in Blocks(Len(sent) + 1) : Produce(b)
  BY DEF Send
<1>2. IsBlock(stream.protocol, b)
  BY BlocksAre
<1>3. stream.source = "http" /\ pumped' = Len(sent') /\ wire' = wire \o Tokens(Len(sent'))
  BY DEF Send
<1>4. /\ CutsAs(stream, sent, delivered, phase, mishaps)'
      /\ ActiveAs(stream, phase, decoder, wire, ended)'
      /\ stream' = stream /\ delivered' = delivered /\ ended' = "no" /\ ended = "no"
      /\ phase' = "streaming" /\ phase = "streaming" /\ decoder' = decoder /\ buffer' = buffer
      /\ \A c, m : ReadSo(c, m) => Tracks(stream.protocol, sent', delivered, m, decoder)
  BY <1>1, <1>2, SentKeepsCuts
<1>5. /\ IsSeq(sent') /\ Len(sent') = Len(sent) + 1 /\ AreBlocks(stream.protocol, sent', Len(sent'))
      /\ mishaps' \in Nat /\ (mishaps' = 0 => LastEnds(stream.protocol, sent', Len(sent')))
  BY <1>1, <1>2, ProduceMore
<1>6. Plain(stream) /\ Length(stream) \in Nat /\ Cut(stream) \in Nat /\ Len(sent) \in Nat
  BY StateIs
<1>7. stream \in Streams /\ pumped = Len(sent)
  BY <1>3 DEF StreamInv, SentAs
<1>8. SentAs(stream, sent, pumped, mishaps, ended)'
  <2>1. SentAs(stream, sent', Len(sent'), mishaps', "no")
    BY <1>3, <1>5, <1>6, <1>7 DEF SentAs
  <2> QED
    BY <1>3, <1>4, <2>1
<1>9. PICK c, m : ReadSo(c, m)
  BY <1>4, ReadSoFar
<1>10. ReadsAt(stream, sent, delivered, ended, pumped, wire, buffer, decoder, c, m)'
  <2>1. /\ c \in Nat /\ c + Len(wire) <= pumped * Length(stream)
        /\ Carries(stream, wire, c) /\ HeldPos(stream, c, m, buffer, FALSE)
        /\ c + Len(wire) + Cut(stream) >= pumped * Length(stream)
        /\ c + Len(wire) = pumped * Length(stream)
    BY <1>4, <1>9 DEF ReadSo, ReadsAt
  <2>2. IsBlockOf(stream, Tokens(Len(sent) + 1), Len(sent) + 1)
    BY <1>6, TokensAre
  <2> DEFINE w == wire \o Tokens(Len(sent) + 1)
  <2>3. Carries(stream, w, c) /\ Len(w) = Len(wire) + Length(stream) /\ Len(wire) \in Nat
    BY <1>6, <1>7, <2>1, <2>2, CarriesMore
  <2>4. wire' = w
    BY <1>3, <1>5
  <2> HIDE DEF w
  <2>5. (Len(sent) + 1) * Length(stream) = Len(sent) * Length(stream) + Length(stream)
        /\ Len(sent) * Length(stream) \in Nat
    BY <1>6
  <2>6. c + Len(w) = (Len(sent) + 1) * Length(stream)
    BY <1>6, <1>7, <2>1, <2>3, <2>5
  <2>7. ReadsAt(stream, sent', delivered, "no", Len(sent) + 1, w, buffer, decoder, c, m)
    <3>1. c + Len(w) <= (Len(sent) + 1) * Length(stream) /\ c + Len(w) + Cut(stream) >= (Len(sent) + 1) * Length(stream)
      BY <1>6, <2>5, <2>6
    <3> QED
      BY <1>4, <1>9, <2>1, <2>3, <2>6, <3>1 DEF ReadsAt
  <2> QED
    BY <1>3, <1>4, <1>5, <2>4, <2>7
<1> QED
  BY <1>4, <1>8, <1>10 DEF StreamInv, Reading

\* A Claude Code process prints a line.
LEMMA PrintLineKeeps ==
    ASSUME AllPlain, StreamInv, PrintLine
    PROVE  StreamInv'
<1>1. PICK b \in Blocks(Len(sent) + 1) \cup {Result} : Produce(b)
  BY DEF PrintLine
<1>2. stream.source = "claude" /\ pumped' = pumped /\ wire' = wire /\ stream.protocol = "anthropic"
  <2>1. stream.source = "claude" /\ pumped' = pumped /\ wire' = wire /\ stream \in Streams
    BY DEF PrintLine, StreamInv, SentAs
  <2> QED
    BY <2>1, StreamIs
<1>3. IsBlock(stream.protocol, b)
  BY <1>2 DEF IsBlock
<1>4. /\ CutsAs(stream, sent, delivered, phase, mishaps)'
      /\ ActiveAs(stream, phase, decoder, wire, ended)'
      /\ stream' = stream /\ delivered' = delivered /\ ended' = "no" /\ ended = "no"
      /\ phase' = "streaming" /\ phase = "streaming" /\ decoder' = decoder /\ buffer' = buffer
      /\ \A c, m : ReadSo(c, m) => Tracks(stream.protocol, sent', delivered, m, decoder)
  BY <1>1, <1>3, SentKeepsCuts
<1>5. /\ IsSeq(sent') /\ Len(sent') = Len(sent) + 1 /\ AreBlocks(stream.protocol, sent', Len(sent'))
      /\ mishaps' \in Nat /\ (mishaps' = 0 => LastEnds(stream.protocol, sent', Len(sent')))
  BY <1>1, <1>3, ProduceMore
<1>6. Len(sent) \in Nat /\ pumped \in 0..Len(sent) /\ stream \in Streams
  BY StateIs DEF StreamInv, SentAs
<1>7. SentAs(stream, sent, pumped, mishaps, ended)'
  <2>1. SentAs(stream, sent', pumped, mishaps', "no")
    BY <1>2, <1>5, <1>6 DEF SentAs
  <2> QED
    BY <1>2, <1>4, <2>1
<1>8. PICK c, m : ReadSo(c, m)
  BY <1>4, ReadSoFar
<1>9. ReadsAt(stream, sent', delivered, "no", pumped, wire, buffer, decoder, c, m)
  BY <1>4, <1>8 DEF ReadSo, ReadsAt
<1>10. ReadsAt(stream, sent, delivered, ended, pumped, wire, buffer, decoder, c, m)'
  BY <1>2, <1>4, <1>9
<1> QED
  BY <1>4, <1>7, <1>10 DEF StreamInv, Reading

-----------------------------------------------------------------------------
(* What the body does. *)

\* The body ends, perhaps within its last line ends, or breaks.
LEMMA EndKeeps ==
    ASSUME AllPlain, StreamInv, End
    PROVE  StreamInv'
<1>1. /\ stream.source = "http" /\ phase = "streaming" /\ ended = "no"
      /\ UNCHANGED <<stream, sent, mishaps, pumped, buffer, decoder, delivered, phase>>
  BY DEF End
<1>2. Plain(stream) /\ Length(stream) \in Nat /\ Cut(stream) \in Nat /\ pumped \in Nat
  BY StateIs
<1>3. SentAs(stream, sent, pumped, mishaps, ended)'
  <2>1. ended' \in {"no", "eof", "broken"}
    BY DEF End
  <2>2. SentAs(stream, sent, pumped, mishaps, ended')
    BY <1>1, <2>1 DEF StreamInv, SentAs
  <2> QED
    BY <1>1, <2>2
<1>4. ActiveAs(stream, phase, decoder, wire, ended)'
  BY <1>1 DEF StreamInv, ActiveAs
<1>5. PICK c, m : ReadSo(c, m)
  BY <1>1, ReadSoFar
<1>6. /\ c \in Nat /\ Len(wire) \in Nat /\ c + Len(wire) = pumped * Length(stream)
      /\ Carries(stream, wire, c) /\ HeldPos(stream, c, m, buffer, FALSE)
      /\ Tracks(stream.protocol, sent, delivered, m, decoder)
  BY <1>1, <1>5 DEF ReadSo, ReadsAt
<1>7. pumped * Length(stream) \in Nat
  BY <1>2
<1>8. ReadsAt(stream, sent, delivered, ended', pumped, wire', buffer, decoder, c, m)
  <2>1. CASE ended' = "eof" /\ \E n \in 0..Len(wire) : n + 2 * Len(Eol) >= Len(wire) /\ wire' = SubSeq(wire, 1, n)
    <3>1. PICK n \in 0..Len(wire) : n + 2 * Len(Eol) >= Len(wire) /\ wire' = SubSeq(wire, 1, n)
      BY <2>1
    <3>2. 2 * Len(Eol) = Cut(stream)
      BY <1>2, TokensAre
    <3>3. Carries(stream, wire', c) /\ Len(wire') = n
      BY <1>6, <3>1, CarriesPart
    <3>4. n \in Nat /\ n <= Len(wire) /\ n + Cut(stream) >= Len(wire)
      BY <1>6, <3>1, <3>2
    <3>5. c + n <= pumped * Length(stream) /\ c + n + Cut(stream) >= pumped * Length(stream)
      BY <1>2, <1>6, <1>7, <3>4
    <3> QED
      BY <1>1, <1>6, <2>1, <3>3, <3>5 DEF ReadsAt
  <2>2. CASE ended' = "broken" /\ wire' = wire
    <3>1. c + Len(wire) + Cut(stream) >= pumped * Length(stream) /\ c + Len(wire) <= pumped * Length(stream)
      BY <1>2, <1>6, <1>7
    <3> QED
      BY <1>6, <2>2, <3>1 DEF ReadsAt
  <2> QED
    BY <2>1, <2>2 DEF End
<1>9. ReadsAt(stream, sent, delivered, ended, pumped, wire, buffer, decoder, c, m)'
  BY <1>1, <1>8
<1>10. Reading(stream, sent, delivered, ended, pumped, wire, buffer, decoder)'
  BY <1>9 DEF Reading
<1> QED
  BY <1>1, <1>3, <1>4, <1>10, SamePhase

\* The end of the body is not heard while there is something of it to read.
LEMMA ActiveAnyhow ==
    ASSUME NEW st, NEW ph, NEW d, NEW w, NEW end, ActiveAs(st, ph, d, w, end), end = "no", NEW v, NEW e
    PROVE  ActiveAs(st, ph, d, v, e)
BY DEF ActiveAs

\* pump reads a line.
LEMMA PumpKeeps ==
    ASSUME AllPlain, StreamInv, Pump
    PROVE  StreamInv'
<1>1. /\ ended = "no" /\ pumped < Len(sent)
      /\ UNCHANGED <<stream, sent, mishaps, buffer, decoder, delivered, phase>>
  BY DEF Pump
<1>2. /\ Plain(stream) /\ Length(stream) \in Nat /\ Cut(stream) \in Nat /\ pumped \in Nat
      /\ Len(sent) \in Nat /\ pumped \in 0..Len(sent)
  BY StateIs
<1>3. \/ pumped' = pumped /\ wire' = wire /\ ended' = "broken"
      \/ /\ pumped' = pumped + 1 /\ wire' = wire \o Tokens(pumped + 1)
         /\ ended' = IF sent[pumped + 1].type = "message_stop" THEN "eof" ELSE "no"
  BY DEF Pump
<1>4. SentAs(stream, sent, pumped, mishaps, ended)'
  <2>1. CASE pumped' = pumped /\ wire' = wire /\ ended' = "broken"
    <3>1. SentAs(stream, sent, pumped, mishaps, "broken")
      BY DEF StreamInv, SentAs
    <3> QED
      BY <1>1, <2>1, <3>1
  <2>2. CASE /\ pumped' = pumped + 1 /\ wire' = wire \o Tokens(pumped + 1)
             /\ ended' = IF sent[pumped + 1].type = "message_stop" THEN "eof" ELSE "no"
    <3>1. pumped + 1 \in 0..Len(sent) /\ pumped + 1 > 0
      BY <1>1, <1>2
    <3>2. stream.source # "http"
      BY <1>1, <1>2 DEF StreamInv, SentAs
    <3>3. ended' \in {"no", "eof"} /\ (ended' = "eof" => EndsAs("anthropic", sent[pumped + 1]))
      BY <2>2 DEF EndsAs
    <3>4. SentAs(stream, sent, pumped + 1, mishaps, ended')
      BY <3>1, <3>2, <3>3 DEF StreamInv, SentAs
    <3> QED
      BY <1>1, <2>2, <3>4
  <2> QED
    BY <1>3, <2>1, <2>2
<1>5. ASSUME phase \in {"streaming", "finishing"}
      PROVE  /\ ActiveAs(stream, phase, decoder, wire, ended)'
             /\ Reading(stream, sent, delivered, ended, pumped, wire, buffer, decoder)'
  <2>1. ActiveAs(stream, phase, decoder, wire', ended')
    BY <1>1, <1>5, ActiveAnyhow DEF StreamInv
  <2>2. PICK c, m : ReadSo(c, m)
    BY <1>5, ReadSoFar
  <2>3. /\ c \in Nat /\ Len(wire) \in Nat /\ c + Len(wire) = pumped * Length(stream)
        /\ Carries(stream, wire, c) /\ HeldPos(stream, c, m, buffer, FALSE)
        /\ Tracks(stream.protocol, sent, delivered, m, decoder)
    BY <1>1, <2>2 DEF ReadSo, ReadsAt
  <2>4. /\ pumped * Length(stream) \in Nat /\ (pumped + 1) * Length(stream) = pumped * Length(stream) + Length(stream)
    BY <1>2
  <2>5. ReadsAt(stream, sent, delivered, ended', pumped', wire', buffer, decoder, c, m)
    <3>1. CASE pumped' = pumped /\ wire' = wire /\ ended' = "broken"
      <4>1. c + Len(wire) + Cut(stream) >= pumped * Length(stream) /\ c + Len(wire) <= pumped * Length(stream)
        BY <1>2, <2>3, <2>4
      <4> QED
        BY <2>3, <3>1, <4>1 DEF ReadsAt
    <3>2. CASE pumped' = pumped + 1 /\ wire' = wire \o Tokens(pumped + 1)
      <4>1. IsBlockOf(stream, Tokens(pumped + 1), pumped + 1)
        BY <1>2, TokensAre
      <4> DEFINE w == wire \o Tokens(pumped + 1)
      <4>2. Carries(stream, w, c) /\ Len(w) = Len(wire) + Length(stream)
        BY <1>2, <2>3, <4>1, CarriesMore
      <4>3. wire' = w
        BY <3>2
      <4> HIDE DEF w
      <4>4. c + Len(w) = (pumped + 1) * Length(stream)
        BY <1>2, <2>3, <2>4, <4>2
      <4>5. c + Len(w) <= (pumped + 1) * Length(stream) /\ c + Len(w) + Cut(stream) >= (pumped + 1) * Length(stream)
        BY <1>2, <2>4, <4>4
      <4> QED
        BY <2>3, <3>2, <4>2, <4>3, <4>4, <4>5 DEF ReadsAt
    <3> QED
      BY <1>3, <3>1, <3>2
  <2>6. Reading(stream, sent, delivered, ended', pumped', wire', buffer, decoder)
    BY <2>5 DEF Reading
  <2> QED
    BY <1>1, <2>1, <2>6
<1> QED
  BY <1>1, <1>4, <1>5, SamePhase

\* The process stops printing.
LEMMA PumpFailsKeeps ==
    ASSUME AllPlain, StreamInv, PumpFails
    PROVE  StreamInv'
<1>1. /\ ended = "no" /\ ended' = "broken"
      /\ UNCHANGED <<stream, sent, mishaps, pumped, wire, buffer, decoder, delivered, phase>>
  BY DEF PumpFails
<1>2. SentAs(stream, sent, pumped, mishaps, "broken")
  BY DEF StreamInv, SentAs
<1>3. SentAs(stream, sent, pumped, mishaps, ended)'
  BY <1>1, <1>2
<1>4. ASSUME phase \in {"streaming", "finishing"}
      PROVE  /\ ActiveAs(stream, phase, decoder, wire, ended)'
             /\ Reading(stream, sent, delivered, ended, pumped, wire, buffer, decoder)'
  <2>1. ActiveAs(stream, phase, decoder, wire, "broken")
    BY <1>1, <1>4, ActiveAnyhow DEF StreamInv
  <2>2. PICK c, m : ReadsAt(stream, sent, delivered, ended, pumped, wire, buffer, decoder, c, m)
    BY <1>4 DEF StreamInv, Reading
  <2>3. ReadsAt(stream, sent, delivered, "broken", pumped, wire, buffer, decoder, c, m)
    BY <1>1, <2>2 DEF ReadsAt
  <2>4. Reading(stream, sent, delivered, "broken", pumped, wire, buffer, decoder)
    BY <2>3 DEF Reading
  <2> QED
    BY <1>1, <2>1, <2>4
<1> QED
  BY <1>1, <1>3, <1>4, SamePhase

\* Neither is the process anything the session looks at.
LEMMA KillKeeps ==
    ASSUME StreamInv,
           UNCHANGED <<stream, sent, mishaps, pumped, ended, wire, buffer, decoder, delivered, phase>>
    PROVE  StreamInv'
<1>1. SentAs(stream, sent, pumped, mishaps, ended)'
  BY DEF StreamInv
<1>2. phase \in {"streaming", "finishing"} =>
              /\ ActiveAs(stream, phase, decoder, wire, ended)'
              /\ Reading(stream, sent, delivered, ended, pumped, wire, buffer, decoder)'
  BY DEF StreamInv
<1> QED
  BY <1>1, <1>2, SamePhase

-----------------------------------------------------------------------------
(* What the session does. *)

\* The errors of the decoders.
LEMMA ErrorIs ==
    ASSUME NEW protocol \in Protocols, NEW d, IsDecoder(protocol, d)
    PROVE  ErrorAs(protocol, d) \in {"none", "InvalidStream", "StreamStateLimit"}
<1>1. CASE protocol = "chat"
  BY <1>1 DEF IsDecoder, ErrorAs, InnerAs, Emitter
<1>2. CASE protocol = "anthropic"
  BY <1>2 DEF IsDecoder, ErrorAs, InnerAs, Anthropic, Emitter
<1>3. CASE protocol = "responses"
  BY <1>3 DEF IsDecoder, ErrorAs, InnerAs, Responses
<1> QED
  BY <1>1, <1>2, <1>3 DEF Protocols

\* A buffer of any data leaves a decoder.
LEMMA BlockIsDecoder ==
    ASSUME NEW protocol \in Protocols, NEW n \in Nat, NEW blocks, AreBlocks(protocol, blocks, n),
           NEW d, IsDecoder(protocol, d), NEW tokens
    PROVE  IsDecoder(protocol, BlockAs(protocol, blocks, d, tokens))
<1> DEFINE whole == {k \in DOMAIN blocks : Data(tokens) = DataOf(k)}
           j     == CHOOSE k \in whole : TRUE
<1>1. IsDecoder(protocol, InvalidAs(protocol, d))
  <2>1. Commutes(protocol, <<>>, InvalidAs(protocol, d), InvalidAs(protocol, ToldAs(protocol, <<>>, d)))
    BY InvalidCommutes, Short
  <2> QED
    BY <2>1 DEF Commutes
<1>2. ASSUME whole # {} PROVE IsDecoder(protocol, ParseAs(protocol, d, blocks[j]))
  <2>1. j \in whole
    BY <1>2
  <2>2. IsBlock(protocol, blocks[j])
    BY <2>1 DEF AreBlocks
  <2> HIDE DEF j
  <2> QED
    BY <2>2, ParseGrows
<1>3. BlockAs(protocol, blocks, d, tokens) \in
         {d, InvalidAs(protocol, d)} \cup {ParseAs(protocol, d, blocks[k]) : k \in {i \in {j} : whole # {}}}
  BY DEF BlockAs
<1> HIDE DEF j, whole
<1> QED
  BY <1>1, <1>2, <1>3

\* More blocks have more tokens.
LEMMA PlacesGrow ==
    ASSUME NEW st, NEW n \in Nat, NEW k \in 0..n
    PROVE  k * Length(st) <= n * Length(st) /\ k * Length(st) \in Nat /\ n * Length(st) \in Nat
<1>1. CASE Length(st) = 4
  BY <1>1
<1>2. CASE Length(st) = 5
  BY <1>2
<1>3. CASE Length(st) = 6
  BY <1>3
<1> QED
  BY <1>1, <1>2, <1>3 DEF Length

\* A frame is a part of the wire.
LEMMA FramesAre ==
    ASSUME AllPlain, StreamInv, IsSeq(wire), NEW n \in Frames, n <= Len(wire)
    PROVE  n \in 0..Len(wire)
<1>1. Len(wire) \in Nat /\ MaxFrame \in Nat
  BY SeqDomain, StreamAssumption
<1>2. Plain(stream)
  BY StateIs
<1>3. CASE stream.source = "claude"
  <2>1. IsBlockOf(stream, Tokens(1), 1)
    BY <1>2, TokensAre
  <2>2. Len(Tokens(1)) \in Nat
    BY <2>1 DEF IsBlockOf, Length
  <2> QED
    BY <1>1, <1>3, <2>2 DEF Frames
<1>4. CASE stream.source # "claude"
  <2>1. n \in 1..(IF Len(wire) < MaxFrame THEN Len(wire) ELSE MaxFrame)
    BY <1>4 DEF Frames
  <2> QED
    BY <1>1, <2>1
<1> QED
  BY <1>3, <1>4

\* The session reads a frame: what it tells is told of the same blocks.
LEMMA ReadFrameKeeps ==
    ASSUME AllPlain, StreamInv, ReadFrame
    PROVE  StreamInv'
<1>1. /\ phase = "streaming"
      /\ UNCHANGED <<stream, sent, mishaps, pumped, ended>>
  BY DEF ReadFrame
<1>2. PICK n \in Frames : n <= Len(wire) /\ Push(n)
  BY DEF ReadFrame
<1>3. /\ stream.protocol \in Protocols /\ Plain(stream) /\ Length(stream) \in Nat /\ Cut(stream) \in Nat
      /\ IsSeq(sent) /\ Len(sent) \in Nat /\ AreBlocks(stream.protocol, sent, Len(sent))
      /\ pumped \in 0..Len(sent) /\ pumped \in Nat /\ IsSeq(delivered)
  BY StateIs
<1>4. PICK c, m : ReadSo(c, m)
  BY <1>1, ReadSoFar
<1>5. /\ c \in Nat /\ Len(wire) \in Nat /\ IsSeq(wire)
      /\ c + Len(wire) <= pumped * Length(stream) /\ c + Len(wire) + Cut(stream) >= pumped * Length(stream)
      /\ ended # "eof" \/ stream.source = "claude" => c + Len(wire) = pumped * Length(stream)
      /\ Carries(stream, wire, c) /\ HeldPos(stream, c, m, buffer, FALSE)
      /\ Tracks(stream.protocol, sent, delivered, m, decoder)
  BY <1>4 DEF ReadSo, ReadsAt
<1>6. n \in 0..Len(wire) /\ n \in Nat
  <2>1. n \in 0..Len(wire)
    BY <1>2, <1>5, FramesAre
  <2> QED
    BY <1>5, <2>1
<1> DEFINE data  == SubSeq(wire, 1, n)
           rest  == SubSeq(wire, n + 1, Len(wire))
           split == SplitBlocks(normalize_newlines(buffer \o data))
           d     == FoldLeft(parse_block, decoder, split.blocks)
<1>7. /\ Carries(stream, data, c) /\ Len(data) = n
      /\ Carries(stream, rest, c + n) /\ Len(rest) = Len(wire) - n
  BY <1>5, <1>6, CarriesPart
<1>8. c + n <= Len(sent) * Length(stream)
  <2>1. pumped * Length(stream) <= Len(sent) * Length(stream) /\ pumped * Length(stream) \in Nat
        /\ Len(sent) * Length(stream) \in Nat
    BY <1>3, PlacesGrow
  <2> QED
    BY <1>5, <1>6, <2>1
<1>9. Pushed(c + n, delivered, split.rest, d)
  <2> HIDE DEF data
  <2>1. IsSeq(data) /\ \A i \in 1..Len(data) : data[i] = TokenAt(stream, c + i - 1)
    BY <1>7 DEF Carries
  <2>2. c + Len(data) <= Len(sent) * Length(stream)
    BY <1>7, <1>8
  <2>3. Pushed(c + Len(data), delivered, split.rest, d)
    BY <1>3, <1>5, <2>1, <2>2, PushTracks
  <2> HIDE DEF split, d
  <2> QED
    BY <1>7, <2>3
<1>10. \/ Over("StreamBufferLimit") /\ delivered' = delivered
       \/ Error(d) # "none" /\ Over(Error(d)) /\ delivered' = delivered
       \/ /\ Error(d) = "none"
          /\ phase' = IF Inner(d).terminal THEN "finishing" ELSE phase
          /\ wire' = rest /\ buffer' = split.rest /\ decoder' = Drained(d)
          /\ delivered' = delivered \o Pending(d)
  BY <1>2 DEF Push
<1> HIDE DEF data, rest, split, d
<1>11. PICK l : HeldPos(stream, c + n, l, split.rest, FALSE) /\ Tracks(stream.protocol, sent, delivered, l, d)
  BY <1>9 DEF Pushed
<1>12. l \in 0..Len(sent)
  <2>1. c + n \in Nat
    BY <1>5, <1>6
  <2> QED
    BY <1>3, <1>8, <1>11, <2>1, HeldBounded
<1>13. IsDecoder(stream.protocol, d)
  BY <1>11 DEF Tracks
<1>14. /\ Error(d) = ErrorAs(stream.protocol, d) /\ Pending(d) = PendingAs(stream.protocol, d)
       /\ Inner(d).terminal = Terminal(stream.protocol, d) /\ Drained(d) = DrainedAs(stream.protocol, d)
  BY DEF Error, Pending, Inner, Drained, ErrorAs, PendingAs, Terminal, DrainedAs, InnerAs
<1>15. /\ IsSeq(delivered \o PendingAs(stream.protocol, d))
       /\ Extends(delivered \o PendingAs(stream.protocol, d),
                  PendingAs(stream.protocol, UncutAs(stream.protocol, sent, Len(sent))))
       /\ ErrorAs(stream.protocol, d) # "none" =>
             ErrorAs(stream.protocol, UncutAs(stream.protocol, sent, Len(sent))) # "none"
  BY <1>3, <1>11, <1>12, ToldIsPrefix
<1>16. CASE Over("StreamBufferLimit") /\ delivered' = delivered
  <2>1. phase' = "StreamBufferLimit"
    BY <1>16 DEF Over
  <2> QED
    BY <1>1, <1>16, <2>1, OverKeeps
<1>17. CASE Error(d) # "none" /\ Over(Error(d)) /\ delivered' = delivered
  <2>1. phase' = ErrorAs(stream.protocol, d) /\ ErrorAs(stream.protocol, d) # "none"
    BY <1>14, <1>17 DEF Over
  <2>2. ErrorAs(stream.protocol, d) \in {"none", "InvalidStream", "StreamStateLimit"}
    BY <1>3, <1>13, ErrorIs
  <2> QED
    BY <1>1, <1>15, <1>17, <2>1, <2>2, OverKeeps
<1>18. CASE /\ Error(d) = "none"
            /\ phase' = IF Inner(d).terminal THEN "finishing" ELSE phase
            /\ wire' = rest /\ buffer' = split.rest /\ decoder' = Drained(d)
            /\ delivered' = delivered \o Pending(d)
  <2> DEFINE told == delivered \o PendingAs(stream.protocol, d)
             e    == DrainedAs(stream.protocol, d)
  <2>1. /\ IsDecoder(stream.protocol, e) /\ ErrorAs(stream.protocol, e) = ErrorAs(stream.protocol, d)
        /\ Terminal(stream.protocol, e) = Terminal(stream.protocol, d)
        /\ ToldAs(stream.protocol, told, e) = ToldAs(stream.protocol, delivered, d)
    BY <1>3, <1>13, DrainReads
  <2>2. Tracks(stream.protocol, sent, told, l, e)
    BY <1>11, <2>1 DEF Tracks
  <2>3. delivered' = told /\ decoder' = e /\ phase' \in {"streaming", "finishing"}
    BY <1>1, <1>14, <1>18
  <2> HIDE DEF told, e
  <2>4. CutsAs(stream, sent, told, phase', mishaps)
    BY <1>15, <2>3 DEF CutsAs, told
  <2>5. ActiveAs(stream, phase', e, rest, ended)
    BY <1>1, <1>14, <1>18, <2>1 DEF ActiveAs
  <2>6. ReadsAt(stream, sent, told, ended, pumped, rest, split.rest, e, c + n, l)
    <3>1. c + n \in Nat /\ (c + n) + Len(rest) = c + Len(wire)
      BY <1>5, <1>6, <1>7
    <3> QED
      BY <1>5, <1>7, <1>11, <2>2, <3>1 DEF ReadsAt
  <2>7. Reading(stream, sent, told, ended, pumped, rest, split.rest, e)
    BY <2>6 DEF Reading
  <2>8. SentAs(stream, sent, pumped, mishaps, ended)'
    BY <1>1 DEF StreamInv
  <2> QED
    BY <1>1, <1>18, <2>3, <2>4, <2>5, <2>7, <2>8 DEF StreamInv
<1> QED
  BY <1>10, <1>16, <1>17, <1>18

\* The session reads the end of the body, or that it broke.
LEMMA ReadEndKeeps ==
    ASSUME AllPlain, StreamInv, ReadEnd
    PROVE  StreamInv'
<1>1. /\ phase = "streaming" /\ wire = <<>> /\ ended # "no"
      /\ UNCHANGED <<stream, sent, mishaps, pumped, ended, delivered>>
  BY DEF ReadEnd
<1>2. CASE ended = "broken"
  <2>1. phase' = "Transport"
    BY <1>2 DEF ReadEnd, Over
  <2> QED
    BY <1>1, <2>1, OverKeeps
<1>3. CASE ended # "broken"
  <2>1. phase' = "finishing" /\ UNCHANGED <<wire, buffer, decoder>>
    BY <1>3 DEF ReadEnd
  <2>2. ended = "eof"
    BY <1>1, <1>3 DEF StreamInv, SentAs
  <2>3. SentAs(stream, sent, pumped, mishaps, ended)'
    BY <1>1 DEF StreamInv
  <2>4. CutsAs(stream, sent, delivered, "finishing", mishaps)
    BY DEF StreamInv, CutsAs
  <2>5. ActiveAs(stream, "finishing", decoder, wire, ended)
    BY <1>1, <2>2 DEF StreamInv, ActiveAs
  <2>6. Reading(stream, sent, delivered, ended, pumped, wire, buffer, decoder)
    BY <1>1 DEF StreamInv
  <2> QED
    BY <1>1, <2>1, <2>3, <2>4, <2>5, <2>6 DEF StreamInv
<1> QED
  BY <1>2, <1>3

\* The session stops.
LEMMA StopKeeps ==
    ASSUME AllPlain, StreamInv, Over("stopped"), UNCHANGED <<stream, sent, mishaps, pumped, ended, delivered>>
    PROVE  StreamInv'
<1>1. phase' = "stopped"
  BY DEF Over
<1> QED
  BY <1>1, OverKeeps

\* finish: a lawful stream is told of whole, or fails as its blocks do.
LEMMA FinishBodyKeeps ==
    ASSUME AllPlain, StreamInv, FinishBody
    PROVE  StreamInv'
<1> DEFINE protocol == stream.protocol
           d == Flushed(parse_block(decoder, buffer))
           u == UncutAs(protocol, sent, Len(sent))
<1>1. phase = "finishing" /\ UNCHANGED <<stream, sent, mishaps, pumped, ended>>
  BY DEF FinishBody
<1>2. \/ Error(d) # "none" /\ Over(Error(d)) /\ delivered' = delivered
      \/ /\ Error(d) = "none" /\ Over(IF Inner(d).terminal THEN "done" ELSE "InvalidStream")
         /\ delivered' = delivered \o Pending(d)
  BY DEF FinishBody
<1>3. /\ protocol \in Protocols /\ Plain(stream) /\ Length(stream) \in Nat /\ Cut(stream) \in Nat
      /\ IsSeq(sent) /\ Len(sent) \in Nat /\ AreBlocks(protocol, sent, Len(sent))
      /\ pumped \in 0..Len(sent) /\ pumped \in Nat /\ IsSeq(delivered)
      /\ mishaps \in Nat /\ (mishaps = 0 => LastEnds(protocol, sent, Len(sent)))
  BY StateIs
<1>4. d = FlushedAs(protocol, BlockAs(protocol, sent, decoder, buffer))
  BY AsTheDecoderDoes
<1> HIDE DEF d
<1>5. /\ Error(d) = ErrorAs(protocol, d) /\ Pending(d) = PendingAs(protocol, d)
      /\ Inner(d).terminal = Terminal(protocol, d)
  BY DEF Error, Pending, Inner, ErrorAs, PendingAs, Terminal, InnerAs
<1>6. PICK c, m : ReadSo(c, m)
  BY <1>1, ReadSoFar
<1>7. /\ c \in Nat /\ Len(wire) \in Nat
      /\ c + Len(wire) <= pumped * Length(stream) /\ c + Len(wire) + Cut(stream) >= pumped * Length(stream)
      /\ HeldPos(stream, c, m, buffer, FALSE) /\ Tracks(protocol, sent, delivered, m, decoder)
  BY <1>6 DEF ReadSo, ReadsAt
<1>8. IsDecoder(protocol, d)
  <2>1. IsDecoder(protocol, decoder)
    BY <1>7 DEF Tracks
  <2>2. IsDecoder(protocol, BlockAs(protocol, sent, decoder, buffer))
    BY <1>3, <2>1, BlockIsDecoder
  <2> QED
    BY <1>3, <1>4, <2>2, FlushGrows
<1>9. Terminal(protocol, decoder) \/ (wire = <<>> /\ ended = "eof")
  BY <1>1 DEF StreamInv, ActiveAs
<1>10. ErrorAs(protocol, decoder) = "none"
  BY <1>1 DEF StreamInv, ActiveAs
<1>11. ASSUME NEW lawful \in BOOLEAN, lawful => LastEnds(protocol, sent, Len(sent))
       PROVE  EndsWell(protocol, sent, Len(sent), delivered, d, lawful)
  <2>1. CASE Terminal(protocol, decoder)
    <3>1. c <= Len(sent) * Length(stream)
      <4>1. pumped * Length(stream) <= Len(sent) * Length(stream) /\ pumped * Length(stream) \in Nat
            /\ Len(sent) * Length(stream) \in Nat
        BY <1>3, PlacesGrow
      <4> QED
        BY <1>7, <4>1
    <3> QED
      BY <1>3, <1>4, <1>7, <1>10, <1>11, <2>1, <3>1, EndOfTerminal
  <2>2. CASE wire = <<>> /\ ended = "eof"
    <3>1. Len(wire) = 0
      BY <2>2
    <3>2. c <= pumped * Length(stream) /\ c + Cut(stream) >= pumped * Length(stream)
      <4>1. pumped * Length(stream) \in Nat
        BY <1>3
      <4> QED
        BY <1>3, <1>7, <3>1, <4>1
    <3>3. pumped = Len(sent) \/ (protocol = "anthropic" /\ pumped > 0 /\ EndsAs(protocol, sent[pumped]))
      <4>1. stream \in Streams /\ (stream.source = "http" => pumped = Len(sent))
            /\ (stream.source = "claude" => pumped > 0 /\ EndsAs("anthropic", sent[pumped]))
        BY <2>2 DEF StreamInv, SentAs
      <4>2. stream.source \in {"http", "claude"} /\ (stream.source = "claude" => protocol = "anthropic")
        BY <4>1, StreamIs
      <4> QED
        BY <4>1, <4>2
    <3> QED
      BY <1>3, <1>4, <1>7, <1>11, <3>2, <3>3, EndOfBody
  <2> QED
    BY <1>9, <2>1, <2>2
<1>12. EndsWell(protocol, sent, Len(sent), delivered, d, FALSE)
  BY <1>11
<1>13. mishaps = 0 => EndsWell(protocol, sent, Len(sent), delivered, d, TRUE)
  BY <1>3, <1>11
<1> HIDE DEF u
<1>14. /\ ErrorAs(protocol, d) # "none" \/ Extends(delivered \o PendingAs(protocol, d), PendingAs(protocol, u))
       /\ IsSeq(PendingAs(protocol, d))
       /\ mishaps = 0 => /\ ErrorAs(protocol, u) = ErrorAs(protocol, d)
                         /\ PendingAs(protocol, u) = delivered \o PendingAs(protocol, d)
                         /\ Terminal(protocol, u) = Terminal(protocol, d)
  BY <1>12, <1>13 DEF EndsWell, u
<1>15. CASE Error(d) # "none" /\ Over(Error(d)) /\ delivered' = delivered
  <2>1. phase' = ErrorAs(protocol, d) /\ ErrorAs(protocol, d) # "none"
    BY <1>5, <1>15 DEF Over
  <2>2. ErrorAs(protocol, d) \in {"none", "InvalidStream", "StreamStateLimit"}
    BY <1>3, <1>8, ErrorIs
  <2> QED
    BY <1>1, <1>14, <1>15, <2>1, <2>2, OverKeeps DEF u
<1>16. CASE /\ Error(d) = "none" /\ Over(IF Inner(d).terminal THEN "done" ELSE "InvalidStream")
            /\ delivered' = delivered \o Pending(d)
  <2> DEFINE told == delivered \o PendingAs(protocol, d)
  <2>1. phase' = (IF Terminal(protocol, d) THEN "done" ELSE "InvalidStream") /\ delivered' = told
    BY <1>5, <1>16 DEF Over
  <2>2. IsSeq(told) /\ Extends(told, PendingAs(protocol, u))
    BY <1>3, <1>5, <1>14, <1>16, Joined
  <2>3. CutsAs(stream, sent, told, phase', mishaps)
    BY <1>5, <1>14, <1>16, <2>1, <2>2 DEF CutsAs, u
  <2> HIDE DEF told
  <2>4. SentAs(stream, sent, pumped, mishaps, ended)'
    BY <1>1 DEF StreamInv
  <2>5. phase' \notin {"streaming", "finishing"}
    BY <2>1
  <2> QED
    BY <1>1, <2>1, <2>3, <2>4, <2>5 DEF StreamInv
<1> QED
  BY <1>2, <1>15, <1>16

-----------------------------------------------------------------------------

\* What StreamInv keeps is what the run checks (CutsAreInvisible).
LEMMA InvIsEnough ==
    ASSUME AllPlain, StreamInv
    PROVE  CutsAreInvisible
<1> DEFINE protocol == stream.protocol
           u == UncutAs(protocol, sent, Len(sent))
<1>1. protocol \in Protocols /\ IsSeq(sent) /\ Len(sent) \in Nat
  BY StateIs
<1>2. Uncut = u
  <2>1. DOMAIN sent = 1..Len(sent)
    BY <1>1, SeqDomain
  <2>2. FoldLeft(Parse, NewDecoder, sent) = After(protocol, sent, Len(sent))
    BY <1>1, <2>1, ParseFold, AsTheDecoderDoes DEF After, ParseOp
  <2> QED
    BY <2>2, AsTheDecoderDoes DEF Uncut, UncutAs
<1>3. /\ Error(Uncut) = ErrorAs(protocol, u) /\ Pending(Uncut) = PendingAs(protocol, u)
      /\ Inner(Uncut).terminal = Terminal(protocol, u)
  <2> HIDE DEF u
  <2> QED
    BY <1>2 DEF Error, Pending, Inner, ErrorAs, PendingAs, Terminal, InnerAs
<1>4. /\ IsSeq(delivered) /\ Extends(delivered, PendingAs(protocol, u))
      /\ phase = "done" /\ mishaps = 0 => ErrorAs(protocol, u) = "none" /\ delivered = PendingAs(protocol, u)
      /\ phase \in {"InvalidStream", "StreamStateLimit"} /\ mishaps = 0 =>
            ErrorAs(protocol, u) # "none" \/ ~ Terminal(protocol, u)
  BY DEF StreamInv, CutsAs
<1> HIDE DEF u
<1>5. IsPrefix(delivered, PendingAs(protocol, u))
  BY <1>4, ExtendsPrefix
<1> QED
  BY <1>3, <1>4, <1>5 DEF CutsAreInvisible, Lawful

\* Every step keeps StreamInv.
LEMMA NextKeeps ==
    ASSUME AllPlain, StreamInv, [Next]_vars
    PROVE  StreamInv'
<1>1. CASE Send
  BY <1>1, SendKeeps
<1>2. CASE End
  BY <1>2, EndKeeps
<1>3. CASE PrintLine
  BY <1>3, PrintLineKeeps
<1>4. CASE Pump
  BY <1>4, PumpKeeps
<1>5. CASE PumpFails
  BY <1>5, PumpFailsKeeps
<1>6. CASE Kill
  BY <1>6, KillKeeps DEF Kill
<1>7. CASE DropBody
  BY <1>7, KillKeeps DEF DropBody
<1>8. CASE ReadFrame
  BY <1>8, ReadFrameKeeps
<1>9. CASE ReadEnd
  BY <1>9, ReadEndKeeps
<1>10. CASE FinishBody
  BY <1>10, FinishBodyKeeps
<1>11. CASE IdleTimeout
  BY <1>11, StopKeeps DEF IdleTimeout
<1>12. CASE Interrupt
  BY <1>12, StopKeeps DEF Interrupt
<1>13. CASE PumpTimeout
  BY <1>13, PumpFailsKeeps DEF PumpTimeout
<1>14. CASE Chatter \/ PumpWaits \/ Ping \/ Drip \/ SessionWaits
  BY <1>14, KillKeeps DEF Chatter, PumpWaits, Ping, Drip, SessionWaits
<1>15. CASE UNCHANGED vars
  BY <1>15, KillKeeps DEF vars
<1> QED
  BY <1>1, <1>2, <1>3, <1>4, <1>5, <1>6, <1>7, <1>8, <1>9, <1>10, <1>11, <1>12, <1>13, <1>14, <1>15
  DEF Next

\* In every reachable state of a session whose streams are plain (AllPlain: data of two
\* lines does not come with lines that end in CR LF), for every bound of frames, buffer and
\* wire, the decoder is that of some number of whole blocks, the buffer holds the part of the
\* next one that was read, and what the client was told, with what is pending, is what those
\* blocks tell (push of the three decoders, collect_sse).
THEOREM StreamIsTracked ==
    ASSUME AllPlain
    PROVE  Spec => []StreamInv
<1>1. Init => StreamInv
  BY InitInv
<1>2. StreamInv /\ [Next]_vars => StreamInv'
  BY NextKeeps
<1> QED
  BY <1>1, <1>2, PTL DEF Spec

\* Where the frames end is invisible: the client is told a beginning of what the blocks tell,
\* of a lawful stream that ends well all of it, and such a stream fails only by its blocks
\* (CutsAreInvisible; push and finish of the three decoders, collect_sse).
THEOREM CutsStayInvisible ==
    ASSUME AllPlain
    PROVE  Spec => []CutsAreInvisible
<1>1. StreamInv => CutsAreInvisible
  BY InvIsEnough
<1>2. Spec => []StreamInv
  BY StreamIsTracked
<1> QED
  BY <1>1, <1>2, PTL

-----------------------------------------------------------------------------
(* The limits of the decoders. *)

ToolFields == {"id", "name", "arguments", "added"}

\* What an emitter without an error counts is what it holds, and within the limits.
Counted(s) ==
    /\ s.aggregate_bytes \in Nat /\ s.aggregate_bytes <= MaxBytes /\ s.usage_bytes \in Nat
    /\ IsSeq(s.text) /\ IsSeq(s.reasoning)
    /\ Len(s.text) + Len(s.reasoning) + s.usage_bytes <= s.aggregate_bytes
    /\ Cardinality(DOMAIN s.tools) <= MAX_STREAM_TOOL_CALLS
    /\ \A i \in DOMAIN s.tools :
          s.tools[i] = [f \in ToolFields |-> s.tools[i][f]] /\ Len(s.tools[i].id) \in {0, 1}

\* What an operation leaves when it does not fail.
Counts(t) == t.error = "none" => Counted(t)

Within(s) == Emitter(s) /\ Counts(s)

\* The limits are numbers.
LEMMA LimitsAre == MaxBytes \in Nat /\ MAX_STREAM_TOOL_CALLS \in Nat /\ MaxBuffer \in Nat
BY StreamAssumption

\* A new emitter holds nothing.
LEMMA NewWithin == Within(NewEmitter)
<1>1. /\ NewEmitter.aggregate_bytes = 0 /\ NewEmitter.usage_bytes = 0 /\ NewEmitter.text = <<>>
      /\ NewEmitter.reasoning = <<>> /\ NewEmitter.tools = <<>>
  BY DEF NewEmitter
<1>0. IsSeq(<<>>) /\ Cardinality({}) = 0
  BY Short, FS_EmptySet
<1>2. Len(<<>>) = 0 /\ DOMAIN <<>> = {} /\ 0 + 0 + 0 <= 0
  OBVIOUS
<1>3. Counted(NewEmitter)
  BY <1>0, <1>1, <1>2, LimitsAre DEF Counted
<1> QED
  BY <1>3, NewIs DEF Within, Counts

\* The counting fields are all that Counted looks at.
LEMMA CountsAlike ==
    ASSUME NEW s, Counted(s), NEW t, t.aggregate_bytes = s.aggregate_bytes, t.usage_bytes = s.usage_bytes,
           t.text = s.text, t.reasoning = s.reasoning, t.tools = s.tools
    PROVE  Counted(t)
BY DEF Counted

\* How the count may change.
LEMMA Fits ==
    ASSUME NEW a \in Nat, NEW b \in Nat, NEW u \in Nat, NEW g \in Nat, NEW n \in Nat, a + b + u <= g
    PROVE  /\ (a + n) + b + u <= g + n /\ a + (b + n) + u <= g + n /\ a + b + u <= g + n
           /\ g - u \in Nat /\ a + b + 1 <= (g - u) + 1 /\ g + n \in Nat
OBVIOUS

\* Counted, of plain numbers.
LEMMA CountsOf ==
    ASSUME NEW s, Counted(s), NEW t, t.tools = s.tools, IsSeq(t.text), IsSeq(t.reasoning),
           NEW g \in Nat, t.aggregate_bytes = g, g <= MaxBytes, NEW u \in Nat, t.usage_bytes = u,
           NEW a, Len(t.text) = a, NEW b, Len(t.reasoning) = b, a + b + u <= g
    PROVE  Counted(t)
BY DEF Counted

\* What Counted says of the numbers.
LEMMA CountedIs ==
    ASSUME NEW s, Counted(s)
    PROVE  /\ s.aggregate_bytes \in Nat /\ s.aggregate_bytes <= MaxBytes /\ s.usage_bytes \in Nat
           /\ IsSeq(s.text) /\ IsSeq(s.reasoning) /\ Len(s.text) \in Nat /\ Len(s.reasoning) \in Nat
           /\ Len(s.text) + Len(s.reasoning) + s.usage_bytes <= s.aggregate_bytes
BY SeqDomain DEF Counted

\* An emitter that fails is one with an error.
LEMMA FailWithin ==
    ASSUME NEW s, Emitter(s), NEW e \in {"InvalidStream", "StreamStateLimit"}
    PROVE  Fail(s, e).error # "none" /\ Emitter(Fail(s, e))
BY DEF Emitter, EmitterFields, Fail

\* emit leaves all that is counted.
LEMMA EmitReads ==
    ASSUME NEW s, Emitter(s), NEW e
    PROVE  /\ emit(s, e).aggregate_bytes = s.aggregate_bytes /\ emit(s, e).usage_bytes = s.usage_bytes
           /\ emit(s, e).text = s.text /\ emit(s, e).reasoning = s.reasoning /\ emit(s, e).tools = s.tools
           /\ emit(s, e).error = s.error
BY DEF Emitter, EmitterFields, emit

\* emit keeps the count.
LEMMA EmitCounts ==
    ASSUME NEW s, Emitter(s), Counts(s), NEW e
    PROVE  Counts(emit(s, e))
BY EmitReads, CountsAlike DEF Counts

\* reserve_aggregate_bytes adds what it is given, or fails.
LEMMA ReserveReads ==
    ASSUME NEW s, Emitter(s), s.error = "none", s.aggregate_bytes \in Nat, NEW n \in Nat,
           NEW r, r = reserve_aggregate_bytes(s, n)
    PROVE  /\ Emitter(r) /\ r.text = s.text /\ r.reasoning = s.reasoning /\ r.tools = s.tools
           /\ r.usage_bytes = s.usage_bytes
           /\ r.error = "none" => /\ r.aggregate_bytes = s.aggregate_bytes + n
                                  /\ r.aggregate_bytes \in Nat /\ r.aggregate_bytes <= MaxBytes
<1>1. CASE s.aggregate_bytes + n > MaxBytes
  <2>1. r = Fail(s, "StreamStateLimit")
    BY <1>1 DEF reserve_aggregate_bytes
  <2> QED
    BY <2>1 DEF Emitter, EmitterFields, Fail
<1>2. CASE ~ (s.aggregate_bytes + n > MaxBytes)
  <2>1. r = [s EXCEPT !.aggregate_bytes = @ + n]
    BY <1>2 DEF reserve_aggregate_bytes
  <2>2. s.aggregate_bytes + n \in Nat /\ s.aggregate_bytes + n <= MaxBytes
    BY <1>2, LimitsAre
  <2>3. r.aggregate_bytes = s.aggregate_bytes + n
    BY <2>1 DEF Emitter, EmitterFields
  <2>4. /\ Emitter(r) /\ r.text = s.text /\ r.reasoning = s.reasoning /\ r.tools = s.tools
        /\ r.usage_bytes = s.usage_bytes
    BY <2>1 DEF Emitter, EmitterFields
  <2> QED
    BY <2>2, <2>3, <2>4
<1> QED
  BY <1>1, <1>2

\* The length of two sequences joined.
LEMMA JoinedLength ==
    ASSUME NEW a, IsSeq(a), NEW b, IsSeq(b)
    PROVE  IsSeq(a \o b) /\ Len(a \o b) = Len(a) + Len(b) /\ Len(a) \in Nat /\ Len(b) \in Nat
<1> DEFINE c == a \o b
<1>1. Joins(a, b, c)
  BY JoinReads
<1> HIDE DEF c
<1>2. IsSeq(c) /\ Len(c) = Len(a) + Len(b) /\ Len(a) \in Nat /\ Len(b) \in Nat
  BY <1>1 DEF Joins
<1> QED
  BY <1>2 DEF c

\* Only what is pending, and what was started, is changed by the start of an item.
LEMMA StartReads ==
    ASSUME NEW s, Emitter(s), NEW t, t = start_text(s) \/ t = start_reasoning(s)
    PROVE  /\ t.aggregate_bytes = s.aggregate_bytes /\ t.usage_bytes = s.usage_bytes
           /\ t.text = s.text /\ t.reasoning = s.reasoning /\ t.tools = s.tools
           /\ t.error = s.error /\ Emitter(t)
<1>0. IsSeq(<<>>)
  BY Short
<1>1. Moves(<<>>, s, start_text(s), start_text(Told(<<>>, s)))
  BY <1>0, StartTextMoves
<1>2. Moves(<<>>, s, start_reasoning(s), start_reasoning(Told(<<>>, s)))
  BY <1>0, StartReasoningMoves
<1>3. Emitter(t)
  BY <1>1, <1>2 DEF Moves, Goes
<1>4. CASE t = start_text(s)
  <2> DEFINE x == [s EXCEPT !.text_started = TRUE]
             e == <<ItemEvent("item.added", Message, message_output_index(s), <<>>),
                    ItemEvent("part.added", Message, message_output_index(s), <<>>)>>
  <2>1. t = IF s.text_started THEN s ELSE emit(x, e)
    BY <1>4 DEF start_text
  <2> HIDE DEF e
  <2>2. /\ x.aggregate_bytes = s.aggregate_bytes /\ x.usage_bytes = s.usage_bytes /\ x.error = s.error
        /\ x.text = s.text /\ x.reasoning = s.reasoning /\ x.tools = s.tools /\ Emitter(x)
    BY DEF Emitter, EmitterFields
  <2> HIDE DEF x
  <2> QED
    BY <1>3, <2>1, <2>2, EmitReads
<1>5. CASE t = start_reasoning(s)
  <2> DEFINE x == [s EXCEPT !.reasoning_started = TRUE]
             e == <<ItemEvent("item.added", Reasoning, 0, <<>>), ItemEvent("part.added", Reasoning, 0, <<>>)>>
  <2>1. t = IF s.reasoning_started THEN s ELSE emit(x, e)
    BY <1>5 DEF start_reasoning
  <2> HIDE DEF e
  <2>2. /\ x.aggregate_bytes = s.aggregate_bytes /\ x.usage_bytes = s.usage_bytes /\ x.error = s.error
        /\ x.text = s.text /\ x.reasoning = s.reasoning /\ x.tools = s.tools /\ Emitter(x)
    BY DEF Emitter, EmitterFields
  <2> HIDE DEF x
  <2> QED
    BY <1>3, <2>1, <2>2, EmitReads
<1> QED
  BY <1>3, <1>4, <1>5

\* The start of a response keeps the count.
LEMMA StartCounts ==
    ASSUME NEW s, Emitter(s), s.error = "none", Counted(s), NEW id, Len(id) \in Nat
    PROVE  Counts(Start(s, id))
<1> DEFINE r == reserve_aggregate_bytes(s, Len(id))
           t == [r EXCEPT !.response_id = id]
<1>1. s.aggregate_bytes \in Nat
  BY DEF Counted
<1>2. /\ Emitter(r) /\ r.text = s.text /\ r.reasoning = s.reasoning /\ r.tools = s.tools
      /\ r.usage_bytes = s.usage_bytes
      /\ r.error = "none" => /\ r.aggregate_bytes = s.aggregate_bytes + Len(id)
                             /\ r.aggregate_bytes \in Nat /\ r.aggregate_bytes <= MaxBytes
  BY <1>1, ReserveReads
<1>3. Start(s, id) = IF s.response_id # <<>> THEN s
                     ELSE emit(t, <<ItemEvent("created", Item("response", id), 0, <<>>)>>)
  BY DEF Start
<1> HIDE DEF r
<1>4. Counts(r)
  <2> SUFFICES ASSUME r.error = "none" PROVE Counted(r)
    BY DEF Counts
  <2>1. Len(s.text) + Len(s.reasoning) + s.usage_bytes <= s.aggregate_bytes + Len(id)
        /\ s.aggregate_bytes + Len(id) \in Nat
    BY CountedIs, Fits
  <2>2. /\ r.aggregate_bytes = s.aggregate_bytes + Len(id) /\ s.aggregate_bytes + Len(id) <= MaxBytes
        /\ r.text = s.text /\ r.reasoning = s.reasoning /\ r.tools = s.tools /\ r.usage_bytes = s.usage_bytes
    BY <1>2
  <2> QED
    BY <2>1, <2>2, CountedIs, CountsOf
<1>5. /\ Emitter(t) /\ t.aggregate_bytes = r.aggregate_bytes /\ t.usage_bytes = r.usage_bytes
      /\ t.text = r.text /\ t.reasoning = r.reasoning /\ t.tools = r.tools /\ t.error = r.error
  BY <1>2 DEF Emitter, EmitterFields
<1> HIDE DEF t
<1>6. Counts(t)
  BY <1>4, <1>5, CountsAlike DEF Counts
<1>7. Counts(emit(t, <<ItemEvent("created", Item("response", id), 0, <<>>)>>))
  BY <1>5, <1>6, EmitCounts
<1> QED
  BY <1>3, <1>7 DEF Counts

\* The usage takes back what the one before it counted.
LEMMA UsageCounts ==
    ASSUME NEW s, Emitter(s), s.error = "none", Counted(s)
    PROVE  Counts(Usage(s))
<1> DEFINE a == [s EXCEPT !.aggregate_bytes = @ - s.usage_bytes]
           r == reserve_aggregate_bytes(a, 1)
           t == [r EXCEPT !.usage_bytes = 1]
<1>1. Usage(s) = t
  BY DEF Usage, resize_aggregate_bytes
<1>2. /\ Emitter(a) /\ a.error = "none" /\ a.text = s.text /\ a.reasoning = s.reasoning /\ a.tools = s.tools
      /\ a.aggregate_bytes = s.aggregate_bytes - s.usage_bytes
  BY DEF Emitter, EmitterFields
<1>3. /\ s.aggregate_bytes - s.usage_bytes \in Nat
      /\ Len(s.text) + Len(s.reasoning) + 1 <= (s.aggregate_bytes - s.usage_bytes) + 1
  BY CountedIs, Fits
<1>4. a.aggregate_bytes \in Nat /\ Len(s.text) + Len(s.reasoning) + 1 <= a.aggregate_bytes + 1
  BY <1>2, <1>3
<1> HIDE DEF a
<1>5. /\ Emitter(r) /\ r.text = a.text /\ r.reasoning = a.reasoning /\ r.tools = a.tools
      /\ r.error = "none" => /\ r.aggregate_bytes = a.aggregate_bytes + 1
                             /\ r.aggregate_bytes \in Nat /\ r.aggregate_bytes <= MaxBytes
  BY <1>2, <1>4, ReserveReads
<1> HIDE DEF r
<1>6. /\ t.usage_bytes = 1 /\ t.aggregate_bytes = r.aggregate_bytes /\ t.error = r.error
      /\ t.text = r.text /\ t.reasoning = r.reasoning /\ t.tools = r.tools
  BY <1>5 DEF Emitter, EmitterFields
<1> HIDE DEF t
<1>7. ASSUME t.error = "none" PROVE Counted(t)
  <2>1. /\ t.aggregate_bytes = a.aggregate_bytes + 1 /\ a.aggregate_bytes + 1 \in Nat /\ a.aggregate_bytes + 1 <= MaxBytes
        /\ t.text = s.text /\ t.reasoning = s.reasoning /\ t.tools = s.tools /\ t.usage_bytes = 1
    BY <1>2, <1>5, <1>6, <1>7
  <2> QED
    BY <1>4, <2>1, CountedIs, CountsOf
<1> QED
  BY <1>1, <1>7 DEF Counts

\* A piece of the text is counted before it is kept.
LEMMA TextCounts ==
    ASSUME NEW s, Emitter(s), s.error = "none", Counted(s), NEW text, IsSeq(text)
    PROVE  Counts(TextDelta(s, text))
<1> DEFINE a == start_text(s)
           r == reserve_aggregate_bytes(a, Len(text))
           t == [r EXCEPT !.text = @ \o text]
           e == <<ItemEvent("delta", Message, message_output_index(r), text)>>
<1>1. TextDelta(s, text) = IF text = <<>> THEN s ELSE emit(t, e)
  BY DEF TextDelta
<1>2. /\ a.aggregate_bytes = s.aggregate_bytes /\ a.usage_bytes = s.usage_bytes
      /\ a.text = s.text /\ a.reasoning = s.reasoning /\ a.tools = s.tools /\ a.error = s.error /\ Emitter(a)
  BY StartReads
<1>3. /\ s.aggregate_bytes \in Nat /\ s.usage_bytes \in Nat /\ Len(s.text) \in Nat /\ Len(s.reasoning) \in Nat
      /\ Len(text) \in Nat /\ IsSeq(s.text) /\ Len(s.text) + Len(s.reasoning) + s.usage_bytes <= s.aggregate_bytes
  BY SeqDomain DEF Counted
<1> HIDE DEF a
<1>4. /\ Emitter(r) /\ r.text = a.text /\ r.reasoning = a.reasoning /\ r.tools = a.tools
      /\ r.usage_bytes = a.usage_bytes
      /\ r.error = "none" => /\ r.aggregate_bytes = a.aggregate_bytes + Len(text)
                             /\ r.aggregate_bytes \in Nat /\ r.aggregate_bytes <= MaxBytes
  BY <1>2, <1>3, ReserveReads
<1> HIDE DEF r
<1>5. /\ t.usage_bytes = r.usage_bytes /\ t.aggregate_bytes = r.aggregate_bytes /\ t.error = r.error
      /\ t.text = r.text \o text /\ t.reasoning = r.reasoning /\ t.tools = r.tools /\ Emitter(t)
  BY <1>4 DEF Emitter, EmitterFields
<1>6. IsSeq(s.text \o text) /\ Len(s.text \o text) = Len(s.text) + Len(text)
  BY <1>3, JoinedLength
<1> HIDE DEF t
<1>7. ASSUME t.error = "none" PROVE Counted(t)
  <2> DEFINE n == Len(text)
             g == s.aggregate_bytes + n
  <2>1. /\ t.aggregate_bytes = g /\ g <= MaxBytes
        /\ IsSeq(t.text) /\ Len(t.text) = Len(s.text) + n
        /\ t.reasoning = s.reasoning /\ t.tools = s.tools /\ t.usage_bytes = s.usage_bytes
    BY <1>2, <1>4, <1>5, <1>6, <1>7
  <2>2. (Len(s.text) + n) + Len(s.reasoning) + s.usage_bytes <= g /\ g \in Nat
    BY <1>3, CountedIs, Fits
  <2> HIDE DEF g
  <2> QED
    BY <2>1, <2>2, CountedIs, CountsOf
<1>8. Counts(emit(t, e))
  BY <1>5, <1>7, EmitCounts DEF Counts
<1> QED
  BY <1>1, <1>8 DEF Counts

\* A piece of the reasoning is counted before it is kept.
LEMMA ReasoningCounts ==
    ASSUME NEW s, Emitter(s), s.error = "none", Counted(s), NEW text, IsSeq(text)
    PROVE  Counts(ReasoningDelta(s, text))
<1> DEFINE a == start_reasoning(s)
           r == reserve_aggregate_bytes(a, Len(text))
           t == [r EXCEPT !.reasoning = @ \o text]
           e == <<ItemEvent("delta", Reasoning, 0, text)>>
<1>1. ReasoningDelta(s, text) = IF text = <<>> THEN s ELSE emit(t, e)
  BY DEF ReasoningDelta
<1>2. /\ a.aggregate_bytes = s.aggregate_bytes /\ a.usage_bytes = s.usage_bytes
      /\ a.text = s.text /\ a.reasoning = s.reasoning /\ a.tools = s.tools /\ a.error = s.error /\ Emitter(a)
  BY StartReads
<1>3. /\ s.aggregate_bytes \in Nat /\ s.usage_bytes \in Nat /\ Len(s.text) \in Nat /\ Len(s.reasoning) \in Nat
      /\ Len(text) \in Nat /\ IsSeq(s.reasoning)
      /\ Len(s.text) + Len(s.reasoning) + s.usage_bytes <= s.aggregate_bytes
  BY SeqDomain DEF Counted
<1> HIDE DEF a
<1>4. /\ Emitter(r) /\ r.text = a.text /\ r.reasoning = a.reasoning /\ r.tools = a.tools
      /\ r.usage_bytes = a.usage_bytes
      /\ r.error = "none" => /\ r.aggregate_bytes = a.aggregate_bytes + Len(text)
                             /\ r.aggregate_bytes \in Nat /\ r.aggregate_bytes <= MaxBytes
  BY <1>2, <1>3, ReserveReads
<1> HIDE DEF r
<1>5. /\ t.usage_bytes = r.usage_bytes /\ t.aggregate_bytes = r.aggregate_bytes /\ t.error = r.error
      /\ t.text = r.text /\ t.reasoning = r.reasoning \o text /\ t.tools = r.tools /\ Emitter(t)
  BY <1>4 DEF Emitter, EmitterFields
<1>6. IsSeq(s.reasoning \o text) /\ Len(s.reasoning \o text) = Len(s.reasoning) + Len(text)
  BY <1>3, JoinedLength
<1> HIDE DEF t
<1>7. ASSUME t.error = "none" PROVE Counted(t)
  <2> DEFINE n == Len(text)
             g == s.aggregate_bytes + n
  <2>1. /\ t.aggregate_bytes = g /\ g <= MaxBytes
        /\ IsSeq(t.reasoning) /\ Len(t.reasoning) = Len(s.reasoning) + n
        /\ t.text = s.text /\ t.tools = s.tools /\ t.usage_bytes = s.usage_bytes
    BY <1>2, <1>4, <1>5, <1>6, <1>7
  <2>2. Len(s.text) + (Len(s.reasoning) + n) + s.usage_bytes <= g /\ g \in Nat
    BY <1>3, CountedIs, Fits
  <2> HIDE DEF g
  <2> QED
    BY <2>1, <2>2, CountedIs, CountsOf
<1>8. Counts(emit(t, e))
  BY <1>5, <1>7, EmitCounts DEF Counts
<1> QED
  BY <1>1, <1>8 DEF Counts

\* The id of a call does not get shorter.
LEMMA Longer ==
    ASSUME NEW g \in Nat, NEW x \in {0, 1}, NEW y \in {0, 1}, x <= y, NEW n \in Nat, NEW m \in Nat,
           NEW a \in Nat, NEW b \in Nat, NEW u \in Nat, a + b + u <= g
    PROVE  g - x + y + n + m \in Nat /\ a + b + u <= g - x + y + n + m
OBVIOUS

\* A piece of a call: its id and its name take the place of what was counted, and a call
\* more is one of the limit.
LEMMA ToolCounts ==
    ASSUME NEW s, Emitter(s), s.error = "none", Counted(s), NEW index, NEW id, Len(id) = 1,
           NEW name, IsSeq(Given(name)), NEW arguments, IsSeq(Given(arguments))
    PROVE  Counts(apply_tool_delta(s, index, id, name, arguments))
<1> DEFINE old   == IF index \in DOMAIN s.tools THEN s.tools[index] ELSE EmptyTool
           named == [old EXCEPT !.id = IF id = Absent THEN @ ELSE id,
                                !.name = @ \o Given(name),
                                !.arguments = @ \o Given(arguments)]
           tool  == [named EXCEPT !.added = @ \/ (named.id # <<>> /\ named.name # <<>>)]
           bytes == s.aggregate_bytes - Len(old.id) + Len(tool.id) + Len(Given(name)) + Len(Given(arguments))
           added == IF tool.added /\ ~ old.added
                    THEN <<ItemEvent("item.added", Call(tool.id), tool_output_index(s, index), tool.name)>>
                    ELSE <<>>
           delta == IF arguments # Absent
                    THEN <<ItemEvent("delta", Call(tool.id), tool_output_index(s, index), arguments)>>
                    ELSE <<>>
           full  == \/ bytes > MaxBytes
                    \/ index \notin DOMAIN s.tools /\ Cardinality(DOMAIN s.tools) >= MAX_STREAM_TOOL_CALLS
           tools == [i \in DOMAIN s.tools \cup {index} |-> IF i = index THEN tool ELSE s.tools[i]]
           t == [s EXCEPT !.aggregate_bytes = bytes, !.tools = tools]
<1>1. apply_tool_delta(s, index, id, name, arguments)
        = IF full THEN Fail(s, "StreamStateLimit") ELSE emit(t, added \o delta)
  BY DEF apply_tool_delta
<1> HIDE DEF added, delta
<1>2. old = [f \in ToolFields |-> old[f]] /\ Len(old.id) \in {0, 1}
  <2>1. EmptyTool = [f \in ToolFields |-> EmptyTool[f]] /\ EmptyTool.id = <<>> /\ Len(<<>>) = 0
    BY DEF EmptyTool, ToolFields
  <2> QED
    BY <2>1 DEF Counted
<1> HIDE DEF old
<1>3. named = [f \in ToolFields |-> named[f]] /\ named.id = IF id = Absent THEN old.id ELSE id
  BY <1>2 DEF ToolFields
<1> HIDE DEF named
<1>4. tool = [f \in ToolFields |-> tool[f]] /\ tool.id = named.id
  BY <1>3 DEF ToolFields
<1> HIDE DEF tool
<1>5. Len(tool.id) \in {0, 1} /\ Len(old.id) <= Len(tool.id)
  BY <1>2, <1>3, <1>4
<1>6. CASE full
  BY <1>1, <1>6, FailWithin DEF Counts
<1>7. CASE ~ full
  <2>1. PICK g : g = s.aggregate_bytes /\ g \in Nat
    BY CountedIs
  <2>2. PICK n, m : n = Len(Given(name)) /\ m = Len(Given(arguments)) /\ n \in Nat /\ m \in Nat
    BY SeqDomain
  <2>3. PICK x, y : x = Len(old.id) /\ y = Len(tool.id) /\ x \in {0, 1} /\ y \in {0, 1} /\ x <= y
    BY <1>2, <1>5
  <2>4. bytes = g - x + y + n + m
    BY <2>1, <2>2, <2>3
  <2>12. PICK a, b, u : /\ a = Len(s.text) /\ b = Len(s.reasoning) /\ u = s.usage_bytes
                        /\ a \in Nat /\ b \in Nat /\ u \in Nat /\ a + b + u <= g /\ IsSeq(s.text) /\ IsSeq(s.reasoning)
    BY <2>1, CountedIs
  <2> HIDE DEF bytes
  <2>5. bytes \in Nat /\ a + b + u <= bytes
    <3>1. /\ g \in Nat /\ x \in {0, 1} /\ y \in {0, 1} /\ x <= y /\ n \in Nat /\ m \in Nat
          /\ a \in Nat /\ b \in Nat /\ u \in Nat /\ a + b + u <= g
      BY <2>1, <2>2, <2>3, <2>12
    <3>2. g - x + y + n + m \in Nat /\ a + b + u <= g - x + y + n + m
      BY <3>1, Longer
    <3> QED
      BY <2>4, <3>2
  <2>6. bytes <= MaxBytes
    BY <1>7, <2>5, LimitsAre
  <2>7. Cardinality(DOMAIN s.tools \cup {index}) <= MAX_STREAM_TOOL_CALLS
    <3>1. IsFiniteSet(DOMAIN s.tools) /\ Cardinality(DOMAIN s.tools) <= MAX_STREAM_TOOL_CALLS
      BY DEF Emitter, Counted
    <3>2. Cardinality(DOMAIN s.tools) \in Nat
      BY <3>1, FS_CardinalityType
    <3>3. CASE index \in DOMAIN s.tools
      <4>1. DOMAIN s.tools \cup {index} = DOMAIN s.tools
        BY <3>3
      <4> QED
        BY <3>1, <4>1
    <3>4. CASE index \notin DOMAIN s.tools
      <4>1. ~ (Cardinality(DOMAIN s.tools) >= MAX_STREAM_TOOL_CALLS)
        BY <1>7, <3>4
      <4>2. Cardinality(DOMAIN s.tools \cup {index}) = Cardinality(DOMAIN s.tools) + 1
        BY <3>1, <3>4, FS_AddElement
      <4> QED
        BY <3>2, <4>1, <4>2, LimitsAre
    <3> QED
      BY <3>3, <3>4
  <2>8. DOMAIN tools = DOMAIN s.tools \cup {index}
    OBVIOUS
  <2>9. ASSUME NEW i \in DOMAIN tools
        PROVE  tools[i] = [f \in ToolFields |-> tools[i][f]] /\ Len(tools[i].id) \in {0, 1}
    <3>1. CASE i = index
      <4>1. tools[i] = tool
        BY <3>1
      <4> QED
        BY <1>4, <1>5, <4>1
    <3>2. CASE i # index
      <4>1. tools[i] = s.tools[i] /\ i \in DOMAIN s.tools
        BY <3>2
      <4> QED
        BY <4>1 DEF Counted
    <3> QED
      BY <3>1, <3>2
  <2> HIDE DEF tools
  <2>10. IsFiniteSet(DOMAIN tools)
    BY <2>8, FS_AddElement DEF Emitter
  <2>11. /\ t.aggregate_bytes = bytes /\ t.tools = tools /\ t.usage_bytes = s.usage_bytes /\ t.text = s.text
         /\ t.reasoning = s.reasoning /\ t.error = s.error /\ Emitter(t)
    BY <2>10 DEF Emitter, EmitterFields
  <2> HIDE DEF t
  <2>14. Counted(t)
    BY <2>5, <2>6, <2>7, <2>8, <2>9, <2>11, <2>12 DEF Counted
  <2>15. Counts(emit(t, added \o delta))
    BY <2>11, <2>14, EmitCounts DEF Counts
  <2> QED
    BY <1>1, <1>7, <2>15
<1> QED
  BY <1>6, <1>7

\* A reason to stop keeps the count.
LEMMA StopCounts ==
    ASSUME NEW s, Emitter(s), s.error = "none", Counted(s), NEW reason
    PROVE  Counts(Stop(s, reason))
<1> DEFINE r == reserve_aggregate_bytes(s, 1)
           t == [r EXCEPT !.finish_reason = reason]
<1>1. Stop(s, reason) = IF s.finish_reason # "none" THEN Fail(s, "InvalidStream") ELSE finish_items(t)
  BY DEF Stop
<1>2. /\ Emitter(r) /\ r.text = s.text /\ r.reasoning = s.reasoning /\ r.tools = s.tools
      /\ r.usage_bytes = s.usage_bytes
      /\ r.error = "none" => /\ r.aggregate_bytes = s.aggregate_bytes + 1
                             /\ r.aggregate_bytes \in Nat /\ r.aggregate_bytes <= MaxBytes
  BY CountedIs, ReserveReads
<1> HIDE DEF r
<1>3. /\ Emitter(t) /\ t.aggregate_bytes = r.aggregate_bytes /\ t.usage_bytes = r.usage_bytes
      /\ t.text = r.text /\ t.reasoning = r.reasoning /\ t.tools = r.tools /\ t.error = r.error
  BY <1>2 DEF Emitter, EmitterFields
<1> HIDE DEF t
<1>4. Counts(t)
  <2> SUFFICES ASSUME t.error = "none" PROVE Counted(t)
    BY DEF Counts
  <2>1. Len(s.text) + Len(s.reasoning) + s.usage_bytes <= s.aggregate_bytes + 1 /\ s.aggregate_bytes + 1 \in Nat
    BY CountedIs, Fits
  <2>2. /\ t.aggregate_bytes = s.aggregate_bytes + 1 /\ s.aggregate_bytes + 1 <= MaxBytes
        /\ t.text = s.text /\ t.reasoning = s.reasoning /\ t.tools = s.tools /\ t.usage_bytes = s.usage_bytes
    BY <1>2, <1>3
  <2> QED
    BY <2>1, <2>2, CountedIs, CountsOf
<1>5. \E e : finish_items(t) = emit(t, e)
  BY DEF finish_items
<1>6. Counts(finish_items(t))
  BY <1>3, <1>4, <1>5, EmitCounts
<1>7. Counts(Fail(s, "InvalidStream"))
  BY FailWithin DEF Counts
<1> QED
  BY <1>1, <1>6, <1>7

\* The end of a response keeps the count.
LEMMA DoneCounts ==
    ASSUME NEW s, Emitter(s), s.error = "none", Counted(s)
    PROVE  Counts(Done(s))
<1> DEFINE type == TerminalType(s.finish_reason)
           t == [s EXCEPT !.terminal = TRUE, !.completed = type = "completed"]
<1>1. \E e : finalize(s) = emit(t, e)
  BY DEF finalize
<1>2. /\ Emitter(t) /\ t.aggregate_bytes = s.aggregate_bytes /\ t.usage_bytes = s.usage_bytes
      /\ t.text = s.text /\ t.reasoning = s.reasoning /\ t.tools = s.tools /\ t.error = s.error
  BY DEF Emitter, EmitterFields
<1> HIDE DEF t
<1>3. Counts(t)
  BY <1>2, CountsAlike DEF Counts
<1>4. Counts(finalize(s))
  BY <1>1, <1>2, <1>3, EmitCounts
<1>5. Counts(Fail(s, "InvalidStream"))
  BY FailWithin DEF Counts
<1> QED
  BY <1>4, <1>5 DEF Done

\* apply, whatever the operation: t is what it makes of s.
LEMMA ApplyWithin ==
    ASSUME NEW s, Within(s), NEW t, Emitter(t), s.error = "none" /\ Counted(s) => Counts(t)
    PROVE  Within(apply(s, t))
<1>1. apply(s, t) = IF s.error # "none" THEN s ELSE IF s.terminal THEN Fail(s, "InvalidStream") ELSE t
  BY DEF apply
<1>2. Within(Fail(s, "InvalidStream"))
  BY FailWithin DEF Within, Counts
<1>3. s.error = "none" => Within(t)
  BY DEF Within, Counts
<1> QED
  BY <1>1, <1>2, <1>3

\* The operations of an emitter leave one.
LEMMA OperationsAre ==
    ASSUME NEW s, Emitter(s)
    PROVE  /\ \A id : Emitter(Start(s, id))
           /\ Emitter(Usage(s))
           /\ \A text : Emitter(TextDelta(s, text)) /\ Emitter(ReasoningDelta(s, text))
           /\ \A index, id, name, arguments : Emitter(apply_tool_delta(s, index, id, name, arguments))
           /\ \A reason : Emitter(Stop(s, reason))
           /\ Emitter(Done(s)) /\ Emitter(finish(s))
<1>0. IsSeq(<<>>)
  BY Short
<1>1. ASSUME NEW id PROVE Emitter(Start(s, id))
  <2>1. Moves(<<>>, s, Start(s, id), Start(Told(<<>>, s), id))
    BY <1>0, StartMoves
  <2> QED
    BY <2>1 DEF Moves, Goes
<1>2. Emitter(Usage(s))
  <2>1. Moves(<<>>, s, Usage(s), Usage(Told(<<>>, s)))
    BY <1>0, UsageMoves
  <2> QED
    BY <2>1 DEF Moves, Goes
<1>3. ASSUME NEW text PROVE Emitter(TextDelta(s, text)) /\ Emitter(ReasoningDelta(s, text))
  <2>1. Moves(<<>>, s, TextDelta(s, text), TextDelta(Told(<<>>, s), text))
    BY <1>0, TextDeltaMoves
  <2>2. Moves(<<>>, s, ReasoningDelta(s, text), ReasoningDelta(Told(<<>>, s), text))
    BY <1>0, ReasoningDeltaMoves
  <2> QED
    BY <2>1, <2>2 DEF Moves, Goes
<1>4. ASSUME NEW index, NEW id, NEW name, NEW arguments
      PROVE  Emitter(apply_tool_delta(s, index, id, name, arguments))
  <2>1. Moves(<<>>, s, apply_tool_delta(s, index, id, name, arguments),
              apply_tool_delta(Told(<<>>, s), index, id, name, arguments))
    BY <1>0, ToolDeltaMoves
  <2> QED
    BY <2>1 DEF Moves, Goes
<1>5. ASSUME NEW reason PROVE Emitter(Stop(s, reason))
  <2>1. Moves(<<>>, s, Stop(s, reason), Stop(Told(<<>>, s), reason))
    BY <1>0, StopMoves
  <2> QED
    BY <2>1 DEF Moves, Goes
<1>6. Emitter(Done(s)) /\ Emitter(finish(s))
  <2>1. Goes(<<>>, Done(s), Done(Told(<<>>, s))) /\ Goes(<<>>, finish(s), finish(Told(<<>>, s)))
    BY <1>0, DoneGoes, FinishGoes
  <2> QED
    BY <2>1 DEF Goes
<1> QED
  BY <1>1, <1>2, <1>3, <1>4, <1>5, <1>6

\* An operation that is applied keeps to the limits.
LEMMA AppliedWithin ==
    ASSUME NEW s, Within(s)
    PROVE  /\ \A id : Len(id) \in Nat => Within(apply(s, Start(s, id)))
           /\ Within(apply(s, Usage(s)))
           /\ \A text : IsSeq(text) => Within(apply(s, TextDelta(s, text)))
           /\ \A text : IsSeq(text) => Within(apply(s, ReasoningDelta(s, text)))
           /\ \A index, id, name, arguments :
                 Len(id) = 1 /\ IsSeq(Given(name)) /\ IsSeq(Given(arguments)) =>
                     Within(apply(s, apply_tool_delta(s, index, id, name, arguments)))
           /\ \A reason : Within(apply(s, Stop(s, reason)))
           /\ Within(apply(s, Done(s)))
<1>0. Emitter(s)
  BY DEF Within
<1>1. ASSUME NEW id, Len(id) \in Nat PROVE Within(apply(s, Start(s, id)))
  BY <1>0, <1>1, OperationsAre, StartCounts, ApplyWithin
<1>2. Within(apply(s, Usage(s)))
  BY <1>0, OperationsAre, UsageCounts, ApplyWithin
<1>3. ASSUME NEW text, IsSeq(text) PROVE Within(apply(s, TextDelta(s, text)))
  BY <1>0, <1>3, OperationsAre, TextCounts, ApplyWithin
<1>4. ASSUME NEW text, IsSeq(text) PROVE Within(apply(s, ReasoningDelta(s, text)))
  BY <1>0, <1>4, OperationsAre, ReasoningCounts, ApplyWithin
<1>5. ASSUME NEW index, NEW id, NEW name, NEW arguments,
             Len(id) = 1, IsSeq(Given(name)), IsSeq(Given(arguments))
      PROVE  Within(apply(s, apply_tool_delta(s, index, id, name, arguments)))
  <2>1. s.error = "none" /\ Counted(s) => Counts(apply_tool_delta(s, index, id, name, arguments))
    BY <1>0, <1>5, ToolCounts
  <2>2. Emitter(apply_tool_delta(s, index, id, name, arguments))
    BY <1>0, OperationsAre
  <2> QED
    BY <2>1, <2>2, ApplyWithin
<1>6. ASSUME NEW reason PROVE Within(apply(s, Stop(s, reason)))
  BY <1>0, OperationsAre, StopCounts, ApplyWithin
<1>7. Within(apply(s, Done(s)))
  BY <1>0, OperationsAre, DoneCounts, ApplyWithin
<1> QED
  BY <1>1, <1>2, <1>3, <1>4, <1>5, <1>6, <1>7

\* A call of a chunk: its id is one byte.
CallIs(call) == Len(call.id) = 1 /\ IsSeq(Given(call.name)) /\ IsSeq(Given(call.arguments))

ChunkIs(b) ==
    /\ IsSeq(Given(b.choice.reasoning)) /\ IsSeq(Given(b.choice.content))
    /\ \E n \in Nat : DOMAIN b.choice.calls = 1..n /\ \A i \in 1..n : CallIs(b.choice.calls[i])

\* The calls of a chunk, one after the other.
LEMMA CallsWithin ==
    ASSUME NEW s, Within(s), NEW calls, NEW n \in Nat, DOMAIN calls = 1..n, \A i \in 1..n : CallIs(calls[i])
    PROVE  Within(FoldLeft(ChatApplyCall, s, calls))
<1> DEFINE c == [op |-> "call"]
           a(k) == Fold(c, s, calls, k)
           Bad == {k \in Nat : k <= n /\ ~ Within(a(k))}
<1>0. \A d, x : Step(c, d, x) = ChatApplyCall(d, x)
  BY DEF Step
<1>1. a(0) = s /\ \A k \in Nat : a(k + 1) = Step(c, a(k), calls[k + 1])
  BY FoldStart, FoldNext
<1>2. FoldLeft(ChatApplyCall, s, calls) = a(n)
  BY CallsFold
<1> HIDE DEF a, c
<1>3. ASSUME Bad # {} PROVE FALSE
  <2>1. PICK k \in Bad : \A j \in Bad : k <= j
    BY <1>3, Least
  <2>2. CASE k = 0
    BY <1>1, <2>1, <2>2
  <2>3. CASE k # 0
    <3>1. PICK j \in Nat : k = j + 1
      BY <2>1, <2>3
    <3>2. Within(a(j)) /\ j + 1 \in 1..n
      BY <2>1, <3>1
    <3>3. a(k) = ChatApplyCall(a(j), calls[j + 1])
      BY <1>0, <1>1, <3>1
    <3>4. CallIs(calls[j + 1])
      BY <3>2
    <3>5. PICK d, call : d = a(j) /\ call = calls[j + 1]
      OBVIOUS
    <3>6. Within(apply(d, apply_tool_delta(d, call.index, call.id, call.name, call.arguments)))
      BY <3>2, <3>4, <3>5, AppliedWithin DEF CallIs
    <3>7. Within(a(k))
      BY <3>3, <3>5, <3>6 DEF ChatApplyCall
    <3> QED
      BY <2>1, <3>7
  <2> QED
    BY <2>2, <2>3
<1>4. Within(a(n))
  BY <1>3
<1> QED
  BY <1>2, <1>4

\* A block of Chat Completions keeps to the limits.
LEMMA ChatWithin ==
    ASSUME NEW s, Within(s), NEW b, b.type = "[DONE]" \/ ChunkIs(b)
    PROVE  Within(ChatParse(s, b))
<1>1. CASE b.type = "[DONE]"
  BY <1>1, AppliedWithin DEF ChatParse
<1>2. CASE b.type # "[DONE]"
  <2> DEFINE choice == b.choice
             started  == apply(s, Start(s, <<1>>))
             counted  == IF b.usage THEN apply(started, Usage(started)) ELSE started
             reasoned == apply(counted, ReasoningDelta(counted, Given(choice.reasoning)))
             written  == apply(reasoned, TextDelta(reasoned, Given(choice.content)))
             called   == FoldLeft(ChatApplyCall, written, choice.calls)
  <2>1. ChatParse(s, b) = IF choice.finish = "none" THEN called ELSE apply(called, Stop(called, choice.finish))
    BY <1>2 DEF ChatParse
  <2>2. /\ IsSeq(Given(choice.reasoning)) /\ IsSeq(Given(choice.content))
        /\ \E n \in Nat : DOMAIN choice.calls = 1..n /\ \A i \in 1..n : CallIs(choice.calls[i])
    BY <1>2 DEF ChunkIs
  <2>3. Within(started)
    <3>1. Len(<<1>>) \in Nat
      OBVIOUS
    <3> QED
      BY <3>1, AppliedWithin
  <2> HIDE DEF started
  <2>4. Within(counted)
    BY <2>3, AppliedWithin
  <2> HIDE DEF counted
  <2>5. Within(reasoned)
    BY <2>2, <2>4, AppliedWithin
  <2> HIDE DEF reasoned
  <2>6. Within(written)
    BY <2>2, <2>5, AppliedWithin
  <2> HIDE DEF written
  <2>7. Within(called)
    BY <2>2, <2>6, CallsWithin
  <2> HIDE DEF called
  <2> QED
    BY <2>1, <2>7, AppliedWithin
<1> QED
  BY <1>1, <1>2

-----------------------------------------------------------------------------
\* An event of Anthropic Messages: the id of a call is one byte.
EventIs(ev) ==
    ev.type \in {"content_block_start", "content_block_delta"} =>
        IsSeq(ev.body) /\ (ev.block = "tool_use" => Len(ev.body) = 1)

WithinInner(s) == Anthropic(s) /\ Within(s.inner)

\* A field that is left out is empty.
LEMMA GivenSeq ==
    ASSUME NEW field, IsSeq(field)
    PROVE  IsSeq(Given(field))
BY Short DEF Given

\* The field that is left out.
LEMMA AbsentIs == Len(Absent) = 1 /\ IsSeq(Given(Absent))
<1>1. IsSeq(<<>>) /\ Len(<<0>>) = 1
  BY Short
<1> QED
  BY <1>1 DEF Given, Absent

\* A decoder that fails is within its limits.
LEMMA FailWithinInner ==
    ASSUME NEW s, Anthropic(s), NEW e \in {"InvalidStream", "StreamStateLimit"}
    PROVE  WithinInner(AnthropicFail(s, e)) /\ AnthropicFail(s, e).inner.error # "none"
<1> DEFINE i == Fail(s.inner, e)
<1>1. Emitter(i) /\ i.error # "none"
  BY FailWithin DEF Anthropic
<1> HIDE DEF i
<1>2. AnthropicFail(s, e) = [s EXCEPT !.inner = i]
  BY DEF AnthropicFail, i
<1>3. Anthropic([s EXCEPT !.inner = i]) /\ [s EXCEPT !.inner = i].inner = i
  BY <1>1 DEF Anthropic, AnthropicFields
<1> QED
  BY <1>1, <1>2, <1>3 DEF WithinInner, Within, Counts

\* feed, whatever the operation.
LEMMA FeedWithin ==
    ASSUME NEW s, Anthropic(s), NEW t, Within(apply(s.inner, t))
    PROVE  WithinInner(feed(s, t))
<1> DEFINE i == apply(s.inner, t)
<1>1. feed(s, t) = [s EXCEPT !.inner = i]
  BY DEF feed
<1> HIDE DEF i
<1>2. Within(i) /\ Emitter(i)
  BY DEF Within, i
<1>3. Anthropic([s EXCEPT !.inner = i]) /\ [s EXCEPT !.inner = i].inner = i
  BY <1>2 DEF Anthropic, AnthropicFields
<1> QED
  BY <1>1, <1>2, <1>3 DEF WithinInner

\* AnthropicReserve counts beside the emitter.
LEMMA ReserveWithinInner ==
    ASSUME NEW s, WithinInner(s), NEW n
    PROVE  WithinInner(AnthropicReserve(s, n))
<1>0. Anthropic(s) /\ Within(s.inner)
  BY DEF WithinInner
<1>1. WithinInner(AnthropicFail(s, "StreamStateLimit"))
  BY <1>0, FailWithinInner
<1> DEFINE t == [s EXCEPT !.aggregate_bytes = @ + n]
<1>2. Anthropic(t) /\ t.inner = s.inner
  BY <1>0 DEF Anthropic, AnthropicFields
<1> HIDE DEF t
<1>3. WithinInner(t)
  BY <1>0, <1>2 DEF WithinInner
<1> QED
  BY <1>1, <1>3 DEF AnthropicReserve, t

\* What is kept beside the emitter does not count.
LEMMA BesideWithin ==
    ASSUME NEW s, WithinInner(s), NEW v
    PROVE  /\ WithinInner([s EXCEPT !.content = v]) /\ [s EXCEPT !.content = v].inner = s.inner
           /\ WithinInner([s EXCEPT !.tool_json = v]) /\ [s EXCEPT !.tool_json = v].inner = s.inner
           /\ WithinInner([s EXCEPT !.tool_indices = v]) /\ [s EXCEPT !.tool_indices = v].inner = s.inner
<1>0. Anthropic(s) /\ Within(s.inner)
  BY DEF WithinInner
<1>1. /\ Anthropic([s EXCEPT !.content = v]) /\ [s EXCEPT !.content = v].inner = s.inner
      /\ Anthropic([s EXCEPT !.tool_json = v]) /\ [s EXCEPT !.tool_json = v].inner = s.inner
      /\ Anthropic([s EXCEPT !.tool_indices = v]) /\ [s EXCEPT !.tool_indices = v].inner = s.inner
  BY <1>0 DEF Anthropic, AnthropicFields
<1> QED
  BY <1>0, <1>1 DEF WithinInner

\* message_start keeps to the limits.
LEMMA MessageStartWithin ==
    ASSUME NEW s, WithinInner(s)
    PROVE  WithinInner(MessageStart(s))
<1> DEFINE t == feed(s, Start(s.inner, <<1>>))
<1>1. Anthropic(s) /\ Within(s.inner) /\ Len(<<1>>) \in Nat
  BY DEF WithinInner
<1>2. WithinInner(t)
  BY <1>1, AppliedWithin, FeedWithin
<1> HIDE DEF t
<1>3. Anthropic(t) /\ Within(t.inner)
  BY <1>2 DEF WithinInner
<1>4. WithinInner(feed(t, Usage(t.inner)))
  BY <1>3, AppliedWithin, FeedWithin
<1> QED
  BY <1>4 DEF MessageStart, t

\* The start of a call keeps to the limits.
LEMMA ToolStartWithin ==
    ASSUME NEW s, WithinInner(s), NEW ev, IsSeq(ev.body), Len(ev.body) = 1
    PROVE  WithinInner(ToolStart(s, ev))
<1> DEFINE index == IF ev.index \in DOMAIN s.tool_indices THEN s.tool_indices[ev.index]
                    ELSE Cardinality(DOMAIN s.tool_indices)
           t == [s EXCEPT !.tool_indices = Put(@, ev.index, index)]
           v == Put(s.tool_indices, ev.index, index)
<1>1. Anthropic(s) /\ Within(s.inner)
  BY DEF WithinInner
<1>2. ToolStart(s, ev) = feed(t, apply_tool_delta(s.inner, index, ev.body, ev.body, <<>>))
  BY DEF ToolStart
<1> HIDE DEF index
<1>3. t = [s EXCEPT !.tool_indices = v]
  BY <1>1 DEF Anthropic, AnthropicFields
<1> HIDE DEF v, t
<1>4. WithinInner(t) /\ t.inner = s.inner
  BY <1>3, BesideWithin
<1>5. IsSeq(Given(ev.body)) /\ IsSeq(Given(<<>>))
  BY GivenSeq, Short
<1>6. Within(apply(s.inner, apply_tool_delta(s.inner, index, ev.body, ev.body, <<>>)))
  BY <1>1, <1>5, AppliedWithin
<1> QED
  BY <1>2, <1>4, <1>6, FeedWithin DEF WithinInner

\* content_block_start keeps to the limits.
LEMMA ContentBlockStartWithin ==
    ASSUME NEW s, WithinInner(s), NEW ev, IsSeq(ev.body), ev.block = "tool_use" => Len(ev.body) = 1
    PROVE  WithinInner(ContentBlockStart(s, ev))
<1> DEFINE r == AnthropicReserve(s, 1)
           v == Put(r.content, ev.index, ContentBlock(ev))
           t == [r EXCEPT !.content = Put(@, ev.index, ContentBlock(ev))]
           next == CASE ev.block = "text" -> feed(t, TextDelta(t.inner, ev.body))
                     [] ev.block = "thinking" -> feed(t, ReasoningDelta(t.inner, ev.body))
                     [] ev.block = "tool_use" -> ToolStart(t, ev)
                     [] ev.block = "redacted_thinking" -> t
                     [] OTHER -> AnthropicFail(t, "InvalidStream")
           full == /\ ev.index \notin DOMAIN s.content
                   /\ Cardinality(DOMAIN s.content) >= MAX_CONTENT_BLOCKS
<1>1. WithinInner(r) /\ Anthropic(s)
  BY ReserveWithinInner DEF WithinInner
<1>2. ContentBlockStart(s, ev) = IF full THEN AnthropicFail(s, "StreamStateLimit") ELSE next
  BY DEF ContentBlockStart
<1> HIDE DEF full, r
<1>3. t = [r EXCEPT !.content = v]
  BY <1>1 DEF WithinInner, Anthropic, AnthropicFields
<1> HIDE DEF v, t
<1>4. WithinInner(t) /\ Anthropic(t) /\ Within(t.inner)
  BY <1>1, <1>3, BesideWithin DEF WithinInner
<1>5. WithinInner(feed(t, TextDelta(t.inner, ev.body))) /\ WithinInner(feed(t, ReasoningDelta(t.inner, ev.body)))
  BY <1>4, AppliedWithin, FeedWithin
<1>6. ev.block = "tool_use" => WithinInner(ToolStart(t, ev))
  BY <1>4, ToolStartWithin
<1>7. WithinInner(AnthropicFail(t, "InvalidStream")) /\ WithinInner(AnthropicFail(s, "StreamStateLimit"))
  BY <1>1, <1>4, FailWithinInner
<1>8. WithinInner(next)
  BY <1>4, <1>5, <1>6, <1>7
<1> HIDE DEF next
<1> QED
  BY <1>2, <1>7, <1>8

\* append_block_text keeps to the limits.
LEMMA BlockTextWithin ==
    ASSUME NEW s, WithinInner(s), NEW index, NEW block, NEW body
    PROVE  WithinInner(append_block_text(s, index, block, body))
<1> DEFINE t == [s EXCEPT !.content[index].body = @ \o body]
           v == [s.content EXCEPT ![index].body = @ \o body]
<1>1. Anthropic(s)
  BY DEF WithinInner
<1>2. t = [s EXCEPT !.content = v]
  BY <1>1 DEF Anthropic, AnthropicFields
<1> HIDE DEF v
<1>3. WithinInner([s EXCEPT !.content = v])
  BY BesideWithin
<1>4. WithinInner(AnthropicFail(s, "InvalidStream"))
  BY <1>1, FailWithinInner
<1>5. append_block_text(s, index, block, body)
        = IF index \in DOMAIN s.content /\ s.content[index].type = block THEN t ELSE AnthropicFail(s, "InvalidStream")
  BY DEF append_block_text
<1> HIDE DEF t
<1> QED
  BY <1>2, <1>3, <1>4, <1>5

\* content_block_delta keeps to the limits.
LEMMA DeltaWithin ==
    ASSUME NEW s, WithinInner(s), NEW ev, IsSeq(ev.body)
    PROVE  WithinInner(ContentBlockDelta(s, ev))
<1> DEFINE r == AnthropicReserve(s, Len(ev.body))
           a == append_block_text(r, ev.index, "text", ev.body)
           b == append_block_text(r, ev.index, "thinking", ev.body)
<1>1. WithinInner(r) /\ Anthropic(s) /\ Anthropic(r) /\ Within(r.inner)
  BY ReserveWithinInner DEF WithinInner
<1>2. WithinInner(AnthropicFail(s, "InvalidStream"))
  BY <1>1, FailWithinInner
<1>3. WithinInner(a) /\ WithinInner(b)
  BY <1>1, BlockTextWithin
<1>4. WithinInner(TextBlockDelta(s, ev)) /\ WithinInner(ThinkingBlockDelta(s, ev))
  <2>1. TextBlockDelta(s, ev) = feed(a, TextDelta(a.inner, ev.body))
        /\ ThinkingBlockDelta(s, ev) = feed(b, ReasoningDelta(b.inner, ev.body))
    BY DEF TextBlockDelta, ThinkingBlockDelta
  <2> HIDE DEF a, b
  <2>2. Anthropic(a) /\ Within(a.inner) /\ Anthropic(b) /\ Within(b.inner)
    BY <1>3 DEF WithinInner
  <2> QED
    BY <2>1, <2>2, AppliedWithin, FeedWithin
<1>5. WithinInner(SignatureDelta(s, ev))
  <2> DEFINE t == [r EXCEPT !.content[ev.index].signature = @ \o ev.body]
             v == [r.content EXCEPT ![ev.index].signature = @ \o ev.body]
  <2>1. SignatureDelta(s, ev) = IF ev.index \in DOMAIN s.content THEN t ELSE AnthropicFail(s, "InvalidStream")
    BY DEF SignatureDelta
  <2> HIDE DEF r
  <2>2. t = [r EXCEPT !.content = v]
    BY <1>1 DEF Anthropic, AnthropicFields
  <2> HIDE DEF v
  <2>3. WithinInner([r EXCEPT !.content = v])
    BY <1>1, BesideWithin
  <2> HIDE DEF t
  <2> QED
    BY <1>2, <2>1, <2>2, <2>3
<1>6. WithinInner(InputJsonDelta(s, ev))
  <2> DEFINE old == IF ev.index \in DOMAIN s.tool_json THEN s.tool_json[ev.index] ELSE <<>>
             t == [r EXCEPT !.tool_json = Put(@, ev.index, old \o ev.body)]
             v == Put(r.tool_json, ev.index, old \o ev.body)
             o == apply_tool_delta(r.inner, s.tool_indices[ev.index], Absent, Absent, ev.body)
  <2>1. InputJsonDelta(s, ev) = IF ev.index \notin DOMAIN s.tool_indices THEN AnthropicFail(s, "InvalidStream")
                                ELSE feed(t, o)
    BY DEF InputJsonDelta
  <2> HIDE DEF r, old
  <2>2. t = [r EXCEPT !.tool_json = v]
    BY <1>1 DEF Anthropic, AnthropicFields
  <2> HIDE DEF v, t
  <2>3. WithinInner(t) /\ t.inner = r.inner /\ Anthropic(t)
    BY <1>1, <2>2, BesideWithin DEF WithinInner
  <2>4. Within(apply(r.inner, o))
    <3>1. Len(Absent) = 1 /\ IsSeq(Given(Absent)) /\ IsSeq(Given(ev.body))
      BY AbsentIs, GivenSeq
    <3> QED
      BY <1>1, <3>1, AppliedWithin
  <2> HIDE DEF o
  <2>5. WithinInner(feed(t, o))
    BY <2>3, <2>4, FeedWithin
  <2> QED
    BY <1>2, <2>1, <2>5
<1> QED
  BY <1>4, <1>5, <1>6 DEF ContentBlockDelta

\* content_block_stop keeps to the limits.
LEMMA ContentBlockStopWithin ==
    ASSUME NEW s, WithinInner(s), NEW ev
    PROVE  WithinInner(ContentBlockStop(s, ev))
<1> DEFINE v == [k \in DOMAIN s.tool_json \ {ev.index} |-> s.tool_json[k]]
           w == [s.content EXCEPT ![ev.index].input = s.tool_json[ev.index]]
           t == [s EXCEPT !.tool_json = [k \in DOMAIN @ \ {ev.index} |-> @[k]],
                          !.content[ev.index].input = s.tool_json[ev.index]]
           u == [s EXCEPT !.tool_json = v]
<1>1. Anthropic(s)
  BY DEF WithinInner
<1>2. ContentBlockStop(s, ev) = IF ev.index \notin DOMAIN s.tool_json THEN s
                                ELSE IF s.tool_json[ev.index] = <<>> THEN AnthropicFail(s, "InvalidStream")
                                ELSE t
  BY DEF ContentBlockStop
<1>3. t = [u EXCEPT !.content = w]
  BY <1>1 DEF Anthropic, AnthropicFields
<1> HIDE DEF v, w, t
<1>4. WithinInner(u)
  BY BesideWithin
<1> HIDE DEF u
<1>5. WithinInner(t)
  BY <1>3, <1>4, BesideWithin
<1>6. WithinInner(AnthropicFail(s, "InvalidStream"))
  BY <1>1, FailWithinInner
<1> QED
  BY <1>2, <1>5, <1>6

\* message_delta keeps to the limits.
LEMMA MessageDeltaWithin ==
    ASSUME NEW s, WithinInner(s), NEW ev
    PROVE  WithinInner(MessageDelta(s, ev))
<1> DEFINE t == IF ev.block = "none" THEN s ELSE feed(s, Stop(s.inner, StopReason(ev.block)))
<1>1. Anthropic(s) /\ Within(s.inner)
  BY DEF WithinInner
<1>2. WithinInner(t)
  BY <1>1, AppliedWithin, FeedWithin
<1>3. MessageDelta(s, ev) = feed(t, Usage(t.inner))
  BY DEF MessageDelta
<1> HIDE DEF t
<1>4. Anthropic(t) /\ Within(t.inner)
  BY <1>2 DEF WithinInner
<1>5. WithinInner(feed(t, Usage(t.inner)))
  BY <1>4, AppliedWithin, FeedWithin
<1> QED
  BY <1>3, <1>5

\* A block of Anthropic Messages keeps to the limits.
LEMMA AnthropicWithin ==
    ASSUME NEW s, WithinInner(s), NEW ev, EventIs(ev)
    PROVE  WithinInner(AnthropicParse(s, ev))
<1>0. Anthropic(s) /\ Within(s.inner)
  BY DEF WithinInner
<1>1. WithinInner(MessageStart(s)) /\ WithinInner(ContentBlockStop(s, ev)) /\ WithinInner(MessageDelta(s, ev))
  BY MessageStartWithin, ContentBlockStopWithin, MessageDeltaWithin
<1>2. ev.type = "content_block_start" => WithinInner(ContentBlockStart(s, ev))
  BY ContentBlockStartWithin DEF EventIs
<1>3. ev.type = "content_block_delta" => WithinInner(ContentBlockDelta(s, ev))
  BY DeltaWithin DEF EventIs
<1>4. WithinInner(feed(s, Done(s.inner)))
  BY <1>0, AppliedWithin, FeedWithin
<1>5. WithinInner(AnthropicFail(s, "InvalidStream"))
  BY <1>0, FailWithinInner
<1> QED
  BY <1>1, <1>2, <1>3, <1>4, <1>5 DEF AnthropicParse

-----------------------------------------------------------------------------
\* The bytes of the ids that are remembered are counted.
Remembers(d) ==
    Responses(d) /\ IsFiniteSet(DOMAIN d.sources) /\ d.item_id_bytes = Cardinality(DOMAIN d.sources)

\* What does not touch the sources forgets nothing.
LEMMA RemembersAlike ==
    ASSUME NEW d, Remembers(d), NEW t, Responses(t), t.sources = d.sources, t.item_id_bytes = d.item_id_bytes
    PROVE  Remembers(t)
BY DEF Remembers

\* An event passed on changes no source.
LEMMA SentRemembers ==
    ASSUME NEW d, Remembers(d), NEW ev
    PROVE  Remembers(Sent(d, ev))
<1>1. IsSeq(d.pending) /\ Responses(d)
  BY DEF Remembers, Responses
<1> DEFINE v == Append(d.pending, ev)
<1>2. IsSeq(v)
  BY <1>1, AppendReads
<1>3. Sent(d, ev) = [d EXCEPT !.pending = v]
  BY <1>1 DEF Sent, Responses, ResponsesFields
<1> HIDE DEF v
<1> DEFINE t == [d EXCEPT !.pending = v]
<1>4. Responses(t) /\ t.sources = d.sources /\ t.item_id_bytes = d.item_id_bytes
  BY <1>1, <1>2 DEF Responses, ResponsesFields
<1> HIDE DEF t
<1> QED
  BY <1>3, <1>4, RemembersAlike DEF t

\* record_source counts the id it adds.
LEMMA RecordRemembers ==
    ASSUME NEW d, Remembers(d), NEW item, NEW source
    PROVE  Remembers(record_source(d, item, source))
<1> DEFINE put == [i \in DOMAIN d.sources \cup {item} |-> IF i = item THEN source ELSE d.sources[i]]
           n   == d.item_id_bytes + 1
           t   == [d EXCEPT !.sources = put, !.item_id_bytes = n]
           u   == [d EXCEPT !.error = "StreamStateLimit"]
<1>1. /\ Responses(d) /\ IsFiniteSet(DOMAIN d.sources) /\ d.item_id_bytes = Cardinality(DOMAIN d.sources)
  BY DEF Remembers
<1>2. record_source(d, item, source) \in {d, u} \cup {x \in {t} : item \notin DOMAIN d.sources}
  <2>1. Responses(d)
    BY <1>1
  <2>2. t = [d EXCEPT !.sources = [i \in DOMAIN @ \cup {item} |-> IF i = item THEN source ELSE @[i]],
                      !.item_id_bytes = @ + 1]
    BY <2>1 DEF Responses, ResponsesFields
  <2> HIDE DEF t, u
  <2> QED
    BY <2>2 DEF record_source, u
<1>3. Remembers(u)
  <2>1. Responses(u) /\ u.sources = d.sources /\ u.item_id_bytes = d.item_id_bytes
    BY <1>1 DEF Responses, ResponsesFields
  <2> HIDE DEF u
  <2> QED
    BY <2>1, RemembersAlike
<1>4. ASSUME item \notin DOMAIN d.sources PROVE Remembers(t)
  <2>1. DOMAIN put = DOMAIN d.sources \cup {item}
    OBVIOUS
  <2>2. IsFiniteSet(DOMAIN put) /\ Cardinality(DOMAIN put) = n
    BY <1>1, <1>4, <2>1, FS_AddElement
  <2> HIDE DEF put, n
  <2>3. Responses(t) /\ t.sources = put /\ t.item_id_bytes = n
    BY <1>1 DEF Responses, ResponsesFields
  <2> HIDE DEF t
  <2> QED
    BY <2>2, <2>3 DEF Remembers
<1> HIDE DEF t, u
<1> QED
  BY <1>2, <1>3, <1>4

\* remove_source takes back the id it removes.
LEMMA RemoveRemembers ==
    ASSUME NEW d, Remembers(d), NEW item
    PROVE  Remembers(remove_source(d, item))
<1> DEFINE put == [i \in DOMAIN d.sources \ {item} |-> d.sources[i]]
           n   == d.item_id_bytes - 1
           t   == [d EXCEPT !.sources = put, !.item_id_bytes = n]
<1>1. /\ Responses(d) /\ IsFiniteSet(DOMAIN d.sources) /\ d.item_id_bytes = Cardinality(DOMAIN d.sources)
  BY DEF Remembers
<1>2. remove_source(d, item) = IF item \notin DOMAIN d.sources THEN d ELSE t
  <2>1. Responses(d)
    BY <1>1
  <2>2. t = [d EXCEPT !.sources = [i \in DOMAIN @ \ {item} |-> @[i]], !.item_id_bytes = @ - 1]
    BY <2>1 DEF Responses, ResponsesFields
  <2> HIDE DEF t
  <2> QED
    BY <2>2 DEF remove_source
<1>3. ASSUME item \in DOMAIN d.sources PROVE Remembers(t)
  <2>1. DOMAIN put = DOMAIN d.sources \ {item}
    OBVIOUS
  <2>2. IsFiniteSet(DOMAIN put) /\ Cardinality(DOMAIN put) = n
    BY <1>1, <1>3, <2>1, FS_RemoveElement
  <2> HIDE DEF put, n
  <2>3. Responses(t) /\ t.sources = put /\ t.item_id_bytes = n
    BY <1>1 DEF Responses, ResponsesFields
  <2> HIDE DEF t
  <2> QED
    BY <2>2, <2>3 DEF Remembers
<1> HIDE DEF t
<1> QED
  BY <1>2, <1>3

\* An event of Responses keeps the count.
LEMMA ResponsesRemembers ==
    ASSUME NEW d, Remembers(d), NEW ev
    PROVE  Remembers(ResponsesParse(d, ev))
<1> DEFINE marked == [d EXCEPT !.terminal = @ \/ ev.type \in TerminalTypes]
           kept  == IF ev.type = "response.completed"
                    THEN [marked EXCEPT !.completed = TRUE, !.output = ev.body]
                    ELSE marked
<1>1. Responses(d)
  BY DEF Remembers
<1>2. Responses(kept) /\ kept.sources = d.sources /\ kept.item_id_bytes = d.item_id_bytes
  BY <1>1 DEF Responses, ResponsesFields
<1>3. ResponsesParse(d, ev) = IF d.error # "none" \/ ev.type = "[DONE]" THEN d ELSE normalize(kept, ev)
  BY DEF ResponsesParse
<1> HIDE DEF marked, kept
<1>4. Remembers(kept)
  BY <1>2, RemembersAlike
<1>5. Remembers(normalize_reasoning(kept, ev))
  <2> DEFINE r == record_source(kept, ev.item, ev.source)
             e == IF ev.source = "raw" THEN normalize_raw_reasoning_event(ev) ELSE ev
  <2>1. Remembers(r)
    BY <1>4, RecordRemembers
  <2>2. normalize_reasoning(kept, ev) \in {Sent(kept, e), r, Sent(r, e)}
    BY DEF normalize_reasoning
  <2> HIDE DEF r, e
  <2> QED
    BY <1>4, <2>1, <2>2, SentRemembers
<1>6. /\ Remembers(Sent(remove_source(kept, ev.item), Summarized(ev)))
      /\ Remembers(Sent(kept, Summarized(ev))) /\ Remembers(Sent(kept, ev))
  BY <1>4, RemoveRemembers, SentRemembers
<1>7. Remembers(normalize(kept, ev))
  BY <1>4, <1>5, <1>6 DEF normalize
<1> QED
  BY <1>3, <1>7

-----------------------------------------------------------------------------
\* What the decoder of a protocol keeps to, and the blocks it relies on.
KeepsTo(protocol, d) ==
    CASE protocol = "chat" -> Within(d)
      [] protocol = "anthropic" -> WithinInner(d)
      [] protocol = "responses" -> Remembers(d)

Shaped(protocol, b) ==
    CASE protocol = "chat" -> b = Malformed \/ b.type = "[DONE]" \/ ChunkIs(b)
      [] protocol = "anthropic" -> EventIs(b)
      [] protocol = "responses" -> TRUE

\* A new decoder keeps to the limits.
LEMMA NewKeeps ==
    ASSUME NEW protocol \in Protocols
    PROVE  KeepsTo(protocol, NewAs(protocol)) /\ ErrorAs(protocol, NewAs(protocol)) = "none"
<1>1. IsDecoder(protocol, NewAs(protocol)) /\ ErrorAs(protocol, NewAs(protocol)) = "none"
  BY NewIsDecoder
<1>2. CASE protocol = "chat"
  BY <1>1, <1>2, NewWithin DEF KeepsTo, NewAs
<1>3. CASE protocol = "anthropic"
  <2>1. NewAnthropic.inner = NewEmitter
    BY DEF NewAnthropic
  <2>2. Anthropic(NewAnthropic)
    BY <1>1, <1>3 DEF IsDecoder, NewAs
  <2> QED
    BY <1>1, <1>3, <2>1, <2>2, NewWithin DEF KeepsTo, NewAs, WithinInner
<1>4. CASE protocol = "responses"
  <2>1. NewResponses.sources = <<>> /\ NewResponses.item_id_bytes = 0
    BY DEF NewResponses
  <2>2. Responses(NewResponses)
    BY <1>1, <1>4 DEF IsDecoder, NewAs
  <2>3. DOMAIN <<>> = {}
    OBVIOUS
  <2>4. IsFiniteSet({}) /\ Cardinality({}) = 0
    BY FS_EmptySet
  <2> QED
    BY <1>1, <1>4, <2>1, <2>2, <2>3, <2>4 DEF KeepsTo, NewAs, Remembers
<1> QED
  BY <1>1, <1>2, <1>3, <1>4 DEF Protocols

\* A decoder that fails keeps to them.
LEMMA InvalidKeeps ==
    ASSUME NEW protocol \in Protocols, NEW d, KeepsTo(protocol, d)
    PROVE  KeepsTo(protocol, InvalidAs(protocol, d))
<1>1. CASE protocol = "chat"
  <2> DEFINE t == [d EXCEPT !.error = "InvalidStream"]
  <2>1. Emitter(d)
    BY <1>1 DEF KeepsTo, Within
  <2>2. Emitter(t) /\ t.error = "InvalidStream"
    BY <2>1 DEF Emitter, EmitterFields
  <2>3. InvalidAs(protocol, d) = t
    BY <1>1 DEF InvalidAs
  <2> HIDE DEF t
  <2> QED
    BY <1>1, <2>2, <2>3 DEF KeepsTo, Within, Counts
<1>2. CASE protocol = "anthropic"
  <2>1. Anthropic(d)
    BY <1>2 DEF KeepsTo, WithinInner
  <2> QED
    BY <1>2, <2>1, FailWithinInner DEF KeepsTo, InvalidAs
<1>3. CASE protocol = "responses"
  <2> DEFINE t == [d EXCEPT !.error = "InvalidStream"]
  <2>1. Remembers(d) /\ Responses(d)
    BY <1>3 DEF KeepsTo, Remembers
  <2>2. Responses(t) /\ t.sources = d.sources /\ t.item_id_bytes = d.item_id_bytes
    BY <2>1 DEF Responses, ResponsesFields
  <2>3. InvalidAs(protocol, d) = t
    BY <1>3 DEF InvalidAs
  <2> HIDE DEF t
  <2> QED
    BY <1>3, <2>1, <2>2, <2>3, RemembersAlike DEF KeepsTo
<1> QED
  BY <1>1, <1>2, <1>3 DEF Protocols

\* A block keeps to them.
LEMMA ParseKeeps ==
    ASSUME NEW protocol \in Protocols, NEW d, KeepsTo(protocol, d), NEW b, Shaped(protocol, b)
    PROVE  KeepsTo(protocol, ParseAs(protocol, d, b))
<1>1. KeepsTo(protocol, InvalidAs(protocol, d))
  BY InvalidKeeps
<1>2. ASSUME b # Malformed PROVE KeepsTo(protocol, Applied(protocol, d, b))
  <2>1. CASE protocol = "chat"
    BY <1>2, <2>1, ChatWithin DEF KeepsTo, Shaped, Applied
  <2>2. CASE protocol = "anthropic"
    BY <2>2, AnthropicWithin DEF KeepsTo, Shaped, Applied
  <2>3. CASE protocol = "responses"
    BY <2>3, ResponsesRemembers DEF KeepsTo, Applied
  <2> QED
    BY <2>1, <2>2, <2>3 DEF Protocols
<1> QED
  BY <1>1, <1>2 DEF ParseAs

\* A block of the buffer keeps to them, whole or not.
LEMMA BlockKeeps ==
    ASSUME NEW protocol \in Protocols, NEW d, KeepsTo(protocol, d), NEW blocks,
           \A k \in DOMAIN blocks : Shaped(protocol, blocks[k]), NEW tokens
    PROVE  KeepsTo(protocol, BlockAs(protocol, blocks, d, tokens))
<1> DEFINE whole == {k \in DOMAIN blocks : Data(tokens) = DataOf(k)}
           j     == CHOOSE k \in whole : TRUE
<1>1. KeepsTo(protocol, InvalidAs(protocol, d))
  BY InvalidKeeps
<1>2. ASSUME whole # {} PROVE KeepsTo(protocol, ParseAs(protocol, d, blocks[j]))
  <2>1. j \in whole
    BY <1>2
  <2>2. Shaped(protocol, blocks[j])
    BY <2>1
  <2> HIDE DEF j
  <2> QED
    BY <2>2, ParseKeeps
<1>3. BlockAs(protocol, blocks, d, tokens) \in
         {d, InvalidAs(protocol, d)} \cup {ParseAs(protocol, d, blocks[k]) : k \in {i \in {j} : whole # {}}}
  BY DEF BlockAs
<1> HIDE DEF j, whole
<1> QED
  BY <1>1, <1>2, <1>3

\* What waits for the client does not count.
LEMMA DrainKeeps ==
    ASSUME NEW protocol \in Protocols, NEW d, KeepsTo(protocol, d)
    PROVE  KeepsTo(protocol, DrainedAs(protocol, d)) /\ ErrorAs(protocol, DrainedAs(protocol, d)) = ErrorAs(protocol, d)
<1>1. IsSeq(<<>>)
  BY Short
<1>2. IsDecoder(protocol, d)
  BY DEF KeepsTo, IsDecoder, Within, WithinInner, Remembers, Protocols
<1>3. IsDecoder(protocol, DrainedAs(protocol, d)) /\ ErrorAs(protocol, DrainedAs(protocol, d)) = ErrorAs(protocol, d)
  BY <1>1, <1>2, DrainReads
<1>4. ASSUME NEW s, Within(s) PROVE Within([s EXCEPT !.pending = <<>>])
  <2> DEFINE t == [s EXCEPT !.pending = <<>>]
  <2>1. Emitter(s) /\ Counts(s)
    BY <1>4 DEF Within
  <2>2. /\ Emitter(t) /\ t.error = s.error /\ t.aggregate_bytes = s.aggregate_bytes /\ t.usage_bytes = s.usage_bytes
        /\ t.text = s.text /\ t.reasoning = s.reasoning /\ t.tools = s.tools
    BY <1>1, <2>1 DEF Emitter, EmitterFields
  <2> HIDE DEF t
  <2>3. Counts(t)
    BY <2>1, <2>2, CountsAlike DEF Counts
  <2> QED
    BY <2>2, <2>3 DEF Within, t
<1>5. CASE protocol = "chat"
  BY <1>3, <1>4, <1>5 DEF KeepsTo, DrainedAs
<1>6. CASE protocol = "anthropic"
  <2> DEFINE i == [d.inner EXCEPT !.pending = <<>>]
  <2>1. Anthropic(d) /\ Within(d.inner)
    BY <1>6 DEF KeepsTo, WithinInner
  <2>2. DrainedAs(protocol, d) = [d EXCEPT !.inner = i]
    BY <1>6, <2>1 DEF DrainedAs, Anthropic, AnthropicFields
  <2>3. Within(i)
    BY <1>4, <2>1
  <2> HIDE DEF i
  <2>4. [d EXCEPT !.inner = i].inner = i
    BY <2>1 DEF Anthropic, AnthropicFields
  <2>5. Anthropic(DrainedAs(protocol, d))
    BY <1>3, <1>6 DEF IsDecoder
  <2> QED
    BY <1>3, <1>6, <2>2, <2>3, <2>4, <2>5 DEF KeepsTo, WithinInner
<1>7. CASE protocol = "responses"
  <2> DEFINE t == [d EXCEPT !.pending = <<>>]
  <2>1. Remembers(d) /\ Responses(d)
    BY <1>7 DEF KeepsTo, Remembers
  <2>2. t.sources = d.sources /\ t.item_id_bytes = d.item_id_bytes
    BY <2>1 DEF Responses, ResponsesFields
  <2>3. DrainedAs(protocol, d) = t /\ Responses(t)
    BY <1>3, <1>7 DEF DrainedAs, IsDecoder
  <2> HIDE DEF t
  <2> QED
    BY <1>3, <1>7, <2>1, <2>2, <2>3, RemembersAlike DEF KeepsTo
<1> QED
  BY <1>5, <1>6, <1>7 DEF Protocols

\* All the blocks of a frame keep to them.
LEMMA BlocksKeep ==
    ASSUME stream.protocol \in Protocols, \A k \in DOMAIN sent : Shaped(stream.protocol, sent[k]),
           NEW d, KeepsTo(stream.protocol, d), NEW blocks, IsSeq(blocks)
    PROVE  KeepsTo(stream.protocol, FoldLeft(parse_block, d, blocks))
<1> DEFINE c == BlockOp(stream.protocol, sent)
           n == Len(blocks)
           a(k) == Fold(c, d, blocks, k)
           Bad == {k \in Nat : k <= n /\ ~ KeepsTo(stream.protocol, a(k))}
<1>0. n \in Nat /\ DOMAIN blocks = 1..n
  BY SeqDomain
<1>1. \A e, x : Step(c, e, x) = BlockAs(stream.protocol, sent, e, x)
  BY ParseStep
<1>2. FoldLeft(parse_block, d, blocks) = a(n)
  BY <1>0, BlocksFold DEF BlockOp
<1>3. a(0) = d /\ \A k \in Nat : a(k + 1) = Step(c, a(k), blocks[k + 1])
  BY FoldStart, FoldNext
<1> HIDE DEF a, c, n
<1>4. ASSUME Bad # {} PROVE FALSE
  <2>1. PICK k \in Bad : \A j \in Bad : k <= j
    BY <1>4, Least
  <2>2. k # 0
    BY <1>3, <2>1
  <2>3. PICK j \in Nat : k = j + 1
    BY <2>1, <2>2
  <2>4. KeepsTo(stream.protocol, a(j))
    BY <1>0, <2>1, <2>3
  <2>5. a(k) = BlockAs(stream.protocol, sent, a(j), blocks[j + 1])
    BY <1>1, <1>3, <2>3
  <2>6. KeepsTo(stream.protocol, BlockAs(stream.protocol, sent, a(j), blocks[j + 1]))
    BY <2>4, BlockKeeps
  <2> QED
    BY <2>1, <2>5, <2>6
<1>5. KeepsTo(stream.protocol, a(n))
  BY <1>0, <1>4
<1> QED
  BY <1>2, <1>5

-----------------------------------------------------------------------------
\* What a stream has on its wire and in its buffer, whatever its lines.

\* The empty sequence.
LEMMA EmptyIs == IsSeq(<<>>) /\ Len(<<>>) = 0
BY Short

\* What an upstream of Chat Completions sends, as the decoder relies on it.
LEMMA ChunkShaped ==
    ASSUME NEW k, NEW b \in ChatBlocks(k)
    PROVE  b.type = "[DONE]" \/ ChunkIs(b)
<1>1. NoChoice = [f \in {"reasoning", "content", "calls", "finish"} |-> NoChoice[f]]
      /\ NoChoice.reasoning = Absent /\ NoChoice.content = Absent /\ NoChoice.calls = <<>>
  BY DEF NoChoice
<1>2. IsSeq(Given(<<k>>)) /\ IsSeq(Given(<<>>)) /\ IsSeq(Given(Absent))
  BY GivenSeq, Short, AbsentIs
<1> DEFINE Readable(c) == IsSeq(Given(c.reasoning)) /\ IsSeq(Given(c.content))
           Few(c) == Readable(c) /\ (c.calls = <<>> \/ \E call : c.calls = <<call>> /\ CallIs(call))
           Calls == [index : 0..MAX_STREAM_TOOL_CALLS, id : {<<k>>}, name : {<<k>>}, arguments : {<<>>}]
                    \cup [index : {0, 1}, id : {Absent}, name : {Absent}, arguments : {<<k>>}]
                    \cup [index : {0}, id : {<<k>>}, name : {Absent}, arguments : {Absent}]
<1>3. ASSUME NEW call \in Calls PROVE CallIs(call)
  <2>1. call.id \in {<<k>>, Absent} /\ call.name \in {<<k>>, Absent} /\ call.arguments \in {<<>>, <<k>>, Absent}
    OBVIOUS
  <2>2. Len(<<k>>) = 1 /\ Len(Absent) = 1
    BY AbsentIs
  <2> QED
    BY <1>2, <2>1, <2>2 DEF CallIs
<1> HIDE DEF Calls
<1>4. /\ Few([NoChoice EXCEPT !.reasoning = <<k>>]) /\ Few([NoChoice EXCEPT !.content = <<k>>]) /\ Few(NoChoice)
      /\ \A f : Few([NoChoice EXCEPT !.finish = f])
  BY <1>1, <1>2
<1>5. ASSUME NEW call \in Calls PROVE Few([NoChoice EXCEPT !.calls = <<call>>])
  BY <1>1, <1>2, <1>3
<1>6. b.type = "[DONE]" \/ \E c, usage : b = ChatChunk(c, usage) /\ Few(c)
  <2>1. \/ \E c \in {[NoChoice EXCEPT !.reasoning = <<k>>], [NoChoice EXCEPT !.content = <<k>>]} :
              b = ChatChunk(c, FALSE)
        \/ \E f \in {"stop", "length", "content_filter"} : b = ChatChunk([NoChoice EXCEPT !.finish = f], FALSE)
        \/ b = ChatChunk(NoChoice, TRUE)
        \/ b = ChatDone
        \/ \E call \in Calls : b = ChatChunk([NoChoice EXCEPT !.calls = <<call>>], FALSE)
    BY Zenon DEF ChatBlocks, Calls
  <2>2. ChatDone.type = "[DONE]"
    BY DEF ChatDone
  <2> HIDE DEF Few
  <2> QED
    BY <1>4, <1>5, <2>1, <2>2, Zenon
<1>7. CASE \E c, usage : b = ChatChunk(c, usage) /\ Few(c)
  <2>1. PICK c, usage : b = ChatChunk(c, usage) /\ Few(c)
    BY <1>7
  <2>2. b.choice = c
    BY <2>1 DEF ChatChunk
  <2>3. DOMAIN <<>> = 1..0 /\ \A x : DOMAIN <<x>> = 1..1 /\ <<x>>[1] = x
    OBVIOUS
  <2>4. \E n \in Nat : DOMAIN c.calls = 1..n /\ \A i \in 1..n : CallIs(c.calls[i])
    <3>1. CASE c.calls = <<>>
      <4>1. DOMAIN c.calls = 1..0 /\ \A i \in 1..0 : CallIs(c.calls[i])
        BY <2>3, <3>1
      <4> QED
        BY <4>1
    <3>2. CASE \E call : c.calls = <<call>> /\ CallIs(call)
      <4>1. PICK call : c.calls = <<call>> /\ CallIs(call)
        BY <3>2
      <4>2. DOMAIN c.calls = 1..1 /\ \A i \in 1..1 : CallIs(c.calls[i])
        BY <2>3, <4>1
      <4> QED
        BY <4>2
    <3> QED
      BY <2>1, <3>1, <3>2
  <2> QED
    BY <2>1, <2>2, <2>4 DEF ChunkIs
<1> QED
  BY <1>6, <1>7

\* What an upstream sends is of this shape.
LEMMA BlocksShaped ==
    ASSUME stream.protocol \in Protocols, NEW k, NEW b \in Blocks(k)
    PROVE  Shaped(stream.protocol, b)
<1>1. CASE stream.protocol = "chat"
  <2>1. b = Malformed \/ b \in ChatBlocks(k)
    BY <1>1 DEF Blocks
  <2> QED
    BY <1>1, <2>1, ChunkShaped DEF Shaped
<1>2. CASE stream.protocol = "anthropic"
  <2>1. b = Malformed \/ b \in AnthropicBlocks(k)
    BY <1>2 DEF Blocks
  <2>2. EventIs(Malformed)
    BY DEF EventIs, Malformed
  <2>3. ASSUME b \in AnthropicBlocks(k) PROVE EventIs(b)
    <3>1. ASSUME NEW type, NEW index, NEW block, NEW body, b = AnthropicEvent(type, index, block, body)
          PROVE  b.type = type /\ b.block = block /\ b.body = body
      BY <3>1 DEF AnthropicEvent
    <3>2. IsSeq(<<k>>) /\ IsSeq(<<>>) /\ Len(<<k>>) = 1
      BY Short
    <3> DEFINE Body(x) == IF x = "tool_use" THEN <<k>> ELSE <<>>
               Plainly == {AnthropicEvent("message_start", 0, "none", <<>>), AnthropicEvent("message_stop", 0, "none", <<>>),
                           AnthropicEvent("error", 0, "none", <<>>)} \cup Fillers
               Deltas  == {AnthropicEvent("message_delta", 0, r, <<>>) : r \in {"none", "end_turn", "max_tokens", "refusal"}}
               Begun   == {AnthropicEvent("content_block_start", i, x, Body(x)) :
                             i \in {0, 1}, x \in {"text", "thinking", "redacted_thinking", "tool_use"}}
               Filled  == {AnthropicEvent("content_block_delta", i, x, <<k>>) :
                             i \in {0, 1}, x \in {"text_delta", "thinking_delta", "signature_delta", "input_json_delta"}}
               Stopped == {AnthropicEvent("content_block_stop", i, "none", <<>>) : i \in {0, 1}}
               TooMany == {AnthropicEvent("content_block_start", MAX_CONTENT_BLOCKS, "text", <<>>)}
    <3>3. b \in Plainly \cup Deltas \cup Begun \cup Filled \cup Stopped \cup TooMany
      BY <2>3 DEF AnthropicBlocks
    <3>4. IsSeq(Body(b.block)) /\ (b.block = "tool_use" => Len(Body(b.block)) = 1)
      BY <3>2
    <3> HIDE DEF Body
    <3>5. ASSUME b \in Plainly PROVE EventIs(b)
      BY <3>5 DEF EventIs, AnthropicEvent, Fillers
    <3>6. ASSUME b \in Deltas PROVE EventIs(b)
      BY <3>6 DEF EventIs, AnthropicEvent
    <3>7. ASSUME b \in Begun PROVE EventIs(b)
      <4>1. PICK i, x : b = AnthropicEvent("content_block_start", i, x, Body(x))
        BY <3>7
      <4>2. b.block = x /\ b.body = Body(x)
        BY <3>1, <4>1
      <4> QED
        BY <3>4, <4>2 DEF EventIs
    <3>8. ASSUME b \in Filled PROVE EventIs(b)
      <4>1. PICK i, x : b = AnthropicEvent("content_block_delta", i, x, <<k>>)
        BY <3>8
      <4>2. b.body = <<k>>
        BY <3>1, <4>1
      <4> QED
        BY <3>2, <4>2 DEF EventIs
    <3>9. ASSUME b \in Stopped PROVE EventIs(b)
      BY <3>9 DEF EventIs, AnthropicEvent
    <3>10. ASSUME b \in TooMany PROVE EventIs(b)
      BY <3>1, <3>2, <3>10 DEF EventIs
    <3> HIDE DEF Plainly, Deltas, Begun, Filled, Stopped, TooMany
    <3> QED
      BY <3>3, <3>5, <3>6, <3>7, <3>8, <3>9, <3>10
  <2> QED
    BY <1>2, <2>1, <2>2, <2>3 DEF Shaped
<1>3. CASE stream.protocol = "responses"
  BY <1>3 DEF Shaped
<1> QED
  BY <1>1, <1>2, <1>3 DEF Protocols

\* The tokens of a block, in every format.
LEMMA TokensAreSeq ==
    ASSUME NEW k
    PROVE  IsSeq(Tokens(k))
<1>1. IsSeq(<<Token("data", k, 1)>>) /\ IsSeq(<<Token("data", k, 2)>>) /\ IsSeq(<<>>)
  BY Short
<1>2. IsSeq(Eol)
  BY Short DEF Eol
<1> DEFINE break == IF stream.lines = 2 THEN Eol ELSE <<>>
           a == <<Token("data", k, 1)>> \o break
           b == a \o <<Token("data", k, 2)>>
           c == b \o Eol
<1>3. IsSeq(break)
  BY <1>1, <1>2
<1>4. IsSeq(a)
  BY <1>1, <1>3, Joined
<1> HIDE DEF a
<1>5. IsSeq(b)
  BY <1>1, <1>4, Joined
<1> HIDE DEF b
<1>6. IsSeq(c)
  BY <1>2, <1>5, Joined
<1> HIDE DEF c
<1>7. IsSeq(c \o Eol)
  BY <1>2, <1>6, Joined
<1> QED
  BY <1>7 DEF Tokens, a, b, c

\* The parts of a sequence.
LEMMA PartIs ==
    ASSUME NEW w, IsSeq(w), NEW n \in 0..Len(w)
    PROVE  /\ IsSeq(SubSeq(w, 1, n)) /\ Len(SubSeq(w, 1, n)) = n
           /\ IsSeq(SubSeq(w, n + 1, Len(w)))
<1>1. PICK S : w \in Seq(S)
  BY DEF IsSeq
<1>2. Len(w) \in Nat /\ n \in Nat
  BY <1>1
<1> DEFINE a == SubSeq(w, 1, n)
           b == SubSeq(w, n + 1, Len(w))
<1>3. a \in Seq(S) /\ Len(a) = n
  BY <1>1, <1>2, SubSeqProperties
<1>4. b \in Seq(S)
  BY <1>1, <1>2, SubSeqProperties
<1> HIDE DEF a, b
<1> QED
  BY <1>3, <1>4 DEF IsSeq, a, b

\* No longer after k tokens than they are.
Normal(t, k) ==
    LET f == Fold(NewlineOp, NoLines, t, k)
    IN f = [lines |-> f.lines, cr |-> f.cr] /\ IsSeq(f.lines) /\ Len(f.lines) <= k

\* One token more.
LEMMA NormalNext ==
    ASSUME NEW t, NEW k \in Nat, Normal(t, k)
    PROVE  Normal(t, k + 1)
<1> DEFINE f == Fold(NewlineOp, NoLines, t, k)
           g == Fold(NewlineOp, NoLines, t, k + 1)
           x == t[k + 1]
<1>1. f = [lines |-> f.lines, cr |-> f.cr] /\ IsSeq(f.lines) /\ Len(f.lines) <= k
  BY DEF Normal
<1>2. g = Newline(f, x)
  BY FoldNext, NewlineStep
<1> HIDE DEF f, g, x
<1>3. PICK l : l = f.lines
  OBVIOUS
<1>4. IsSeq(l) /\ Len(l) \in Nat /\ Len(l) <= k + 1
  BY <1>1, <1>3, SeqDomain
<1> DEFINE y == IF x = CR THEN LF ELSE x
<1>5. IsSeq(Append(l, y)) /\ Len(Append(l, y)) = Len(l) + 1
  BY <1>4, AppendReads
<1>6. Len(Append(l, y)) <= k + 1
  BY <1>1, <1>3, <1>4, <1>5
<1>7. CASE x = LF /\ f.cr
  <2>1. g = [f EXCEPT !.cr = FALSE]
    BY <1>2, <1>7 DEF Newline
  <2>2. g = [lines |-> l, cr |-> FALSE]
    BY <1>1, <1>3, <2>1
  <2>3. g.lines = l /\ g = [lines |-> g.lines, cr |-> g.cr]
    BY <2>2
  <2> QED
    BY <1>4, <2>3 DEF Normal, g
<1>8. CASE ~ (x = LF /\ f.cr)
  <2>1. g = [lines |-> Append(l, y), cr |-> x = CR]
    BY <1>2, <1>3, <1>8 DEF Newline
  <2>2. g.lines = Append(l, y) /\ g = [lines |-> g.lines, cr |-> g.cr]
    BY <2>1
  <2> QED
    BY <1>5, <1>6, <2>2 DEF Normal, g
<1> QED
  BY <1>7, <1>8

\* normalize_newlines does not make its input longer.
LEMMA NormalizedFits ==
    ASSUME NEW t, IsSeq(t)
    PROVE  IsSeq(normalize_newlines(t)) /\ Len(normalize_newlines(t)) <= Len(t)
<1>0. Len(t) \in Nat /\ DOMAIN t = 1..Len(t)
  BY SeqDomain
<1> DEFINE Bad == {k \in Nat : ~ Normal(t, k)}
<1>1. Normal(t, 0)
  <2> DEFINE f == Fold(NewlineOp, NoLines, t, 0)
  <2>1. f = [lines |-> <<>>, cr |-> FALSE]
    BY FoldStart DEF NoLines
  <2> HIDE DEF f
  <2>2. f.lines = <<>> /\ f = [lines |-> f.lines, cr |-> f.cr]
    BY <2>1
  <2>3. IsSeq(<<>>) /\ Len(<<>>) <= 0
    BY EmptyIs
  <2> QED
    BY <2>2, <2>3 DEF Normal, f
<1>2. ASSUME Bad # {} PROVE FALSE
  <2>1. PICK k \in Bad : \A j \in Bad : k <= j
    BY <1>2, Least
  <2>2. PICK j \in Nat : k = j + 1
    BY <1>1, <2>1
  <2>3. Normal(t, j)
    BY <2>1, <2>2
  <2> QED
    BY <2>1, <2>2, <2>3, NormalNext
<1>3. Normal(t, Len(t))
  BY <1>0, <1>2
<1>4. normalize_newlines(t) = Fold(NewlineOp, NoLines, t, Len(t)).lines
  BY <1>0, NewlinesFold DEF normalize_newlines, NoLines, NewlineOp
<1> QED
  BY <1>3, <1>4 DEF Normal

Parted(t, k) ==
    LET f == Fold(TokenOp, NoBlocks, t, k)
    IN f = [blocks |-> f.blocks, rest |-> f.rest] /\ IsSeq(f.blocks) /\ IsSeq(f.rest) /\ Len(f.rest) <= k

\* One token more.
LEMMA PartedNext ==
    ASSUME NEW t, NEW k \in Nat, Parted(t, k)
    PROVE  Parted(t, k + 1)
<1> DEFINE f == Fold(TokenOp, NoBlocks, t, k)
           g == Fold(TokenOp, NoBlocks, t, k + 1)
           x == t[k + 1]
<1>1. f = [blocks |-> f.blocks, rest |-> f.rest] /\ IsSeq(f.blocks) /\ IsSeq(f.rest) /\ Len(f.rest) <= k
  BY DEF Parted
<1>2. g = TakeToken(f, x)
  BY FoldNext, NewlineStep
<1> HIDE DEF f, g, x
<1>3. PICK bl, r : bl = f.blocks /\ r = f.rest
  OBVIOUS
<1> DEFINE b == Append(r, x)
           whole == Len(b) >= 2 /\ b[Len(b)] = LF /\ b[Len(b) - 1] = LF
<1>4. g = IF whole THEN [blocks |-> Append(bl, b), rest |-> <<>>] ELSE [f EXCEPT !.rest = b]
  BY <1>2, <1>3 DEF TakeToken
<1>5. IsSeq(b) /\ Len(b) = Len(r) + 1 /\ Len(r) \in Nat
  BY <1>1, <1>3, AppendReads
<1>6. Len(b) <= k + 1
  BY <1>1, <1>3, <1>5
<1> HIDE DEF b, whole
<1>7. CASE whole
  <2>1. g = [blocks |-> Append(bl, b), rest |-> <<>>]
    BY <1>4, <1>7
  <2>2. g.rest = <<>> /\ g.blocks = Append(bl, b) /\ g = [blocks |-> g.blocks, rest |-> g.rest]
    BY <2>1
  <2>3. IsSeq(<<>>) /\ Len(<<>>) <= k + 1
    BY EmptyIs
  <2>4. IsSeq(Append(bl, b))
    BY <1>1, <1>3, AppendReads
  <2> QED
    BY <2>2, <2>3, <2>4 DEF Parted, g
<1>8. CASE ~ whole
  <2>1. g = [blocks |-> bl, rest |-> b]
    BY <1>1, <1>3, <1>4, <1>8
  <2>2. g.rest = b /\ g.blocks = bl /\ g = [blocks |-> g.blocks, rest |-> g.rest]
    BY <2>1
  <2> QED
    BY <1>1, <1>3, <1>5, <1>6, <2>2 DEF Parted, g
<1> QED
  BY <1>7, <1>8

\* What SplitBlocks leaves is no longer than its input.
LEMMA SplitFits ==
    ASSUME NEW t, IsSeq(t)
    PROVE  IsSeq(SplitBlocks(t).blocks) /\ IsSeq(SplitBlocks(t).rest) /\ Len(SplitBlocks(t).rest) <= Len(t)
<1>0. Len(t) \in Nat /\ DOMAIN t = 1..Len(t)
  BY SeqDomain
<1> DEFINE Bad == {k \in Nat : ~ Parted(t, k)}
<1>1. Parted(t, 0)
  <2> DEFINE f == Fold(TokenOp, NoBlocks, t, 0)
  <2>1. f = [blocks |-> <<>>, rest |-> <<>>]
    BY FoldStart DEF NoBlocks
  <2> HIDE DEF f
  <2>2. f.blocks = <<>> /\ f.rest = <<>> /\ f = [blocks |-> f.blocks, rest |-> f.rest]
    BY <2>1
  <2>3. IsSeq(<<>>) /\ Len(<<>>) <= 0
    BY EmptyIs
  <2> QED
    BY <2>2, <2>3 DEF Parted, f
<1>2. ASSUME Bad # {} PROVE FALSE
  <2>1. PICK k \in Bad : \A j \in Bad : k <= j
    BY <1>2, Least
  <2>2. PICK j \in Nat : k = j + 1
    BY <1>1, <2>1
  <2>3. Parted(t, j)
    BY <2>1, <2>2
  <2> QED
    BY <2>1, <2>2, <2>3, PartedNext
<1>3. Parted(t, Len(t))
  BY <1>0, <1>2
<1>4. SplitBlocks(t) = Fold(TokenOp, NoBlocks, t, Len(t))
  BY <1>0, TokensFold DEF SplitBlocks, NoBlocks, TokenOp
<1> QED
  BY <1>3, <1>4 DEF Parted

-----------------------------------------------------------------------------
(* The limits, of a session. *)

\* What the limits rest on.
LimitsInv ==
    /\ stream \in Streams
    /\ IsSeq(sent) /\ \A k \in DOMAIN sent : Shaped(stream.protocol, sent[k])
    /\ IsSeq(wire)
    /\ IsSeq(buffer) /\ Len(buffer) <= MaxBuffer
    /\ KeepsTo(stream.protocol, decoder) /\ ErrorAs(stream.protocol, decoder) = "none"

\* What LimitsInv says of the state.
LEMMA LimitsState ==
    ASSUME LimitsInv
    PROVE  /\ stream.protocol \in Protocols /\ stream.source \in {"http", "claude"}
           /\ stream.source = "claude" => stream.protocol = "anthropic"
           /\ IsSeq(sent) /\ Len(sent) \in Nat /\ DOMAIN sent = 1..Len(sent)
           /\ IsSeq(wire) /\ Len(wire) \in Nat /\ IsSeq(buffer) /\ Len(buffer) \in Nat
<1>1. stream \in Streams /\ IsSeq(sent) /\ IsSeq(wire) /\ IsSeq(buffer)
  BY DEF LimitsInv
<1>2. /\ Len(sent) \in Nat /\ DOMAIN sent = 1..Len(sent) /\ Len(wire) \in Nat /\ Len(buffer) \in Nat
  BY <1>1, SeqDomain
<1> QED
  BY <1>1, <1>2, StreamAssumption DEF Protocols

\* A session that is over holds nothing.
LEMMA OverWithin ==
    ASSUME LimitsInv, NEW result, Over(result), UNCHANGED <<stream, sent>>
    PROVE  LimitsInv'
<1>1. wire' = <<>> /\ buffer' = <<>> /\ decoder' = NewDecoder
  BY DEF Over
<1>2. NewDecoder = NewAs(stream.protocol)
  BY AsTheDecoderDoes
<1>3. KeepsTo(stream.protocol, NewAs(stream.protocol)) /\ ErrorAs(stream.protocol, NewAs(stream.protocol)) = "none"
  BY LimitsState, NewKeeps
<1>4. IsSeq(<<>>) /\ Len(<<>>) <= MaxBuffer
  BY EmptyIs, LimitsAre
<1> QED
  BY <1>1, <1>2, <1>3, <1>4 DEF LimitsInv

\* A session starts within the limits.
LEMMA InitWithin ==
    ASSUME Init
    PROVE  LimitsInv
<1>1. stream \in Streams /\ sent = <<>> /\ wire = <<>> /\ buffer = <<>> /\ decoder = NewDecoder
  BY DEF Init
<1>2. NewDecoder = NewAs(stream.protocol)
  BY AsTheDecoderDoes
<1>3. stream.protocol \in Protocols
  BY <1>1, StreamAssumption DEF Protocols
<1>4. KeepsTo(stream.protocol, NewAs(stream.protocol)) /\ ErrorAs(stream.protocol, NewAs(stream.protocol)) = "none"
  BY <1>3, NewKeeps
<1>5. IsSeq(<<>>) /\ Len(<<>>) <= MaxBuffer
  BY EmptyIs, LimitsAre
<1>6. DOMAIN <<>> = {}
  OBVIOUS
<1> QED
  BY <1>1, <1>2, <1>4, <1>5, <1>6 DEF LimitsInv

\* A block more is sent.
LEMMA ProduceWithin ==
    ASSUME LimitsInv, NEW b, Shaped(stream.protocol, b)
    PROVE  IsSeq(Append(sent, b)) /\ \A k \in DOMAIN Append(sent, b) : Shaped(stream.protocol, Append(sent, b)[k])
<1> DEFINE t == Append(sent, b)
<1>1. /\ IsSeq(t) /\ Len(t) = Len(sent) + 1 /\ Len(sent) \in Nat
      /\ \A i \in 1..Len(sent) : t[i] = sent[i]
      /\ t[Len(sent) + 1] = b
  BY LimitsState, AppendReads
<1> HIDE DEF t
<1>2. DOMAIN t = 1..(Len(sent) + 1)
  BY <1>1, SeqDomain
<1>3. ASSUME NEW k \in DOMAIN t PROVE Shaped(stream.protocol, t[k])
  <2>1. CASE k = Len(sent) + 1
    BY <1>1, <2>1
  <2>2. CASE k # Len(sent) + 1
    <3>1. k \in 1..Len(sent)
      BY <1>1, <1>2, <2>2
    <3>2. Shaped(stream.protocol, sent[k])
      BY <3>1, LimitsState DEF LimitsInv
    <3> QED
      BY <1>1, <3>1, <3>2
  <2> QED
    BY <2>1, <2>2
<1> QED
  BY <1>1, <1>3 DEF t

\* The upstream sends.
LEMMA SendWithin ==
    ASSUME LimitsInv, Send
    PROVE  LimitsInv'
<1>1. PICK b \in Blocks(Len(sent) + 1) : Produce(b)
  BY DEF Send
<1>2. sent' = Append(sent, b) /\ UNCHANGED <<stream, buffer, decoder>>
  BY <1>1 DEF Produce
<1>3. PICK k : wire' = wire \o Tokens(k)
  BY DEF Send
<1>4. IsSeq(wire \o Tokens(k))
  BY LimitsState, TokensAreSeq, Joined
<1>5. Shaped(stream.protocol, b)
  BY LimitsState, BlocksShaped
<1>6. /\ IsSeq(Append(sent, b))
      /\ \A i \in DOMAIN Append(sent, b) : Shaped(stream.protocol, Append(sent, b)[i])
  BY <1>5, ProduceWithin
<1> QED
  BY <1>2, <1>3, <1>4, <1>6 DEF LimitsInv

\* The process prints.
LEMMA PrintLineWithin ==
    ASSUME LimitsInv, PrintLine
    PROVE  LimitsInv'
<1>1. PICK b \in Blocks(Len(sent) + 1) \cup {Result} : Produce(b)
  BY DEF PrintLine
<1>2. sent' = Append(sent, b) /\ UNCHANGED <<stream, buffer, decoder, wire>>
  BY <1>1 DEF Produce, PrintLine
<1>3. stream.protocol = "anthropic"
  BY LimitsState DEF PrintLine
<1>4. /\ IsSeq(Append(sent, b))
      /\ \A i \in DOMAIN Append(sent, b) : Shaped(stream.protocol, Append(sent, b)[i])
  <2>1. Shaped(stream.protocol, Result)
    BY <1>3 DEF Shaped, EventIs, Result
  <2>2. Shaped(stream.protocol, b)
    BY <1>1, <2>1, LimitsState, BlocksShaped
  <2> QED
    BY <2>2, ProduceWithin
<1> QED
  BY <1>2, <1>4 DEF LimitsInv

\* The wire may hold anything.
LEMMA WireWithin ==
    ASSUME LimitsInv, IsSeq(wire'), UNCHANGED <<stream, sent, buffer, decoder>>
    PROVE  LimitsInv'
BY DEF LimitsInv

\* The body ends.
LEMMA EndWithin ==
    ASSUME LimitsInv, End
    PROVE  LimitsInv'
<1>1. UNCHANGED <<stream, sent, buffer, decoder>>
  BY DEF End
<1>2. wire' = wire \/ \E n \in 0..Len(wire) : wire' = SubSeq(wire, 1, n)
  BY DEF End
<1>3. IsSeq(wire')
  BY <1>2, LimitsState, PartIs
<1> QED
  BY <1>1, <1>3, WireWithin

\* A line is pumped.
LEMMA PumpWithin ==
    ASSUME LimitsInv, Pump
    PROVE  LimitsInv'
<1>1. UNCHANGED <<stream, sent, buffer, decoder>>
  BY DEF Pump
<1>2. wire' = wire \/ wire' = wire \o Tokens(pumped + 1)
  BY DEF Pump
<1>3. IsSeq(wire \o Tokens(pumped + 1))
  BY LimitsState, TokensAreSeq, Joined
<1>4. IsSeq(wire')
  BY <1>2, <1>3, LimitsState
<1> QED
  BY <1>1, <1>4, WireWithin

\* A frame is a part of the wire.
LEMMA FrameIs ==
    ASSUME LimitsInv, NEW n \in Frames, n <= Len(wire)
    PROVE  n \in 0..Len(wire)
<1>1. Len(wire) \in Nat /\ MaxFrame \in Nat
  BY LimitsState, StreamAssumption
<1>2. CASE stream.source = "claude"
  <2>1. Len(Tokens(1)) \in Nat
    BY TokensAreSeq, SeqDomain
  <2> QED
    BY <1>1, <1>2, <2>1 DEF Frames
<1>3. CASE stream.source # "claude"
  <2>1. n \in 1..(IF Len(wire) < MaxFrame THEN Len(wire) ELSE MaxFrame)
    BY <1>3 DEF Frames
  <2> QED
    BY <1>1, <2>1
<1> QED
  BY <1>2, <1>3

\* A frame is read: the buffer, the decoder and what is left of the block that is not
\* whole.
LEMMA ReadFrameWithin ==
    ASSUME LimitsInv, ReadFrame
    PROVE  LimitsInv'
<1>1. UNCHANGED <<stream, sent>>
  BY DEF ReadFrame
<1>2. PICK n \in Frames : n <= Len(wire) /\ Push(n)
  BY DEF ReadFrame
<1>3. n \in 0..Len(wire)
  BY <1>2, FrameIs
<1> DEFINE data  == SubSeq(wire, 1, n)
           rest  == SubSeq(wire, n + 1, Len(wire))
           lines == normalize_newlines(buffer \o data)
           split == SplitBlocks(lines)
           d     == FoldLeft(parse_block, decoder, split.blocks)
<1>4. IsSeq(data) /\ IsSeq(rest)
  BY <1>3, LimitsState, PartIs
<1>5. \/ Over("StreamBufferLimit")
      \/ Over(Error(d))
      \/ /\ ~ Len(buffer) + Len(data) > MaxBuffer /\ Error(d) = "none"
         /\ wire' = rest /\ buffer' = split.rest /\ decoder' = Drained(d)
  BY <1>2 DEF Push
<1> HIDE DEF data, rest
<1>6. IsSeq(buffer \o data) /\ Len(buffer \o data) = Len(buffer) + Len(data) /\ Len(data) \in Nat /\ Len(buffer) \in Nat
  BY <1>4, LimitsState, JoinedLength
<1>7. IsSeq(lines) /\ Len(lines) <= Len(buffer \o data)
  BY <1>6, NormalizedFits
<1> HIDE DEF lines
<1>8. IsSeq(split.blocks) /\ IsSeq(split.rest) /\ Len(split.rest) <= Len(lines)
  BY <1>7, SplitFits
<1> HIDE DEF split
<1>9. KeepsTo(stream.protocol, d)
  BY <1>8, LimitsState, BlocksKeep DEF LimitsInv
<1> HIDE DEF d
<1>10. /\ KeepsTo(stream.protocol, DrainedAs(stream.protocol, d))
       /\ ErrorAs(stream.protocol, DrainedAs(stream.protocol, d)) = ErrorAs(stream.protocol, d)
  BY <1>9, LimitsState, DrainKeeps
<1>11. Drained(d) = DrainedAs(stream.protocol, d) /\ Error(d) = ErrorAs(stream.protocol, d)
  BY DEF Drained, DrainedAs, Error, ErrorAs, Inner, InnerAs
<1>12. ASSUME Over("StreamBufferLimit") \/ Over(Error(d)) PROVE LimitsInv'
  BY <1>1, <1>12, OverWithin
<1>13. ASSUME ~ Len(buffer) + Len(data) > MaxBuffer, Error(d) = "none",
              wire' = rest, buffer' = split.rest, decoder' = Drained(d)
       PROVE  LimitsInv'
  <2>1. Len(split.rest) \in Nat /\ Len(lines) \in Nat
    BY <1>7, <1>8, SeqDomain
  <2>2. Len(split.rest) <= MaxBuffer
    BY <1>6, <1>7, <1>8, <1>13, <2>1, LimitsAre
  <2> QED
    BY <1>1, <1>4, <1>8, <1>10, <1>11, <1>13, <2>2 DEF LimitsInv
<1> QED
  BY <1>5, <1>12, <1>13

\* Every step keeps to the limits.
LEMMA NextWithin ==
    ASSUME LimitsInv, [Next]_vars
    PROVE  LimitsInv'
<1>1. CASE Send
  BY <1>1, SendWithin
<1>2. CASE End
  BY <1>2, EndWithin
<1>3. CASE PrintLine
  BY <1>3, PrintLineWithin
<1>4. CASE Pump
  BY <1>4, PumpWithin
<1>5. CASE \/ PumpFails \/ PumpTimeout \/ Kill \/ DropBody \/ UNCHANGED vars
           \/ Chatter \/ PumpWaits \/ Ping \/ Drip \/ SessionWaits
  <2>1. UNCHANGED <<stream, sent, wire, buffer, decoder>>
    BY <1>5 DEF PumpFails, PumpTimeout, Kill, DropBody, Chatter, PumpWaits, Ping, Drip, SessionWaits, vars
  <2> QED
    BY <2>1, WireWithin DEF LimitsInv
<1>6. CASE ReadFrame
  BY <1>6, ReadFrameWithin
<1>7. CASE ReadEnd
  <2>1. UNCHANGED <<stream, sent>> /\ (Over("Transport") \/ UNCHANGED <<wire, buffer, decoder>>)
    BY <1>7 DEF ReadEnd
  <2>2. ASSUME UNCHANGED <<stream, sent, wire, buffer, decoder>> PROVE LimitsInv'
    BY <2>2, WireWithin DEF LimitsInv
  <2> QED
    BY <2>1, <2>2, OverWithin
<1>8. CASE FinishBody
  <2>1. UNCHANGED <<stream, sent>> /\ \E result : Over(result)
    BY <1>8 DEF FinishBody
  <2> QED
    BY <2>1, OverWithin
<1>9. CASE IdleTimeout \/ Interrupt
  <2>1. UNCHANGED <<stream, sent>> /\ Over("stopped")
    BY <1>9 DEF IdleTimeout, Interrupt
  <2> QED
    BY <2>1, OverWithin
<1> QED
  BY <1>1, <1>2, <1>3, <1>4, <1>5, <1>6, <1>7, <1>8, <1>9 DEF Next

\* What is counted bounds what is held.
LEMMA CountsAreHeld ==
    ASSUME NEW e, Within(e), e.error = "none"
    PROVE  /\ e.aggregate_bytes <= MaxBytes
           /\ Len(e.text) + Len(e.reasoning) <= e.aggregate_bytes
           /\ Cardinality(DOMAIN e.tools) <= MAX_STREAM_TOOL_CALLS
<1>1. Counted(e)
  BY DEF Within, Counts
<1>2. PICK a, b, u, g : a = Len(e.text) /\ b = Len(e.reasoning) /\ u = e.usage_bytes /\ g = e.aggregate_bytes
  OBVIOUS
<1>3. a \in Nat /\ b \in Nat /\ u \in Nat /\ g \in Nat /\ a + b + u <= g
  BY <1>1, <1>2, CountedIs
<1>4. a + b <= g
  BY <1>3
<1> QED
  BY <1>1, <1>2, <1>4 DEF Counted

\* What LimitsInv keeps is what the run checks as a part of TranslationIsSound.
LEMMA LimitsAreEnough ==
    ASSUME LimitsInv
    PROVE  LimitsCountWhatIsHeld
<1>1. /\ Len(buffer) <= MaxBuffer /\ stream.protocol \in Protocols
      /\ KeepsTo(stream.protocol, decoder) /\ ErrorAs(stream.protocol, decoder) = "none"
  BY LimitsState DEF LimitsInv
<1>2. CASE stream.protocol = "chat"
  <2>1. Within(decoder) /\ decoder.error = "none" /\ Inner(decoder) = decoder
    BY <1>1, <1>2 DEF KeepsTo, ErrorAs, InnerAs, Inner
  <2> QED
    BY <1>1, <1>2, <2>1, CountsAreHeld DEF LimitsCountWhatIsHeld, Translated
<1>3. CASE stream.protocol = "anthropic"
  <2>1. Within(decoder.inner) /\ decoder.inner.error = "none" /\ Inner(decoder) = decoder.inner
    BY <1>1, <1>3 DEF KeepsTo, WithinInner, ErrorAs, InnerAs, Inner
  <2> QED
    BY <1>1, <1>3, <2>1, CountsAreHeld DEF LimitsCountWhatIsHeld, Translated
<1>4. CASE stream.protocol = "responses"
  BY <1>1, <1>4 DEF KeepsTo, Remembers, LimitsCountWhatIsHeld, Translated
<1> QED
  BY <1>1, <1>2, <1>3, <1>4 DEF Protocols

\* Whatever an upstream sends and however it is framed, plain or not, the buffer keeps to
\* its limit, the aggregate of an emitter to MaxBytes with all of its text and reasoning
\* counted, its calls to MAX_STREAM_TOOL_CALLS, and the bytes of the ids that the Responses
\* decoder counts are those it remembers (LimitsCountWhatIsHeld, a part of TranslationIsSound;
\* push, reserve_aggregate_bytes, record_source and remove_source).
THEOREM LimitsAreKept == Spec => []LimitsCountWhatIsHeld
<1>1. Init => LimitsInv
  BY InitWithin
<1>2. LimitsInv /\ [Next]_vars => LimitsInv'
  BY NextWithin
<1>3. LimitsInv => LimitsCountWhatIsHeld
  BY LimitsAreEnough
<1> QED
  BY <1>1, <1>2, <1>3, PTL DEF Spec
=============================================================================
