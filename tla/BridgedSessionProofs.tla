------------------------ MODULE BridgedSessionProofs ------------------------
(***************************************************************************)
(* Proofs about BridgedSession for the Responses adapter, for any texts,   *)
(* instructions, models, limits, lengths of a session, and answers that    *)
(* are not empty. The adapters of the two other protocols fold the items   *)
(* into messages, which takes induction over data.                         *)
(*                                                                         *)
(* The argument: what the model makes has an id, what the client adds has  *)
(* none or answers a call, so no item of the one repeats one of the other, *)
(* and the longest overlap is what the client repeated, no more and no     *)
(* less. Then history and conversation are equal whenever a request comes. *)
(***************************************************************************)
EXTENDS BridgedSession, FiniteSetTheorems, TLAPS

(* A sequence, of whatever.                                                *)
Sequence(s) == s \in Seq(Range(s))

(* What a model makes, and what a client adds to a conversation.           *)
MadeItem(i) == i.sort \in {"said", "call", "thought"} /\ i.id # 0
NewItem(i) == i.sort = "output" \/ i \in {User(k) : k \in Texts} \cup {Developer}

(* A conversation ends with what the model made.                           *)
EndsMade(s) == Sequence(s) /\ (s # <<>> => MadeItem(s[Len(s)]))
AllNew(s) == Sequence(s) /\ s # <<>> /\ \A n \in 1..Len(s) : NewItem(s[n])

(* The answers and the client the theorems are about: no completed answer  *)
(* is empty, and the id of a warmup is used once.                          *)
Ordinary ==
  /\ \A sorts \in Answers["responses"] :
       sorts \in Seq({"said", "call", "thought"}) /\ sorts # <<>>
  /\ "retry_warmup" \notin Habits["responses"]

(* Between requests the adapter's memory is the conversation, and the id   *)
(* the client may continue from is a response's or the last warmup's.      *)
Remembered ==
  /\ turn \in Nat
  /\ defaults = inForce
  /\ EndsMade(conversation)
  /\ Len(history) <= Limit
  /\ phase # "ended" => history = conversation
  /\ conversation # <<>> => last # 0
  /\ phase = "waiting" /\ conversation = <<>> => last \in {0, warmup_response_id}

Asked ==
  phase = "asking" =>
    /\ turn # 0
    /\ Sequence(wanted.meant)
    /\ sent.messages = wanted.meant /\ sent.previous = 0
    /\ sent.system = IF wanted.instructions = 0 THEN <<>> ELSE <<wanted.instructions>>

Inv == protocol = "responses" /\ Remembered /\ Asked

-----------------------------------------------------------------------------
(* Sequences.                                                              *)
LEMMA IsSequence ==
  ASSUME NEW S, NEW s \in Seq(S)
  PROVE  Sequence(s)
BY DEF Sequence, Range

LEMMA Concat ==
  ASSUME NEW s, NEW t, Sequence(s), Sequence(t)
  PROVE  /\ Sequence(s \o t) /\ Len(s \o t) = Len(s) + Len(t)
         /\ Len(s) \in Nat /\ Len(t) \in Nat
         /\ \A i \in 1..Len(s) : (s \o t)[i] = s[i]
         /\ \A i \in 1..Len(t) : (s \o t)[Len(s) + i] = t[i]
         /\ s # <<>> <=> Len(s) # 0
         /\ t # <<>> <=> Len(t) # 0
<1> DEFINE S == Range(s) \cup Range(t)
<1>1. s \in Seq(S) /\ t \in Seq(S)
  BY DEF Sequence
<1> HIDE DEF S
<1>2. PICK st : st = s \o t
  OBVIOUS
<1>3. st \in Seq(S)
  BY <1>1, <1>2
<1>4. Sequence(st)
  BY <1>3, IsSequence
<1>5. /\ Len(st) = Len(s) + Len(t) /\ Len(s) \in Nat /\ Len(t) \in Nat
      /\ \A i \in 1..Len(s) : st[i] = s[i]
      /\ \A i \in 1..Len(t) : st[Len(s) + i] = t[i]
  BY <1>1, <1>2
<1>6. (s # <<>> <=> Len(s) # 0) /\ (t # <<>> <=> Len(t) # 0)
  BY <1>1
<1> QED
  BY <1>2, <1>4, <1>5, <1>6

LEMMA Whole ==
  ASSUME NEW s, Sequence(s)
  PROVE  s \o <<>> = s /\ <<>> \o s = s /\ SubSeq(s, 1, Len(s)) = s
BY DEF Sequence

LEMMA Assoc ==
  ASSUME NEW s, NEW t, NEW u, Sequence(s), Sequence(t), Sequence(u)
  PROVE  (s \o t) \o u = s \o (t \o u)
<1> DEFINE S == Range(s) \cup Range(t) \cup Range(u)
<1>1. s \in Seq(S) /\ t \in Seq(S) /\ u \in Seq(S)
  BY DEF Sequence
<1> HIDE DEF S
<1> QED
  BY <1>1

(* The last n elements of a sequence and what comes after them.            *)
LEMMA Suffix ==
  ASSUME NEW s, Sequence(s), NEW n \in 0..Len(s)
  PROVE  LET rest == SubSeq(s, Len(s) - n + 1, Len(s))
         IN  Sequence(rest) /\ Len(rest) = n /\ \A i \in 1..n : rest[i] = s[Len(s) - n + i]
<1>1. s \in Seq(Range(s)) /\ Len(s) \in Nat
  BY DEF Sequence
<1>2. PICK rest : rest = SubSeq(s, Len(s) - n + 1, Len(s))
  OBVIOUS
<1>3. PICK S : S = Range(s)
  OBVIOUS
<1>4. rest \in Seq(S) /\ Len(rest) = n /\ \A i \in 1..n : rest[i] = s[Len(s) - n + i]
  BY <1>1, <1>2, <1>3
<1>5. Sequence(rest)
  BY <1>4, IsSequence
<1> QED
  BY <1>2, <1>4, <1>5

LEMMA Remainder ==
  ASSUME NEW s, NEW t, Sequence(s), Sequence(t)
  PROVE  SubSeq(s \o t, Len(s) + 1, Len(s \o t)) = t
<1> DEFINE S == Range(s) \cup Range(t)
<1>1. s \in Seq(S) /\ t \in Seq(S)
  BY DEF Sequence
<1> HIDE DEF S
<1> QED
  BY <1>1

-----------------------------------------------------------------------------
(* What the client adds repeats nothing the model made.                    *)
LEMMA NewIsNotMade ==
  ASSUME NEW made, MadeItem(made), NEW new, NewItem(new)
  PROVE  ~ same_item(made, new)
<1>1. item_identity(made) # 0
  BY DEF MadeItem, item_identity
<1>2. CASE new.sort = "output"
  BY <1>2 DEF MadeItem, same_item, TypeOf
<1>3. CASE new \in {User(k) : k \in Texts} \cup {Developer}
  <2>1. new.sort \in {"user", "developer"} /\ new.id = 0 /\ new.call_id = 0
    BY <1>3 DEF User, Developer, Item
  <2>2. item_identity(new) = 0
    BY <2>1 DEF item_identity
  <2> QED
    BY <2>1, <2>2 DEF MadeItem, same_item
<1> QED
  BY <1>2, <1>3 DEF NewItem

(* The overlap is a number that works while no larger one does.            *)
LEMMA OverlapIs ==
  ASSUME NEW old, NEW new, Sequence(old), Sequence(new),
         NEW n \in Nat, n <= Len(old), n <= Len(new), Repeats(old, new, n),
         \A m \in Nat : n < m /\ m <= Len(old) /\ m <= Len(new) => ~ Repeats(old, new, m)
  PROVE  LongestOverlap(old, new) = n
<1>1. Len(old) \in Nat /\ Len(new) \in Nat
  BY DEF Sequence
<1>2. PICK most : most = IF Len(old) < Len(new) THEN Len(old) ELSE Len(new)
  OBVIOUS
<1>3. n \in 0..most /\ Repeats(old, new, n) /\ \A m \in (n + 1)..most : ~ Repeats(old, new, m)
  BY <1>1, <1>2
<1>4. ASSUME NEW k \in 0..most, Repeats(old, new, k),
             \A m \in (k + 1)..most : ~ Repeats(old, new, m)
      PROVE  k = n
  <2>1. ~ (k < n) /\ ~ (n < k)
    BY <1>1, <1>2, <1>3, <1>4
  <2> QED
    BY <1>1, <1>2, <2>1
<1>5. LongestOverlap(old, new) = CHOOSE k \in 0..most :
        Repeats(old, new, k) /\ \A m \in (k + 1)..most : ~ Repeats(old, new, m)
  BY <1>2 DEF LongestOverlap
<1> QED
  BY <1>3, <1>4, <1>5

(* A client that repeats the last n items of the conversation and goes on  *)
(* is understood: what it repeats is dropped, what it adds is not.         *)
LEMMA MergeIs ==
  ASSUME protocol = "responses", NEW old, EndsMade(old), NEW n \in 0..Len(old),
         NEW new, AllNew(new)
  PROVE  bounded_merge(old, SubSeq(old, Len(old) - n + 1, Len(old)) \o new) = old \o new
<1>1. PICK rest : rest = SubSeq(old, Len(old) - n + 1, Len(old))
  OBVIOUS
<1>2. PICK input : input = rest \o new
  OBVIOUS
<1>3. Sequence(old) /\ Sequence(new) /\ Sequence(rest) /\ Len(rest) = n
      /\ \A i \in 1..n : rest[i] = old[Len(old) - n + i]
  BY <1>1, Suffix DEF EndsMade, AllNew
<1>4. /\ Sequence(input) /\ Len(input) = n + Len(new) /\ Len(new) \in Nat /\ n \in Nat
      /\ \A i \in 1..n : input[i] = rest[i]
      /\ \A i \in 1..Len(new) : input[n + i] = new[i]
  <2>1. n \in Nat
    BY <1>3 DEF Sequence
  <2>2. /\ Sequence(rest \o new) /\ Len(rest \o new) = n + Len(new) /\ Len(new) \in Nat
        /\ \A i \in 1..n : (rest \o new)[i] = rest[i]
        /\ \A i \in 1..Len(new) : (rest \o new)[n + i] = new[i]
    BY <1>3, Concat
  <2> QED
    BY <1>2, <2>1, <2>2
<1>5. Len(old) \in Nat /\ n <= Len(old)
  BY <1>3 DEF Sequence
<1>6. Repeats(old, input, n)
  BY <1>3, <1>4 DEF Repeats, Same, same_item
<1>7. ASSUME NEW m \in Nat, n < m, m <= Len(old), m <= Len(input)
      PROVE  ~ Repeats(old, input, m)
  <2>1. m - n \in 1..Len(new) /\ input[m] = new[m - n]
    BY <1>4, <1>7
  <2>2. NewItem(input[m])
    BY <2>1 DEF AllNew
  <2>3. old # <<>> /\ MadeItem(old[Len(old)])
    <3>1. old # <<>>
      BY <1>5, <1>7
    <3> QED
      BY <3>1 DEF EndsMade
  <2>4. m \in 1..m /\ Len(old) - m + m = Len(old)
    BY <1>5, <1>7
  <2>5. ~ same_item(old[Len(old)], input[m])
    BY <2>2, <2>3, NewIsNotMade
  <2> QED
    BY <2>4, <2>5 DEF Repeats, Same
<1>8. LongestOverlap(old, input) = n
  BY <1>3, <1>4, <1>5, <1>6, <1>7, OverlapIs
<1>9. SubSeq(input, n + 1, Len(input)) = new
  BY <1>2, <1>3, Remainder
<1> QED
  BY <1>1, <1>2, <1>8, <1>9 DEF bounded_merge

-----------------------------------------------------------------------------
(* The client.                                                             *)
LEMMA OwedIs ==
  ASSUME Sequence(conversation)
  PROVE  Sequence(Owed) /\ \A k \in 1..Len(Owed) : Owed[k].sort = "output"
<1> DEFINE open == {n \in DOMAIN conversation :
                      /\ conversation[n].sort = "call"
                      /\ \A m \in DOMAIN conversation : conversation[m] # Output(conversation[n])}
<1>1. DOMAIN conversation = 1..Len(conversation) /\ Len(conversation) \in Nat
  BY DEF Sequence
<1>2. open \subseteq 1..Len(conversation)
  BY <1>1
<1>3. PICK N : N = Cardinality(open)
  OBVIOUS
<1>4. Owed = [k \in 1..N |-> Output(conversation[Nth(open, k)])]
  BY <1>3 DEF Owed
<1> HIDE DEF open
<1>5. IsFiniteSet(open)
  <2>1. IsFiniteSet(1..Len(conversation))
    BY <1>1, FS_Interval
  <2> QED
    BY <1>2, <2>1, FS_Subset
<1>6. N \in Nat
  BY <1>3, <1>5, FS_CardinalityType
<1>7. PICK outputs : outputs = {Output(conversation[Nth(open, k)]) : k \in 1..N}
  OBVIOUS
<1>8. Owed \in Seq(outputs) /\ Len(Owed) = N
  BY <1>4, <1>6, <1>7
<1>9. \A k \in 1..N : Owed[k].sort = "output"
  BY <1>4 DEF Output, Item
<1> QED
  BY <1>8, <1>9, IsSequence

LEMMA OpeningsAreNew ==
  ASSUME NEW opening \in Openings
  PROVE  AllNew(opening) /\ ~ contains_tool_output(opening)
<1>1. CASE \E t \in Texts : opening = <<User(t)>>
  <2>1. PICK t \in Texts : opening = <<User(t)>>
    BY <1>1
  <2>2. opening \in Seq({User(t)}) /\ Len(opening) = 1 /\ opening[1] = User(t)
    BY <2>1
  <2>3. Sequence(opening)
    BY <2>2, IsSequence
  <2>4. NewItem(opening[1]) /\ opening[1].sort # "output" /\ DOMAIN opening = {1} /\ 1..1 = {1}
    BY <2>2 DEF NewItem, User, Item
  <2>5. AllNew(opening)
    <3>1. opening # <<>> /\ \A n \in 1..Len(opening) : n = 1
      BY <2>2
    <3> QED
      BY <2>3, <2>4, <3>1 DEF AllNew
  <2>6. ~ contains_tool_output(opening)
    BY <2>4 DEF contains_tool_output
  <2> QED
    BY <2>5, <2>6
<1>2. CASE \E t \in Texts : opening = <<Developer, User(t)>>
  <2>1. PICK t \in Texts : opening = <<Developer, User(t)>>
    BY <1>2
  <2>2. opening \in Seq({Developer, User(t)}) /\ Len(opening) = 2
        /\ opening[1] = Developer /\ opening[2] = User(t)
    BY <2>1
  <2>3. Sequence(opening)
    BY <2>2, IsSequence
  <2>4. /\ NewItem(opening[1]) /\ NewItem(opening[2]) /\ DOMAIN opening = {1, 2} /\ 1..2 = {1, 2}
        /\ opening[1].sort # "output" /\ opening[2].sort # "output"
    BY <2>2 DEF NewItem, User, Developer, Item
  <2>5. AllNew(opening)
    <3>1. opening # <<>>
      BY <2>2
    <3>2. \A n \in 1..Len(opening) : n = 1 \/ n = 2
      BY <2>2
    <3> QED
      BY <2>3, <2>4, <3>1, <3>2 DEF AllNew
  <2>6. ~ contains_tool_output(opening)
    BY <2>4 DEF contains_tool_output
  <2> QED
    BY <2>5, <2>6
<1> QED
  BY <1>1, <1>2 DEF Openings

LEMMA OwedIsNew ==
  ASSUME Sequence(conversation), Owed # <<>>
  PROVE  AllNew(Owed) /\ contains_tool_output(Owed)
<1>1. Sequence(Owed) /\ \A k \in 1..Len(Owed) : Owed[k].sort = "output"
  BY OwedIs
<1>2. Len(Owed) \in Nat /\ Len(Owed) # 0 /\ DOMAIN Owed = 1..Len(Owed)
  BY <1>1 DEF Sequence
<1> QED
  BY <1>1, <1>2 DEF AllNew, NewItem, contains_tool_output

LEMMA NewsAreNew ==
  ASSUME Sequence(conversation), NEW new \in News
  PROVE  AllNew(new)
<1>1. CASE Owed = <<>>
  BY <1>1, OpeningsAreNew DEF News
<1>2. CASE Owed # <<>> /\ new = Owed
  BY <1>2, OwedIsNew
<1>3. CASE Owed # <<>> /\ \E t \in Texts : new = Owed \o <<User(t)>>
  <2>1. PICK t \in Texts : new = Owed \o <<User(t)>>
    BY <1>3
  <2>2. PICK opening : opening = <<User(t)>>
    OBVIOUS
  <2>3. AllNew(opening) /\ AllNew(Owed)
    BY <1>3, <2>2, OpeningsAreNew, OwedIsNew DEF Openings
  <2>4. /\ Sequence(new) /\ Len(new) = Len(Owed) + Len(opening)
        /\ Len(Owed) \in Nat /\ Len(opening) \in Nat /\ Len(Owed) # 0
        /\ \A i \in 1..Len(Owed) : new[i] = Owed[i]
        /\ \A i \in 1..Len(opening) : new[Len(Owed) + i] = opening[i]
    BY <2>1, <2>2, <2>3, Concat DEF AllNew
  <2>5. ASSUME NEW k \in 1..Len(new) PROVE NewItem(new[k])
    <3>1. CASE k \in 1..Len(Owed)
      BY <2>3, <2>4, <3>1 DEF AllNew
    <3>2. CASE k \notin 1..Len(Owed)
      <4>1. k - Len(Owed) \in 1..Len(opening) /\ k = Len(Owed) + (k - Len(Owed))
        BY <2>4, <3>2
      <4> QED
        BY <2>3, <2>4, <4>1 DEF AllNew
    <3> QED
      BY <3>1, <3>2
  <2>6. new # <<>>
    <3>1. Len(new) # 0
      BY <2>4
    <3> QED
      BY <3>1
  <2> QED
    BY <2>4, <2>5, <2>6 DEF AllNew
<1> QED
  BY <1>1, <1>2, <1>3 DEF News

(* Whatever the client means, the adapter makes of it: of what it repeats, *)
(* leaves out or sends again, and with an id the upstream knows or none.   *)
Replays(w) == history # <<>> /\ (w.previous # 0 \/ contains_tool_output(w.input))
InputOf(w) == IF Replays(w) THEN bounded_merge(history, w.input) ELSE w.input

LEMMA MeantIsAsked ==
  ASSUME Inv, phase = "waiting", NEW w \in Wishes
  PROVE  /\ InputOf(w) = w.meant /\ Sequence(w.meant)
         /\ Replays(w) \/ w.previous \in {0, warmup_response_id}
<1>1. /\ protocol = "responses" /\ history = conversation
      /\ EndsMade(conversation) /\ Sequence(conversation)
      /\ conversation # <<>> => last # 0
      /\ conversation = <<>> => last \in {0, warmup_response_id}
      /\ Len(conversation) \in Nat
  BY DEF Inv, Remembered, EndsMade, Sequence
<1>2. CASE w \in Fresh
  <2>1. PICK o \in Openings : w = Wish(IF conversation = <<>> THEN last ELSE 0, o, o)
    BY <1>2 DEF Fresh
  <2>2. w.input = o /\ w.meant = o /\ w.previous = IF conversation = <<>> THEN last ELSE 0
    BY <2>1 DEF Wish
  <2>3. AllNew(o) /\ ~ contains_tool_output(o)
    BY OpeningsAreNew
  <2>4. ~ Replays(w)
    BY <1>1, <2>2, <2>3 DEF Replays
  <2> QED
    BY <1>1, <2>2, <2>3, <2>4 DEF InputOf, AllNew
<1>3. CASE conversation # <<>> /\ w \in Continued
  <2>1. PICK n \in Repeated, new \in News : w = Wish(last, EndOf(n) \o new, conversation \o new)
    BY <1>3 DEF Continued
  <2>2. w.input = EndOf(n) \o new /\ w.meant = conversation \o new /\ w.previous = last
    BY <2>1 DEF Wish
  <2>3. AllNew(new)
    BY <1>1, NewsAreNew
  <2>4. n \in 0..Len(conversation)
    <3>1. Len(conversation) # 0
      BY <1>1, <1>3 DEF Sequence
    <3> QED
      BY <1>1, <3>1 DEF Repeated
  <2>5. Replays(w)
    BY <1>1, <1>3, <2>2 DEF Replays
  <2>6. bounded_merge(history, w.input) = w.meant
    BY <1>1, <2>2, <2>3, <2>4, MergeIs DEF EndOf
  <2>7. Sequence(w.meant)
    BY <1>1, <2>2, <2>3, Concat DEF AllNew
  <2> QED
    BY <2>5, <2>6, <2>7 DEF InputOf
<1>4. CASE conversation # <<>> /\ w \in Resent
  <2>1. PICK new \in News : w = Wish(0, conversation \o new, conversation \o new)
    BY <1>4 DEF Resent
  <2>2. w.input = conversation \o new /\ w.meant = conversation \o new /\ w.previous = 0
    BY <2>1 DEF Wish
  <2>3. AllNew(new)
    BY <1>1, NewsAreNew
  <2>4. SubSeq(conversation, Len(conversation) - Len(conversation) + 1, Len(conversation)) = conversation
    <3>1. Len(conversation) - Len(conversation) + 1 = 1
      BY <1>1
    <3> QED
      BY <1>1, <3>1, Whole
  <2>5. Len(conversation) \in 0..Len(conversation)
    BY <1>1
  <2>6. bounded_merge(conversation,
          SubSeq(conversation, Len(conversation) - Len(conversation) + 1, Len(conversation)) \o new)
            = conversation \o new
    BY <1>1, <2>3, <2>5, MergeIs
  <2>7. bounded_merge(history, w.input) = w.meant
    BY <1>1, <2>2, <2>4, <2>6
  <2>8. Sequence(w.meant)
    BY <1>1, <2>2, <2>3, Concat DEF AllNew
  <2> QED
    BY <2>2, <2>7, <2>8 DEF InputOf
<1>5. CASE conversation # <<>> /\ Owed # <<>> /\ w \in Orphaned
  <2>1. w.input = Owed /\ w.meant = conversation \o Owed /\ w.previous = 0
    BY <1>5 DEF Orphaned, Wish
  <2>2. AllNew(Owed) /\ contains_tool_output(Owed)
    BY <1>1, <1>5, OwedIsNew
  <2>3. SubSeq(conversation, Len(conversation) - 0 + 1, Len(conversation)) = <<>>
    <3>1. PICK S : S = Range(conversation)
      OBVIOUS
    <3>2. conversation \in Seq(S)
      BY <1>1, <3>1 DEF Sequence
    <3> QED
      BY <1>1, <3>2
  <2>4. bounded_merge(conversation,
          SubSeq(conversation, Len(conversation) - 0 + 1, Len(conversation)) \o Owed)
            = conversation \o Owed
    <3>1. 0 \in 0..Len(conversation)
      BY <1>1
    <3> QED
      BY <1>1, <2>2, <3>1, MergeIs
  <2>5. <<>> \o Owed = Owed
    BY <2>2, Whole DEF AllNew
  <2>6. bounded_merge(history, w.input) = w.meant
    BY <1>1, <2>1, <2>3, <2>4, <2>5
  <2>7. Replays(w)
    BY <1>1, <1>5, <2>1, <2>2 DEF Replays
  <2>8. Sequence(w.meant)
    BY <1>1, <2>1, <2>2, Concat DEF AllNew
  <2> QED
    BY <2>6, <2>7, <2>8 DEF InputOf
<1> QED
  BY <1>2, <1>3, <1>4, <1>5 DEF Wishes

-----------------------------------------------------------------------------
(* The session.                                                            *)
LEMMA InitInv == ASSUME Init, protocol = "responses" PROVE Inv
<1>1. Sequence(<<>>) /\ Len(<<>>) = 0
  BY DEF Sequence
<1>2. 0 <= Limit
  BY SessionAssumption
<1> QED
  BY <1>1, <1>2 DEF Init, Inv, Remembered, Asked, EndsMade

LEMMA WarmupKeeps == ASSUME Inv, ReceiveWarmup PROVE Inv'
<1>1. PICK req \in Warmups :
        defaults' = Captured(protocol, req) /\ inForce' = Remember(req)
  BY DEF ReceiveWarmup
<1>2. req.instructions # 0 /\ req.generate = FALSE
  BY DEF Warmups, Request
<1>3. defaults' = inForce'
  BY <1>1, <1>2 DEF Captured, Remember
<1>4. /\ phase = "waiting" /\ turn' = turn + 1 /\ turn \in Nat
      /\ warmup_response_id' = (IF protocol = "anthropic" THEN 100 ELSE 100 + turn)
      /\ last' = (IF conversation = <<>> THEN warmup_response_id' ELSE last)
      /\ UNCHANGED <<protocol, history, phase, conversation>>
  BY DEF ReceiveWarmup, Receives, Inv, Remembered
<1>5. Remembered'
  BY <1>3, <1>4 DEF Inv, Remembered, EndsMade, Sequence
<1> QED
  BY <1>4, <1>5 DEF Inv, Asked

LEMMA RequestKeeps == ASSUME Inv, ReceiveRequest PROVE Inv'
<1>1. PICK req \in Requests, light \in BOOLEAN :
        LET instructions == Captured(protocol, req)
            prepared == prepare_action(req, instructions)
        IN /\ defaults' = instructions
           /\ inForce' = Remember(req)
           /\ IF light /\ prepared.fits
              THEN /\ phase' = "asking"
                   /\ sent' = prepared.sent
                   /\ wanted' = [model |-> req.model, instructions |-> inForce',
                                 meant |-> req.meant]
              ELSE phase' = "ended"
  BY DEF ReceiveRequest, Ends
<1>2. PICK w \in Wishes, m \in Models, i \in Stated :
        req = Request(TRUE, m, i, w.previous, w.input, w.meant)
  <2> DEFINE From(w) == {Request(TRUE, m, i, w.previous, w.input, w.meant) : m \in Models, i \in Stated}
  <2>1. Requests = UNION {From(w) : w \in Wishes}
    BY DEF Requests
  <2>2. \A w : \A r \in From(w) : \E m \in Models, i \in Stated :
          r = Request(TRUE, m, i, w.previous, w.input, w.meant)
    BY DEF Request
  <2> HIDE DEF From
  <2>3. PICK w \in Wishes : req \in From(w)
    BY <2>1
  <2> QED
    BY <2>2, <2>3
<1>3. /\ req.generate = TRUE /\ req.instructions = i /\ req.previous = w.previous
      /\ req.input = w.input /\ req.meant = w.meant
  BY <1>2 DEF Request
<1>4. /\ phase = "waiting" /\ turn' = turn + 1 /\ turn \in Nat /\ protocol = "responses"
      /\ UNCHANGED <<protocol, history, conversation, last>>
  BY DEF ReceiveRequest, Receives, Inv, Remembered
<1>5. defaults' = Captured(protocol, req) /\ inForce' = Remember(req) /\ defaults' = inForce'
  BY <1>1, <1>3, <1>4 DEF Captured, Remember, Inv, Remembered
<1>6. Remembered'
  <2>1. phase' \in {"asking", "ended"}
    BY <1>1
  <2> QED
    BY <1>4, <1>5, <2>1 DEF Inv, Remembered, EndsMade, Sequence
<1>7. Asked'
  <2>1. SUFFICES ASSUME phase' = "asking" PROVE Asked'
    BY DEF Asked
  <2>2. /\ sent' = prepare_action(req, inForce').sent
        /\ wanted' = [model |-> req.model, instructions |-> inForce', meant |-> w.meant]
    BY <1>1, <1>3, <1>5, <2>1
  <2>3. sent' = PrepareResponses(req, inForce').sent
    BY <1>4, <2>2 DEF prepare_action
  <2>4. /\ InputOf(w) = w.meant /\ Sequence(w.meant)
        /\ Replays(w) \/ w.previous \in {0, warmup_response_id}
    BY <1>4, MeantIsAsked
  <2>5. /\ sent'.messages = InputOf(w)
        /\ sent'.previous = IF (w.previous # 0 /\ w.previous = warmup_response_id) \/ Replays(w)
                            THEN 0 ELSE w.previous
        /\ sent'.system = IF inForce' = 0 THEN <<>> ELSE <<inForce'>>
    BY <1>3, <2>3 DEF PrepareResponses, InputOf, Replays
  <2>6. wanted'.meant = w.meant /\ wanted'.instructions = inForce'
    BY <2>2
  <2>7. sent'.previous = 0
    BY <2>4, <2>5
  <2>8. turn' # 0
    BY <1>4
  <2> QED
    BY <2>4, <2>5, <2>6, <2>7, <2>8 DEF Asked, Sequence
<1> QED
  BY <1>4, <1>6, <1>7 DEF Inv

LEMMA CompleteKeeps == ASSUME Ordinary, Inv, Complete PROVE Inv'
<1>1. PICK sorts \in Answers["responses"], light \in BOOLEAN :
        LET made == [n \in DOMAIN sorts |-> Made(sorts[n], 10 * turn + n)]
        IN /\ conversation' = wanted.meant \o made
           /\ last' = turn
           /\ IF light /\ CommitFits(made) THEN history' = HistoryAfter(made) /\ Continue
              ELSE Ends("SessionHistoryLimit") /\ UNCHANGED history
  BY DEF Complete, Inv
<1>2. PICK made : made = [n \in DOMAIN sorts |-> Made(sorts[n], 10 * turn + n)]
  OBVIOUS
<1>3. /\ phase = "asking" /\ turn \in Nat /\ turn # 0 /\ protocol = "responses"
      /\ UNCHANGED <<protocol, defaults, turn, inForce>>
  BY DEF Complete, Inv, Remembered, Asked
<1>4. Sequence(made) /\ Len(made) # 0 /\ Len(made) \in Nat /\ MadeItem(made[Len(made)])
  <2>1. PICK N : N = Len(sorts)
    OBVIOUS
  <2>2. N \in Nat /\ N # 0 /\ DOMAIN sorts = 1..N /\ sorts[N] \in {"said", "call", "thought"}
    BY <2>1 DEF Ordinary
  <2>3. PICK items : items = {Made(sorts[n], 10 * turn + n) : n \in 1..N}
    OBVIOUS
  <2>4. made = [n \in 1..N |-> Made(sorts[n], 10 * turn + n)]
    BY <1>2, <2>2
  <2>5. made \in Seq(items) /\ Len(made) = N /\ made[N] = Made(sorts[N], 10 * turn + N)
    BY <2>2, <2>3, <2>4
  <2>6. 10 * turn + N # 0
    BY <1>3, <2>2
  <2>7. MadeItem(made[N])
    BY <2>2, <2>5, <2>6 DEF MadeItem, Made, Item
  <2> QED
    BY <2>2, <2>5, <2>7, IsSequence
<1>5. PICK said : said = wanted.meant \o made
  OBVIOUS
<1>6. /\ Sequence(said) /\ Len(said) = Len(wanted.meant) + Len(made) /\ Len(wanted.meant) \in Nat
      /\ \A i \in 1..Len(made) : said[Len(wanted.meant) + i] = made[i]
  <2>1. Sequence(wanted.meant)
    BY <1>3 DEF Inv, Asked
  <2> QED
    BY <1>4, <1>5, <2>1, Concat
<1>7. EndsMade(said) /\ said # <<>>
  <2>1. said[Len(said)] = made[Len(made)]
    BY <1>4, <1>6
  <2>2. Len(said) # 0
    BY <1>4, <1>6
  <2> QED
    BY <1>4, <1>6, <2>1, <2>2 DEF EndsMade
<1>8. conversation' = said /\ last' = turn
  BY <1>1, <1>2, <1>5
<1>9. \/ /\ history' = said /\ Len(said) <= Limit /\ phase' \in {"waiting", "ended"}
      \/ history' = history /\ phase' = "ended"
  <2>1. HistoryAfter(made) = said
    BY <1>3, <1>5 DEF HistoryAfter, Inv, Asked
  <2> QED
    BY <1>1, <1>2, <2>1 DEF CommitFits, Continue, Ends
<1>10. Remembered'
  <2>1. Len(history') <= Limit
    BY <1>9 DEF Inv, Remembered
  <2>2. EndsMade(conversation)'
    BY <1>7, <1>8 DEF EndsMade, Sequence
  <2> QED
    BY <1>3, <1>7, <1>8, <1>9, <2>1, <2>2 DEF Inv, Remembered
<1> QED
  BY <1>3, <1>9, <1>10 DEF Inv, Asked

LEMMA NotCompletedKeeps == ASSUME Ordinary, Inv, NotCompleted PROVE Inv'
<1>1. /\ phase = "asking" /\ phase' \in {"waiting", "ended"} /\ protocol = "responses"
      /\ last' = IF conversation = <<>> THEN 0 ELSE last
      /\ UNCHANGED <<adapter, turn, conversation, inForce>>
  BY DEF NotCompleted, Continue, Ends, Ordinary, Inv
<1>2. Remembered'
  BY <1>1 DEF Inv, Remembered, EndsMade, Sequence, adapter
<1> QED
  BY <1>1, <1>2 DEF Inv, Asked, adapter

LEMMA OthersKeep ==
  ASSUME Inv, UNCHANGED <<adapter, sent, client, wanted>>, phase' \in {phase, "ended"},
         turn' = turn \/ (turn' = turn + 1 /\ phase' = "ended")
  PROVE  Inv'
<1>1. turn' \in Nat
  BY DEF Inv, Remembered
<1>2. Remembered'
  BY <1>1 DEF Inv, Remembered, EndsMade, Sequence, adapter, client
<1>3. Asked'
  BY DEF Inv, Asked, Sequence
<1> QED
  BY <1>2, <1>3 DEF Inv, adapter

LEMMA NextInv == ASSUME Ordinary, Inv, [Next]_vars PROVE Inv'
<1>1. CASE ReceiveStray \/ Break \/ Leave \/ Stop \/ UNCHANGED vars
  BY <1>1, OthersKeep DEF ReceiveStray, Receives, Break, Leave, Stop, Ends, vars
<1> QED
  BY <1>1, WarmupKeeps, RequestKeeps, CompleteKeeps, NotCompletedKeeps DEF Next

LEMMA Invariance == ASSUME Ordinary PROVE Spec => [](protocol = "responses" => Inv)
<1>1. Init => (protocol = "responses" => Inv)
  BY InitInv
<1>2. (protocol = "responses" => Inv) /\ [Next]_vars => (protocol = "responses" => Inv)'
  <2>1. [Next]_vars => protocol' = protocol
    BY DEF Next, ReceiveStray, ReceiveWarmup, ReceiveRequest, Complete, NotCompleted, Break, Leave,
       Stop, adapter, vars
  <2> QED
    BY <2>1, NextInv
<1> QED
  BY <1>1, <1>2, PTL DEF Spec

(* Whatever the client of a Responses session repeats, leaves out or sends *)
(* again, through warmups, failed answers and new starts, the upstream is  *)
(* asked the whole conversation once and in order, under the instructions  *)
(* stated last, and without an id it cannot know.                          *)
THEOREM ResponsesAsksWhatWasMeant ==
  ASSUME Ordinary
  PROVE  Spec => [](protocol = "responses" => AsksWhatWasMeant)
<1>1. ASSUME Inv PROVE AsksWhatWasMeant
  <2>1. SUFFICES ASSUME phase = "asking" PROVE Read = Due /\ sent.previous = 0
    BY DEF AsksWhatWasMeant
  <2>2. /\ protocol = "responses" /\ sent.messages = wanted.meant /\ sent.previous = 0
        /\ sent.system = IF wanted.instructions = 0 THEN <<>> ELSE <<wanted.instructions>>
    BY <1>1, <2>1 DEF Inv, Asked
  <2>3. PICK parts : parts = PartsOfItems(wanted.meant)
    OBVIOUS
  <2>4. PartsOf(sent.messages) = parts
    BY <2>2, <2>3 DEF PartsOf
  <2>5. [n \in DOMAIN sent.system |-> Part("system", sent.system[n])]
          = IF wanted.instructions = 0 THEN <<>> ELSE <<Part("system", wanted.instructions)>>
    BY <2>2
  <2>6. Read = (IF wanted.instructions = 0 THEN <<>> ELSE <<Part("system", wanted.instructions)>>) \o parts
    BY <2>4, <2>5 DEF Read
  <2>7. Due = (IF wanted.instructions = 0 THEN <<>> ELSE <<Part("system", wanted.instructions)>>) \o parts
    BY <2>2, <2>3 DEF Due
  <2> QED
    BY <2>2, <2>6, <2>7
<1> QED
  BY <1>1, Invariance, PTL

(* Between the requests of a Responses session the adapter's history is    *)
(* the conversation up to the last completed response, within its limit.   *)
THEOREM ResponsesHistoryIsTheConversation ==
  ASSUME Ordinary
  PROVE  Spec => [](protocol = "responses" => HistoryIsTheConversation)
<1>1. ASSUME Inv PROVE HistoryIsTheConversation
  <2>1. /\ Len(history) <= Limit /\ protocol = "responses"
        /\ phase = "waiting" => history = conversation
    BY <1>1 DEF Inv, Remembered
  <2>2. PICK parts : parts = PartsOfItems(conversation)
    OBVIOUS
  <2>3. phase = "waiting" => PartsOf(history) = parts
    BY <2>1, <2>2 DEF PartsOf
  <2> QED
    BY <2>1, <2>2, <2>3 DEF HistoryIsTheConversation
<1> QED
  BY <1>1, Invariance, PTL
=============================================================================
