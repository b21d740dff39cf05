-------------------------- MODULE ToolAgentLoopProofs --------------------------
(***************************************************************************)
(* Proofs about ToolAgentLoop, for every length and every limit.  The      *)
(* invariant relates ids and mask position by position and says where the  *)
(* model spoke last: from the last position a cut can leave on, every      *)
(* token is the model's.  With it a run implements Conversation.           *)
(*                                                                         *)
(* About RolloutRequest, which implements Conversation too: there the      *)
(* invariant says where in the ids a header can be.                        *)
(*                                                                         *)
(* And about the two limits on tool calls that MCMultiTurn puts beside it, *)
(* for every table of pools, every number of calls and every rate.         *)
(***************************************************************************)
EXTENDS MCMultiTurn, Lemmas, SequenceTheorems, FiniteSetTheorems, TLAPS

Tokens == {"prompt", "model", "tool"}
Marking == {0, 1}

------------------------------------------------------------------------------
(* Blocks of equal tokens, and what it is to append one.                   *)

\* A block repeats its element.
LEMMA BlockType ==
  ASSUME NEW S, NEW x \in S, NEW n \in Nat, NEW b, b = Block(x, n)
  PROVE  b \in Seq(S) /\ Len(b) = n /\ \A i \in 1 .. n : b[i] = x
BY IsASeq DEF Block

\* What is appended follows what was there.
LEMMA Appended ==
  ASSUME NEW S, NEW s \in Seq(S), NEW b \in Seq(S), NEW u, u = s \o b
  PROVE  /\ u \in Seq(S) /\ Len(u) = Len(s) + Len(b)
         /\ \A i \in 1 .. Len(s) : u[i] = s[i]
         /\ \A i \in 1 .. Len(b) : u[Len(s) + i] = b[i]
<1>1. /\ u \in Seq(S) /\ Len(u) = Len(s) + Len(b)
      /\ \A i \in 1 .. Len(s) + Len(b) :
           u[i] = IF i <= Len(s) THEN s[i] ELSE b[i - Len(s)]
  BY ConcatProperties
<1>2. \A i \in 1 .. Len(b) :
        /\ (Len(s) + i) - Len(s) = i /\ ~ (Len(s) + i <= Len(s))
        /\ Len(s) + i \in 1 .. Len(s) + Len(b)
  OBVIOUS
<1>3. QED
  BY <1>1, <1>2

\* A part of a sequence, element by element.
LEMMA PartOf ==
  ASSUME NEW S, NEW s \in Seq(S), NEW m \in Nat, NEW n \in Nat, m + n <= Len(s),
         NEW u, u = SubSeq(s, m + 1, m + n)
  PROVE  u \in Seq(S) /\ Len(u) = n /\ \A i \in 1 .. n : u[i] = s[m + i]
<1>1. m + 1 \in Int /\ m + n \in Int /\ \A i \in m + 1 .. m + n : s[i] \in S
  OBVIOUS
<1>2. /\ SubSeq(s, m + 1, m + n) \in Seq(S)
      /\ Len(SubSeq(s, m + 1, m + n)) = IF m + 1 <= m + n THEN m + n - (m + 1) + 1 ELSE 0
      /\ \A i \in 1 .. m + n - (m + 1) + 1 : SubSeq(s, m + 1, m + n)[i] = s[m + 1 + i - 1]
  BY <1>1, SubSeqProperties
<1>3. m + n - (m + 1) + 1 = n /\ \A i \in 1 .. n : m + 1 + i - 1 = m + i
  OBVIOUS
<1>4. QED
  BY <1>2, <1>3

------------------------------------------------------------------------------
(* The invariant.                                                          *)

LoopType ==
  /\ pc \in {"generate", "tools", "finish", "done", "raised"}
  /\ ids \in Seq(Tokens) /\ mask \in Seq(Marking)
  /\ calls \in [Calls -> States]

\* The token at a position of the response so far.
Said(i) == ids[PromptLen + i]

\* Position by position the mask marks the model, after a prompt as it came in.
Parallel ==
  /\ Len(ids) = PromptLen + Len(mask)
  /\ \A i \in 1 .. PromptLen : ids[i] = "prompt"
  /\ \A i \in 1 .. Len(mask) : mask[i] = (IF Said(i) = "model" THEN 1 ELSE 0)

\* The tools never fill the response, and the model speaks before it ends.
ModelLast ==
  /\ \A i \in 1 .. Len(mask) : i >= ResponseLength => Said(i) = "model"
  /\ pc \in {"tools", "finish"} => Len(mask) > 0 /\ Said(Len(mask)) = "model"
  /\ pc \in {"generate", "tools"} => Len(mask) < ResponseLength

\* Between two turns of the tools no call is under way.
CallsOver == pc \in {"generate", "finish", "done"} => Gathered

\* What Finish returned.
Returned == pc = "done" => Aligned /\ EndsWithModel

LInv == LoopType /\ Parallel /\ ModelLast /\ CallsOver /\ Returned

\* The invariant holds at first.
LEMMA LInvInit == Init => LInv
<1>1. SUFFICES ASSUME Init PROVE LInv
  OBVIOUS
<1>2. /\ ids \in Seq(Tokens) /\ Len(ids) = PromptLen
      /\ \A i \in 1 .. PromptLen : ids[i] = "prompt"
  <2>1. "prompt" \in Tokens /\ PromptLen \in Nat /\ ids = Block("prompt", PromptLen)
    BY <1>1, ToolAgentAssumption DEF Init, Tokens
  <2>2. ids \in Seq(Tokens)
    BY <2>1, BlockType
  <2>3. Len(ids) = PromptLen
    BY <2>1, BlockType
  <2>4. \A i \in 1 .. PromptLen : ids[i] = "prompt"
    BY <2>1 DEF Block
  <2>5. QED
    BY <2>2, <2>3, <2>4
<1>3. mask \in Seq(Marking) /\ Len(mask) = 0 /\ pc = "generate"
  BY <1>1, EmptySeq DEF Init
<1>4. calls \in [Calls -> States] /\ Gathered
  BY <1>1 DEF Init, States, Gathered
<1>5. ResponseLength \in Nat \ {0} /\ PromptLen \in Nat
  BY ToolAgentAssumption
<1>6. QED
  BY <1>2, <1>3, <1>4, <1>5 DEF LInv, LoopType, Parallel, ModelLast, CallsOver, Returned

\* The lists as they are after n tokens of author x were appended.
Extended(x, m, n) ==
  /\ ids' = ids \o Block(x, n) /\ mask' = mask \o Block(m, n)

\* Extending the ids leaves what was there ...
LEMMA IdsExtended ==
  ASSUME ids \in Seq(Tokens), NEW x \in Tokens, NEW n \in Nat, ids' = ids \o Block(x, n)
  PROVE  /\ ids' \in Seq(Tokens) /\ Len(ids') = Len(ids) + n
         /\ \A i \in 1 .. Len(ids) : ids'[i] = ids[i]
         /\ \A i \in 1 .. n : ids'[Len(ids) + i] = x
<1> DEFINE b == Block(x, n)
<1>1. ids' = ids \o b
  OBVIOUS
<1>2. b \in Seq(Tokens) /\ Len(b) = n /\ \A i \in 1 .. n : b[i] = x
  BY BlockType
<1> HIDE DEF b
<1>3. ids' \in Seq(Tokens)
  BY <1>1, <1>2, Appended
<1>4. Len(ids') = Len(ids) + Len(b)
  <2>1. Len(ids \o b) = Len(ids) + Len(b)
    BY <1>2, ConcatProperties
  <2>2. QED
    BY <1>1, <2>1
<1>5. \A i \in 1 .. Len(ids) : ids'[i] = ids[i]
  BY <1>1, <1>2, Appended
<1>6. \A i \in 1 .. Len(b) : ids'[Len(ids) + i] = b[i]
  BY <1>1, <1>2, Appended
<1>7. QED
  BY <1>2, <1>3, <1>4, <1>5, <1>6

\* ... so does extending the mask ...
LEMMA MaskExtended ==
  ASSUME mask \in Seq(Marking), NEW x \in Marking, NEW n \in Nat, mask' = mask \o Block(x, n)
  PROVE  /\ mask' \in Seq(Marking) /\ Len(mask') = Len(mask) + n
         /\ \A i \in 1 .. Len(mask) : mask'[i] = mask[i]
         /\ \A i \in 1 .. n : mask'[Len(mask) + i] = x
<1> DEFINE b == Block(x, n)
<1>1. mask' = mask \o b
  OBVIOUS
<1>2. b \in Seq(Marking) /\ Len(b) = n /\ \A i \in 1 .. n : b[i] = x
  BY BlockType
<1> HIDE DEF b
<1>3. mask' \in Seq(Marking)
  BY <1>1, <1>2, Appended
<1>4. Len(mask') = Len(mask) + Len(b)
  <2>1. Len(mask \o b) = Len(mask) + Len(b)
    BY <1>2, ConcatProperties
  <2>2. QED
    BY <1>1, <2>1
<1>5. \A i \in 1 .. Len(mask) : mask'[i] = mask[i]
  BY <1>1, <1>2, Appended
<1>6. \A i \in 1 .. Len(b) : mask'[Len(mask) + i] = b[i]
  BY <1>1, <1>2, Appended
<1>7. QED
  BY <1>2, <1>3, <1>4, <1>5, <1>6

\* ... and both together stay parallel.
LEMMA ExtendedParallel ==
  ASSUME LoopType, Parallel, NEW n \in Nat, NEW x \in Tokens, NEW m \in Marking,
         m = (IF x = "model" THEN 1 ELSE 0), Extended(x, m, n)
  PROVE  /\ ids' \in Seq(Tokens) /\ mask' \in Seq(Marking) /\ Parallel'
         /\ Len(mask') = Len(mask) + n /\ Len(mask) \in Nat
         /\ \A i \in 1 .. Len(mask) : Said(i)' = Said(i)
         /\ \A i \in Len(mask) + 1 .. Len(mask) + n : Said(i)' = x
<1> DEFINE L == Len(mask)
           P == PromptLen
<1>1. /\ ids \in Seq(Tokens) /\ mask \in Seq(Marking) /\ L \in Nat /\ P \in Nat
      /\ Len(ids) = P + L /\ \A i \in 1 .. P : ids[i] = "prompt"
      /\ \A i \in 1 .. L : mask[i] = (IF ids[P + i] = "model" THEN 1 ELSE 0)
  BY ToolAgentAssumption DEF LoopType, Parallel, Said
<1> HIDE DEF P
<1>2. /\ ids' \in Seq(Tokens) /\ Len(ids') = Len(ids) + n
      /\ \A i \in 1 .. Len(ids) : ids'[i] = ids[i]
      /\ \A i \in 1 .. n : ids'[Len(ids) + i] = x
  BY <1>1, IdsExtended DEF Extended
<1>3. /\ mask' \in Seq(Marking) /\ Len(mask') = Len(mask) + n
      /\ \A i \in 1 .. Len(mask) : mask'[i] = mask[i]
      /\ \A i \in 1 .. n : mask'[Len(mask) + i] = m
  <2>1. mask \in Seq(Marking) /\ mask' = mask \o Block(m, n)
    BY <1>1 DEF Extended
  <2> HIDE DEF L
  <2>2. QED
    BY ONLY <2>1, MaskExtended, m \in Marking, n \in Nat
<1> HIDE DEF L
<1>4. \A i \in 1 .. L : ids'[P + i] = ids[P + i]
  <2>1. \A i \in 1 .. L : P + i \in 1 .. P + L
    BY <1>1
  <2>2. QED
    BY <1>1, <1>2, <2>1
<1>5. \A i \in L + 1 .. L + n : ids'[P + i] = x
  <2>1. \A i \in L + 1 .. L + n : i - L \in 1 .. n /\ Len(ids) + (i - L) = P + i
    BY <1>1
  <2>2. \A i \in L + 1 .. L + n : ids'[Len(ids) + (i - L)] = x
    BY <1>2, <2>1
  <2>3. QED
    BY <2>1, <2>2
<1>6. \A i \in 1 .. P : ids'[i] = "prompt"
  BY <1>1, <1>2
<1>a. \A i \in L + 1 .. L + n : mask'[i] = m
  <2>1. \A i \in L + 1 .. L + n : i - L \in 1 .. n /\ L + (i - L) = i
    BY <1>1
  <2>2. QED
    BY <1>3, <2>1 DEF L
<1>7. \A i \in 1 .. L + n : mask'[i] = (IF ids'[P + i] = "model" THEN 1 ELSE 0)
  <2>1. SUFFICES ASSUME NEW i \in 1 .. L + n
                 PROVE  mask'[i] = (IF ids'[P + i] = "model" THEN 1 ELSE 0)
    OBVIOUS
  <2>2. CASE i \in 1 .. L
    BY <1>1, <1>3, <1>4, <2>2 DEF L
  <2>3. CASE i \in L + 1 .. L + n
    BY <1>a, <1>5, <2>3
  <2>4. QED
    BY <1>1, <2>1, <2>2, <2>3
<1>8. Len(ids') = P + (L + n)
  BY <1>1, <1>2
<1>9. Parallel'
  BY <1>3, <1>6, <1>7, <1>8 DEF Parallel, Said, P, L
<1>10. QED
  BY <1>1, <1>2, <1>3, <1>4, <1>5, <1>9 DEF Said, L, P

\* The response is what follows the prompt, cut; its last token is the model's.
LEMMA FinishReturns ==
  ASSUME LInv, Finish
  PROVE  /\ Aligned' /\ EndsWithModel'
         /\ \E k \in 0 .. Len(mask) :
              /\ k <= ResponseLength /\ (k = Len(mask) \/ k = ResponseLength)
              /\ Len(output'.response) = k
              /\ \A i \in 1 .. k : output'.response[i] = Said(i)
              /\ output'.response \in Seq(Tokens)
              /\ output'.mask = SubSeq(mask, 1, k)
<1> DEFINE L == Len(mask)
           P == PromptLen
           n == ResponseLength
           k == IF L < n THEN L ELSE n
           R == SubSeq(ids, P + 1, P + L)
<1>1. /\ ids \in Seq(Tokens) /\ mask \in Seq(Marking) /\ L \in Nat /\ P \in Nat
      /\ n \in Nat \ {0} /\ Len(ids) = P + L
      /\ \A i \in 1 .. P : ids[i] = "prompt"
      /\ \A i \in 1 .. L : mask[i] = (IF ids[P + i] = "model" THEN 1 ELSE 0)
      /\ \A i \in 1 .. L : i >= n => ids[P + i] = "model"
      /\ L > 0 /\ ids[P + L] = "model"
  BY ToolAgentAssumption DEF Finish, LInv, LoopType, Parallel, ModelLast, Said
<1>2. /\ output'.prompt = SubSeq(ids, 1, Len(ids) - L)
      /\ output'.response = Cut(Last(ids, L))
      /\ output'.mask = Cut(mask)
  BY DEF Finish
<1>3. Last(ids, L) = R
  <2>1. Last(ids, L) = SubSeq(ids, Len(ids) - L + 1, Len(ids))
    BY <1>1 DEF Last
  <2>2. Len(ids) - L + 1 = P + 1
    BY <1>1
  <2>3. QED
    BY <1>1, <2>1, <2>2
<1> HIDE DEF L, P, n
<1>4. /\ R \in Seq(Tokens) /\ Len(R) = L /\ \A i \in 1 .. L : R[i] = ids[P + i]
  BY <1>1, PartOf
<1> HIDE DEF R
<1>5. k \in 1 .. L /\ k <= n /\ (k = L \/ k = n)
  BY <1>1
<1>6. Cut(R) = SubSeq(R, 1, k) /\ Cut(mask) = SubSeq(mask, 1, k)
  BY <1>4 DEF Cut, n, L
<1> HIDE DEF k
<1>7. /\ SubSeq(R, 1, k) \in Seq(Tokens) /\ Len(SubSeq(R, 1, k)) = k
      /\ \A i \in 1 .. k : SubSeq(R, 1, k)[i] = ids[P + i]
  BY <1>1, <1>4, <1>5, SubSeqProperties
<1>8. /\ Len(SubSeq(mask, 1, k)) = k
      /\ \A i \in 1 .. k : SubSeq(mask, 1, k)[i] = mask[i]
  BY <1>1, <1>5, SubSeqProperties DEF L
<1>9. output'.response = SubSeq(R, 1, k) /\ output'.mask = SubSeq(mask, 1, k)
  BY <1>2, <1>3, <1>6
<1>10. output'.prompt = Block("prompt", P)
  <2>1. output'.prompt = SubSeq(ids, 1, P)
    BY <1>1, <1>2
  <2>2. /\ SubSeq(ids, 1, P) \in Seq(Tokens) /\ Len(SubSeq(ids, 1, P)) = P
        /\ \A i \in 1 .. P : SubSeq(ids, 1, P)[i] = ids[i]
    BY <1>1, SubSeqProperties
  <2>3. /\ Block("prompt", P) \in Seq(Tokens) /\ Len(Block("prompt", P)) = P
        /\ \A i \in 1 .. P : Block("prompt", P)[i] = "prompt"
    <3>1. "prompt" \in Tokens
      BY DEF Tokens
    <3>2. Block("prompt", P) \in Seq(Tokens)
      BY <1>1, <3>1, BlockType
    <3>3. Len(Block("prompt", P)) = P
      BY <1>1, <3>1, BlockType
    <3>4. \A i \in 1 .. P : Block("prompt", P)[i] = "prompt"
      BY DEF Block
    <3>5. QED
      BY <3>2, <3>3, <3>4
  <2>4. SubSeq(ids, 1, P) = Block("prompt", P)
    BY <1>1, <2>2, <2>3, SeqEqual
  <2>5. QED
    BY <2>1, <2>4
<1>11. Marks(output'.mask, output'.response)
  BY <1>1, <1>5, <1>7, <1>8, <1>9 DEF Marks
<1>12. Aligned'
  BY <1>5, <1>7, <1>9, <1>10, <1>11 DEF Aligned, Marks, P, n
<1>13. EndsWithModel'
  <2>1. ids[P + k] = "model"
    BY <1>1, <1>5
  <2>2. Len(output'.response) = k /\ output'.response[k] = "model"
    BY <1>5, <1>7, <1>9, <2>1
  <2>3. QED
    BY <1>5, <2>2 DEF EndsWithModel
<1>14. QED
  BY <1>5, <1>7, <1>9, <1>12, <1>13 DEF Said, L, P, n

\* A step that touches neither list and does not return.
LEMMA ListsKept ==
  ASSUME LInv, UNCHANGED <<ids, mask>>
  PROVE  /\ Parallel' /\ ids' \in Seq(Tokens) /\ mask' \in Seq(Marking)
         /\ \A i : Said(i)' = Said(i)
         /\ (pc' \in {"tools", "finish"} => pc \in {"tools", "finish"})
              /\ (pc' \in {"generate", "tools"} => pc \in {"generate", "tools"})
              => ModelLast'
<1>1. Parallel /\ ModelLast /\ ids' = ids /\ mask' = mask
  BY DEF LInv
<1>2. \A i : Said(i)' = Said(i)
  BY <1>1 DEF Said
<1>3. Parallel'
  BY <1>1, <1>2 DEF Parallel
<1>4. QED
  BY <1>1, <1>2, <1>3 DEF LInv, LoopType, ModelLast

\* The model speaks, for as many tokens as the response has left.
LEMMA LInvGenerate ==
  ASSUME LInv, Generate
  PROVE  LInv'
<1>1. PICK n \in 1 .. MaxModelLen - Len(ids), k \in 0 .. MaxCalls : Answer(n, k)
  BY DEF Generate
<1>2. n \in Nat /\ n > 0 /\ MaxModelLen \in Nat /\ ResponseLength \in Nat \ {0}
  BY ToolAgentAssumption DEF MaxModelLen, LInv, LoopType
<1>3. pc = "generate" /\ LoopType /\ Parallel /\ ModelLast /\ Gathered
  BY DEF Generate, LInv, CallsOver
<1>4. /\ ids' \in Seq(Tokens) /\ mask' \in Seq(Marking) /\ Parallel'
      /\ Len(mask') = Len(mask) + n /\ Len(mask) \in Nat
      /\ \A i \in 1 .. Len(mask) : Said(i)' = Said(i)
      /\ \A i \in Len(mask) + 1 .. Len(mask) + n : Said(i)' = "model"
  <2>1. "model" \in Tokens /\ 1 \in Marking /\ 1 = (IF "model" = "model" THEN 1 ELSE 0)
    BY DEF Tokens, Marking
  <2>2. Extended("model", 1, n)
    BY <1>1 DEF Answer, Extended
  <2>3. QED
    BY ONLY <1>2, <1>3, <2>1, <2>2, ExtendedParallel
<1>5. /\ pc' \in {"finish", "tools"}
      /\ pc' = "tools" => Len(mask) + n < ResponseLength
  BY <1>1, <1>2, <1>4 DEF Answer, TooLong
<1>6. /\ calls' \in [Calls -> States]
      /\ pc' = "finish" => calls' = calls
  BY <1>1, <1>3 DEF Answer, LoopType, States
<1>7. ModelLast'
  <2>1. \A i \in 1 .. Len(mask') : i >= ResponseLength => Said(i)' = "model"
    BY <1>2, <1>3, <1>4 DEF ModelLast
  <2>2. Len(mask') > 0 /\ Said(Len(mask))' = "model"
    BY <1>2, <1>4 DEF Said
  <2>3. QED
    BY <1>4, <1>5, <2>1, <2>2 DEF ModelLast, Said
<1>8. CallsOver'
  BY <1>3, <1>5, <1>6 DEF CallsOver, Gathered
<1>9. QED
  BY <1>4, <1>5, <1>6, <1>7, <1>8 DEF LInv, LoopType, Returned

\* The answers of all tools are appended, or the response is full.
LEMMA LInvToolsAnswer ==
  ASSUME LInv, ToolsAnswer
  PROVE  LInv'
<1>1. pc = "tools" /\ Gathered /\ calls' = calls /\ output' = output
  BY DEF ToolsAnswer
<1>2. LoopType /\ Parallel /\ ModelLast
  BY DEF LInv
<1>3. Gathered' /\ calls' \in [Calls -> States]
  BY <1>1, <1>2 DEF Gathered, LoopType
<1>4. CASE pc' = "finish" /\ UNCHANGED <<ids, mask, userTurns>>
  <2>1. /\ Parallel' /\ ModelLast' /\ ids' \in Seq(Tokens) /\ mask' \in Seq(Marking)
    BY <1>1, <1>4, ListsKept
  <2>2. QED
    BY <1>3, <1>4, <2>1 DEF LInv, LoopType, CallsOver, Returned
<1>5. ASSUME NEW t \in 1 .. ToolLen, ~ TooLong(Len(mask) + t), AppendAnswers(t)
      PROVE  LInv'
  <2>1. pc' = "generate" /\ Extended("tool", 0, t) /\ t \in Nat
    BY <1>5 DEF AppendAnswers, Extended
  <2>2. /\ ids' \in Seq(Tokens) /\ mask' \in Seq(Marking) /\ Parallel'
        /\ Len(mask') = Len(mask) + t /\ Len(mask) \in Nat
    <3>1. "tool" \in Tokens /\ 0 \in Marking /\ 0 = (IF "tool" = "model" THEN 1 ELSE 0)
      BY DEF Tokens, Marking
    <3>2. QED
      BY ONLY <1>2, <2>1, <3>1, ExtendedParallel
  <2>3. Len(mask') < ResponseLength
    BY <1>5, <2>1, <2>2, ToolAgentAssumption DEF TooLong
  <2>4. ModelLast'
    BY <2>1, <2>2, <2>3, ToolAgentAssumption DEF ModelLast
  <2>5. QED
    BY <1>3, <2>1, <2>2, <2>4 DEF LInv, LoopType, CallsOver, Returned
<1>6. QED
  BY <1>4, <1>5 DEF ToolsAnswer, AppendAnswers

\* The response is cut off and returned.
LEMMA LInvFinish ==
  ASSUME LInv, Finish
  PROVE  LInv'
<1>1. pc = "finish" /\ pc' = "done" /\ UNCHANGED <<ids, mask, calls>>
  BY DEF Finish
<1>2. Aligned' /\ EndsWithModel'
  BY FinishReturns
<1>3. /\ Parallel' /\ ModelLast' /\ ids' \in Seq(Tokens) /\ mask' \in Seq(Marking)
  BY <1>1, ListsKept
<1>4. Gathered' /\ calls' \in [Calls -> States]
  BY <1>1 DEF LInv, LoopType, CallsOver, Gathered
<1>5. QED
  BY <1>1, <1>2, <1>3, <1>4 DEF LInv, LoopType, CallsOver, Returned

\* A call under way means the tools are asked, or were when gather raised.
LEMMA LInvCall ==
  ASSUME LInv, NEW c \in Calls, Call(c)
  PROVE  LInv' /\ pc \in {"tools", "raised"} /\ UNCHANGED <<pc, talk>>
<1>1. /\ UNCHANGED <<pc, talk>>
      /\ calls[c] \in {"called", "open", "answered", "failed"}
      /\ \E s \in States : calls' = [calls EXCEPT ![c] = s]
  BY DEF Call, Create, Execute, Release, Goes, States
<1>2. pc \in {"tools", "raised"}
  BY <1>1 DEF LInv, LoopType, CallsOver, Gathered
<1>3. calls' \in [Calls -> States]
  BY <1>1 DEF LInv, LoopType
<1>4. ids' = ids /\ mask' = mask /\ pc' = pc
  BY <1>1 DEF talk
<1>5. /\ Parallel' /\ ModelLast' /\ ids' \in Seq(Tokens) /\ mask' \in Seq(Marking)
  BY <1>4, ListsKept
<1>6. QED
  BY <1>1, <1>2, <1>3, <1>4, <1>5 DEF LInv, LoopType, CallsOver, Returned

\* An error leaves what was said.
LEMMA LInvRaise ==
  ASSUME LInv, EngineRaises \/ GatherRaises
  PROVE  LInv'
<1>1. pc' = "raised" /\ UNCHANGED <<talk, calls>>
  BY DEF EngineRaises, GatherRaises
<1>2. ids' = ids /\ mask' = mask
  BY <1>1 DEF talk
<1>3. /\ Parallel' /\ ModelLast' /\ ids' \in Seq(Tokens) /\ mask' \in Seq(Marking)
  BY <1>1, <1>2, ListsKept
<1>4. QED
  BY <1>1, <1>3 DEF LInv, LoopType, CallsOver, Returned

\* Nothing changes.
LEMMA LInvStutter ==
  ASSUME LInv, UNCHANGED vars
  PROVE  LInv'
BY DEF LInv, LoopType, Parallel, ModelLast, CallsOver, Returned, Said, vars, Gathered,
       Aligned, EndsWithModel, Marks

\* Every step preserves the invariant ...
LEMMA LInvNext == LInv /\ [Next]_vars => LInv'
<1>1. SUFFICES ASSUME LInv, [Next]_vars PROVE LInv'
  OBVIOUS
<1>2. CASE Generate
  BY <1>1, <1>2, LInvGenerate
<1>3. CASE ToolsAnswer
  BY <1>1, <1>3, LInvToolsAnswer
<1>4. CASE Finish
  BY <1>1, <1>4, LInvFinish
<1>5. CASE EngineRaises \/ GatherRaises
  BY <1>1, <1>5, LInvRaise
<1>6. ASSUME NEW c \in Calls, Call(c) PROVE LInv'
  BY <1>1, <1>6, LInvCall
<1>7. CASE UNCHANGED vars
  BY <1>1, <1>7, LInvStutter
<1>8. QED
  BY <1>1, <1>2, <1>3, <1>4, <1>5, <1>6, <1>7 DEF Next, Run, Over

\* ... and so it always holds.
LEMMA LInvAlways == Spec => []LInv
<1>1. Init => LInv
  BY LInvInit
<1>2. LInv /\ [Next]_vars => LInv'
  BY LInvNext
<1>3. QED
  BY <1>1, <1>2, PTL DEF Spec

------------------------------------------------------------------------------
(* What follows for every run.                                             *)

\* Whatever ended the loop and wherever the response was cut, it ends with a
\* token of the model.
THEOREM ModelHasLastWord == Spec => []EndsWithModel
<1>1. LInv => EndsWithModel
  BY DEF LInv, Returned, EndsWithModel
<1>2. QED
  BY <1>1, LInvAlways, PTL

\* The output has the prompt as it came in, and its mask marks the model.
THEOREM OutputAligned == Spec => []Aligned
<1>1. LInv => Aligned
  BY DEF LInv, Returned, Aligned
<1>2. QED
  BY <1>1, LInvAlways, PTL

\* The engine is called only with room in its context.
THEOREM AlwaysRoom == Spec => []RoomToSpeak
<1>1. LInv => RoomToSpeak
  <2>1. SUFFICES ASSUME LInv, pc = "generate" PROVE Len(ids) < MaxModelLen
    BY DEF RoomToSpeak
  <2>2. Len(ids) = PromptLen + Len(mask) /\ Len(mask) < ResponseLength /\ Len(mask) \in Nat
    BY <2>1 DEF LInv, LoopType, Parallel, ModelLast
  <2>3. QED
    BY <2>2, ToolAgentAssumption DEF MaxModelLen
<1>2. QED
  BY <1>1, LInvAlways, PTL

\* A run that returns holds no instance of a tool.
THEOREM ReturnsEmptyHanded == Spec => []NothingHeld
<1>1. LInv => NothingHeld
  BY DEF LInv, CallsOver, Gathered, NothingHeld, Holding
<1>2. QED
  BY <1>1, LInvAlways, PTL

------------------------------------------------------------------------------
(* Why a run comes to an end.                                              *)

\* Three steps for each call of a tool ...
CallsLeft ==
  [c \in Calls |->
     IF calls[c] = "called" THEN 3
     ELSE IF calls[c] = "open" THEN 2
     ELSE IF calls[c] \in {"answered", "failed"} THEN 1
     ELSE 0]

\* ... make this many a turn, and one more to answer, ...
TurnSteps == SumOf([c \in Calls |-> 3], Calls) + 1

\* ... for as many turns as there are tokens left in the response.
RunLeft ==
  SumOf(CallsLeft, Calls)
    + (IF pc \in {"generate", "tools"} THEN TurnSteps * (ResponseLength - Len(mask)) + 2
       ELSE IF pc = "finish" THEN 1
       ELSE 0)

\* Until the run is over somebody has a step to take: the engine has room, a call
\* goes on or has escaped, or there is an error or an answer to go on with.
RunGoesOn ==
  /\ RoomToSpeak
  /\ pc = "tools" =>
       \/ \E c \in Calls : calls[c] \in {"called", "escaped"} \cup Holding
       \/ Gathered /\ ((\E c \in Calls : calls[c] = "error") \/ 1 .. ToolLen # {})

\* The sums are numbers, and a turn's calls take no more than a turn's steps.
LEMMA CallsLeftSum ==
  ASSUME LoopType
  PROVE  /\ SumOf(CallsLeft, Calls) \in Nat
         /\ TurnSteps \in Nat \ {0} /\ SumOf(CallsLeft, Calls) < TurnSteps
<1>1. IsFiniteSet(Calls)
  BY ToolAgentAssumption, FirstNumbers DEF Calls
<1> DEFINE a == CallsLeft
           b == [c \in Calls |-> 3]
<1>2. \A c \in Calls : a[c] \in Nat /\ b[c] \in Nat /\ a[c] \in Int /\ b[c] \in Int /\ a[c] <= b[c]
  BY DEF CallsLeft
<1> HIDE DEF a, b
<1>3. /\ SumOf(a, Calls) \in Int /\ SumOf(b, Calls) \in Int
      /\ SumOf(a, Calls) <= SumOf(b, Calls) /\ SumOf(a, Calls) \in Nat
  BY <1>1, <1>2, SumsOrdered
<1>4. TurnSteps = SumOf(b, Calls) + 1
  BY DEF TurnSteps, b
<1>5. SumOf(CallsLeft, Calls) = SumOf(a, Calls)
  BY DEF a
<1>6. QED
  BY <1>3, <1>4, <1>5

\* Less room, less turns.
LEMMA TurnsShrink ==
  ASSUME NEW w \in Nat, NEW a \in Nat, NEW b \in Nat, b < a
  PROVE  w * a \in Nat /\ w * b \in Nat /\ w * b + w <= w * a
<1>1. PICK d \in Nat : a = b + 1 + d
  <2>1. a - b - 1 \in Nat /\ a = b + 1 + (a - b - 1)
    OBVIOUS
  <2>2. QED
    BY <2>1
<1>2. w * a = w * b + w + w * d
  BY <1>1, SMTT(30)
<1>3. w * b \in Nat /\ w * d \in Nat /\ w * a \in Nat
  BY SMTT(30)
<1> DEFINE x == w * a
           y == w * b
           z == w * d
<1>4. x \in Nat /\ y \in Nat /\ z \in Nat /\ x = y + w + z
  BY <1>2, <1>3
<1> HIDE DEF x, y, z
<1>5. y + w <= x
  BY <1>4
<1>6. QED
  BY <1>4, <1>5 DEF x, y

\* A step of the loop leaves less of the run, ...
LEMMA RunGetsOn ==
  ASSUME LInv, LInv', Run \/ EngineRaises
  PROVE  RunLeft' < RunLeft
<1> DEFINE s == SumOf(CallsLeft, Calls)
           t == SumOf(CallsLeft', Calls)
           m == ResponseLength - Len(mask)
           k == ResponseLength - Len(mask')
<1>1. /\ s \in Nat /\ TurnSteps \in Nat \ {0} /\ s < TurnSteps
      /\ t \in Nat /\ t < TurnSteps
  <2>1. (LoopType => /\ SumOf(CallsLeft, Calls) \in Nat
                     /\ TurnSteps \in Nat \ {0} /\ SumOf(CallsLeft, Calls) < TurnSteps)
    BY CallsLeftSum
  <2>2. IsFiniteSet(Calls)
    BY ToolAgentAssumption, FirstNumbers DEF Calls
  <2> DEFINE a == CallsLeft'
             b == [c \in Calls |-> 3]
  <2>3. \A c \in Calls : a[c] \in Nat /\ b[c] \in Nat /\ a[c] \in Int /\ b[c] \in Int /\ a[c] <= b[c]
    BY DEF CallsLeft
  <2> HIDE DEF a, b
  <2>4. /\ SumOf(a, Calls) \in Int /\ SumOf(b, Calls) \in Int
        /\ SumOf(a, Calls) <= SumOf(b, Calls) /\ SumOf(a, Calls) \in Nat
    BY <2>2, <2>3, SumsOrdered
  <2>5. TurnSteps = SumOf(b, Calls) + 1
    BY DEF TurnSteps, b
  <2>6. t \in Nat /\ t < TurnSteps
    BY <2>4, <2>5 DEF a
  <2>7. QED
    BY <2>1, <2>6 DEF LInv
<1>2. /\ RunLeft = s + (IF pc \in {"generate", "tools"} THEN TurnSteps * m + 2
                         ELSE IF pc = "finish" THEN 1 ELSE 0)
      /\ RunLeft' = t + (IF pc' \in {"generate", "tools"} THEN TurnSteps * k + 2
                          ELSE IF pc' = "finish" THEN 1 ELSE 0)
  BY DEF RunLeft, SumOf, SumsUp, TurnSteps, Calls
<1>3. calls' = calls => t = s
  <2>1. calls' = calls => CallsLeft' = CallsLeft
    BY DEF CallsLeft
  <2>2. QED
    BY <2>1
<1>4. /\ pc \in {"generate", "tools"} => m \in Nat
      /\ pc' \in {"generate", "tools"} => k \in Nat
  <2>1. Len(mask) \in Nat /\ Len(mask') \in Nat /\ ResponseLength \in Nat
    BY ToolAgentAssumption DEF LInv, LoopType
  <2>2. /\ pc \in {"generate", "tools"} => Len(mask) < ResponseLength
        /\ pc' \in {"generate", "tools"} => Len(mask') < ResponseLength
    BY DEF LInv, ModelLast
  <2>3. QED
    BY <2>1, <2>2
<1>5. \/ pc \in {"generate", "tools"} /\ pc' \in {"generate", "tools"} /\ k < m
      \/ pc \in {"generate", "tools"} /\ pc' \in {"finish", "raised"} /\ calls' = calls
      \/ pc = "finish" /\ pc' = "done" /\ calls' = calls
  <2>1. Len(mask) \in Nat /\ ResponseLength \in Nat /\ mask \in Seq(Marking)
    BY ToolAgentAssumption DEF LInv, LoopType
  <2>2. ASSUME NEW n \in Nat \ {0}, NEW y \in Marking, mask' = mask \o Block(y, n)
        PROVE  k < m
    <3> DEFINE b == Block(y, n)
    <3>1. b \in Seq(Marking) /\ Len(b) = n /\ mask' = mask \o b
      BY <2>2, BlockType
    <3> HIDE DEF b
    <3>2. Len(mask') = Len(mask) + n
      BY <2>1, <3>1, Appended
    <3>3. QED
      BY <2>1, <3>2
  <2>3. CASE Generate
    <3>1. PICK n \in 1 .. MaxModelLen - Len(ids), j \in 0 .. MaxCalls : Answer(n, j)
      BY <2>3 DEF Generate
    <3>2. n \in Nat \ {0} /\ 1 \in Marking
      BY ToolAgentAssumption DEF Marking, MaxModelLen, LInv, LoopType
    <3>3. /\ mask' = mask \o Block(1, n)
          /\ pc' = "tools" \/ (pc' = "finish" /\ calls' = calls)
      BY <3>1 DEF Answer
    <3>4. k < m /\ pc = "generate"
      BY <2>2, <2>3, <3>2, <3>3 DEF Generate
    <3>5. QED
      BY <3>3, <3>4
  <2>4. CASE ToolsAnswer
    <3>1. pc = "tools" /\ calls' = calls
      BY <2>4 DEF ToolsAnswer
    <3>2. CASE pc' = "finish"
      BY <3>1, <3>2
    <3>3. CASE pc' # "finish"
      <4>1. PICK n \in 1 .. ToolLen : AppendAnswers(n)
        BY <2>4, <3>3 DEF ToolsAnswer
      <4>2. pc' = "generate" /\ mask' = mask \o Block(0, n)
        BY <3>3, <4>1 DEF AppendAnswers
      <4>3. n \in Nat \ {0} /\ 0 \in Marking
        BY ToolAgentAssumption DEF Marking
      <4>4. QED
        BY <2>2, <3>1, <4>2, <4>3
    <3>4. QED
      BY <3>2, <3>3
  <2>5. CASE GatherRaises \/ EngineRaises
    BY <2>5 DEF GatherRaises, EngineRaises
  <2>6. CASE Finish
    BY <2>6 DEF Finish
  <2>7. QED
    BY <2>3, <2>4, <2>5, <2>6 DEF Run
<1> HIDE DEF s, t, m, k
<1>6. CASE pc \in {"generate", "tools"} /\ pc' \in {"generate", "tools"} /\ k < m
  <2> DEFINE x == TurnSteps * m
             y == TurnSteps * k
  <2>1. x \in Nat /\ y \in Nat /\ y + TurnSteps <= x
    BY <1>1, <1>4, <1>6, TurnsShrink
  <2>2. RunLeft = s + (x + 2) /\ RunLeft' = t + (y + 2)
    BY <1>2, <1>6
  <2> HIDE DEF x, y
  <2>3. QED
    BY <1>1, <2>1, <2>2
<1>7. CASE pc \in {"generate", "tools"} /\ pc' \in {"finish", "raised"} /\ calls' = calls
  <2> DEFINE x == TurnSteps * m
  <2>1. x \in Nat
    <3>1. m \in Nat /\ TurnSteps \in Nat
      BY <1>1, <1>4, <1>7
    <3>2. QED
      BY <3>1, SMTT(30)
  <2>2. RunLeft = s + (x + 2) /\ RunLeft' \in {t + 1, t + 0}
    BY <1>2, <1>7
  <2> HIDE DEF x
  <2>3. QED
    BY <1>1, <1>3, <1>7, <2>1, <2>2
<1>8. CASE pc = "finish" /\ pc' = "done" /\ calls' = calls
  <2>1. RunLeft = s + 1 /\ RunLeft' = t + 0
    BY <1>2, <1>8
  <2>2. QED
    BY <1>1, <1>3, <1>8, <2>1
<1>9. QED
  BY <1>5, <1>6, <1>7, <1>8

\* ... and so does a step of a call, also of one that nobody waits for any more.
LEMMA CallGetsOn ==
  ASSUME LInv, NEW c \in Calls, Call(c)
  PROVE  RunLeft' < RunLeft
<1>1. UNCHANGED <<pc, talk>>
  BY LInvCall
<1>2. PICK x \in States :
        /\ calls' = [calls EXCEPT ![c] = x]
        /\ \/ calls[c] = "called" /\ x \in {"open", "error"}
           \/ calls[c] = "open" /\ x \in {"answered", "failed"}
           \/ calls[c] \in {"answered", "failed"} /\ x \in {"done", "error", "escaped"}
  BY DEF Call, Create, Execute, Release, Goes, States
<1> DEFINE a == CallsLeft
           b == CallsLeft'
<1>3. /\ \A d \in Calls : a[d] \in Int /\ b[d] \in Int /\ b[d] <= a[d] /\ b[d] \in Nat
      /\ b[c] < a[c]
  <2>1. calls'[c] = x /\ \A d \in Calls : d # c => calls'[d] = calls[d]
    BY <1>2 DEF LInv, LoopType
  <2>2. \A d \in Calls : d # c => b[d] = a[d]
    BY <2>1 DEF CallsLeft
  <2>3. b[c] < a[c] /\ b[c] <= a[c]
    BY <1>2, <2>1 DEF CallsLeft
  <2>4. \A d \in Calls : a[d] \in Nat /\ b[d] \in Nat
    BY DEF CallsLeft
  <2> HIDE DEF a, b
  <2>5. QED
    BY <2>2, <2>3, <2>4
<1>4. IsFiniteSet(Calls)
  BY ToolAgentAssumption, FirstNumbers DEF Calls
<1> DEFINE r == IF pc \in {"generate", "tools"} THEN TurnSteps * (ResponseLength - Len(mask)) + 2
                ELSE IF pc = "finish" THEN 1 ELSE 0
<1>5. RunLeft = SumOf(a, Calls) + r
  BY DEF RunLeft
<1>6. RunLeft' = SumOf(b, Calls) + r
  BY <1>1 DEF RunLeft, SumOf, SumsUp, TurnSteps, Calls, talk
<1>7. r \in Int
  <2>1. TurnSteps \in Nat /\ ResponseLength - Len(mask) \in Int
    BY CallsLeftSum, ToolAgentAssumption DEF LInv, LoopType
  <2> DEFINE m == ResponseLength - Len(mask)
             z == TurnSteps * m
  <2> HIDE DEF m
  <2>2. z \in Int
    BY <2>1, SMTT(30) DEF m
  <2> HIDE DEF z
  <2>3. z + 2 \in Int
    BY <2>2
  <2>4. QED
    BY <2>3 DEF z, m
<1> HIDE DEF a, b, r
<1>8. /\ SumOf(b, Calls) \in Int /\ SumOf(a, Calls) \in Int
      /\ SumOf(b, Calls) < SumOf(a, Calls)
  BY <1>3, <1>4, SumsOrdered
<1>9. QED
  BY <1>5, <1>6, <1>7, <1>8

\* When an answer has at least a token, a run never waits for nothing; and each step of the loop or of a call, in whatever
\* order, leaves less of it: without limits on turns it is the response's length
\* that ends it, because every turn and every answer adds to the mask.
THEOREM RunMustEnd ==
  ASSUME ToolLen # 0
  PROVE  Spec =>
           /\ [](RunLeft \in Nat /\ RunGoesOn)
           /\ [][Run \/ EngineRaises \/ (\E c \in Calls : Call(c)) => RunLeft' < RunLeft]_vars
<1>1. LInv => RunLeft \in Nat
  <2> SUFFICES ASSUME LInv PROVE RunLeft \in Nat
    OBVIOUS
  <2> DEFINE m == ResponseLength - Len(mask)
             x == TurnSteps * m
             s == SumOf(CallsLeft, Calls)
  <2>1. s \in Nat /\ TurnSteps \in Nat
    BY CallsLeftSum DEF LInv
  <2>2. pc \in {"generate", "tools"} => m \in Nat
    BY ToolAgentAssumption DEF LInv, LoopType, ModelLast
  <2> HIDE DEF m
  <2>3. pc \in {"generate", "tools"} => x \in Nat
    BY <2>1, <2>2, SMTT(30)
  <2>4. RunLeft = s + (IF pc \in {"generate", "tools"} THEN x + 2
                       ELSE IF pc = "finish" THEN 1 ELSE 0)
    BY DEF RunLeft, m
  <2> HIDE DEF s, x
  <2>5. QED
    BY <2>1, <2>3, <2>4
<1>2. LInv => RunGoesOn
  <2> SUFFICES ASSUME LInv PROVE RunGoesOn
    OBVIOUS
  <2>1. \A c \in Calls :
          calls[c] \in {"none", "done", "error", "escaped"} \cup {"called"} \cup Holding
    BY DEF LInv, LoopType, States, Holding
  <2>2. RoomToSpeak
    <3>1. SUFFICES ASSUME pc = "generate" PROVE Len(ids) < MaxModelLen
      BY DEF RoomToSpeak
    <3>2. Len(ids) = PromptLen + Len(mask) /\ Len(mask) < ResponseLength /\ Len(mask) \in Nat
      BY <3>1 DEF LInv, LoopType, Parallel, ModelLast
    <3>3. QED
      BY <3>2, ToolAgentAssumption DEF MaxModelLen
  <2>3. 1 \in 1 .. ToolLen
    BY ToolAgentAssumption
  <2>4. QED
    BY <2>1, <2>2, <2>3 DEF RunGoesOn, Gathered
<1>3. LInv /\ LInv' =>
        (Run \/ EngineRaises \/ (\E c \in Calls : Call(c)) => RunLeft' < RunLeft)
  BY RunGetsOn, CallGetsOn
<1>4. QED
  BY <1>1, <1>2, <1>3, LInvAlways, PTL

------------------------------------------------------------------------------
(* A run is a conversation: each step is one of Conversation's or none.    *)

Who(x) == IF x = "model" THEN "model" ELSE "env"

\* What Conversation sees of a run.
TText == IF pc = "done" THEN Authors(output.response)
                        ELSE Authors(SubSeq(ids, PromptLen + 1, Len(ids)))
TMask == IF pc = "done" THEN output.mask ELSE mask

Voices == {"model", "env"}

\* The authors of a response, token by token.
LEMMA AuthorsOf ==
  ASSUME NEW s \in Seq(Tokens)
  PROVE  /\ Authors(s) \in Seq(Voices) /\ Len(Authors(s)) = Len(s)
         /\ \A i \in 1 .. Len(s) : Authors(s)[i] = Who(s[i])
<1> DEFINE a == Authors(s)
<1>1. a = [i \in 1 .. Len(s) |-> Who(s[i])] /\ Len(s) \in Nat
  BY DEF Authors, Who
<1>2. \A i \in 1 .. Len(s) : a[i] \in Voices
  BY <1>1 DEF Who, Voices
<1>3. a \in Seq(Voices)
  BY <1>1, <1>2, IsASeq
<1>4. QED
  BY <1>1, <1>3

\* While it is going on, that is everything said so far.
TextShape ==
  /\ TText \in Seq(Voices) /\ Len(TText) = Len(mask)
  /\ \A i \in 1 .. Len(mask) : TText[i] = Who(Said(i))
  /\ TMask = mask

\* The text of a response has the shape of a conversation.
LEMMA TextIs == LInv /\ pc # "done" => TextShape
<1> SUFFICES ASSUME LInv, pc # "done" PROVE TextShape
  OBVIOUS
<1> DEFINE L == Len(mask)
           P == PromptLen
           R == SubSeq(ids, P + 1, P + L)
<1>1. /\ ids \in Seq(Tokens) /\ L \in Nat /\ P \in Nat /\ Len(ids) = P + L
  BY ToolAgentAssumption DEF LInv, LoopType, Parallel
<1>2. TText = Authors(R) /\ TMask = mask
  BY <1>1 DEF TText, TMask
<1> HIDE DEF L, P
<1>3. R \in Seq(Tokens) /\ Len(R) = L /\ \A i \in 1 .. L : R[i] = ids[P + i]
  BY <1>1, PartOf
<1> HIDE DEF R
<1>4. /\ Authors(R) \in Seq(Voices) /\ Len(Authors(R)) = L
      /\ \A i \in 1 .. L : Authors(R)[i] = Who(R[i])
  BY <1>3, AuthorsOf
<1>5. QED
  BY <1>2, <1>3, <1>4 DEF TextShape, Said, L, P

\* Tokens appended to the lists are tokens appended to the conversation.
LEMMA TextGrows ==
  ASSUME LInv, LInv', pc # "done", pc' # "done",
         NEW n \in Nat, NEW x \in Tokens, NEW m \in Marking,
         m = (IF x = "model" THEN 1 ELSE 0), Extended(x, m, n)
  PROVE  TText' = TText \o Block(Who(x), n) /\ TMask' = TMask \o Block(m, n)
<1> DEFINE L == Len(mask)
           b == Block(Who(x), n)
           u == TText \o b
<1>1. /\ Len(mask') = L + n /\ L \in Nat
      /\ \A i \in 1 .. L : Said(i)' = Said(i)
      /\ \A i \in L + 1 .. L + n : Said(i)' = x
  BY ExtendedParallel DEF LInv
<1>2. /\ TText \in Seq(Voices) /\ Len(TText) = L
      /\ \A i \in 1 .. L : TText[i] = Who(Said(i))
      /\ TMask = mask
  BY TextIs DEF TextShape
<1>3. /\ TText' \in Seq(Voices) /\ Len(TText') = L + n
      /\ \A i \in 1 .. L + n : TText'[i] = Who(Said(i)')
      /\ TMask' = mask'
  <2>1. /\ TText' \in Seq(Voices) /\ Len(TText') = Len(mask')
        /\ \A i \in 1 .. Len(mask') : TText'[i] = Who(Said(i)')
        /\ TMask' = mask'
    <3>1. (LInv /\ pc # "done" => TextShape)'
      BY TextIs, PTL
    <3>2. QED
      BY <3>1 DEF TextShape
  <2>2. QED
    BY <1>1, <2>1
<1>4. b \in Seq(Voices) /\ Len(b) = n /\ \A i \in 1 .. n : b[i] = Who(x)
  <2>1. Who(x) \in Voices
    BY DEF Who, Voices
  <2>2. QED
    BY <2>1, BlockType
<1> HIDE DEF L, b
<1>5. /\ u \in Seq(Voices) /\ Len(u) = L + n
      /\ \A i \in 1 .. L + n : u[i] = IF i <= L THEN TText[i] ELSE b[i - L]
  BY <1>2, <1>4, ConcatProperties
<1> HIDE DEF u
<1>6. \A i \in 1 .. L + n : u[i] = TText'[i]
  <2>1. SUFFICES ASSUME NEW i \in 1 .. L + n PROVE u[i] = TText'[i]
    OBVIOUS
  <2>2. CASE i <= L
    <3>1. u[i] = TText[i] /\ i \in 1 .. L
      BY <1>1, <1>5, <2>2
    <3>2. TText'[i] = TText[i]
      BY <1>1, <1>2, <1>3, <3>1
    <3>3. QED
      BY <3>1, <3>2
  <2>3. CASE ~ (i <= L)
    <3>1. i \in L + 1 .. L + n /\ i - L \in 1 .. n
      BY <1>1, <2>3
    <3>2. QED
      BY <1>1, <1>3, <1>4, <1>5, <2>3, <3>1
  <2>4. QED
    BY <2>2, <2>3
<1>7. TText' = u
  BY <1>3, <1>5, <1>6, SeqEqual
<1>8. QED
  BY <1>2, <1>3, <1>7 DEF Extended, u, b

\* A loop starts as a conversation does ...
LEMMA TalkInit == Init => Talk!Init
<1>1. SUFFICES ASSUME Init PROVE Talk!Init
  OBVIOUS
<1>2. pc = "generate" /\ mask = <<>> /\ Len(mask) = 0
  BY <1>1 DEF Init
<1>3. TText \in Seq(Voices) /\ Len(TText) = 0 /\ TMask = mask
  BY <1>1, <1>2, LInvInit, TextIs DEF TextShape
<1>4. TText = <<>>
  BY <1>3, EmptySeq
<1>5. QED
  BY <1>2, <1>3, <1>4 DEF Talk!Init, TText, TMask

\* The model's turn.
LEMMA TalkGenerate ==
  ASSUME LInv, LInv', Generate
  PROVE  Talk!Next
<1>1. PICK n \in 1 .. MaxModelLen - Len(ids), k \in 0 .. MaxCalls : Answer(n, k)
  BY DEF Generate
<1>2. n \in Nat /\ n \in 1 .. MaxModelLen /\ 0 \in 0 .. MaxModelLen
  BY ToolAgentAssumption DEF MaxModelLen, LInv, LoopType
<1>3. pc # "done" /\ pc' # "done"
  BY <1>1 DEF Generate, Answer
<1>4. TText' = TText \o Block("model", n) /\ TMask' = TMask \o Block(1, n)
  <2>1. "model" \in Tokens /\ 1 \in Marking /\ 1 = (IF "model" = "model" THEN 1 ELSE 0)
    BY DEF Tokens, Marking
  <2>2. Extended("model", 1, n)
    BY <1>1 DEF Answer, Extended
  <2>3. Who("model") = "model"
    BY DEF Who
  <2>4. QED
    BY <1>2, <1>3, <2>1, <2>2, <2>3, TextGrows
<1>5. TText \in Seq(Voices) /\ TMask \in Seq(Marking)
  BY <1>3, TextIs DEF TextShape, LInv, LoopType
<1>6. \A x : Block(x, 0) = <<>>
  BY DEF Block
<1>7. TText \o Block("env", 0) = TText /\ TMask \o Block(0, 0) = TMask
  BY <1>5, <1>6, ConcatEmptySeq
<1>8. /\ TText' = TText \o Block("env", 0) \o Block("model", n)
      /\ TMask' = TMask \o Block(0, 0) \o Block(1, n)
  BY <1>4, <1>7
<1>9. Talk!Speak(0, n)
  BY <1>3, <1>8 DEF Talk!Speak, Talk!Block, Block, TText, TMask
<1>10. QED
  BY <1>2, <1>9 DEF Talk!Next

\* The environment's turn, unless it would fill the response.
LEMMA TalkAnswer ==
  ASSUME LInv, LInv', ToolsAnswer
  PROVE  Talk!Next \/ UNCHANGED <<TText, TMask, pc # "done">>
<1>1. CASE pc' = "finish" /\ UNCHANGED <<ids, mask, userTurns>>
  <2>1. pc # "done" /\ pc' # "done"
    BY <1>1 DEF ToolsAnswer
  <2>2. QED
    BY <1>1, <2>1 DEF TText, TMask
<1>2. ASSUME NEW t \in 1 .. ToolLen, ~ TooLong(Len(mask) + t), AppendAnswers(t)
      PROVE  Talk!Next
  <2>1. pc # "done" /\ pc' # "done" /\ Extended("tool", 0, t) /\ t \in Nat
    BY <1>2, SMTT(30) DEF ToolsAnswer, AppendAnswers, Extended
  <2>2. t \in 1 .. MaxModelLen
    BY <1>2, ToolAgentAssumption, SMTT(30) DEF MaxModelLen, TooLong, LInv, LoopType
  <2>3. TText' = TText \o Block("env", t) /\ TMask' = TMask \o Block(0, t)
    <3>1. "tool" \in Tokens /\ 0 \in Marking /\ 0 = (IF "tool" = "model" THEN 1 ELSE 0)
      BY DEF Tokens, Marking
    <3>2. Who("tool") = "env"
      BY DEF Who
    <3>3. QED
      BY <2>1, <3>1, <3>2, TextGrows
  <2>4. Talk!Hear(t)
    BY <2>1, <2>3 DEF Talk!Hear, Talk!Block, Block, TText, TMask
  <2>5. QED
    BY <2>2, <2>4 DEF Talk!Next
<1>3. QED
  BY <1>1, <1>2 DEF ToolsAnswer, AppendAnswers

\* The end, cut to length.
LEMMA TalkFinish ==
  ASSUME LInv, LInv', Finish
  PROVE  Talk!Next
<1> DEFINE L == Len(mask)
<1>1. PICK k \in 0 .. L :
        /\ k <= ResponseLength /\ (k = L \/ k = ResponseLength)
        /\ Len(output'.response) = k
        /\ \A i \in 1 .. k : output'.response[i] = Said(i)
        /\ output'.response \in Seq(Tokens)
        /\ output'.mask = SubSeq(mask, 1, k)
  BY FinishReturns
<1>2. pc = "finish" /\ pc' = "done"
  BY DEF Finish
<1>3. /\ TText \in Seq(Voices) /\ Len(TText) = L
      /\ \A i \in 1 .. L : TText[i] = Who(Said(i))
      /\ TMask = mask /\ L \in Nat
  BY <1>2, TextIs DEF TextShape, LInv, LoopType
<1>4. /\ TText' = Authors(output'.response) /\ TMask' = output'.mask
  BY <1>2 DEF TText, TMask, Authors
<1>5. /\ TText' \in Seq(Voices) /\ Len(TText') = k
      /\ \A i \in 1 .. k : TText'[i] = Who(Said(i))
  <2> DEFINE r == output'.response
  <2>1. r \in Seq(Tokens) /\ Len(r) = k /\ \A i \in 1 .. k : r[i] = Said(i)
    BY <1>1
  <2> HIDE DEF r
  <2>2. /\ Authors(r) \in Seq(Voices) /\ Len(Authors(r)) = Len(r)
        /\ \A i \in 1 .. Len(r) : Authors(r)[i] = Who(r[i])
    BY <2>1, AuthorsOf
  <2>3. QED
    BY <1>4, <2>1, <2>2 DEF r
<1> HIDE DEF L
<1> DEFINE u == SubSeq(TText, 1, k)
<1>6. /\ u \in Seq(Voices) /\ Len(u) = k
      /\ \A i \in 1 .. k : u[i] = TText[i]
  BY <1>1, <1>3, SubSeqProperties
<1> HIDE DEF u
<1>7. \A i \in 1 .. k : u[i] = TText'[i]
  BY <1>1, <1>3, <1>5, <1>6
<1>8. TText' = u
  BY <1>5, <1>6, <1>7, SeqEqual
<1>9. TMask' = SubSeq(TMask, 1, k)
  BY <1>1, <1>3, <1>4
<1>10. k = ResponseLength \/ \A i \in k + 1 .. Len(TText) : i <= ResponseLength => TText[i] = "env"
  BY <1>1, <1>3
<1>11. k \in 0 .. Len(TText)
  BY <1>1, <1>3
<1>12. Talk!Close(k)
  BY <1>1, <1>2, <1>8, <1>9, <1>10 DEF Talk!Close, TText, TMask, u
<1>13. QED
  BY <1>11, <1>12 DEF Talk!Next, TText

\* Steps that neither speak nor return.
LEMMA TalkQuiet ==
  ASSUME ids' = ids, mask' = mask, output' = output, pc' = pc \/ (pc # "done" /\ pc' # "done")
  PROVE  UNCHANGED <<TText, TMask, pc # "done">>
BY DEF TText, TMask, Authors

\* ... and every step of it is one of the conversation, or none.
LEMMA TalkNext == LInv /\ LInv' /\ [Next]_vars => [Talk!Next]_(Talk!vars)
<1>1. SUFFICES ASSUME LInv, LInv', [Next]_vars
               PROVE  Talk!Next \/ UNCHANGED <<TText, TMask, pc # "done">>
  BY DEF Talk!vars, TText, TMask
<1>2. CASE Generate
  BY <1>1, <1>2, TalkGenerate
<1>3. CASE ToolsAnswer
  BY <1>1, <1>3, TalkAnswer
<1>4. CASE Finish
  BY <1>1, <1>4, TalkFinish
<1>5. CASE EngineRaises \/ GatherRaises
  BY <1>5, TalkQuiet DEF EngineRaises, GatherRaises, talk
<1>6. ASSUME NEW c \in Calls, Call(c)
      PROVE  UNCHANGED <<TText, TMask, pc # "done">>
  BY <1>6, TalkQuiet DEF Call, Create, Execute, Release, talk
<1>7. CASE UNCHANGED vars
  BY <1>7, TalkQuiet DEF vars
<1>8. QED
  BY <1>1, <1>2, <1>3, <1>4, <1>5, <1>6, <1>7 DEF Next, Run, Over

\* Every run of the loop is a conversation as the trainer expects it: turns are
\* only ever added, the mask marks the model's, and only the end is cut.
THEOREM RunIsConversation == Spec => ImplementsConversation
<1>1. Init => Talk!Init
  BY TalkInit
<1>2. LInv /\ LInv' /\ [Next]_vars => [Talk!Next]_(Talk!vars)
  BY TalkNext
<1>3. QED
  BY <1>1, <1>2, LInvAlways, PTL DEF Spec, ImplementsConversation, Talk!Spec

------------------------------------------------------------------------------
(* A request of the SGLang rollout (RolloutRequest).  The invariant says    *)
(* where a header can be: at the end of the prompt, or behind it when the   *)
(* loop was left because the context is full.                               *)

PromptSize == PromptLen + HeaderLen

RTokens == {"prompt", "header", "model", "tool", "user"}

HeaderAtEnd(s) ==
  Len(s) >= HeaderLen /\ SubSeq(s, Len(s) - HeaderLen + 1, Len(s)) = Request!Header

RequestLists ==
  /\ rIds \in Seq(RTokens) /\ rMask \in Seq(Marking)
  /\ Len(rMask) = Len(rIds) /\ Len(rIds) >= PromptSize

Unheaded == HeaderAtEnd(rIds) => Len(rIds) = PromptSize

RequestInv ==
  /\ rPc \in {"loop", "left", "raised", "final"}
  /\ rPc # "final" => RequestLists
  /\ rPc = "loop" => Unheaded
  /\ rPc = "loop" /\ rState = "tool_calling" => ~ HeaderAtEnd(rIds)
  /\ rPc = "left" => /\ rFinish \in {"stop", "length"}
                     /\ Unheaded \/ Len(rIds) >= PromptSize + HeaderLen

LEMMA RequestConstants ==
  /\ PromptLen \in Nat \ {0} /\ HeaderLen \in Nat \ {0} /\ ToolLen \in Nat
  /\ PromptLength \in Nat /\ ResponseLength \in Nat \ {0} /\ EngineLen \in Nat
  /\ Turns \in Nat \ {0} /\ UserTurns \in Nat
BY MultiTurnAssumption DEF Request!RolloutRequestAssumption

\* The header and the prompt, as lists of tokens.
LEMMA HeaderIs ==
  /\ Request!Header \in Seq(RTokens) /\ Len(Request!Header) = HeaderLen
  /\ \A i \in 1 .. HeaderLen : Request!Header[i] = "header"
  /\ Len(Request!PromptIds) = PromptSize /\ Request!PromptIds \in Seq(RTokens)
<1>1. HeaderLen \in Nat /\ PromptLen \in Nat /\ "header" \in RTokens /\ "prompt" \in RTokens
  BY RequestConstants DEF RTokens
<1>2. Request!Header = Block("header", HeaderLen)
  BY DEF Request!Header, Request!Block, Block
<1>3. /\ Request!Header \in Seq(RTokens) /\ Len(Request!Header) = HeaderLen
      /\ \A i \in 1 .. HeaderLen : Request!Header[i] = "header"
  <2>1. Request!Header \in Seq(RTokens)
    BY <1>1, <1>2, BlockType
  <2>2. Len(Request!Header) = HeaderLen
    BY <1>1, <1>2, BlockType
  <2>3. \A i \in 1 .. HeaderLen : Request!Header[i] = "header"
    BY <1>1, <1>2, BlockType, ZenonT(40)
  <2>4. QED
    BY <2>1, <2>2, <2>3
<1> DEFINE p == Request!Block("prompt", PromptLen)
<1>4. p = Block("prompt", PromptLen)
  BY DEF Request!Block, Block
<1>5. p \in Seq(RTokens) /\ Len(p) = PromptLen
  BY <1>1, <1>4, BlockType
<1>6. Request!PromptIds = p \o Request!Header
  BY DEF Request!PromptIds
<1> HIDE DEF p
<1>7. Request!PromptIds \in Seq(RTokens)
  BY <1>3, <1>5, <1>6, Appended
<1>8. Len(Request!PromptIds) = Len(p) + Len(Request!Header)
  BY <1>3, <1>5, <1>6, ConcatProperties
<1>9. QED
  BY <1>3, <1>5, <1>7, <1>8 DEF PromptSize

\* What ends with a header has header tokens there.
LEMMA HeaderTokens ==
  ASSUME NEW s \in Seq(RTokens), HeaderAtEnd(s)
  PROVE  \A i \in Len(s) - HeaderLen + 1 .. Len(s) : s[i] = "header"
<1> DEFINE n == Len(s) - HeaderLen
           u == SubSeq(s, n + 1, n + HeaderLen)
<1>1. HeaderLen \in Nat /\ Len(s) \in Nat /\ Len(s) >= HeaderLen
  BY RequestConstants DEF HeaderAtEnd
<1>2. n \in Nat /\ n + HeaderLen = Len(s)
  BY <1>1
<1>3. u = Request!Header
  BY <1>2 DEF HeaderAtEnd
<1> HIDE DEF n
<1>4. \A i \in 1 .. HeaderLen : u[i] = s[n + i]
  BY <1>1, <1>2, PartOf
<1> HIDE DEF u
<1>5. ASSUME NEW i \in n + 1 .. Len(s) PROVE s[i] = "header"
  <2>1. i - n \in 1 .. HeaderLen /\ n + (i - n) = i
    BY <1>1, <1>2
  <2>2. s[i] = u[i - n]
    BY <1>4, <2>1
  <2>3. QED
    BY <1>3, <2>1, <2>2, HeaderIs
<1>6. QED
  BY <1>5 DEF n

\* Lists that end with somebody else's token do not end with a header.
LEMMA EndsOtherwise ==
  ASSUME NEW s \in Seq(RTokens), NEW x \in RTokens \ {"header"}, NEW n \in Nat \ {0},
         NEW u, u = s \o Block(x, n)
  PROVE  ~ HeaderAtEnd(u)
<1> DEFINE b == Block(x, n)
<1>1. b \in Seq(RTokens) /\ Len(b) = n /\ b[n] = x
  BY BlockType
<1> HIDE DEF b
<1>2. /\ u \in Seq(RTokens) /\ Len(u) = Len(s) + n
      /\ u[Len(s) + n] = x
  <2>1. u = s \o b
    BY DEF b
  <2>2. u \in Seq(RTokens)
    BY <1>1, <2>1, Appended
  <2>3. Len(u) = Len(s) + Len(b)
    BY <1>1, <2>1, ConcatProperties
  <2>4. \A i \in 1 .. Len(b) : u[Len(s) + i] = b[i]
    BY <1>1, <2>1, Appended
  <2>5. QED
    BY <1>1, <2>2, <2>3, <2>4
<1>3. SUFFICES ASSUME HeaderAtEnd(u) PROVE FALSE
  OBVIOUS
<1>4. Len(u) \in Len(u) - HeaderLen + 1 .. Len(u)
  BY <1>2, RequestConstants
<1>5. u[Len(u)] = "header"
  BY <1>2, <1>3, <1>4, HeaderTokens
<1>6. QED
  BY <1>2, <1>5

\* u is s with n tokens of x behind it.
Grown(S, s, x, n, u) ==
  /\ u \in Seq(S) /\ Len(u) = Len(s) + n
  /\ \A i \in 1 .. Len(s) : u[i] = s[i]
  /\ \A i \in 1 .. n : u[Len(s) + i] = x

LEMMA BlockGrown ==
  ASSUME NEW S, NEW s \in Seq(S), NEW x \in S, NEW n \in Nat, NEW u, u = s \o Block(x, n)
  PROVE  Grown(S, s, x, n, u)
<1> DEFINE b == Block(x, n)
<1>1. b \in Seq(S) /\ Len(b) = n /\ \A i \in 1 .. n : b[i] = x
  BY BlockType
<1>2. u = s \o b
  OBVIOUS
<1> HIDE DEF b
<1>3. u \in Seq(S)
  BY <1>1, <1>2, Appended
<1>4. Len(u) = Len(s) + Len(b)
  BY <1>1, <1>2, ConcatProperties
<1>5. \A i \in 1 .. Len(s) : u[i] = s[i]
  BY <1>1, <1>2, Appended
<1>6. \A i \in 1 .. Len(b) : u[Len(s) + i] = b[i]
  BY <1>1, <1>2, Appended
<1>7. QED
  BY <1>1, <1>3, <1>4, <1>5, <1>6 DEF Grown

\* The lists with a header behind them, of no token when one is there.
HeaderedBy(h) ==
  /\ h \in {0, HeaderLen}
  /\ Request!WithHeader = rIds \o Block("header", h)
  /\ Request!HeaderMask = rMask \o Block(0, h)

LEMMA Headered == RequestLists => \E h \in Nat : HeaderedBy(h)
<1>1. SUFFICES ASSUME RequestLists PROVE \E h \in Nat : HeaderedBy(h)
  OBVIOUS
<1>2. HeaderLen \in Nat \ {0} /\ Request!HasHeader = HeaderAtEnd(rIds)
  BY RequestConstants DEF Request!HasHeader, HeaderAtEnd
<1>3. \A x, n : Request!Block(x, n) = Block(x, n)
  BY DEF Request!Block, Block
<1>4. CASE HeaderAtEnd(rIds)
  <2>1. Request!WithHeader = rIds /\ Request!HeaderMask = rMask
    BY <1>2, <1>4 DEF Request!WithHeader, Request!HeaderMask
  <2>2. \A x : Block(x, 0) = <<>>
    BY DEF Block
  <2>3. rIds \o <<>> = rIds /\ rMask \o <<>> = rMask
    BY <1>1, ConcatEmptySeq DEF RequestLists
  <2>4. HeaderedBy(0)
    BY <1>4, <2>1, <2>2, <2>3 DEF HeaderedBy
  <2>5. QED
    BY <2>4
<1>5. CASE ~ HeaderAtEnd(rIds)
  <2>1. /\ Request!WithHeader = rIds \o Block("header", HeaderLen)
        /\ Request!HeaderMask = rMask \o Block(0, HeaderLen)
    BY <1>2, <1>3, <1>5, Zenon DEF Request!WithHeader, Request!HeaderMask, Request!Header
  <2>2. HeaderedBy(HeaderLen)
    BY <1>2, <1>5, <2>1 DEF HeaderedBy
  <2>3. QED
    BY <1>2, <2>2
<1>6. QED
  BY <1>4, <1>5

\* Ids and mask of one length, n tokens and the prompt at least.
ListsAre(u, v, n) ==
  /\ u \in Seq(RTokens) /\ v \in Seq(Marking)
  /\ Len(v) = Len(u) /\ Len(u) >= PromptSize + n

\* Lists that were appended to are lists still.
LEMMA ListsGrown ==
  ASSUME RequestLists, NEW x \in RTokens, NEW m \in Marking, NEW n \in Nat, NEW u, NEW v,
         u = rIds \o Block(x, n), v = rMask \o Block(m, n)
  PROVE  ListsAre(u, v, n)
<1>1. PromptSize \in Nat
  BY RequestConstants DEF PromptSize
<1>2. Grown(RTokens, rIds, x, n, u) /\ Grown(Marking, rMask, m, n, v)
  BY BlockGrown DEF RequestLists
<1>3. QED
  BY <1>1, <1>2 DEF Grown, RequestLists, ListsAre

LEMMA RequestStarts == Request!Init => RequestInv
<1>1. SUFFICES ASSUME Request!Init PROVE RequestInv
  OBVIOUS
<1>2. rPc = "loop" /\ rState = "pending" /\ rIds = Request!PromptIds
      /\ rMask = Block(0, PromptSize)
  BY <1>1 DEF Request!Init, Request!Block, Block, PromptSize
<1>3. PromptSize \in Nat /\ 0 \in Marking
  BY RequestConstants DEF PromptSize, Marking
<1>4. rMask \in Seq(Marking) /\ Len(rMask) = PromptSize
  BY <1>2, <1>3, BlockType
<1>5. RequestLists /\ Len(rIds) = PromptSize
  BY <1>2, <1>3, <1>4, HeaderIs DEF RequestLists
<1>6. QED
  BY <1>2, <1>5 DEF RequestInv, Unheaded

\* The turn of the model: n tokens behind a header of h, on lists that then are u and v.
ModelWrote(h, n, u, v) ==
  /\ h \in Nat /\ n \in Nat \ {0} /\ n <= EngineLen /\ h <= HeaderLen
  /\ rPc = "loop" /\ RequestLists
  /\ u = rIds \o Block("header", h) /\ v = rMask \o Block(0, h)
  /\ rIds' = u \o Block("model", n) /\ rMask' = v \o Block(1, n)

LEMMA ModelWrites ==
  ASSUME RequestInv, Request!Generate
  PROVE  \E h, n, u, v : ModelWrote(h, n, u, v)
<1>1. rPc = "loop" /\ RequestLists
  BY DEF Request!Generate, Request!In, RequestInv
<1>2. PICK h \in Nat : HeaderedBy(h)
  BY <1>1, Headered
<1>3. h <= HeaderLen
  BY <1>2, RequestConstants DEF HeaderedBy
<1> DEFINE u == rIds \o Block("header", h)
           v == rMask \o Block(0, h)
<1>4. u = Request!WithHeader /\ v = Request!HeaderMask
  BY <1>2 DEF HeaderedBy
<1>5. Len(u) \in Nat
  <2>1. "header" \in RTokens /\ 0 \in Marking
    BY DEF RTokens, Marking
  <2>2. ListsAre(u, v, h)
    BY <1>1, <1>2, <2>1, ListsGrown
  <2> HIDE DEF u, v
  <2>3. QED
    BY <2>2 DEF ListsAre
<1> HIDE DEF u, v
<1>6. PICK n \in 1 .. Request!Smaller(ResponseLength, EngineLen - Len(Request!WithHeader) - 1) + 1 :
        /\ rIds' = Request!WithHeader \o Request!Block("model", n)
        /\ rMask' = Request!HeaderMask \o Request!Block(1, n)
  BY DEF Request!Generate
<1>7. n \in Nat \ {0} /\ n <= EngineLen
  BY <1>4, <1>5, <1>6, RequestConstants DEF Request!Smaller
<1>8. rIds' = u \o Block("model", n) /\ rMask' = v \o Block(1, n)
  BY <1>4, <1>6 DEF Request!Block, Block
<1>9. QED
  <2>1. ModelWrote(h, n, u, v)
    BY <1>1, <1>2, <1>3, <1>7, <1>8 DEF ModelWrote, u, v
  <2>2. QED
    BY <2>1


LEMMA InvContextFull == ASSUME RequestInv, Request!ContextFull PROVE RequestInv'
<1>1. rPc = "loop" /\ RequestLists /\ Unheaded /\ rPc' = "left" /\ rFinish' = "length"
  BY DEF Request!ContextFull, Request!Break, Request!In, RequestInv
<1>2. PICK h \in Nat : HeaderedBy(h)
  BY <1>1, Headered
<1>3. rIds' = rIds \o Block("header", h) /\ rMask' = rMask \o Block(0, h)
  BY <1>2 DEF Request!ContextFull, HeaderedBy
<1>4. "header" \in RTokens /\ 0 \in Marking
  BY DEF RTokens, Marking
<1>5. ListsAre(rIds', rMask', h)
  BY <1>1, <1>3, <1>4, ListsGrown
<1>6. PromptSize \in Nat /\ HeaderLen \in Nat
  BY RequestConstants DEF PromptSize
<1>7. RequestLists'
  BY <1>2, <1>5, <1>6 DEF RequestLists, ListsAre
<1>8. CASE h = 0
  <2>1. Block("header", h) = <<>>
    BY <1>8 DEF Block
  <2>2. rIds' = rIds
    BY <1>1, <1>3, <2>1, ConcatEmptySeq DEF RequestLists
  <2>3. Unheaded'
    BY <1>1, <2>2 DEF Unheaded, HeaderAtEnd
  <2>4. QED
    BY <1>1, <1>7, <2>3 DEF RequestInv
<1>9. CASE h = HeaderLen
  BY <1>1, <1>5, <1>7, <1>9 DEF RequestInv, ListsAre
<1>10. QED
  BY <1>2, <1>8, <1>9 DEF HeaderedBy

LEMMA InvGenerate == ASSUME RequestInv, Request!Generate PROVE RequestInv'
<1>0. PICK h, n, u, v : ModelWrote(h, n, u, v)
  BY ModelWrites
<1>1. /\ h \in Nat /\ n \in Nat \ {0} /\ n <= EngineLen /\ h <= HeaderLen
      /\ rPc = "loop" /\ RequestLists
      /\ u = rIds \o Block("header", h) /\ v = rMask \o Block(0, h)
      /\ rIds' = u \o Block("model", n) /\ rMask' = v \o Block(1, n)
  BY <1>0 DEF ModelWrote
<1>2. "header" \in RTokens /\ "model" \in RTokens \ {"header"} /\ 0 \in Marking /\ 1 \in Marking
  BY DEF RTokens, Marking
<1>3. PromptSize \in Nat
  BY RequestConstants DEF PromptSize
<1>4. ListsAre(u, v, h)
  <2>1. RequestLists /\ h \in Nat /\ u = rIds \o Block("header", h) /\ v = rMask \o Block(0, h)
    BY <1>1
  <2>2. "header" \in RTokens /\ 0 \in Marking
    BY <1>2
  <2>3. QED
    BY <2>1, <2>2, ListsGrown, Zenon
<1>5. u \in Seq(RTokens) /\ v \in Seq(Marking) /\ Len(v) = Len(u) /\ Len(u) >= PromptSize
  <2>1. h \in Nat
    BY <1>1
  <2>2. QED
    BY <1>3, <1>4, <2>1 DEF ListsAre
<1>6. RequestLists'
  <2>1. n \in Nat /\ "model" \in RTokens /\ 1 \in Marking
    BY <1>1, <1>2
  <2>2. rIds' = u \o Block("model", n) /\ rMask' = v \o Block(1, n)
    BY <1>1
  <2>3. Grown(RTokens, u, "model", n, rIds')
    BY <1>5, <2>1, <2>2, BlockGrown, Zenon
  <2>4. Grown(Marking, v, 1, n, rMask')
    BY <1>5, <2>1, <2>2, BlockGrown, Zenon
  <2>5. QED
    BY <1>3, <1>5, <2>1, <2>3, <2>4 DEF RequestLists, Grown
<1>7. ~ HeaderAtEnd(rIds')
  BY <1>1, <1>2, <1>5, EndsOtherwise
<1>8. Unheaded' /\ ~ HeaderAtEnd(rIds)'
  BY <1>7 DEF Unheaded, HeaderAtEnd
<1>9. rPc' = "loop" \/ (rPc' = "left" /\ rFinish' \in {"stop", "length"})
  BY <1>1 DEF Request!Generate, Request!AfterStop, Request!AfterLength, Request!Break, Request!Stay
<1>10. QED
  BY <1>6, <1>8, <1>9 DEF RequestInv

\* A tool or a user adds n tokens.
LEMMA InvHears ==
  ASSUME RequestInv, rPc = "loop", NEW x \in {"tool", "user"}, NEW n \in Nat \ {0},
         rIds' = rIds \o Block(x, n), rMask' = rMask \o Block(0, n)
  PROVE  RequestLists' /\ Unheaded' /\ ~ HeaderAtEnd(rIds)'
<1>1. RequestLists /\ x \in RTokens \ {"header"} /\ 0 \in Marking
  BY DEF RequestInv, RTokens, Marking
<1>2. PromptSize \in Nat
  BY RequestConstants DEF PromptSize
<1>3. ListsAre(rIds', rMask', n)
  BY <1>1, ListsGrown
<1>4. ~ HeaderAtEnd(rIds')
  BY <1>1, EndsOtherwise DEF RequestLists
<1>5. RequestLists'
  BY <1>2, <1>3 DEF RequestLists, ListsAre
<1>6. QED
  BY <1>4, <1>5 DEF Unheaded, HeaderAtEnd

\* What a tool answers is appended as it is: there is no header to trim.
LEMMA ToolAdds ==
  ASSUME RequestInv, Request!ToolCalling
  PROVE  /\ rPc = "loop" /\ rState = "tool_calling"
         /\ \/ UNCHANGED <<rIds, rMask>>
            \/ \E n \in 1 .. ToolLen :
                 rIds' = rIds \o Block("tool", n) /\ rMask' = rMask \o Block(0, n)
<1>1. rPc = "loop" /\ rState = "tool_calling" /\ ~ HeaderAtEnd(rIds)
  BY DEF Request!ToolCalling, Request!In, RequestInv
<1>2. Request!Trimmed(rIds) = rIds /\ Request!Trimmed(rMask) = rMask
  BY <1>1 DEF Request!Trimmed, Request!HasHeader, HeaderAtEnd
<1>3. PICK n \in 0 .. ToolLen : Request!AddToolResponse(n)
  BY DEF Request!ToolCalling
<1>4. CASE n = 0
  BY <1>1, <1>3, <1>4 DEF Request!AddToolResponse
<1>5. CASE n # 0
  <2>1. n \in 1 .. ToolLen
    BY <1>5, RequestConstants
  <2>2. rIds' = rIds \o Block("tool", n) /\ rMask' = rMask \o Block(0, n)
    BY <1>2, <1>3, <1>5 DEF Request!AddToolResponse, Request!Block, Block
  <2>3. QED
    BY <1>1, <2>1, <2>2
<1>6. QED
  BY <1>4, <1>5

LEMMA InvToolCalling == ASSUME RequestInv, Request!ToolCalling PROVE RequestInv'
<1>1. rPc = "loop" /\ rState = "tool_calling" /\ ~ HeaderAtEnd(rIds) /\ RequestLists
  BY ToolAdds DEF RequestInv
<1>2. RequestLists' /\ Unheaded' /\ ~ HeaderAtEnd(rIds)'
  <2>1. CASE UNCHANGED <<rIds, rMask>>
    BY <1>1, <2>1 DEF RequestLists, Unheaded, HeaderAtEnd
  <2>2. ASSUME NEW n \in 1 .. ToolLen,
               rIds' = rIds \o Block("tool", n), rMask' = rMask \o Block(0, n)
        PROVE  RequestLists' /\ Unheaded' /\ ~ HeaderAtEnd(rIds)'
    <3>1. n \in Nat \ {0} /\ "tool" \in {"tool", "user"}
      BY RequestConstants
    <3>2. QED
      BY <1>1, <2>2, <3>1, InvHears
  <2>3. QED
    BY <2>1, <2>2, ToolAdds
<1>3. rPc' = "loop" \/ (rPc' = "left" /\ rFinish' = "stop")
  BY <1>1 DEF Request!ToolCalling, Request!Continue, Request!Break
<1>4. QED
  BY <1>2, <1>3 DEF RequestInv

LEMMA InvInteracting == ASSUME RequestInv, Request!Interacting PROVE RequestInv'
<1>1. rPc = "loop" /\ rState = "interacting" /\ RequestLists /\ Unheaded
  BY DEF Request!Interacting, Request!In, RequestInv
<1>2. CASE rPc' = "left" /\ rFinish' = "stop" /\ UNCHANGED <<rIds, rMask>>
  BY <1>1, <1>2 DEF RequestInv, RequestLists, Unheaded, HeaderAtEnd
<1>3. ASSUME NEW n \in 1 .. ToolLen, Request!AddUserMessage(n), Request!Continue
      PROVE  RequestInv'
  <2>1. n \in Nat \ {0} /\ "user" \in {"tool", "user"}
    BY RequestConstants
  <2>2. rIds' = rIds \o Block("user", n) /\ rMask' = rMask \o Block(0, n)
    BY <1>3 DEF Request!AddUserMessage, Request!Block, Block
  <2>3. RequestLists' /\ Unheaded' /\ ~ HeaderAtEnd(rIds)'
    BY <1>1, <2>1, <2>2, InvHears
  <2>4. rPc' = "loop" \/ (rPc' = "left" /\ rFinish' = "stop")
    BY <1>1, <1>3 DEF Request!Continue, Request!Break
  <2>5. QED
    BY <2>3, <2>4 DEF RequestInv
<1>4. QED
  BY <1>2, <1>3 DEF Request!Interacting, Request!Break

\* On every path the loop is left with a reason that finalize accepts.
LEMMA FinalizeAccepts ==
  ASSUME RequestInv, Request!Finalize
  PROVE  Request!Reason \in {"stop", "length"}
BY RequestConstants DEF Request!Finalize, Request!Ended, Request!Reason, RequestInv

LEMMA RequestSteps == RequestInv /\ [Request!Next]_rVars => RequestInv'
<1>1. SUFFICES ASSUME RequestInv, [Request!Next]_rVars PROVE RequestInv'
  OBVIOUS
<1>2. CASE Request!Pending
  <2>1. UNCHANGED <<rIds, rMask, rPc>> /\ rState' = "running" /\ rPc = "loop"
    BY <1>2 DEF Request!Pending, Request!AddToolResponse, Request!In, Request!Stay
  <2>2. QED
    BY <1>1, <2>1 DEF RequestInv, RequestLists, Unheaded, HeaderAtEnd
<1>3. CASE Request!ContextFull
  BY <1>1, <1>3, InvContextFull
<1>4. CASE Request!Generate
  BY <1>1, <1>4, InvGenerate
<1>5. CASE Request!ToolCalling
  BY <1>1, <1>5, InvToolCalling
<1>6. CASE Request!Interacting
  BY <1>1, <1>6, InvInteracting
<1>7. CASE Request!Finalize
  <2>1. rPc' = "final"
    BY <1>1, <1>7, FinalizeAccepts DEF Request!Finalize, Request!Ended
  <2>2. QED
    BY <2>1 DEF RequestInv
<1>8. CASE Request!Raises \/ Request!EndRaises
  BY <1>1, <1>8 DEF RequestInv, RequestLists, Request!Raises, Request!EndRaises, Request!Ended
<1>9. CASE UNCHANGED rVars
  BY <1>1, <1>9 DEF RequestInv, RequestLists, Unheaded, HeaderAtEnd, rVars
<1>10. QED
  BY <1>1, <1>2, <1>3, <1>4, <1>5, <1>6, <1>7, <1>8, <1>9
  DEF Request!Next, Request!Run, Request!Over, Request!vars, rVars

------------------------------------------------------------------------------
(* A request is a conversation too.                                        *)

\* What Conversation sees of a request.
RText == Request!Sides(IF rPc = "final" THEN rResponse.ids ELSE Request!After(rIds))
RMask == IF rPc = "final" THEN rResponse.mask ELSE Request!After(rMask)

\* a is what follows the prompt in s.
Following(S, s, a) ==
  /\ a \in Seq(S) /\ Len(a) = Len(s) - PromptSize
  /\ \A i \in 1 .. Len(s) - PromptSize : a[i] = s[PromptSize + i]

LEMMA AfterIs ==
  ASSUME NEW S, NEW s \in Seq(S), Len(s) >= PromptSize
  PROVE  Following(S, s, Request!After(s))
<1> DEFINE n == Len(s) - PromptSize
           a == SubSeq(s, PromptSize + 1, PromptSize + n)
<1>1. PromptSize \in Nat /\ n \in Nat /\ PromptSize + n = Len(s)
  BY RequestConstants DEF PromptSize
<1>2. Request!After(s) = a
  BY <1>1, HeaderIs DEF Request!After
<1> HIDE DEF n
<1>3. PromptSize + n <= Len(s)
  BY <1>1
<1>4. a \in Seq(S)
  BY <1>1, <1>3, PartOf
<1>5. Len(a) = n
  BY <1>1, <1>3, PartOf
<1>6. \A i \in 1 .. n : a[i] = s[PromptSize + i]
  BY <1>1, <1>3, PartOf
<1>7. QED
  BY <1>2, <1>4, <1>5, <1>6 DEF Following, n

\* v says who wrote each token of s.
Voiced(s, v) ==
  v \in Seq(Voices) /\ Len(v) = Len(s) /\ \A i \in 1 .. Len(s) : v[i] = Who(s[i])

LEMMA SidesIs ==
  ASSUME NEW s \in Seq(RTokens)
  PROVE  Voiced(s, Request!Sides(s))
<1> DEFINE v == Request!Sides(s)
<1>1. v = [i \in 1 .. Len(s) |-> Who(s[i])] /\ Len(s) \in Nat
  BY DEF Request!Sides, Who
<1>2. \A i \in 1 .. Len(s) : v[i] \in Voices
  BY <1>1 DEF Who, Voices
<1>3. v \in Seq(Voices)
  BY <1>1, <1>2, IsASeq
<1>4. QED
  BY <1>1, <1>3 DEF Voiced

\* Both go on when tokens are appended.
LEMMA AfterGrows ==
  ASSUME NEW S, NEW s \in Seq(S), Len(s) >= PromptSize, NEW x \in S, NEW n \in Nat,
         NEW u, u = s \o Block(x, n)
  PROVE  Request!After(u) = Request!After(s) \o Block(x, n)
<1> DEFINE a == Request!After(s)
           b == Request!After(u)
           c == a \o Block(x, n)
<1>1. PromptSize \in Nat
  BY RequestConstants DEF PromptSize
<1>2. Grown(S, s, x, n, u)
  BY BlockGrown
<1>3. Following(S, s, a)
  BY AfterIs
<1>4. Following(S, u, b)
  <2>1. u \in Seq(S) /\ Len(u) >= PromptSize
    BY <1>1, <1>2 DEF Grown
  <2>2. QED
    BY <2>1, AfterIs
<1> HIDE DEF a, b
<1>5. Grown(S, a, x, n, c)
  <2>1. a \in Seq(S)
    BY <1>3 DEF Following
  <2>2. QED
    BY <2>1, BlockGrown
<1> HIDE DEF c
<1>6. b \in Seq(S) /\ c \in Seq(S) /\ Len(b) = Len(c)
  BY <1>1, <1>2, <1>3, <1>4, <1>5 DEF Grown, Following
<1>7. ASSUME NEW i \in 1 .. Len(b) PROVE b[i] = c[i]
  <2>1. b[i] = u[PromptSize + i] /\ i \in Nat \ {0} /\ i <= Len(u) - PromptSize
    BY <1>1, <1>2, <1>4 DEF Following, Grown
  <2>2. CASE i <= Len(a)
    <3>1. i \in 1 .. Len(a) /\ PromptSize + i \in 1 .. Len(s)
      BY <1>1, <1>3, <2>1, <2>2 DEF Following
    <3>2. c[i] = a[i] /\ u[PromptSize + i] = s[PromptSize + i]
      BY <1>2, <1>5, <3>1 DEF Grown
    <3>3. a[i] = s[PromptSize + i]
      BY <1>3, <3>1 DEF Following
    <3>4. QED
      BY <2>1, <3>2, <3>3
  <2>3. CASE ~ (i <= Len(a))
    <3> DEFINE k == i - Len(a)
    <3>1. Len(a) \in Nat /\ Len(a) = Len(s) - PromptSize /\ Len(s) \in Nat
      BY <1>3 DEF Following
    <3>2. Len(u) = Len(s) + n
      BY <1>2 DEF Grown
    <3>3. k \in 1 .. n /\ i = Len(a) + k /\ PromptSize + i = Len(s) + k
      BY <1>1, <2>1, <2>3, <3>1, <3>2
    <3> HIDE DEF k
    <3>4. c[Len(a) + k] = x /\ u[Len(s) + k] = x
      BY <1>2, <1>5, <3>3 DEF Grown
    <3>5. QED
      BY <2>1, <3>3, <3>4
  <2>4. QED
    BY <2>2, <2>3
<1>8. QED
  BY <1>6, <1>7, SeqEqual DEF a, b, c

LEMMA SidesGrow ==
  ASSUME NEW s \in Seq(RTokens), NEW x \in RTokens, NEW n \in Nat
  PROVE  Request!Sides(s \o Block(x, n)) = Request!Sides(s) \o Block(Who(x), n)
<1> DEFINE u == s \o Block(x, n)
           v == Request!Sides(s)
           w == Request!Sides(u)
           c == v \o Block(Who(x), n)
<1>1. Grown(RTokens, s, x, n, u)
  BY BlockGrown
<1> HIDE DEF u
<1>2. Voiced(s, v) /\ Voiced(u, w)
  BY <1>1, SidesIs DEF Grown
<1> HIDE DEF v, w
<1>3. Grown(Voices, v, Who(x), n, c)
  <2>1. v \in Seq(Voices) /\ Who(x) \in Voices
    BY <1>2 DEF Voiced, Who, Voices
  <2>2. QED
    BY <2>1, BlockGrown
<1> HIDE DEF c
<1>4. w \in Seq(Voices) /\ c \in Seq(Voices) /\ Len(w) = Len(c) /\ Len(w) = Len(s) + n
  BY <1>1, <1>2, <1>3 DEF Voiced, Grown
<1>5. ASSUME NEW i \in 1 .. Len(w) PROVE w[i] = c[i]
  <2>1. w[i] = Who(u[i]) /\ i \in 1 .. Len(s) + n /\ Len(v) = Len(s) /\ Len(s) \in Nat
    BY <1>2, <1>4 DEF Voiced
  <2>2. CASE i <= Len(s)
    <3>1. i \in 1 .. Len(s)
      BY <2>1, <2>2
    <3>2. u[i] = s[i] /\ c[i] = v[i] /\ v[i] = Who(s[i])
      BY <1>1, <1>2, <1>3, <2>1, <3>1 DEF Grown, Voiced
    <3>3. QED
      BY <2>1, <3>2
  <2>3. CASE ~ (i <= Len(s))
    <3> DEFINE k == i - Len(s)
    <3>1. k \in 1 .. n /\ i = Len(s) + k
      BY <2>1, <2>3
    <3> HIDE DEF k
    <3>2. u[Len(s) + k] = x /\ c[Len(v) + k] = Who(x)
      BY <1>1, <1>3, <3>1 DEF Grown
    <3>3. QED
      BY <2>1, <3>1, <3>2
  <2>4. QED
    BY <2>2, <2>3
<1>6. QED
  BY <1>4, <1>5, SeqEqual DEF c, u, v, w

\* The conversation of lists u and v is that of s and t with n more tokens.
TalkGrown(s, t, y, m, n, u, v) ==
  /\ Request!Sides(Request!After(u)) = Request!Sides(Request!After(s)) \o Block(y, n)
  /\ Request!After(v) = Request!After(t) \o Block(m, n)

\* Tokens appended to the lists are tokens appended to the conversation.
LEMMA RequestGrows ==
  ASSUME NEW s, NEW t, NEW k \in Nat, ListsAre(s, t, k),
         NEW x \in RTokens, NEW m \in Marking, NEW n \in Nat,
         NEW u, NEW v, u = s \o Block(x, n), v = t \o Block(m, n)
  PROVE  TalkGrown(s, t, Who(x), m, n, u, v)
<1> DEFINE a == Request!After(s)
<1>0. s \in Seq(RTokens) /\ t \in Seq(Marking) /\ Len(t) = Len(s) /\ Len(s) >= PromptSize
  BY RequestConstants DEF ListsAre, PromptSize
<1>1. Request!After(u) = a \o Block(x, n)
  BY <1>0, AfterGrows
<1>2. a \in Seq(RTokens)
  BY <1>0, AfterIs DEF Following
<1> HIDE DEF a
<1>3. Request!Sides(Request!After(u)) = Request!Sides(a) \o Block(Who(x), n)
  BY <1>1, <1>2, SidesGrow
<1>4. Request!After(v) = Request!After(t) \o Block(m, n)
  BY <1>0, AfterGrows
<1>5. QED
  BY <1>3, <1>4 DEF a, TalkGrown

RRoom == EngineLen + HeaderLen + ToolLen

LEMMA RequestInitTalks == Request!Init => Request!Talk!Init
<1>1. SUFFICES ASSUME Request!Init PROVE Request!Talk!Init
  OBVIOUS
<1>2. rPc = "loop" /\ rIds = Request!PromptIds /\ rMask = Block(0, PromptSize)
  BY <1>1 DEF Request!Init, Request!Block, Block, PromptSize
<1>3. PromptSize \in Nat /\ 0 \in Marking
  BY RequestConstants DEF PromptSize, Marking
<1>4. rMask \in Seq(Marking) /\ Len(rMask) = PromptSize
  BY <1>2, <1>3, BlockType
<1>5. rIds \in Seq(RTokens) /\ Len(rIds) = PromptSize
  BY <1>2, HeaderIs
<1> DEFINE a == Request!After(rIds)
           b == Request!After(rMask)
<1>6. Following(RTokens, rIds, a)
  BY <1>3, <1>5, AfterIs
<1>7. Following(Marking, rMask, b)
  BY <1>3, <1>4, AfterIs
<1>8. RText = Request!Sides(a) /\ RMask = b
  BY <1>2 DEF RText, RMask
<1> HIDE DEF a, b
<1>9. a = <<>> /\ b = <<>>
  BY <1>3, <1>4, <1>5, <1>6, <1>7, EmptySeq DEF Following
<1>10. Request!Sides(a) = <<>>
  BY <1>9 DEF Request!Sides
<1>11. QED
  BY <1>2, <1>8, <1>9, <1>10 DEF Request!Talk!Init, RText, RMask

\* While it goes on, the lists are the conversation.
LEMMA Going == rPc # "final" => /\ RText = Request!Sides(Request!After(rIds))
                                /\ RMask = Request!After(rMask)
BY DEF RText, RMask

\* The environment's turn, if it says anything.
LEMMA RequestHears ==
  ASSUME RequestLists, rPc # "final", rPc' # "final",
         NEW x \in RTokens \ {"model"}, NEW n \in Nat, n <= RRoom,
         rIds' = rIds \o Block(x, n), rMask' = rMask \o Block(0, n)
  PROVE  [Request!Talk!Next]_(Request!Talk!vars)
<1> DEFINE s == Request!Sides(Request!After(rIds))
           t == Request!After(rMask)
<1>1. 0 \in Marking /\ Who(x) = "env"
  BY DEF Marking, Who
<1>2. ListsAre(rIds, rMask, 0)
  BY RequestConstants DEF RequestLists, ListsAre, PromptSize
<1>3. TalkGrown(rIds, rMask, Who(x), 0, n, rIds', rMask')
  BY <1>1, <1>2, RequestGrows
<1>4. /\ Request!Sides(Request!After(rIds')) = s \o Block("env", n)
      /\ Request!After(rMask') = t \o Block(0, n)
  BY <1>1, <1>3 DEF TalkGrown
<1>5. RText = s /\ RMask = t
  BY Going
<1>6. RText' = Request!Sides(Request!After(rIds')) /\ RMask' = Request!After(rMask')
  BY DEF RText, RMask, Request!Sides, Request!After, Request!PromptIds, Request!Header, Request!Block
<1> HIDE DEF s, t
<1>7. RText' = RText \o Block("env", n) /\ RMask' = RMask \o Block(0, n)
  BY <1>4, <1>5, <1>6
<1>8. CASE n # 0
  <2>1. n \in 1 .. RRoom
    BY <1>8, RequestConstants DEF RRoom
  <2>2. Request!Talk!Hear(n)
    BY <1>7 DEF Request!Talk!Hear, Request!Talk!Block, Block, RText, RMask
  <2>3. QED
    BY <2>1, <2>2 DEF Request!Talk!Next, RRoom
<1>9. CASE n = 0
  <2>1. \A y : Block(y, 0) = <<>>
    BY DEF Block
  <2>2. rIds' = rIds /\ rMask' = rMask
    BY <1>9, <2>1, ConcatEmptySeq DEF RequestLists
  <2>3. RText' = RText /\ RMask' = RMask
    BY <1>5, <1>6, <2>2 DEF s, t
  <2>4. QED
    BY <2>3 DEF Request!Talk!vars, RText, RMask
<1>10. QED
  BY <1>8, <1>9

\* The model's turn.
LEMMA RequestSpeaks ==
  ASSUME RequestInv, Request!Generate
  PROVE  Request!Talk!Next
<1>0. PICK h, n, u, v : ModelWrote(h, n, u, v)
  BY ModelWrites
<1>1. /\ h \in Nat /\ n \in Nat \ {0} /\ n <= EngineLen /\ h <= HeaderLen
      /\ rPc = "loop" /\ RequestLists
      /\ u = rIds \o Block("header", h) /\ v = rMask \o Block(0, h)
      /\ rIds' = u \o Block("model", n) /\ rMask' = v \o Block(1, n)
  BY <1>0 DEF ModelWrote
<1>2. /\ "header" \in RTokens /\ "model" \in RTokens /\ 0 \in Marking /\ 1 \in Marking
      /\ Who("header") = "env" /\ Who("model") = "model"
  BY DEF RTokens, Marking, Who
<1>3. ListsAre(rIds, rMask, 0)
  BY <1>1, RequestConstants DEF RequestLists, ListsAre, PromptSize
<1>4. ListsAre(u, v, h)
  <2>1. RequestLists /\ h \in Nat /\ u = rIds \o Block("header", h) /\ v = rMask \o Block(0, h)
    BY <1>1
  <2>2. "header" \in RTokens /\ 0 \in Marking
    BY <1>2
  <2>3. QED
    BY <2>1, <2>2, ListsGrown, Zenon
<1> DEFINE A(s) == Request!Sides(Request!After(s))
           B(s) == Request!After(s)
<1>5. A(u) = A(rIds) \o Block("env", h) /\ B(v) = B(rMask) \o Block(0, h)
  <2>1. TalkGrown(rIds, rMask, Who("header"), 0, h, u, v)
    BY <1>1, <1>2, <1>3, RequestGrows
  <2>2. QED
    BY <1>2, <2>1 DEF TalkGrown
<1>6. A(rIds') = A(u) \o Block("model", n) /\ B(rMask') = B(v) \o Block(1, n)
  <2>1. TalkGrown(u, v, Who("model"), 1, n, rIds', rMask')
    BY <1>1, <1>2, <1>4, RequestGrows
  <2>2. QED
    BY <1>2, <2>1 DEF TalkGrown
<1>7. RText = A(rIds) /\ RMask = B(rMask)
  BY <1>1, Going
<1>8. rPc' # "final"
  BY <1>1 DEF Request!Generate, Request!AfterStop, Request!AfterLength, Request!Break, Request!Stay
<1>9. RText' = A(rIds') /\ RMask' = B(rMask')
  BY <1>8 DEF RText, RMask, Request!Sides, Request!After, Request!PromptIds, Request!Header, Request!Block
<1> HIDE DEF A, B
<1>10. /\ RText' = RText \o Block("env", h) \o Block("model", n)
       /\ RMask' = RMask \o Block(0, h) \o Block(1, n)
  BY <1>5, <1>6, <1>7, <1>9
<1>11. Request!Talk!Speak(h, n)
  BY <1>1, <1>8, <1>10 DEF Request!Talk!Speak, Request!Talk!Block, Block, RText, RMask
<1>12. h \in 0 .. RRoom /\ n \in 1 .. RRoom
  BY <1>1, RequestConstants DEF RRoom
<1>13. QED
  BY <1>11, <1>12 DEF Request!Talk!Next, RRoom

\* How much of n tokens is behind the prompt when all is cut, and b is that of s.
Kept(n) ==
  LET m == Request!Smaller(n, Request!RequestLen)
  IN  Request!Smaller(ResponseLength, IF m > PromptSize THEN m - PromptSize ELSE 0)

CutBehind(S, s, b) ==
  /\ b \in Seq(S) /\ Len(b) = Kept(Len(s))
  /\ \A i \in 1 .. Kept(Len(s)) : b[i] = s[PromptSize + i]

LEMMA LimitType == Request!RequestLen \in Nat /\ PromptSize \in Nat /\ ResponseLength \in Nat
BY RequestConstants DEF Request!RequestLen, Request!Smaller, PromptSize

LEMMA KeptIs ==
  ASSUME NEW n \in Nat
  PROVE  /\ Kept(n) \in Nat /\ Kept(n) <= ResponseLength
         /\ PromptSize + Kept(n) <= n \/ Kept(n) = 0
         /\ Kept(n) <= Kept(Request!RequestLen)
         /\ Kept(n) < Kept(Request!RequestLen) => PromptSize + Kept(n) = n \/ n < PromptSize
BY LimitType DEF Kept, Request!Smaller

\* The first n tokens.
LEMMA FirstIs ==
  ASSUME NEW S, NEW s \in Seq(S), NEW n \in Nat, NEW u, u = Request!First(s, n)
  PROVE  u \in Seq(S) /\ Len(u) = Request!Smaller(n, Len(s)) /\ \A i \in 1 .. Len(u) : u[i] = s[i]
<1> DEFINE m == Request!Smaller(n, Len(s))
           v == SubSeq(s, 0 + 1, 0 + m)
<1>1. m \in Nat /\ 0 + m <= Len(s) /\ 0 \in Nat
  BY DEF Request!Smaller
<1>2. u = v
  BY <1>1 DEF Request!First
<1> HIDE DEF m
<1>3. v \in Seq(S)
  BY <1>1, PartOf
<1>4. Len(v) = m
  BY <1>1, PartOf
<1>5. \A i \in 1 .. m : v[i] = s[0 + i]
  BY <1>1, PartOf
<1>6. QED
  BY <1>2, <1>3, <1>4, <1>5 DEF m

LEMMA BehindIs ==
  ASSUME NEW S, NEW s \in Seq(S)
  PROVE  CutBehind(S, s, Request!Behind(s))
<1> DEFINE P == PromptSize
           Q == Request!RequestLen
           m == Request!Smaller(Len(s), Q)
           f == Request!First(s, Q)
           g == SubSeq(f, P + 1, m)
           h == Request!First(g, ResponseLength)
           d == IF m > P THEN m - P ELSE 0
<1>1. Q \in Nat /\ P \in Nat /\ ResponseLength \in Nat /\ Len(s) \in Nat
  BY LimitType
<1>2. m \in Nat /\ m <= Len(s) /\ m <= Q /\ m = Request!Smaller(Q, Len(s))
  BY <1>1 DEF Request!Smaller
<1>3. h = Request!Behind(s)
  BY HeaderIs DEF Request!Behind
<1>4. f \in Seq(S) /\ Len(f) = m /\ \A i \in 1 .. m : f[i] = s[i]
  <2>1. f \in Seq(S)
    BY <1>1, FirstIs
  <2>2. Len(f) = Request!Smaller(Q, Len(s))
    BY <1>1, FirstIs
  <2>3. \A i \in 1 .. Len(f) : f[i] = s[i]
    BY <1>1, FirstIs
  <2>4. QED
    BY <1>2, <2>1, <2>2, <2>3
<1> HIDE DEF f, P
<1>5. g \in Seq(S) /\ Len(g) = d /\ \A i \in 1 .. d : g[i] = s[P + i]
  <2>1. CASE m > P
    <3> DEFINE e == m - P
               w == SubSeq(f, P + 1, P + e)
    <3>1. e \in Nat /\ P + e = m /\ g = w /\ d = e /\ P + e <= Len(f)
      <4>1. d = e
        BY <2>1
      <4>2. P + e <= Len(f) /\ P + e = m /\ e \in Nat
        <5>1. Len(f) = m
          BY <1>4
        <5> HIDE DEF m
        <5>2. QED
          BY <1>1, <1>2, <2>1, <5>1
      <4>3. g = w
        <5> HIDE DEF m, e
        <5>1. QED
          BY <4>2
      <4>4. QED
        BY <4>1, <4>2, <4>3
    <3> HIDE DEF e, g, d, m
    <3>2. w \in Seq(S)
      BY <1>1, <1>4, <3>1, PartOf
    <3>3. Len(w) = e
      BY <1>1, <1>4, <3>1, PartOf
    <3>4. \A i \in 1 .. e : w[i] = f[P + i]
      BY <1>1, <1>4, <3>1, PartOf
    <3>5. \A i \in 1 .. e : f[P + i] = s[P + i]
      BY <1>1, <1>2, <1>4, <3>1
    <3> HIDE DEF w
    <3>6. QED
      BY <3>1, <3>2, <3>3, <3>4, <3>5
  <2>2. CASE ~ (m > P)
    <3>1. ~ (P + 1 <= m) /\ \A i \in P + 1 .. m : f[i] \in S
      BY <1>1, <1>2, <2>2
    <3>2. g \in Seq(S) /\ Len(g) = 0
      BY <1>1, <1>2, <3>1, SubSeqProperties
    <3>3. QED
      BY <2>2, <3>2
  <2>3. QED
    BY <2>1, <2>2
<1>6. d \in Nat /\ d = IF m > P THEN m - P ELSE 0
  BY <1>1, <1>2
<1>13. Kept(Len(s)) = Request!Smaller(ResponseLength, d)
  BY DEF Kept, P
<1> HIDE DEF g, d
<1>7. h \in Seq(S)
  BY <1>1, <1>5, FirstIs
<1>8. Len(h) = Request!Smaller(ResponseLength, Len(g))
  BY <1>1, <1>5, FirstIs
<1>9. \A i \in 1 .. Len(h) : h[i] = g[i]
  BY <1>1, <1>5, FirstIs
<1>10. Len(h) = Kept(Len(s)) /\ Len(h) <= d /\ Len(h) \in Nat
  BY <1>1, <1>5, <1>6, <1>8, <1>13 DEF Request!Smaller
<1> HIDE DEF h, m
<1>11. \A i \in 1 .. Len(h) : h[i] = s[P + i]
  BY <1>5, <1>6, <1>9, <1>10
<1>12. QED
  BY <1>3, <1>7, <1>10, <1>11 DEF CutBehind, P

\* A header at the end of the ids is taken back, of ids and mask alike.
LEMMA TrimmedIs ==
  ASSUME RequestLists, NEW S, NEW s \in Seq(S), Len(s) = Len(rIds), NEW t, t = Request!Trimmed(s)
  PROVE  /\ t \in Seq(S) /\ \A i \in 1 .. Len(t) : t[i] = s[i]
         /\ Len(t) = IF HeaderAtEnd(rIds) THEN Len(s) - HeaderLen ELSE Len(s)
<1>1. Request!HasHeader <=> HeaderAtEnd(rIds)
  BY DEF Request!HasHeader, HeaderAtEnd
<1>2. CASE HeaderAtEnd(rIds)
  <2> DEFINE n == Len(s) - HeaderLen
             v == SubSeq(s, 0 + 1, 0 + n)
  <2>1. n \in Nat /\ 0 + n = n /\ 0 + n <= Len(s) /\ 0 \in Nat
    BY <1>2, RequestConstants DEF HeaderAtEnd
  <2>2. t = v
    BY <1>1, <1>2, <2>1 DEF Request!Trimmed
  <2> HIDE DEF n
  <2>3. v \in Seq(S)
    BY <2>1, PartOf
  <2>4. Len(v) = n
    BY <2>1, PartOf
  <2>5. \A i \in 1 .. n : v[i] = s[0 + i]
    BY <2>1, PartOf
  <2>6. QED
    BY <1>2, <2>1, <2>2, <2>3, <2>4, <2>5 DEF n
<1>3. CASE ~ HeaderAtEnd(rIds)
  BY <1>1, <1>3 DEF Request!Trimmed
<1>4. QED
  BY <1>2, <1>3

\* The end: what is cut is beyond the limit, or a header that nobody spoke after.
LEMMA RequestCloses ==
  ASSUME RequestInv, Request!Finalize
  PROVE  Request!Talk!Next
<1> DEFINE L == Len(rIds)
           P == PromptSize
           t == Request!Trimmed(rIds)
           q == Request!Trimmed(rMask)
           b == Request!Behind(t)
           c == Request!Behind(q)
           k == Kept(Len(t))
           Limit == Kept(Request!RequestLen)
           text == RText
<1>1. /\ rPc # "final" /\ RequestLists
      /\ HeaderAtEnd(rIds) => L = P \/ L >= P + HeaderLen
  BY DEF Request!Finalize, Request!Ended, RequestInv, Unheaded
<1>2. /\ rIds \in Seq(RTokens) /\ rMask \in Seq(Marking) /\ Len(rMask) = L
      /\ L \in Nat /\ P \in Nat /\ L >= P /\ HeaderLen \in Nat \ {0}
  BY <1>1, LimitType, RequestConstants DEF RequestLists
<1>3. rPc' = "final" /\ rResponse' = [ids |-> b, mask |-> c]
  BY FinalizeAccepts DEF Request!Finalize, Request!Ended
<1>4. /\ t \in Seq(RTokens) /\ (\A i \in 1 .. Len(t) : t[i] = rIds[i])
      /\ Len(t) = IF HeaderAtEnd(rIds) THEN L - HeaderLen ELSE L
  BY <1>1, <1>2, TrimmedIs
<1>5. /\ q \in Seq(Marking) /\ (\A i \in 1 .. Len(q) : q[i] = rMask[i])
      /\ Len(q) = Len(t)
  <2>1. /\ q \in Seq(Marking) /\ (\A i \in 1 .. Len(q) : q[i] = rMask[i])
        /\ Len(q) = IF HeaderAtEnd(rIds) THEN Len(rMask) - HeaderLen ELSE Len(rMask)
    BY <1>1, <1>2, TrimmedIs
  <2>2. QED
    BY <1>2, <1>4, <2>1
<1> HIDE DEF t, q
<1>6. CutBehind(RTokens, t, b) /\ CutBehind(Marking, q, c)
  <2>1. CutBehind(RTokens, t, b)
    BY <1>4, BehindIs
  <2>2. CutBehind(Marking, q, c)
    BY <1>5, BehindIs
  <2>3. QED
    BY <2>1, <2>2
<1> HIDE DEF b, c
<1>7. Len(t) \in Nat /\ Len(t) <= L
  BY <1>2, <1>4
<1>8. /\ k \in Nat /\ k <= Limit
      /\ P + k <= Len(t) \/ k = 0
      /\ k < Limit => P + k = Len(t) \/ Len(t) < P
      /\ Limit \in Nat
  BY <1>7, KeptIs, LimitType
<1>9. k <= L - P
  BY <1>2, <1>7, <1>8
<1>10. /\ b \in Seq(RTokens) /\ Len(b) = k /\ \A i \in 1 .. k : b[i] = t[P + i]
  BY <1>6 DEF CutBehind
<1>11. /\ c \in Seq(Marking) /\ Len(c) = k /\ \A i \in 1 .. k : c[i] = q[P + i]
  BY <1>5, <1>6 DEF CutBehind
<1> HIDE DEF k, L, P, Limit
<1>12. \A i \in 1 .. k : t[P + i] = rIds[P + i] /\ q[P + i] = rMask[P + i]
  <2>1. SUFFICES ASSUME NEW i \in 1 .. k PROVE t[P + i] = rIds[P + i] /\ q[P + i] = rMask[P + i]
    OBVIOUS
  <2>2. P + i \in 1 .. Len(t)
    BY <1>2, <1>7, <1>8, <2>1
  <2>3. QED
    BY <1>4, <1>5, <2>2
<1> DEFINE a == Request!After(rIds)
           d == Request!After(rMask)
<1>13. /\ a \in Seq(RTokens) /\ Len(a) = L - P /\ \A i \in 1 .. L - P : a[i] = rIds[P + i]
  BY <1>2, AfterIs DEF Following, L, P
<1>14. /\ d \in Seq(Marking) /\ Len(d) = L - P /\ \A i \in 1 .. L - P : d[i] = rMask[P + i]
  BY <1>2, AfterIs DEF Following, L, P
<1>15. RText = Request!Sides(a) /\ RMask = d
  BY <1>1, Going
<1>16. RText' = Request!Sides(b) /\ RMask' = c
  BY <1>3 DEF RText, RMask, Request!Sides
<1> HIDE DEF a, d
<1>17. Voiced(a, RText) /\ Voiced(b, RText')
  BY <1>10, <1>13, <1>15, <1>16, SidesIs
<1>18. /\ text \in Seq(Voices) /\ Len(text) = L - P
       /\ \A i \in 1 .. L - P : text[i] = Who(rIds[P + i])
  BY <1>13, <1>17 DEF Voiced
<1> DEFINE u == SubSeq(text, 0 + 1, 0 + k)
           v == SubSeq(d, 0 + 1, 0 + k)
<1> HIDE DEF text
<1>19. 0 \in Nat /\ 0 + k = k /\ 0 + k <= L - P /\ k \in Nat
  BY <1>8, <1>9
<1>20. RText' = u
  <2>1. u \in Seq(Voices)
    BY <1>18, <1>19, PartOf
  <2>2. Len(u) = k
    BY <1>18, <1>19, PartOf
  <2>3. \A i \in 1 .. k : u[i] = text[0 + i]
    BY <1>18, <1>19, PartOf
  <2> HIDE DEF u
  <2>4. RText' \in Seq(Voices) /\ Len(RText') = k /\ \A i \in 1 .. k : RText'[i] = Who(b[i])
    BY <1>10, <1>17 DEF Voiced
  <2>5. \A i \in 1 .. k : RText'[i] = u[i]
    <3>1. SUFFICES ASSUME NEW i \in 1 .. k PROVE RText'[i] = u[i]
      OBVIOUS
    <3>2. i \in 1 .. L - P /\ 0 + i = i
      BY <1>2, <1>9, <1>19, <3>1
    <3>3. b[i] = rIds[P + i]
      BY <1>10, <1>12
    <3>4. QED
      BY <1>18, <2>3, <2>4, <3>2, <3>3
  <2>6. QED
    BY <2>1, <2>2, <2>4, <2>5, SeqEqual
<1>21. RMask' = v
  <2>1. v \in Seq(Marking)
    BY <1>14, <1>19, PartOf
  <2>2. Len(v) = k
    BY <1>14, <1>19, PartOf
  <2>3. \A i \in 1 .. k : v[i] = d[0 + i]
    BY <1>14, <1>19, PartOf
  <2> HIDE DEF v
  <2>4. \A i \in 1 .. k : c[i] = v[i]
    <3>1. SUFFICES ASSUME NEW i \in 1 .. k PROVE c[i] = v[i]
      OBVIOUS
    <3>2. i \in 1 .. L - P /\ 0 + i = i
      BY <1>2, <1>9, <1>19, <3>1
    <3>3. QED
      BY <1>11, <1>12, <1>14, <2>3, <3>2
  <2>5. QED
    BY <1>11, <1>16, <2>1, <2>2, <2>4, SeqEqual
<1> HIDE DEF u, v
<1>22. k = Limit \/ \A i \in k + 1 .. Len(text) : i <= Limit => text[i] = "env"
  <2>1. SUFFICES ASSUME k < Limit, NEW i \in k + 1 .. L - P PROVE text[i] = "env"
    BY <1>8, <1>18
  <2>2. P + k = Len(t) \/ Len(t) < P
    BY <1>8, <2>1
  <2>3. L >= P + 1 /\ i \in 1 .. L - P /\ P + i \in Nat /\ P + i <= L
    BY <1>2, <1>8, <2>1
  <2>4. HeaderAtEnd(rIds) /\ Len(t) = L - HeaderLen
    BY <1>2, <1>4, <1>7, <1>8, <2>1, <2>2, <2>3
  <2>5. P + i \in L - HeaderLen + 1 .. L
    BY <1>1, <1>2, <1>8, <2>1, <2>2, <2>3, <2>4
  <2>6. rIds[P + i] = "header"
    BY <1>2, <2>4, <2>5, HeaderTokens DEF L
  <2>7. QED
    BY <1>18, <2>3, <2>6 DEF Who
<1>23. Request!Talk!Close(k)
  <2>1. Limit = Request!Smaller(ResponseLength,
                  IF Request!RequestLen > Len(Request!PromptIds)
                  THEN Request!RequestLen - Len(Request!PromptIds) ELSE 0)
    <3>1. Request!Smaller(Request!RequestLen, Request!RequestLen) = Request!RequestLen
      BY DEF Request!Smaller
    <3>2. QED
      BY <3>1, HeaderIs DEF Limit, Kept
  <2>2. /\ RText' = SubSeq(RText, 1, k) /\ RMask' = SubSeq(RMask, 1, k)
        /\ k = Limit \/ \A i \in k + 1 .. Len(RText) : i <= Limit => RText[i] = "env"
    BY <1>15, <1>19, <1>20, <1>21, <1>22 DEF text, u, v
  <2>3. k <= Limit
    BY <1>8
  <2>4. QED
    BY <1>1, <1>3, <2>1, <2>2, <2>3 DEF Request!Talk!Close, RText, RMask
<1>24. k \in 0 .. Len(RText)
  BY <1>8, <1>9, <1>18, <1>2 DEF text
<1>25. QED
  BY <1>23, <1>24 DEF Request!Talk!Next, RText

\* Every step of a request is one of the conversation, or none.
LEMMA RequestTalks ==
  RequestInv /\ [Request!Next]_rVars => [Request!Talk!Next]_(Request!Talk!vars)
<1>1. SUFFICES ASSUME RequestInv, [Request!Next]_rVars
               PROVE  [Request!Talk!Next]_(Request!Talk!vars)
  OBVIOUS
<1>2. ASSUME UNCHANGED <<rIds, rMask, rResponse>>, (rPc = "final") = (rPc' = "final")
      PROVE  [Request!Talk!Next]_(Request!Talk!vars)
  BY <1>2
  DEF Request!Talk!vars, Request!Sides, Request!After, Request!PromptIds, Request!Header,
      Request!Block
<1>3. CASE Request!Pending
  <2>1. UNCHANGED <<rIds, rMask, rResponse>> /\ rPc = "loop" /\ rPc' = rPc
    BY <1>3 DEF Request!Pending, Request!AddToolResponse, Request!In, Request!Stay
  <2>2. QED
    BY <1>2, <2>1
<1>4. CASE Request!ContextFull
  <2>1. rPc = "loop" /\ RequestLists /\ rPc' = "left"
    BY <1>1, <1>4 DEF Request!ContextFull, Request!Break, Request!In, RequestInv
  <2>2. PICK h \in Nat : HeaderedBy(h)
    BY <2>1, Headered
  <2>3. rIds' = rIds \o Block("header", h) /\ rMask' = rMask \o Block(0, h)
    BY <1>4, <2>2 DEF Request!ContextFull, HeaderedBy
  <2>4. h <= RRoom /\ "header" \in RTokens \ {"model"}
    BY <2>2, RequestConstants DEF HeaderedBy, RRoom, RTokens
  <2>5. QED
    BY <2>1, <2>3, <2>4, RequestHears
<1>5. CASE Request!Generate
  BY <1>1, <1>5, RequestSpeaks
<1>6. CASE Request!ToolCalling
  <2>1. rPc = "loop" /\ RequestLists /\ rPc' # "final" /\ rResponse' = rResponse
    BY <1>1, <1>6 DEF Request!ToolCalling, Request!Continue, Request!Break, Request!In, RequestInv
  <2>2. CASE UNCHANGED <<rIds, rMask>>
    BY <1>2, <2>1, <2>2
  <2>3. ASSUME NEW n \in 1 .. ToolLen,
               rIds' = rIds \o Block("tool", n), rMask' = rMask \o Block(0, n)
        PROVE  [Request!Talk!Next]_(Request!Talk!vars)
    <3>1. n \in Nat /\ n <= RRoom /\ "tool" \in RTokens \ {"model"}
      BY RequestConstants DEF RRoom, RTokens
    <3>2. QED
      BY <2>1, <2>3, <3>1, RequestHears
  <2>4. QED
    BY <1>1, <1>6, <2>2, <2>3, ToolAdds
<1>7. CASE Request!Interacting
  <2>1. rPc = "loop" /\ RequestLists /\ rPc' # "final" /\ rResponse' = rResponse
    BY <1>1, <1>7 DEF Request!Interacting, Request!Continue, Request!Break, Request!In, RequestInv
  <2>2. CASE UNCHANGED <<rIds, rMask>>
    BY <1>2, <2>1, <2>2
  <2>3. ASSUME NEW n \in 1 .. ToolLen, Request!AddUserMessage(n)
        PROVE  [Request!Talk!Next]_(Request!Talk!vars)
    <3>1. n \in Nat /\ n <= RRoom /\ "user" \in RTokens \ {"model"}
      BY RequestConstants DEF RRoom, RTokens
    <3>2. rIds' = rIds \o Block("user", n) /\ rMask' = rMask \o Block(0, n)
      BY <2>3 DEF Request!AddUserMessage, Request!Block, Block
    <3>3. QED
      BY <2>1, <3>1, <3>2, RequestHears
  <2>4. QED
    BY <1>7, <2>2, <2>3 DEF Request!Interacting
<1>8. CASE Request!Finalize
  BY <1>1, <1>8, RequestCloses
<1>9. CASE Request!Raises \/ Request!EndRaises
  <2>1. /\ UNCHANGED <<rIds, rMask, rResponse>>
        /\ rPc \in {"loop", "left"} /\ rPc' = "raised"
    BY <1>9 DEF Request!Raises, Request!EndRaises, Request!Ended
  <2>2. QED
    BY <1>2, <2>1
<1>10. CASE UNCHANGED rVars
  BY <1>2, <1>10 DEF rVars
<1>11. QED
  BY <1>1, <1>3, <1>4, <1>5, <1>6, <1>7, <1>8, <1>9, <1>10
  DEF Request!Next, Request!Run, Request!Over, Request!vars, rVars

\* A multi-turn request of the SGLang rollout is a conversation as the trainer
\* expects it, for all lengths and limits: turns are only ever added, the mask
\* marks the model's tokens and no header's, and what _async_rollout_a_request
\* and finalize take back or cut is a header nobody spoke after, or beyond the limit.
THEOREM RequestIsConversation == MCSpec => RequestImplementsConversation
<1>1. MCInit => RequestInv /\ Request!Talk!Init
  BY RequestStarts, RequestInitTalks DEF MCInit
<1>2. [MCNext]_MCVars => [Request!Next]_rVars
  BY DEF MCNext, MCVars, Agent, SGLang, Limited, Polling
<1>3. RequestInv /\ [MCNext]_MCVars => RequestInv'
  BY <1>2, RequestSteps
<1>4. RequestInv /\ [MCNext]_MCVars => [Request!Talk!Next]_(Request!Talk!vars)
  BY <1>2, RequestTalks
<1>5. QED
  BY <1>1, <1>3, <1>4, PTL
  DEF MCSpec, RequestImplementsConversation, Request!ImplementsConversation, Request!Talk!Spec

\* finalize is never given a reason it does not know: on every path out of the
\* loop the reason "tool_calls" of a turn is overwritten, and the end by the limit
\* of turns sets one.
THEOREM FinalizeNeverRejects == MCSpec => [](rPc # "rejected")
<1>1. MCInit => RequestInv
  BY RequestStarts DEF MCInit
<1>2. [MCNext]_MCVars => [Request!Next]_rVars
  BY DEF MCNext, MCVars, Agent, SGLang, Limited, Polling
<1>3. RequestInv /\ [MCNext]_MCVars => RequestInv'
  BY <1>2, RequestSteps
<1>4. RequestInv => rPc # "rejected"
  BY DEF RequestInv
<1>5. QED
  BY <1>1, <1>3, <1>4, PTL DEF MCSpec

------------------------------------------------------------------------------
(* Why a request comes to an end.                                          *)

\* Two steps a turn, one to begin, and two to end.
RequestLeft ==
  IF rPc = "loop"
    THEN 2 * (Turns - rTurns) + 2 + (IF rState = "running" THEN 0 ELSE 1)
  ELSE IF rPc = "left" THEN 1
  ELSE 0

\* A request in the loop is in a state the loop has a branch for.
RequestGoesOn ==
  /\ rTurns \in 0 .. Turns
  /\ rPc \in {"loop", "left", "raised", "final", "rejected"}
  /\ rPc = "loop" => rState \in {"pending", "running", "tool_calling", "interacting"}

\* Every step keeps it so.
LEMMA RequestGoesOnAlways == RequestGoesOn /\ [Request!Next]_rVars => RequestGoesOn'
<1>1. SUFFICES ASSUME RequestGoesOn, [Request!Next]_rVars PROVE RequestGoesOn'
  OBVIOUS
<1> USE RequestConstants DEF RequestGoesOn, Request!In, Request!Break, Request!Stay
<1>2. CASE Request!Pending
  BY <1>1, <1>2 DEF Request!Pending
<1>3. CASE Request!ContextFull
  BY <1>1, <1>3 DEF Request!ContextFull
<1>4. CASE Request!Generate
  BY <1>1, <1>4 DEF Request!Generate, Request!AfterStop, Request!AfterLength
<1>5. CASE Request!ToolCalling
  BY <1>1, <1>5 DEF Request!ToolCalling, Request!Continue
<1>6. CASE Request!Interacting
  BY <1>1, <1>6 DEF Request!Interacting, Request!Continue
<1>7. CASE Request!Finalize
  BY <1>1, <1>7 DEF Request!Finalize, Request!Ended
<1>8. CASE Request!Raises \/ Request!EndRaises
  BY <1>1, <1>8 DEF Request!Raises, Request!EndRaises
<1>9. CASE UNCHANGED rVars
  BY <1>1, <1>9 DEF rVars
<1>10. QED
  BY <1>1, <1>2, <1>3, <1>4, <1>5, <1>6, <1>7, <1>8, <1>9
  DEF Request!Next, Request!Run, Request!Over, Request!vars, rVars

\* A request is always in a state its loop knows, and each of its steps leaves less
\* of it, although nothing ends the loop when tools and users fill the context:
\* the engine is asked again, and it is the engine's context or the limit of
\* turns that ends it.
THEOREM RequestMustEnd ==
  MCSpec => /\ [](RequestGoesOn /\ RequestLeft \in Nat)
            /\ [][Request!Run \/ Request!Raises \/ Request!EndRaises
                    => RequestLeft' < RequestLeft]_MCVars
<1>1. MCInit => RequestGoesOn
  BY RequestConstants DEF MCInit, Request!Init, RequestGoesOn
<1>2. [MCNext]_MCVars => [Request!Next]_rVars
  BY DEF MCNext, MCVars, Agent, SGLang, Limited, Polling
<1>3. RequestGoesOn /\ [MCNext]_MCVars => RequestGoesOn'
  BY <1>2, RequestGoesOnAlways
<1>4. RequestGoesOn => RequestLeft \in Nat
  BY RequestConstants DEF RequestGoesOn, RequestLeft
<1>5. RequestGoesOn => (Request!Run \/ Request!Raises \/ Request!EndRaises
                          => RequestLeft' < RequestLeft)
  <2> SUFFICES ASSUME RequestGoesOn, Request!Run \/ Request!Raises \/ Request!EndRaises
               PROVE  RequestLeft' < RequestLeft
    OBVIOUS
  <2> USE RequestConstants DEF RequestGoesOn, Request!In, Request!Break, Request!Stay
  <2>1. CASE Request!Pending
    BY <2>1 DEF Request!Pending, RequestLeft
  <2>2. CASE Request!ContextFull
    BY <2>2 DEF Request!ContextFull, RequestLeft
  <2>3. CASE Request!Generate
    BY <2>3 DEF Request!Generate, Request!AfterStop, Request!AfterLength, RequestLeft
  <2>4. CASE Request!ToolCalling
    BY <2>4 DEF Request!ToolCalling, Request!Continue, RequestLeft
  <2>5. CASE Request!Interacting
    BY <2>5 DEF Request!Interacting, Request!Continue, RequestLeft
  <2>6. CASE Request!Finalize
    BY <2>6 DEF Request!Finalize, Request!Ended, RequestLeft
  <2>7. CASE Request!Raises \/ Request!EndRaises
    BY <2>7 DEF Request!Raises, Request!EndRaises, Request!Ended, RequestLeft
  <2>8. QED
    BY <2>1, <2>2, <2>3, <2>4, <2>5, <2>6, <2>7 DEF Request!Run
<1>6. QED
  BY <1>1, <1>3, <1>4, <1>5, PTL DEF MCSpec

------------------------------------------------------------------------------
(* The limiter of the search and sandbox tools.  Its invariant: the calls  *)
(* whose acquire has not returned are different, limited, and not running. *)

Holders == {c \in Limiter!Calls : lWhere[c] = "running" /\ PoolTable[Caller[c]].limited}

Stages == {"new", "asking", "running", "returned", "raised"}

LimiterPlaces ==
  /\ lLimit \in Nat /\ lFree \in Nat /\ lReleases \in Nat
  /\ IsFiniteSet(Holders)
  /\ Cardinality(Holders) + lFree + lReleases = lLimit

LimiterInv ==
  /\ LimiterPlaces
  /\ lWhere \in [Limiter!Calls -> Stages]
  /\ lAsked \in Seq(Limiter!Calls)
  /\ \A i \in 1 .. Len(lAsked) :
       lWhere[lAsked[i]] = "asking" /\ PoolTable[Caller[lAsked[i]]].limited
  /\ \A i, j \in 1 .. Len(lAsked) : lAsked[i] = lAsked[j] => i = j

\* What the assumption says of the pools and of who calls them.
LEMMA LimiterConstants ==
  /\ PoolTable \in [DOMAIN PoolTable ->
       [tool : {"search", "sandbox"}, limited : BOOLEAN, rate : Nat \ {0}, workers : Nat \ {0}]]
  /\ Caller \in [Limiter!Calls -> DOMAIN PoolTable]
BY MultiTurnAssumption DEF Limiter!RateLimiterAssumption, Limiter!Calls

\* At first nobody holds a token.
LEMMA LimiterInit == Limiter!Init => LimiterInv
<1>1. SUFFICES ASSUME Limiter!Init PROVE LimiterInv
  OBVIOUS
<1>2. Holders = {}
  BY <1>1 DEF Limiter!Init, Holders
<1>3. IsFiniteSet(Holders) /\ Cardinality(Holders) = 0
  BY <1>2, FS_EmptySet
<1>4. lWhere \in [Limiter!Calls -> Stages]
  BY <1>1 DEF Limiter!Init, Stages
<1>5. QED
  BY <1>1, <1>3, <1>4 DEF Limiter!Init, LimiterInv, LimiterPlaces

\* A call that changes its stage, and whether it holds a place of the limiter.
LEMMA HoldersChange ==
  ASSUME LimiterInv, NEW c \in Limiter!Calls, NEW stage \in Stages, Limiter!Goes(c, stage)
  PROVE  /\ lWhere' \in [Limiter!Calls -> Stages]
         /\ \A d \in Limiter!Calls : lWhere'[d] = IF d = c THEN stage ELSE lWhere[d]
         /\ Holders' = IF stage = "running" /\ PoolTable[Caller[c]].limited
                         THEN Holders \cup {c} ELSE Holders \ {c}
<1>1. lWhere \in [Limiter!Calls -> Stages] /\ lWhere' = [lWhere EXCEPT ![c] = stage]
  BY DEF LimiterInv, Limiter!Goes
<1>2. /\ lWhere' \in [Limiter!Calls -> Stages]
      /\ \A d \in Limiter!Calls : lWhere'[d] = IF d = c THEN stage ELSE lWhere[d]
  BY <1>1
<1>3. \A d \in Limiter!Calls :
        d \in Holders' <=> lWhere'[d] = "running" /\ PoolTable[Caller[d]].limited
  BY DEF Holders
<1>4. Holders \subseteq Limiter!Calls /\ Holders' \subseteq Limiter!Calls
  BY DEF Holders, Limiter!Calls
<1>5. \A d \in Limiter!Calls :
        d \in Holders <=> lWhere[d] = "running" /\ PoolTable[Caller[d]].limited
  BY DEF Holders
<1>6. QED
  BY <1>2, <1>3, <1>4, <1>5

\* Counting the holders when one comes or goes.
LEMMA HoldersCount ==
  ASSUME LimiterInv, NEW c
  PROVE  /\ Cardinality(Holders) \in Nat
         /\ IsFiniteSet(Holders \cup {c}) /\ IsFiniteSet(Holders \ {c})
         /\ c \notin Holders => Cardinality(Holders \cup {c}) = Cardinality(Holders) + 1
         /\ c \in Holders => Cardinality(Holders \ {c}) = Cardinality(Holders) - 1
<1>1. IsFiniteSet(Holders)
  BY DEF LimiterInv, LimiterPlaces
<1>2. QED
  BY <1>1, FS_AddElement, FS_RemoveElement, FS_CardinalityType

\* The first limited pool makes the limiter while nothing holds a place of it.
LEMMA LimiterInitPool ==
  ASSUME LimiterInv, NEW p \in DOMAIN PoolTable, Limiter!InitPool(p)
  PROVE  LimiterInv'
<1>1. UNCHANGED <<lWhere, lAsked, lReleases>> /\ Holders' = Holders
  BY DEF Limiter!InitPool, Holders
<1>2. CASE PoolTable[p].limited /\ lLimit = 0
  <2>1. lLimit' = PoolTable[p].rate /\ lFree' = PoolTable[p].rate /\ PoolTable[p].rate \in Nat
    BY <1>2, LimiterConstants DEF Limiter!InitPool
  <2>2. Cardinality(Holders) = 0 /\ lFree = 0 /\ lReleases = 0
    <3>1. Cardinality(Holders) \in Nat
      BY HoldersCount
    <3>2. QED
      BY <1>2, <3>1 DEF LimiterInv, LimiterPlaces
  <2>3. LimiterPlaces'
    BY <1>1, <2>1, <2>2 DEF LimiterInv, LimiterPlaces
  <2>4. QED
    BY <1>1, <2>3 DEF LimiterInv
<1>3. CASE ~ (PoolTable[p].limited /\ lLimit = 0)
  <2>1. UNCHANGED <<lLimit, lFree>>
    BY <1>3 DEF Limiter!InitPool
  <2>2. QED
    BY <1>1, <2>1 DEF LimiterInv, LimiterPlaces
<1>4. QED
  BY <1>2, <1>3

\* A call that asks is not among those that do, which stay as they were.
LEMMA LimiterAsk ==
  ASSUME LimiterInv, NEW c \in Limiter!Calls, Limiter!Ask(c)
  PROVE  LimiterInv'
<1>1. /\ lWhere[c] = "new" /\ PoolTable[Caller[c]].limited
      /\ Limiter!Goes(c, "asking") /\ lAsked' = Append(lAsked, c)
      /\ UNCHANGED <<lLimit, lFree, lReleases>>
  BY DEF Limiter!Ask, Limiter!CanStart
<1>2. /\ lWhere' \in [Limiter!Calls -> Stages]
      /\ \A d \in Limiter!Calls : lWhere'[d] = IF d = c THEN "asking" ELSE lWhere[d]
      /\ Holders' = Holders \ {c}
  BY <1>1, HoldersChange DEF Stages
<1>3. Holders' = Holders
  BY <1>1, <1>2 DEF Holders
<1>4. /\ lAsked \in Seq(Limiter!Calls)
      /\ \A i \in 1 .. Len(lAsked) :
           lWhere[lAsked[i]] = "asking" /\ PoolTable[Caller[lAsked[i]]].limited
      /\ \A i, j \in 1 .. Len(lAsked) : lAsked[i] = lAsked[j] => i = j
  BY DEF LimiterInv
<1>5. /\ lAsked' \in Seq(Limiter!Calls) /\ Len(lAsked') = Len(lAsked) + 1
      /\ \A i \in 1 .. Len(lAsked) : lAsked'[i] = lAsked[i] /\ lAsked[i] \in Limiter!Calls
      /\ lAsked'[Len(lAsked) + 1] = c
  BY <1>1, <1>4
<1>6. \A i \in 1 .. Len(lAsked') : i \in 1 .. Len(lAsked) \/ i = Len(lAsked) + 1
  BY <1>4, <1>5
<1>7. \A i \in 1 .. Len(lAsked) : lAsked[i] # c
  BY <1>1, <1>4
<1>8. \A i \in 1 .. Len(lAsked') :
        lWhere'[lAsked'[i]] = "asking" /\ PoolTable[Caller[lAsked'[i]]].limited
  BY <1>1, <1>2, <1>4, <1>5, <1>6
<1>9. \A i, j \in 1 .. Len(lAsked') : lAsked'[i] = lAsked'[j] => i = j
  BY <1>4, <1>5, <1>6, <1>7
<1>10. LimiterPlaces'
  BY <1>1, <1>3 DEF LimiterInv, LimiterPlaces
<1>11. QED
  BY <1>2, <1>5, <1>8, <1>9, <1>10 DEF LimiterInv

\* What is asked stays asked when another call changes its stage.
LEMMA AskedKept ==
  ASSUME LimiterInv, NEW c \in Limiter!Calls, lWhere[c] # "asking", lAsked' = lAsked,
         \A d \in Limiter!Calls : d # c => lWhere'[d] = lWhere[d]
  PROVE  \A i \in 1 .. Len(lAsked') :
           lWhere'[lAsked'[i]] = "asking" /\ PoolTable[Caller[lAsked'[i]]].limited
<1>1. \A i \in 1 .. Len(lAsked) : lAsked[i] \in Limiter!Calls /\ lAsked[i] # c
  BY DEF LimiterInv
<1>2. QED
  BY <1>1 DEF LimiterInv

\* A call of a pool without a limit takes no token.
LEMMA LimiterUnlimited ==
  ASSUME LimiterInv, NEW c \in Limiter!Calls, Limiter!StartUnlimited(c)
  PROVE  LimiterInv'
<1> DEFINE stage == IF PoolTable[Caller[c]].tool = "search" THEN "running" ELSE "raised"
<1>1. /\ lWhere[c] = "new" /\ ~ PoolTable[Caller[c]].limited
      /\ Limiter!Goes(c, stage) /\ UNCHANGED <<lAsked, lLimit, lFree, lReleases>>
  BY DEF Limiter!StartUnlimited, Limiter!CanStart
<1>2. stage \in Stages
  BY DEF Stages
<1> HIDE DEF stage
<1>3. /\ lWhere' \in [Limiter!Calls -> Stages]
      /\ \A d \in Limiter!Calls : lWhere'[d] = IF d = c THEN stage ELSE lWhere[d]
      /\ Holders' = Holders \ {c}
  BY <1>1, <1>2, HoldersChange
<1>4. Holders' = Holders
  BY <1>1, <1>3 DEF Holders
<1>5. \A i \in 1 .. Len(lAsked') :
        lWhere'[lAsked'[i]] = "asking" /\ PoolTable[Caller[lAsked'[i]]].limited
  BY <1>1, <1>3, AskedKept
<1>6. LimiterPlaces'
  BY <1>1, <1>4 DEF LimiterInv, LimiterPlaces
<1>7. QED
  BY <1>1, <1>3, <1>5, <1>6 DEF LimiterInv

\* A place goes from the semaphore to the call that has asked first.
LEMMA LimiterAcquire == ASSUME LimiterInv, Limiter!Acquire PROVE LimiterInv'
<1> DEFINE c == Head(lAsked)
<1>1. /\ lAsked \in Seq(Limiter!Calls)
      /\ \A i \in 1 .. Len(lAsked) :
           lWhere[lAsked[i]] = "asking" /\ PoolTable[Caller[lAsked[i]]].limited
      /\ \A i, j \in 1 .. Len(lAsked) : lAsked[i] = lAsked[j] => i = j
  BY DEF LimiterInv
<1>2. /\ lAsked # <<>> /\ lFree > 0 /\ lFree' = lFree - 1 /\ lAsked' = Tail(lAsked)
      /\ Limiter!Goes(c, "running") /\ UNCHANGED <<lLimit, lReleases>>
  BY DEF Limiter!Acquire
<1>3. Len(lAsked) \in Nat /\ Len(lAsked) > 0 /\ c = lAsked[1] /\ c \in Limiter!Calls
  BY <1>1, <1>2
<1>4. /\ lAsked' \in Seq(Limiter!Calls) /\ Len(lAsked') = Len(lAsked) - 1
      /\ \A i \in 1 .. Len(lAsked') : lAsked'[i] = lAsked[i + 1] /\ i + 1 \in 1 .. Len(lAsked)
  BY <1>1, <1>2, <1>3
<1> HIDE DEF c
<1>5. lWhere[c] = "asking" /\ PoolTable[Caller[c]].limited
  BY <1>1, <1>3
<1>6. /\ lWhere' \in [Limiter!Calls -> Stages]
      /\ \A d \in Limiter!Calls : lWhere'[d] = IF d = c THEN "running" ELSE lWhere[d]
      /\ Holders' = Holders \cup {c}
  BY <1>2, <1>3, <1>5, HoldersChange DEF Stages
<1>7. c \notin Holders
  BY <1>5 DEF Holders
<1>8. /\ IsFiniteSet(Holders') /\ Cardinality(Holders) \in Nat
      /\ Cardinality(Holders') = Cardinality(Holders) + 1
  BY <1>6, <1>7, HoldersCount
<1>9. \A i \in 1 .. Len(lAsked') : lAsked'[i] # c /\ lAsked'[i] \in Limiter!Calls
  <2>1. SUFFICES ASSUME NEW i \in 1 .. Len(lAsked') PROVE lAsked[i + 1] # lAsked[1]
    BY <1>1, <1>3, <1>4
  <2>2. 1 \in 1 .. Len(lAsked) /\ i + 1 \in 1 .. Len(lAsked) /\ i + 1 # 1
    BY <1>3, <1>4
  <2>3. QED
    BY <1>1, <2>2
<1>10. \A i \in 1 .. Len(lAsked') :
         lWhere'[lAsked'[i]] = "asking" /\ PoolTable[Caller[lAsked'[i]]].limited
  <2>1. SUFFICES ASSUME NEW i \in 1 .. Len(lAsked')
                 PROVE  lWhere'[lAsked'[i]] = "asking" /\ PoolTable[Caller[lAsked'[i]]].limited
    OBVIOUS
  <2>2. /\ lAsked'[i] = lAsked[i + 1] /\ i + 1 \in 1 .. Len(lAsked)
        /\ lAsked'[i] # c /\ lAsked'[i] \in Limiter!Calls
    BY <1>4, <1>9
  <2>3. lWhere[lAsked'[i]] = "asking" /\ PoolTable[Caller[lAsked'[i]]].limited
    BY <1>1, <2>2
  <2>4. QED
    BY <1>6, <2>2, <2>3
<1>11. \A i, j \in 1 .. Len(lAsked') : lAsked'[i] = lAsked'[j] => i = j
  <2>1. SUFFICES ASSUME NEW i \in 1 .. Len(lAsked'), NEW j \in 1 .. Len(lAsked'),
                        lAsked[i + 1] = lAsked[j + 1]
                 PROVE  i = j
    BY <1>4
  <2>2. i + 1 = j + 1
    BY <1>1, <1>4, <2>1
  <2>3. QED
    BY <1>4, <2>2
<1>12. LimiterPlaces'
  <2>1. LimiterPlaces
    BY DEF LimiterInv
  <2>2. QED
    BY <1>2, <1>8, <2>1 DEF LimiterPlaces
<1>13. QED
  BY <1>4, <1>6, <1>10, <1>11, <1>12 DEF LimiterInv

\* A call returns, and its token is to be released.
LEMMA LimiterReturn ==
  ASSUME LimiterInv, NEW c \in Limiter!Calls, Limiter!Return(c)
  PROVE  LimiterInv'
<1>1. /\ lWhere[c] = "running" /\ Limiter!Goes(c, "returned")
      /\ lReleases' = lReleases + (IF PoolTable[Caller[c]].limited THEN 1 ELSE 0)
      /\ UNCHANGED <<lAsked, lLimit, lFree>>
  BY DEF Limiter!Return
<1>2. /\ lWhere' \in [Limiter!Calls -> Stages]
      /\ \A d \in Limiter!Calls : lWhere'[d] = IF d = c THEN "returned" ELSE lWhere[d]
      /\ Holders' = Holders \ {c}
  BY <1>1, HoldersChange DEF Stages
<1>3. c \in Holders <=> PoolTable[Caller[c]].limited
  BY <1>1 DEF Holders
<1>4. /\ IsFiniteSet(Holders') /\ Cardinality(Holders) \in Nat
      /\ Cardinality(Holders')
           = Cardinality(Holders) - (IF PoolTable[Caller[c]].limited THEN 1 ELSE 0)
  <2>1. CASE PoolTable[Caller[c]].limited
    BY <1>2, <1>3, <2>1, HoldersCount
  <2>2. CASE ~ PoolTable[Caller[c]].limited
    <3>1. Holders' = Holders
      BY <1>2, <1>3, <2>2
    <3>2. Cardinality(Holders) \in Nat
      BY HoldersCount
    <3>3. IsFiniteSet(Holders)
      BY DEF LimiterInv, LimiterPlaces
    <3>4. QED
      BY <2>2, <3>1, <3>2, <3>3
  <2>3. QED
    BY <2>1, <2>2
<1>5. \A i \in 1 .. Len(lAsked') :
        lWhere'[lAsked'[i]] = "asking" /\ PoolTable[Caller[lAsked'[i]]].limited
  BY <1>1, <1>2, AskedKept
<1>6. LimiterPlaces'
  <2>1. LimiterPlaces
    BY DEF LimiterInv
  <2>2. lLimit' \in Nat /\ lFree' \in Nat /\ IsFiniteSet(Holders')
    BY <1>1, <1>4, <2>1, Zenon DEF LimiterPlaces
  <2> DEFINE n == IF PoolTable[Caller[c]].limited THEN 1 ELSE 0
             held == Cardinality(Holders)
             left == Cardinality(Holders')
  <2>3. left + lFree' + lReleases' = lLimit' /\ lReleases' \in Nat
    <3>1. /\ left = held - n /\ lReleases' = lReleases + n /\ n \in Nat /\ held \in Nat
          /\ lFree' = lFree /\ lLimit' = lLimit
      BY <1>1, <1>4
    <3>2. /\ lLimit \in Nat /\ lFree \in Nat /\ lReleases \in Nat
          /\ held + lFree + lReleases = lLimit
      BY <2>1 DEF LimiterPlaces
    <3> HIDE DEF n, held, left
    <3>3. QED
      BY <3>1, <3>2
  <2>4. QED
    BY <2>2, <2>3, Zenon DEF LimiterPlaces
<1>7. QED
  BY <1>1, <1>2, <1>5, <1>6 DEF LimiterInv

\* A release that is on its way puts its token back.
LEMMA LimiterRelease == ASSUME LimiterInv, Limiter!Release PROVE LimiterInv'
<1>1. /\ lReleases > 0 /\ lReleases' = lReleases - 1 /\ lFree' = lFree + 1
      /\ UNCHANGED <<lWhere, lAsked, lLimit>> /\ Holders' = Holders
  BY DEF Limiter!Release, Holders
<1>2. Cardinality(Holders) \in Nat
  BY HoldersCount
<1>3. LimiterPlaces'
  BY <1>1, <1>2, SMTT(30) DEF LimiterInv, LimiterPlaces
<1>4. QED
  BY <1>1, <1>3 DEF LimiterInv

\* Every step of the limiter preserves its invariant.
LEMMA LimiterNext == LimiterInv /\ [Limiter!Next]_lVars => LimiterInv'
<1>1. SUFFICES ASSUME LimiterInv, [Limiter!Next]_lVars PROVE LimiterInv'
  OBVIOUS
<1>2. ASSUME NEW p \in DOMAIN PoolTable, Limiter!InitPool(p) PROVE LimiterInv'
  BY <1>1, <1>2, LimiterInitPool
<1>3. ASSUME NEW c \in Limiter!Calls,
             Limiter!Ask(c) \/ Limiter!StartUnlimited(c) \/ Limiter!Return(c)
      PROVE  LimiterInv'
  BY <1>1, <1>3, LimiterAsk, LimiterUnlimited, LimiterReturn
<1>4. ASSUME Limiter!Acquire \/ Limiter!Release PROVE LimiterInv'
  BY <1>1, <1>4, LimiterAcquire, LimiterRelease
<1>5. CASE UNCHANGED lVars
  BY <1>1, <1>5 DEF LimiterInv, LimiterPlaces, Holders, lVars
<1>6. QED
  BY <1>1, <1>2, <1>3, <1>4, <1>5
  DEF Limiter!Next, Limiter!Over, Limiter!vars, lVars

------------------------------------------------------------------------------
(* The bucket of the MCP tools.  Its invariant: what has been let through  *)
(* since a start, and what is in the bucket, came in since that start.     *)

\* What the calls let through since the start of call i have taken, and what is
\* in the bucket, has come in since.
Accounted(i, taken, tokens, time) ==
  taken * Second + tokens <= McpRate * (Second + time - bStarts[i])

BucketInv ==
  /\ bStarts \in Seq(Nat)
  /\ bNow \in Nat /\ bLastUpdate \in Nat /\ bLastUpdate <= bNow
  /\ bTokens \in 0 .. McpRate * Second
  /\ \A i \in 1 .. Len(bStarts) :
       /\ bStarts[i] <= bLastUpdate
       /\ Accounted(i, Len(bStarts) - i + 1, bTokens, bLastUpdate)
  /\ Bucket!RateHolds

\* What the assumption says of the rate.
LEMMA BucketConstants == McpRate \in Nat \ {0} /\ Second \in Nat \ {0}
BY MultiTurnAssumption DEF Bucket!TokenBucketAssumption

\* Products of integers, which the provers take as opaque.
LEMMA Distributes ==
  ASSUME NEW a \in Int, NEW b \in Int, NEW c \in Int
  PROVE  a * b \in Int /\ a * (b + c) = a * b + a * c /\ (b + c) * a = b * a + c * a
OBVIOUS

\* The bucket starts with what one second brings.
LEMMA BucketInit == Bucket!Init => BucketInv
<1>1. SUFFICES ASSUME Bucket!Init PROVE BucketInv
  OBVIOUS
<1>2. bStarts = <<>> /\ bNow = 0 /\ bLastUpdate = 0 /\ bTokens = McpRate * Second
  BY <1>1 DEF Bucket!Init
<1>3. McpRate * Second \in Nat
  BY BucketConstants
<1>4. Len(bStarts) = 0 /\ bStarts \in Seq(Nat) /\ DOMAIN bStarts = {}
  BY <1>2
<1>5. QED
  BY <1>2, <1>3, <1>4 DEF BucketInv, Bucket!RateHolds

\* Whether or not somebody has polled meanwhile, the bucket is never above what
\* came in, nor above what it holds.
LEMMA Inflow ==
  ASSUME BucketInv
  PROVE  /\ Bucket!Filled \in 0 .. McpRate * Second
         /\ Bucket!Filled <= bTokens + McpRate * (bNow - bLastUpdate)
<1> DEFINE full == McpRate * Second
           more == (bNow - bLastUpdate) * McpRate
<1>1. full \in Nat /\ more \in Nat /\ more = McpRate * (bNow - bLastUpdate)
  <2>1. bNow - bLastUpdate \in Nat /\ McpRate \in Nat /\ Second \in Nat
    BY BucketConstants DEF BucketInv
  <2>2. QED
    BY <2>1
<1>2. bTokens \in 0 .. full
  BY DEF BucketInv
<1>3. Bucket!Filled = IF bTokens + more < full THEN bTokens + more ELSE full
  BY DEF Bucket!Filled
<1> HIDE DEF full, more
<1>4. Bucket!Filled \in 0 .. full /\ Bucket!Filled <= bTokens + more
  BY <1>1, <1>2, <1>3
<1>5. QED
  BY <1>1, <1>4 DEF full

\* Filling up keeps the account of every start.
LEMMA AccountKept ==
  ASSUME BucketInv, NEW i \in 1 .. Len(bStarts), NEW taken \in Int,
         Accounted(i, taken, bTokens, bLastUpdate)
  PROVE  Accounted(i, taken, Bucket!Filled, bNow)
<1>1. /\ bStarts[i] \in Int /\ bLastUpdate \in Int /\ bNow \in Int /\ bTokens \in Int
      /\ Second \in Int /\ McpRate \in Int /\ Bucket!Filled \in Int
  BY BucketConstants, Inflow DEF BucketInv
<1> DEFINE a == Second + bLastUpdate - bStarts[i]
           b == bNow - bLastUpdate
           spent == taken * Second
<1>2. a \in Int /\ b \in Int /\ spent \in Int /\ Second + bNow - bStarts[i] = a + b
  BY <1>1
<1>3. McpRate * (a + b) = McpRate * a + McpRate * b
      /\ McpRate * a \in Int /\ McpRate * b \in Int
  BY <1>1, <1>2, Distributes, SMTT(60)
<1>4. spent + bTokens <= McpRate * a /\ Bucket!Filled <= bTokens + McpRate * b
  BY Inflow DEF Accounted
<1>5. spent + Bucket!Filled <= McpRate * (a + b)
  <2> HIDE DEF a, b, spent
  <2>1. QED
    BY <1>1, <1>2, <1>3, <1>4
<1>6. QED
  BY <1>2, <1>5 DEF Accounted

\* A poll that finds no token.
LEMMA BucketWaits ==
  ASSUME BucketInv, UNCHANGED <<bStarts, bNow>>, bLastUpdate' = bNow,
         bTokens' = Bucket!Filled
  PROVE  BucketInv'
<1>1. \A i \in 1 .. Len(bStarts) :
        Accounted(i, Len(bStarts) - i + 1, Bucket!Filled, bNow)
  <2>1. SUFFICES ASSUME NEW i \in 1 .. Len(bStarts)
                 PROVE  Accounted(i, Len(bStarts) - i + 1, Bucket!Filled, bNow)
    OBVIOUS
  <2>2. Accounted(i, Len(bStarts) - i + 1, bTokens, bLastUpdate)
    BY DEF BucketInv
  <2>3. Len(bStarts) - i + 1 \in Int
    BY DEF BucketInv
  <2>4. QED
    BY <2>2, <2>3, AccountKept
<1>2. \A i \in 1 .. Len(bStarts)' :
        Accounted(i, Len(bStarts) - i + 1, bTokens, bLastUpdate)'
  BY <1>1 DEF Accounted
<1>3. \A i \in 1 .. Len(bStarts)' : bStarts'[i] <= bLastUpdate'
  <2>1. \A i \in 1 .. Len(bStarts) : bStarts[i] \in Nat /\ bStarts[i] <= bLastUpdate
    BY DEF BucketInv
  <2>2. bLastUpdate <= bNow /\ bLastUpdate \in Nat /\ bNow \in Nat
    BY DEF BucketInv
  <2>3. QED
    BY <2>1, <2>2
<1>4. (Bucket!RateHolds)'
  BY DEF BucketInv, Bucket!RateHolds
<1>5. QED
  BY <1>2, <1>3, <1>4, Inflow DEF BucketInv

\* A poll that takes a token: the new start has what a full bucket may hold, and
\* with what is left the earlier ones are within their bound.
LEMMA BucketStarts ==
  ASSUME BucketInv, bStarts' = Append(bStarts, bNow), bNow' = bNow, bLastUpdate' = bNow,
         bTokens' = Bucket!Filled - Second, Bucket!Filled >= Second
  PROVE  BucketInv'
<1> DEFINE n == Len(bStarts)
           full == McpRate * Second
           f == Bucket!Filled
<1>1. /\ bStarts \in Seq(Nat) /\ n \in Nat /\ bNow \in Nat /\ bLastUpdate \in Nat
      /\ bLastUpdate <= bNow /\ Second \in Nat /\ Second > 0 /\ McpRate \in Nat
  BY BucketConstants DEF BucketInv
<1>2. /\ bStarts' \in Seq(Nat) /\ Len(bStarts') = n + 1
      /\ \A i \in 1 .. n : bStarts'[i] = bStarts[i] /\ bStarts[i] \in Nat
      /\ bStarts'[n + 1] = bNow
  BY <1>1
<1>3. \A i \in 1 .. Len(bStarts') : i \in 1 .. n \/ i = n + 1
  BY <1>1, <1>2
<1>4. full \in Nat /\ f \in 0 .. full /\ f >= Second /\ bTokens' = f - Second
  BY <1>1, Inflow
<1> HIDE DEF n, f, full
<1>5. bTokens' \in 0 .. full
  BY <1>1, <1>4
<1>6. ASSUME NEW i \in 1 .. Len(bStarts')
      PROVE  Accounted(i, Len(bStarts) - i + 1, bTokens, bLastUpdate)'
  <2>1. CASE i \in 1 .. n
    <3> DEFINE taken == n - i + 1
    <3>1. Accounted(i, taken, bTokens, bLastUpdate)
      BY <2>1 DEF BucketInv, Accounted, n
    <3>2. taken \in Int /\ Len(bStarts') - i + 1 = taken + 1
      BY <1>1, <1>2, <2>1
    <3>3. Accounted(i, taken, f, bNow)
      BY <2>1, <3>1, <3>2, AccountKept DEF n, f
    <3> HIDE DEF taken
    <3>4. (taken + 1) * Second = taken * Second + Second /\ taken * Second \in Int
      BY <1>1, <3>2
    <3>5. (taken + 1) * Second + bTokens' = taken * Second + f
      <4> DEFINE spent == taken * Second
      <4>1. spent \in Int /\ (taken + 1) * Second = spent + Second
        BY <3>4
      <4> HIDE DEF spent
      <4>2. spent + Second + (f - Second) = spent + f
        BY <1>1, <1>4, <4>1
      <4>3. QED
        BY <1>4, <4>1, <4>2 DEF spent
    <3>6. QED
      BY <1>2, <2>1, <3>2, <3>3, <3>5 DEF Accounted
  <2>2. CASE i = n + 1
    <3>1. Len(bStarts') - i + 1 = 1 /\ bStarts'[i] = bNow
      BY <1>1, <1>2, <2>2
    <3>2. 1 * Second + bTokens' = f /\ Second + bNow - bNow = Second
      BY <1>1, <1>4, SMTT(60)
    <3>3. f <= McpRate * Second
      BY <1>4 DEF full
    <3>4. QED
      BY <3>1, <3>2, <3>3 DEF Accounted
  <2>3. QED
    BY <1>3, <2>1, <2>2
<1>7. \A i \in 1 .. Len(bStarts') : bStarts'[i] <= bLastUpdate'
  <2>1. \A i \in 1 .. n : bStarts[i] \in Nat /\ bStarts[i] <= bLastUpdate
    BY SMTT(60) DEF BucketInv, n
  <2>2. QED
    BY <1>1, <1>2, <1>3, <2>1
<1>8. (Bucket!RateHolds)'
  <2>1. DOMAIN bStarts' = 1 .. Len(bStarts') /\ DOMAIN bStarts = 1 .. n
    BY <1>1, <1>2 DEF n
  <2>2. SUFFICES ASSUME NEW i \in 1 .. Len(bStarts'), NEW j \in 1 .. Len(bStarts'), i <= j
                 PROVE  (j - i + 1) * Second <= McpRate * (Second + bStarts'[j] - bStarts'[i])
    BY <2>1 DEF Bucket!RateHolds
  <2>3. CASE j \in 1 .. n
    <3>1. i \in 1 .. n
      BY <1>1, <1>2, <2>2, <2>3
    <3>2. (j - i + 1) * Second <= McpRate * (Second + bStarts[j] - bStarts[i])
      BY <2>1, <2>2, <2>3, <3>1 DEF BucketInv, Bucket!RateHolds
    <3>3. QED
      BY <1>2, <2>3, <3>1, <3>2
  <2>4. CASE j = n + 1
    <3> DEFINE spent == (j - i + 1) * Second
               bound == McpRate * (Second + bNow - bStarts'[i])
    <3>1. Accounted(i, Len(bStarts) - i + 1, bTokens, bLastUpdate)'
      BY <1>6
    <3>2. spent + bTokens' <= bound
      BY <1>2, <2>4, <3>1 DEF Accounted
    <3>3. spent \in Int /\ bound \in Int
      <4>1. i \in Int /\ j \in Int /\ bStarts'[i] \in Int
        BY <1>2
      <4>2. j - i + 1 \in Int /\ Second + bNow - bStarts'[i] \in Int
        BY <1>1, <4>1
      <4>3. QED
        BY <1>1, <4>2, SMTT(60)
    <3>4. bTokens' \in Nat
      BY <1>4, <1>5
    <3>5. bStarts'[j] = bNow
      BY <1>2, <2>4
    <3>6. spent <= bound
      <4> HIDE DEF spent, bound
      <4>1. QED
        BY <3>2, <3>3, <3>4
    <3>7. QED
      BY <3>5, <3>6
  <2>5. QED
    BY <1>3, <2>3, <2>4
<1>9. QED
  BY <1>1, <1>2, <1>5, <1>6, <1>7, <1>8 DEF BucketInv, full

\* Every step of the bucket preserves its invariant.
LEMMA BucketNext == BucketInv /\ [Bucket!Next]_bVars => BucketInv'
<1>1. SUFFICES ASSUME BucketInv, [Bucket!Next]_bVars PROVE BucketInv'
  OBVIOUS
<1>2. ASSUME NEW c \in McpCalls, Bucket!Poll(c) PROVE BucketInv'
  BY <1>1, <1>2, BucketWaits, BucketStarts DEF Bucket!Poll
<1>3. CASE Bucket!Tick
  <2>1. bNow' = bNow + 1 /\ UNCHANGED <<bTokens, bLastUpdate, bStarts>>
    BY <1>3 DEF Bucket!Tick
  <2>2. bNow' \in Nat /\ bLastUpdate' <= bNow'
    BY <1>1, <2>1 DEF BucketInv
  <2>3. (Bucket!RateHolds)' <=> Bucket!RateHolds
    BY <2>1 DEF Bucket!RateHolds
  <2>4. QED
    BY <1>1, <2>1, <2>2, <2>3 DEF BucketInv, Accounted
<1>4. CASE UNCHANGED bVars
  BY <1>1, <1>4 DEF BucketInv, Accounted, Bucket!RateHolds, bVars
<1>5. QED
  BY <1>1, <1>2, <1>3, <1>4 DEF Bucket!Next, Bucket!Over, Bucket!vars, bVars

------------------------------------------------------------------------------
\* Every step of MCMultiTurn is one of the limiter, of the bucket, or leaves the
\* variables of both alone.
LEMMA LimitsAlways == MCSpec => [](LimiterInv /\ BucketInv)
<1>1. MCInit => LimiterInv /\ BucketInv
  BY LimiterInit, BucketInit DEF MCInit
<1>2. [MCNext]_MCVars => [Limiter!Next]_lVars /\ [Bucket!Next]_bVars
  BY DEF MCNext, MCVars, Agent, SGLang, Limited, Polling
<1>3. LimiterInv /\ BucketInv /\ [MCNext]_MCVars => (LimiterInv /\ BucketInv)'
  BY <1>2, LimiterNext, BucketNext
<1>4. QED
  BY <1>1, <1>3, PTL DEF MCSpec

\* Neither limit is ever exceeded: the calls that run, the free places of the
\* limiter and the releases on their way always add up to the rate it was made
\* for (search_tool.py, sandbox_fusion_tools.py), and in no stretch of time do
\* more MCP calls start than a full bucket and its inflow allow (McpClientManager).
THEOREM LimitsHold == MCSpec => []ToolsWithinLimits
<1>1. LimiterInv => Limiter!LimitHolds
  <2>1. SUFFICES ASSUME LimiterInv PROVE Limiter!LimitHolds
    OBVIOUS
  <2>2. Cardinality(Holders) + lFree + lReleases = lLimit
    BY <2>1 DEF LimiterInv, LimiterPlaces
  <2>3. QED
    BY <2>2
    DEF Limiter!LimitHolds, Holders, Limiter!Cardinality, Cardinality,
        Limiter!IsFiniteSet, IsFiniteSet
<1>2. BucketInv => Bucket!RateHolds
  BY DEF BucketInv
<1>3. QED
  BY <1>1, <1>2, LimitsAlways, PTL DEF ToolsWithinLimits

===============================================================================
