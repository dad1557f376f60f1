--------------------------- MODULE AtUtilsProofs ---------------------------
(***************************************************************************)
(* As long as the module is in step, an answer is counted for its command, *)
(* a frame is given away whole, the first entry is there when it is used,  *)
(* and a command goes out no more often than its retry says: for all texts *)
(* to be caught, commands, buffer lengths and pieces in which bytes arrive.*)
(*                                                                         *)
(* The argument looks at the stream: the fifo and, behind it, the wire.    *)
(* The reader only moves the border between the two, so the invariant says *)
(* nothing of pieces.  In the stream every message is whole, but for the   *)
(* front of the first (Whole); its answers are to the first command, and   *)
(* only those still to come (Answers, ExpOf); what is missing of a frame   *)
(* stands in front (FrameOk), and so does what the state says (PlaceOk).   *)
(* No answer is there before its command went out, nor, unless that counts  *)
(* as late, when its time is over, which is why a command can be sent again *)
(* and its successor be sent (Quiet).  Tries and sendings add up (TriesOk). *)
(* That bytes were put is what the used length says, of either fifo, when   *)
(* it is not 0 (UsedInv).                                                  *)
(***************************************************************************)
EXTENDS AtUtils, NaturalsInduction, WellFoundedInduction, TLAPS

-----------------------------------------------------------------------------
(* Sequences.                                                              *)

(* s without its first n elements. *)
Drop(s, n) == SubSeq(s, n + 1, Len(s))

(* The elements of a sequence. *)
LEMMA SeqFacts ==
  ASSUME NEW X, NEW s \in Seq(X)
  PROVE  Len(s) \in Nat /\ \A i \in 1..Len(s) : s[i] \in X
  OBVIOUS

(* More may be in a sequence than is. *)
LEMMA SeqMore ==
  ASSUME NEW X, NEW Y, NEW s \in Seq(X), X \subseteq Y
  PROVE  s \in Seq(Y)
<1>1. s \in [1..Len(s) -> Y] /\ Len(s) \in Nat
  OBVIOUS
<1> QED BY <1>1

(* What is left after a drop, one place further to the front. *)
LEMMA DropFacts ==
  ASSUME NEW X, NEW s \in Seq(X), NEW n \in 0..Len(s)
  PROVE  /\ Drop(s, n) \in Seq(X)
         /\ Len(Drop(s, n)) = Len(s) - n
         /\ \A i \in 1..(Len(s) - n) : Drop(s, n)[i] = s[i + n]
  BY DEF Drop

(* Nothing is left when all is dropped, or more. *)
LEMMA DropAll ==
  ASSUME NEW X, NEW s \in Seq(X), NEW n \in Nat, n >= Len(s)
  PROVE  Drop(s, n) = <<>>
  BY DEF Drop

(* Any drop leaves a sequence that is not longer. *)
LEMMA DropType ==
  ASSUME NEW X, NEW s \in Seq(X), NEW n \in Nat
  PROVE  Drop(s, n) \in Seq(X) /\ Len(Drop(s, n)) <= Len(s)
<1>1. CASE n <= Len(s)
  BY <1>1, SeqFacts, DropFacts
<1>2. CASE ~(n <= Len(s))
  <2>1. Drop(s, n) = <<>>
    BY <1>2, SeqFacts, DropAll
  <2> QED BY <2>1, SeqFacts
<1> QED BY <1>1, <1>2

(* Concatenation, element by element. *)
LEMMA CatFacts ==
  ASSUME NEW X, NEW s \in Seq(X), NEW t \in Seq(X)
  PROVE  /\ s \o t \in Seq(X)
         /\ Len(s \o t) = Len(s) + Len(t)
         /\ \A i \in 1..Len(s) : (s \o t)[i] = s[i]
         /\ \A i \in (Len(s) + 1)..(Len(s) + Len(t)) : (s \o t)[i] = t[i - Len(s)]
  OBVIOUS

(* The first n elements. *)
LEMMA FrontFacts ==
  ASSUME NEW X, NEW s \in Seq(X), NEW n \in 0..Len(s)
  PROVE  /\ SubSeq(s, 1, n) \in Seq(X)
         /\ Len(SubSeq(s, 1, n)) = n
         /\ \A i \in 1..n : SubSeq(s, 1, n)[i] = s[i]
  OBVIOUS

(* The elements from a to b. *)
LEMMA MiddleFacts ==
  ASSUME NEW X, NEW s \in Seq(X), NEW a \in Nat \ {0}, NEW b \in Nat, a <= b + 1, b <= Len(s)
  PROVE  /\ SubSeq(s, a, b) \in Seq(X) /\ Len(SubSeq(s, a, b)) = b - a + 1
         /\ \A i \in 1..(b - a + 1) : SubSeq(s, a, b)[i] = s[a + i - 1]
  OBVIOUS

(* Nothing is from a to b when b is before a. *)
LEMMA MiddleEmpty ==
  ASSUME NEW X, NEW s \in Seq(X), NEW a \in Nat, NEW b \in Int, b < a
  PROVE  SubSeq(s, a, b) = <<>>
  OBVIOUS

(* Sequences with the same elements are the same. *)
LEMMA SeqEq ==
  ASSUME NEW X, NEW s \in Seq(X), NEW t \in Seq(X), Len(s) = Len(t),
         \A i \in 1..Len(s) : s[i] = t[i]
  PROVE  s = t
  OBVIOUS

-----------------------------------------------------------------------------
(* The stream: what is in the fifo and what is on the wire behind it.      *)

(* The characters; the provers do not know that a literal is in STRING. *)
Chars == STRING \union {"O", "K", "E", "R", ">", "SP", "+", "C", "n"}

BYTE == [c : Chars, of : Nat, rest : Nat]

Stream == fifo \o wire

(* Texts are of such characters. *)
LEMMA CharSeq ==
  ASSUME NEW s \in Seq(STRING)
  PROVE  s \in Seq(Chars)
  BY SeqMore DEF Chars

(* The modem's own texts are of such characters. *)
LEMMA TextType ==
  ASSUME NEW text \in Unsolicited
  PROVE  text \in Seq(Chars) /\ Len(text) \in Nat
<1>1. text \in Seq(STRING)
  BY TextsAssumption
<1>2. text \in Seq(Chars)
  BY <1>1, CharSeq
<1> QED BY <1>2

(* The facts above, of bytes. *)
LEMMA CatBytes ==
  ASSUME NEW S \in Seq(BYTE), NEW T \in Seq(BYTE)
  PROVE  /\ S \o T \in Seq(BYTE) /\ Len(S) \in Nat /\ Len(T) \in Nat
         /\ Len(S \o T) = Len(S) + Len(T)
         /\ \A i \in 1..Len(S) : (S \o T)[i] = S[i]
         /\ \A i \in (Len(S) + 1)..(Len(S) + Len(T)) : (S \o T)[i] = T[i - Len(S)]
  OBVIOUS

(* Three sequences one behind the other. *)
LEMMA CatAssoc ==
  ASSUME NEW R \in Seq(BYTE), NEW S \in Seq(BYTE), NEW T \in Seq(BYTE)
  PROVE  (R \o S) \o T = R \o (S \o T)
<1> DEFINE x == R \o S
           y == S \o T
           p == x \o T
           q == R \o y
<1>1. /\ x \in Seq(BYTE) /\ Len(R) \in Nat /\ Len(S) \in Nat /\ Len(x) = Len(R) + Len(S)
      /\ \A i \in 1..Len(R) : x[i] = R[i]
      /\ \A i \in (Len(R) + 1)..(Len(R) + Len(S)) : x[i] = S[i - Len(R)]
  BY CatBytes
<1>2. /\ y \in Seq(BYTE) /\ Len(T) \in Nat /\ Len(y) = Len(S) + Len(T)
      /\ \A i \in 1..Len(S) : y[i] = S[i]
      /\ \A i \in (Len(S) + 1)..(Len(S) + Len(T)) : y[i] = T[i - Len(S)]
  BY CatBytes
<1> HIDE DEF x, y
<1>3. /\ p \in Seq(BYTE) /\ Len(p) = Len(x) + Len(T)
      /\ \A i \in 1..Len(x) : p[i] = x[i]
      /\ \A i \in (Len(x) + 1)..(Len(x) + Len(T)) : p[i] = T[i - Len(x)]
  BY <1>1, CatBytes
<1>4. /\ q \in Seq(BYTE) /\ Len(q) = Len(R) + Len(y)
      /\ \A i \in 1..Len(R) : q[i] = R[i]
      /\ \A i \in (Len(R) + 1)..(Len(R) + Len(y)) : q[i] = y[i - Len(R)]
  BY <1>2, CatBytes
<1> HIDE DEF p, q
<1>5. Len(p) = Len(q) /\ Len(p) = Len(R) + Len(S) + Len(T)
  BY <1>1, <1>2, <1>3, <1>4
<1>6. \A i \in 1..Len(p) : p[i] = q[i]
  <2> TAKE i \in 1..Len(p)
  <2>1. CASE i <= Len(R)
    <3>1. i \in 1..Len(R) /\ i \in 1..Len(x)
      BY <1>1, <1>5, <2>1
    <3> QED BY <1>1, <1>3, <1>4, <3>1
  <2>2. CASE i > Len(R) /\ i <= Len(R) + Len(S)
    <3>1. /\ i \in 1..Len(x) /\ i \in (Len(R) + 1)..(Len(R) + Len(S))
          /\ i \in (Len(R) + 1)..(Len(R) + Len(y)) /\ i - Len(R) \in 1..Len(S)
      BY <1>1, <1>2, <1>5, <2>2
    <3> QED BY <1>1, <1>2, <1>3, <1>4, <3>1
  <2>3. CASE i > Len(R) + Len(S)
    <3>1. /\ i \in (Len(x) + 1)..(Len(x) + Len(T)) /\ i \in (Len(R) + 1)..(Len(R) + Len(y))
          /\ i - Len(R) \in (Len(S) + 1)..(Len(S) + Len(T))
          /\ i - Len(R) - Len(S) = i - Len(x)
      BY <1>1, <1>2, <1>5, <2>3
    <3>2. p[i] = T[i - Len(x)] /\ q[i] = y[i - Len(R)]
      BY <1>3, <1>4, <3>1
    <3>3. y[i - Len(R)] = T[i - Len(R) - Len(S)]
      BY <1>2, <3>1
    <3> QED BY <3>1, <3>2, <3>3
  <2> QED BY <1>1, <1>5, <2>1, <2>2, <2>3
<1>7. p = q
  BY <1>3, <1>4, <1>5, <1>6, SeqEq
<1> QED BY <1>7 DEF p, q, x, y

(* The text begins at place s of S, byte by byte as the modem sends it. *)
Sits(S, s, text) ==
  /\ s + Len(text) - 1 <= Len(S)
  /\ \A i \in 1..Len(text) :
       S[s + i - 1] = [c |-> text[i], of |-> 0, rest |-> Len(text) - i]

(* Behind the first e bytes, what the modem sent on its own is whole. *)
TextsWhole(S, e) ==
  \A k \in (e + 1)..Len(S) : S[k].of = 0 =>
    \E text \in Unsolicited : \E s \in (e + 1)..k :
      Sits(S, s, text) /\ k <= s + Len(text) - 1

(* The bytes of answers, with how many follow. *)
AnswerByte(b) ==
  \/ b.c \in {"O", "E", ">"} /\ b.rest = 1
  \/ b.c \in {"K", "R", "SP"} /\ b.rest = 0
  \/ b.c = "+" /\ b.rest = 4
  \/ b.c = "C" /\ b.rest = 3
  \/ b.c = "n" /\ b.rest = 2

(* What comes behind a byte in its answer. *)
Next_c(c) == IF c = "O" THEN "K" ELSE IF c = "E" THEN "R"
             ELSE IF c = ">" THEN "SP" ELSE IF c = "+" THEN "C"
             ELSE IF c = "C" THEN "n" ELSE "O"

Continues(a, b) == b.of = a.of /\ b.rest = a.rest - 1 /\ b.c = Next_c(a.c)

First_c == {"O", "E", ">", "+"}

(* Behind the first e bytes, answers are whole but for the first bytes of   *)
(* the one that stands there.                                              *)
AnswersWhole(S, e) ==
  \A k \in (e + 1)..Len(S) : S[k].of # 0 =>
    /\ AnswerByte(S[k])
    /\ S[k].rest > 0 => k < Len(S) /\ Continues(S[k], S[k + 1])
    /\ k > e + 1 /\ S[k].c \notin First_c => Continues(S[k - 1], S[k])

Whole(S, e) == TextsWhole(S, e) /\ AnswersWhole(S, e)

(* Behind the first e bytes, all answers are to the command id, have their *)
(* bytes from exp, and none begins behind one that may is silent about.    *)
Answers(S, e, id, exp, may) ==
  \A k \in (e + 1)..Len(S) : S[k].of # 0 =>
    /\ S[k].c \in exp
    /\ S[k].of = id
    /\ \A m \in (k + 1)..Len(S) :
         S[m].of # 0 /\ S[k].c \in {"K", "R", ">", "SP"} =>
           <<S[k].c, S[m].c>> \in may

-----------------------------------------------------------------------------
(* Lemmas about the stream.                                                *)

(* What ends a message, or is no text of the modem's own, may be skipped. *)
LEMMA WholeSkip ==
  ASSUME NEW S \in Seq(BYTE), Whole(S, 0), NEW n \in 1..Len(S),
         S[n].of # 0 \/ S[n].rest = 0
  PROVE  Whole(S, n)
<1>1. Len(S) \in Nat
  BY SeqFacts
<1>2. TextsWhole(S, n)
  <2> SUFFICES ASSUME NEW k \in (n + 1)..Len(S), S[k].of = 0
               PROVE  \E text \in Unsolicited : \E s \in (n + 1)..k :
                        Sits(S, s, text) /\ k <= s + Len(text) - 1
    BY DEF TextsWhole
  <2>1. k \in 1..Len(S) /\ k \in Int /\ n \in Int /\ n < k
    BY <1>1
  <2>2. PICK text \in Unsolicited, s \in 1..k :
          Sits(S, s, text) /\ k <= s + Len(text) - 1
    BY <2>1 DEF Whole, TextsWhole
  <2>3. Len(text) \in Nat
    BY TextType
  <2>4. s > n
    <3> SUFFICES ASSUME s <= n PROVE FALSE
      BY <2>1
    <3> DEFINE i == n - s + 1
    <3>1. i \in 1..Len(text) /\ s + i - 1 = n /\ Len(text) - i > 0
      BY <2>1, <2>2, <2>3
    <3>2. S[s + i - 1] = [c |-> text[i], of |-> 0, rest |-> Len(text) - i]
      BY <2>2, <3>1 DEF Sits
    <3> HIDE DEF i
    <3>3. S[n].of = 0 /\ S[n].rest = Len(text) - i
      BY <3>1, <3>2, SMTT(30)
    <3> QED BY <3>1, <3>3
  <2> QED BY <2>1, <2>2, <2>4
<1>3. AnswersWhole(S, n)
  BY <1>1 DEF Whole, AnswersWhole
<1> QED BY <1>2, <1>3 DEF Whole

(* A text that stands in front may be skipped. *)
LEMMA WholeSkipText ==
  ASSUME NEW S \in Seq(BYTE), Whole(S, 0), NEW text \in Unsolicited,
         Sits(S, 1, text), Len(text) >= 1
  PROVE  Whole(S, Len(text))
<1>1. Len(text) \in 1..Len(S)
  <2>1. Len(text) \in Nat /\ Len(S) \in Nat
    BY TextType
  <2> QED BY <2>1 DEF Sits
<1>2. S[1 + Len(text) - 1] = [c |-> text[Len(text)], of |-> 0, rest |-> Len(text) - Len(text)]
  BY <1>1 DEF Sits
<1>3. S[Len(text)].rest = 0
  <2>1. 1 + Len(text) - 1 = Len(text) /\ Len(text) - Len(text) = 0
    BY <1>1
  <2> QED BY <1>2, <2>1
<1> QED BY <1>1, <1>3, WholeSkip

(* What is behind the first e bytes does not depend on how many of those   *)
(* are still there.                                                        *)
LEMMA WholeShift ==
  ASSUME NEW S \in Seq(BYTE), NEW e \in 0..Len(S), Whole(S, e), NEW n \in 0..e
  PROVE  Whole(Drop(S, n), e - n)
<1> DEFINE T == Drop(S, n)
<1>0. Len(S) \in Nat
  BY SeqFacts
<1>n. n \in 0..Len(S)
  BY <1>0
<1>1. /\ Len(S) \in Nat /\ T \in Seq(BYTE) /\ Len(T) = Len(S) - n
      /\ \A i \in 1..(Len(S) - n) : T[i] = S[i + n]
  BY <1>0, <1>n, DropFacts
<1> HIDE DEF T
<1>2. TextsWhole(T, e - n)
  <2> SUFFICES ASSUME NEW k \in (e - n + 1)..Len(T), T[k].of = 0
               PROVE  \E text \in Unsolicited : \E s \in (e - n + 1)..k :
                        Sits(T, s, text) /\ k <= s + Len(text) - 1
    BY DEF TextsWhole
  <2>1. k + n \in (e + 1)..Len(S) /\ T[k] = S[k + n]
    BY <1>1
  <2>2. PICK text \in Unsolicited, s \in (e + 1)..(k + n) :
          Sits(S, s, text) /\ k + n <= s + Len(text) - 1
    BY <2>1 DEF Whole, TextsWhole
  <2>3. Len(text) \in Nat
    BY TextType
  <2>4. s - n \in (e - n + 1)..k /\ k <= (s - n) + Len(text) - 1
    BY <2>1, <2>2, <2>3
  <2>5. Sits(T, s - n, text)
    <3>1. (s - n) + Len(text) - 1 <= Len(T)
      BY <1>1, <2>2, <2>3 DEF Sits
    <3>2. ASSUME NEW i \in 1..Len(text)
          PROVE  T[(s - n) + i - 1] = [c |-> text[i], of |-> 0, rest |-> Len(text) - i]
      <4>1. (s - n) + i - 1 \in 1..(Len(S) - n)
        BY <1>1, <2>3, <2>4, <3>1
      <4>2. ((s - n) + i - 1) + n = s + i - 1
        BY <2>3
      <4>3. T[(s - n) + i - 1] = S[s + i - 1]
        BY <1>1, <4>1, <4>2
      <4> QED BY <2>2, <4>3 DEF Sits
    <3> QED BY <3>1, <3>2 DEF Sits
  <2> QED BY <2>4, <2>5
<1>3. AnswersWhole(T, e - n)
  <2> SUFFICES ASSUME NEW k \in (e - n + 1)..Len(T), T[k].of # 0
               PROVE  /\ AnswerByte(T[k])
                      /\ T[k].rest > 0 => k < Len(T) /\ Continues(T[k], T[k + 1])
                      /\ k > e - n + 1 /\ T[k].c \notin First_c =>
                           Continues(T[k - 1], T[k])
    BY DEF AnswersWhole
  <2>1. k + n \in (e + 1)..Len(S) /\ T[k] = S[k + n]
    BY <1>1, SMTT(30)
  <2>2. /\ AnswerByte(S[k + n])
        /\ S[k + n].rest > 0 =>
             k + n < Len(S) /\ Continues(S[k + n], S[k + n + 1])
        /\ k + n > e + 1 /\ S[k + n].c \notin First_c =>
             Continues(S[k + n - 1], S[k + n])
    BY <2>1 DEF Whole, AnswersWhole
  <2>3. ASSUME k + n < Len(S) PROVE k < Len(T) /\ T[k + 1] = S[k + n + 1]
    <3> DEFINE l == Len(S)
    <3>0. l \in Nat /\ n \in Nat /\ k \in Int /\ k >= 1 /\ k + n < l
      BY <1>1, <2>3
    <3> HIDE DEF l
    <3>1. k + 1 \in 1..(l - n) /\ (k + 1) + n = k + n + 1
      BY <3>0
    <3> USE DEF l
    <3>2. T[k + 1] = S[(k + 1) + n]
      BY <1>1, <3>1
    <3>3. k < Len(T)
      BY <1>1, <2>3
    <3> QED BY <3>1, <3>2, <3>3
  <2>4. k > e - n + 1 => k + n > e + 1 /\ T[k - 1] = S[k + n - 1]
    BY <1>1
  <2> QED BY <2>1, <2>2, <2>3, <2>4
<1> QED BY <1>2, <1>3 DEF Whole, T

(* So is it with the answers it holds. *)
LEMMA AnswersSkip ==
  ASSUME NEW S, NEW e \in Nat, NEW n \in Nat, e <= n, NEW id, NEW exp, NEW may,
         Len(S) \in Nat, Answers(S, e, id, exp, may)
  PROVE  Answers(S, n, id, exp, may)
<1>1. \A k \in (n + 1)..Len(S) : k \in (e + 1)..Len(S)
  OBVIOUS
<1> QED BY <1>1 DEF Answers

(* What is expected of the rest does not depend on how many bytes are taken. *)
LEMMA AnswersShift ==
  ASSUME NEW S \in Seq(BYTE), NEW e \in 0..Len(S), NEW n \in 0..e,
         NEW id, NEW exp, NEW may, Answers(S, e, id, exp, may)
  PROVE  Answers(Drop(S, n), e - n, id, exp, may)
<1> DEFINE T == Drop(S, n)
<1>0. Len(S) \in Nat
  BY SeqFacts
<1>n. n \in 0..Len(S)
  BY <1>0
<1>1. /\ Len(S) \in Nat /\ T \in Seq(BYTE) /\ Len(T) = Len(S) - n
      /\ \A i \in 1..(Len(S) - n) : T[i] = S[i + n]
  BY <1>0, <1>n, DropFacts
<1> HIDE DEF T
<1>2. ASSUME NEW k \in (e - n + 1)..Len(T), T[k].of # 0
      PROVE  /\ T[k].c \in exp
             /\ T[k].of = id
             /\ \A m \in (k + 1)..Len(T) :
                  T[m].of # 0 /\ T[k].c \in {"K", "R", ">", "SP"} =>
                    <<T[k].c, T[m].c>> \in may
  <2>1. k + n \in (e + 1)..Len(S) /\ T[k] = S[k + n]
    BY <1>1
  <2>2. \A m \in (k + 1)..Len(T) : m + n \in (k + n + 1)..Len(S) /\ T[m] = S[m + n]
    BY <1>1
  <2> QED BY <1>2, <2>1, <2>2 DEF Answers
<1> QED BY <1>2 DEF Answers, T

(* There are no answers behind the first e bytes. *)
NoAnswers(S, e) == \A k \in (e + 1)..Len(S) : S[k].of = 0

(* Then they are as they should be, whatever that is. *)
LEMMA NoAnswersAny ==
  ASSUME NEW S, NEW e, NoAnswers(S, e), NEW id, NEW exp, NEW may
  PROVE  Answers(S, e, id, exp, may)
  BY DEF NoAnswers, Answers

(* None are there when no byte is expected. *)
LEMMA NoneExpected ==
  ASSUME NEW S, NEW e, NEW id, NEW may, Answers(S, e, id, {}, may)
  PROVE  NoAnswers(S, e)
  BY DEF NoAnswers, Answers

(* More bytes, and more orders, may be expected. *)
LEMMA AnswersMore ==
  ASSUME NEW S, NEW e, NEW id, NEW exp, NEW may, NEW exp2, NEW may2,
         Answers(S, e, id, exp, may), exp \subseteq exp2, may \subseteq may2
  PROVE  Answers(S, e, id, exp2, may2)
  BY DEF Answers

(* A message is as long as its text. *)
LEMMA MessageFacts ==
  ASSUME NEW str \in Seq(Chars), NEW of \in Nat
  PROVE  /\ Message(str, of) \in Seq(BYTE)
         /\ Len(Message(str, of)) = Len(str)
         /\ \A i \in 1..Len(str) :
              Message(str, of)[i] = [c |-> str[i], of |-> of, rest |-> Len(str) - i]
<1>1. Len(str) \in Nat /\ DOMAIN str = 1..Len(str) /\ \A i \in 1..Len(str) : str[i] \in Chars
  OBVIOUS
<1>2. \A i \in 1..Len(str) : [c |-> str[i], of |-> of, rest |-> Len(str) - i] \in BYTE
  BY <1>1 DEF BYTE
<1>3. Message(str, of) = [i \in 1..Len(str) |-> [c |-> str[i], of |-> of, rest |-> Len(str) - i]]
  BY <1>1 DEF Message
<1> HIDE DEF Message
<1> QED BY <1>1, <1>2, <1>3

(* A text that stands in S stands there when more has come behind it. *)
LEMMA SitsCat ==
  ASSUME NEW S \in Seq(BYTE), NEW T \in Seq(BYTE), NEW s \in Nat \ {0},
         NEW text \in Seq(Chars), Sits(S, s, text)
  PROVE  Sits(S \o T, s, text)
<1>1. /\ Len(S) \in Nat /\ Len(T) \in Nat /\ Len(text) \in Nat
      /\ Len(S \o T) = Len(S) + Len(T)
      /\ \A i \in 1..Len(S) : (S \o T)[i] = S[i]
  BY SeqFacts, CatFacts
<1>2. \A i \in 1..Len(text) : s + i - 1 \in 1..Len(S)
  BY <1>1 DEF Sits
<1> QED BY <1>1, <1>2 DEF Sits

(* The modem sends a text: the stream stays whole. *)
LEMMA WholeCatText ==
  ASSUME NEW S \in Seq(BYTE), NEW e \in 0..Len(S), Whole(S, e),
         NEW text \in Unsolicited
  PROVE  Whole(S \o Message(text, 0), e)
<1> DEFINE M == Message(text, 0)
           T == S \o M
<1>0. text \in Seq(Chars) /\ Len(text) \in Nat
  BY TextType
<1>1. /\ M \in Seq(BYTE) /\ Len(M) = Len(text)
      /\ \A i \in 1..Len(text) : M[i] = [c |-> text[i], of |-> 0, rest |-> Len(text) - i]
  BY <1>0, MessageFacts
<1> HIDE DEF M
<1>2. /\ Len(S) \in Nat /\ T \in Seq(BYTE) /\ Len(T) = Len(S) + Len(text)
      /\ \A i \in 1..Len(S) : T[i] = S[i]
      /\ \A i \in (Len(S) + 1)..(Len(S) + Len(text)) : T[i] = M[i - Len(S)]
  <2>1. /\ Len(S) \in Nat /\ T \in Seq(BYTE) /\ Len(T) = Len(S) + Len(M)
        /\ \A i \in 1..Len(S) : T[i] = S[i]
        /\ \A i \in (Len(S) + 1)..(Len(S) + Len(M)) : T[i] = M[i - Len(S)]
    BY <1>1, CatBytes
  <2> HIDE DEF T
  <2> QED BY <1>1, <2>1
<1>3. \A s \in Nat \ {0}, t \in Seq(Chars) : Sits(S, s, t) => Sits(T, s, t)
  BY <1>1, SitsCat
<1> HIDE DEF T
<1>4. TextsWhole(T, e)
  <2> SUFFICES ASSUME NEW k \in (e + 1)..Len(T), T[k].of = 0
               PROVE  \E t \in Unsolicited : \E s \in (e + 1)..k :
                        Sits(T, s, t) /\ k <= s + Len(t) - 1
    BY DEF TextsWhole
  <2>1. CASE k <= Len(S)
    <3>1. k \in (e + 1)..Len(S) /\ S[k].of = 0
      BY <1>2, <2>1
    <3>2. PICK t \in Unsolicited, s \in (e + 1)..k : Sits(S, s, t) /\ k <= s + Len(t) - 1
      BY <3>1 DEF Whole, TextsWhole
    <3>3. t \in Seq(Chars) /\ s \in Nat \ {0}
      BY TextType
    <3> QED BY <1>3, <3>2, <3>3
  <2>2. CASE ~(k <= Len(S))
    <3>1. Len(S) + 1 \in (e + 1)..k /\ k <= (Len(S) + 1) + Len(text) - 1
      BY <1>0, <1>2, <2>2
    <3>2. ASSUME NEW i \in 1..Len(text)
          PROVE  T[(Len(S) + 1) + i - 1] = [c |-> text[i], of |-> 0, rest |-> Len(text) - i]
      <4>0. Len(S) \in Nat /\ Len(text) \in Nat
        BY <1>0, <1>2
      <4>1. (Len(S) + 1) + i - 1 \in (Len(S) + 1)..(Len(S) + Len(text))
            /\ (Len(S) + 1) + i - 1 - Len(S) = i
        BY <4>0
      <4>2. T[(Len(S) + 1) + i - 1] = M[(Len(S) + 1) + i - 1 - Len(S)]
        BY <1>2, <4>1
      <4> QED BY <1>1, <4>1, <4>2
    <3>3. Sits(T, Len(S) + 1, text)
      BY <1>0, <1>2, <3>2 DEF Sits
    <3> QED BY <3>1, <3>3
  <2> QED BY <2>1, <2>2
<1>5. AnswersWhole(T, e)
  <2> SUFFICES ASSUME NEW k \in (e + 1)..Len(T), T[k].of # 0
               PROVE  /\ AnswerByte(T[k])
                      /\ T[k].rest > 0 => k < Len(T) /\ Continues(T[k], T[k + 1])
                      /\ k > e + 1 /\ T[k].c \notin First_c => Continues(T[k - 1], T[k])
    BY DEF AnswersWhole
  <2>1. k <= Len(S)
    <3> SUFFICES ASSUME ~(k <= Len(S)) PROVE FALSE
      OBVIOUS
    <3>1. k \in (Len(S) + 1)..(Len(S) + Len(text)) /\ k - Len(S) \in 1..Len(text)
      BY <1>0, <1>2
    <3>2. T[k] = M[k - Len(S)]
      BY <1>2, <3>1
    <3> DEFINE i == k - Len(S)
    <3>3. M[i] = [c |-> text[i], of |-> 0, rest |-> Len(text) - i]
      BY <1>1, <3>1
    <3> HIDE DEF i
    <3>4. M[i].of = 0
      BY <3>3
    <3> USE DEF i
    <3> QED BY <3>2, <3>4
  <2>2. k \in (e + 1)..Len(S) /\ T[k] = S[k]
    BY <1>2, <2>1
  <2>3. k < Len(S) => k < Len(T) /\ T[k + 1] = S[k + 1]
    BY <1>0, <1>2, SMTT(30)
  <2>4. k > e + 1 => T[k - 1] = S[k - 1]
    BY <1>2, <2>1
  <2> QED BY <2>2, <2>3, <2>4 DEF Whole, AnswersWhole
<1> QED BY <1>4, <1>5 DEF Whole, T, M

(* An answer, sent whole: all of its bytes, and the first at its start. *)
IsAnswer(ans, id) ==
  /\ ans \in Seq(BYTE) /\ AnswersWhole(ans, 0)
  /\ \A i \in 1..Len(ans) : ans[i].of = id
  /\ ans # <<>> => ans[1].c \in First_c

(* The modem answers: the stream stays whole. *)
LEMMA WholeCatAnswer ==
  ASSUME NEW S \in Seq(BYTE), NEW e \in 0..Len(S), Whole(S, e),
         NEW id \in Nat \ {0}, NEW ans, IsAnswer(ans, id)
  PROVE  Whole(S \o ans, e)
<1> DEFINE T == S \o ans
<1>1. ans \in Seq(BYTE) /\ Len(ans) \in Nat
  BY SeqFacts DEF IsAnswer
<1>2. /\ Len(S) \in Nat /\ T \in Seq(BYTE) /\ Len(T) = Len(S) + Len(ans)
      /\ \A i \in 1..Len(S) : T[i] = S[i]
      /\ \A i \in (Len(S) + 1)..(Len(S) + Len(ans)) : T[i] = ans[i - Len(S)]
  BY <1>1, SeqFacts, CatFacts
<1>3. \A s \in Nat \ {0}, t \in Seq(Chars) : Sits(S, s, t) => Sits(T, s, t)
  BY <1>1, SitsCat
<1> HIDE DEF T
<1>4. TextsWhole(T, e)
  <2> SUFFICES ASSUME NEW k \in (e + 1)..Len(T), T[k].of = 0
               PROVE  \E t \in Unsolicited : \E s \in (e + 1)..k :
                        Sits(T, s, t) /\ k <= s + Len(t) - 1
    BY DEF TextsWhole
  <2>1. k <= Len(S)
    <3> SUFFICES ASSUME ~(k <= Len(S)) PROVE FALSE
      OBVIOUS
    <3>1. k \in (Len(S) + 1)..(Len(S) + Len(ans)) /\ k - Len(S) \in 1..Len(ans)
      BY <1>1, <1>2
    <3>2. T[k].of = id
      BY <1>2, <3>1 DEF IsAnswer
    <3> QED BY <3>2
  <2>2. k \in (e + 1)..Len(S) /\ S[k].of = 0
    BY <1>2, <2>1
  <2>3. PICK t \in Unsolicited, s \in (e + 1)..k : Sits(S, s, t) /\ k <= s + Len(t) - 1
    BY <2>2 DEF Whole, TextsWhole
  <2>4. t \in Seq(Chars) /\ s \in Nat \ {0}
    BY TextType
  <2> QED BY <1>3, <2>3, <2>4
<1>5. AnswersWhole(T, e)
  <2> SUFFICES ASSUME NEW k \in (e + 1)..Len(T), T[k].of # 0
               PROVE  /\ AnswerByte(T[k])
                      /\ T[k].rest > 0 => k < Len(T) /\ Continues(T[k], T[k + 1])
                      /\ k > e + 1 /\ T[k].c \notin First_c => Continues(T[k - 1], T[k])
    BY DEF AnswersWhole
  <2>1. CASE k <= Len(S)
    <3>2. k \in (e + 1)..Len(S) /\ T[k] = S[k]
      BY <1>2, <2>1
    <3>3. k < Len(S) => k < Len(T) /\ T[k + 1] = S[k + 1]
      <4>1. k < Len(S) => k < Len(T) /\ k + 1 \in 1..Len(S)
        BY <1>1, <1>2
      <4> QED BY <1>2, <4>1
    <3>4. k > e + 1 => T[k - 1] = S[k - 1]
      BY <1>2, <2>1
    <3> QED BY <3>2, <3>3, <3>4 DEF Whole, AnswersWhole
  <2>2. CASE ~(k <= Len(S))
    <3> DEFINE j == k - Len(S)
    <3>1. j \in 1..Len(ans) /\ j \in Int /\ T[k] = ans[j]
      BY <1>1, <1>2, <2>2
    <3>2. j < Len(ans) => k < Len(T) /\ T[k + 1] = ans[j + 1]
      <4> SUFFICES ASSUME j < Len(ans) PROVE k < Len(T) /\ T[k + 1] = ans[j + 1]
        OBVIOUS
      <4>1. k + 1 \in (Len(S) + 1)..(Len(S) + Len(ans)) /\ k + 1 - Len(S) = j + 1
        BY <1>1, <1>2, <2>2
      <4> QED BY <1>2, <4>1
    <3>3. j > 1 => T[k - 1] = ans[j - 1]
      <4> SUFFICES ASSUME j > 1 PROVE T[k - 1] = ans[j - 1]
        OBVIOUS
      <4>1. k - 1 \in (Len(S) + 1)..(Len(S) + Len(ans)) /\ k - 1 - Len(S) = j - 1
        BY <1>1, <1>2, <2>2
      <4> QED BY <1>2, <4>1
    <3>4. j = 1 => T[k].c \in First_c
      <4>1. ans # <<>>
        BY <3>1
      <4> QED BY <3>1, <4>1 DEF IsAnswer
    <3> HIDE DEF j
    <3>5. /\ AnswerByte(ans[j])
          /\ ans[j].rest > 0 => j < Len(ans) /\ Continues(ans[j], ans[j + 1])
          /\ j > 1 /\ ans[j].c \notin First_c => Continues(ans[j - 1], ans[j])
      BY <3>1 DEF IsAnswer, AnswersWhole
    <3> QED BY <3>1, <3>2, <3>3, <3>4, <3>5
  <2> QED BY <2>1, <2>2
<1> QED BY <1>4, <1>5 DEF Whole, T

(* More of the modem's own texts. *)
LEMMA AnswersCatText ==
  ASSUME NEW S \in Seq(BYTE), NEW e \in 0..Len(S), NEW id, NEW exp, NEW may,
         Answers(S, e, id, exp, may), NEW T \in Seq(BYTE),
         \A i \in 1..Len(T) : T[i].of = 0
  PROVE  Answers(S \o T, e, id, exp, may)
<1>1. /\ Len(S) \in Nat /\ Len(T) \in Nat /\ Len(S \o T) = Len(S) + Len(T)
      /\ \A i \in 1..Len(S) : (S \o T)[i] = S[i]
      /\ \A i \in (Len(S) + 1)..(Len(S) + Len(T)) : (S \o T)[i] = T[i - Len(S)]
  BY SeqFacts, CatFacts
<1>2. ASSUME NEW k \in (e + 1)..Len(S \o T), (S \o T)[k].of # 0
      PROVE  k \in (e + 1)..Len(S) /\ (S \o T)[k] = S[k]
  <2>1. k <= Len(S)
    <3> SUFFICES ASSUME ~(k <= Len(S)) PROVE FALSE
      OBVIOUS
    <3>1. k \in (Len(S) + 1)..(Len(S) + Len(T)) /\ k - Len(S) \in 1..Len(T)
      BY <1>1
    <3> QED BY <1>1, <1>2, <3>1
  <2> QED BY <1>1, <2>1
<1>3. ASSUME NEW k \in (e + 1)..Len(S \o T), (S \o T)[k].of # 0,
             NEW m \in (k + 1)..Len(S \o T), (S \o T)[m].of # 0
      PROVE  m \in (k + 1)..Len(S) /\ (S \o T)[m] = S[m]
  <2>1. m \in (e + 1)..Len(S \o T)
    BY <1>1
  <2> QED BY <1>2, <1>3, <2>1
<1> HIDE DEF Sits
<1> QED BY <1>2, <1>3 DEF Answers

(* An answer comes behind the bytes exp1, if any, that are still there. *)
LEMMA AnswersCatAnswer ==
  ASSUME NEW S \in Seq(BYTE), NEW e \in 0..Len(S), NEW id, NEW exp, NEW may,
         NEW exp1, Answers(S, e, id, exp1, may),
         NEW T \in Seq(BYTE), NEW exp2, Answers(T, 0, id, exp2, may),
         exp1 \subseteq exp, exp2 \subseteq exp,
         \A a \in exp1, b \in exp2 : a \in {"K", "R", ">", "SP"} => <<a, b>> \in may
  PROVE  Answers(S \o T, e, id, exp, may)
<1> DEFINE U == S \o T
<1>1. /\ Len(S) \in Nat /\ Len(T) \in Nat /\ Len(U) = Len(S) + Len(T)
      /\ \A i \in 1..Len(S) : U[i] = S[i]
      /\ \A i \in (Len(S) + 1)..(Len(S) + Len(T)) : U[i] = T[i - Len(S)]
  BY SeqFacts, CatFacts
<1> HIDE DEF U
<1>2. ASSUME NEW k \in (e + 1)..Len(U), U[k].of # 0, k <= Len(S)
      PROVE  k \in (e + 1)..Len(S) /\ U[k] = S[k] /\ U[k].c \in exp1 /\ U[k].of = id
  BY <1>1, <1>2 DEF Answers
<1>3. ASSUME NEW k \in (e + 1)..Len(U), U[k].of # 0, ~(k <= Len(S))
      PROVE  /\ k - Len(S) \in 1..Len(T) /\ U[k] = T[k - Len(S)]
             /\ U[k].c \in exp2 /\ U[k].of = id
  <2>1. k \in (Len(S) + 1)..(Len(S) + Len(T)) /\ k - Len(S) \in 1..Len(T)
    BY <1>1, <1>3
  <2> QED BY <1>1, <1>3, <2>1 DEF Answers
<1>4. ASSUME NEW k \in (e + 1)..Len(U), U[k].of # 0,
             NEW m \in (k + 1)..Len(U), U[m].of # 0, U[k].c \in {"K", "R", ">", "SP"}
      PROVE  <<U[k].c, U[m].c>> \in may
  <2>0. m \in (e + 1)..Len(U)
    BY <1>1
  <2>1. CASE m <= Len(S)
    <3>1. k <= Len(S) /\ m \in (k + 1)..Len(S)
      BY <1>1, <2>1
    <3>2. k \in (e + 1)..Len(S) /\ U[k] = S[k]
      BY <1>2, <1>4, <3>1
    <3>3. U[m] = S[m]
      BY <1>2, <1>4, <2>0, <2>1
    <3> QED BY <1>4, <3>1, <3>2, <3>3 DEF Answers
  <2>2. CASE k <= Len(S) /\ ~(m <= Len(S))
    BY <1>2, <1>3, <1>4, <2>0, <2>2
  <2>3. CASE ~(k <= Len(S))
    <3> DEFINE i == k - Len(S)
               j == m - Len(S)
    <3>1. ~(m <= Len(S)) /\ j \in (i + 1)..Len(T)
      BY <1>1, <2>3
    <3>2. i \in 1..Len(T) /\ U[k] = T[i]
      BY <1>3, <1>4, <2>3
    <3>3. U[m] = T[j]
      BY <1>3, <1>4, <2>0, <3>1
    <3> HIDE DEF i, j
    <3>4. i \in (0 + 1)..Len(T)
      BY <3>2
    <3>5. T[i].of # 0 /\ T[j].of # 0 /\ T[i].c \in {"K", "R", ">", "SP"}
      BY <1>4, <3>2, <3>3
    <3>6. <<T[i].c, T[j].c>> \in may
      BY <3>1, <3>4, <3>5 DEF Answers
    <3> QED BY <3>2, <3>3, <3>6
  <2> QED BY <2>1, <2>2, <2>3
<1>5. ASSUME NEW k \in (e + 1)..Len(U), U[k].of # 0
      PROVE  U[k].c \in exp /\ U[k].of = id
  BY <1>2, <1>3, <1>5
<1> QED BY <1>4, <1>5 DEF Answers, U
-----------------------------------------------------------------------------
(* The texts to be caught. *)

(* The order on the naturals. *)
Below == OpToRel(<, Nat)

(* As a relation, for the library's theorems on well-founded orders. *)
LEMMA BelowIs == \A x, y \in Nat : <<x, y>> \in Below <=> x < y
  BY DEF Below, OpToRel

(* A nonempty set of naturals has a least member. *)
LEMMA Least ==
  ASSUME NEW S \in SUBSET Nat, NEW n \in S
  PROVE  \E m \in S : \A k \in S : m <= k
<1>1. IsWellFoundedOn(Below, Nat)
  BY NatLessThanWellFounded, Zenon DEF Below
<1>2. S # {} /\ S \subseteq Nat
  OBVIOUS
<1>3. PICK m \in S : \A k \in S : ~ (<<k, m>> \in Below)
  BY <1>1, <1>2, WFMin, Zenon
<1>4. \A k \in S : ~ (k < m)
  BY <1>2, <1>3, BelowIs, Zenon
<1> QED BY <1>2, <1>4

(* Min picks it. *)
LEMMA MinFacts ==
  ASSUME NEW S \in SUBSET Nat, S # {}
  PROVE  Min(S) \in S /\ \A k \in S : Min(S) <= k
<1>1. PICK n \in S : TRUE
  OBVIOUS
<1>2. \E m \in S : \A k \in S : m <= k
  BY Least
<1> QED BY <1>2, Zenon DEF Min

(* c begins a text to be caught. *)
Begins(c) == \E i \in DOMAIN CatchStr : c = Catch(i)[1]

(* The first such byte. *)
LEMMA FirstCharFacts ==
  ASSUME NEW buf \in Seq(BYTE)
  PROVE  /\ FirstChar(buf) \in 0..Len(buf)
         /\ FirstChar(buf) = 0 => \A i \in 1..Len(buf) : ~Begins(buf[i].c)
         /\ FirstChar(buf) # 0 => \A i \in 1..(FirstChar(buf) - 1) : ~Begins(buf[i].c)
<1> DEFINE I == {i \in 1..Len(buf) : Begins(buf[i].c)}
<1>1. FirstChar(buf) = IF I # {} THEN Min(I) ELSE 0
  BY DEF FirstChar, SelectInSeq, Begins
<1>2. I \in SUBSET Nat /\ Len(buf) \in Nat
  OBVIOUS
<1>3. ASSUME I # {} PROVE Min(I) \in I /\ \A k \in I : Min(I) <= k
  BY <1>2, <1>3, MinFacts
<1>4. CASE I = {}
  BY <1>1, <1>2, <1>4
<1>5. CASE I # {}
  <2> DEFINE m == FirstChar(buf)
  <2>1. m = Min(I)
    BY <1>1, <1>5
  <2>2. m \in I /\ \A k \in I : m <= k
    BY <1>3, <1>5, <2>1
  <2> HIDE DEF m
  <2>3. m \in 1..Len(buf)
    BY <2>2
  <2>4. \A i \in 1..(m - 1) : i \notin I /\ i \in 1..Len(buf)
    BY <1>2, <2>2, <2>3
  <2> QED BY <2>3, <2>4 DEF m
<1> QED BY <1>4, <1>5

(* The catch string e is caught when buf is what arrived. *)
Catches(e, buf) == IsPartial(e.str, buf) \/ IsPrefix(e.str, Text(buf))

(* The first text that is caught. *)
LEMMA CaughtFacts ==
  ASSUME NEW buf \in Seq(BYTE)
  PROVE  /\ Caught(buf) \in 0..Len(CatchStr)
         /\ Caught(buf) = 0 => \A i \in 1..Len(CatchStr) : ~Catches(CatchStr[i], buf)
         /\ Caught(buf) # 0 => Catches(CatchStr[Caught(buf)], buf)
<1> DEFINE I == {i \in 1..Len(CatchStr) : Catches(CatchStr[i], buf)}
<1>1. Caught(buf) = IF I # {} THEN Min(I) ELSE 0
  BY DEF Caught, SelectInSeq, Catches
<1>2. I \in SUBSET Nat /\ Len(CatchStr) \in Nat
  BY TextsAssumption
<1>3. ASSUME I # {} PROVE Min(I) \in I
  BY <1>2, <1>3, MinFacts
<1>4. CASE I = {}
  BY <1>1, <1>2, <1>4
<1>5. CASE I # {}
  <2>1. Caught(buf) \in I
    BY <1>1, <1>3, <1>5
  <2> QED BY <2>1
<1> QED BY <1>4, <1>5

(* The characters of what arrived. *)
LEMMA TextFacts ==
  ASSUME NEW buf \in Seq(BYTE)
  PROVE  /\ Text(buf) \in Seq(Chars) /\ Len(Text(buf)) = Len(buf)
         /\ \A i \in 1..Len(buf) : Text(buf)[i] = buf[i].c
<1>0. \A b \in BYTE : b.c \in Chars
  BY DEF BYTE
<1>1. Len(buf) \in Nat /\ DOMAIN buf = 1..Len(buf) /\ \A i \in 1..Len(buf) : buf[i].c \in Chars
  BY <1>0
<1>2. Text(buf) = [i \in 1..Len(buf) |-> buf[i].c]
  BY <1>1 DEF Text
<1> HIDE DEF Text
<1> QED BY <1>1, <1>2

(* What being caught says of the first two characters. *)
LEMMA CatchesFacts ==
  ASSUME NEW buf \in Seq(BYTE), NEW str \in Seq(Chars), Len(str) >= 2
  PROVE  /\ IsPartial(str, buf) =>
              Len(buf) >= 2 /\ Len(buf) < Len(str) /\ buf[1].c = str[1] /\ buf[2].c = str[2]
         /\ Len(buf) >= 2 /\ Len(buf) < Len(str) /\ buf[1].c = str[1] /\ buf[2].c = str[2]
              => IsPartial(str, buf)
         /\ IsPrefix(str, Text(buf)) =>
              Len(buf) >= Len(str) /\ \A i \in 1..Len(str) : buf[i].c = str[i]
         /\ Len(buf) >= Len(str) /\ (\A i \in 1..Len(str) : buf[i].c = str[i])
              => IsPrefix(str, Text(buf))
<1>1. /\ Text(buf) \in Seq(Chars) /\ Len(Text(buf)) = Len(buf)
      /\ \A i \in 1..Len(buf) : Text(buf)[i] = buf[i].c
  BY TextFacts
<1> DEFINE txt == Text(buf)
<1>2. txt \in Seq(Chars) /\ Len(txt) = Len(buf) /\ \A i \in 1..Len(buf) : txt[i] = buf[i].c
  BY <1>1
<1>3. Len(buf) \in Nat /\ Len(str) \in Nat
  OBVIOUS
<1> HIDE DEF txt
<1>4. ASSUME Len(buf) >= 2
      PROVE  SubSeq(str, 1, 2) = SubSeq(txt, 1, 2) <=> buf[1].c = str[1] /\ buf[2].c = str[2]
  <2>1. txt[1] = buf[1].c /\ txt[2] = buf[2].c /\ Len(txt) >= 2
    BY <1>2, <1>3, <1>4
  <2>2. /\ Len(SubSeq(str, 1, 2)) = 2 /\ SubSeq(str, 1, 2) \in Seq(Chars)
        /\ SubSeq(str, 1, 2)[1] = str[1] /\ SubSeq(str, 1, 2)[2] = str[2]
    BY <1>3
  <2>3. /\ Len(SubSeq(txt, 1, 2)) = 2 /\ SubSeq(txt, 1, 2) \in Seq(Chars)
        /\ SubSeq(txt, 1, 2)[1] = txt[1] /\ SubSeq(txt, 1, 2)[2] = txt[2]
    BY <1>2, <1>3, <2>1
  <2> QED BY <2>1, <2>2, <2>3
<1>5. ASSUME Len(buf) >= Len(str)
      PROVE  SubSeq(str, 1, Len(str)) = SubSeq(txt, 1, Len(str)) <=> \A i \in 1..Len(str) : buf[i].c = str[i]
  <2>1. Len(txt) >= Len(str) /\ \A i \in 1..Len(str) : txt[i] = buf[i].c
    BY <1>2, <1>3, <1>5
  <2>2. SubSeq(str, 1, Len(str)) = str
    BY <1>3
  <2>3. /\ SubSeq(txt, 1, Len(str)) \in Seq(Chars) /\ Len(SubSeq(txt, 1, Len(str))) = Len(str)
        /\ \A i \in 1..Len(str) : SubSeq(txt, 1, Len(str))[i] = txt[i]
    BY <1>2, <1>3, <2>1
  <2> HIDE DEF txt
  <2>4. (\A i \in 1..Len(str) : txt[i] = str[i]) => SubSeq(txt, 1, Len(str)) = str
    BY <1>3, <2>3
  <2> QED BY <2>1, <2>2, <2>3, <2>4
<1>6. IsPartial(str, buf) <=> Len(buf) \in 2..(Len(str) - 1) /\ SubSeq(str, 1, 2) = SubSeq(txt, 1, 2)
  BY DEF IsPartial, txt
<1>7. IsPrefix(str, Text(buf)) <=> Len(str) <= Len(txt) /\ SubSeq(str, 1, Len(str)) = SubSeq(txt, 1, Len(str))
  BY DEF IsPrefix, txt
<1>8. IsPartial(str, buf) <=> Len(buf) >= 2 /\ Len(buf) < Len(str) /\ buf[1].c = str[1] /\ buf[2].c = str[2]
  BY <1>3, <1>4, <1>6
<1>9. IsPrefix(str, Text(buf)) <=> Len(buf) >= Len(str) /\ \A i \in 1..Len(str) : buf[i].c = str[i]
  BY <1>2, <1>3, <1>5, <1>7
<1> QED BY <1>8, <1>9

(* The texts to be caught, as a sequence. *)
LEMMA CatchTypes ==
  /\ Len(CatchStr) \in Nat /\ DOMAIN CatchStr = 1..Len(CatchStr)
  /\ \A i \in 1..Len(CatchStr) :
       CatchStr[i] \in [state : ReadStates, str : Seq(Chars)] /\ Catch(i) \in Seq(Chars)
<1> DEFINE E == [state : ReadStates, str : Seq(STRING)]
<1>1. CatchStr \in Seq(E)
  BY TextsAssumption
<1>2. \A e \in E : e.str \in Seq(Chars) /\ e \in [state : ReadStates, str : Seq(Chars)]
  BY CharSeq
<1> HIDE DEF E
<1>3. /\ Len(CatchStr) \in Nat /\ DOMAIN CatchStr = 1..Len(CatchStr)
      /\ \A i \in 1..Len(CatchStr) : CatchStr[i] \in E
  BY <1>1
<1> QED BY <1>2, <1>3 DEF Catch, E

(* A text the modem sends on its own, and the string that catches it. *)
LEMMA UnsolicitedFacts ==
  ASSUME NEW text \in Unsolicited
  PROVE  /\ text \in Seq(Chars)
         /\ \E i \in 1..Len(CatchStr) :
              /\ Len(Catch(i)) >= 2 /\ Len(text) >= Len(Catch(i))
              /\ \A j \in 1..Len(Catch(i)) : text[j] = Catch(i)[j]
              /\ \/ CatchStr[i].state \in NoticeStates /\ text = Catch(i)
                 \/ CatchStr[i].state = "READ_IPD_DATA" /\ Len(Catch(i)) = 2 /\ IsFrame(text)
<1>1. text \in Seq(Chars)
  BY TextType
<1>2. PICK i \in DOMAIN CatchStr :
        \/ CatchStr[i].state \in NoticeStates /\ text = Catch(i)
        \/ /\ CatchStr[i].state = "READ_IPD_DATA"
           /\ IsPrefix(Catch(i), text) /\ IsFrame(text)
  BY TextsAssumption
<1>3. i \in 1..Len(CatchStr)
  BY CatchTypes
<1>4. Catch(i) \in Seq(Chars)
  BY <1>3, CatchTypes
<1>5. /\ Len(Catch(i)) >= 2
      /\ CatchStr[i] \in AnswerCatches \/ CatchStr[i].state \in NoticeStates
           \/ (CatchStr[i].state = "READ_IPD_DATA" /\ Len(Catch(i)) = TagLen)
  BY TextsAssumption
<1>6. CASE CatchStr[i].state \in NoticeStates /\ text = Catch(i)
  BY <1>1, <1>3, <1>5, <1>6
<1>7. CASE CatchStr[i].state = "READ_IPD_DATA" /\ IsPrefix(Catch(i), text) /\ IsFrame(text)
  <2>1. CatchStr[i] \notin AnswerCatches /\ CatchStr[i].state \notin NoticeStates
    BY <1>7 DEF AnswerCatches, NoticeStates
  <2>2. Len(Catch(i)) = 2
    BY <1>5, <2>1 DEF TagLen
  <2> DEFINE str == Catch(i)
  <2>3. str \in Seq(Chars) /\ Len(str) = 2 /\ IsPrefix(str, text)
    BY <1>4, <1>7, <2>2
  <2> HIDE DEF str
  <2>4. Len(text) >= 2 /\ \A j \in 1..2 : text[j] = str[j]
    <3>1. Len(text) >= 2 /\ SubSeq(str, 1, 2) = SubSeq(text, 1, 2)
      BY <2>3 DEF IsPrefix
    <3>2. \A j \in 1..2 : SubSeq(str, 1, 2)[j] = str[j]
      BY <2>3
    <3>3. \A j \in 1..2 : SubSeq(text, 1, 2)[j] = text[j]
      <4>1. 2 \in 0..Len(text)
        BY <1>1, <3>1
      <4> QED BY <1>1, <4>1, FrontFacts
    <3> QED BY <3>1, <3>2, <3>3
  <2> QED BY <1>1, <1>3, <1>5, <1>7, <2>2, <2>4 DEF str
<1> QED BY <1>2, <1>6, <1>7

(* A byte of the modem's own in front is the first of a text. *)
LEMMA TextInFront ==
  ASSUME NEW S \in Seq(BYTE), Whole(S, 0), Len(S) >= 1, S[1].of = 0
  PROVE  \E text \in Unsolicited : Sits(S, 1, text) /\ Len(text) >= 1
<1>1. 1 \in (0 + 1)..Len(S)
  BY SeqFacts
<1>2. PICK text \in Unsolicited, s \in (0 + 1)..1 :
        Sits(S, s, text) /\ 1 <= s + Len(text) - 1
  BY <1>1 DEF Whole, TextsWhole
<1>3. s = 1 /\ Len(text) \in Nat
  BY UnsolicitedFacts
<1> QED BY <1>2, <1>3

(* A text begins with a byte that is looked for. *)
LEMMA TextBegins ==
  ASSUME NEW text \in Unsolicited
  PROVE  Len(text) >= 2 /\ Begins(text[1])
<1>1. PICK i \in 1..Len(CatchStr) :
              /\ Len(Catch(i)) >= 2 /\ Len(text) >= Len(Catch(i))
              /\ \A j \in 1..Len(Catch(i)) : text[j] = Catch(i)[j]
  BY UnsolicitedFacts
<1>2. i \in DOMAIN CatchStr /\ Len(Catch(i)) \in Nat
  BY CatchTypes
<1>3. Len(text) \in Nat
  BY UnsolicitedFacts
<1> QED BY <1>1, <1>2, <1>3 DEF Begins

(* What is passed over in the search for a text is no text. *)
LEMMA PassedOver ==
  ASSUME NEW S \in Seq(BYTE), Whole(S, 0), NEW n \in 0..Len(S),
         \A i \in 1..n : ~Begins(S[i].c)
  PROVE  (\A i \in 1..n : S[i].of # 0) /\ Whole(S, n)
<1>0. Len(S) \in Nat /\ n \in Nat
  BY SeqFacts
<1>1. ASSUME NEW i \in 1..n, S[i].of = 0
      PROVE  FALSE
  <2>1. i \in (0 + 1)..Len(S)
    BY <1>0
  <2>2. PICK text \in Unsolicited, s \in (0 + 1)..i :
          Sits(S, s, text) /\ i <= s + Len(text) - 1
    BY <1>1, <2>1 DEF Whole, TextsWhole
  <2>3. Len(text) \in Nat /\ Len(text) >= 2 /\ Begins(text[1])
    BY UnsolicitedFacts, TextBegins
  <2>4. s \in 1..n /\ s + 1 - 1 = s
    BY <1>0
  <2>5. S[s + 1 - 1] = [c |-> text[1], of |-> 0, rest |-> Len(text) - 1]
    BY <2>2, <2>3 DEF Sits
  <2>6. S[s].c = text[1]
    BY <2>4, <2>5
  <2> QED BY <2>3, <2>4, <2>6
<1>2. CASE n = 0
  BY <1>2, <1>1
<1>3. CASE n # 0
  <2>1. n \in 1..Len(S) /\ n \in 1..n
    BY <1>0, <1>3
  <2> QED BY <1>1, <2>1, WholeSkip
<1> QED BY <1>2, <1>3

(* What the assumption on the texts says of two of them. *)
LEMMA CatchApart ==
  \A i \in 1..Len(CatchStr) :
    /\ Len(Catch(i)) >= 2
    /\ CatchStr[i] \in AnswerCatches \/ CatchStr[i].state \in NoticeStates
         \/ CatchStr[i].state = "READ_IPD_DATA"
    /\ Catch(i)[1] = ">" => Catch(i)[2] = "SP"
    /\ Catch(i)[1] = "C" => Catch(i)[2] # "n"
    /\ Catch(i)[1] = "n" => Catch(i)[2] # "O"
    /\ \A j \in 1..Len(CatchStr) :
         /\ Catch(i)[1] = Catch(j)[1] /\ Catch(i)[2] = Catch(j)[2] => i = j
         /\ Catch(i)[1] \in {"K", "R", "SP"} => Catch(i)[2] # Catch(j)[1]
<1>1. DOMAIN CatchStr = 1..Len(CatchStr)
  BY CatchTypes
<1>2. \A i \in DOMAIN CatchStr :
       /\ Len(Catch(i)) >= 2
       /\ \/ CatchStr[i] \in AnswerCatches
          \/ CatchStr[i].state \in NoticeStates
          \/ CatchStr[i].state = "READ_IPD_DATA" /\ Len(Catch(i)) = TagLen
       /\ Catch(i)[1] = ">" => Catch(i)[2] = "SP"
       /\ Catch(i)[1] = "C" => Catch(i)[2] # "n"
       /\ Catch(i)[1] = "n" => Catch(i)[2] # "O"
       /\ \A j \in DOMAIN CatchStr :
            /\ i # j => Catch(i)[1] # Catch(j)[1] \/ Catch(i)[2] # Catch(j)[2]
            /\ Catch(i)[1] \in {"K", "R", "SP"} => Catch(i)[2] # Catch(j)[1]
  BY TextsAssumption
<1> QED BY <1>1, <1>2

(* The string that catches an answer. *)
LEMMA AnswerCaught ==
  ASSUME NEW state, NEW a, NEW b, [state |-> state, str |-> <<a, b>>] \in AnswerCatches
  PROVE  \E i \in 1..Len(CatchStr) :
           /\ CatchStr[i].state = state /\ Len(Catch(i)) = 2
           /\ Catch(i)[1] = a /\ Catch(i)[2] = b
<1>1. PICK i \in DOMAIN CatchStr : CatchStr[i] = [state |-> state, str |-> <<a, b>>]
  BY TextsAssumption
<1>2. i \in 1..Len(CatchStr)
  BY CatchTypes
<1>3. Catch(i) = <<a, b>>
  BY <1>1 DEF Catch
<1> QED BY <1>1, <1>2, <1>3

(* All answers are caught. *)
LEMMA AnswersCaught ==
  /\ \E i \in 1..Len(CatchStr) : CatchStr[i].state = "READ_OK" /\ Len(Catch(i)) = 2
                                 /\ Catch(i)[1] = "O" /\ Catch(i)[2] = "K"
  /\ \E i \in 1..Len(CatchStr) : CatchStr[i].state = "READ_ERROR" /\ Len(Catch(i)) = 2
                                 /\ Catch(i)[1] = "E" /\ Catch(i)[2] = "R"
  /\ \E i \in 1..Len(CatchStr) : CatchStr[i].state = "READ_SEND" /\ Len(Catch(i)) = 2
                                 /\ Catch(i)[1] = ">" /\ Catch(i)[2] = "SP"
  /\ \E i \in 1..Len(CatchStr) : CatchStr[i].state = "READ_SIGNAL" /\ Len(Catch(i)) = 2
                                 /\ Catch(i)[1] = "+" /\ Catch(i)[2] = "C"
<1>1. /\ [state |-> "READ_OK", str |-> <<"O", "K">>] \in AnswerCatches
      /\ [state |-> "READ_ERROR", str |-> <<"E", "R">>] \in AnswerCatches
      /\ [state |-> "READ_SEND", str |-> <<">", "SP">>] \in AnswerCatches
      /\ [state |-> "READ_SIGNAL", str |-> <<"+", "C">>] \in AnswerCatches
  BY DEF AnswerCatches
<1> QED BY <1>1, AnswerCaught

(* A text in front is caught as soon as two bytes of it are there, and is   *)
(* not taken for a prompt.                                                 *)
LEMMA HeadMissed ==
  ASSUME NEW S \in Seq(BYTE), Whole(S, 0), NEW buf \in Seq(BYTE),
         Len(buf) \in 1..Len(S), \A i \in 1..Len(buf) : buf[i] = S[i],
         Caught(buf) = 0, S[1].of = 0
  PROVE  Len(buf) = 1 /\ S[1].c # ">"
<1>0. Len(S) \in Nat /\ Len(buf) \in Nat /\ Len(S) >= 1 /\ Len(buf) >= 1
  BY SeqFacts
<1>1. PICK text \in Unsolicited : Sits(S, 1, text) /\ Len(text) >= 1
  BY <1>0, TextInFront
<1>2. PICK i \in 1..Len(CatchStr) :
              /\ Len(Catch(i)) >= 2 /\ Len(text) >= Len(Catch(i))
              /\ \A j \in 1..Len(Catch(i)) : text[j] = Catch(i)[j]
              /\ \/ CatchStr[i].state \in NoticeStates
                 \/ CatchStr[i].state = "READ_IPD_DATA"
  BY UnsolicitedFacts
<1> DEFINE str == Catch(i)
<1>3. str \in Seq(Chars) /\ Len(str) \in Nat /\ Len(text) \in Nat
  BY CatchTypes, UnsolicitedFacts
<1>4. ASSUME NEW j \in 1..Len(str)
      PROVE  S[j].c = str[j]
  <2>1. j \in 1..Len(text) /\ 1 + j - 1 = j
    BY <1>2, <1>3
  <2>2. S[1 + j - 1] = [c |-> text[j], of |-> 0, rest |-> Len(text) - j]
    BY <1>1, <2>1 DEF Sits
  <2>3. S[j].c = text[j]
    BY <2>1, <2>2, SMTT(30)
  <2> QED BY <1>2, <2>3
<1>5. Len(str) >= 2 /\ S[1].c = str[1] /\ S[2].c = str[2]
  BY <1>2, <1>3, <1>4
<1>6. Len(buf) = 1
  <2> DEFINE n == Len(buf)
  <2>a. n \in Nat /\ n >= 1
    BY <1>0
  <2> SUFFICES ASSUME ~(Len(buf) = 1) PROVE FALSE
    OBVIOUS
  <2>b. n # 1
    OBVIOUS
  <2> HIDE DEF n
  <2>c. n >= 2
    BY <2>a, <2>b
  <2>0. Len(buf) >= 2
    BY <2>c DEF n
  <2>1. buf[1].c = str[1] /\ buf[2].c = str[2]
    BY <1>0, <1>5, <2>0
  <2>2. ~Catches(CatchStr[i], buf)
    BY CaughtFacts
  <2>3. ~IsPartial(str, buf) /\ ~IsPrefix(str, Text(buf))
    BY <2>2 DEF Catches, Catch
  <2>4. Len(buf) >= Len(str)
    BY <1>0, <1>3, <1>5, <2>0, <2>1, <2>3, CatchesFacts
  <2>5. \A j \in 1..Len(str) : buf[j].c = str[j]
    BY <1>0, <1>3, <1>4, <2>4, SMTT(30)
  <2> HIDE DEF str
  <2> QED BY <1>3, <1>5, <2>3, <2>4, <2>5, CatchesFacts
<1>7. S[1].c # ">"
  <2> SUFFICES ASSUME str[1] = ">" PROVE FALSE
    BY <1>5
  <2>1. str[2] = "SP"
    BY CatchApart
  <2>2. PICK j \in 1..Len(CatchStr) : CatchStr[j].state = "READ_SEND"
                                 /\ Catch(j)[1] = ">" /\ Catch(j)[2] = "SP"
    BY AnswersCaught, SMTT(30)
  <2>3. i = j
    BY <2>1, <2>2, CatchApart
  <2> QED BY <1>2, <2>2, <2>3 DEF NoticeStates
<1> QED BY <1>6, <1>7

(* In the second place, behind the last byte of an answer, stands the first *)
(* byte of a text or of another answer.                                    *)
LEMMA BehindEnd ==
  ASSUME NEW S \in Seq(BYTE), Whole(S, 0), Len(S) >= 2, S[1].of # 0, S[1].rest = 0
  PROVE  \E j \in 1..Len(CatchStr) : S[2].c = Catch(j)[1]
<1>0. /\ Len(S) \in Nat /\ 1 \in (0 + 1)..Len(S) /\ 2 \in (0 + 1)..Len(S) /\ 2 > 0 + 1
      /\ 2 - 1 = 1
  BY SeqFacts
<1>r. S[2].rest \in Nat
  <2>1. \A b \in BYTE : b.rest \in Nat
    BY DEF BYTE
  <2> QED BY <1>0, <2>1
<1>1. CASE S[2].of = 0
  <2>1. PICK text \in Unsolicited, s \in (0 + 1)..2 :
          Sits(S, s, text) /\ 2 <= s + Len(text) - 1
    BY <1>0, <1>1 DEF Whole, TextsWhole
  <2>2. Len(text) \in Nat /\ Len(text) >= 2 /\ Begins(text[1])
    BY UnsolicitedFacts, TextBegins
  <2>3. S[s + 1 - 1] = [c |-> text[1], of |-> 0, rest |-> Len(text) - 1]
    BY <2>1, <2>2 DEF Sits
  <2>4. s = 1 \/ s = 2
    OBVIOUS
  <2>5. s = 2
    BY <2>3, <2>4
  <2>6. S[2].c = text[1]
    BY <2>3, <2>5
  <2> QED BY <2>2, <2>6, CatchTypes DEF Begins
<1>2. CASE S[2].of # 0
  <2>1. /\ AnswerByte(S[2])
        /\ S[2].c \notin First_c => Continues(S[2 - 1], S[2])
    BY <1>0, <1>2 DEF Whole, AnswersWhole
  <2>2. S[2].c \in First_c
    BY <1>0, <1>r, <2>1 DEF Continues
  <2> QED BY <2>2, AnswersCaught DEF First_c
<1> QED BY <1>1, <1>2

(* What is caught in front, and is there to its end, is the answer or the   *)
(* text that stands there.                                                 *)
LEMMA HeadCaught ==
  ASSUME NEW S \in Seq(BYTE), Whole(S, 0), NEW buf \in Seq(BYTE),
         Len(buf) \in 1..Len(S), \A i \in 1..Len(buf) : buf[i] = S[i],
         NEW k \in 1..Len(CatchStr), Catches(CatchStr[k], buf),
         ~IsPartial(Catch(k), buf)
  PROVE  /\ Len(Catch(k)) \in 2..Len(buf)
         /\ S[1].of = 0 =>
              \E text \in Unsolicited :
                /\ Sits(S, 1, text)
                /\ \/ CatchStr[k].state \in NoticeStates /\ Len(text) = Len(Catch(k))
                   \/ CatchStr[k].state = "READ_IPD_DATA" /\ IsFrame(text)
         /\ S[1].of # 0 =>
              \/ CatchStr[k].state = "READ_OK" /\ S[1].c = "O" /\ Len(Catch(k)) = 2
              \/ CatchStr[k].state = "READ_ERROR" /\ S[1].c = "E"
              \/ CatchStr[k].state = "READ_SEND" /\ S[1].c = ">" /\ Len(Catch(k)) = 2
              \/ CatchStr[k].state = "READ_SIGNAL" /\ S[1].c = "+"
<1> DEFINE str == Catch(k)
<1>0. Len(S) \in Nat /\ Len(buf) \in Nat
  BY SeqFacts
<1>1. str \in Seq(Chars) /\ Len(str) \in Nat /\ Len(str) >= 2
  BY CatchTypes, CatchApart
<1>2. IsPrefix(str, Text(buf))
  BY DEF Catches, Catch
<1>3. Len(buf) >= Len(str) /\ \A i \in 1..Len(str) : buf[i].c = str[i]
  <2> HIDE DEF str
  <2> QED BY <1>1, <1>2, CatchesFacts
<1>4. Len(S) >= 2 /\ S[1].c = str[1] /\ S[2].c = str[2]
  BY <1>0, <1>1, <1>3
<1>5. ASSUME S[1].of = 0
      PROVE  \E text \in Unsolicited :
                /\ Sits(S, 1, text)
                /\ \/ CatchStr[k].state \in NoticeStates /\ Len(text) = Len(Catch(k))
                   \/ CatchStr[k].state = "READ_IPD_DATA" /\ IsFrame(text)
  <2>1. PICK text \in Unsolicited : Sits(S, 1, text) /\ Len(text) >= 1
    BY <1>0, <1>4, <1>5, TextInFront
  <2>2. PICK i \in 1..Len(CatchStr) :
              /\ Len(Catch(i)) >= 2 /\ Len(text) >= Len(Catch(i))
              /\ \A j \in 1..Len(Catch(i)) : text[j] = Catch(i)[j]
              /\ \/ CatchStr[i].state \in NoticeStates /\ text = Catch(i)
                 \/ CatchStr[i].state = "READ_IPD_DATA" /\ Len(Catch(i)) = 2 /\ IsFrame(text)
    BY UnsolicitedFacts
  <2>3. Len(text) \in Nat /\ Len(Catch(i)) \in Nat
    BY UnsolicitedFacts, CatchTypes, SMTT(30)
  <2>4. text[1] = Catch(i)[1] /\ text[2] = Catch(i)[2] /\ Len(text) >= 2
    BY <2>2, <2>3
  <2>5. /\ S[1 + 1 - 1] = [c |-> text[1], of |-> 0, rest |-> Len(text) - 1]
        /\ S[1 + 2 - 1] = [c |-> text[2], of |-> 0, rest |-> Len(text) - 2]
    BY <2>1, <2>3, <2>4, SMTT(30) DEF Sits
  <2>6. S[1].c = text[1] /\ S[2].c = text[2]
    BY <2>5
  <2>7. i = k
    BY <1>4, <2>4, <2>6, CatchApart
  <2> QED BY <2>1, <2>2, <2>7
<1>6. ASSUME S[1].of # 0
      PROVE  \/ CatchStr[k].state = "READ_OK" /\ S[1].c = "O" /\ Len(Catch(k)) = 2
             \/ CatchStr[k].state = "READ_ERROR" /\ S[1].c = "E"
             \/ CatchStr[k].state = "READ_SEND" /\ S[1].c = ">" /\ Len(Catch(k)) = 2
             \/ CatchStr[k].state = "READ_SIGNAL" /\ S[1].c = "+"
  <2>1. /\ AnswerByte(S[1])
        /\ S[1].rest > 0 => S[2].c = Next_c(S[1].c)
    <3>1. 1 \in (0 + 1)..Len(S) /\ 1 + 1 = 2
      BY <1>0, <1>4
    <3> QED BY <1>6, <3>1 DEF Whole, AnswersWhole, Continues
  <2>2. CASE S[1].rest = 0
    <3>1. S[1].c \in {"K", "R", "SP"}
      BY <2>1, <2>2 DEF AnswerByte
    <3>2. PICK j \in 1..Len(CatchStr) : S[2].c = Catch(j)[1]
      BY <1>4, <1>6, <2>2, BehindEnd
    <3>3. str[1] \in {"K", "R", "SP"} /\ str[2] = Catch(j)[1]
      BY <1>4, <3>1, <3>2
    <3> QED BY <3>3, CatchApart
  <2>3. CASE S[1].rest # 0
    <3>1. S[1].rest > 0 /\ S[1].c \in {"O", "E", ">", "+", "C", "n"}
      BY <2>1, <2>3 DEF AnswerByte
    <3>2. str[2] = Next_c(str[1]) /\ str[1] \in {"O", "E", ">", "+", "C", "n"}
      BY <1>4, <2>1, <3>1
    <3>3. str[1] # "C" /\ str[1] # "n"
      BY <3>2, CatchApart DEF Next_c
    <3>4. CASE str[1] = "O"
      <4>1. PICK i \in 1..Len(CatchStr) : CatchStr[i].state = "READ_OK" /\ Len(Catch(i)) = 2
                                 /\ Catch(i)[1] = "O" /\ Catch(i)[2] = "K"
        BY AnswersCaught
      <4>2. i = k
        BY <3>2, <3>4, <4>1, CatchApart DEF Next_c
      <4> QED BY <1>4, <3>4, <4>1, <4>2
    <3>5. CASE str[1] = "E"
      <4>1. PICK i \in 1..Len(CatchStr) : CatchStr[i].state = "READ_ERROR" /\ Len(Catch(i)) = 2
                                 /\ Catch(i)[1] = "E" /\ Catch(i)[2] = "R"
        BY AnswersCaught
      <4>2. i = k
        BY <3>2, <3>5, <4>1, CatchApart DEF Next_c
      <4> QED BY <1>4, <3>5, <4>1, <4>2
    <3>6. CASE str[1] = ">"
      <4>1. PICK i \in 1..Len(CatchStr) : CatchStr[i].state = "READ_SEND" /\ Len(Catch(i)) = 2
                                 /\ Catch(i)[1] = ">" /\ Catch(i)[2] = "SP"
        BY AnswersCaught
      <4>2. i = k
        BY <3>2, <3>6, <4>1, CatchApart DEF Next_c
      <4> QED BY <1>4, <3>6, <4>1, <4>2
    <3>7. CASE str[1] = "+"
      <4>1. PICK i \in 1..Len(CatchStr) : CatchStr[i].state = "READ_SIGNAL" /\ Len(Catch(i)) = 2
                                 /\ Catch(i)[1] = "+" /\ Catch(i)[2] = "C"
        BY AnswersCaught
      <4>2. i = k
        BY <3>2, <3>7, <4>1, CatchApart DEF Next_c
      <4> QED BY <1>4, <3>7, <4>1, <4>2
    <3> QED BY <3>2, <3>3, <3>4, <3>5, <3>6, <3>7
  <2> QED BY <2>2, <2>3
<1> QED BY <1>0, <1>1, <1>3, <1>5, <1>6

-----------------------------------------------------------------------------
(* The header of a frame.                                                  *)

Digit(ds, k) == IF ds[k] = "1" THEN 1 ELSE 0

(* g counts up the number the digits stand for. *)
Counts(g, n, ds) ==
  /\ g \in [0..n -> Nat] /\ g[0] = 0
  /\ \A k \in 1..n : g[k] = 2 * g[k - 1] + Digit(ds, k)

(* So the recursion in DataLen defines a function. *)
LEMMA CountsExists ==
  ASSUME NEW ds, NEW n \in Nat
  PROVE  \E g : Counts(g, n, ds)
<1> DEFINE Bad == {k \in Nat : ~\E g : Counts(g, k, ds)}
<1> SUFFICES ASSUME n \in Bad PROVE FALSE
  OBVIOUS
<1>1. PICK m \in Bad : \A k \in Bad : m <= k
  <2>1. Bad \in SUBSET Nat
    OBVIOUS
  <2> HIDE DEF Bad
  <2> QED BY <2>1, Least
<1>2. m # 0
  <2> SUFFICES \E g : Counts(g, 0, ds)
    BY <1>1
  <2>1. Counts([k \in 0..0 |-> 0], 0, ds)
    BY DEF Counts
  <2> QED BY <2>1
<1>3. m \in Nat /\ m - 1 \in Nat
  BY <1>1, <1>2
<1>4. PICK g : Counts(g, m - 1, ds)
  <2>1. m - 1 \notin Bad
    BY <1>1, <1>3
  <2> QED BY <1>3, <2>1
<1> HIDE DEF Bad
<1> DEFINE h == [k \in 0..m |-> IF k < m THEN g[k] ELSE 2 * g[m - 1] + Digit(ds, m)]
<1>5. g \in [0..(m - 1) -> Nat] /\ Digit(ds, m) \in Nat
  BY <1>4 DEF Counts, Digit
<1>6. h \in [0..m -> Nat] /\ h[0] = 0
  BY <1>2, <1>3, <1>4, <1>5 DEF Counts
<1>7. \A k \in 1..m : h[k] = 2 * h[k - 1] + Digit(ds, k)
  <2> TAKE k \in 1..m
  <2>1. k - 1 \in 0..(m - 1) /\ h[k - 1] = g[k - 1]
    BY <1>3
  <2>2. CASE k < m
    <3>1. k \in 1..(m - 1) /\ h[k] = g[k]
      BY <1>3, <2>2
    <3> QED BY <1>4, <2>1, <3>1 DEF Counts
  <2>3. CASE ~(k < m)
    <3>1. k = m
      BY <1>3, <2>3
    <3> QED BY <1>3, <2>1, <3>1
  <2> QED BY <2>2, <2>3
<1> QED BY <1>1, <1>6, <1>7 DEF Counts, Bad

(* The length in a header is a number. *)
LEMMA DataLenType ==
  ASSUME NEW ds \in Seq(Chars)
  PROVE  DataLen(ds) \in Nat
<1> DEFINE L == Len(ds)
           Is(f) == f = [n \in 0..L |-> IF n = 0 THEN 0 ELSE 2 * f[n - 1] + Digit(ds, n)]
           f == CHOOSE f : Is(f)
<1>1. L \in Nat
  OBVIOUS
<1>2. PICK g : Counts(g, L, ds)
  BY <1>1, CountsExists
<1>3. Is(g)
  <2>1. g \in [0..L -> Nat] /\ g[0] = 0
        /\ \A k \in 1..L : g[k] = 2 * g[k - 1] + Digit(ds, k)
    BY <1>2 DEF Counts
  <2>2. \A k \in 0..L : g[k] = IF k = 0 THEN 0 ELSE 2 * g[k - 1] + Digit(ds, k)
    BY <1>1, <2>1
  <2> QED BY <2>1, <2>2
<1>4. Is(f)
  BY <1>3
<1>5. f[L] \in Nat
  <2> DEFINE Bad == {k \in Nat : k <= L /\ f[k] \notin Nat}
  <2> HIDE DEF f
  <2>1. \A k \in 0..L : f[k] = IF k = 0 THEN 0 ELSE 2 * f[k - 1] + Digit(ds, k)
    BY <1>4
  <2> SUFFICES ASSUME f[L] \notin Nat PROVE FALSE
    OBVIOUS
  <2>2. L \in Bad /\ Bad \in SUBSET Nat
    BY <1>1
  <2>3. PICK m \in Bad : \A k \in Bad : m <= k
    <3> HIDE DEF Bad
    <3> QED BY <2>2, Least
  <2>4. m \in 0..L /\ m # 0
    BY <1>1, <2>1, <2>3
  <2>5. m - 1 \in 0..L /\ m - 1 \notin Bad
    BY <1>1, <2>3, <2>4
  <2>6. f[m - 1] \in Nat /\ Digit(ds, m) \in Nat
    BY <1>1, <2>4, <2>5 DEF Digit
  <2> QED BY <2>1, <2>3, <2>4, <2>6
<1>6. DataLen(ds) = IF \A k \in DOMAIN ds : ds[k] \in {"0", "1"} THEN f[L] ELSE 0
  BY DEF DataLen, Digit
<1> HIDE DEF f
<1> QED BY <1>5, <1>6

(* Where the digits end. *)
DigitsEnd(buf) ==
  IF Colons(buf) = {} THEN Len(buf) + 1
  ELSE CHOOSE k \in Colons(buf) : \A m \in Colons(buf) : k <= m

(* The digits of a header, and its length as computed. *)
LEMMA HeaderFacts ==
  ASSUME NEW buf \in Seq(BYTE)
  PROVE  /\ DigitsEnd(buf) \in 1..(Len(buf) + 1)
         /\ Colons(buf) # {} => /\ buf[DigitsEnd(buf)].c = ":"
                                /\ \A m \in 1..Len(buf) : buf[m].c = ":" => DigitsEnd(buf) <= m
         /\ Digits(buf) \in Seq(Chars)
         /\ Len(Digits(buf)) = IF DigitsEnd(buf) > 3 THEN DigitsEnd(buf) - 3 ELSE 0
         /\ \A i \in 1..Len(Digits(buf)) : Digits(buf)[i] = buf[i + 2].c
         /\ HeaderLen(buf) = 3 + Len(Digits(buf))
<1> DEFINE e == DigitsEnd(buf)
           part == SubSeq(buf, 3, e - 1)
<1>1. Len(buf) \in Nat /\ Colons(buf) = {k \in 1..Len(buf) : buf[k].c = ":"}
  BY DEF Colons
<1>2. e \in 1..(Len(buf) + 1) /\ (Colons(buf) # {} => e \in Colons(buf) /\ \A m \in Colons(buf) : e <= m)
  <2>1. CASE Colons(buf) = {}
    BY <1>1, <2>1 DEF DigitsEnd
  <2>2. CASE Colons(buf) # {}
    <3>1. Colons(buf) \in SUBSET Nat
      BY <1>1
    <3>2. PICK n \in Colons(buf) : TRUE
      BY <2>2
    <3>3. \E k \in Colons(buf) : \A m \in Colons(buf) : k <= m
      BY <3>1, <3>2, Least
    <3>4. e \in Colons(buf) /\ \A m \in Colons(buf) : e <= m
      BY <2>2, <3>3, Zenon DEF DigitsEnd
    <3> HIDE DEF e
    <3> QED BY <1>1, <3>4
  <2> QED BY <2>1, <2>2
<1>3. Digits(buf) = Text(part)
  BY DEF Digits, DigitsEnd, TagLen
<1> HIDE DEF e
<1>4. /\ part \in Seq(BYTE) /\ Len(part) = IF e > 3 THEN e - 3 ELSE 0
      /\ \A i \in 1..Len(part) : part[i] = buf[i + 2]
  <2>1. CASE e > 3
    <3>1. e - 1 \in Nat /\ 3 <= e - 1 + 1 /\ e - 1 <= Len(buf) /\ e - 1 - 3 + 1 = e - 3
      BY <1>1, <1>2, <2>1
    <3>a. /\ part \in Seq(BYTE) /\ Len(part) = e - 1 - 3 + 1
          /\ \A i \in 1..(e - 1 - 3 + 1) : part[i] = buf[3 + i - 1]
      BY <3>1, MiddleFacts
    <3>2. part \in Seq(BYTE) /\ Len(part) = e - 3 /\ \A i \in 1..(e - 3) : part[i] = buf[3 + i - 1]
      <4> HIDE DEF part
      <4> QED BY <3>1, <3>a
    <3>3. \A i \in 1..(e - 3) : 3 + i - 1 = i + 2
      BY <1>1, <1>2
    <3> HIDE DEF part
    <3> QED BY <2>1, <3>2, <3>3
  <2>2. CASE ~(e > 3)
    <3>0. e - 1 \in Int /\ e - 1 < 3
      BY <1>2, <2>2
    <3>1. part = <<>>
      BY <3>0, MiddleEmpty
    <3> HIDE DEF part
    <3> QED BY <2>2, <3>1
  <2> QED BY <2>1, <2>2
<1> HIDE DEF part
<1>5. /\ Text(part) \in Seq(Chars) /\ Len(Text(part)) = Len(part)
      /\ \A i \in 1..Len(part) : Text(part)[i] = part[i].c
  BY <1>4, TextFacts
<1>6. HeaderLen(buf) = 3 + Len(Digits(buf))
  BY DEF HeaderLen, TagLen
<1> QED BY <1>1, <1>2, <1>3, <1>4, <1>5, <1>6 DEF e

(* The header of a frame the modem sent: seen whole or not. *)
LEMMA FrameHeader ==
  ASSUME NEW buf \in Seq(BYTE), Len(buf) >= 2, NEW text \in Seq(Chars),
         NEW k \in 3..Len(text), text[k] = ":", \A j \in 1..(k - 1) : text[j] # ":",
         \A i \in 1..Len(buf) : i <= Len(text) => buf[i].c = text[i]
  PROVE  /\ Len(buf) < k => HeaderLen(buf) = Len(buf) + 1
         /\ Len(buf) >= k => HeaderLen(buf) = k /\ Digits(buf) = SubSeq(text, 3, k - 1)
<1>0. Len(buf) \in Nat /\ Len(text) \in Nat /\ Colons(buf) = {m \in 1..Len(buf) : buf[m].c = ":"}
  BY DEF Colons
<1> DEFINE e == DigitsEnd(buf)
           ds == Digits(buf)
<1>1. /\ e \in 1..(Len(buf) + 1)
      /\ Colons(buf) # {} => buf[e].c = ":" /\ \A m \in 1..Len(buf) : buf[m].c = ":" => e <= m
      /\ ds \in Seq(Chars) /\ Len(ds) = IF e > 3 THEN e - 3 ELSE 0
      /\ \A i \in 1..Len(ds) : ds[i] = buf[i + 2].c
      /\ HeaderLen(buf) = 3 + Len(ds)
  BY HeaderFacts
<1>2. \A m \in 1..Len(buf) : m < k => buf[m].c # ":"
  BY <1>0
<1>3. CASE Len(buf) < k
  <2>1. Colons(buf) = {}
    BY <1>0, <1>2, <1>3
  <2>2. e = Len(buf) + 1
    BY <2>1 DEF DigitsEnd
  <2> HIDE DEF e, ds
  <2> QED BY <1>0, <1>1, <1>3, <2>2
<1>4. CASE Len(buf) >= k
  <2>1. k \in 1..Len(buf) /\ buf[k].c = ":"
    BY <1>0, <1>4
  <2>2. Colons(buf) # {}
    BY <1>0, <2>1
  <2> HIDE DEF e, ds
  <2>3. e <= k /\ e >= 1
    BY <1>1, <2>1, <2>2
  <2>4. e = k
    <3>1. e \in 1..Len(buf) /\ buf[e].c = ":"
      BY <1>0, <1>1, <2>1, <2>2, <2>3, SMTT(30)
    <3> QED BY <1>2, <2>3, <3>1
  <2>5. HeaderLen(buf) = k /\ Len(ds) = k - 3
    BY <1>1, <2>4
  <2>6. /\ SubSeq(text, 3, k - 1) \in Seq(Chars) /\ Len(SubSeq(text, 3, k - 1)) = k - 3
        /\ \A i \in 1..(k - 3) : SubSeq(text, 3, k - 1)[i] = text[i + 2]
    BY <1>0
  <2>7. \A i \in 1..(k - 3) : ds[i] = text[i + 2]
    <3> TAKE i \in 1..(k - 3)
    <3>1. i + 2 \in 1..Len(buf) /\ i + 2 <= Len(text)
      BY <1>0, <1>4
    <3> QED BY <1>1, <2>5, <3>1
  <2>8. ds = SubSeq(text, 3, k - 1)
    BY <1>1, <2>5, <2>6, <2>7, SeqEq
  <2> QED BY <1>4, <2>5, <2>8 DEF ds
<1> QED BY <1>0, <1>3, <1>4

-----------------------------------------------------------------------------
(* The types of the variables, and what relates them in every state.       *)

States == {"IDLE", "WRITE", "WRITE_CMD", "WRITE_CMD_WAIT", "WRITE_DATA"}
            \union ReadStates
ENTRY == [id : 1..Len(Cmds), retry : 0..255, del_cnt : 1..2]
BUFFER == [len : Nat, buf : Seq(BYTE)]
CONTEXT == [write_list : Seq(ENTRY), buf_union : BUFFER, frame_sum : Nat,
            offset_len : Nat, state : States, busy_flag : 0..2,
            parsing_flag : BOOLEAN, is_cmd_ok : BOOLEAN]
CALL == [at : {"poll", "peek", "handle", "closed", "gone", "wild", "overrun"},
         len : Nat]
HIST == [written : 0..Len(Cmds), sends : [1..Len(Cmds) -> Nat],
         unsolicited : Nat, frame : Seq(BYTE), off_step : BOOLEAN,
         late : BOOLEAN]

(* The list is in the order of the calls. *)
GoodList(list, written) ==
  /\ at_cmd_num > 0 => Len(list) <= at_cmd_num
  /\ \A i, j \in 1..Len(list) : i < j => list[i].id < list[j].id
  /\ \A i \in 1..Len(list) : list[i].id <= written

(* What is kept of a frame is shorter than the frame. *)
GoodFrame(c) ==
  /\ c.parsing_flag <=> c.buf_union # NoBuf
  /\ c.frame_sum = Len(c.buf_union.buf)
  /\ c.parsing_flag => c.frame_sum < c.buf_union.len

(* How much of the frame is still to come. *)
Left == context.buf_union.len - context.frame_sum

TypeInv ==
  /\ context \in CONTEXT /\ fifo \in Seq(BYTE) /\ wire \in Seq(BYTE)
  /\ age \in 0..2 /\ call \in CALL /\ hist \in HIST
  /\ GoodList(context.write_list, hist.written)
  /\ GoodFrame(context)
  /\ \A i \in 1..Len(Cmds) : i > hist.written => hist.sends[i] = 0
  /\ Len(fifo) <= FifoLen /\ call.len <= Len(fifo)
  /\ call.at = "handle" /\ context.parsing_flag =>
       call.len <= Left /\ context.state = "READ_IPD_DATA"

(* The commands, as a sequence. *)
LEMMA CmdTypes ==
  /\ Len(Cmds) \in Nat /\ DOMAIN Cmds = 1..Len(Cmds)
  /\ \A i \in 1..Len(Cmds) : Cmds[i].data \in BOOLEAN /\ Cmds[i].retry \in 1..255
<1> DEFINE C == [data : BOOLEAN, retry : 1..255]
<1>1. Cmds \in Seq(C)
  BY AtAssumption
<1>2. \A e \in C : e.data \in BOOLEAN /\ e.retry \in 1..255
  OBVIOUS
<1> HIDE DEF C
<1>3. Len(Cmds) \in Nat /\ DOMAIN Cmds = 1..Len(Cmds) /\ \A i \in 1..Len(Cmds) : Cmds[i] \in C
  BY <1>1
<1> QED BY <1>2, <1>3

(* An empty context is well formed. *)
LEMMA NewContextType ==
  ASSUME NEW ok \in BOOLEAN, NEW written \in Nat
  PROVE  /\ NewContext(ok) \in CONTEXT
         /\ GoodFrame(NewContext(ok))
         /\ GoodList(NewContext(ok).write_list, written)
<1>1. <<>> \in Seq(ENTRY) /\ <<>> \in Seq(BYTE) /\ Len(<<>>) = 0
  OBVIOUS
<1>2. NewContext(ok) \in CONTEXT
  BY <1>1 DEF NewContext, NoBuf, CONTEXT, BUFFER, States
<1>3. GoodFrame(NewContext(ok))
  BY <1>1 DEF NewContext, NoBuf, GoodFrame
<1>4. GoodList(NewContext(ok).write_list, written)
  BY AtAssumption DEF NewContext, GoodList
<1> QED BY <1>2, <1>3, <1>4

(* The types are right in the beginning. *)
LEMMA InitType == Init => TypeInv
<1> SUFFICES ASSUME Init PROVE TypeInv
  OBVIOUS
<1>0. Len(Cmds) \in Nat /\ DOMAIN Cmds = 1..Len(Cmds) /\ FifoLen \in Nat
  BY CmdTypes, AtAssumption
<1>1. context \in CONTEXT /\ GoodFrame(context) /\ GoodList(context.write_list, 0)
      /\ context.parsing_flag = FALSE
  <2>1. PICK ok \in BOOLEAN : context = NewContext(ok)
    BY DEF Init
  <2>2. context.parsing_flag = FALSE
    BY <2>1 DEF NewContext
  <2> QED BY <2>1, <2>2, NewContextType
<1>2. fifo \in Seq(BYTE) /\ wire \in Seq(BYTE) /\ age \in 0..2 /\ Len(fifo) = 0
  BY DEF Init
<1>3. call \in CALL /\ call.len = 0
  BY DEF Init, At, CALL
<1>4. hist \in HIST /\ hist.written = 0 /\ \A i \in 1..Len(Cmds) : hist.sends[i] = 0
  <2>1. <<>> \in Seq(BYTE)
    OBVIOUS
  <2> QED BY <1>0, <2>1 DEF Init, HIST
<1> QED BY <1>0, <1>1, <1>2, <1>3, <1>4 DEF TypeInv

(* The fields of the context, as they are. *)
LEMMA Fields ==
  ASSUME TypeInv
  PROVE  /\ context \in CONTEXT /\ GoodFrame(context)
         /\ context.write_list \in Seq(ENTRY) /\ context.busy_flag \in 0..2
         /\ context.state \in States /\ context.offset_len \in Nat
         /\ context.parsing_flag \in BOOLEAN /\ context.is_cmd_ok \in BOOLEAN
         /\ GoodList(context.write_list, hist.written)
         /\ hist \in HIST /\ hist.off_step \in BOOLEAN /\ hist.late \in BOOLEAN
         /\ hist.written \in Nat
  BY CmdTypes DEF TypeInv, CONTEXT, HIST

(* The first entry of the list. *)
LEMMA FirstType ==
  ASSUME TypeInv, ~NoFirst
  PROVE  /\ Len(context.write_list) >= 1 /\ First = context.write_list[1]
         /\ First \in ENTRY /\ First.id \in 1..Len(Cmds)
         /\ First.id <= hist.written
<1> DEFINE list == context.write_list
<1>1. list \in Seq(ENTRY) /\ list # <<>> /\ First = Head(list)
  BY DEF TypeInv, CONTEXT, NoFirst, First
<1>2. Len(list) \in Nat /\ \A i \in 1..Len(list) : list[i].id <= hist.written
  BY <1>1 DEF TypeInv, GoodList
<1> HIDE DEF list
<1>3. Len(list) >= 1 /\ First = list[1] /\ First \in ENTRY
  BY <1>1, <1>2
<1>4. First.id \in 1..Len(Cmds)
  BY <1>3 DEF ENTRY
<1> QED BY <1>2, <1>3, <1>4 DEF list

(* The bytes that were peeked. *)
LEMMA BufType ==
  ASSUME TypeInv
  PROVE  /\ Buf \in Seq(BYTE) /\ Len(Buf) = call.len /\ call.len \in 0..Len(fifo)
         /\ \A i \in 1..Len(Buf) : Buf[i] = fifo[i]
<1>1. fifo \in Seq(BYTE) /\ call.len \in Nat /\ call.len <= Len(fifo)
  BY DEF TypeInv, CALL
<1>2. call.len \in 0..Len(fifo)
  BY <1>1
<1> QED BY <1>1, <1>2, FrontFacts DEF Buf

(* The end of a pass keeps the types. *)
LEMMA PassType ==
  ASSUME TypeInv, NEW c \in CONTEXT, GoodFrame(c), GoodList(c.write_list, hist.written),
         Update(c) \/ Keep(c), UNCHANGED <<age, wire>>,
         hist' \in HIST, hist'.written = hist.written, hist'.sends = hist.sends
  PROVE  TypeInv'
<1>1. call' \in CALL /\ call'.len = 0 /\ call'.at # "handle"
  BY DEF Update, Keep, Loop, At, CALL
<1>2. fifo \in Seq(BYTE) /\ Len(fifo) \in Nat /\ Len(fifo) <= FifoLen
  BY DEF TypeInv
<1>3. CASE Keep(c)
  <2>1. context' = c /\ fifo' = fifo
    BY <1>3 DEF Keep
  <2> QED BY <1>1, <1>2, <2>1 DEF TypeInv
<1>4. CASE Update(c)
  <2>1. context' = [c EXCEPT !.offset_len = 0] /\ fifo' = Drop(fifo, c.offset_len)
    BY <1>4 DEF Update, Drop
  <2>2. c.offset_len \in Nat
    BY DEF CONTEXT
  <2>3. fifo' \in Seq(BYTE) /\ Len(fifo') <= Len(fifo) /\ Len(fifo') \in Nat
    BY <1>2, <2>1, <2>2, DropType
  <2>4. /\ context' \in CONTEXT /\ context'.write_list = c.write_list
        /\ context'.parsing_flag = c.parsing_flag /\ context'.buf_union = c.buf_union
        /\ context'.frame_sum = c.frame_sum
    BY <2>1 DEF CONTEXT
  <2>5. GoodFrame(context') /\ GoodList(context'.write_list, hist'.written)
    BY <2>4 DEF GoodFrame
  <2>6. Len(fifo') <= FifoLen
    BY <1>2, <2>3, AtAssumption
  <2>7. call'.len <= Len(fifo')
    BY <1>1, <2>3
  <2>8. wire' \in Seq(BYTE) /\ age' \in 0..2
    BY DEF TypeInv
  <2>9. \A i \in 1..Len(Cmds) : i > hist'.written => hist'.sends[i] = 0
    BY DEF TypeInv
  <2> QED BY <1>1, <2>3, <2>4, <2>5, <2>6, <2>7, <2>8, <2>9 DEF TypeInv
<1> QED BY <1>3, <1>4

(* A step that leaves the fifo and the frame alone, and after which nothing *)
(* is peeked.                                                              *)
SameFrame == /\ context'.buf_union = context.buf_union
             /\ context'.frame_sum = context.frame_sum
             /\ context'.parsing_flag = context.parsing_flag

(* Such a step keeps the types. *)
LEMMA StepType ==
  ASSUME TypeInv, context' \in CONTEXT, SameFrame,
         GoodList(context'.write_list, hist'.written),
         UNCHANGED fifo, wire' \in Seq(BYTE), age' \in 0..2,
         call' \in CALL, call'.len <= Len(fifo), call'.at # "handle",
         hist' \in HIST, \A i \in 1..Len(Cmds) : i > hist'.written => hist'.sends[i] = 0
  PROVE  TypeInv'
<1>1. GoodFrame(context')
  BY DEF TypeInv, GoodFrame, SameFrame
<1>2. Len(fifo) \in Nat /\ Len(fifo) <= FifoLen /\ fifo \in Seq(BYTE)
  BY DEF TypeInv
<1> QED BY <1>1, <1>2 DEF TypeInv

(* The program counter moves. *)
LEMMA AtType ==
  ASSUME NEW pc \in {"poll", "peek", "handle", "closed", "gone", "wild", "overrun"}
  PROVE  At(pc) \in CALL /\ At(pc).len = 0 /\ At(pc).at = pc
  BY DEF At, CALL

(* The list is not longer, or later numbers may be in it. *)
LEMMA TailType ==
  ASSUME NEW list \in Seq(ENTRY), Len(list) >= 1, NEW written \in Nat, GoodList(list, written)
  PROVE  /\ Tail(list) \in Seq(ENTRY) /\ GoodList(Tail(list), written)
         /\ Len(Tail(list)) = Len(list) - 1
         /\ \A i \in 1..(Len(list) - 1) : Tail(list)[i] = list[i + 1]
<1>1. /\ Tail(list) \in Seq(ENTRY) /\ Len(Tail(list)) = Len(list) - 1 /\ Len(list) \in Nat
      /\ \A i \in 1..(Len(list) - 1) : Tail(list)[i] = list[i + 1]
  OBVIOUS
<1> DEFINE tl == Tail(list)
<1>2. /\ tl \in Seq(ENTRY) /\ Len(tl) = Len(list) - 1 /\ Len(list) \in Nat
      /\ \A i \in 1..(Len(list) - 1) : tl[i] = list[i + 1]
  BY <1>1
<1> HIDE DEF tl
<1>3. \A i \in 1..(Len(list) - 1) : i + 1 \in 1..Len(list)
  BY <1>1
<1>4. at_cmd_num > 0 => Len(tl) <= at_cmd_num
  BY <1>2, AtAssumption DEF GoodList
<1>5. ASSUME NEW i \in 1..Len(tl), NEW j \in 1..Len(tl), i < j PROVE tl[i].id < tl[j].id
  <2>1. i + 1 \in 1..Len(list) /\ j + 1 \in 1..Len(list) /\ i + 1 < j + 1
    BY <1>2, <1>5
  <2> QED BY <1>2, <2>1 DEF GoodList
<1>6. \A i \in 1..Len(tl) : tl[i].id <= written
  BY <1>2, <1>3 DEF GoodList
<1>7. GoodList(tl, written)
  BY <1>4, <1>5, <1>6 DEF GoodList
<1> QED BY <1>2, <1>7 DEF tl

(* A field of the first entry is assigned. *)
LEMMA SetFirstType ==
  ASSUME NEW list \in Seq(ENTRY), Len(list) >= 1, NEW written, GoodList(list, written),
         NEW e \in ENTRY, e.id = list[1].id
  PROVE  /\ [list EXCEPT ![1] = e] \in Seq(ENTRY)
         /\ GoodList([list EXCEPT ![1] = e], written)
         /\ Len([list EXCEPT ![1] = e]) = Len(list)
         /\ [list EXCEPT ![1] = e][1] = e
         /\ \A i \in 2..Len(list) : [list EXCEPT ![1] = e][i] = list[i]
<1> DEFINE new == [list EXCEPT ![1] = e]
<1>1. Len(list) \in Nat /\ 1 \in 1..Len(list)
  OBVIOUS
<1>2. /\ new \in Seq(ENTRY) /\ Len(new) = Len(list) /\ new[1] = e
      /\ \A i \in 2..Len(list) : new[i] = list[i]
  BY <1>1
<1> HIDE DEF new
<1>3. \A i \in 1..Len(list) : new[i].id = list[i].id
  BY <1>1, <1>2
<1>4. GoodList(new, written)
  BY <1>2, <1>3 DEF GoodList
<1> QED BY <1>2, <1>4 DEF new

(* A command is written: it is the last of the list. *)
LEMMA AppendType ==
  ASSUME NEW list \in Seq(ENTRY), NEW written \in Nat, GoodList(list, written),
         NEW e \in ENTRY, e.id = written + 1, at_cmd_num = 0 \/ Len(list) < at_cmd_num
  PROVE  /\ Append(list, e) \in Seq(ENTRY) /\ GoodList(Append(list, e), written + 1)
         /\ Len(Append(list, e)) = Len(list) + 1
         /\ \A i \in 1..Len(list) : Append(list, e)[i] = list[i]
         /\ Append(list, e)[Len(list) + 1] = e
<1> DEFINE new == Append(list, e)
<1>e. \A x \in ENTRY : x.id \in Nat
  BY CmdTypes DEF ENTRY
<1>0. /\ Len(list) \in Nat /\ at_cmd_num \in Nat
      /\ \A i \in 1..Len(list) : list[i] \in ENTRY /\ list[i].id \in Nat
  BY <1>e, AtAssumption
<1>1. /\ new \in Seq(ENTRY) /\ Len(new) = Len(list) + 1
      /\ \A i \in 1..Len(list) : new[i] = list[i]
      /\ new[Len(list) + 1] = e
  BY <1>0
<1> HIDE DEF new
<1>2. at_cmd_num > 0 => Len(new) <= at_cmd_num
  BY <1>0, <1>1
<1>3. \A i \in 1..Len(new) : i \in 1..Len(list) \/ i = Len(list) + 1
  BY <1>0, <1>1
<1>4. \A i \in 1..Len(list) : list[i].id <= written /\ list[i].id < written + 1 /\ list[i].id <= written + 1
  BY <1>0 DEF GoodList
<1>5. \A i \in 1..Len(new) : new[i].id <= written + 1
  BY <1>1, <1>3, <1>4
<1>6. ASSUME NEW i \in 1..Len(new), NEW j \in 1..Len(new), i < j PROVE new[i].id < new[j].id
  <2>1. i \in 1..Len(list)
    BY <1>0, <1>1, <1>6
  <2>2. CASE j \in 1..Len(list)
    BY <1>1, <1>6, <2>1, <2>2 DEF GoodList
  <2>3. CASE j = Len(list) + 1
    BY <1>1, <1>4, <2>1, <2>3
  <2> QED BY <1>3, <2>2, <2>3
<1>7. GoodList(new, written + 1)
  BY <1>2, <1>5, <1>6 DEF GoodList
<1> QED BY <1>1, <1>7 DEF new

(* A step of the context that leaves frame and list as they are. *)
LEMMA StateType ==
  ASSUME TypeInv, context' \in CONTEXT, SameFrame,
         context'.write_list = context.write_list,
         UNCHANGED <<fifo, wire, hist>>, age' \in 0..2,
         call' \in CALL, call'.len <= Len(fifo), call'.at # "handle"
  PROVE  TypeInv'
<1>1. /\ GoodList(context.write_list, hist.written) /\ wire \in Seq(BYTE) /\ hist \in HIST
      /\ \A i \in 1..Len(Cmds) : i > hist.written => hist.sends[i] = 0
  BY DEF TypeInv
<1> QED BY <1>1, StepType

(* What being polled in one of the states says. *)
LEMMA PollType ==
  ASSUME TypeInv, NEW states, Polls(states)
  PROVE  call.at = "poll" /\ call.len \in Nat /\ call \in CALL /\ context.state \in states
  BY DEF TypeInv, Polls, CALL

(* The steps of the polling thread outside a pass. *)
LEMMA IdleType ==
  ASSUME TypeInv, IdleRead \/ IdleWrite \/ Write \/ WriteCmdWait
  PROVE  TypeInv'
<1>1. /\ call.at = "poll" /\ UNCHANGED <<fifo, age, call, wire, hist>>
      /\ \E s \in States : context' = [context EXCEPT !.state = s]
  BY DEF IdleRead, IdleWrite, Write, WriteCmdWait, Polls, GoTo, States, ReadStates
<1>2. /\ context' \in CONTEXT /\ SameFrame /\ context'.write_list = context.write_list
  BY <1>1 DEF TypeInv, CONTEXT, SameFrame
<1>3. call' \in CALL /\ call'.len <= Len(fifo) /\ age' \in 0..2
  BY <1>1 DEF TypeInv
<1> QED BY <1>1, <1>2, <1>3, StateType

(* State, flag and list are assigned. *)
Assigned(c, s, b, list) ==
  [c EXCEPT !.state = s, !.busy_flag = b, !.write_list = list]

(* The other fields stay. *)
LEMMA AssignedFacts ==
  ASSUME NEW c \in CONTEXT, NEW s \in States, NEW b \in 0..2, NEW list \in Seq(ENTRY)
  PROVE  /\ Assigned(c, s, b, list) \in CONTEXT
         /\ Assigned(c, s, b, list).state = s
         /\ Assigned(c, s, b, list).busy_flag = b
         /\ Assigned(c, s, b, list).write_list = list
         /\ Assigned(c, s, b, list).buf_union = c.buf_union
         /\ Assigned(c, s, b, list).frame_sum = c.frame_sum
         /\ Assigned(c, s, b, list).parsing_flag = c.parsing_flag
         /\ Assigned(c, s, b, list).is_cmd_ok = c.is_cmd_ok
         /\ Assigned(c, s, b, list).offset_len = c.offset_len
  BY DEF CONTEXT, Assigned

(* A try less; the uint8_t wraps around. *)
LEMMA TriedFacts ==
  ASSUME TypeInv, ~NoFirst
  PROVE  /\ Tried \in 0..255
         /\ First.retry \in 1..255 => Tried = First.retry - 1
<1>1. First.retry \in 0..255
  BY FirstType DEF ENTRY
<1>2. \A x \in -1..254 : x % 256 = IF x = -1 THEN 255 ELSE x
  OBVIOUS
<1> DEFINE x == First.retry - 1
<1>3. Tried = x % 256 /\ x \in -1..254
  BY <1>1 DEF Tried
<1> HIDE DEF x
<1>4. Tried = IF x = -1 THEN 255 ELSE x
  BY <1>2, <1>3
<1> QED BY <1>1, <1>3, <1>4 DEF x

(* The time of a command is over. *)
LEMMA IdleTimeoutType ==
  ASSUME TypeInv, IdleTimeout
  PROVE  TypeInv'
<1> DEFINE list == context.write_list
           new == [list[1] EXCEPT !.retry = Tried]
<1>1. ~NoFirst /\ First \in ENTRY /\ First = list[1] /\ Len(list) >= 1
  BY FirstType DEF IdleTimeout
<1>2. Tried \in 0..255
  BY <1>1, TriedFacts
<1>3. new \in ENTRY /\ new.id = list[1].id
  BY <1>1, <1>2 DEF ENTRY
<1>4. /\ context \in CONTEXT /\ list \in Seq(ENTRY) /\ GoodList(list, hist.written)
      /\ wire \in Seq(BYTE) /\ hist \in HIST /\ Len(fifo) \in Nat
      /\ \A i \in 1..Len(Cmds) : i > hist.written => hist.sends[i] = 0
  BY DEF TypeInv, CONTEXT
<1>5. context' = [context EXCEPT !.busy_flag = 0, !.write_list = [list EXCEPT ![1] = new],
                    !.state = IF Tried = 0 THEN "IDLE" ELSE "WRITE"]
  BY DEF IdleTimeout
<1> HIDE DEF new
<1>6. [list EXCEPT ![1] = new] \in Seq(ENTRY) /\ GoodList([list EXCEPT ![1] = new], hist.written)
  BY <1>1, <1>3, <1>4, SetFirstType
<1>7. /\ context' \in CONTEXT /\ SameFrame
      /\ context'.write_list = [list EXCEPT ![1] = new]
  <2> DEFINE list2 == [list EXCEPT ![1] = new]
             s == IF Tried = 0 THEN "IDLE" ELSE "WRITE"
  <2>1. s \in States /\ list2 \in Seq(ENTRY)
    BY <1>6 DEF States
  <2>2. context' = Assigned(context, s, 0, list2)
    BY <1>4, <1>5 DEF Assigned, CONTEXT
  <2> HIDE DEF list2, s
  <2>3. context \in CONTEXT /\ 0 \in 0..2
    BY <1>4
  <2>4. /\ context' \in CONTEXT /\ context'.write_list = list2
        /\ context'.buf_union = context.buf_union
        /\ context'.frame_sum = context.frame_sum
        /\ context'.parsing_flag = context.parsing_flag
    BY <2>1, <2>2, <2>3, AssignedFacts
  <2> QED BY <2>4 DEF list2, SameFrame
<1>8. call' \in CALL /\ call'.len <= Len(fifo) /\ call'.at # "handle"
  BY <1>4 DEF IdleTimeout, At, CALL
<1>9. UNCHANGED <<fifo, wire>> /\ age' \in 0..2
  BY DEF IdleTimeout
<1>10. hist' \in HIST /\ hist'.written = hist.written /\ hist'.sends = hist.sends
  <2> DEFINE b == hist.late \/ AnswerComes
  <2>1. hist' = [hist EXCEPT !.late = b] /\ b \in BOOLEAN
    BY Fields DEF IdleTimeout, AnswerComes
  <2> HIDE DEF b
  <2> QED BY <1>4, <2>1 DEF HIST
<1> QED BY <1>4, <1>6, <1>7, <1>8, <1>9, <1>10, StepType

(* The list head is taken for a command: nothing else changes. *)
LEMMA WildType ==
  ASSUME TypeInv, Wild
  PROVE  TypeInv'
<1>1. call' \in CALL /\ call'.len <= Len(fifo) /\ call'.at # "handle"
  BY DEF Wild, At, CALL, TypeInv
<1>2. UNCHANGED <<context, fifo, age, wire, hist>>
  BY DEF Wild
<1>3. context' \in CONTEXT /\ SameFrame /\ context'.write_list = context.write_list /\ age' \in 0..2
  BY <1>2 DEF TypeInv, SameFrame
<1> QED BY <1>1, <1>2, <1>3, StateType

-----------------------------------------------------------------------------
(* The answers of the modem.                                               *)

(* ans is a whole answer to id, of the characters exp, in which those that  *)
(* end one are followed as may says.                                       *)
AnswerOf(ans, id, exp, may) == IsAnswer(ans, id) /\ Answers(ans, 0, id, exp, may)

(* No answer is one, too. *)
LEMMA NoAnswerIs ==
  ASSUME NEW id, NEW exp, NEW may
  PROVE  AnswerOf(<<>>, id, exp, may)
  BY DEF AnswerOf, IsAnswer, AnswersWhole, Answers

(* An answer of two bytes. *)
LEMMA TwoBytes ==
  ASSUME NEW a \in Chars, NEW b \in Chars, NEW id \in Nat \ {0}, NEW may,
         <<a, b>> \in {<<"O", "K">>, <<"E", "R">>, <<">", "SP">>},
         a = ">" => <<a, b>> \in may
  PROVE  AnswerOf(Message(<<a, b>>, id), id, {a, b}, may)
<1> DEFINE M == Message(<<a, b>>, id)
<1>1. <<a, b>> \in Seq(Chars) /\ Len(<<a, b>>) = 2
  OBVIOUS
<1>2. M \in Seq(BYTE) /\ Len(M) = 2
      /\ \A i \in 1..2 : M[i] = [c |-> <<a, b>>[i], of |-> id, rest |-> 2 - i]
  BY <1>1, MessageFacts
<1> HIDE DEF M
<1>3. M[1] = [c |-> a, of |-> id, rest |-> 1] /\ M[2] = [c |-> b, of |-> id, rest |-> 0]
  BY <1>2
<1>4. \A k \in (0 + 1)..Len(M) : k = 1 \/ k = 2
  BY <1>2
<1>5. AnswerByte(M[1]) /\ AnswerByte(M[2]) /\ Continues(M[1], M[2]) /\ M[1].c \in First_c
  BY <1>3 DEF AnswerByte, Continues, Next_c, First_c
<1>6. AnswersWhole(M, 0)
  <2> SUFFICES ASSUME NEW k \in (0 + 1)..Len(M)
               PROVE  /\ AnswerByte(M[k])
                      /\ M[k].rest > 0 => k < Len(M) /\ Continues(M[k], M[k + 1])
                      /\ k > 0 + 1 /\ M[k].c \notin First_c => Continues(M[k - 1], M[k])
    BY DEF AnswersWhole
  <2>1. CASE k = 1
    BY <1>2, <1>3, <1>5, <2>1
  <2>2. CASE k = 2
    BY <1>3, <1>5, <2>2
  <2> QED BY <1>4, <2>1, <2>2
<1>7. Answers(M, 0, id, {a, b}, may)
  <2> SUFFICES ASSUME NEW k \in (0 + 1)..Len(M)
               PROVE  /\ M[k].c \in {a, b} /\ M[k].of = id
                      /\ \A m \in (k + 1)..Len(M) :
                           M[m].of # 0 /\ M[k].c \in {"K", "R", ">", "SP"} =>
                             <<M[k].c, M[m].c>> \in may
    BY DEF Answers
  <2>1. CASE k = 1
    <3>1. \A m \in (k + 1)..Len(M) : m = 2
      BY <1>2, <2>1
    <3> QED BY <1>3, <2>1, <3>1
  <2>2. CASE k = 2
    BY <1>2, <1>3, <2>2
  <2> QED BY <1>4, <2>1, <2>2
<1>8. IsAnswer(M, id)
  <2>1. \A i \in 1..Len(M) : M[i].of = id
    BY <1>3, <1>4
  <2>2. M # <<>> => M[1].c \in First_c
    BY <1>5
  <2> QED BY <1>2, <1>6, <2>1, <2>2 DEF IsAnswer
<1> QED BY <1>7, <1>8 DEF AnswerOf, M

(* A sequence of five. *)
LEMMA FiveElements ==
  ASSUME NEW X, NEW a \in X, NEW b \in X, NEW c \in X, NEW d \in X, NEW e \in X
  PROVE  <<a, b, c, d, e>> \in Seq(X) /\ Len(<<a, b, c, d, e>>) = 5
  OBVIOUS

(* The answer to +CSQ. *)
LEMMA SignalIs ==
  ASSUME NEW id \in Nat \ {0}, NEW may
  PROVE  AnswerOf(Message(<<"+", "C", "n", "O", "K">>, id), id, {"+", "C", "n", "O", "K"}, may)
<1> DEFINE M == Message(<<"+", "C", "n", "O", "K">>, id)
           exp == {"+", "C", "n", "O", "K"}
<1>1. <<"+", "C", "n", "O", "K">> \in Seq(Chars) /\ Len(<<"+", "C", "n", "O", "K">>) = 5
  <2>1. "+" \in Chars /\ "C" \in Chars /\ "n" \in Chars /\ "O" \in Chars /\ "K" \in Chars
    BY DEF Chars
  <2> QED BY <2>1, FiveElements
<1>2. M \in Seq(BYTE) /\ Len(M) = 5
      /\ \A i \in 1..5 : M[i] = [c |-> <<"+", "C", "n", "O", "K">>[i], of |-> id, rest |-> 5 - i]
  BY <1>1, MessageFacts
<1> HIDE DEF M
<1>3. /\ M[1] = [c |-> "+", of |-> id, rest |-> 4] /\ M[2] = [c |-> "C", of |-> id, rest |-> 3]
      /\ M[3] = [c |-> "n", of |-> id, rest |-> 2] /\ M[4] = [c |-> "O", of |-> id, rest |-> 1]
      /\ M[5] = [c |-> "K", of |-> id, rest |-> 0]
  BY <1>2
<1>4. \A k \in (0 + 1)..Len(M) : k = 1 \/ k = 2 \/ k = 3 \/ k = 4 \/ k = 5
  BY <1>2
<1>5. /\ AnswerByte(M[1]) /\ AnswerByte(M[2]) /\ AnswerByte(M[3]) /\ AnswerByte(M[4]) /\ AnswerByte(M[5])
      /\ Continues(M[1], M[2]) /\ Continues(M[2], M[3]) /\ Continues(M[3], M[4])
      /\ Continues(M[4], M[5]) /\ M[1].c \in First_c
  BY <1>3 DEF AnswerByte, Continues, Next_c, First_c
<1>6. AnswersWhole(M, 0)
  <2> SUFFICES ASSUME NEW k \in (0 + 1)..Len(M)
               PROVE  /\ AnswerByte(M[k])
                      /\ M[k].rest > 0 => k < Len(M) /\ Continues(M[k], M[k + 1])
                      /\ k > 0 + 1 /\ M[k].c \notin First_c => Continues(M[k - 1], M[k])
    BY DEF AnswersWhole
  <2>1. CASE k = 1
    BY <1>2, <1>3, <1>5, <2>1
  <2>2. CASE k = 2
    BY <1>2, <1>3, <1>5, <2>2
  <2>3. CASE k = 3
    BY <1>2, <1>3, <1>5, <2>3
  <2>4. CASE k = 4
    BY <1>2, <1>3, <1>5, <2>4
  <2>5. CASE k = 5
    BY <1>2, <1>3, <1>5, <2>5
  <2> QED BY <1>4, <2>1, <2>2, <2>3, <2>4, <2>5
<1>9. \A k \in 1..Len(M) : M[k].c \in exp /\ M[k].of = id
  <2>1. /\ M[1].c \in exp /\ M[2].c \in exp /\ M[3].c \in exp /\ M[4].c \in exp /\ M[5].c \in exp
        /\ M[1].of = id /\ M[2].of = id /\ M[3].of = id /\ M[4].of = id /\ M[5].of = id
    BY <1>3
  <2> QED BY <1>4, <2>1
<1>7. Answers(M, 0, id, exp, may)
  <2> SUFFICES ASSUME NEW k \in (0 + 1)..Len(M)
               PROVE  /\ M[k].c \in exp /\ M[k].of = id
                      /\ \A m \in (k + 1)..Len(M) :
                           M[m].of # 0 /\ M[k].c \in {"K", "R", ">", "SP"} =>
                             <<M[k].c, M[m].c>> \in may
    BY DEF Answers
  <2>1. M[k].c \in exp /\ M[k].of = id
    BY <1>9
  <2>2. ASSUME NEW m \in (k + 1)..Len(M) PROVE M[k].c \notin {"K", "R", ">", "SP"}
    <3>1. k # 5
      BY <1>2, <1>4
    <3> QED BY <1>3, <1>4, <3>1
  <2> QED BY <2>1, <2>2
<1>8. IsAnswer(M, id)
  <2>1. \A i \in 1..Len(M) : M[i].of = id
    BY <1>9
  <2>2. M # <<>> => M[1].c \in First_c
    BY <1>5
  <2> QED BY <1>2, <1>6, <2>1, <2>2 DEF IsAnswer
<1> QED BY <1>7, <1>8 DEF AnswerOf, M

(* Two answers, one behind the other, are sent as one. *)
LEMMA TwoAnswers ==
  ASSUME NEW id \in Nat \ {0}, NEW a1, NEW a2, NEW exp1, NEW exp2, NEW may,
         AnswerOf(a1, id, exp1, may), AnswerOf(a2, id, exp2, may), a1 # <<>>,
         \A a \in exp1, b \in exp2 : a \in {"K", "R", ">", "SP"} => <<a, b>> \in may
  PROVE  AnswerOf(a1 \o a2, id, exp1 \union exp2, may)
<1> DEFINE U == a1 \o a2
<1>1. a1 \in Seq(BYTE) /\ a2 \in Seq(BYTE)
  BY DEF AnswerOf, IsAnswer
<1>2. /\ U \in Seq(BYTE) /\ Len(a1) \in Nat /\ Len(a2) \in Nat /\ Len(U) = Len(a1) + Len(a2)
      /\ \A i \in 1..Len(a1) : U[i] = a1[i]
      /\ \A i \in (Len(a1) + 1)..(Len(a1) + Len(a2)) : U[i] = a2[i - Len(a1)]
  BY <1>1, CatBytes
<1> HIDE DEF U
<1>3. \A i \in 1..Len(a1) : a1[i].of # 0
  BY DEF AnswerOf, IsAnswer
<1>4. Whole(a1, 0)
  BY <1>3 DEF AnswerOf, IsAnswer, Whole, TextsWhole
<1>5. Whole(U, 0)
  <2>1. 0 \in 0..Len(a1)
    BY <1>2
  <2> QED BY <1>1, <1>4, <2>1, WholeCatAnswer DEF AnswerOf, U
<1>6. Answers(U, 0, id, exp1 \union exp2, may)
  <2> DEFINE exp == exp1 \union exp2
  <2>0. 0 \in 0..Len(a1)
    BY <1>2
  <2>1. exp1 \subseteq exp /\ exp2 \subseteq exp
    OBVIOUS
  <2>2. Answers(a1, 0, id, exp1, may) /\ Answers(a2, 0, id, exp2, may)
    BY DEF AnswerOf
  <2> HIDE DEF exp
  <2>3. Answers(a1 \o a2, 0, id, exp, may)
    BY <1>1, <2>0, <2>1, <2>2, AnswersCatAnswer
  <2> QED BY <2>3 DEF U, exp
<1>7. \A i \in 1..Len(U) : U[i].of = id
  <2> TAKE i \in 1..Len(U)
  <2>1. CASE i \in 1..Len(a1)
    BY <1>2, <2>1 DEF AnswerOf, IsAnswer
  <2>2. CASE i \notin 1..Len(a1)
    <3>1. i \in (Len(a1) + 1)..(Len(a1) + Len(a2)) /\ i - Len(a1) \in 1..Len(a2)
      BY <1>2, <2>2
    <3> QED BY <1>2, <3>1 DEF AnswerOf, IsAnswer
  <2> QED BY <2>1, <2>2
<1>8. U[1].c \in First_c
  <2>1. 1 \in 1..Len(a1)
    BY <1>1, <1>2
  <2> QED BY <1>2, <2>1 DEF AnswerOf, IsAnswer
<1> QED BY <1>2, <1>5, <1>6, <1>7, <1>8 DEF AnswerOf, IsAnswer, Whole, U

(* What may be expected of the modem once the first command went out, with  *)
(* data or not, its OK still to come or not, and once its data went out;   *)
(* and which byte may come behind the last of an answer, or behind a ">".  *)
Exp1(data, both) ==
  IF data THEN {">", "SP", "E", "R"} \union (IF both THEN {"O", "K"} ELSE {})
  ELSE {"O", "K", "E", "R", "+", "C", "n"}
May1(data) ==
  {<<">", "SP">>} \union (IF data THEN {<<"K", ">">>, <<"K", "SP">>} ELSE {})
Exp2 == {"O", "K", "E", "R", "SP"}
May2 == {<<"SP", "O">>, <<"SP", "K">>, <<"SP", "E">>, <<"SP", "R">>}

(* More may be expected than comes. *)
LEMMA AnswerOfMore ==
  ASSUME NEW ans, NEW id, NEW exp, NEW may, NEW exp2, NEW may2,
         AnswerOf(ans, id, exp, may), exp \subseteq exp2, may \subseteq may2
  PROVE  AnswerOf(ans, id, exp2, may2)
  BY AnswersMore DEF AnswerOf

(* OK and ERROR. *)
LEMMA OkIs ==
  ASSUME NEW id \in Nat \ {0}, NEW may
  PROVE  /\ AnswerOf(Message(<<"O", "K">>, id), id, {"O", "K"}, may)
         /\ AnswerOf(Message(<<"E", "R">>, id), id, {"E", "R"}, may)
<1>1. "O" \in Chars /\ "K" \in Chars /\ "E" \in Chars /\ "R" \in Chars
  BY DEF Chars
<1> QED BY <1>1, TwoBytes

(* The prompt for data. *)
LEMMA PromptIs ==
  ASSUME NEW id \in Nat \ {0}, NEW may, <<">", "SP">> \in may
  PROVE  AnswerOf(Message(<<">", "SP">>, id), id, {">", "SP"}, may)
<1>1. ">" \in Chars /\ "SP" \in Chars
  BY DEF Chars
<1> QED BY <1>1, TwoBytes

(* The answers to a command. *)
LEMMA CmdAnswerIs ==
  ASSUME TypeInv, ~NoFirst, NEW ans \in CmdAnswers
  PROVE  AnswerOf(ans, First.id, Exp1(Cmds[First.id].data, context.is_cmd_ok),
                  May1(Cmds[First.id].data))
<1> DEFINE id == First.id
           data == Cmds[First.id].data
           exp == Exp1(data, context.is_cmd_ok)
           may == May1(data)
<1>1. id \in Nat \ {0} /\ data \in BOOLEAN
  BY FirstType, CmdTypes
<1>2. <<">", "SP">> \in may /\ {"E", "R"} \subseteq exp
  BY DEF May1, Exp1
<1>3. CASE ans = <<>>
  BY <1>3, NoAnswerIs
<1>4. CASE ans = Message(<<"E", "R">>, id)
  BY <1>1, <1>2, <1>4, OkIs, AnswerOfMore
<1>5. CASE data /\ ~context.is_cmd_ok /\ ans = Prompt
  <2>1. {">", "SP"} \subseteq exp
    BY <1>5 DEF Exp1
  <2>2. AnswerOf(ans, id, {">", "SP"}, may)
    BY <1>1, <1>2, <1>5, PromptIs DEF Prompt
  <2> QED BY <2>1, <2>2, AnswerOfMore
<1>6. CASE data /\ context.is_cmd_ok /\ ans = OK \o Prompt
  <2>1. {"O", "K"} \union {">", "SP"} \subseteq exp
    BY <1>6 DEF Exp1
  <2>2. AnswerOf(OK, id, {"O", "K"}, may) /\ AnswerOf(Prompt, id, {">", "SP"}, may)
    BY <1>1, <1>2, OkIs, PromptIs DEF OK, Prompt
  <2>3. \A a \in {"O", "K"}, b \in {">", "SP"} : a \in {"K", "R", ">", "SP"} => <<a, b>> \in may
    BY <1>6 DEF May1
  <2>4. OK # <<>>
    <3>1. <<"O", "K">> \in Seq(Chars) /\ Len(<<"O", "K">>) = 2
      BY DEF Chars
    <3>2. Len(OK) = 2
      BY <1>1, <3>1, MessageFacts DEF OK
    <3> QED BY <3>2
  <2>5. AnswerOf(OK \o Prompt, id, {"O", "K"} \union {">", "SP"}, may)
    <3> HIDE DEF may, id
    <3> QED BY <1>1, <2>2, <2>3, <2>4, TwoAnswers
  <2> QED BY <1>6, <2>1, <2>5, AnswerOfMore
<1>7. CASE ~data /\ ans = OK
  <2>1. {"O", "K"} \subseteq exp
    BY <1>7 DEF Exp1
  <2>2. AnswerOf(ans, id, {"O", "K"}, may)
    BY <1>1, <1>7, OkIs DEF OK
  <2> QED BY <2>1, <2>2, AnswerOfMore
<1>8. CASE ~data /\ ans = Signal
  <2>1. {"+", "C", "n", "O", "K"} \subseteq exp
    BY <1>8 DEF Exp1
  <2>2. AnswerOf(ans, id, {"+", "C", "n", "O", "K"}, may)
    BY <1>1, <1>8, SignalIs DEF Signal
  <2> QED BY <2>1, <2>2, AnswerOfMore
<1> QED BY <1>1, <1>3, <1>4, <1>5, <1>6, <1>7, <1>8 DEF CmdAnswers

(* The answers to its data. *)
LEMMA DataAnswerIs ==
  ASSUME TypeInv, ~NoFirst, NEW ans \in DataAnswers
  PROVE  AnswerOf(ans, First.id, {"O", "K", "E", "R"}, May2)
<1> DEFINE id == First.id
<1>1. id \in Nat \ {0}
  BY FirstType, CmdTypes
<1>2. {"O", "K"} \subseteq {"O", "K", "E", "R"} /\ {"E", "R"} \subseteq {"O", "K", "E", "R"}
  OBVIOUS
<1>3. CASE ans = <<>>
  BY <1>3, NoAnswerIs
<1>4. CASE ans = Message(<<"E", "R">>, id)
  BY <1>1, <1>2, <1>4, OkIs, AnswerOfMore
<1>5. CASE ans = OK
  <2>1. AnswerOf(ans, id, {"O", "K"}, May2)
    BY <1>1, <1>5, OkIs DEF OK
  <2> QED BY <1>2, <2>1, AnswerOfMore
<1> QED BY <1>3, <1>4, <1>5 DEF DataAnswers

-----------------------------------------------------------------------------
(* The inductive invariant: what holds of the stream S, n bytes of which   *)
(* are in the fifo, and of the context c while the module is in step.      *)

(* How much of a frame that is being taken in is still in the stream. *)
FrameLeft(c) == IF c.parsing_flag THEN c.buf_union.len - c.frame_sum ELSE 0

(* The first command is not out, or its time is over. *)
Quiet(c) == c.busy_flag = 0 \/ c.state \in {"WRITE", "WRITE_CMD"}

FirstOf(c) == c.write_list[1]
DataOf(c) == Cmds[FirstOf(c).id].data

(* Of the answers to the first command, what may still come. *)
ExpOf(c) ==
  IF Quiet(c) THEN {}
  ELSE IF c.state = "WRITE_DATA" THEN {"SP"}
  ELSE IF c.busy_flag = 2 THEN Exp2
  ELSE Exp1(DataOf(c), c.is_cmd_ok /\ FirstOf(c).del_cnt = 2)

MayOf(c) == IF c.busy_flag = 2 THEN May2 ELSE May1(DataOf(c))

StreamOk(S, c) ==
  /\ Whole(S, FrameLeft(c))
  /\ Answers(S, FrameLeft(c), FirstOf(c).id, ExpOf(c), MayOf(c))

(* With what was kept, the next bytes are the payload of a frame. *)
FrameOk(S, c) ==
  c.parsing_flag =>
    /\ c.state \in {"IDLE", "WRITE", "WRITE_CMD", "WRITE_CMD_WAIT", "READ",
                    "READ_IPD_DATA"}
    /\ FrameLeft(c) <= Len(S)
    /\ \E text \in Unsolicited :
         \E k \in 1..Len(text) :
           /\ text[k] = ":"
           /\ c.buf_union.buf \o SubSeq(S, 1, FrameLeft(c))
                = SubSeq(Message(text, 0), k + 1, Len(text))

(* The state says what stands in front. *)
FrontIs(S, n, char) == n >= 1 /\ S[1].of # 0 /\ S[1].c = char

PlaceOk(S, n, c) ==
  /\ c.state = "READ_OK" => FrontIs(S, n, "O") /\ n >= 2 /\ c.offset_len = 2
  /\ c.state = "READ_ERROR" => FrontIs(S, n, "E")
  /\ c.state = "READ_SEND" => FrontIs(S, n, ">") /\ c.offset_len \in 1..2
                              /\ c.offset_len <= n
  /\ c.state = "READ_SIGNAL" => FrontIs(S, n, "+")
  /\ c.state \in NoticeStates =>
       \E text \in Unsolicited : /\ Sits(S, 1, text)
                                 /\ Len(text) = c.offset_len /\ Len(text) <= n
  /\ c.state = "READ_IPD_DATA" /\ ~c.parsing_flag =>
       \E text \in Unsolicited : Sits(S, 1, text) /\ IsFrame(text)

(* Where the polling thread is in a pass. *)
PassOk(c, cl) ==
  /\ cl.at = "peek" => c.parsing_flag /\ c.state = "READ_IPD_DATA"
  /\ cl.at = "handle" => /\ c.state \in ReadStates /\ cl.len >= 1
                         /\ c.parsing_flag => c.state = "READ_IPD_DATA"

(* There is a command when one is being written, or is out. *)
ListOk(c) ==
  /\ c.state \in {"WRITE", "WRITE_CMD", "WRITE_DATA"} \/ c.busy_flag # 0 =>
       Len(c.write_list) >= 1
  /\ c.state = "WRITE_DATA" => c.busy_flag = 1
  /\ c.state = "WRITE_DATA" \/ c.busy_flag = 2 => DataOf(c)

(* An entry that was answered once, of two answers. *)
ResumedEntry(c, e) == e.del_cnt = 1 /\ Cmds[e.id].data /\ c.is_cmd_ok

(* Commands behind the first have not gone out. *)
Untried(c, e, sends) ==
  /\ sends[e.id] = 0
  /\ e.retry = Cmds[e.id].retry
  /\ ~ResumedEntry(c, e)
  /\ e.del_cnt = 2 => Cmds[e.id].data /\ c.is_cmd_ok

(* Sendings and tries left of the first; a try is taken off when the time   *)
(* of a sending is over.                                                   *)
TriesOfFirst(c, e, sends) ==
  /\ e.retry >= 1
  /\ e.del_cnt = 2 => Cmds[e.id].data /\ c.is_cmd_ok
  /\ sends[e.id] + e.retry <=
       Cmds[e.id].retry + (IF Quiet(c) /\ ~ResumedEntry(c, e) THEN 0 ELSE 1)

TriesOk(c, sends) ==
  /\ \A i \in 2..Len(c.write_list) : Untried(c, c.write_list[i], sends)
  /\ Len(c.write_list) >= 1 => TriesOfFirst(c, FirstOf(c), sends)

(* Nothing is there, nor peeked, when no byte was put. *)
UsedInv == /\ used \in [lowered : BOOLEAN, put : 0..2]
           /\ ~used.lowered /\ used.put = 0 => fifo = <<>> /\ call.at # "handle"

InStep ==
  /\ StreamOk(Stream, context) /\ FrameOk(Stream, context)
  /\ PlaceOk(Stream, Len(fifo), context) /\ PassOk(context, call)
  /\ ListOk(context) /\ TriesOk(context, hist.sends)

Live == call.at \in {"poll", "peek", "handle"}

IInv ==
  /\ TypeInv /\ UsedInv
  /\ Live /\ ~OutOfStep => InStep
  /\ FirstEntryNonEmpty
  /\ OutOfStep \/ (FramesWhole /\ SendsBounded)

-----------------------------------------------------------------------------
(* Every step keeps the types.                                             *)

(* A command goes out. *)
LEMMA WriteCmdType ==
  ASSUME TypeInv, WriteCmd
  PROVE  TypeInv'
<1>1. CASE NoFirst
  BY <1>1, WildType DEF WriteCmd
<1>2. CASE ~NoFirst
  <2>1. PICK answer \in CmdAnswers : wire' = wire \o answer
    BY <1>2 DEF WriteCmd, Sends
  <2>2. answer \in Seq(BYTE)
    BY <1>2, CmdAnswerIs DEF AnswerOf, IsAnswer
  <2>3. wire' \in Seq(BYTE)
    BY <2>1, <2>2, CatBytes DEF TypeInv
  <2>4. /\ context' = [context EXCEPT !.state = "WRITE_CMD_WAIT", !.busy_flag = 1]
        /\ age' = 0 /\ UNCHANGED <<fifo, call>> /\ call.at = "poll"
        /\ hist' = [hist EXCEPT !.sends[First.id] = @ + 1, !.off_step = @ \/ Resumed]
    BY <1>2 DEF WriteCmd, Polls
  <2>5. context' \in CONTEXT /\ SameFrame /\ context'.write_list = context.write_list
    <3>1. context \in CONTEXT /\ context.write_list \in Seq(ENTRY)
      BY DEF TypeInv, CONTEXT
    <3>2. context' = Assigned(context, "WRITE_CMD_WAIT", 1, context.write_list)
      BY <2>4, <3>1 DEF Assigned, CONTEXT
    <3>3. "WRITE_CMD_WAIT" \in States /\ 1 \in 0..2
      BY DEF States
    <3> QED BY <3>1, <3>2, <3>3, AssignedFacts DEF SameFrame
  <2>6. First.id \in 1..Len(Cmds) /\ First.id <= hist.written
    BY <1>2, FirstType
  <2>7. /\ hist \in HIST /\ hist.sends \in [1..Len(Cmds) -> Nat] /\ hist.off_step \in BOOLEAN
        /\ \A i \in 1..Len(Cmds) : i > hist.written => hist.sends[i] = 0
    BY DEF TypeInv, HIST
  <2>8. Resumed \in BOOLEAN
    BY <2>6, CmdTypes DEF Resumed, TypeInv, CONTEXT
  <2>9. /\ hist' \in HIST /\ hist'.written = hist.written
        /\ \A i \in 1..Len(Cmds) : i # First.id => hist'.sends[i] = hist.sends[i]
    <3> DEFINE new == [hist.sends EXCEPT ![First.id] = @ + 1]
    <3>1. hist' = [hist EXCEPT !.sends = new, !.off_step = @ \/ Resumed]
      BY <2>4
    <3>2. new \in [1..Len(Cmds) -> Nat]
          /\ \A i \in 1..Len(Cmds) : i # First.id => new[i] = hist.sends[i]
      BY <2>6, <2>7
    <3> HIDE DEF new
    <3>3. hist' \in HIST /\ hist'.written = hist.written /\ hist'.sends = new
      BY <2>7, <2>8, <3>1, <3>2 DEF HIST
    <3> QED BY <3>2, <3>3
  <2>10. \A i \in 1..Len(Cmds) : i > hist'.written => hist'.sends[i] = 0
    <3>1. hist.written \in Nat /\ Len(Cmds) \in Nat
      BY <2>7, CmdTypes DEF HIST
    <3> QED BY <2>6, <2>7, <2>9, <3>1
  <2>11. GoodList(context'.write_list, hist'.written)
    BY <2>5, <2>9 DEF TypeInv
  <2>12. call' \in CALL /\ call'.len <= Len(fifo) /\ call'.at # "handle"
    BY <2>4 DEF TypeInv
  <2> QED BY <2>3, <2>4, <2>5, <2>9, <2>10, <2>11, <2>12, StepType
<1> QED BY <1>1, <1>2

(* Its data goes out. *)
LEMMA WriteDataType ==
  ASSUME TypeInv, WriteData
  PROVE  TypeInv'
<1>1. CASE NoFirst
  BY <1>1, WildType DEF WriteData
<1>2. CASE ~NoFirst
  <2>1. PICK answer \in DataAnswers : wire' = wire \o answer
    <3>1. <<>> \in DataAnswers
      BY DEF DataAnswers
    <3> QED BY <1>2, <3>1 DEF WriteData, Sends
  <2>2. answer \in Seq(BYTE)
    BY <1>2, DataAnswerIs DEF AnswerOf, IsAnswer
  <2>3. wire' \in Seq(BYTE)
    BY <2>1, <2>2, CatBytes DEF TypeInv
  <2>4. /\ context' = [context EXCEPT !.state = "READ", !.busy_flag = 2]
        /\ age' = 0 /\ UNCHANGED <<fifo, call, hist>> /\ call.at = "poll"
    BY <1>2 DEF WriteData, Polls
  <2>5. context' \in CONTEXT /\ SameFrame /\ context'.write_list = context.write_list
    <3>1. context \in CONTEXT /\ context.write_list \in Seq(ENTRY)
      BY DEF TypeInv, CONTEXT
    <3>2. context' = Assigned(context, "READ", 2, context.write_list)
      BY <2>4, <3>1 DEF Assigned, CONTEXT
    <3>3. "READ" \in States /\ 2 \in 0..2
      BY DEF States, ReadStates
    <3> QED BY <3>1, <3>2, <3>3, AssignedFacts DEF SameFrame
  <2>6. /\ call' \in CALL /\ call'.len <= Len(fifo) /\ call'.at # "handle"
        /\ hist' \in HIST /\ \A i \in 1..Len(Cmds) : i > hist'.written => hist'.sends[i] = 0
        /\ GoodList(context'.write_list, hist'.written)
    BY <2>4, <2>5 DEF TypeInv
  <2> QED BY <2>3, <2>4, <2>5, <2>6, StepType
<1> QED BY <1>1, <1>2

(* What is peeked is there, and belongs to the frame that is taken in. *)
LEMMA PeekType ==
  ASSUME TypeInv, Peek
  PROVE  TypeInv'
<1> DEFINE missing == context.buf_union.len - context.frame_sum
           factor  == IF context.buf_union = NoBuf \/ missing > FACTOR_LEN
                      THEN FACTOR_LEN ELSE missing
           len     == IF factor < Len(fifo) THEN factor ELSE Len(fifo)
<1>1. /\ UNCHANGED <<fifo, age, wire, hist>>
      /\ \/ len = 0 /\ GoTo("IDLE") /\ call' = At("poll")
         \/ /\ len # 0 /\ call' = [at |-> "handle", len |-> len]
            /\ IF context.parsing_flag THEN GoTo("READ_IPD_DATA") ELSE UNCHANGED context
  BY DEF Peek
<1>2. /\ missing \in Int /\ FACTOR_LEN \in Nat \ {0} /\ Len(fifo) \in Nat
      /\ context.buf_union # NoBuf => missing > 0
      /\ context.parsing_flag <=> context.buf_union # NoBuf
  BY AtAssumption DEF TypeInv, GoodFrame, CONTEXT, BUFFER
<1>3. /\ len \in Nat /\ len <= Len(fifo) /\ (context.parsing_flag => len <= missing)
  BY <1>2
<1> HIDE DEF missing, factor, len
<1>4. CASE len = 0
  <2>1. context' = [context EXCEPT !.state = "IDLE"] /\ call' = At("poll")
    BY <1>1, <1>4 DEF GoTo
  <2>2. context' \in CONTEXT /\ SameFrame /\ context'.write_list = context.write_list
    BY <2>1 DEF TypeInv, CONTEXT, SameFrame, States
  <2>3. call' \in CALL /\ call'.len <= Len(fifo) /\ call'.at # "handle"
    BY <1>2, <2>1, AtType
  <2>4. age' \in 0..2
    BY <1>1 DEF TypeInv
  <2> QED BY <1>1, <2>2, <2>3, <2>4, StateType
<1>5. CASE len # 0
  <2>1. /\ call' = [at |-> "handle", len |-> len]
        /\ context' = context \/ context' = [context EXCEPT !.state = "READ_IPD_DATA"]
    BY <1>1, <1>5 DEF GoTo
  <2>2. call' \in CALL /\ call'.len = len /\ call'.at = "handle"
    BY <1>3, <2>1 DEF CALL
  <2>3. context' \in CONTEXT /\ SameFrame /\ context'.write_list = context.write_list
    BY <2>1 DEF TypeInv, CONTEXT, SameFrame, States, ReadStates
  <2>4. GoodFrame(context') /\ GoodList(context'.write_list, hist'.written)
    BY <1>1, <2>3 DEF TypeInv, GoodFrame, SameFrame
  <2>5. Left' = missing
    BY <2>3 DEF Left, SameFrame, missing
  <2>6. call'.len <= Len(fifo') /\ (context'.parsing_flag => call'.len <= Left')
    BY <1>1, <1>3, <2>2, <2>3, <2>5 DEF SameFrame
  <2>7. context'.parsing_flag => context'.state = "READ_IPD_DATA"
    BY <1>1, <1>5, <2>3 DEF GoTo, SameFrame, TypeInv, CONTEXT
  <2> QED BY <1>1, <2>2, <2>3, <2>4, <2>6, <2>7 DEF TypeInv
<1> QED BY <1>4, <1>5

(* A pass sets the state, the flag, the list and what is to be dropped. *)
PassTo(c, s, b, list, o) ==
  [c EXCEPT !.state = s, !.busy_flag = b, !.write_list = list, !.offset_len = o]

(* The other fields stay. *)
LEMMA PassToFacts ==
  ASSUME NEW c \in CONTEXT, NEW s \in States, NEW b \in 0..2,
         NEW list \in Seq(ENTRY), NEW o \in Nat
  PROVE  /\ PassTo(c, s, b, list, o) \in CONTEXT
         /\ PassTo(c, s, b, list, o).state = s
         /\ PassTo(c, s, b, list, o).busy_flag = b
         /\ PassTo(c, s, b, list, o).write_list = list
         /\ PassTo(c, s, b, list, o).offset_len = o
         /\ PassTo(c, s, b, list, o).buf_union = c.buf_union
         /\ PassTo(c, s, b, list, o).frame_sum = c.frame_sum
         /\ PassTo(c, s, b, list, o).parsing_flag = c.parsing_flag
         /\ PassTo(c, s, b, list, o).is_cmd_ok = c.is_cmd_ok
         /\ GoodFrame(c) => GoodFrame(PassTo(c, s, b, list, o))
  BY DEF CONTEXT, PassTo, GoodFrame

(* Such a pass keeps the types. *)
LEMMA PassToType ==
  ASSUME TypeInv, NEW s \in States, NEW b \in 0..2, NEW list \in Seq(ENTRY),
         GoodList(list, hist.written), NEW o \in Nat,
         Update(PassTo(context, s, b, list, o)) \/ Keep(PassTo(context, s, b, list, o)),
         UNCHANGED <<age, wire>>,
         hist' \in HIST, hist'.written = hist.written, hist'.sends = hist.sends
  PROVE  TypeInv'
<1> DEFINE c == PassTo(context, s, b, list, o)
<1>1. context \in CONTEXT /\ GoodFrame(context)
  BY DEF TypeInv
<1>2. c \in CONTEXT /\ GoodFrame(c) /\ c.write_list = list
  BY <1>1 DEF PassTo, CONTEXT, GoodFrame
<1> HIDE DEF c
<1>3. Update(c) \/ Keep(c)
  BY DEF c
<1> QED BY <1>2, <1>3, PassType

(* The steps of a pass in which nothing but state and bytes change. *)
LEMMA SameType ==
  ASSUME TypeInv, NEW s \in States, NEW o \in Nat, UNCHANGED <<age, wire>>,
         LET c == PassTo(context, s, context.busy_flag, context.write_list, o)
         IN  Update(c) \/ Keep(c),
         \E b \in BOOLEAN : hist' = [hist EXCEPT !.off_step = b]
  PROVE  TypeInv'
<1>1. hist' \in HIST /\ hist'.written = hist.written /\ hist'.sends = hist.sends
  BY Fields DEF HIST
<1>2. /\ context.busy_flag \in 0..2 /\ context.write_list \in Seq(ENTRY)
      /\ GoodList(context.write_list, hist.written)
  BY Fields
<1> QED BY <1>1, <1>2, PassToType

(* An unchanged hist is such a one. *)
LEMMA SameHist ==
  ASSUME TypeInv, UNCHANGED hist
  PROVE  \E b \in BOOLEAN : hist' = [hist EXCEPT !.off_step = b]
<1>1. hist \in HIST /\ hist.off_step \in BOOLEAN
  BY Fields
<1>2. hist = [hist EXCEPT !.off_step = hist.off_step]
  BY <1>1 DEF HIST
<1> QED BY <1>1, <1>2

(* Bytes that begin no text are dropped. *)
LEMMA ReadType ==
  ASSUME TypeInv, Read
  PROVE  TypeInv'
<1> DEFINE k == FirstChar(Buf)
           s == IF k = 0 THEN "IDLE" ELSE "READ_HEAD"
           o == IF k = 0 THEN Len(Buf) ELSE k - 1
<1>1. UNCHANGED <<age, wire, hist>>
      /\ Update([context EXCEPT !.state = s, !.offset_len = o])
  BY DEF Read
<1>2. Buf \in Seq(BYTE) /\ Len(Buf) \in Nat /\ k \in 0..Len(Buf)
  BY BufType, FirstCharFacts
<1> HIDE DEF k
<1>3. s \in States /\ o \in Nat
  BY <1>2 DEF States, ReadStates
<1> HIDE DEF s, o
<1>4. Update(PassTo(context, s, context.busy_flag, context.write_list, o))
  <2>1. [context EXCEPT !.state = s, !.offset_len = o]
          = PassTo(context, s, context.busy_flag, context.write_list, o)
    BY Fields DEF CONTEXT, PassTo
  <2> QED BY <1>1, <2>1
<1> QED BY <1>1, <1>3, <1>4, SameHist, SameType

(* A text is looked for at the front. *)
LEMMA ReadHeadType ==
  ASSUME TypeInv, ReadHead
  PROVE  TypeInv'
<1>1. UNCHANGED <<age, wire>>
  BY DEF ReadHead
<1>2. context.state \in States /\ context.offset_len \in Nat /\ hist.off_step \in BOOLEAN
  BY Fields
<1> DEFINE k == Caught(Buf)
<1>3. Buf \in Seq(BYTE) /\ k \in 0..Len(CatchStr)
  BY BufType, CaughtFacts
<1>4. k # 0 => CatchStr[k].state \in States /\ Len(Catch(k)) \in Nat
  <2> HIDE DEF k
  <2>1. k # 0 => k \in 1..Len(CatchStr)
    BY <1>3, CatchTypes
  <2> QED BY <2>1, CatchTypes DEF States
<1>5. "READ_SEND" \in States /\ "IDLE" \in States /\ 1 \in Nat
  BY DEF States, ReadStates
<1> DEFINE to(s, o) == PassTo(context, s, context.busy_flag, context.write_list, o)
<1>6. \/ Keep([context EXCEPT !.state = "READ_SEND", !.offset_len = 1]) /\ UNCHANGED hist
      \/ /\ Update([context EXCEPT !.state = "IDLE", !.offset_len = 1])
         /\ hist' = [hist EXCEPT !.off_step =
                @ \/ (Len(Buf) = 1 /\ Buf[1].of = 0 /\ Buf[1].rest > 0)]
      \/ Keep(context) /\ UNCHANGED hist
      \/ /\ Keep([context EXCEPT !.state = CatchStr[k].state, !.offset_len = Len(Catch(k))])
         /\ k # 0 /\ UNCHANGED hist
  BY DEF ReadHead
<1> HIDE DEF k
<1>7. CASE Keep([context EXCEPT !.state = "READ_SEND", !.offset_len = 1]) /\ UNCHANGED hist
  <2>0. [context EXCEPT !.state = "READ_SEND", !.offset_len = 1] = to("READ_SEND", 1)
    BY Fields DEF CONTEXT, PassTo
  <2>1. Keep(to("READ_SEND", 1))
    BY <1>7, <2>0
  <2> QED BY <1>1, <1>5, <1>7, <2>1, SameHist, SameType
<1>8. CASE /\ Update([context EXCEPT !.state = "IDLE", !.offset_len = 1])
           /\ hist' = [hist EXCEPT !.off_step =
                @ \/ (Len(Buf) = 1 /\ Buf[1].of = 0 /\ Buf[1].rest > 0)]
  <2>0. [context EXCEPT !.state = "IDLE", !.offset_len = 1] = to("IDLE", 1)
    BY Fields DEF CONTEXT, PassTo
  <2>1. Update(to("IDLE", 1))
    BY <1>8, <2>0
  <2>2. \E b \in BOOLEAN : hist' = [hist EXCEPT !.off_step = b]
    <3> DEFINE b == hist.off_step \/ (Len(Buf) = 1 /\ Buf[1].of = 0 /\ Buf[1].rest > 0)
    <3>1. b \in BOOLEAN /\ hist' = [hist EXCEPT !.off_step = b]
      BY <1>2, <1>8
    <3> QED BY <3>1
  <2> QED BY <1>1, <1>5, <2>1, <2>2, SameType
<1>9. CASE Keep(context) /\ UNCHANGED hist
  <2>0. context = to(context.state, context.offset_len)
    BY Fields DEF CONTEXT, PassTo
  <2>1. Keep(to(context.state, context.offset_len))
    BY <1>9, <2>0
  <2> QED BY <1>1, <1>2, <1>9, <2>1, SameHist, SameType
<1>10. CASE /\ Keep([context EXCEPT !.state = CatchStr[k].state, !.offset_len = Len(Catch(k))])
            /\ k # 0 /\ UNCHANGED hist
  <2>0. [context EXCEPT !.state = CatchStr[k].state, !.offset_len = Len(Catch(k))]
          = to(CatchStr[k].state, Len(Catch(k)))
    BY Fields DEF CONTEXT, PassTo
  <2>1. Keep(to(CatchStr[k].state, Len(Catch(k))))
    BY <1>10, <2>0
  <2> QED BY <1>1, <1>4, <1>10, <2>1, SameHist, SameType
<1> QED BY <1>6, <1>7, <1>8, <1>9, <1>10

(* A text is taken off. *)
LEMMA ReadTextType ==
  ASSUME TypeInv, ReadText
  PROVE  TypeInv'
<1>1. UNCHANGED <<age, wire, hist>>
      /\ \E s \in States : Update([context EXCEPT !.state = s])
  BY DEF ReadText, States, ReadStates
<1>2. PICK s \in States : Update([context EXCEPT !.state = s])
  BY <1>1
<1>3. Update(PassTo(context, s, context.busy_flag, context.write_list, context.offset_len))
  <2>1. [context EXCEPT !.state = s]
          = PassTo(context, s, context.busy_flag, context.write_list, context.offset_len)
    BY Fields DEF CONTEXT, PassTo
  <2> QED BY <1>2, <2>1
<1>4. context.offset_len \in Nat
  BY Fields
<1> QED BY <1>1, <1>3, <1>4, SameHist, SameType

(* The least member of a set of places. *)
LEMMA FirstPlace ==
  ASSUME NEW ends \in SUBSET Nat, ends # {}
  PROVE  LET k == CHOOSE k \in ends : \A m \in ends : k <= m
         IN  k \in ends /\ \A m \in ends : k <= m
<1>1. PICK n \in ends : TRUE
  OBVIOUS
<1>2. \E m \in ends : \A k \in ends : m <= k
  BY Least
<1> QED BY <1>2, Zenon

SignalEnds(buf) == {k \in 2..(Len(buf) - 1) : buf[k].c = "O" /\ buf[k + 1].c = "K"}
SignalEnd(buf) == CHOOSE k \in SignalEnds(buf) : \A m \in SignalEnds(buf) : k <= m

(* The first OK in what was peeked. *)
LEMMA SignalEndIs ==
  ASSUME NEW buf \in Seq(BYTE), SignalEnds(buf) # {}
  PROVE  /\ SignalEnd(buf) \in 2..(Len(buf) - 1) /\ buf[SignalEnd(buf)].c = "O"
         /\ \A m \in SignalEnds(buf) : SignalEnd(buf) <= m
<1>1. SignalEnds(buf) \in SUBSET Nat /\ \A k \in SignalEnds(buf) :
        k \in 2..(Len(buf) - 1) /\ buf[k].c = "O"
  BY DEF SignalEnds
<1>2. SignalEnd(buf) \in SignalEnds(buf) /\ \A m \in SignalEnds(buf) : SignalEnd(buf) <= m
  BY <1>1, FirstPlace DEF SignalEnd
<1> QED BY <1>1, <1>2

(* A +CSQ answer is taken off up to its OK. *)
LEMMA ReadSignalType ==
  ASSUME TypeInv, ReadSignal
  PROVE  TypeInv'
<1>1. UNCHANGED <<age, wire, hist>>
      /\ \/ /\ SignalEnds(Buf) # {}
            /\ Update([context EXCEPT !.state = "IDLE", !.offset_len = SignalEnd(Buf) - 1])
         \/ Keep(context)
  BY DEF ReadSignal, SignalEnds, SignalEnd
<1>2. CASE /\ SignalEnds(Buf) # {}
           /\ Update([context EXCEPT !.state = "IDLE", !.offset_len = SignalEnd(Buf) - 1])
  <2> DEFINE o == SignalEnd(Buf) - 1
  <2>1. o \in Nat
    BY <1>2, BufType, SignalEndIs
  <2> HIDE DEF o
  <2>2. Update([context EXCEPT !.state = "IDLE", !.offset_len = o])
    BY <1>2 DEF o
  <2>3. Update(PassTo(context, "IDLE", context.busy_flag, context.write_list, o))
    <3>1. [context EXCEPT !.state = "IDLE", !.offset_len = o]
            = PassTo(context, "IDLE", context.busy_flag, context.write_list, o)
      BY Fields DEF CONTEXT, PassTo
    <3> QED BY <2>2, <3>1
  <2>4. "IDLE" \in States
    BY DEF States
  <2> QED BY <1>1, <2>1, <2>3, <2>4, SameHist, SameType
<1>3. CASE Keep(context)
  <2>1. Keep(PassTo(context, context.state, context.busy_flag, context.write_list, context.offset_len))
    <3>1. context = PassTo(context, context.state, context.busy_flag,
                           context.write_list, context.offset_len)
      BY Fields DEF CONTEXT, PassTo
    <3> QED BY <1>3, <3>1
  <2>2. context.state \in States /\ context.offset_len \in Nat
    BY Fields
  <2> QED BY <1>1, <2>1, <2>2, SameHist, SameType
<1> QED BY <1>1, <1>2, <1>3

(* CLOSED: the pass ends with a call of the client. *)
LEMMA ReadClosedType ==
  ASSUME TypeInv, ReadClosed
  PROVE  TypeInv'
<1>1. /\ context' = [context EXCEPT !.parsing_flag = FALSE, !.offset_len = 0]
      /\ fifo' = Drop(fifo, context.offset_len)
      /\ call' = At("closed") /\ UNCHANGED <<age, wire, hist>>
  BY DEF ReadClosed, Drop
<1>2. ~context.parsing_flag
  BY DEF ReadClosed, Handles, TypeInv
<1>3. /\ context' \in CONTEXT /\ context'.write_list = context.write_list
      /\ context'.buf_union = context.buf_union /\ context'.frame_sum = context.frame_sum
      /\ context'.parsing_flag = context.parsing_flag
  BY <1>1, <1>2, Fields DEF CONTEXT
<1>4. GoodFrame(context') /\ GoodList(context'.write_list, hist'.written)
  BY <1>1, <1>3, Fields DEF GoodFrame
<1>5. fifo' \in Seq(BYTE) /\ Len(fifo') <= Len(fifo) /\ Len(fifo') \in Nat /\ Len(fifo) \in Nat
  <2>1. fifo \in Seq(BYTE) /\ context.offset_len \in Nat
    BY Fields DEF TypeInv
  <2> QED BY <1>1, <2>1, DropType
<1>6. Len(fifo') <= FifoLen
  BY <1>5, AtAssumption DEF TypeInv
<1>7. call' \in CALL /\ call'.at = "closed" /\ call'.len <= Len(fifo')
  BY <1>1, <1>5, AtType
<1>8. /\ wire' \in Seq(BYTE) /\ age' \in 0..2 /\ hist' \in HIST
      /\ \A i \in 1..Len(Cmds) : i > hist'.written => hist'.sends[i] = 0
  BY <1>1, SMTT(30) DEF TypeInv
<1> QED BY <1>3, <1>4, <1>5, <1>6, <1>7, <1>8 DEF TypeInv

(* An entry with a try, or an answer to come, less. *)
LEMMA EntryTypes ==
  ASSUME NEW e \in ENTRY
  PROVE  /\ e.id \in 1..Len(Cmds) /\ e.retry \in 0..255 /\ e.del_cnt \in 1..2
         /\ \A r \in 0..255 : /\ [e EXCEPT !.retry = r] \in ENTRY
                              /\ [e EXCEPT !.retry = r].id = e.id
                              /\ [e EXCEPT !.retry = r].del_cnt = e.del_cnt
                              /\ [e EXCEPT !.retry = r].retry = r
         /\ e.del_cnt # 1 => /\ [e EXCEPT !.del_cnt = @ - 1] \in ENTRY
                             /\ [e EXCEPT !.del_cnt = @ - 1].id = e.id
                             /\ [e EXCEPT !.del_cnt = @ - 1].del_cnt = 1
                             /\ [e EXCEPT !.del_cnt = @ - 1].retry = e.retry
<1>1. e.id \in 1..Len(Cmds) /\ e.retry \in 0..255 /\ e.del_cnt \in 1..2
  BY DEF ENTRY
<1>2. \A r \in 0..255 : /\ [e EXCEPT !.retry = r] \in ENTRY
                        /\ [e EXCEPT !.retry = r].id = e.id
                        /\ [e EXCEPT !.retry = r].del_cnt = e.del_cnt
                        /\ [e EXCEPT !.retry = r].retry = r
  BY DEF ENTRY
<1>3. ASSUME e.del_cnt # 1
      PROVE  /\ [e EXCEPT !.del_cnt = @ - 1] \in ENTRY
             /\ [e EXCEPT !.del_cnt = @ - 1].id = e.id
             /\ [e EXCEPT !.del_cnt = @ - 1].del_cnt = 1
             /\ [e EXCEPT !.del_cnt = @ - 1].retry = e.retry
  <2>1. e.del_cnt - 1 = 1 /\ 1 \in 1..2
    BY <1>1, <1>3
  <2> QED BY <2>1 DEF ENTRY
<1> QED BY <1>1, <1>2, <1>3

(* The list after an ERROR: the first command has a try less, or is gone. *)
ErrorList == IF Tried = 0 THEN Tail(context.write_list)
             ELSE [context.write_list EXCEPT ![1] = [@ EXCEPT !.retry = Tried]]

(* It is a list in order still. *)
LEMMA ErrorListType ==
  ASSUME TypeInv, ~NoFirst
  PROVE  ErrorList \in Seq(ENTRY) /\ GoodList(ErrorList, hist.written)
<1> DEFINE list == context.write_list
<1>1. First \in ENTRY /\ First = list[1] /\ Len(list) >= 1
  BY FirstType
<1>2. list \in Seq(ENTRY) /\ GoodList(list, hist.written) /\ hist.written \in Nat /\ Tried \in 0..255
  BY Fields, TriedFacts
<1> HIDE DEF list
<1>3. Tail(list) \in Seq(ENTRY) /\ GoodList(Tail(list), hist.written)
  BY <1>1, <1>2, TailType
<1> DEFINE e == [list[1] EXCEPT !.retry = Tried]
<1>4. e \in ENTRY /\ e.id = list[1].id
  BY <1>1, <1>2 DEF ENTRY
<1>5. [list EXCEPT ![1] = e] \in Seq(ENTRY) /\ GoodList([list EXCEPT ![1] = e], hist.written)
  <2> HIDE DEF e
  <2> QED BY <1>1, <1>2, <1>4, SetFirstType
<1> QED BY <1>3, <1>5 DEF ErrorList, list

(* An ERROR: the fifo is emptied. *)
LEMMA ReadErrorType ==
  ASSUME TypeInv, ReadError
  PROVE  TypeInv'
<1>1. CASE NoFirst
  BY <1>1, WildType DEF ReadError
<1>2. CASE ~NoFirst
  <2>1. /\ fifo' = <<>> /\ UNCHANGED <<age, wire>>
        /\ context' = [context EXCEPT !.state = "WRITE", !.write_list = ErrorList]
        /\ call' = At("closed") \/ call' = At("poll")
        /\ hist' = [hist EXCEPT !.off_step = @ \/ InMessage]
    BY <1>2 DEF ReadError, ErrorList
  <2>2. ErrorList \in Seq(ENTRY) /\ GoodList(ErrorList, hist.written)
    BY <1>2, ErrorListType
  <2>3. /\ context' \in CONTEXT /\ context'.write_list = ErrorList /\ SameFrame
    <3>1. context' = Assigned(context, "WRITE", context.busy_flag, ErrorList)
      BY <2>1, Fields DEF Assigned, CONTEXT
    <3>2. "WRITE" \in States /\ context.busy_flag \in 0..2 /\ context \in CONTEXT
      BY Fields DEF States
    <3> QED BY <2>2, <3>1, <3>2, AssignedFacts DEF SameFrame
  <2>4. hist' \in HIST /\ hist'.written = hist.written /\ hist'.sends = hist.sends
    <3>1. InMessage \in BOOLEAN
      BY DEF InMessage
    <3> QED BY <2>1, <3>1, Fields DEF HIST
  <2>5. GoodFrame(context') /\ GoodList(context'.write_list, hist'.written)
    BY <2>2, <2>3, <2>4, Fields DEF GoodFrame, SameFrame
  <2>6. fifo' \in Seq(BYTE) /\ Len(fifo') = 0 /\ FifoLen \in Nat
    BY <2>1, AtAssumption
  <2>7. call' \in CALL /\ call'.at # "handle" /\ call'.len = 0
    BY <2>1, AtType
  <2>8. /\ wire' \in Seq(BYTE) /\ age' \in 0..2
        /\ \A i \in 1..Len(Cmds) : i > hist'.written => hist'.sends[i] = 0
    BY <2>1, <2>4 DEF TypeInv
  <2> QED BY <2>3, <2>4, <2>5, <2>6, <2>7, <2>8 DEF TypeInv
<1> QED BY <1>1, <1>2

(* The list after an OK, and the flag. *)
OkList == IF First.del_cnt = 1 THEN Tail(context.write_list)
          ELSE [context.write_list EXCEPT ![1].del_cnt = First.del_cnt - 1]
OkFlag == IF context.busy_flag = 2 \/ ~Cmds[First.id].data THEN 0 ELSE context.busy_flag

(* It is a list in order still. *)
LEMMA OkListType ==
  ASSUME TypeInv, ~NoFirst
  PROVE  /\ OkList \in Seq(ENTRY) /\ GoodList(OkList, hist.written) /\ OkFlag \in 0..2
         /\ Counted = PassTo(context, "IDLE", OkFlag, OkList, context.offset_len)
<1> DEFINE list == context.write_list
           e == [list[1] EXCEPT !.del_cnt = First.del_cnt - 1]
<1>1. First \in ENTRY /\ First = list[1] /\ Len(list) >= 1
  BY FirstType
<1>2. list \in Seq(ENTRY) /\ GoodList(list, hist.written) /\ hist.written \in Nat
  BY Fields
<1>3. ASSUME First.del_cnt = 1
      PROVE  OkList \in Seq(ENTRY) /\ GoodList(OkList, hist.written)
  <2>1. OkList = Tail(list)
    BY <1>3 DEF OkList
  <2> HIDE DEF list
  <2> QED BY <1>1, <1>2, <2>1, TailType
<1>4. ASSUME First.del_cnt # 1
      PROVE  OkList \in Seq(ENTRY) /\ GoodList(OkList, hist.written)
  <2>1. OkList = [list EXCEPT ![1] = e]
    BY <1>4 DEF OkList
  <2> HIDE DEF list
  <2>2. list[1] \in ENTRY /\ list[1].del_cnt \in 1..2 /\ list[1].del_cnt # 1
    BY <1>1, <1>4 DEF ENTRY
  <2>3. First.del_cnt - 1 \in 1..2
    BY <1>1, <2>2
  <2>4. e \in ENTRY /\ e.id = list[1].id
    BY <2>2, <2>3 DEF ENTRY
  <2> HIDE DEF e
  <2> QED BY <1>1, <1>2, <2>1, <2>4, SetFirstType
<1>5. OkFlag \in 0..2
  BY Fields DEF OkFlag
<1>6. Counted = PassTo(context, "IDLE", OkFlag, OkList, context.offset_len)
  <2>1. Counted = Assigned(context, "IDLE", OkFlag, OkList)
    BY DEF Counted, Assigned, OkFlag, OkList
  <2>2. context \in CONTEXT
    BY Fields
  <2> QED BY <2>1, <2>2 DEF Assigned, PassTo, CONTEXT
<1> QED BY <1>3, <1>4, <1>5, <1>6

(* An OK is counted. *)
LEMMA ReadOkType ==
  ASSUME TypeInv, ReadOk
  PROVE  TypeInv'
<1>1. CASE NoFirst
  BY <1>1, WildType DEF ReadOk
<1>2. CASE ~NoFirst
  <2>1. Update(Counted) /\ UNCHANGED <<age, wire, hist>>
    BY <1>2 DEF ReadOk
  <2>2. /\ OkList \in Seq(ENTRY) /\ GoodList(OkList, hist.written) /\ OkFlag \in 0..2
        /\ Counted = PassTo(context, "IDLE", OkFlag, OkList, context.offset_len)
    BY <1>2, OkListType
  <2>3. "IDLE" \in States /\ context.offset_len \in Nat /\ hist \in HIST
    BY Fields DEF States
  <2> QED BY <2>1, <2>2, <2>3, PassToType
<1> QED BY <1>1, <1>2

(* Everything is as in the beginning. *)
LEMMA CleanType ==
  ASSUME TypeInv, context' = NewContext(context.is_cmd_ok), fifo' = <<>>,
         wire' \in Seq(BYTE), age' \in 0..2,
         call' \in {At("poll"), At("gone")},
         \E b, d \in BOOLEAN : hist' = [hist EXCEPT !.late = b, !.off_step = d]
  PROVE  TypeInv'
<1>1. hist' \in HIST /\ hist'.written = hist.written /\ hist'.sends = hist.sends /\ hist'.written \in Nat
  BY Fields DEF HIST
<1>2. /\ context' \in CONTEXT /\ GoodFrame(context') /\ GoodList(context'.write_list, hist'.written)
  BY <1>1, Fields, NewContextType
<1>3. call' \in CALL /\ call'.at # "handle" /\ call'.len = 0
  BY AtType
<1>4. fifo' \in Seq(BYTE) /\ Len(fifo') = 0 /\ FifoLen \in Nat
  BY AtAssumption
<1>5. \A i \in 1..Len(Cmds) : i > hist'.written => hist'.sends[i] = 0
  BY <1>1 DEF TypeInv
<1> QED BY <1>1, <1>2, <1>3, <1>4, <1>5 DEF TypeInv

(* The steps that clean the context. *)
LEMMA CleanTypes ==
  ASSUME TypeInv, HyAtUtilsClean \/ HyAtUtilsDestroy \/ IpdBadHeader
  PROVE  TypeInv'
<1>0. wire \in Seq(BYTE) /\ age \in 0..2 /\ 2 \in 0..2 /\ <<>> \in Seq(BYTE)
  BY DEF TypeInv
<1>1. CASE HyAtUtilsClean
  <2> DEFINE b == hist.late \/ wire # <<>>
             d == hist.off_step \/ InMessage \/ (fifo = <<>> /\ context.parsing_flag)
  <2>1. /\ context' = NewContext(context.is_cmd_ok) /\ fifo' = <<>> /\ age' = 2
        /\ call' = At("poll") /\ UNCHANGED wire
        /\ hist' = [hist EXCEPT !.late = b, !.off_step = d]
    BY <1>1 DEF HyAtUtilsClean, DestroyClean
  <2>2. b \in BOOLEAN /\ d \in BOOLEAN
    BY Fields
  <2> HIDE DEF b, d
  <2> QED BY <1>0, <2>1, <2>2, CleanType
<1>2. CASE HyAtUtilsDestroy
  <2>1. /\ context' = NewContext(context.is_cmd_ok) /\ fifo' = <<>>
        /\ call' = At("gone") /\ UNCHANGED <<age, wire, hist>>
    BY <1>2 DEF HyAtUtilsDestroy
  <2>2. hist = [hist EXCEPT !.late = hist.late, !.off_step = hist.off_step]
    BY Fields DEF HIST
  <2>3. hist.late \in BOOLEAN /\ hist.off_step \in BOOLEAN
    BY Fields
  <2> QED BY <1>0, <2>1, <2>2, <2>3, CleanType
<1>3. CASE IpdBadHeader
  <2>1. /\ context' = NewContext(context.is_cmd_ok) /\ fifo' = <<>> /\ age' = 2
        /\ call' = At("poll") /\ UNCHANGED wire
        /\ hist' = [hist EXCEPT !.off_step = TRUE]
    BY <1>3 DEF IpdBadHeader, DestroyClean
  <2>2. hist' = [hist EXCEPT !.late = hist.late, !.off_step = TRUE]
    BY <2>1, Fields DEF HIST
  <2>3. hist.late \in BOOLEAN
    BY Fields
  <2> QED BY <1>0, <2>1, <2>2, <2>3, CleanType
<1> QED BY <1>1, <1>2, <1>3

(* The steps of the client that leave the fifo and the frame alone. *)
LEMMA ClientType ==
  ASSUME TypeInv, HyAtUtilsWriteCmd \/ IgnoreClosed
  PROVE  TypeInv'
<1>1. CASE IgnoreClosed
  <2>1. /\ call' = At("poll") /\ hist' = [hist EXCEPT !.off_step = TRUE]
        /\ UNCHANGED <<context, fifo, age, wire>>
    BY <1>1 DEF IgnoreClosed
  <2>2. hist' \in HIST /\ hist'.written = hist.written /\ hist'.sends = hist.sends
    BY <2>1, Fields DEF HIST
  <2>3. call' \in CALL /\ call'.at # "handle" /\ call'.len = 0
    BY <2>1, AtType
  <2> QED BY <2>1, <2>2, <2>3 DEF TypeInv
<1>2. CASE HyAtUtilsWriteCmd
  <2> DEFINE e == _at_cmd_list_create(hist.written + 1)
             list == context.write_list
  <2>1. /\ call.at = "poll" /\ hist.written < Len(Cmds)
        /\ at_cmd_num = 0 \/ Len(list) < at_cmd_num
        /\ hist' = [hist EXCEPT !.written = @ + 1]
        /\ context' = [context EXCEPT !.write_list = Append(list, e)]
        /\ UNCHANGED <<fifo, age, call, wire>>
    BY <1>2 DEF HyAtUtilsWriteCmd
  <2>2. hist.written + 1 \in 1..Len(Cmds) /\ hist.written \in Nat /\ Len(Cmds) \in Nat
    BY <2>1, Fields, CmdTypes
  <2>3. e \in ENTRY /\ e.id = hist.written + 1
    <3> DEFINE i == hist.written + 1
    <3>1. i \in 1..Len(Cmds)
      BY <2>2
    <3> HIDE DEF i
    <3>2. Cmds[i].retry \in 0..255
      BY <3>1, CmdTypes
    <3>3. _at_cmd_list_create(i) \in ENTRY /\ _at_cmd_list_create(i).id = i
      BY <3>1, <3>2 DEF _at_cmd_list_create, ENTRY
    <3> QED BY <3>3 DEF i, e
  <2> HIDE DEF e
  <2>4. list \in Seq(ENTRY) /\ GoodList(list, hist.written)
    BY Fields
  <2>5. Append(list, e) \in Seq(ENTRY) /\ GoodList(Append(list, e), hist.written + 1)
    BY <2>1, <2>2, <2>3, <2>4, AppendType
  <2> DEFINE new == Append(list, e)
  <2>6. context' \in CONTEXT /\ SameFrame /\ context'.write_list = new
    <3>1. context' = Assigned(context, context.state, context.busy_flag, new)
      BY <2>1, Fields DEF Assigned, CONTEXT
    <3>n. new \in Seq(ENTRY)
      BY <2>5
    <3> HIDE DEF new
    <3>2. context \in CONTEXT /\ context.state \in States /\ context.busy_flag \in 0..2
      BY Fields
    <3> QED BY <3>n, <3>1, <3>2, AssignedFacts DEF SameFrame
  <2>7. hist' \in HIST /\ hist'.written = hist.written + 1 /\ hist'.sends = hist.sends
    <3>1. hist \in HIST /\ hist.written + 1 \in 0..Len(Cmds)
      BY <2>2, Fields
    <3> QED BY <2>1, <3>1 DEF HIST
  <2>8. \A i \in 1..Len(Cmds) : i > hist'.written => hist'.sends[i] = 0
    BY <2>2, <2>7 DEF TypeInv
  <2>9. /\ wire' \in Seq(BYTE) /\ age' \in 0..2 /\ call' \in CALL
        /\ call'.len <= Len(fifo) /\ call'.at # "handle"
    BY <2>1 DEF TypeInv
  <2> QED BY <2>1, <2>5, <2>6, <2>7, <2>8, <2>9, StepType
<1> QED BY <1>1, <1>2

(* The number in a header, and how long it is. *)
LEMMA HeaderType ==
  ASSUME NEW buf \in Seq(BYTE), ~HeaderBad(buf)
  PROVE  /\ Len(buf) >= 5 /\ DataLen(Digits(buf)) \in Nat /\ DataLen(Digits(buf)) > 0
         /\ HeaderLen(buf) \in Nat /\ HeaderLen(buf) >= 3
<1>1. Digits(buf) \in Seq(Chars) /\ HeaderLen(buf) = 3 + Len(Digits(buf)) /\ Len(buf) \in Nat
  BY HeaderFacts
<1>2. DataLen(Digits(buf)) \in Nat
  BY <1>1, DataLenType
<1>3. Len(buf) >= 5 /\ DataLen(Digits(buf)) # 0
  BY <1>1 DEF HeaderBad, HeaderShort, TagLen
<1>4. Len(Digits(buf)) \in Nat
  BY <1>1
<1> QED BY <1>1, <1>2, <1>3, <1>4

(* A whole frame is given away: nothing of it is kept. *)
LEMMA DeliverType ==
  ASSUME TypeInv, NEW frame \in Seq(BYTE), NEW taken \in Nat, Deliver(frame, taken),
         UNCHANGED <<age, wire>>
  PROVE  TypeInv'
<1> DEFINE c == [context EXCEPT !.state = "IDLE", !.parsing_flag = FALSE,
                                !.buf_union = NoBuf, !.frame_sum = 0,
                                !.offset_len = taken]
<1>1. Update(c) /\ hist' = [hist EXCEPT !.frame = frame]
  BY DEF Deliver
<1>2. NoBuf \in BUFFER /\ NoBuf.buf = <<>> /\ "IDLE" \in States
  BY DEF NoBuf, BUFFER, States
<1>3. c \in CONTEXT /\ GoodFrame(c) /\ c.write_list = context.write_list
  BY <1>2, Fields DEF CONTEXT, GoodFrame
<1> HIDE DEF c
<1>4. hist' \in HIST /\ hist'.written = hist.written /\ hist'.sends = hist.sends
  BY <1>1, Fields DEF HIST
<1>5. GoodList(c.write_list, hist.written)
  BY <1>3, Fields
<1> QED BY <1>1, <1>3, <1>4, <1>5, PassType

(* A part of a frame is kept, which is not all of it. *)
LEMMA KeepPartType ==
  ASSUME TypeInv, NEW b \in BUFFER, Len(b.buf) < b.len, KeepPart(b),
         UNCHANGED <<age, wire>>
  PROVE  TypeInv'
<1> DEFINE c == [context EXCEPT !.parsing_flag = TRUE, !.buf_union = b,
                                !.frame_sum = Len(b.buf), !.offset_len = Len(Buf)]
<1>1. Update(c) /\ UNCHANGED hist
  BY DEF KeepPart
<1>2. Len(b.buf) \in Nat /\ Len(Buf) \in Nat /\ b.len \in Nat
  BY BufType DEF BUFFER
<1>3. b # NoBuf
  BY <1>2 DEF NoBuf
<1>4. c \in CONTEXT /\ GoodFrame(c) /\ c.write_list = context.write_list
  BY <1>2, <1>3, Fields DEF CONTEXT, GoodFrame
<1> HIDE DEF c
<1>5. GoodList(c.write_list, hist.written) /\ hist \in HIST
  BY <1>4, Fields
<1> QED BY <1>1, <1>4, <1>5, PassType

(* The header of a frame. *)
LEMMA IpdHeaderType ==
  ASSUME TypeInv, IpdHeader
  PROVE  TypeInv'
<1> DEFINE head == HeaderLen(Buf)
           len  == DataLen(Digits(Buf))
<1>1. Buf \in Seq(BYTE) /\ Len(Buf) \in Nat
  BY BufType
<1>2. head \in Nat /\ head >= 3 /\ len \in Nat /\ len > 0
  BY <1>1, HeaderType DEF IpdHeader
<1>3. \/ /\ head + len <= Len(Buf)
         /\ Deliver(SubSeq(Buf, head + 1, head + len), head + len)
         /\ UNCHANGED <<age, wire>>
      \/ /\ head + len > Len(Buf) /\ head <= Len(Buf)
         /\ KeepPart([len |-> len, buf |-> SubSeq(Buf, head + 1, Len(Buf))])
         /\ UNCHANGED <<age, wire>>
      \/ call' = At("overrun") /\ UNCHANGED <<context, fifo, age, wire, hist>>
  BY DEF IpdHeader
<1> HIDE DEF head, len
<1>4. CASE /\ head + len <= Len(Buf)
           /\ Deliver(SubSeq(Buf, head + 1, head + len), head + len)
           /\ UNCHANGED <<age, wire>>
  <2>1. SubSeq(Buf, head + 1, head + len) \in Seq(BYTE) /\ head + len \in Nat
    BY <1>1, <1>2, <1>4
  <2> QED BY <1>4, <2>1, DeliverType
<1>5. CASE /\ head + len > Len(Buf) /\ head <= Len(Buf)
           /\ KeepPart([len |-> len, buf |-> SubSeq(Buf, head + 1, Len(Buf))])
           /\ UNCHANGED <<age, wire>>
  <2> DEFINE b == [len |-> len, buf |-> SubSeq(Buf, head + 1, Len(Buf))]
  <2>1. SubSeq(Buf, head + 1, Len(Buf)) \in Seq(BYTE)
        /\ Len(SubSeq(Buf, head + 1, Len(Buf))) = Len(Buf) - head
    BY <1>1, <1>2, <1>5
  <2>2. b \in BUFFER /\ Len(b.buf) < b.len
    BY <1>1, <1>2, <1>5, <2>1 DEF BUFFER
  <2>3. KeepPart(b)
    BY <1>5
  <2> HIDE DEF b
  <2> QED BY <1>5, <2>2, <2>3, KeepPartType
<1>6. CASE call' = At("overrun") /\ UNCHANGED <<context, fifo, age, wire, hist>>
  <2>1. call' \in CALL /\ call'.at = "overrun" /\ call'.len = 0
    BY <1>6, AtType
  <2> QED BY <1>6, <2>1 DEF TypeInv
<1> QED BY <1>3, <1>4, <1>5, <1>6

(* More of a frame. *)
LEMMA IpdMoreType ==
  ASSUME TypeInv, IpdMore
  PROVE  TypeInv'
<1> DEFINE all == context.buf_union.buf \o Buf
           b   == [context.buf_union EXCEPT !.buf = all]
<1>1. /\ \/ Len(all) = context.buf_union.len /\ Deliver(all, Len(Buf))
         \/ Len(all) # context.buf_union.len /\ KeepPart(b)
      /\ UNCHANGED <<age, wire>>
  BY DEF IpdMore
<1>2. /\ Buf \in Seq(BYTE) /\ Len(Buf) = call.len /\ call.len \in Nat
      /\ context.buf_union \in BUFFER /\ context.buf_union.buf \in Seq(BYTE)
      /\ context.buf_union.len \in Nat
  BY BufType, Fields DEF CONTEXT, BUFFER
<1>3. all \in Seq(BYTE) /\ Len(all) = Len(context.buf_union.buf) + Len(Buf)
  BY <1>2, CatBytes
<1>4. Len(all) <= context.buf_union.len
  <2>1. context.parsing_flag
    BY Fields DEF IpdMore, GoodFrame
  <2>2. call.len <= context.buf_union.len - context.frame_sum
        /\ context.frame_sum = Len(context.buf_union.buf)
    BY <2>1 DEF IpdMore, Handles, TypeInv, Left, GoodFrame
  <2>3. Len(context.buf_union.buf) \in Nat
    BY <1>2
  <2>4. call.len + Len(context.buf_union.buf) <= context.buf_union.len
    <3> DEFINE x == context.frame_sum
               l == context.buf_union.len
               n == call.len
    <3>1. x \in Nat /\ l \in Nat /\ n \in Nat /\ n <= l - x
      BY <1>2, <2>2, <2>3
    <3> HIDE DEF x, l, n
    <3>2. n + x <= l
      BY <3>1
    <3> QED BY <2>2, <3>2 DEF x, l, n
  <2>5. Len(all) = Len(context.buf_union.buf) + call.len
    BY <1>2, <1>3
  <2> HIDE DEF all
  <2> QED BY <1>2, <2>3, <2>4, <2>5
<1>5. CASE Deliver(all, Len(Buf))
  BY <1>1, <1>2, <1>3, <1>5, DeliverType
<1>6. CASE Len(all) # context.buf_union.len /\ KeepPart(b)
  <2>1. b \in BUFFER /\ b.buf = all /\ b.len = context.buf_union.len
    BY <1>2, <1>3 DEF BUFFER
  <2>2. Len(b.buf) < b.len
    <3>1. Len(all) \in Nat
      BY <1>3
    <3> HIDE DEF all, b
    <3> QED BY <1>2, <1>4, <1>6, <2>1, <3>1
  <2> HIDE DEF b
  <2> QED BY <1>1, <1>6, <2>1, <2>2, KeepPartType
<1> QED BY <1>1, <1>5, <1>6

(* The reader, the modem and the clock. *)
LEMMA OutsideType ==
  ASSUME TypeInv, HyAtUtilsPutData \/ ModemSends \/ Tick
  PROVE  TypeInv'
<1>1. CASE HyAtUtilsPutData
  <2>1. PICK n \in 1..Len(wire) :
          LET put == IF n < FifoLen - Len(fifo) THEN n ELSE FifoLen - Len(fifo)
          IN /\ fifo' = fifo \o SubSeq(wire, 1, put)
             /\ wire' = Drop(wire, n)
             /\ hist' = [hist EXCEPT !.off_step = @ \/ put < n]
    BY <1>1 DEF HyAtUtilsPutData, Drop
  <2> DEFINE put == IF n < FifoLen - Len(fifo) THEN n ELSE FifoLen - Len(fifo)
  <2>2. /\ fifo \in Seq(BYTE) /\ wire \in Seq(BYTE) /\ Len(fifo) <= FifoLen
        /\ Len(fifo) \in Nat /\ Len(wire) \in Nat /\ FifoLen \in Nat
    BY AtAssumption DEF TypeInv
  <2>3. put \in 0..Len(wire) /\ Len(fifo) + put <= FifoLen /\ n \in Nat /\ (put < n) \in BOOLEAN
    BY <2>2
  <2>4. /\ fifo' = fifo \o SubSeq(wire, 1, put) /\ wire' = Drop(wire, n)
        /\ hist' = [hist EXCEPT !.off_step = @ \/ put < n]
    BY <2>1
  <2> HIDE DEF put
  <2>5. SubSeq(wire, 1, put) \in Seq(BYTE) /\ Len(SubSeq(wire, 1, put)) = put
    BY <2>2, <2>3, FrontFacts
  <2>6. fifo' \in Seq(BYTE) /\ Len(fifo') = Len(fifo) + put
    BY <2>2, <2>4, <2>5, CatBytes
  <2>7. wire' \in Seq(BYTE)
    BY <2>2, <2>3, <2>4, DropType
  <2>8. hist' \in HIST /\ hist'.written = hist.written /\ hist'.sends = hist.sends
    BY <2>3, <2>4, Fields DEF HIST
  <2>9. UNCHANGED <<context, age, call>>
    BY <1>1 DEF HyAtUtilsPutData
  <2>10. call.len <= Len(fifo') /\ Len(fifo') <= FifoLen
    BY <2>2, <2>3, <2>6 DEF TypeInv, CALL
  <2>11. Left' = Left
    BY <2>9 DEF Left
  <2> QED BY <2>6, <2>7, <2>8, <2>9, <2>10, <2>11 DEF TypeInv
<1>2. CASE ModemSends
  <2>1. PICK text \in Unsolicited : wire' = wire \o Message(text, 0)
    BY <1>2 DEF ModemSends, Sends
  <2>2. Message(text, 0) \in Seq(BYTE)
    BY TextType, MessageFacts
  <2>3. wire' \in Seq(BYTE)
    BY <2>1, <2>2, CatBytes DEF TypeInv
  <2>4. /\ UNCHANGED <<context, fifo, age, call>>
        /\ hist' = [hist EXCEPT !.unsolicited = @ + 1]
    BY <1>2 DEF ModemSends
  <2>5. hist' \in HIST /\ hist'.written = hist.written /\ hist'.sends = hist.sends
    <3>1. hist \in HIST /\ hist.unsolicited + 1 \in Nat
      BY Fields DEF HIST
    <3> QED BY <2>4, <3>1 DEF HIST
  <2>6. Left' = Left
    BY <2>4 DEF Left
  <2> QED BY <2>3, <2>4, <2>5, <2>6 DEF TypeInv
<1>3. CASE Tick
  <2>1. age < 2 /\ age' = age + 1 /\ UNCHANGED <<context, fifo, call, wire, hist>>
    BY <1>3 DEF Tick
  <2>2. age' \in 0..2
    BY <2>1 DEF TypeInv
  <2>3. Left' = Left
    BY <2>1 DEF Left
  <2> QED BY <2>1, <2>2, <2>3 DEF TypeInv
<1> QED BY <1>1, <1>2, <1>3

(* Every step keeps the types. *)
LEMMA NextType ==
  ASSUME TypeInv, [Next]_vars
  PROVE  TypeInv'
<1>1. CASE UNCHANGED vars
  <2>1. Left' = Left
    BY <1>1 DEF vars, Left
  <2> QED BY <1>1, <2>1 DEF TypeInv, vars
<1>2. CASE Next
  BY <1>2, IdleType, IdleTimeoutType, WriteCmdType, WriteDataType, PeekType, ReadType,
     ReadHeadType, ReadTextType, ReadClosedType, ReadErrorType, ReadOkType,
     ReadSignalType, IpdHeaderType, IpdMoreType, CleanTypes, ClientType, OutsideType
     DEF Next, HyAtUtilsProcess, Client
<1> QED BY <1>1, <1>2

-----------------------------------------------------------------------------
(* What does not change in the invariant when only parts of a state do.     *)

(* The stream is a sequence of bytes, of which the fifo holds the first.    *)
LEMMA StreamType ==
  ASSUME TypeInv
  PROVE  /\ fifo \in Seq(BYTE) /\ wire \in Seq(BYTE) /\ Stream \in Seq(BYTE)
         /\ Len(fifo) \in Nat /\ Len(wire) \in Nat /\ Len(Stream) \in Nat
         /\ Len(Stream) = Len(fifo) + Len(wire)
         /\ \A i \in 1..Len(fifo) : Stream[i] = fifo[i]
         /\ \A i \in (Len(fifo) + 1)..(Len(fifo) + Len(wire)) : Stream[i] = wire[i - Len(fifo)]
<1>1. fifo \in Seq(BYTE) /\ wire \in Seq(BYTE)
  BY DEF TypeInv
<1> QED BY <1>1, CatBytes DEF Stream

(* Bytes are taken from the front. *)
LEMMA StreamTaken ==
  ASSUME TypeInv, NEW n \in 0..Len(fifo), fifo' = Drop(fifo, n), UNCHANGED wire
  PROVE  Stream' = Drop(Stream, n) /\ Len(fifo') = Len(fifo) - n /\ n \in 0..Len(Stream)
<1>1. /\ fifo \in Seq(BYTE) /\ wire \in Seq(BYTE) /\ Stream \in Seq(BYTE)
      /\ Len(fifo) \in Nat /\ Len(wire) \in Nat
      /\ Len(Stream) = Len(fifo) + Len(wire)
      /\ \A i \in 1..Len(fifo) : Stream[i] = fifo[i]
      /\ \A i \in (Len(fifo) + 1)..(Len(fifo) + Len(wire)) : Stream[i] = wire[i - Len(fifo)]
  BY StreamType
<1>2. n \in 0..Len(Stream)
  BY <1>1
<1> DEFINE f == Drop(fifo, n)
           T == Drop(Stream, n)
           U == f \o wire
<1>3. /\ f \in Seq(BYTE) /\ Len(f) = Len(fifo) - n
      /\ \A i \in 1..(Len(fifo) - n) : f[i] = fifo[i + n]
  BY <1>1, DropFacts
<1>4. /\ T \in Seq(BYTE) /\ Len(T) = Len(Stream) - n
      /\ \A i \in 1..(Len(Stream) - n) : T[i] = Stream[i + n]
  BY <1>1, <1>2, DropFacts
<1> HIDE DEF f, T
<1>5. /\ U \in Seq(BYTE) /\ Len(U) = Len(f) + Len(wire)
      /\ \A i \in 1..Len(f) : U[i] = f[i]
      /\ \A i \in (Len(f) + 1)..(Len(f) + Len(wire)) : U[i] = wire[i - Len(f)]
  BY <1>1, <1>3, CatBytes
<1> HIDE DEF U
<1>6. \A i \in 1..Len(U) : U[i] = T[i]
  <2> TAKE i \in 1..Len(U)
  <2>1. CASE i <= Len(f)
    <3>1. i \in 1..(Len(fifo) - n) /\ i \in 1..(Len(Stream) - n) /\ i + n \in 1..Len(fifo)
      BY <1>1, <1>2, <1>3, <1>5, <2>1
    <3> QED BY <1>1, <1>3, <1>4, <1>5, <2>1, <3>1
  <2>2. CASE ~(i <= Len(f))
    <3>1. /\ i \in (Len(f) + 1)..(Len(f) + Len(wire)) /\ i \in 1..(Len(Stream) - n)
          /\ i + n \in (Len(fifo) + 1)..(Len(fifo) + Len(wire))
          /\ i + n - Len(fifo) = i - Len(f)
      BY <1>1, <1>2, <1>3, <1>5, <2>2
    <3>2. Stream[i + n] = wire[i + n - Len(fifo)]
      BY <1>1, <3>1
    <3>3. U[i] = wire[i - Len(f)] /\ T[i] = Stream[i + n]
      BY <1>4, <1>5, <3>1
    <3> QED BY <3>1, <3>2, <3>3
  <2> QED BY <2>1, <2>2
<1>7. U = T
  <2>1. Len(U) = Len(T)
    BY <1>1, <1>3, <1>4, <1>5
  <2> QED BY <1>4, <1>5, <1>6, <2>1, SeqEq
<1>8. Stream' = U
  BY DEF Stream, U, f
<1> QED BY <1>2, <1>3, <1>7, <1>8 DEF T, f

(* Two contexts with the same command out, and the same to come. *)
SameCommand(c, c2) ==
  /\ c2.write_list = c.write_list /\ c2.busy_flag = c.busy_flag
  /\ c2.is_cmd_ok = c.is_cmd_ok
  /\ \/ c2.state = c.state
     \/ c.busy_flag = 0
     \/ {c.state, c2.state} \cap {"WRITE", "WRITE_CMD", "WRITE_DATA"} = {}
     \/ {c.state, c2.state} \subseteq {"WRITE", "WRITE_CMD"}

(* The same answers are expected, in the same order. *)
LEMMA SameExpected ==
  ASSUME NEW c, NEW c2, SameCommand(c, c2)
  PROVE  /\ Quiet(c2) = Quiet(c) /\ FirstOf(c2) = FirstOf(c) /\ DataOf(c2) = DataOf(c)
         /\ ExpOf(c2) = ExpOf(c) /\ MayOf(c2) = MayOf(c)
<1>1. FirstOf(c2) = FirstOf(c) /\ DataOf(c2) = DataOf(c) /\ MayOf(c2) = MayOf(c)
  BY DEF FirstOf, DataOf, MayOf, SameCommand
<1>2. Quiet(c2) = Quiet(c)
  BY DEF Quiet, SameCommand
<1>3. Quiet(c) \/ (c2.state = "WRITE_DATA" <=> c.state = "WRITE_DATA")
  BY DEF Quiet, SameCommand
<1>4. ExpOf(c2) = ExpOf(c)
  BY <1>1, <1>2, <1>3 DEF ExpOf, SameCommand
<1> QED BY <1>1, <1>2, <1>4

(* The same sendings and tries. *)
LEMMA SameTries ==
  ASSUME NEW c, NEW c2, SameCommand(c, c2), NEW sends, TriesOk(c, sends)
  PROVE  TriesOk(c2, sends)
<1>1. Quiet(c2) = Quiet(c) /\ FirstOf(c2) = FirstOf(c)
  BY SameExpected
<1>2. c2.write_list = c.write_list /\ c2.is_cmd_ok = c.is_cmd_ok
  BY DEF SameCommand
<1> QED BY <1>1, <1>2 DEF TriesOk, Untried, TriesOfFirst, ResumedEntry

(* The same frame, if any, is being taken in. *)
SameLeft(c, c2) ==
  /\ c2.parsing_flag = c.parsing_flag /\ c2.buf_union = c.buf_union
  /\ c2.frame_sum = c.frame_sum

(* The stream is as it should be for both. *)
LEMMA SameStream ==
  ASSUME NEW c, NEW c2, SameCommand(c, c2), SameLeft(c, c2), NEW S, StreamOk(S, c)
  PROVE  StreamOk(S, c2)
<1>1. FirstOf(c2) = FirstOf(c) /\ ExpOf(c2) = ExpOf(c) /\ MayOf(c2) = MayOf(c)
  BY SameExpected
<1>2. FrameLeft(c2) = FrameLeft(c)
  BY DEF FrameLeft, SameLeft
<1> QED BY <1>1, <1>2 DEF StreamOk

FrameStates == {"IDLE", "WRITE", "WRITE_CMD", "WRITE_CMD_WAIT", "READ", "READ_IPD_DATA"}

(* The frame is as it should be for both. *)
LEMMA SameFrameOk ==
  ASSUME NEW c, NEW c2, SameLeft(c, c2), NEW S, FrameOk(S, c),
         c.parsing_flag => c2.state \in FrameStates
  PROVE  FrameOk(S, c2)
<1>1. FrameLeft(c2) = FrameLeft(c)
  BY DEF FrameLeft, SameLeft
<1> QED BY <1>1 DEF FrameOk, SameLeft, FrameStates

(* Outside of the states that speak of the front there is nothing to say. *)
PlainStates == {"IDLE", "WRITE", "WRITE_CMD", "WRITE_CMD_WAIT", "WRITE_DATA",
                "READ", "READ_HEAD"}

(* So the state agrees with what is there. *)
LEMMA PlainPlace ==
  ASSUME NEW S, NEW n, NEW c, c.state \in PlainStates
  PROVE  PlaceOk(S, n, c)
  BY DEF PlainStates, PlaceOk, NoticeStates

(* More bytes behind leave the front as it is. *)
LEMMA PlaceMore ==
  ASSUME NEW S \in Seq(BYTE), NEW T \in Seq(BYTE), NEW n \in 0..Len(S),
         NEW n2 \in Nat, n <= n2, NEW c, c.offset_len \in Nat, PlaceOk(S, n, c)
  PROVE  PlaceOk(S \o T, n2, c)
<1>1. \A char : FrontIs(S, n, char) => FrontIs(S \o T, n2, char)
  <2> SUFFICES ASSUME NEW char, FrontIs(S, n, char) PROVE FrontIs(S \o T, n2, char)
    OBVIOUS
  <2>1. 1 \in 1..Len(S)
    BY SeqFacts DEF FrontIs
  <2>2. (S \o T)[1] = S[1]
    BY <2>1, CatBytes
  <2> QED BY <2>2 DEF FrontIs
<1>2. \A text \in Unsolicited : Sits(S, 1, text) => Sits(S \o T, 1, text)
  BY TextType, SitsCat
<1>3. n \in Nat /\ \A text \in Unsolicited : Len(text) \in Nat
  BY TextType, SeqFacts
<1>4. c.state \in NoticeStates =>
       \E text \in Unsolicited : /\ Sits(S \o T, 1, text)
                                 /\ Len(text) = c.offset_len /\ Len(text) <= n2
  BY <1>2, <1>3 DEF PlaceOk
<1>5. c.state = "READ_IPD_DATA" /\ ~c.parsing_flag =>
       \E text \in Unsolicited : Sits(S \o T, 1, text) /\ IsFrame(text)
  BY <1>2 DEF PlaceOk
<1> QED BY <1>1, <1>3, <1>4, <1>5 DEF PlaceOk

(* A step to another state, with the same bytes and commands. *)
LEMMA StateStep ==
  ASSUME TypeInv, InStep, UNCHANGED <<fifo, wire, hist>>,
         SameCommand(context, context'), SameLeft(context, context'),
         context'.state \in PlainStates \/ (context'.state = "READ_IPD_DATA" /\ context.parsing_flag),
         context.parsing_flag => context'.state \in FrameStates,
         context'.state \in {"WRITE", "WRITE_CMD"} => Len(context.write_list) >= 1,
         context'.state # "WRITE_DATA",
         PassOk(context', call')
  PROVE  InStep'
<1>1. Stream' = Stream
  BY DEF Stream
<1>2. StreamOk(Stream', context')
  BY <1>1, SameStream DEF InStep
<1>3. FrameOk(Stream', context')
  BY <1>1, SameFrameOk DEF InStep
<1>4. PlaceOk(Stream', Len(fifo'), context')
  <2>1. CASE context'.state \in PlainStates
    BY <2>1, PlainPlace
  <2>2. CASE context'.state = "READ_IPD_DATA" /\ context'.parsing_flag
    BY <2>2 DEF PlaceOk, NoticeStates
  <2> QED BY <2>1, <2>2 DEF SameLeft
<1>5. ListOk(context')
  BY DEF InStep, ListOk, SameCommand, DataOf, FirstOf
<1>6. TriesOk(context', hist'.sends)
  BY SameTries DEF InStep
<1> QED BY <1>2, <1>3, <1>4, <1>5, <1>6 DEF InStep

(* A pass without a frame ends: its bytes are taken, and what is expected   *)
(* of the rest is what the new context says.                               *)
LEMMA BytesTaken ==
  ASSUME TypeInv, InStep, ~context'.parsing_flag, NEW n \in 0..Len(fifo),
         fifo' = Drop(fifo, n), call' = At("poll"),
         UNCHANGED <<age, wire>>, hist'.sends = hist.sends, Whole(Stream, n),
         Answers(Stream, n, FirstOf(context').id, ExpOf(context'), MayOf(context')),
         context'.state \in PlainStates, ListOk(context'), TriesOk(context', hist.sends)
  PROVE  InStep'
<1>1. Stream' = Drop(Stream, n) /\ n \in 0..Len(Stream)
  BY StreamTaken
<1>2. Stream \in Seq(BYTE) /\ Len(Stream) \in Nat
  BY StreamType
<1>3. n \in 0..n /\ n - n = 0
  BY <1>2
<1>4. Whole(Drop(Stream, n), 0)
  BY <1>1, <1>2, <1>3, WholeShift
<1>5. \A id, exp, may : Answers(Stream, n, id, exp, may) => Answers(Drop(Stream, n), 0, id, exp, may)
  BY <1>1, <1>2, <1>3, AnswersShift
<1>6. Answers(Drop(Stream, n), 0, FirstOf(context').id, ExpOf(context'), MayOf(context'))
  BY <1>5
<1>7. FrameLeft(context') = 0
  BY DEF FrameLeft
<1>8. StreamOk(Stream', context')
  BY <1>1, <1>4, <1>6, <1>7 DEF StreamOk
<1>9. FrameOk(Stream', context')
  BY DEF FrameOk
<1>10. PlaceOk(Stream', Len(fifo'), context')
  BY PlainPlace
<1>11. PassOk(context', call')
  BY AtType DEF PassOk
<1> QED BY <1>8, <1>9, <1>10, <1>11 DEF InStep

(* The same, when it ends as most passes do. *)
LEMMA PassEnd ==
  ASSUME TypeInv, InStep, NEW c \in CONTEXT, ~c.parsing_flag, Update(c),
         UNCHANGED <<age, wire>>, hist'.sends = hist.sends,
         c.offset_len \in 0..Len(fifo), Whole(Stream, c.offset_len),
         Answers(Stream, c.offset_len, FirstOf(c).id, ExpOf(c), MayOf(c)),
         c.state \in PlainStates, ListOk(c), TriesOk(c, hist.sends)
  PROVE  InStep'
<1> DEFINE n == c.offset_len
<1>1. /\ context' = [c EXCEPT !.offset_len = 0] /\ fifo' = Drop(fifo, n)
      /\ call' = At("poll")
  BY DEF Update, Loop, Drop
<1>2. /\ SameCommand(c, context') /\ context'.state = c.state /\ ~context'.parsing_flag
  BY <1>1 DEF CONTEXT, SameCommand
<1>3. /\ FirstOf(context') = FirstOf(c) /\ ExpOf(context') = ExpOf(c)
      /\ MayOf(context') = MayOf(c)
  BY <1>2, SameExpected
<1>4. ListOk(context')
  BY <1>2 DEF ListOk, SameCommand, DataOf, FirstOf
<1>5. TriesOk(context', hist.sends)
  BY <1>2, SameTries
<1>6. /\ n \in 0..Len(fifo) /\ Whole(Stream, n)
      /\ Answers(Stream, n, FirstOf(context').id, ExpOf(context'), MayOf(context'))
      /\ context'.state \in PlainStates
  BY <1>2, <1>3
<1> HIDE DEF n
<1> QED BY <1>1, <1>2, <1>4, <1>5, <1>6, BytesTaken

(* A pass that takes nothing. *)
LEMMA PassKept ==
  ASSUME TypeInv, InStep, NEW c, ~context.parsing_flag, Keep(c),
         UNCHANGED <<age, wire>>, hist'.sends = hist.sends,
         SameCommand(context, c), SameLeft(context, c), c.state \in ReadStates,
         PlaceOk(Stream, Len(fifo), c)
  PROVE  InStep'
<1>0. ~c.parsing_flag
  BY DEF SameLeft
<1>1. context' = c /\ fifo' = fifo /\ call' = At("poll") /\ Stream' = Stream
  BY <1>0 DEF Keep, Loop, Stream
<1>2. StreamOk(Stream', context')
  BY <1>1, SameStream DEF InStep
<1>3. FrameOk(Stream', context')
  BY <1>0, <1>1 DEF FrameOk
<1>4. PlaceOk(Stream', Len(fifo'), context')
  BY <1>1
<1>5. PassOk(context', call')
  BY <1>1, AtType DEF PassOk
<1>6. ListOk(context')
  BY <1>1 DEF InStep, ListOk, SameCommand, DataOf, FirstOf, ReadStates
<1>7. TriesOk(context', hist'.sends)
  BY <1>1, SameTries DEF InStep
<1> QED BY <1>2, <1>3, <1>4, <1>5, <1>6, <1>7 DEF InStep

(* What the invariant says of a pass without a frame. *)
LEMMA PassFacts ==
  ASSUME TypeInv, InStep, call.at = "handle",
         ~context.parsing_flag
  PROVE  /\ context.state \in ReadStates
         /\ Whole(Stream, 0)
         /\ Answers(Stream, 0, FirstOf(context).id, ExpOf(context), MayOf(context))
         /\ Buf \in Seq(BYTE) /\ Len(Buf) \in 1..Len(fifo) /\ Len(Buf) = call.len
         /\ Len(Buf) \in 1..Len(Stream) /\ \A i \in 1..Len(Buf) : Buf[i] = Stream[i]
         /\ Stream \in Seq(BYTE) /\ Len(fifo) \in Nat /\ Len(Stream) \in Nat
         /\ Len(fifo) <= Len(Stream)
<1>1. FrameLeft(context) = 0
  BY DEF FrameLeft
<1>2. /\ Whole(Stream, 0)
      /\ Answers(Stream, 0, FirstOf(context).id, ExpOf(context), MayOf(context))
  BY <1>1 DEF InStep, StreamOk
<1>3. context.state \in ReadStates /\ call.len >= 1
  BY DEF InStep, PassOk
<1>4. /\ Buf \in Seq(BYTE) /\ Len(Buf) = call.len /\ call.len \in 0..Len(fifo)
      /\ \A i \in 1..Len(Buf) : Buf[i] = fifo[i]
  BY BufType
<1>5. /\ Stream \in Seq(BYTE) /\ Len(fifo) \in Nat /\ Len(wire) \in Nat /\ Len(Stream) \in Nat
      /\ Len(Stream) = Len(fifo) + Len(wire)
      /\ \A i \in 1..Len(fifo) : Stream[i] = fifo[i]
  BY StreamType
<1>6. Len(Buf) \in 1..Len(fifo) /\ Len(Buf) \in 1..Len(Stream)
  BY <1>3, <1>4, <1>5
<1>7. \A i \in 1..Len(Buf) : i \in 1..Len(fifo)
  BY <1>4, <1>5
<1>8. Len(fifo) <= Len(Stream)
  BY <1>5
<1> QED BY <1>2, <1>3, <1>4, <1>5, <1>6, <1>7, <1>8

-----------------------------------------------------------------------------
(* Every step keeps the invariant, as long as the module stays in step.     *)

(* The steps outside a pass that set only the state. *)
LEMMA IdleStep ==
  ASSUME TypeInv, InStep, IdleRead \/ IdleWrite \/ Write \/ WriteCmdWait
  PROVE  InStep'
<1>0. context \in CONTEXT /\ \A s : s # "WRITE_DATA" => s \notin {"WRITE_DATA"}
  BY Fields
<1>1. call.at = "poll" /\ UNCHANGED <<fifo, age, call, wire, hist>> /\ PassOk(context', call')
  BY DEF IdleRead, IdleWrite, Write, WriteCmdWait, Polls, PassOk
<1>2. \/ /\ context.state = "IDLE" /\ context' = [context EXCEPT !.state = "READ"]
      \/ /\ context.state = "IDLE" /\ context' = [context EXCEPT !.state = "WRITE"]
         /\ context.busy_flag = 0 /\ ~NoFirst
      \/ /\ context.state = "WRITE" /\ context' = [context EXCEPT !.state = "WRITE_CMD"]
      \/ /\ context.state = "WRITE_CMD_WAIT" /\ context' = [context EXCEPT !.state = "READ"]
  BY DEF IdleRead, IdleWrite, Write, WriteCmdWait, Polls, GoTo
<1>3. /\ context'.write_list = context.write_list /\ context'.busy_flag = context.busy_flag
      /\ context'.is_cmd_ok = context.is_cmd_ok /\ SameLeft(context, context')
  BY <1>0, <1>2 DEF CONTEXT, SameLeft
<1>4. \/ context.state = "IDLE" /\ context'.state = "READ"
      \/ context.state = "IDLE" /\ context'.state = "WRITE" /\ context.busy_flag = 0 /\ ~NoFirst
      \/ context.state = "WRITE" /\ context'.state = "WRITE_CMD"
      \/ context.state = "WRITE_CMD_WAIT" /\ context'.state = "READ"
  BY <1>0, <1>2 DEF CONTEXT
<1>5. SameCommand(context, context')
  BY <1>3, <1>4 DEF SameCommand
<1>6. context'.state \in PlainStates /\ context'.state \in FrameStates /\ context'.state # "WRITE_DATA"
  BY <1>4 DEF PlainStates, FrameStates
<1>7. context'.state \in {"WRITE", "WRITE_CMD"} => Len(context.write_list) >= 1
  BY <1>4, FirstType DEF InStep, ListOk
<1> QED BY <1>1, <1>3, <1>5, <1>6, <1>7, StateStep

(* Bytes are peeked, or there are none. *)
LEMMA PeekStep ==
  ASSUME TypeInv, InStep, Peek
  PROVE  InStep'
<1> DEFINE missing == context.buf_union.len - context.frame_sum
           factor  == IF context.buf_union = NoBuf \/ missing > FACTOR_LEN
                      THEN FACTOR_LEN ELSE missing
           len     == IF factor < Len(fifo) THEN factor ELSE Len(fifo)
<1>0. context \in CONTEXT /\ UNCHANGED <<fifo, age, wire, hist>> /\ Stream' = Stream
  BY Fields DEF Peek, Stream
<1>1. \/ len = 0 /\ GoTo("IDLE") /\ call' = At("poll")
      \/ /\ len # 0 /\ call' = [at |-> "handle", len |-> len]
         /\ IF context.parsing_flag THEN GoTo("READ_IPD_DATA") ELSE UNCHANGED context
  BY DEF Peek
<1>2. /\ missing \in Int /\ FACTOR_LEN \in Nat \ {0} /\ Len(fifo) \in Nat
      /\ context.buf_union # NoBuf => missing > 0
  BY AtAssumption, SMTT(30) DEF TypeInv, GoodFrame, CONTEXT, BUFFER
<1>3. len \in Nat
  BY <1>2
<1>4. context.state \in ReadStates
  BY DEF Peek, Polls, InStep, PassOk, ReadStates
<1>5. context.parsing_flag => context.state \in FrameStates
  BY DEF InStep, FrameOk, FrameStates
<1> HIDE DEF missing, factor, len
<1>6. CASE len = 0
  <2>1. context' = [context EXCEPT !.state = "IDLE"] /\ call' = At("poll")
    BY <1>1, <1>6 DEF GoTo
  <2>2. SameCommand(context, context') /\ SameLeft(context, context') /\ context'.state = "IDLE"
    BY <1>0, <1>4, <2>1 DEF CONTEXT, SameCommand, SameLeft, ReadStates
  <2>3. PassOk(context', call')
    BY <2>1, AtType DEF PassOk
  <2>4. context'.state \in PlainStates /\ context'.state \in FrameStates
    BY <2>2 DEF PlainStates, FrameStates
  <2> QED BY <1>0, <2>2, <2>3, <2>4, StateStep
<1>7. CASE len # 0 /\ context.parsing_flag
  <2>1. /\ context' = [context EXCEPT !.state = "READ_IPD_DATA"]
        /\ call' = [at |-> "handle", len |-> len]
    BY <1>1, <1>7 DEF GoTo
  <2>2. SameCommand(context, context') /\ SameLeft(context, context') /\ context'.state = "READ_IPD_DATA"
    BY <1>0, <1>4, <2>1 DEF CONTEXT, SameCommand, SameLeft, ReadStates
  <2>3. PassOk(context', call')
    BY <1>3, <1>7, <2>1, <2>2 DEF PassOk, ReadStates
  <2>4. context'.state \in FrameStates
    BY <2>2 DEF FrameStates
  <2> QED BY <1>0, <1>7, <2>2, <2>3, <2>4, StateStep
<1>8. CASE len # 0 /\ ~context.parsing_flag
  <2>1. UNCHANGED context /\ call' = [at |-> "handle", len |-> len]
    BY <1>1, <1>8
  <2>2. PassOk(context', call')
    BY <1>3, <1>4, <1>8, <2>1 DEF PassOk
  <2> QED BY <1>0, <2>1, <2>2 DEF InStep
<1> QED BY <1>6, <1>7, <1>8

(* The bytes before a text are dropped; there is no text among them. *)
LEMMA ReadStep ==
  ASSUME TypeInv, InStep, Read
  PROVE  InStep'
<1> DEFINE k == FirstChar(Buf)
           s == IF k = 0 THEN "IDLE" ELSE "READ_HEAD"
           o == IF k = 0 THEN Len(Buf) ELSE k - 1
           c == [context EXCEPT !.state = s, !.offset_len = o]
<1>1. UNCHANGED <<age, wire, hist>> /\ Update(c)
  BY DEF Read
<1>2. call.at = "handle" /\ context.state = "READ" /\ ~context.parsing_flag
  BY DEF Read, Handles, TypeInv
<1>3. /\ Whole(Stream, 0)
      /\ Answers(Stream, 0, FirstOf(context).id, ExpOf(context), MayOf(context))
      /\ Buf \in Seq(BYTE) /\ Len(Buf) \in 1..Len(fifo) /\ Len(Buf) \in 1..Len(Stream)
      /\ \A i \in 1..Len(Buf) : Buf[i] = Stream[i]
      /\ Stream \in Seq(BYTE) /\ Len(Stream) \in Nat /\ Len(fifo) \in Nat
  BY <1>2, PassFacts
<1>4. /\ k \in 0..Len(Buf)
      /\ k = 0 => \A i \in 1..Len(Buf) : ~Begins(Buf[i].c)
      /\ k # 0 => \A i \in 1..(k - 1) : ~Begins(Buf[i].c)
  BY <1>3, FirstCharFacts
<1> HIDE DEF k
<1>5. o \in 0..Len(Buf) /\ o \in Nat /\ \A i \in 1..o : ~Begins(Buf[i].c)
  BY <1>3, <1>4
<1>6. s \in States /\ s \in {"IDLE", "READ_HEAD"}
  BY DEF States, ReadStates
<1> HIDE DEF s, o
<1>7. \A i \in 1..o : ~Begins(Stream[i].c)
  <2>1. \A i \in 1..o : i \in 1..Len(Buf)
    BY <1>3, <1>5
  <2> QED BY <1>3, <1>5, <2>1
<1>8. o \in 0..Len(Stream) /\ o \in 0..Len(fifo)
  BY <1>3, <1>5
<1>9. Whole(Stream, o)
  BY <1>3, <1>7, <1>8, PassedOver
<1>10. /\ c \in CONTEXT /\ SameLeft(context, c) /\ c.state = s /\ c.offset_len = o
       /\ c.write_list = context.write_list /\ c.busy_flag = context.busy_flag
       /\ c.is_cmd_ok = context.is_cmd_ok /\ c.parsing_flag = context.parsing_flag
  BY <1>5, <1>6, Fields DEF CONTEXT, SameLeft
<1> HIDE DEF c
<1>11. SameCommand(context, c)
  BY <1>2, <1>6, <1>10 DEF SameCommand
<1>12. FirstOf(c) = FirstOf(context) /\ ExpOf(c) = ExpOf(context) /\ MayOf(c) = MayOf(context)
  BY <1>11, SameExpected
<1>13. Answers(Stream, o, FirstOf(c).id, ExpOf(c), MayOf(c))
  BY <1>3, <1>5, <1>12, AnswersSkip
<1>14. ListOk(c) /\ TriesOk(c, hist.sends)
  <2>1. ListOk(context) /\ TriesOk(context, hist.sends)
    BY DEF InStep
  <2>2. TriesOk(c, hist.sends)
    BY <1>11, <2>1, SameTries
  <2>3. ListOk(c)
    BY <1>6, <1>10, <1>12, <2>1 DEF ListOk, DataOf
  <2> QED BY <2>2, <2>3
<1>15. c.state \in PlainStates
  BY <1>6, <1>10 DEF PlainStates
<1> QED BY <1>1, <1>2, <1>8, <1>9, <1>10, <1>13, <1>14, <1>15, PassEnd

(* The front is dropped, or the state says what it is. *)
LEMMA ReadHeadStep ==
  ASSUME TypeInv, InStep, ReadHead, ~hist'.off_step
  PROVE  InStep'
<1> DEFINE k == Caught(Buf)
<1>1. UNCHANGED <<age, wire>> /\ call.at = "handle" /\ context.state = "READ_HEAD"
  BY DEF ReadHead, Handles
<1>2. ~context.parsing_flag /\ context \in CONTEXT /\ hist \in HIST
  BY <1>1, Fields DEF TypeInv
<1>3. /\ Whole(Stream, 0)
      /\ Answers(Stream, 0, FirstOf(context).id, ExpOf(context), MayOf(context))
      /\ Buf \in Seq(BYTE) /\ Len(Buf) \in 1..Len(fifo) /\ Len(Buf) \in 1..Len(Stream)
      /\ \A i \in 1..Len(Buf) : Buf[i] = Stream[i]
      /\ Stream \in Seq(BYTE) /\ Len(Stream) \in Nat /\ Len(fifo) \in Nat
      /\ Len(fifo) <= Len(Stream)
  BY <1>1, <1>2, PassFacts
<1>4. /\ k \in 0..Len(CatchStr)
      /\ k # 0 => Catches(CatchStr[k], Buf)
  BY <1>3, CaughtFacts
<1>5. Buf[1] = Stream[1] /\ Len(Stream) >= 1
  BY <1>3
<1>6. k = 0 /\ Stream[1].of = 0 => Len(Buf) = 1 /\ Stream[1].c # ">"
  BY <1>3, HeadMissed
<1>7. \/ /\ k = 0 /\ LonePrompt /\ UNCHANGED hist
         /\ Keep([context EXCEPT !.state = "READ_SEND", !.offset_len = 1])
      \/ /\ k = 0 /\ Update([context EXCEPT !.state = "IDLE", !.offset_len = 1])
         /\ hist' = [hist EXCEPT !.off_step =
              @ \/ (Len(Buf) = 1 /\ Buf[1].of = 0 /\ Buf[1].rest > 0)]
      \/ Keep(context) /\ UNCHANGED hist
      \/ /\ k # 0 /\ ~IsPartial(Catch(k), Buf) /\ UNCHANGED hist
         /\ Keep([context EXCEPT !.state = CatchStr[k].state, !.offset_len = Len(Catch(k))])
  BY DEF ReadHead
<1> HIDE DEF k
<1>8. CASE /\ k = 0 /\ LonePrompt /\ UNCHANGED hist
           /\ Keep([context EXCEPT !.state = "READ_SEND", !.offset_len = 1])
  <2> DEFINE c == [context EXCEPT !.state = "READ_SEND", !.offset_len = 1]
  <2>1. /\ SameLeft(context, c) /\ SameCommand(context, c)
        /\ c.state = "READ_SEND" /\ c.offset_len = 1
    BY <1>1, <1>2 DEF CONTEXT, SameLeft, SameCommand
  <2>2. Keep(c)
    BY <1>8
  <2> HIDE DEF c
  <2>3. FrontIs(Stream, Len(fifo), ">")
    BY <1>3, <1>5, <1>6, <1>8 DEF FrontIs, LonePrompt
  <2>4. PlaceOk(Stream, Len(fifo), c)
    BY <1>3, <2>1, <2>3 DEF PlaceOk, NoticeStates
  <2>5. c.state \in ReadStates
    BY <2>1 DEF ReadStates
  <2> QED BY <1>1, <1>2, <1>8, <2>1, <2>2, <2>4, <2>5, PassKept
<1>9. CASE /\ k = 0 /\ Update([context EXCEPT !.state = "IDLE", !.offset_len = 1])
           /\ hist' = [hist EXCEPT !.off_step =
                @ \/ (Len(Buf) = 1 /\ Buf[1].of = 0 /\ Buf[1].rest > 0)]
  <2> DEFINE c == [context EXCEPT !.state = "IDLE", !.offset_len = 1]
  <2>1. /\ c \in CONTEXT /\ SameLeft(context, c) /\ SameCommand(context, c)
        /\ c.state = "IDLE" /\ c.offset_len = 1
    BY <1>1, <1>2 DEF CONTEXT, SameLeft, SameCommand, States
  <2>2. Update(c) /\ ~c.parsing_flag
    BY <1>2, <1>9, <2>1 DEF SameLeft
  <2> HIDE DEF c
  <2>3. hist'.sends = hist.sends /\ ~(Len(Buf) = 1 /\ Buf[1].of = 0 /\ Buf[1].rest > 0)
    BY <1>2, <1>9 DEF HIST
  <2>4. Stream[1].rest \in Nat
    <3>1. \A b \in BYTE : b.rest \in Nat
      BY DEF BYTE
    <3> QED BY <1>3, <1>5, <3>1
  <2>5. Stream[1].of # 0 \/ Stream[1].rest = 0
    BY <1>5, <1>6, <1>9, <2>3, <2>4
  <2>6. 1 \in 1..Len(Stream) /\ 1 \in 0..Len(fifo) /\ 0 <= 1 /\ 0 \in Nat /\ 1 \in Nat
    BY <1>3
  <2>7. Whole(Stream, 1)
    BY <1>3, <2>5, <2>6, WholeSkip
  <2>8. FirstOf(c) = FirstOf(context) /\ ExpOf(c) = ExpOf(context) /\ MayOf(c) = MayOf(context)
    BY <2>1, SameExpected
  <2>9. Answers(Stream, 1, FirstOf(c).id, ExpOf(c), MayOf(c))
    BY <1>3, <2>6, <2>8, AnswersSkip
  <2>10. ListOk(c) /\ TriesOk(c, hist.sends)
    <3>1. ListOk(context) /\ TriesOk(context, hist.sends)
      BY DEF InStep
    <3>2. TriesOk(c, hist.sends)
      BY <2>1, <3>1, SameTries
    <3>3. ListOk(c)
      BY <2>1, <2>8, <3>1 DEF ListOk, DataOf, SameCommand
    <3> QED BY <3>2, <3>3
  <2>11. c.state \in PlainStates
    BY <2>1 DEF PlainStates
  <2> QED BY <1>1, <2>1, <2>2, <2>3, <2>6, <2>7, <2>9, <2>10, <2>11, PassEnd
<1>10. CASE Keep(context) /\ UNCHANGED hist
  <2>1. SameLeft(context, context) /\ SameCommand(context, context)
    BY DEF SameLeft, SameCommand
  <2>2. PlaceOk(Stream, Len(fifo), context) /\ context.state \in ReadStates
    BY <1>1 DEF InStep, ReadStates
  <2> QED BY <1>1, <1>2, <1>10, <2>1, <2>2, PassKept
<1>11. CASE /\ k # 0 /\ ~IsPartial(Catch(k), Buf) /\ UNCHANGED hist
            /\ Keep([context EXCEPT !.state = CatchStr[k].state, !.offset_len = Len(Catch(k))])
  <2> DEFINE s == CatchStr[k].state
             o == Len(Catch(k))
             c == [context EXCEPT !.state = s, !.offset_len = o]
  <2>0. k \in 1..Len(CatchStr)
    BY <1>4, <1>11, CatchTypes
  <2>1. s \in ReadStates /\ o \in 2..Len(Buf)
    BY <1>3, <1>4, <1>11, <2>0, CatchTypes, HeadCaught
  <2>2. /\ Stream[1].of = 0 =>
             \E text \in Unsolicited :
                /\ Sits(Stream, 1, text)
                /\ \/ s \in NoticeStates /\ Len(text) = o
                   \/ s = "READ_IPD_DATA" /\ IsFrame(text)
        /\ Stream[1].of # 0 =>
              \/ s = "READ_OK" /\ Stream[1].c = "O" /\ o = 2
              \/ s = "READ_ERROR" /\ Stream[1].c = "E"
              \/ s = "READ_SEND" /\ Stream[1].c = ">" /\ o = 2
              \/ s = "READ_SIGNAL" /\ Stream[1].c = "+"
    BY <1>3, <1>4, <1>11, <2>0, HeadCaught
  <2>3. Keep(c)
    BY <1>11
  <2> HIDE DEF s, o
  <2>4. c.state = s /\ c.offset_len = o /\ SameLeft(context, c)
        /\ c.write_list = context.write_list /\ c.busy_flag = context.busy_flag
        /\ c.is_cmd_ok = context.is_cmd_ok /\ c.parsing_flag = context.parsing_flag
    BY <1>2 DEF CONTEXT, SameLeft
  <2> HIDE DEF c
  <2>5. SameCommand(context, c)
    BY <1>1, <2>1, <2>4 DEF SameCommand, ReadStates
  <2>6. o \in Nat /\ o <= Len(fifo) /\ o >= 2 /\ Len(fifo) >= 2
    BY <1>3, <2>1
  <2>7. PlaceOk(Stream, Len(fifo), c)
    <3>1. CASE Stream[1].of = 0
      <4>1. PICK text \in Unsolicited :
                /\ Sits(Stream, 1, text)
                /\ \/ s \in NoticeStates /\ Len(text) = o
                   \/ s = "READ_IPD_DATA" /\ IsFrame(text)
        BY <2>2, <3>1
      <4>2. CASE s \in NoticeStates /\ Len(text) = o
        <5>1. s \notin {"READ_OK", "READ_ERROR", "READ_SEND", "READ_SIGNAL", "READ_IPD_DATA"}
          BY <4>2 DEF NoticeStates
        <5> QED BY <2>4, <2>6, <4>1, <4>2, <5>1 DEF PlaceOk
      <4>3. CASE s = "READ_IPD_DATA" /\ IsFrame(text)
        BY <2>4, <4>1, <4>3 DEF PlaceOk, NoticeStates
      <4> QED BY <4>1, <4>2, <4>3
    <3>2. CASE Stream[1].of # 0
      BY <1>3, <2>2, <2>4, <2>6, <3>2 DEF PlaceOk, FrontIs, NoticeStates
    <3> QED BY <3>1, <3>2
  <2> QED BY <1>1, <1>2, <1>11, <2>1, <2>3, <2>4, <2>5, <2>7, PassKept
<1> QED BY <1>7, <1>8, <1>9, <1>10, <1>11

(* An answer of two bytes that stands in front is whole. *)
LEMMA FrontAnswer ==
  ASSUME NEW S \in Seq(BYTE), Whole(S, 0), Len(S) >= 1, S[1].of # 0,
         S[1].c \in {"O", "E", ">"}
  PROVE  /\ Len(S) >= 2 /\ S[2].of # 0 /\ S[2].rest = 0 /\ S[2].c = Next_c(S[1].c)
         /\ S[1].rest = 1
<1>0. Len(S) \in Nat /\ 1 \in (0 + 1)..Len(S) /\ 1 + 1 = 2
  BY SeqFacts
<1>1. /\ AnswerByte(S[1])
      /\ S[1].rest > 0 => 1 < Len(S) /\ Continues(S[1], S[2])
  BY <1>0 DEF Whole, AnswersWhole
<1>2. S[1].rest = 1
  BY <1>1 DEF AnswerByte
<1> QED BY <1>0, <1>1, <1>2 DEF Continues

(* Behind the end of an answer, or behind a ">", comes what may says. *)
LEMMA AnswersBehind ==
  ASSUME NEW S, Len(S) \in Nat, NEW j \in 1..Len(S), NEW id, NEW exp, NEW may,
         Answers(S, 0, id, exp, may), S[j].of # 0, S[j].c \in {"K", "R", ">", "SP"},
         NEW exp2, \A x \in exp : <<S[j].c, x>> \in may => x \in exp2
  PROVE  Answers(S, j, id, exp2, may)
<1>1. j \in (0 + 1)..Len(S)
  OBVIOUS
<1>2. \A m \in (j + 1)..Len(S) : S[m].of # 0 => <<S[j].c, S[m].c>> \in may
  BY <1>1 DEF Answers
<1>3. \A m \in (j + 1)..Len(S) : m \in (0 + 1)..Len(S)
  OBVIOUS
<1> QED BY <1>2, <1>3 DEF Answers

(* With an answer in front, its command is out and first in the list. *)
LEMMA FrontExpected ==
  ASSUME TypeInv, InStep, call.at = "handle", ~context.parsing_flag,
         NEW char, FrontIs(Stream, Len(fifo), char)
  PROVE  /\ char \in ExpOf(context) /\ ~Quiet(context) /\ context.busy_flag \in 1..2
         /\ Stream[1].of = FirstOf(context).id
         /\ Len(context.write_list) >= 1 /\ ~NoFirst /\ First = FirstOf(context)
         /\ DataOf(context) \in BOOLEAN
<1>1. /\ Answers(Stream, 0, FirstOf(context).id, ExpOf(context), MayOf(context))
      /\ Len(Stream) \in Nat /\ Len(fifo) \in Nat /\ Len(fifo) <= Len(Stream)
  BY PassFacts
<1>2. 1 \in (0 + 1)..Len(Stream) /\ Stream[1].of # 0 /\ Stream[1].c = char
  BY <1>1 DEF FrontIs
<1>3. char \in ExpOf(context) /\ Stream[1].of = FirstOf(context).id
  BY <1>1, <1>2 DEF Answers
<1>4. ~Quiet(context)
  BY <1>3 DEF ExpOf
<1>5. context.busy_flag \in 1..2
  BY <1>4, Fields DEF Quiet
<1>6. Len(context.write_list) >= 1
  BY <1>5 DEF InStep, ListOk
<1>7. ~NoFirst
  BY <1>6 DEF NoFirst
<1>8. First = context.write_list[1] /\ First.id \in 1..Len(Cmds)
  BY <1>7, FirstType
<1>9. First = FirstOf(context) /\ DataOf(context) \in BOOLEAN
  BY <1>8, CmdTypes DEF FirstOf, DataOf
<1> QED BY <1>3, <1>4, <1>5, <1>6, <1>7, <1>9

(* A text of the modem's own is read, or the prompt. *)
LEMMA ReadTextStep ==
  ASSUME TypeInv, InStep, ReadText
  PROVE  InStep'
<1>1. UNCHANGED <<age, wire, hist>> /\ call.at = "handle"
  BY DEF ReadText, Handles
<1>2. \/ /\ context.state \in {"READ_READY", "READ_BUSY_S"}
         /\ \E s \in {"IDLE", "READ"} : Update([context EXCEPT !.state = s])
      \/ /\ context.state = "READ_SEND"
         /\ Update([context EXCEPT !.state = "WRITE_DATA"])
  BY DEF ReadText, Handles
<1>3. ~context.parsing_flag /\ context \in CONTEXT
  BY <1>1, <1>2, Fields DEF TypeInv
<1>4. /\ Whole(Stream, 0)
      /\ Answers(Stream, 0, FirstOf(context).id, ExpOf(context), MayOf(context))
      /\ Stream \in Seq(BYTE) /\ Len(Stream) \in Nat /\ Len(fifo) \in Nat
      /\ Len(fifo) <= Len(Stream)
  BY <1>1, <1>3, PassFacts
<1>5. ListOk(context) /\ TriesOk(context, hist.sends) /\ PlaceOk(Stream, Len(fifo), context)
  BY DEF InStep
<1>6. CASE /\ context.state \in {"READ_READY", "READ_BUSY_S"}
           /\ \E s \in {"IDLE", "READ"} : Update([context EXCEPT !.state = s])
  <2>1. PICK s \in {"IDLE", "READ"} : Update([context EXCEPT !.state = s])
    BY <1>6
  <2>2. PICK text \in Unsolicited :
          Sits(Stream, 1, text) /\ Len(text) = context.offset_len /\ Len(text) <= Len(fifo)
    BY <1>5, <1>6 DEF PlaceOk, NoticeStates
  <2>3. Len(text) >= 2 /\ Len(text) \in Nat
    BY TextType, TextBegins
  <2> DEFINE c == [context EXCEPT !.state = s]
             o == Len(text)
  <2>4. /\ c \in CONTEXT /\ SameLeft(context, c) /\ SameCommand(context, c)
        /\ c.state = s /\ c.offset_len = o
    BY <1>3, <1>6, <2>2 DEF CONTEXT, SameLeft, SameCommand, States, ReadStates
  <2>5. Update(c) /\ ~c.parsing_flag
    BY <1>3, <2>1, <2>4 DEF SameLeft
  <2> HIDE DEF c
  <2>6. Whole(Stream, o)
    BY <1>4, <2>2, <2>3, WholeSkipText
  <2>7. o \in 0..Len(fifo) /\ o \in Nat /\ 0 <= o
    BY <1>4, <2>2, <2>3
  <2>8. FirstOf(c) = FirstOf(context) /\ ExpOf(c) = ExpOf(context) /\ MayOf(c) = MayOf(context)
    BY <2>4, SameExpected
  <2> HIDE DEF o
  <2>9. Answers(Stream, o, FirstOf(c).id, ExpOf(c), MayOf(c))
    BY <1>4, <2>7, <2>8, AnswersSkip
  <2>10. TriesOk(c, hist.sends)
    BY <1>5, <2>4, SameTries
  <2>11. ListOk(c) /\ c.state \in PlainStates
    BY <1>5, <2>4, <2>8 DEF ListOk, DataOf, SameCommand, PlainStates
  <2> QED BY <1>1, <2>4, <2>5, <2>6, <2>7, <2>9, <2>10, <2>11, PassEnd
<1>7. CASE /\ context.state = "READ_SEND"
           /\ Update([context EXCEPT !.state = "WRITE_DATA"])
  <2> DEFINE c == [context EXCEPT !.state = "WRITE_DATA"]
             o == context.offset_len
  <2>1. FrontIs(Stream, Len(fifo), ">") /\ o \in 1..2 /\ o <= Len(fifo)
    BY <1>5, <1>7 DEF PlaceOk
  <2>2. /\ ">" \in ExpOf(context) /\ ~Quiet(context) /\ context.busy_flag \in 1..2
        /\ Len(context.write_list) >= 1 /\ DataOf(context) \in BOOLEAN
    BY <1>1, <1>3, <2>1, FrontExpected
  <2>3. context.busy_flag = 1 /\ DataOf(context)
    BY <1>7, <2>2 DEF ExpOf, Exp2, Exp1
  <2>4. Len(Stream) >= 1 /\ Stream[1].of # 0 /\ Stream[1].c = ">"
    BY <1>4, <2>1 DEF FrontIs
  <2>5. Len(Stream) >= 2 /\ Stream[2].of # 0
    BY <1>4, <2>4, FrontAnswer
  <2>6. Whole(Stream, o)
    <3>1. o = 1 \/ o = 2
      BY <2>1
    <3>2. o \in 1..Len(Stream) /\ Stream[o].of # 0
      BY <1>4, <2>4, <2>5, <3>1
    <3> HIDE DEF o
    <3> QED BY <1>4, <3>2, WholeSkip
  <2>7. /\ c \in CONTEXT /\ SameLeft(context, c) /\ c.state = "WRITE_DATA" /\ c.offset_len = o
        /\ c.write_list = context.write_list /\ c.busy_flag = 1
        /\ c.is_cmd_ok = context.is_cmd_ok
    BY <1>3, <2>3 DEF CONTEXT, SameLeft, States
  <2>8. Update(c) /\ ~c.parsing_flag
    BY <1>3, <1>7, <2>7 DEF SameLeft
  <2> HIDE DEF c
  <2>9. /\ FirstOf(c) = FirstOf(context) /\ DataOf(c) = DataOf(context)
        /\ MayOf(context) = May1(TRUE) /\ MayOf(c) = May1(TRUE) /\ ExpOf(c) = {"SP"}
        /\ ~Quiet(c)
    <3>1. FirstOf(c) = FirstOf(context)
      BY <2>7 DEF FirstOf
    <3>2. DataOf(c) = DataOf(context) /\ DataOf(context) = TRUE
      BY <2>3, <3>1 DEF DataOf
    <3>3. context.busy_flag # 2 /\ c.busy_flag # 2
      BY <2>3, <2>7
    <3>4. MayOf(context) = May1(TRUE) /\ MayOf(c) = May1(TRUE)
      BY <3>2, <3>3 DEF MayOf
    <3>5. ~Quiet(c)
      BY <2>7 DEF Quiet
    <3> QED BY <2>7, <3>1, <3>2, <3>4, <3>5 DEF ExpOf
  <2>10. \A x \in ExpOf(context) : <<Stream[1].c, x>> \in MayOf(context) => x \in {"SP"}
    BY <2>4, <2>9 DEF May1
  <2>11. 1 \in 1..Len(Stream) /\ o \in 0..Len(fifo) /\ o \in Nat /\ 1 <= o /\ 1 \in Nat
    BY <1>4, <2>1, <2>4
  <2>12. Answers(Stream, 1, FirstOf(context).id, {"SP"}, MayOf(context))
    BY <1>4, <2>4, <2>10, <2>11, AnswersBehind
  <2> HIDE DEF o
  <2>13. Answers(Stream, o, FirstOf(c).id, ExpOf(c), MayOf(c))
    <3>1. Answers(Stream, o, FirstOf(context).id, {"SP"}, MayOf(context))
      BY <1>4, <2>11, <2>12, AnswersSkip
    <3> QED BY <2>9, <3>1
  <2>14. ListOk(c)
    BY <2>2, <2>3, <2>7, <2>9 DEF ListOk
  <2>15. TriesOk(c, hist.sends)
    BY <1>5, <2>2, <2>7, <2>9 DEF TriesOk, Untried, TriesOfFirst, ResumedEntry
  <2>16. c.state \in PlainStates
    BY <2>7 DEF PlainStates
  <2> QED BY <1>1, <2>6, <2>7, <2>8, <2>11, <2>13, <2>14, <2>15, <2>16, PassEnd
<1> QED BY <1>2, <1>6, <1>7

(* A try less for the first command, whose time is over. *)
RetriedList == [context.write_list EXCEPT ![1] = [@ EXCEPT !.retry = Tried]]

(* Then the sendings are within the tries that are left. *)
LEMMA Retried ==
  ASSUME TypeInv, TriesOk(context, hist.sends), ~NoFirst, Tried # 0,
         NEW c, c.write_list = RetriedList, c.is_cmd_ok = context.is_cmd_ok, Quiet(c)
  PROVE  /\ Len(c.write_list) >= 1 /\ TriesOk(c, hist.sends)
         /\ FirstOf(c).id = FirstOf(context).id /\ DataOf(c) = DataOf(context)
<1> DEFINE list == context.write_list
           f == list[1]
           e == [f EXCEPT !.retry = Tried]
           a == hist.sends[f.id]
           b == Cmds[f.id].retry
<1>1. First \in ENTRY /\ First = f /\ Len(list) >= 1 /\ list \in Seq(ENTRY)
  BY FirstType, Fields
<1>2. TriesOfFirst(context, f, hist.sends) /\ f \in ENTRY
  BY <1>1 DEF TriesOk, FirstOf
<1>3. Tried \in 0..255 /\ (f.retry \in 1..255 => Tried = f.retry - 1)
  BY <1>1, TriedFacts
<1>4. /\ RetriedList = [list EXCEPT ![1] = e] /\ GoodList(list, hist.written)
      /\ hist \in HIST
  BY Fields DEF RetriedList
<1>5. \A i \in 2..Len(list) : Untried(context, list[i], hist.sends)
  BY DEF TriesOk
<1>6. c.write_list = RetriedList /\ FirstOf(context) = f
  BY DEF FirstOf
<1>17. list[1] = f
  OBVIOUS
<1> HIDE DEF list, f
<1>7. f.retry \in 0..255 /\ f.id \in 1..Len(Cmds)
  BY <1>2 DEF ENTRY
<1>8. /\ f.retry >= 1 /\ (f.del_cnt = 2 => Cmds[f.id].data /\ context.is_cmd_ok)
      /\ a + f.retry <= b + (IF Quiet(context) /\ ~ResumedEntry(context, f) THEN 0 ELSE 1)
  BY <1>2 DEF TriesOfFirst
<1>9. e \in ENTRY /\ e.id = f.id /\ e.del_cnt = f.del_cnt /\ e.retry = Tried
  BY <1>2, <1>3, ZenonT(40) DEF ENTRY
<1>10. a \in Nat /\ b \in Nat
  <2>1. hist.sends \in [1..Len(Cmds) -> Nat]
    BY <1>4 DEF HIST
  <2>2. b \in 1..255
    BY <1>7, CmdTypes
  <2>3. a \in Nat
    BY <1>7, <2>1
  <2> HIDE DEF a, b
  <2> QED BY <2>2, <2>3
<1>11. /\ Len(RetriedList) = Len(list) /\ RetriedList[1] = e
       /\ \A i \in 2..Len(list) : RetriedList[i] = list[i]
  <2> HIDE DEF e
  <2> QED BY <1>1, <1>4, <1>9, <1>17, SetFirstType
<1> HIDE DEF e
<1>12. a + Tried <= b /\ Tried >= 1
  <2> DEFINE d == IF Quiet(context) /\ ~ResumedEntry(context, f) THEN 0 ELSE 1
             r == f.retry
  <2>1. a + r <= b + d
    BY <1>8
  <2>4. d <= 1 /\ d \in Nat
    OBVIOUS
  <2>2. Tried = r - 1
    BY <1>3, <1>7, <1>8, SMTT(30)
  <2>3. r \in 0..255
    BY <1>7
  <2> HIDE DEF a, b, d, r
  <2>5. r \in Nat
    BY <2>3
  <2>6. a + r <= b + 1
    BY <1>10, <2>1, <2>4, <2>5
  <2> QED BY <1>3, <1>10, <2>2, <2>5, <2>6
<1>13. TriesOfFirst(c, e, hist.sends)
  <2>1. hist.sends[e.id] = a /\ Cmds[e.id].retry = b /\ Cmds[e.id].data = Cmds[f.id].data
    BY <1>9
  <2>2. a + Tried <= b + (IF Quiet(c) /\ ~ResumedEntry(c, e) THEN 0 ELSE 1)
    <3> HIDE DEF a, b
    <3> QED BY <1>3, <1>10, <1>12
  <2> HIDE DEF a, b
  <2> QED BY <1>8, <1>9, <1>12, <2>1, <2>2 DEF TriesOfFirst
<1>14. \A i \in 2..Len(c.write_list) : Untried(c, c.write_list[i], hist.sends)
  BY <1>5, <1>6, <1>11 DEF Untried, ResumedEntry
<1>15. FirstOf(c) = e
  BY <1>6, <1>11 DEF FirstOf
<1>16. FirstOf(c).id = FirstOf(context).id
  BY <1>6, <1>9, <1>15
<1> QED BY <1>1, <1>6, <1>11, <1>13, <1>14, <1>15, <1>16 DEF TriesOk, DataOf

(* An ERROR: the fifo is emptied, and with it the answers to the command. *)
LEMMA ReadErrorStep ==
  ASSUME TypeInv, InStep, ReadError, ~hist'.off_step
  PROVE  (Live' => InStep') /\ call'.at # "wild"
<1>1. call.at = "handle" /\ context.state = "READ_ERROR" /\ ~context.parsing_flag
  BY DEF ReadError, Handles, TypeInv
<1>2. /\ Whole(Stream, 0)
      /\ Answers(Stream, 0, FirstOf(context).id, ExpOf(context), MayOf(context))
      /\ Stream \in Seq(BYTE) /\ Len(Stream) \in Nat /\ Len(fifo) \in Nat
      /\ Len(fifo) <= Len(Stream) /\ \A i \in 1..Len(fifo) : Stream[i] = fifo[i]
      /\ fifo \in Seq(BYTE)
  BY <1>1, PassFacts, StreamType
<1>3. FrontIs(Stream, Len(fifo), "E") /\ ListOk(context) /\ TriesOk(context, hist.sends)
  BY <1>1 DEF InStep, PlaceOk
<1>4. /\ ~Quiet(context) /\ context.busy_flag \in 1..2 /\ ~NoFirst
      /\ Len(context.write_list) >= 1
  BY <1>1, <1>3, FrontExpected
<1>5. /\ Len(fifo) >= 1 /\ Len(Stream) >= 1 /\ Stream[1].of # 0 /\ Stream[1].c = "E"
  BY <1>2, <1>3 DEF FrontIs
<1>6. /\ Len(Stream) >= 2 /\ Stream[2].of # 0 /\ Stream[2].c = "R" /\ Stream[1].rest = 1
  BY <1>2, <1>5, FrontAnswer DEF Next_c
<1>7. /\ fifo' = <<>> /\ UNCHANGED <<age, wire>>
      /\ context' = [context EXCEPT !.state = "WRITE",
                                    !.write_list = IF Tried = 0 THEN Tail(@) ELSE RetriedList]
      /\ call' = At(IF Tried = 0 THEN "closed" ELSE "poll")
      /\ hist' = [hist EXCEPT !.off_step = @ \/ InMessage]
  BY <1>4 DEF ReadError, RetriedList
<1>8. call'.at # "wild" /\ (Tried = 0 => ~Live')
  <2>1. Tried = 0 => call'.at = "closed"
    BY <1>7, AtType
  <2>2. Tried # 0 => call'.at = "poll"
    BY <1>7, AtType
  <2> QED BY <2>1, <2>2 DEF Live
<1>9. ~InMessage /\ hist'.sends = hist.sends
  <2>1. hist \in HIST
    BY Fields
  <2> QED BY <1>7, <2>1 DEF HIST
<1> SUFFICES ASSUME Tried # 0 PROVE InStep'
  BY <1>8
<1> DEFINE n == Len(fifo)
<1>10. Stream[n].rest = 0
  <2>1. fifo # <<>> /\ n \in 1..Len(fifo)
    BY <1>2, <1>5
  <2>2. fifo[n] \in BYTE
    BY <1>2, <2>1
  <2>3. fifo[n].rest \in Nat /\ ~(fifo[n].rest > 0)
    BY <1>9, <2>1, <2>2 DEF InMessage, Last, BYTE
  <2> QED BY <1>2, <2>1, <2>3
<1>11. n >= 2 /\ n \in 1..Len(Stream) /\ n \in 0..Len(fifo) /\ n \in Nat
  <2>1. n \in Nat /\ n >= 1 /\ n <= Len(Stream) /\ n = Len(fifo)
    BY <1>2, <1>5
  <2>2. Stream[n].rest = 0
    BY <1>10
  <2> HIDE DEF n
  <2>3. n # 1
    BY <1>6, <2>2
  <2> QED BY <1>2, <2>1, <2>3
<1>12. fifo' = Drop(fifo, n)
  BY <1>2, <1>7, <1>11, DropAll
<1> HIDE DEF n
<1>13. Whole(Stream, n)
  BY <1>2, <1>10, <1>11, WholeSkip
<1>14. NoAnswers(Stream, n)
  <2>1. \A x \in ExpOf(context) : <<Stream[2].c, x>> \in MayOf(context) => x \in {}
    <3>1. \A x : <<"R", x>> \notin May2 /\ <<"R", x>> \notin May1(DataOf(context))
      BY DEF May1, May2
    <3> QED BY <1>6, <3>1 DEF MayOf
  <2>2. 2 \in 1..Len(Stream) /\ 2 \in Nat
    BY <1>2, <1>6
  <2>3. Answers(Stream, 2, FirstOf(context).id, {}, MayOf(context))
    BY <1>2, <1>6, <2>1, <2>2, AnswersBehind
  <2>4. Answers(Stream, n, FirstOf(context).id, {}, MayOf(context))
    BY <1>2, <1>11, <2>2, <2>3, AnswersSkip
  <2> QED BY <2>4, NoneExpected
<1>15. /\ context'.state = "WRITE" /\ context'.write_list = RetriedList
       /\ context'.busy_flag = context.busy_flag /\ context'.is_cmd_ok = context.is_cmd_ok
       /\ ~context'.parsing_flag
  BY <1>1, <1>7, Fields DEF CONTEXT
<1>16. Quiet(context')
  BY <1>15 DEF Quiet
<1>17. /\ Len(context'.write_list) >= 1 /\ TriesOk(context', hist.sends)
       /\ DataOf(context') = DataOf(context)
  BY <1>3, <1>4, <1>15, <1>16, Retried
<1>18. ListOk(context')
  BY <1>3, <1>15, <1>17 DEF ListOk
<1>19. Answers(Stream, n, FirstOf(context').id, ExpOf(context'), MayOf(context'))
  BY <1>14, NoAnswersAny
<1>20. context'.state \in PlainStates /\ call' = At("poll")
  BY <1>7, <1>15 DEF PlainStates
<1> QED BY <1>7, <1>9, <1>11, <1>12, <1>13, <1>15, <1>17, <1>18, <1>19, <1>20, BytesTaken

(* The list after an OK, entry by entry. *)
LEMMA OkListFacts ==
  ASSUME TypeInv, ~NoFirst
  PROVE  /\ First.del_cnt = 1 =>
              /\ Len(OkList) = Len(context.write_list) - 1
              /\ \A i \in 1..Len(OkList) : OkList[i] = context.write_list[i + 1]
         /\ First.del_cnt # 1 =>
              /\ Len(OkList) = Len(context.write_list)
              /\ OkList[1].id = First.id /\ OkList[1].retry = First.retry
              /\ OkList[1].del_cnt = 1 /\ First.del_cnt = 2
              /\ \A i \in 2..Len(OkList) : OkList[i] = context.write_list[i]
         /\ Len(context.write_list) \in Nat
<1> DEFINE list == context.write_list
           e == [list[1] EXCEPT !.del_cnt = First.del_cnt - 1]
<1>1. First \in ENTRY /\ First = list[1] /\ Len(list) >= 1
  BY FirstType
<1>2. list \in Seq(ENTRY) /\ GoodList(list, hist.written) /\ hist.written \in Nat
  BY Fields
<1>3. OkList = IF First.del_cnt = 1 THEN Tail(list) ELSE [list EXCEPT ![1] = e]
  BY DEF OkList
<1> HIDE DEF list
<1>4. ASSUME First.del_cnt = 1
      PROVE  /\ Len(OkList) = Len(list) - 1
             /\ \A i \in 1..Len(OkList) : OkList[i] = list[i + 1]
  BY <1>1, <1>2, <1>3, <1>4, TailType
<1>5. ASSUME First.del_cnt # 1
      PROVE  /\ Len(OkList) = Len(list)
             /\ OkList[1].id = First.id /\ OkList[1].retry = First.retry
             /\ OkList[1].del_cnt = 1 /\ First.del_cnt = 2
             /\ \A i \in 2..Len(OkList) : OkList[i] = list[i]
  <2>1. First.del_cnt \in 1..2
    BY <1>1 DEF ENTRY
  <2>2. First.del_cnt = 2 /\ First.del_cnt - 1 = 1 /\ list[1] \in ENTRY
    BY <1>1, <1>5, <2>1
  <2>3. /\ e \in ENTRY /\ e.id = list[1].id /\ e.retry = list[1].retry
        /\ e.del_cnt = 1
    <3>1. First.del_cnt - 1 \in 1..2 /\ list[1] \in ENTRY
      BY <2>2
    <3> QED BY <2>2, <3>1 DEF ENTRY
  <2>4. OkList = [list EXCEPT ![1] = e]
    BY <1>3, <1>5
  <2> HIDE DEF e
  <2>5. /\ Len(OkList) = Len(list) /\ OkList[1] = e
        /\ \A i \in 2..Len(list) : OkList[i] = list[i]
    BY <1>1, <1>2, <2>3, <2>4, SetFirstType
  <2> QED BY <1>1, <2>2, <2>3, <2>5
<1>6. Len(list) \in Nat
  BY <1>2
<1> QED BY <1>4, <1>5, <1>6 DEF list

(* Sendings and tries are as they should be after an OK: the next command  *)
(* has not gone out, or the first may be sent once more.                    *)
LEMMA CountedTries ==
  ASSUME TypeInv, ~NoFirst, TriesOk(context, hist.sends),
         NEW c, c.write_list = OkList, c.is_cmd_ok = context.is_cmd_ok
  PROVE  TriesOk(c, hist.sends)
<1> DEFINE list == context.write_list
<1>1. \A i \in 2..Len(list) : Untried(context, list[i], hist.sends)
  BY DEF TriesOk
<1>2. First = list[1] /\ Len(list) >= 1 /\ First \in ENTRY /\ Len(list) \in Nat
  BY FirstType, OkListFacts
<1>3. /\ First.id \in 1..Len(Cmds) /\ First.retry \in 0..255
      /\ \A i \in 1..Len(list) : list[i].id \in 1..Len(Cmds)
  <2>1. \A x \in ENTRY : x.id \in 1..Len(Cmds) /\ x.retry \in 0..255
    BY DEF ENTRY
  <2>2. list \in Seq(ENTRY)
    BY Fields
  <2>3. \A i \in 1..Len(list) : list[i] \in ENTRY
    BY <2>2
  <2> QED BY <1>2, <2>1, <2>3
<1>4. \A k \in 1..Len(Cmds) : hist.sends[k] \in Nat /\ Cmds[k].retry \in 1..255
  BY Fields, CmdTypes DEF HIST
<1>5. TriesOfFirst(context, list[1], hist.sends)
  BY <1>2 DEF TriesOk, FirstOf
<1>6. CASE First.del_cnt = 1
  <2>1. Len(OkList) = Len(list) - 1 /\ \A i \in 1..Len(OkList) : OkList[i] = list[i + 1]
    BY <1>6, OkListFacts
  <2>2. \A i \in 1..Len(OkList) : Untried(c, OkList[i], hist.sends) /\ OkList[i].id \in 1..Len(Cmds)
    <3> TAKE i \in 1..Len(OkList)
    <3>1. i + 1 \in 2..Len(list) /\ i + 1 \in 1..Len(list)
      BY <1>2, <2>1
    <3>2. Untried(context, list[i + 1], hist.sends) /\ list[i + 1].id \in 1..Len(Cmds)
      BY <1>1, <1>3, <3>1
    <3> QED BY <2>1, <3>2 DEF Untried, ResumedEntry
  <2>3. ASSUME Len(OkList) >= 1
        PROVE  TriesOfFirst(c, OkList[1], hist.sends)
    <3> DEFINE e == OkList[1]
    <3>1. 1 \in 1..Len(OkList)
      BY <1>2, <2>1, <2>3
    <3>2. Untried(c, e, hist.sends) /\ e.id \in 1..Len(Cmds)
      BY <2>2, <3>1
    <3>3. Cmds[e.id].retry \in 1..255
      BY <1>4, <3>2
    <3>4. hist.sends[e.id] = 0 /\ e.retry = Cmds[e.id].retry
          /\ (e.del_cnt = 2 => Cmds[e.id].data /\ c.is_cmd_ok)
      BY <3>2 DEF Untried
    <3>5. hist.sends[e.id] + e.retry <=
            Cmds[e.id].retry + (IF Quiet(c) /\ ~ResumedEntry(c, e) THEN 0 ELSE 1)
      <4> DEFINE d == IF Quiet(c) /\ ~ResumedEntry(c, e) THEN 0 ELSE 1
                 r == Cmds[e.id].retry
      <4>1. d \in Nat /\ r \in 1..255
        BY <3>3
      <4>2. hist.sends[e.id] = 0 /\ e.retry = r
        BY <3>4
      <4> HIDE DEF d, r
      <4>3. 0 + r <= r + d
        BY <4>1
      <4> QED BY <4>2, <4>3 DEF d, r
    <3>6. e.retry >= 1
      <4> DEFINE r == Cmds[e.id].retry
      <4>1. r \in 1..255 /\ e.retry = r
        BY <3>3, <3>4
      <4> HIDE DEF r
      <4>2. r >= 1
        BY <4>1
      <4> QED BY <4>1, <4>2, SMTT(30)
    <3> QED BY <3>4, <3>5, <3>6 DEF TriesOfFirst
  <2>4. \A i \in 2..Len(OkList) : i \in 1..Len(OkList)
    BY <1>2, <2>1
  <2> QED BY <2>2, <2>3, <2>4 DEF TriesOk, FirstOf
<1>7. CASE First.del_cnt # 1
  <2>1. /\ Len(OkList) = Len(list) /\ OkList[1].id = First.id /\ OkList[1].retry = First.retry
        /\ OkList[1].del_cnt = 1 /\ First.del_cnt = 2
        /\ \A i \in 2..Len(OkList) : OkList[i] = list[i]
    BY <1>7, OkListFacts
  <2>2. \A i \in 2..Len(OkList) : Untried(c, OkList[i], hist.sends)
    BY <1>1, <2>1 DEF Untried, ResumedEntry
  <2> DEFINE e == OkList[1]
             a == hist.sends[First.id]
             b == Cmds[First.id].retry
             d == IF Quiet(context) /\ ~ResumedEntry(context, list[1]) THEN 0 ELSE 1
  <2>3. /\ First.retry >= 1 /\ Cmds[First.id].data /\ context.is_cmd_ok
        /\ a + First.retry <= b + d
    BY <1>2, <1>5, <2>1 DEF TriesOfFirst
  <2>4. ResumedEntry(c, e)
    BY <2>1, <2>3 DEF ResumedEntry
  <2>5. a + First.retry <= b + 1
    <3>1. a \in Nat /\ d \in Nat /\ d <= 1
      BY <1>3, <1>4
    <3>2. b \in 1..255
      BY <1>3, <1>4
    <3> DEFINE r == First.retry
    <3>3. r \in 0..255 /\ a + r <= b + d
      BY <1>3, <2>3
    <3> HIDE DEF a, b, d, r
    <3>4. a + r <= b + 1
      BY <3>1, <3>2, <3>3
    <3> QED BY <3>4 DEF r
  <2>6. TriesOfFirst(c, e, hist.sends)
    <3>1. hist.sends[e.id] = a /\ Cmds[e.id].retry = b /\ e.retry = First.retry
      BY <2>1
    <3>2. e.del_cnt # 2
      BY <2>1
    <3> HIDE DEF a, b, e
    <3> QED BY <2>3, <2>4, <2>5, <3>1, <3>2 DEF TriesOfFirst
  <2> QED BY <2>2, <2>6 DEF TriesOk, FirstOf
<1> QED BY <1>6, <1>7

(* An OK is counted, and one answer less is to come. *)
LEMMA ReadOkStep ==
  ASSUME TypeInv, InStep, ReadOk
  PROVE  InStep' /\ call'.at # "wild"
<1>1. call.at = "handle" /\ context.state = "READ_OK" /\ ~context.parsing_flag
  BY DEF ReadOk, Handles, TypeInv
<1>2. /\ Whole(Stream, 0)
      /\ Answers(Stream, 0, FirstOf(context).id, ExpOf(context), MayOf(context))
      /\ Stream \in Seq(BYTE) /\ Len(Stream) \in Nat /\ Len(fifo) \in Nat
      /\ Len(fifo) <= Len(Stream)
  BY <1>1, PassFacts
<1>3. /\ FrontIs(Stream, Len(fifo), "O") /\ Len(fifo) >= 2 /\ context.offset_len = 2
      /\ ListOk(context) /\ TriesOk(context, hist.sends)
  BY <1>1 DEF InStep, PlaceOk
<1>4. /\ "O" \in ExpOf(context) /\ ~Quiet(context) /\ context.busy_flag \in 1..2
      /\ Len(context.write_list) >= 1 /\ ~NoFirst /\ First = FirstOf(context)
      /\ DataOf(context) \in BOOLEAN
  BY <1>1, <1>3, FrontExpected
<1>5. Len(Stream) >= 1 /\ Stream[1].of # 0 /\ Stream[1].c = "O"
  BY <1>2, <1>3 DEF FrontIs
<1>6. Len(Stream) >= 2 /\ Stream[2].of # 0 /\ Stream[2].c = "K"
  BY <1>2, <1>5, FrontAnswer DEF Next_c
<1>7. 2 \in 1..Len(Stream) /\ 2 \in 0..Len(fifo) /\ 2 \in Nat
  BY <1>2, <1>3, <1>6
<1>8. Whole(Stream, 2)
  BY <1>2, <1>6, <1>7, WholeSkip
<1> DEFINE c == Counted
<1>9. Update(c) /\ UNCHANGED <<age, wire, hist>>
  BY <1>4 DEF ReadOk
<1>10. /\ c \in CONTEXT /\ c.state = "IDLE" /\ c.busy_flag = OkFlag
       /\ c.write_list = OkList /\ c.offset_len = 2 /\ ~c.parsing_flag
       /\ c.is_cmd_ok = context.is_cmd_ok
  <2>1. /\ OkList \in Seq(ENTRY) /\ OkFlag \in 0..2
        /\ c = PassTo(context, "IDLE", OkFlag, OkList, context.offset_len)
    BY <1>4, OkListType
  <2>2. "IDLE" \in States /\ context \in CONTEXT /\ context.offset_len \in Nat
    BY Fields DEF States
  <2> HIDE DEF c
  <2> QED BY <1>1, <1>3, <2>1, <2>2 DEF PassTo, CONTEXT
<1> HIDE DEF c
<1>11. TriesOk(c, hist.sends)
  BY <1>3, <1>4, <1>10, CountedTries
<1>12. CASE context.busy_flag = 2 \/ ~DataOf(context)
  <2>1. OkFlag = 0
    BY <1>4, <1>12 DEF OkFlag, DataOf
  <2>2. Quiet(c) /\ ListOk(c)
    BY <1>10, <2>1 DEF Quiet, ListOk
  <2>3. \A x : <<"K", x>> \notin MayOf(context)
    <3>1. CASE context.busy_flag = 2
      BY <3>1 DEF MayOf, May2
    <3>2. CASE ~(context.busy_flag = 2)
      <4>1. ~DataOf(context)
        BY <1>12, <3>2
      <4>2. May1(DataOf(context)) = {<<">", "SP">>}
        BY <4>1, Zenon DEF May1
      <4>3. MayOf(context) = May1(DataOf(context))
        BY <3>2 DEF MayOf
      <4>4. \A x : <<"K", x>> \notin {<<">", "SP">>}
        OBVIOUS
      <4> QED BY <4>2, <4>3, <4>4
    <3> QED BY ONLY <3>1, <3>2, Zenon
  <2>4. Answers(Stream, 2, FirstOf(context).id, {}, MayOf(context))
    BY <1>2, <1>6, <1>7, <2>3, AnswersBehind
  <2>5. Answers(Stream, 2, FirstOf(c).id, ExpOf(c), MayOf(c))
    BY <2>4, NoneExpected, NoAnswersAny
  <2> QED BY <1>7, <1>8, <1>9, <1>10, <1>11, <2>2, <2>5, PassEnd, AtType DEF PlainStates, Update, Loop
<1>13. CASE context.busy_flag = 1 /\ DataOf(context) = TRUE
  <2>1. context.is_cmd_ok /\ FirstOf(context).del_cnt = 2
    BY <1>1, <1>4, <1>13 DEF ExpOf, Exp1
  <2>2. OkFlag = 1 /\ OkList[1].id = First.id /\ OkList[1].del_cnt = 1
        /\ Len(OkList) = Len(context.write_list)
    BY <1>4, <1>13, <2>1, OkListFacts DEF OkFlag, DataOf
  <2>3. FirstOf(c).id = FirstOf(context).id /\ FirstOf(c).del_cnt = 1 /\ DataOf(c) = TRUE
    BY <1>4, <1>10, <1>13, <2>2 DEF FirstOf, DataOf
  <2>4. ~Quiet(c) /\ ListOk(c)
    BY <1>4, <1>10, <2>2 DEF Quiet, ListOk
  <2>5. MayOf(c) = May1(TRUE) /\ MayOf(context) = May1(TRUE)
    BY <1>10, <1>13, <2>2, <2>3 DEF MayOf
  <2>6. ExpOf(c) = {">", "SP", "E", "R"}
    BY <1>10, <2>2, <2>3, <2>4 DEF ExpOf, Exp1
  <2>7. \A x \in ExpOf(context) : <<Stream[2].c, x>> \in MayOf(context) => x \in {">", "SP", "E", "R"}
    BY <1>6, <2>5 DEF May1
  <2>8. Answers(Stream, 2, FirstOf(context).id, {">", "SP", "E", "R"}, MayOf(context))
    BY <1>2, <1>6, <1>7, <2>7, AnswersBehind
  <2>9. Answers(Stream, 2, FirstOf(c).id, ExpOf(c), MayOf(c))
    BY <2>3, <2>5, <2>6, <2>8
  <2> QED BY <1>7, <1>8, <1>9, <1>10, <1>11, <2>4, <2>9, PassEnd, AtType DEF PlainStates, Update, Loop
<1>14. context.busy_flag = 2 \/ ~DataOf(context) \/ (context.busy_flag = 1 /\ DataOf(context) = TRUE)
  BY <1>4
<1> QED BY <1>12, <1>13, <1>14

(* The first bytes of a +CSQ answer. *)
LEMMA FrontSignal ==
  ASSUME NEW S \in Seq(BYTE), Whole(S, 0), Len(S) >= 1, S[1].of # 0, S[1].c = "+"
  PROVE  /\ Len(S) >= 5 /\ \A i \in 1..5 : S[i].of # 0
         /\ S[4].c = "O" /\ S[5].c = "K"
<1>0. Len(S) \in Nat
  OBVIOUS
<1>1. \A k \in 1..Len(S) : S[k].of # 0 =>
        /\ AnswerByte(S[k])
        /\ S[k].rest > 0 => k < Len(S) /\ Continues(S[k], S[k + 1])
  <2>1. \A k \in 1..Len(S) : k \in (0 + 1)..Len(S)
    BY <1>0
  <2> QED BY <2>1 DEF Whole, AnswersWhole
<1>2. S[1].rest = 4 /\ 1 \in 1..Len(S)
  BY <1>0, <1>1 DEF AnswerByte
<1>3. 1 < Len(S) /\ S[2].of # 0 /\ S[2].rest = 3 /\ S[2].c = "C"
  <2>1. 1 < Len(S) /\ Continues(S[1], S[1 + 1]) /\ 1 + 1 = 2
    BY <1>1, <1>2
  <2> QED BY <1>2, <2>1 DEF Continues, Next_c
<1>4. 2 < Len(S) /\ S[3].of # 0 /\ S[3].rest = 2 /\ S[3].c = "n"
  <2>1. 2 < Len(S) /\ Continues(S[2], S[2 + 1]) /\ 2 + 1 = 3
    BY <1>0, <1>1, <1>3
  <2> QED BY <1>3, <2>1 DEF Continues, Next_c
<1>5. 3 < Len(S) /\ S[4].of # 0 /\ S[4].rest = 1 /\ S[4].c = "O"
  <2>1. 3 < Len(S) /\ Continues(S[3], S[3 + 1]) /\ 3 + 1 = 4
    BY <1>0, <1>1, <1>4
  <2> QED BY <1>4, <2>1 DEF Continues, Next_c
<1>6. 4 < Len(S) /\ S[5].of # 0 /\ S[5].c = "K"
  <2>1. 4 < Len(S) /\ Continues(S[4], S[4 + 1]) /\ 4 + 1 = 5
    BY <1>0, <1>1, <1>5
  <2> QED BY <1>5, <2>1 DEF Continues, Next_c
<1>7. Len(S) >= 5 /\ \A i \in 1..5 : i = 1 \/ i = 2 \/ i = 3 \/ i = 4 \/ i = 5
  BY <1>0, <1>6
<1> QED BY <1>3, <1>4, <1>5, <1>6, <1>7

(* The bytes of a +CSQ answer before its OK are dropped. *)
LEMMA ReadSignalStep ==
  ASSUME TypeInv, InStep, ReadSignal
  PROVE  InStep'
<1>1. /\ UNCHANGED <<age, wire, hist>>
      /\ \/ /\ SignalEnds(Buf) # {}
            /\ Update([context EXCEPT !.state = "IDLE", !.offset_len = SignalEnd(Buf) - 1])
         \/ Keep(context)
  BY DEF ReadSignal, SignalEnds, SignalEnd
<1>2. /\ call.at = "handle" /\ context.state = "READ_SIGNAL" /\ ~context.parsing_flag
      /\ context \in CONTEXT
  BY Fields DEF ReadSignal, Handles, TypeInv
<1>3. /\ Whole(Stream, 0)
      /\ Answers(Stream, 0, FirstOf(context).id, ExpOf(context), MayOf(context))
      /\ Buf \in Seq(BYTE) /\ Len(Buf) \in 1..Len(fifo) /\ Len(Buf) \in 1..Len(Stream)
      /\ \A i \in 1..Len(Buf) : Buf[i] = Stream[i]
      /\ Stream \in Seq(BYTE) /\ Len(Stream) \in Nat /\ Len(fifo) \in Nat
  BY <1>2, PassFacts
<1>4. /\ FrontIs(Stream, Len(fifo), "+")
      /\ ListOk(context) /\ TriesOk(context, hist.sends)
  BY <1>2 DEF InStep, PlaceOk
<1>5. /\ Len(Stream) >= 5 /\ \A i \in 1..5 : Stream[i].of # 0
      /\ Stream[4].c = "O" /\ Stream[5].c = "K"
  <2>1. Len(Stream) >= 1 /\ Stream[1].of # 0 /\ Stream[1].c = "+"
    BY <1>3, <1>4 DEF FrontIs
  <2> QED BY <1>3, <2>1, FrontSignal
<1>6. CASE Keep(context)
  <2>1. SameLeft(context, context) /\ SameCommand(context, context)
    BY DEF SameLeft, SameCommand
  <2>2. PlaceOk(Stream, Len(fifo), context) /\ context.state \in ReadStates
    BY <1>2 DEF InStep, ReadStates
  <2> QED BY <1>1, <1>2, <1>6, <2>1, <2>2, PassKept
<1>7. CASE /\ SignalEnds(Buf) # {}
           /\ Update([context EXCEPT !.state = "IDLE", !.offset_len = SignalEnd(Buf) - 1])
  <2> DEFINE k == SignalEnd(Buf)
             o == k - 1
             c == [context EXCEPT !.state = "IDLE", !.offset_len = o]
  <2>1. k \in 2..(Len(Buf) - 1) /\ \A m \in SignalEnds(Buf) : k <= m
    BY <1>3, <1>7, SignalEndIs
  <2>2. Len(Buf) >= 5 => 4 \in SignalEnds(Buf)
    <3> SUFFICES ASSUME Len(Buf) >= 5 PROVE 4 \in SignalEnds(Buf)
      OBVIOUS
    <3>1. 4 \in 1..Len(Buf) /\ 5 \in 1..Len(Buf) /\ 4 \in 2..(Len(Buf) - 1) /\ 4 + 1 = 5
      BY <1>3
    <3> QED BY <1>3, <1>5, <3>1 DEF SignalEnds
  <2> HIDE DEF k
  <2>3. k \in 2..4
    BY <1>3, <2>1, <2>2
  <2>4. o \in 1..3 /\ o \in Nat /\ o \in 0..Len(fifo) /\ o \in 1..Len(Stream) /\ o \in 1..5
    BY <1>3, <2>1, <2>3
  <2>5. Update(c)
    BY <1>7 DEF k
  <2> HIDE DEF o
  <2>6. Whole(Stream, o)
    BY <1>3, <1>5, <2>4, WholeSkip
  <2>7. /\ c \in CONTEXT /\ SameLeft(context, c) /\ SameCommand(context, c)
        /\ c.state = "IDLE" /\ c.offset_len = o
    BY <1>2, <2>4 DEF CONTEXT, SameLeft, SameCommand, States
  <2> HIDE DEF c
  <2>8. FirstOf(c) = FirstOf(context) /\ ExpOf(c) = ExpOf(context) /\ MayOf(c) = MayOf(context)
    BY <2>7, SameExpected
  <2>9. Answers(Stream, o, FirstOf(c).id, ExpOf(c), MayOf(c))
    BY <1>3, <2>4, <2>8, AnswersSkip
  <2>10. ListOk(c) /\ TriesOk(c, hist.sends) /\ c.state \in PlainStates
    <3>1. TriesOk(c, hist.sends)
      BY <1>4, <2>7, SameTries
    <3>2. ListOk(c)
      BY <1>4, <2>7, <2>8 DEF ListOk, DataOf, SameCommand
    <3> QED BY <2>7, <3>1, <3>2 DEF PlainStates
  <2> QED BY <1>1, <1>2, <2>4, <2>5, <2>6, <2>7, <2>9, <2>10, PassEnd DEF SameLeft
<1> QED BY <1>1, <1>6, <1>7

-----------------------------------------------------------------------------
(* Frames.                                                                 *)

(* The payload of a frame that the modem sends. *)
Payload(frame) ==
  \E text \in Unsolicited : \E k \in 1..Len(text) :
    text[k] = ":" /\ frame = SubSeq(Message(text, 0), k + 1, Len(text))

(* The bytes of a text that stands in front. *)
LEMMA SitsMessage ==
  ASSUME NEW S \in Seq(BYTE), NEW text \in Unsolicited, Sits(S, 1, text)
  PROVE  /\ Message(text, 0) \in Seq(BYTE) /\ Len(Message(text, 0)) = Len(text)
         /\ Len(text) \in Nat /\ Len(text) <= Len(S)
         /\ \A i \in 1..Len(text) : S[i] = Message(text, 0)[i] /\ S[i].c = text[i]
<1>1. text \in Seq(Chars) /\ Len(text) \in Nat /\ 0 \in Nat /\ Len(S) \in Nat
  BY TextType
<1>2. /\ Message(text, 0) \in Seq(BYTE) /\ Len(Message(text, 0)) = Len(text)
      /\ \A i \in 1..Len(text) :
           Message(text, 0)[i] = [c |-> text[i], of |-> 0, rest |-> Len(text) - i]
  BY <1>1, MessageFacts
<1>3. Len(text) <= Len(S)
  BY <1>1 DEF Sits
<1>4. \A i \in 1..Len(text) : S[i] = [c |-> text[i], of |-> 0, rest |-> Len(text) - i]
  <2> TAKE i \in 1..Len(text)
  <2>1. 1 + i - 1 = i
    BY <1>1
  <2>2. S[1 + i - 1] = [c |-> text[i], of |-> 0, rest |-> Len(text) - i]
    BY DEF Sits
  <2> QED BY <2>1, <2>2
<1>5. \A i \in 1..Len(text) : S[i] = Message(text, 0)[i] /\ S[i].c = text[i]
  <2> TAKE i \in 1..Len(text)
  <2>1. S[i] = [c |-> text[i], of |-> 0, rest |-> Len(text) - i]
    BY <1>4
  <2>2. S[i] = Message(text, 0)[i]
    BY <1>2, <2>1
  <2>3. S[i].c = text[i]
    BY <2>1
  <2> QED BY <2>2, <2>3
<1> QED BY <1>1, <1>2, <1>3, <1>5

(* A frame is given away; the rest of the stream is as it was. *)
LEMMA FrameDelivered ==
  ASSUME TypeInv, InStep, context.state = "READ_IPD_DATA", UNCHANGED <<age, wire>>,
         NEW frame, NEW n \in 0..Len(fifo), Deliver(frame, n), Whole(Stream, n),
         Answers(Stream, n, FirstOf(context).id, ExpOf(context), MayOf(context))
  PROVE  InStep' /\ hist'.frame = frame /\ call' = At("poll")
<1> DEFINE c == [context EXCEPT !.state = "IDLE", !.parsing_flag = FALSE,
                                !.buf_union = NoBuf, !.frame_sum = 0,
                                !.offset_len = n]
<1>0. context \in CONTEXT /\ hist \in HIST /\ n \in Nat /\ NoBuf \in BUFFER /\ "IDLE" \in States
  BY Fields, StreamType DEF NoBuf, BUFFER, States
<1>1. Update(c) /\ hist' = [hist EXCEPT !.frame = frame]
  BY DEF Deliver
<1>2. /\ c \in CONTEXT /\ SameCommand(context, c) /\ c.state = "IDLE"
      /\ ~c.parsing_flag /\ c.offset_len = n
  BY <1>0 DEF CONTEXT, SameCommand
<1> HIDE DEF c
<1>3. hist'.sends = hist.sends /\ hist'.frame = frame
  BY <1>0, <1>1 DEF HIST
<1>4. FirstOf(c) = FirstOf(context) /\ ExpOf(c) = ExpOf(context) /\ MayOf(c) = MayOf(context)
  BY <1>2, SameExpected
<1>5. ListOk(c) /\ TriesOk(c, hist.sends) /\ c.state \in PlainStates
  <2>1. TriesOk(c, hist.sends)
    BY <1>2, SameTries DEF InStep
  <2>2. ListOk(c)
    BY <1>2, <1>4 DEF InStep, ListOk, DataOf, SameCommand
  <2> QED BY <1>2, <2>1, <2>2 DEF PlainStates
<1>6. call' = At("poll")
  BY <1>1, <1>2 DEF Update, Loop
<1> QED BY <1>1, <1>2, <1>3, <1>4, <1>5, <1>6, PassEnd

(* A part of a frame is kept, and the rest of it stands in front. *)
LEMMA PartKept ==
  ASSUME TypeInv, InStep, call.at = "handle", context.state = "READ_IPD_DATA",
         UNCHANGED <<age, wire>>, NEW b \in BUFFER, KeepPart(b),
         NEW left \in Nat, b.len = Len(b.buf) + left,
         NEW e \in Nat, e = Len(Buf) + left, e <= Len(Stream), Whole(Stream, e),
         Answers(Stream, e, FirstOf(context).id, ExpOf(context), MayOf(context)),
         Payload(b.buf \o SubSeq(Drop(Stream, Len(Buf)), 1, left))
  PROVE  InStep' /\ UNCHANGED hist
<1> DEFINE n == Len(Buf)
           c == [context EXCEPT !.parsing_flag = TRUE, !.buf_union = b,
                                !.frame_sum = Len(b.buf), !.offset_len = n]
           T == Drop(Stream, n)
<1>0. /\ context \in CONTEXT /\ b.buf \in Seq(BYTE) /\ Len(b.buf) \in Nat
      /\ n \in 0..Len(fifo) /\ n \in Nat /\ Stream \in Seq(BYTE) /\ Len(Stream) \in Nat
      /\ Len(fifo) \in Nat
  BY Fields, BufType, StreamType DEF BUFFER
<1>1. Update(c) /\ UNCHANGED hist
  BY DEF KeepPart
<1>2. context' = [c EXCEPT !.offset_len = 0] /\ fifo' = Drop(fifo, n)
      /\ call' = At(IF c.parsing_flag THEN "peek" ELSE "poll")
  <2>1. c.offset_len = n
    BY <1>0 DEF CONTEXT
  <2> HIDE DEF c, n
  <2> QED BY <1>1, <2>1 DEF Update, Loop, Drop
<1>3. /\ SameCommand(context, context') /\ context'.state = "READ_IPD_DATA"
      /\ context'.parsing_flag = TRUE /\ context'.buf_union = b
      /\ context'.frame_sum = Len(b.buf) /\ c.parsing_flag
  BY <1>0, <1>2 DEF CONTEXT, SameCommand
<1> HIDE DEF c
<1>4. Stream' = T
  <2> HIDE DEF n
  <2> QED BY <1>0, <1>2, StreamTaken DEF T
<1>5. FrameLeft(context') = left
  BY <1>0, <1>3 DEF FrameLeft
<1>6. e \in 0..Len(Stream) /\ n \in 0..e /\ e - n = left /\ n \in 0..Len(Stream)
  BY <1>0
<1>7. Whole(T, left)
  <2> HIDE DEF n
  <2> QED BY <1>0, <1>6, WholeShift DEF T
<1>8. Answers(T, left, FirstOf(context).id, ExpOf(context), MayOf(context))
  <2> HIDE DEF n
  <2> QED BY <1>0, <1>6, AnswersShift DEF T
<1>9. Len(T) = Len(Stream) - n
  <2> HIDE DEF n
  <2> QED BY <1>0, <1>6, DropFacts DEF T
<1>10. StreamOk(Stream', context')
  <2>1. FirstOf(context') = FirstOf(context) /\ ExpOf(context') = ExpOf(context)
        /\ MayOf(context') = MayOf(context)
    BY <1>3, SameExpected
  <2> HIDE DEF T
  <2> QED BY <1>4, <1>5, <1>7, <1>8, <2>1 DEF StreamOk
<1>11. FrameOk(Stream', context')
  <2>1. left <= Len(T)
    <3> HIDE DEF n, T
    <3> QED BY <1>0, <1>6, <1>9
  <2>2. Payload(b.buf \o SubSeq(T, 1, left))
    OBVIOUS
  <2> HIDE DEF T
  <2> QED BY <1>3, <1>4, <1>5, <2>1, <2>2 DEF FrameOk, Payload
<1>12. PlaceOk(Stream', Len(fifo'), context')
  BY <1>3 DEF PlaceOk, NoticeStates
<1>13. PassOk(context', call')
  BY <1>2, <1>3, AtType DEF PassOk
<1>14. ListOk(context') /\ TriesOk(context', hist'.sends)
  <2>1. TriesOk(context', hist.sends)
    BY <1>3, SameTries DEF InStep
  <2>2. ListOk(context')
    BY <1>3 DEF InStep, ListOk, DataOf, FirstOf, SameCommand
  <2> QED BY <1>1, <2>1, <2>2
<1> QED BY <1>1, <1>10, <1>11, <1>12, <1>13, <1>14 DEF InStep

(* A frame whose first bytes were kept, and what is left of it, make the    *)
(* frame.                                                                  *)
LEMMA PartAndRest ==
  ASSUME NEW S \in Seq(BYTE), NEW M \in Seq(BYTE), NEW k \in Nat,
         NEW n \in Nat, k <= n, n <= Len(M), Len(M) <= Len(S),
         \A i \in 1..Len(M) : S[i] = M[i]
  PROVE  SubSeq(S, k + 1, n) \o SubSeq(Drop(S, n), 1, Len(M) - n) = SubSeq(M, k + 1, Len(M))
<1> DEFINE m == Len(M)
<1>9. m = Len(M) /\ m \in Nat /\ n <= m /\ m <= Len(S) /\ \A i \in 1..m : S[i] = M[i]
  OBVIOUS
<1> HIDE DEF m
<1> DEFINE a == SubSeq(S, k + 1, n)
           d == Drop(S, n)
           b == SubSeq(d, 1, m - n)
           f == SubSeq(M, k + 1, m)
<1>0. /\ Len(S) \in Nat /\ n \in 0..Len(S) /\ k + 1 \in Nat \ {0} /\ k + 1 <= n + 1
      /\ k + 1 <= m + 1 /\ m - n \in 0..(Len(S) - n) /\ m <= Len(M) /\ n <= Len(S)
  BY <1>9
<1>1. /\ a \in Seq(BYTE) /\ Len(a) = n - (k + 1) + 1
      /\ \A i \in 1..(n - (k + 1) + 1) : a[i] = S[k + 1 + i - 1]
  BY <1>0, MiddleFacts
<1>2. /\ d \in Seq(BYTE) /\ Len(d) = Len(S) - n
      /\ \A i \in 1..(Len(S) - n) : d[i] = S[i + n]
  BY <1>0, DropFacts
<1>3. /\ b \in Seq(BYTE) /\ Len(b) = m - n /\ \A i \in 1..(m - n) : b[i] = d[i]
  <2> HIDE DEF d
  <2> QED BY <1>0, <1>2, FrontFacts
<1>4. /\ f \in Seq(BYTE) /\ Len(f) = m - (k + 1) + 1
      /\ \A i \in 1..(m - (k + 1) + 1) : f[i] = M[k + 1 + i - 1]
  BY <1>0, <1>9, MiddleFacts
<1> HIDE DEF a, b, d, f
<1>5. /\ a \o b \in Seq(BYTE) /\ Len(a \o b) = Len(a) + Len(b)
      /\ \A i \in 1..Len(a) : (a \o b)[i] = a[i]
      /\ \A i \in (Len(a) + 1)..(Len(a) + Len(b)) : (a \o b)[i] = b[i - Len(a)]
  BY <1>1, <1>3, CatBytes
<1>6. Len(a \o b) = m - k /\ Len(f) = m - k /\ Len(a) = n - k /\ Len(b) = m - n
  BY <1>0, <1>1, <1>3, <1>4, <1>5, <1>9
<1>7. \A i \in 1..Len(a \o b) : (a \o b)[i] = f[i]
  <2> TAKE i \in 1..Len(a \o b)
  <2>1. i \in 1..(m - k) /\ i \in Nat
    BY <1>6
  <2>2. f[i] = M[k + i] /\ k + i \in 1..m
    <3>1. i \in 1..(m - (k + 1) + 1) /\ k + 1 + i - 1 = k + i /\ k + i \in 1..m
      BY <1>9, <2>1
    <3> QED BY <1>4, <3>1
  <2>3. CASE i <= n - k
    <3>1. i \in 1..Len(a) /\ i \in 1..(n - (k + 1) + 1) /\ k + 1 + i - 1 = k + i
      BY <1>6, <1>9, <2>1, <2>3
    <3>2. (a \o b)[i] = S[k + i]
      BY <1>1, <1>5, <3>1
    <3> QED BY <1>9, <2>2, <3>2
  <2>4. CASE ~(i <= n - k)
    <3>1. /\ i \in (Len(a) + 1)..(Len(a) + Len(b)) /\ i - Len(a) = i - (n - k)
          /\ i - (n - k) \in 1..(m - n) /\ i - (n - k) \in 1..(Len(S) - n)
          /\ i - (n - k) + n = k + i
      BY <1>0, <1>6, <1>9, <2>1, <2>4
    <3>2. (a \o b)[i] = b[i - (n - k)]
      BY <1>5, <3>1
    <3>3. b[i - (n - k)] = S[i - (n - k) + n]
      BY <1>2, <1>3, <3>1
    <3> QED BY <1>9, <2>2, <3>1, <3>2, <3>3
  <2> QED BY <2>3, <2>4
<1>8. a \o b = f
  BY <1>4, <1>5, <1>6, <1>7, SeqEq
<1> QED BY <1>8, <1>9 DEF a, b, d, f

(* A frame that stands in front is given away, or its first part is kept. *)
LEMMA IpdHeaderStep ==
  ASSUME TypeInv, InStep, IpdHeader
  PROVE  /\ Live' => InStep'
         /\ UNCHANGED hist \/ Payload(hist'.frame)
         /\ call'.at # "wild"
<1> DEFINE head == HeaderLen(Buf)
           len  == DataLen(Digits(Buf))
<1>1. /\ call.at = "handle" /\ context.state = "READ_IPD_DATA" /\ ~context.parsing_flag
      /\ ~HeaderBad(Buf)
  BY Fields DEF IpdHeader, Handles, GoodFrame
<1>2. /\ Whole(Stream, 0)
      /\ Answers(Stream, 0, FirstOf(context).id, ExpOf(context), MayOf(context))
      /\ Buf \in Seq(BYTE) /\ Len(Buf) \in 1..Len(fifo) /\ Len(Buf) \in 1..Len(Stream)
      /\ \A i \in 1..Len(Buf) : Buf[i] = Stream[i]
      /\ Stream \in Seq(BYTE) /\ Len(Stream) \in Nat /\ Len(fifo) \in Nat
  BY <1>1, PassFacts
<1>3. \/ /\ head + len <= Len(Buf)
         /\ Deliver(SubSeq(Buf, head + 1, head + len), head + len)
         /\ UNCHANGED <<age, wire>>
      \/ /\ head + len > Len(Buf) /\ head <= Len(Buf)
         /\ KeepPart([len |-> len, buf |-> SubSeq(Buf, head + 1, Len(Buf))])
         /\ UNCHANGED <<age, wire>>
      \/ call' = At("overrun") /\ UNCHANGED <<context, fifo, age, wire, hist>>
  BY DEF IpdHeader
<1>4. Len(Buf) >= 5 /\ len \in Nat /\ len > 0 /\ head \in Nat /\ head >= 3 /\ Len(Buf) \in Nat
  BY <1>1, <1>2, HeaderType
<1>5. PICK text \in Unsolicited : Sits(Stream, 1, text) /\ IsFrame(text)
  BY <1>1 DEF InStep, PlaceOk
<1> DEFINE M == Message(text, 0)
<1>6. /\ M \in Seq(BYTE) /\ Len(M) = Len(text)
      /\ Len(text) \in Nat /\ Len(text) <= Len(Stream)
      /\ \A i \in 1..Len(text) : Stream[i] = M[i] /\ Stream[i].c = text[i]
      /\ text \in Seq(Chars)
  BY <1>2, <1>5, SitsMessage, TextType
<1> HIDE DEF M
<1>7. PICK k \in 3..Len(text) :
        /\ text[k] = ":" /\ \A j \in 1..(k - 1) : text[j] # ":"
        /\ DataLen(SubSeq(text, 3, k - 1)) = Len(text) - k
  BY <1>5 DEF IsFrame, TagLen
<1>8. \A i \in 1..Len(Buf) : i <= Len(text) => Buf[i].c = text[i]
  <2> SUFFICES ASSUME NEW i \in 1..Len(Buf), i <= Len(text) PROVE Buf[i].c = text[i]
    OBVIOUS
  <2>1. i \in 1..Len(text)
    BY <1>4, <1>6
  <2> QED BY <1>2, <1>6, <2>1
<1>9. /\ Len(Buf) < k => HeaderLen(Buf) = Len(Buf) + 1
      /\ Len(Buf) >= k => HeaderLen(Buf) = k /\ Digits(Buf) = SubSeq(text, 3, k - 1)
  <2>1. Len(Buf) >= 2
    BY <1>4
  <2> QED BY <1>2, <1>6, <1>7, <1>8, <2>1, FrameHeader
<1>10. Len(Buf) >= k => head = k /\ len = Len(text) - k
  BY <1>7, <1>9
<1>11. head <= Len(Buf) => Len(Buf) >= k
  <2>1. Len(Buf) < k => head = Len(Buf) + 1
    BY <1>9
  <2> HIDE DEF head, len
  <2> QED BY <1>4, <1>7, <2>1
<1>12. Whole(Stream, Len(text))
       /\ Answers(Stream, Len(text), FirstOf(context).id, ExpOf(context), MayOf(context))
  <2>1. Len(text) >= 1 /\ 0 <= Len(text) /\ 0 \in Nat
    BY <1>6, <1>7
  <2> QED BY <1>2, <1>5, <1>6, <2>1, WholeSkipText, AnswersSkip
<1>13. k \in 1..Len(text) /\ k \in Nat
  BY <1>6, <1>7
<1> HIDE DEF head, len
<1>14. CASE /\ head + len <= Len(Buf)
            /\ Deliver(SubSeq(Buf, head + 1, head + len), head + len)
            /\ UNCHANGED <<age, wire>>
  <2>1. head = k /\ head + len = Len(text) /\ Len(text) <= Len(Buf)
    <3>1. head <= Len(Buf)
      BY <1>4, <1>14
    <3>2. head = k /\ len = Len(text) - k
      BY <1>10, <1>11, <3>1
    <3> QED BY <1>6, <1>7, <1>13, <1>14, <3>2
  <2> DEFINE frame == SubSeq(Buf, k + 1, Len(text))
             n == Len(text)
  <2>2. Deliver(frame, n) /\ UNCHANGED <<age, wire>>
    BY <1>14, <2>1
  <2>3. frame = SubSeq(M, k + 1, Len(text))
    <3> DEFINE g == SubSeq(M, k + 1, Len(text))
    <3>1. /\ k + 1 \in Nat \ {0} /\ k + 1 <= Len(text) + 1 /\ Len(text) <= Len(M)
      BY <1>6, <1>13
    <3>2. /\ frame \in Seq(BYTE) /\ Len(frame) = Len(text) - (k + 1) + 1
          /\ \A i \in 1..(Len(text) - (k + 1) + 1) : frame[i] = Buf[k + 1 + i - 1]
      BY <1>2, <1>6, <2>1, <3>1, MiddleFacts
    <3>3. /\ g \in Seq(BYTE) /\ Len(g) = Len(text) - (k + 1) + 1
          /\ \A i \in 1..(Len(text) - (k + 1) + 1) : g[i] = M[k + 1 + i - 1]
      BY <1>6, <3>1, MiddleFacts
    <3>4. \A i \in 1..(Len(text) - (k + 1) + 1) : Buf[k + 1 + i - 1] = M[k + 1 + i - 1]
      <4> TAKE i \in 1..(Len(text) - (k + 1) + 1)
      <4> DEFINE j == k + 1 + i - 1
      <4>1. j \in 1..Len(text) /\ j \in 1..Len(Buf)
        BY <1>4, <1>6, <1>13, <2>1
      <4> HIDE DEF j
      <4>2. Buf[j] = M[j]
        BY <1>2, <1>6, <4>1
      <4> QED BY <4>2 DEF j
    <3> HIDE DEF frame, g
    <3>5. \A i \in 1..Len(frame) : frame[i] = g[i]
      BY <3>2, <3>3, <3>4
    <3>6. frame = g
      BY <3>2, <3>3, <3>5, SeqEq
    <3> QED BY <3>6 DEF g
  <2>4. Payload(frame)
    <3> HIDE DEF frame
    <3> QED BY <1>7, <1>13, <2>3 DEF Payload, M
  <2>5. n \in 0..Len(fifo) /\ Whole(Stream, n)
        /\ Answers(Stream, n, FirstOf(context).id, ExpOf(context), MayOf(context))
    BY <1>2, <1>6, <1>12, <2>1
  <2> HIDE DEF frame, n
  <2>6. InStep' /\ hist'.frame = frame /\ call' = At("poll")
    BY <1>1, <2>2, <2>5, FrameDelivered
  <2> QED BY <2>4, <2>6, AtType
<1>15. CASE /\ head + len > Len(Buf) /\ head <= Len(Buf)
            /\ KeepPart([len |-> len, buf |-> SubSeq(Buf, head + 1, Len(Buf))])
            /\ UNCHANGED <<age, wire>>
  <2>1. head = k /\ len = Len(text) - k /\ Len(text) > Len(Buf) /\ k <= Len(Buf)
    <3>1. head = k /\ len = Len(text) - k
      BY <1>10, <1>11, <1>15
    <3> QED BY <1>4, <1>6, <1>13, <1>15, <3>1
  <2> DEFINE n == Len(Buf)
             buf == SubSeq(Buf, k + 1, n)
             b == [len |-> len, buf |-> buf]
             left == Len(text) - n
  <2>2. KeepPart(b)
    BY <1>15, <2>1
  <2>3. buf = SubSeq(Stream, k + 1, n)
    <3> DEFINE g == SubSeq(Stream, k + 1, n)
    <3>1. k + 1 \in Nat \ {0} /\ k + 1 <= n + 1 /\ n <= Len(Buf) /\ n <= Len(Stream) /\ n \in Nat
      BY <1>2, <1>4, <1>13, <2>1
    <3>2. /\ buf \in Seq(BYTE) /\ Len(buf) = n - (k + 1) + 1
          /\ \A i \in 1..(n - (k + 1) + 1) : buf[i] = Buf[k + 1 + i - 1]
      BY <1>2, <3>1, MiddleFacts
    <3>3. /\ g \in Seq(BYTE) /\ Len(g) = n - (k + 1) + 1
          /\ \A i \in 1..(n - (k + 1) + 1) : g[i] = Stream[k + 1 + i - 1]
      BY <1>2, <3>1, MiddleFacts
    <3>4. \A i \in 1..(n - (k + 1) + 1) : Buf[k + 1 + i - 1] = Stream[k + 1 + i - 1]
      <4> TAKE i \in 1..(n - (k + 1) + 1)
      <4>1. k + 1 + i - 1 \in 1..Len(Buf)
        BY <1>4, <1>13, <2>1
      <4> QED BY <1>2, <4>1
    <3> HIDE DEF buf, g
    <3>5. \A i \in 1..Len(buf) : buf[i] = g[i]
      BY <3>2, <3>3, <3>4
    <3>6. buf = g
      BY <3>2, <3>3, <3>5, SeqEq
    <3> QED BY <3>6 DEF g
  <2>4. /\ buf \in Seq(BYTE) /\ Len(buf) = n - k /\ n \in Nat
    <3>1. k + 1 \in Nat \ {0} /\ k + 1 <= n + 1 /\ n <= Len(Buf) /\ n \in Nat
      BY <1>4, <1>13, <2>1
    <3>2. buf \in Seq(BYTE) /\ Len(buf) = n - (k + 1) + 1
      BY <1>2, <3>1, MiddleFacts
    <3> HIDE DEF buf, n
    <3> QED BY <1>13, <3>1, <3>2
  <2>5. buf \o SubSeq(Drop(Stream, n), 1, left) = SubSeq(M, k + 1, Len(text))
    <3>1. /\ k <= n /\ n <= Len(text) /\ Len(text) <= Len(Stream) /\ Len(text) = Len(M)
          /\ n \in Nat /\ k \in Nat /\ Len(text) \in Nat
      BY <1>4, <1>6, <1>13, <2>1
    <3>2. \A i \in 1..Len(text) : Stream[i] = M[i]
      BY <1>6
    <3> HIDE DEF buf, n
    <3>4. Stream \in Seq(BYTE) /\ M \in Seq(BYTE) /\ k \in Nat /\ n \in Nat
      BY <1>2, <1>6, <3>1
    <3>5. /\ k <= n /\ n <= Len(M) /\ Len(M) <= Len(Stream)
          /\ \A i \in 1..Len(M) : Stream[i] = M[i]
      BY <3>1, <3>2
    <3>6. SubSeq(Stream, k + 1, n) \o SubSeq(Drop(Stream, n), 1, Len(M) - n)
            = SubSeq(M, k + 1, Len(M))
      BY <3>4, <3>5, PartAndRest
    <3>3. SubSeq(Stream, k + 1, n) \o SubSeq(Drop(Stream, n), 1, Len(text) - n)
            = SubSeq(M, k + 1, Len(text))
      BY <3>1, <3>6
    <3> QED BY <2>3, <3>3
  <2>6. Payload(buf \o SubSeq(Drop(Stream, n), 1, left))
    <3> HIDE DEF buf, n, left
    <3> QED BY <1>7, <1>13, <2>5 DEF Payload, M
  <2> HIDE DEF buf
  <2>7. b \in BUFFER /\ b.buf = buf /\ b.len = len
    BY <1>4, <2>4 DEF BUFFER
  <2> HIDE DEF b
  <2>8. left \in Nat /\ b.len = Len(b.buf) + left /\ Len(text) = n + left
    <3> HIDE DEF n
    <3>1. n < Len(text) /\ len = Len(text) - k
      BY <2>1 DEF n
    <3>2. Len(b.buf) = n - k /\ b.len = len
      BY <2>4, <2>7
    <3> DEFINE m == Len(text)
    <3>3. m \in Nat /\ n < m /\ len = m - k /\ n \in Nat /\ k \in Nat
      BY <1>6, <1>13, <2>4, <3>1
    <3> HIDE DEF m
    <3>4. m - n \in Nat /\ len = (n - k) + (m - n) /\ m = n + (m - n)
      BY <3>3
    <3> QED BY <3>2, <3>4 DEF m
  <2>9. Payload(b.buf \o SubSeq(Drop(Stream, Len(Buf)), 1, left))
    BY <2>6, <2>7
  <2> HIDE DEF left
  <2>10. InStep' /\ UNCHANGED hist
    BY <1>1, <1>6, <1>12, <1>15, <2>2, <2>7, <2>8, <2>9, PartKept
  <2>11. call'.at # "wild"
    <3>1. \E x : call' = At(x) /\ x \in {"peek", "poll"}
      BY <2>2 DEF KeepPart, Update, Loop
    <3> QED BY <3>1, AtType
  <2> QED BY <2>10, <2>11
<1>16. CASE call' = At("overrun") /\ UNCHANGED <<context, fifo, age, wire, hist>>
  <2>1. call'.at = "overrun"
    BY <1>16, AtType
  <2> QED BY <1>16, <2>1 DEF Live
<1> QED BY <1>3, <1>14, <1>15, <1>16

(* More of a frame arrives. *)
LEMMA IpdMoreStep ==
  ASSUME TypeInv, InStep, IpdMore
  PROVE  /\ InStep'
         /\ UNCHANGED hist \/ Payload(hist'.frame)
         /\ call'.at # "wild"
<1> DEFINE u   == context.buf_union
           all == u.buf \o Buf
           b   == [u EXCEPT !.buf = all]
           L   == FrameLeft(context)
           n   == Len(Buf)
<1>1. /\ \/ Len(all) = u.len /\ Deliver(all, n)
         \/ Len(all) # u.len /\ KeepPart(b)
      /\ UNCHANGED <<age, wire>>
      /\ call.at = "handle" /\ context.state = "READ_IPD_DATA" /\ context.parsing_flag
  BY Fields DEF IpdMore, Handles, GoodFrame
<1>2. /\ Buf \in Seq(BYTE) /\ n = call.len /\ n \in 0..Len(fifo) /\ Len(fifo) \in Nat
      /\ \A i \in 1..n : Buf[i] = fifo[i]
      /\ u \in BUFFER /\ u.buf \in Seq(BYTE) /\ u.len \in Nat /\ Len(u.buf) \in Nat
  BY BufType, Fields, StreamType DEF CONTEXT, BUFFER
<1>3. /\ Stream \in Seq(BYTE) /\ Len(Stream) \in Nat /\ Len(fifo) <= Len(Stream)
      /\ \A i \in 1..Len(fifo) : Stream[i] = fifo[i]
  BY StreamType
<1>4. L = u.len - Len(u.buf) /\ n <= L
  BY <1>1, <1>2, Fields DEF TypeInv, Left, FrameLeft, GoodFrame
<1>5. /\ Whole(Stream, L) /\ L <= Len(Stream)
      /\ Answers(Stream, L, FirstOf(context).id, ExpOf(context), MayOf(context))
      /\ Payload(u.buf \o SubSeq(Stream, 1, L))
  BY <1>1 DEF InStep, StreamOk, FrameOk, Payload
<1> HIDE DEF u, n, L
<1>6. L \in Nat /\ n \in Nat /\ u.len = Len(u.buf) + L
  BY <1>2, <1>4
<1>7. /\ all \in Seq(BYTE) /\ Len(all) = Len(u.buf) + n
  BY <1>2, CatBytes DEF n
<1>8. Buf = SubSeq(Stream, 1, n)
  <2> DEFINE g == SubSeq(Stream, 1, n)
  <2>1. n \in 0..Len(Stream)
    BY <1>2, <1>3
  <2>2. g \in Seq(BYTE) /\ Len(g) = n /\ \A i \in 1..n : g[i] = Stream[i]
    BY <1>3, <2>1, FrontFacts
  <2> HIDE DEF g
  <2>3. \A i \in 1..n : Buf[i] = g[i]
    BY <1>2, <1>3, <2>2
  <2>4. Len(Buf) = n
    BY DEF n
  <2>5. Buf = g
    BY <1>2, <2>2, <2>3, <2>4, SeqEq
  <2> QED BY <2>5 DEF g
<1>9. CASE Len(all) = u.len /\ Deliver(all, n)
  <2>1. n = L
    <3>1. Len(all) = u.len
      BY <1>9
    <3> HIDE DEF all
    <3> DEFINE s == Len(u.buf)
    <3>2. s \in Nat /\ s + n = s + L
      BY <1>2, <1>6, <1>7, <3>1
    <3> HIDE DEF s
    <3> QED BY <1>6, <3>2
  <2>2. Payload(all)
    BY <1>5, <1>8, <2>1
  <2> HIDE DEF all
  <2>3. InStep' /\ hist'.frame = all /\ call' = At("poll")
    BY <1>1, <1>2, <1>5, <1>9, <2>1, FrameDelivered
  <2> QED BY <2>2, <2>3, AtType
<1>10. CASE Len(all) # u.len /\ KeepPart(b)
  <2> DEFINE left == L - n
  <2>1. left \in Nat /\ L = n + left
    BY <1>4, <1>6
  <2>2. b \in BUFFER /\ b.buf = all /\ b.len = u.len
    BY <1>2, <1>7 DEF BUFFER
  <2>3. all \o SubSeq(Drop(Stream, n), 1, left) = u.buf \o SubSeq(Stream, 1, L)
    <3> DEFINE x == SubSeq(Drop(Stream, n), 1, left)
               y == SubSeq(Stream, 1, L)
               M == SubSeq(Stream, 1, L)
    <3>1. M \in Seq(BYTE) /\ Len(M) = L /\ \A i \in 1..L : Stream[i] = M[i]
      BY <1>3, <1>5, <1>6, FrontFacts
    <3>2. SubSeq(M, 1, L) = M
      <4> DEFINE g == SubSeq(M, 1, L)
      <4>1. L \in 0..Len(M)
        BY <1>6, <3>1
      <4> HIDE DEF M
      <4>2. g \in Seq(BYTE) /\ Len(g) = L /\ \A i \in 1..L : g[i] = M[i]
        BY <3>1, <4>1, FrontFacts
      <4> HIDE DEF g
      <4>3. g = M
        BY <3>1, <4>2, SeqEq
      <4> QED BY <4>3 DEF g
    <3>3. SubSeq(Stream, 0 + 1, n) \o SubSeq(Drop(Stream, n), 1, Len(M) - n) = SubSeq(M, 0 + 1, Len(M))
      <4> HIDE DEF M
      <4>1. /\ 0 \in Nat /\ 0 <= n /\ n <= Len(M) /\ Len(M) <= Len(Stream)
            /\ \A i \in 1..Len(M) : Stream[i] = M[i]
        <5>1. Len(M) = L /\ n <= L /\ L <= Len(Stream) /\ \A i \in 1..L : Stream[i] = M[i]
          BY <1>4, <1>5, <3>1
        <5> QED BY <1>6, <5>1
      <4> QED BY <1>3, <1>6, <3>1, <4>1, PartAndRest
    <3>4. Buf \o x = y
      <4>1. 0 + 1 = 1
        OBVIOUS
      <4> QED BY <1>8, <3>1, <3>2, <3>3, <4>1
    <3>5. x \in Seq(BYTE)
      <4>1. n \in Nat /\ left \in Nat /\ Drop(Stream, n) \in Seq(BYTE)
        BY <1>3, <1>6, <2>1, DropType
      <4>2. n \in 0..Len(Stream) /\ Len(Drop(Stream, n)) = Len(Stream) - n
        <5>1. n \in 0..Len(Stream)
          BY <1>2, <1>3, <1>6
        <5> QED BY <1>3, <5>1, DropFacts
      <4>3. left \in 0..Len(Drop(Stream, n))
        BY <1>3, <1>5, <1>6, <2>1, <4>2
      <4> HIDE DEF left
      <4> QED BY <4>1, <4>3, FrontFacts
    <3> HIDE DEF x, y
    <3>6. (u.buf \o Buf) \o x = u.buf \o (Buf \o x)
      BY <1>2, <3>5, CatAssoc
    <3> QED BY <3>4, <3>6 DEF x, y
  <2>4. Payload(all \o SubSeq(Drop(Stream, n), 1, left))
    BY <1>5, <2>3
  <2> HIDE DEF all, b, left
  <2>5. /\ Payload(b.buf \o SubSeq(Drop(Stream, Len(Buf)), 1, left)) /\ n = Len(Buf)
        /\ KeepPart(b)
    BY <1>10, <2>2, <2>4 DEF n
  <2>6. b.len = Len(b.buf) + left
    <3> DEFINE s == Len(u.buf)
               l == Len(all)
    <3>1. s \in Nat /\ l = s + n /\ b.len = s + L /\ Len(b.buf) = l
      BY <1>2, <1>6, <1>7, <2>2
    <3> HIDE DEF s, l
    <3>2. b.len = l + left
      BY <1>6, <2>1, <3>1
    <3> QED BY <3>1, <3>2
  <2>7. InStep' /\ UNCHANGED hist
    BY <1>1, <1>5, <1>6, <2>1, <2>2, <2>5, <2>6, PartKept
  <2>8. call'.at # "wild"
    <3>1. \E x : call' = At(x) /\ x \in {"peek", "poll"}
      BY <2>5 DEF KeepPart, Update, Loop
    <3> QED BY <3>1, AtType
  <2> QED BY <2>7, <2>8
<1> QED BY <1>1, <1>9, <1>10

-----------------------------------------------------------------------------
(* The steps outside a pass.                                               *)

(* What is left of a frame is in the stream. *)
LEMMA LeftFacts ==
  ASSUME TypeInv, InStep
  PROVE  FrameLeft(context) \in 0..Len(Stream) /\ FrameLeft(context) \in Nat
<1>1. context \in CONTEXT /\ GoodFrame(context) /\ Len(Stream) \in Nat
  BY Fields, StreamType
<1>2. context.buf_union.len \in Nat /\ context.frame_sum \in Nat
  BY <1>1 DEF CONTEXT, BUFFER
<1>3. FrameLeft(context) \in Nat
  BY <1>1, <1>2 DEF FrameLeft, GoodFrame
<1>4. FrameLeft(context) <= Len(Stream)
  <2>1. CASE context.parsing_flag
    BY <2>1 DEF InStep, FrameOk
  <2>2. CASE ~context.parsing_flag
    BY <1>1, <2>2 DEF FrameLeft
  <2> QED BY <2>1, <2>2
<1> QED BY <1>1, <1>3, <1>4

(* What the modem sends comes behind the rest. *)
LEMMA StreamGrows ==
  ASSUME TypeInv, UNCHANGED fifo, NEW T \in Seq(BYTE), wire' = wire \o T
  PROVE  Stream' = Stream \o T
<1>1. Stream' = fifo \o (wire \o T)
  BY DEF Stream
<1> QED BY <1>1, StreamType, CatAssoc DEF Stream

(* What stands behind a frame does not matter to it. *)
LEMMA FrameMore ==
  ASSUME NEW S \in Seq(BYTE), NEW T \in Seq(BYTE), NEW c, FrameOk(S, c),
         FrameLeft(c) \in 0..Len(S)
  PROVE  FrameOk(S \o T, c)
<1> DEFINE L == FrameLeft(c)
           a == SubSeq(S, 1, L)
           b == SubSeq(S \o T, 1, L)
<1>1. /\ S \o T \in Seq(BYTE) /\ Len(S) \in Nat /\ Len(T) \in Nat
      /\ Len(S \o T) = Len(S) + Len(T) /\ \A i \in 1..Len(S) : (S \o T)[i] = S[i]
  BY CatBytes
<1>2. L \in 0..Len(S) /\ L \in Nat
  BY <1>1
<1> HIDE DEF L
<1>3. a \in Seq(BYTE) /\ Len(a) = L /\ \A i \in 1..L : a[i] = S[i]
  BY <1>2, FrontFacts
<1>4. b \in Seq(BYTE) /\ Len(b) = L /\ \A i \in 1..L : b[i] = (S \o T)[i]
  <2>1. L \in 0..Len(S \o T)
    BY <1>1, <1>2
  <2> QED BY <1>1, <2>1, FrontFacts
<1> HIDE DEF a, b
<1>5. \A i \in 1..Len(a) : a[i] = b[i]
  BY <1>1, <1>2, <1>3, <1>4
<1>6. a = b
  BY <1>3, <1>4, <1>5, SeqEq
<1>7. L <= Len(S \o T)
  BY <1>1, <1>2
<1> QED BY <1>6, <1>7 DEF FrameOk, L, a, b

(* Nothing is there when the used length, of either fifo, is 0. *)
LEMMA UsedNone ==
  ASSUME TypeInv, UsedInv, UsedLen = 0
  PROVE  fifo = <<>>
<1>1. CASE used.lowered
  BY <1>1, StreamType DEF UsedLen
<1>2. CASE ~used.lowered
  BY <1>2 DEF UsedLen, UsedInv
<1> QED BY <1>1, <1>2

(* Bytes come into the fifo by HyAtUtilsPutData only. *)
LEMMA UsedStep ==
  ASSUME TypeInv, UsedInv, [Next]_vars
  PROVE  UsedInv'
<1>1. /\ fifo \in Seq(BYTE) /\ wire \in Seq(BYTE) /\ Len(fifo) \in Nat /\ Len(wire) \in Nat
      /\ Len(fifo) <= FifoLen /\ FifoLen \in Nat
      /\ used \in [lowered : BOOLEAN, put : 0..2]
  BY AtAssumption DEF TypeInv, UsedInv
<1>2. CASE HyAtUtilsPutData
  <2> DEFINE Put(n) == IF n < FifoLen - Len(fifo) THEN n ELSE FifoLen - Len(fifo)
  <2>1. PICK n \in 1..Len(wire) :
          /\ fifo' = fifo \o SubSeq(wire, 1, Put(n))
          /\ used' = [used EXCEPT
               !.put = IF used.lowered THEN 0
                       ELSE IF @ + Put(n) < 2 THEN @ + Put(n) ELSE 2]
    BY <1>2 DEF HyAtUtilsPutData
  <2> DEFINE p == Put(n)
  <2>2. p \in Nat
    BY <1>1
  <2>3. /\ fifo' = fifo \o SubSeq(wire, 1, p)
        /\ used' = [used EXCEPT
             !.put = IF used.lowered THEN 0 ELSE IF @ + p < 2 THEN @ + p ELSE 2]
    BY <2>1
  <2> HIDE DEF p
  <2>4. /\ used' \in [lowered : BOOLEAN, put : 0..2] /\ used'.lowered = used.lowered
        /\ ~used.lowered /\ used'.put = 0 => used.put = 0 /\ p = 0
    <3> DEFINE u == used.put
               v == IF used.lowered THEN 0 ELSE IF u + p < 2 THEN u + p ELSE 2
    <3>1. u \in 0..2
      BY <1>1
    <3>2. used' = [used EXCEPT !.put = v]
      BY <2>3
    <3> HIDE DEF u
    <3>3. v \in 0..2 /\ (~used.lowered /\ v = 0 => u = 0 /\ p = 0)
      BY <2>2, <3>1
    <3> HIDE DEF v
    <3>4. /\ used' \in [lowered : BOOLEAN, put : 0..2] /\ used'.lowered = used.lowered
          /\ used'.put = v
      BY <1>1, <3>2, <3>3
    <3> QED BY <3>3, <3>4 DEF u
  <2>5. p = 0 => SubSeq(wire, 1, p) = <<>>
    BY <1>1
  <2>6. UNCHANGED call
    BY <1>2 DEF HyAtUtilsPutData
  <2>7. ASSUME ~used'.lowered, used'.put = 0 PROVE fifo' = <<>> /\ call'.at # "handle"
    <3>1. p = 0 /\ fifo = <<>> /\ call.at # "handle"
      BY <2>4, <2>7 DEF UsedInv
    <3> QED BY <2>3, <2>5, <2>6, <3>1
  <2> QED BY <2>4, <2>7 DEF UsedInv
<1>3. CASE UNCHANGED vars
  BY <1>3 DEF vars, UsedInv
<1>4. CASE Next /\ ~HyAtUtilsPutData
  <2>1. UNCHANGED used
    BY <1>4 DEF Next, Client, HyAtUtilsClean, IgnoreClosed, HyAtUtilsWriteCmd,
           HyAtUtilsDestroy, ModemSends, Tick, HyAtUtilsProcess, IdleRead, IdleTimeout,
           IdleWrite, Write, WriteCmd, Wild, WriteCmdWait, WriteData, Peek, Read,
           ReadHead, ReadText, ReadClosed, ReadError, ReadOk, ReadSignal, IpdBadHeader,
           IpdHeader, IpdMore
  <2> SUFFICES ASSUME fifo = <<>>, call.at # "handle"
               PROVE  fifo' = <<>> /\ call'.at # "handle"
    BY <2>1 DEF UsedInv
  <2> DEFINE Good == fifo' = <<>> /\ call'.at # "handle"
  <2>2. IdleRead \/ IdleWrite \/ Write \/ WriteCmdWait \/ Tick \/ ModemSends
          \/ HyAtUtilsWriteCmd => Good
    BY DEF IdleRead, IdleWrite, Write, WriteCmdWait, Tick, ModemSends, HyAtUtilsWriteCmd
  <2>3. IdleTimeout => Good
    <3>1. IdleTimeout => UNCHANGED fifo /\ \E pc \in {"closed", "poll"} : call' = At(pc)
      BY DEF IdleTimeout
    <3> QED BY <3>1, AtType
  <2>4. WriteCmd \/ WriteData => Good
    <3>1. Wild => Good
      BY AtType DEF Wild
    <3> QED BY <3>1 DEF WriteCmd, WriteData
  <2>5. Client \/ HyAtUtilsDestroy => Good
    BY AtType DEF Client, HyAtUtilsClean, DestroyClean, IgnoreClosed, HyAtUtilsDestroy
  <2>6. Peek => Good
    <3> SUFFICES ASSUME Peek PROVE Good
      OBVIOUS
    <3> DEFINE missing == context.buf_union.len - context.frame_sum
               factor  == IF context.buf_union = NoBuf \/ missing > FACTOR_LEN
                          THEN FACTOR_LEN ELSE missing
               len     == IF factor < Len(fifo) THEN factor ELSE Len(fifo)
    <3>1. /\ UNCHANGED fifo
          /\ len = 0 => call' = At("poll")
      BY DEF Peek
    <3>2. factor \in Nat
      <4>1. FACTOR_LEN \in Nat
        BY AtAssumption
      <4>2. CASE context.buf_union = NoBuf
        BY <4>1, <4>2
      <4>3. CASE context.buf_union # NoBuf
        <5>1. /\ context.buf_union.len \in Nat /\ context.frame_sum \in Nat
              /\ context.frame_sum < context.buf_union.len
          BY <4>3, Fields DEF CONTEXT, BUFFER, GoodFrame
        <5> QED BY <4>1, <5>1
      <4> QED BY <4>2, <4>3
    <3>3. Len(fifo) = 0
      OBVIOUS
    <3> HIDE DEF factor, missing
    <3>4. len = 0
      BY <3>2, <3>3
    <3> QED BY <3>1, <3>4, AtType
  <2>7. ~(\/ Read \/ ReadHead \/ ReadText \/ ReadClosed \/ ReadError \/ ReadOk
          \/ ReadSignal \/ IpdBadHeader \/ IpdHeader \/ IpdMore)
    BY DEF Handles, Read, ReadHead, ReadText, ReadClosed, ReadError, ReadOk, ReadSignal,
           IpdBadHeader, IpdHeader, IpdMore
  <2> HIDE DEF Good
  <2>8. Good
    BY <1>4, <2>2, <2>3, <2>4, <2>5, <2>6, <2>7 DEF Next, HyAtUtilsProcess
  <2> QED BY <2>8, SMTT(30) DEF Good
<1> QED BY <1>2, <1>3, <1>4

(* The time is over: no answer is on its way. *)
LEMMA IdleTimeoutStep ==
  ASSUME TypeInv, UsedInv, InStep, IdleTimeout, ~hist'.late
  PROVE  (Live' => InStep') /\ call'.at # "wild"
<1> DEFINE list == context.write_list
           new == [list[1] EXCEPT !.retry = Tried]
<1>0. fifo = <<>> /\ ~AnswerComes /\ hist'.sends = hist.sends
  <2>1. fifo = <<>>
    BY UsedNone DEF IdleTimeout
  <2>2. hist \in HIST /\ hist' = [hist EXCEPT !.late = @ \/ AnswerComes]
    BY Fields DEF IdleTimeout
  <2>3. hist'.late = (hist.late \/ AnswerComes) /\ hist'.sends = hist.sends
    BY <2>2 DEF HIST
  <2> QED BY <2>1, <2>3
<1>1. /\ call.at = "poll" /\ context.state = "IDLE" /\ fifo = <<>> /\ ~NoFirst
      /\ age = 2 /\ age' = 0 /\ UNCHANGED <<fifo, wire>> /\ hist'.sends = hist.sends
      /\ context' = [context EXCEPT !.busy_flag = 0, !.write_list = [list EXCEPT ![1] = new],
                       !.state = IF Tried = 0 THEN "IDLE" ELSE "WRITE"]
      /\ call' = At(IF Tried = 0 THEN "closed" ELSE "poll")
  BY <1>0 DEF IdleTimeout, Polls
<1>2. [list EXCEPT ![1] = new] = RetriedList
  BY DEF RetriedList
<1> HIDE DEF new
<1>3. call'.at # "wild" /\ (Tried = 0 => ~Live')
  <2>1. Tried = 0 => call'.at = "closed"
    BY <1>1, AtType
  <2>2. Tried # 0 => call'.at = "poll"
    BY <1>1, AtType
  <2> QED BY <2>1, <2>2 DEF Live
<1> SUFFICES ASSUME Tried # 0 PROVE InStep'
  BY <1>3
<1>4. /\ context'.state = "WRITE" /\ context'.busy_flag = 0
      /\ context'.write_list = RetriedList /\ context'.is_cmd_ok = context.is_cmd_ok
      /\ SameLeft(context, context') /\ call' = At("poll")
  BY <1>1, <1>2, Fields DEF CONTEXT, SameLeft
<1>5. Quiet(context')
  BY <1>4 DEF Quiet
<1>6. /\ Len(context'.write_list) >= 1 /\ TriesOk(context', hist.sends)
      /\ DataOf(context') = DataOf(context)
  BY <1>1, <1>4, <1>5, Retried DEF InStep
<1>7. Stream' = Stream /\ NoAnswers(Stream, FrameLeft(context))
  <2>1. \A i \in 1..Len(wire) : wire[i].of = 0
    <3>1. DOMAIN wire = 1..Len(wire)
      BY StreamType
    <3> QED BY <1>0, <3>1 DEF AnswerComes
  <2>2. Len(fifo) = 0 /\ Len(Stream) = Len(wire)
        /\ \A i \in 1..Len(wire) : Stream[i] = wire[i]
    <3>1. /\ Len(Stream) = Len(fifo) + Len(wire) /\ Len(wire) \in Nat
          /\ \A i \in (Len(fifo) + 1)..(Len(fifo) + Len(wire)) : Stream[i] = wire[i - Len(fifo)]
      BY StreamType
    <3>2. Len(fifo) = 0
      BY <1>1
    <3>3. \A i \in 1..Len(wire) : i \in (0 + 1)..(0 + Len(wire)) /\ i - 0 = i
      BY <3>1
    <3> QED BY <3>1, <3>2, <3>3
  <2>3. \A k \in (FrameLeft(context) + 1)..Len(Stream) : k \in 1..Len(wire)
    BY <2>2, LeftFacts, StreamType
  <2>4. Stream' = Stream
    BY <1>1 DEF Stream
  <2> QED BY <2>1, <2>2, <2>3, <2>4 DEF NoAnswers
<1>8. FrameLeft(context') = FrameLeft(context)
  BY <1>4 DEF FrameLeft, SameLeft
<1>9. StreamOk(Stream', context')
  <2>1. Answers(Stream, FrameLeft(context), FirstOf(context').id, ExpOf(context'), MayOf(context'))
    BY <1>7, NoAnswersAny
  <2>2. Whole(Stream, FrameLeft(context))
    BY DEF InStep, StreamOk
  <2> QED BY <1>7, <1>8, <2>1, <2>2 DEF StreamOk
<1>10. FrameOk(Stream', context')
  <2>1. context'.state \in FrameStates
    BY <1>4 DEF FrameStates
  <2> QED BY <1>4, <1>7, <2>1, SameFrameOk DEF InStep
<1>11. PlaceOk(Stream', Len(fifo'), context')
  BY <1>4, PlainPlace DEF PlainStates
<1>12. PassOk(context', call')
  BY <1>4, AtType DEF PassOk
<1>13. ListOk(context')
  BY <1>4, <1>6 DEF ListOk
<1>14. TriesOk(context', hist'.sends)
  BY <1>1, <1>6
<1> QED BY <1>9, <1>10, <1>11, <1>12, <1>13, <1>14 DEF InStep

(* The data goes out. *)
LEMMA WriteDataStep ==
  ASSUME TypeInv, InStep, WriteData
  PROVE  InStep' /\ call'.at # "wild"
<1>1. call.at = "poll" /\ context.state = "WRITE_DATA"
  BY DEF WriteData, Polls
<1>2. /\ Len(context.write_list) >= 1 /\ context.busy_flag = 1 /\ DataOf(context)
      /\ ~context.parsing_flag
  BY <1>1 DEF InStep, ListOk, FrameOk
<1>3. ~NoFirst
  BY <1>2 DEF NoFirst
<1>4. First = FirstOf(context) /\ First.id \in 1..Len(Cmds) /\ DataOf(context) = TRUE
  <2>1. First = FirstOf(context) /\ First.id \in 1..Len(Cmds)
    BY <1>3, FirstType DEF FirstOf
  <2>2. DataOf(context) \in BOOLEAN
    BY <2>1, CmdTypes DEF DataOf
  <2> QED BY <1>2, <2>1, <2>2
<1>5. PICK ans \in DataAnswers : wire' = wire \o ans
  <2>1. <<>> \in DataAnswers
    BY DEF DataAnswers
  <2> QED BY <1>3, <2>1 DEF WriteData, Sends
<1>6. /\ context' = [context EXCEPT !.state = "READ", !.busy_flag = 2]
      /\ age' = 0 /\ UNCHANGED <<fifo, call, hist>>
  BY <1>3 DEF WriteData
<1>7. /\ IsAnswer(ans, First.id) /\ Answers(ans, 0, First.id, {"O", "K", "E", "R"}, May2)
      /\ ans \in Seq(BYTE)
  BY <1>3, DataAnswerIs DEF AnswerOf, IsAnswer
<1>8. /\ context'.state = "READ" /\ context'.busy_flag = 2
      /\ context'.write_list = context.write_list /\ context'.is_cmd_ok = context.is_cmd_ok
      /\ SameLeft(context, context') /\ ~context'.parsing_flag
  BY <1>2, <1>6, Fields DEF CONTEXT, SameLeft
<1>9. Stream' = Stream \o ans
  BY <1>5, <1>6, <1>7, StreamGrows
<1>10. FrameLeft(context) = 0 /\ FrameLeft(context') = 0
  BY <1>2, <1>8 DEF FrameLeft
<1>11. Stream \in Seq(BYTE) /\ Len(Stream) \in Nat /\ 0 \in 0..Len(Stream)
  BY StreamType
<1>12. First.id \in Nat \ {0}
  BY <1>4, CmdTypes
<1>13. Whole(Stream', 0)
  <2>1. Whole(Stream, 0)
    BY <1>10 DEF InStep, StreamOk
  <2> QED BY <1>7, <1>9, <1>11, <1>12, <2>1, WholeCatAnswer
<1>14. /\ FirstOf(context') = First /\ DataOf(context') = TRUE
       /\ ExpOf(context') = Exp2 /\ MayOf(context') = May2
  <2>1. FirstOf(context') = First /\ DataOf(context') = TRUE
    BY <1>4, <1>8 DEF FirstOf, DataOf
  <2>2. ~Quiet(context')
    BY <1>8 DEF Quiet
  <2> QED BY <1>8, <2>1, <2>2 DEF ExpOf, MayOf
<1>15. Answers(Stream', 0, First.id, Exp2, May2)
  <2>1. ExpOf(context) = {"SP"} /\ MayOf(context) = May1(TRUE)
    <3>1. ~Quiet(context)
      BY <1>1, <1>2 DEF Quiet
    <3>2. context.busy_flag # 2
      BY <1>2
    <3> QED BY <1>1, <1>4, <3>1, <3>2 DEF ExpOf, MayOf
  <2>2. Answers(Stream, 0, First.id, {"SP"}, May1(TRUE))
    BY <1>4, <1>10, <2>1 DEF InStep, StreamOk
  <2>3. <<"SP", "SP">> \notin May1(TRUE)
    BY DEF May1
  <2>4. \A k \in (0 + 1)..Len(Stream) : \A m \in (k + 1)..Len(Stream) :
          m \in (0 + 1)..Len(Stream)
    BY <1>11
  <2>5. Answers(Stream, 0, First.id, {"SP"}, May2)
    BY <2>2, <2>3, <2>4 DEF Answers
  <2>6. {"SP"} \subseteq Exp2 /\ {"O", "K", "E", "R"} \subseteq Exp2
    BY DEF Exp2
  <2>7. \A a \in {"SP"}, b \in {"O", "K", "E", "R"} :
          a \in {"K", "R", ">", "SP"} => <<a, b>> \in May2
    BY DEF May2
  <2>8. Answers(Stream \o ans, 0, First.id, Exp2, May2)
    <3> DEFINE exp1 == {"SP"}
               exp2 == {"O", "K", "E", "R"}
               id == First.id
    <3>1. /\ Answers(Stream, 0, id, exp1, May2) /\ Answers(ans, 0, id, exp2, May2)
          /\ exp1 \subseteq Exp2 /\ exp2 \subseteq Exp2
          /\ \A a \in exp1, b \in exp2 : a \in {"K", "R", ">", "SP"} => <<a, b>> \in May2
      BY <1>7, <2>5, <2>6, <2>7
    <3> HIDE DEF exp1, exp2, id
    <3>2. Answers(Stream \o ans, 0, id, Exp2, May2)
      BY <1>7, <1>11, <3>1, AnswersCatAnswer
    <3> QED BY <3>2 DEF id
  <2> QED BY <1>9, <2>8
<1>16. StreamOk(Stream', context')
  BY <1>10, <1>13, <1>14, <1>15 DEF StreamOk
<1>17. ListOk(context')
  BY <1>2, <1>8, <1>14 DEF ListOk
<1>18. TriesOk(context', hist'.sends)
  <2>1. ~Quiet(context) /\ ~Quiet(context')
    BY <1>1, <1>2, <1>8 DEF Quiet
  <2>2. FirstOf(context') = FirstOf(context)
    BY <1>4, <1>14
  <2> QED BY <1>6, <1>8, <2>1, <2>2 DEF InStep, TriesOk, Untried, TriesOfFirst, ResumedEntry
<1>19. PlaceOk(Stream', Len(fifo'), context')
  BY <1>8, PlainPlace DEF PlainStates
<1>20. PassOk(context', call') /\ FrameOk(Stream', context')
  BY <1>1, <1>6, <1>8 DEF PassOk, FrameOk
<1>21. call'.at # "wild"
  BY <1>1, <1>6
<1> QED BY <1>16, <1>17, <1>18, <1>19, <1>20, <1>21 DEF InStep

(* A command goes out: none was out, and its tries are not used up. *)
LEMMA WriteCmdStep ==
  ASSUME TypeInv, InStep, WriteCmd, ~hist'.off_step
  PROVE  /\ InStep' /\ call'.at # "wild"
         /\ First.id \in 1..Len(Cmds) /\ hist'.sends[First.id] <= Cmds[First.id].retry
         /\ \A i \in 1..Len(Cmds) : i # First.id => hist'.sends[i] = hist.sends[i]
<1> DEFINE id == First.id
           ok == context.is_cmd_ok
           e == FrameLeft(context)
<1>1. call.at = "poll" /\ context.state = "WRITE_CMD"
  BY DEF WriteCmd, Polls
<1>2. Len(context.write_list) >= 1 /\ Quiet(context)
  BY <1>1 DEF InStep, ListOk, Quiet
<1>3. ~NoFirst
  BY <1>2 DEF NoFirst
<1>4. PICK ans \in CmdAnswers : wire' = wire \o ans
  BY <1>3 DEF WriteCmd, Sends
<1>5. /\ context' = [context EXCEPT !.state = "WRITE_CMD_WAIT", !.busy_flag = 1]
      /\ age' = 0 /\ UNCHANGED <<fifo, call>>
      /\ hist' = [hist EXCEPT !.sends[id] = @ + 1, !.off_step = @ \/ Resumed]
  BY <1>3 DEF WriteCmd
<1>6. /\ First = FirstOf(context) /\ id \in 1..Len(Cmds) /\ id \in Nat \ {0}
      /\ DataOf(context) = Cmds[id].data /\ DataOf(context) \in BOOLEAN
      /\ First \in ENTRY /\ First.del_cnt \in 1..2 /\ First.retry \in 0..255
      /\ Cmds[id].retry \in 1..255 /\ ok \in BOOLEAN
  <2>1. First = FirstOf(context) /\ id \in 1..Len(Cmds) /\ First \in ENTRY
    BY <1>3, FirstType DEF FirstOf
  <2>2. First.del_cnt \in 1..2 /\ First.retry \in 0..255
    BY <2>1 DEF ENTRY
  <2>3. DataOf(context) = Cmds[id].data
    BY <2>1 DEF DataOf
  <2>4. Cmds[id].data \in BOOLEAN /\ Cmds[id].retry \in 1..255
    BY <2>1, CmdTypes
  <2>5. id \in Nat \ {0} /\ ok \in BOOLEAN
    BY <2>1, CmdTypes, Fields
  <2> QED BY <2>1, <2>2, <2>3, <2>4, <2>5
<1>7. /\ hist'.sends = [hist.sends EXCEPT ![id] = @ + 1] /\ ~Resumed
      /\ hist.sends \in [1..Len(Cmds) -> Nat]
  <2>1. hist \in HIST /\ hist.sends \in [1..Len(Cmds) -> Nat]
    BY Fields DEF HIST
  <2> DEFINE new == [hist.sends EXCEPT ![id] = @ + 1]
  <2>2. hist' = [hist EXCEPT !.sends = new, !.off_step = @ \/ Resumed]
    BY <1>5
  <2> HIDE DEF new
  <2>3. hist'.sends = new /\ hist'.off_step = (hist.off_step \/ Resumed)
    BY <2>1, <2>2 DEF HIST
  <2> QED BY <2>1, <2>3 DEF new
<1>8. /\ hist'.sends[id] = hist.sends[id] + 1 /\ hist.sends[id] \in Nat
      /\ \A i \in 1..Len(Cmds) : i # id => hist'.sends[i] = hist.sends[i]
  BY <1>6, <1>7
<1> HIDE DEF id
<1>9. /\ IsAnswer(ans, id) /\ ans \in Seq(BYTE)
      /\ Answers(ans, 0, id, Exp1(DataOf(context), ok), May1(DataOf(context)))
  BY <1>3, <1>6, CmdAnswerIs DEF AnswerOf, IsAnswer, id
<1>10. /\ context'.state = "WRITE_CMD_WAIT" /\ context'.busy_flag = 1
       /\ context'.write_list = context.write_list /\ context'.is_cmd_ok = ok
       /\ SameLeft(context, context')
  BY <1>5, Fields DEF CONTEXT, SameLeft
<1>11. Stream' = Stream \o ans
  BY <1>4, <1>5, <1>9, StreamGrows
<1>12. /\ FrameLeft(context') = e /\ e \in 0..Len(Stream)
       /\ Stream \in Seq(BYTE) /\ Len(Stream) \in Nat
  BY <1>10, LeftFacts, StreamType DEF FrameLeft, SameLeft
<1>13. /\ FirstOf(context') = First /\ DataOf(context') = DataOf(context)
       /\ ~Quiet(context')
  BY <1>6, <1>10 DEF FirstOf, DataOf, Quiet
<1>14. /\ ExpOf(context') = Exp1(DataOf(context), ok)
       /\ MayOf(context') = May1(DataOf(context))
  <2>1. /\ ExpOf(context') = Exp1(DataOf(context), ok /\ First.del_cnt = 2)
        /\ MayOf(context') = May1(DataOf(context))
    BY <1>10, <1>13 DEF ExpOf, MayOf
  <2>2. CASE DataOf(context) = TRUE
    <3>1. ok => First.del_cnt = 2
      BY <1>6, <1>7, <2>2 DEF Resumed, id
    <3>2. (ok /\ First.del_cnt = 2) = ok
      BY <1>6, <3>1
    <3> QED BY <2>1, <3>2
  <2>3. CASE DataOf(context) = FALSE
    BY <2>1, <2>3 DEF Exp1
  <2> QED BY <1>6, <2>2, <2>3
<1> HIDE DEF e
<1>15. Whole(Stream', e) /\ Answers(Stream', e, id, ExpOf(context'), MayOf(context'))
  <2>1. Whole(Stream, e) /\ Answers(Stream, e, id, {}, MayOf(context))
    BY <1>2, <1>6 DEF InStep, StreamOk, ExpOf, e, id
  <2>2. Whole(Stream \o ans, e)
    BY <1>6, <1>9, <1>12, <2>1, WholeCatAnswer
  <2> DEFINE exp1 == {}
             exp2 == Exp1(DataOf(context), ok)
             may == May1(DataOf(context))
  <2>3. /\ Answers(Stream, e, id, exp1, may) /\ Answers(ans, 0, id, exp2, may)
        /\ exp1 \subseteq exp2
        /\ \A a \in exp1, b \in exp2 : a \in {"K", "R", ">", "SP"} => <<a, b>> \in may
    BY <1>9, <2>1, NoneExpected, NoAnswersAny
  <2> HIDE DEF exp1, exp2, may
  <2>4. Answers(Stream \o ans, e, id, exp2, may)
    BY <1>9, <1>12, <2>3, AnswersCatAnswer
  <2> QED BY <1>11, <1>14, <2>2, <2>4 DEF exp2, may
<1>16. StreamOk(Stream', context')
  BY <1>12, <1>13, <1>15 DEF StreamOk, id
<1>17. FrameOk(Stream', context')
  <2>1. FrameOk(Stream \o ans, context)
    BY <1>9, <1>12, FrameMore DEF InStep, e
  <2>2. context'.state \in FrameStates
    BY <1>10 DEF FrameStates
  <2> QED BY <1>10, <1>11, <2>1, <2>2, SameFrameOk
<1>18. PlaceOk(Stream', Len(fifo'), context')
  BY <1>10, PlainPlace DEF PlainStates
<1>19. PassOk(context', call')
  BY <1>1, <1>5 DEF PassOk
<1>20. ListOk(context')
  BY <1>2, <1>10 DEF ListOk
<1>21. /\ First.retry >= 1 /\ (First.del_cnt = 2 => Cmds[id].data /\ ok)
       /\ hist.sends[id] + First.retry <= Cmds[id].retry
  <2>1. TriesOfFirst(context, First, hist.sends)
    BY <1>2, <1>6 DEF InStep, TriesOk
  <2>2. ~ResumedEntry(context, First)
    BY <1>7 DEF ResumedEntry, Resumed
  <2>3. hist.sends[id] + First.retry <= Cmds[id].retry + 0
    BY <1>2, <2>1, <2>2 DEF TriesOfFirst, id
  <2>4. Cmds[id].retry + 0 = Cmds[id].retry
    <3>1. Cmds[id].retry \in 1..255
      BY <1>6
    <3> DEFINE all == Cmds[id].retry
    <3>2. all \in Int
      BY <3>1
    <3> HIDE DEF all
    <3>3. all + 0 = all
      BY <3>2
    <3> QED BY <3>3 DEF all
  <2> QED BY <2>1, <2>3, <2>4 DEF TriesOfFirst, id
<1>22. /\ hist'.sends[id] <= Cmds[id].retry
       /\ hist'.sends[id] + First.retry <= Cmds[id].retry + 1
  <2> DEFINE s == hist.sends[id]
             r == First.retry
             all == Cmds[id].retry
  <2>1. s \in Nat /\ r \in Nat /\ all \in Nat /\ r >= 1 /\ s + r <= all
    <3>1. r \in 0..255 /\ all \in 1..255
      BY <1>6
    <3>2. s \in Nat /\ r >= 1 /\ s + r <= all
      BY <1>8, <1>21
    <3> QED BY <3>1, <3>2, SMTT(30)
  <2>2. hist'.sends[id] = s + 1
    BY <1>8
  <2> HIDE DEF s, r, all
  <2>3. s + 1 <= all /\ (s + 1) + r <= all + 1
    BY <2>1
  <2> QED BY <2>2, <2>3 DEF r, all
<1>23. TriesOk(context', hist'.sends)
  <2>1. TriesOfFirst(context', FirstOf(context'), hist'.sends)
    <3>1. hist'.sends[id] + First.retry <= Cmds[id].retry + 1
      BY <1>22
    <3> QED BY <1>10, <1>13, <1>21, <3>1 DEF TriesOfFirst, id
  <2>2. ASSUME NEW i \in 2..Len(context.write_list)
        PROVE  Untried(context', context.write_list[i], hist'.sends)
    <3>1. Untried(context, context.write_list[i], hist.sends)
      BY DEF InStep, TriesOk
    <3> DEFINE n == context.write_list[i].id
               m == context.write_list[1].id
    <3>2. n \in 1..Len(Cmds) /\ m \in 1..Len(Cmds) /\ m < n
      <4>1. /\ context.write_list \in Seq(ENTRY)
            /\ \A j, k \in 1..Len(context.write_list) :
                 j < k => context.write_list[j].id < context.write_list[k].id
        BY Fields DEF GoodList
      <4>2. Len(context.write_list) \in Nat /\ i \in 1..Len(context.write_list)
            /\ 1 \in 1..Len(context.write_list) /\ 1 < i
        BY <4>1
      <4>3. context.write_list[i] \in ENTRY /\ context.write_list[1] \in ENTRY
        BY <4>1, <4>2
      <4> QED BY <4>1, <4>2, <4>3 DEF ENTRY
    <3>3. id = m
      BY <1>6 DEF FirstOf, id
    <3>4. n # id
      <4> HIDE DEF n, m
      <4>1. Len(Cmds) \in Nat
        BY CmdTypes
      <4> QED BY <3>2, <3>3, <4>1
    <3>5. hist'.sends[n] = hist.sends[n]
      BY <1>8, <3>2, <3>4
    <3> QED BY <1>10, <3>1, <3>5 DEF Untried, ResumedEntry
  <2> QED BY <1>10, <2>1, <2>2 DEF TriesOk
<1>24. call'.at # "wild"
  BY <1>1, <1>5
<1>25. InStep'
  BY <1>16, <1>17, <1>18, <1>19, <1>20, <1>23 DEF InStep
<1> QED BY <1>6, <1>8, <1>22, <1>24, <1>25 DEF id

(* What was expected of the modem is, when a command is put at the end. *)
LEMMA WriteListStep ==
  ASSUME TypeInv, InStep, HyAtUtilsWriteCmd
  PROVE  InStep' /\ call'.at # "wild" /\ hist'.sends = hist.sends
<1> DEFINE k == hist.written + 1
           e == _at_cmd_list_create(k)
           list == context.write_list
           new == Append(list, e)
           ok == context.is_cmd_ok
<1>1. /\ call.at = "poll" /\ hist.written < Len(Cmds)
      /\ at_cmd_num = 0 \/ Len(list) < at_cmd_num
      /\ hist' = [hist EXCEPT !.written = k]
      /\ context' = [context EXCEPT !.write_list = new]
      /\ UNCHANGED <<fifo, age, call, wire>>
  BY DEF HyAtUtilsWriteCmd
<1>2. k \in 1..Len(Cmds) /\ k > hist.written
  <2>1. hist.written \in Nat /\ Len(Cmds) \in Nat
    BY Fields, CmdTypes
  <2> QED BY <1>1, <2>1
<1> HIDE DEF k
<1>3. Cmds[k].retry \in 1..255 /\ Cmds[k].data \in BOOLEAN /\ ok \in BOOLEAN
  BY <1>2, CmdTypes, Fields
<1>4. /\ e \in ENTRY /\ e.id = k /\ e.retry = Cmds[k].retry /\ e.del_cnt \in 1..2
      /\ e.del_cnt = 2 <=> Cmds[k].data /\ ok
  BY <1>2, <1>3 DEF _at_cmd_list_create, ENTRY
<1> HIDE DEF e
<1>5. /\ Len(new) = Len(list) + 1 /\ Len(list) \in Nat
      /\ \A i \in 1..Len(list) : new[i] = list[i]
      /\ new[Len(list) + 1] = e
  <2>1. list \in Seq(ENTRY)
    BY Fields
  <2> QED BY <1>4, <2>1
<1> HIDE DEF new
<1>6. /\ context'.write_list = new /\ context'.state = context.state
      /\ context'.busy_flag = context.busy_flag /\ context'.is_cmd_ok = ok
      /\ context'.offset_len = context.offset_len /\ SameLeft(context, context')
      /\ hist'.sends = hist.sends /\ Stream' = Stream
  <2>1. context \in CONTEXT /\ hist \in HIST
    BY Fields
  <2> QED BY <1>1, <2>1 DEF CONTEXT, HIST, SameLeft, Stream
<1>7. hist.sends[k] = 0
  BY <1>2 DEF TypeInv
<1>8. /\ Quiet(context') = Quiet(context)
      /\ FrameLeft(context') = FrameLeft(context)
  BY <1>6 DEF Quiet, FrameLeft, SameLeft
<1>9. Len(list) >= 1 => FirstOf(context') = FirstOf(context) /\ DataOf(context') = DataOf(context)
  BY <1>5, <1>6 DEF FirstOf, DataOf
<1>10. Len(list) = 0 => FirstOf(context') = e /\ context.busy_flag = 0
                        /\ context.state \notin {"WRITE", "WRITE_CMD", "WRITE_DATA"}
  BY <1>5, <1>6 DEF FirstOf, InStep, ListOk
<1>11. Len(list) = 0 \/ Len(list) >= 1
  BY <1>5
<1>12. StreamOk(Stream', context')
  <2>1. /\ Whole(Stream, FrameLeft(context))
        /\ Answers(Stream, FrameLeft(context), FirstOf(context).id, ExpOf(context), MayOf(context))
    BY DEF InStep, StreamOk
  <2>2. CASE Len(list) = 0
    <3>1. ExpOf(context) = {}
      BY <1>10, <2>2 DEF ExpOf, Quiet
    <3>2. NoAnswers(Stream, FrameLeft(context))
      BY <2>1, <3>1, NoneExpected
    <3>3. Answers(Stream, FrameLeft(context), FirstOf(context').id, ExpOf(context'), MayOf(context'))
      BY <3>2, NoAnswersAny
    <3> QED BY <1>6, <1>8, <2>1, <3>3 DEF StreamOk
  <2>3. CASE Len(list) >= 1
    <3>1. ExpOf(context') = ExpOf(context) /\ MayOf(context') = MayOf(context)
      BY <1>6, <1>8, <1>9, <2>3 DEF ExpOf, MayOf
    <3> QED BY <1>6, <1>8, <1>9, <2>1, <2>3, <3>1 DEF StreamOk
  <2> QED BY <1>11, <2>2, <2>3
<1>13. FrameOk(Stream', context')
  <2>1. context.parsing_flag => context'.state \in FrameStates
    BY <1>6 DEF InStep, FrameOk, FrameStates
  <2> QED BY <1>6, <2>1, SameFrameOk DEF InStep
<1>14. PlaceOk(Stream', Len(fifo'), context')
  BY <1>1, <1>6 DEF InStep, PlaceOk, SameLeft
<1>15. PassOk(context', call')
  BY <1>1, <1>6 DEF InStep, PassOk, SameLeft
<1>16. ListOk(context')
  <2>1. Len(context'.write_list) >= 1
    BY <1>5, <1>6
  <2>2. /\ context.state = "WRITE_DATA" => context.busy_flag = 1
        /\ context.state = "WRITE_DATA" \/ context.busy_flag = 2 =>
             DataOf(context) /\ Len(list) >= 1
    BY DEF InStep, ListOk
  <2> QED BY <1>6, <1>9, <2>1, <2>2 DEF ListOk
<1>17. TriesOk(context', hist'.sends)
  <2>1. ASSUME NEW i \in 2..Len(new) PROVE Untried(context', new[i], hist'.sends)
    <3>1. CASE i = Len(list) + 1
      BY <1>3, <1>4, <1>5, <1>6, <1>7, <3>1 DEF Untried, ResumedEntry
    <3>2. CASE i # Len(list) + 1
      <4>1. i \in 2..Len(list) /\ i \in 1..Len(list)
        BY <1>5, <3>2
      <4>2. Untried(context, list[i], hist.sends)
        BY <4>1 DEF InStep, TriesOk
      <4> QED BY <1>5, <1>6, <4>1, <4>2 DEF Untried, ResumedEntry
    <3> QED BY <3>1, <3>2
  <2>2. TriesOfFirst(context', FirstOf(context'), hist'.sends)
    <3>1. CASE Len(list) = 0
      <4>1. FirstOf(context').id = k /\ FirstOf(context').retry = Cmds[k].retry
            /\ FirstOf(context').del_cnt = e.del_cnt
        BY <1>4, <1>10, <3>1
      <4> DEFINE all == Cmds[k].retry
      <4>2. all \in Nat /\ all >= 1
        <5>1. all \in 1..255
          BY <1>3
        <5> HIDE DEF all
        <5> QED BY <5>1
      <4> HIDE DEF all
      <4>3. 0 + all <= all + 0 /\ 0 + all <= all + 1
        BY <4>2
      <4>4. FirstOf(context').retry = all /\ Cmds[k].retry = all
        BY <4>1 DEF all
      <4> QED BY <1>4, <1>6, <1>7, <4>1, <4>2, <4>3, <4>4 DEF TriesOfFirst
    <3>2. CASE Len(list) >= 1
      <4>1. TriesOfFirst(context, FirstOf(context), hist.sends)
        BY <3>2 DEF InStep, TriesOk
      <4> QED BY <1>6, <1>8, <1>9, <3>2, <4>1 DEF TriesOfFirst, ResumedEntry
    <3> QED BY <1>11, <3>1, <3>2
  <2> QED BY <1>6, <2>1, <2>2 DEF TriesOk
<1>18. call'.at # "wild"
  BY <1>1
<1> QED BY <1>6, <1>12, <1>13, <1>14, <1>15, <1>16, <1>17, <1>18 DEF InStep

(* The reader puts what has arrived, and none of it is lost. *)
LEMMA PutStep ==
  ASSUME TypeInv, InStep, HyAtUtilsPutData, ~hist'.off_step
  PROVE  (Live' => InStep') /\ call'.at # "wild" /\ hist'.sends = hist.sends
<1> DEFINE room == FifoLen - Len(fifo)
           Put(n) == IF n < room THEN n ELSE room
<1>1. PICK n \in 1..Len(wire) :
        /\ fifo' = fifo \o SubSeq(wire, 1, Put(n))
        /\ wire' = SubSeq(wire, n + 1, Len(wire))
        /\ hist' = [hist EXCEPT !.off_step = @ \/ Put(n) < n]
  BY DEF HyAtUtilsPutData
<1>2. UNCHANGED <<context, age, call>> /\ call.at \notin {"gone", "wild"}
  BY DEF HyAtUtilsPutData
<1>3. hist'.sends = hist.sends /\ ~(Put(n) < n)
  <2> HIDE DEF Put
  <2>1. hist \in HIST
    BY Fields
  <2> QED BY <1>1, <2>1 DEF HIST
<1>4. Put(n) = n
  <2>1. Len(fifo) \in Nat /\ FifoLen \in Nat /\ n \in Nat
    BY StreamType, AtAssumption
  <2> QED BY <1>3, <2>1
<1>5. /\ wire \in Seq(BYTE) /\ fifo \in Seq(BYTE) /\ n \in 1..Len(wire) /\ n \in 0..Len(wire)
      /\ fifo' = fifo \o SubSeq(wire, 1, n) /\ wire' = Drop(wire, n)
      /\ Len(fifo) \in Nat /\ Len(wire) \in Nat
  <2> HIDE DEF Put
  <2> QED BY <1>1, <1>4, StreamType DEF Drop
<1> HIDE DEF Put
<1>6. /\ SubSeq(wire, 1, n) \in Seq(BYTE) /\ Len(SubSeq(wire, 1, n)) = n
      /\ Drop(wire, n) \in Seq(BYTE) /\ Len(Drop(wire, n)) = Len(wire) - n
      /\ \A i \in 1..(Len(wire) - n) : Drop(wire, n)[i] = wire[i + n]
      /\ \A i \in 1..n : SubSeq(wire, 1, n)[i] = wire[i]
  BY <1>5, FrontFacts, DropFacts
<1>7. SubSeq(wire, 1, n) \o Drop(wire, n) = wire
  <2> DEFINE a == SubSeq(wire, 1, n)
             b == Drop(wire, n)
  <2>1. /\ a \in Seq(BYTE) /\ b \in Seq(BYTE) /\ Len(a) = n /\ Len(b) = Len(wire) - n
        /\ \A i \in 1..n : a[i] = wire[i]
        /\ \A i \in 1..(Len(wire) - n) : b[i] = wire[i + n]
    BY <1>6
  <2> HIDE DEF a, b
  <2>2. /\ a \o b \in Seq(BYTE) /\ Len(a \o b) = Len(a) + Len(b)
        /\ \A i \in 1..Len(a) : (a \o b)[i] = a[i]
        /\ \A i \in (Len(a) + 1)..(Len(a) + Len(b)) : (a \o b)[i] = b[i - Len(a)]
    BY <2>1, CatBytes
  <2>3. Len(a \o b) = Len(wire)
    BY <1>5, <2>1, <2>2
  <2>4. ASSUME NEW i \in 1..Len(wire) PROVE (a \o b)[i] = wire[i]
    <3>1. CASE i <= n
      BY <1>5, <2>1, <2>2, <3>1
    <3>2. CASE i > n
      <4> DEFINE j == i - n
      <4>0. /\ n \in Nat /\ Len(wire) \in Nat /\ i \in Nat /\ i <= Len(wire)
            /\ i > n /\ Len(a) = n /\ Len(b) = Len(wire) - n
        BY <1>5, <2>1, <3>2
      <4>1. j \in 1..(Len(wire) - n) /\ j + n = i
            /\ i \in (Len(a) + 1)..(Len(a) + Len(b)) /\ i - Len(a) = j
        BY <4>0
      <4>2. (a \o b)[i] = b[j]
        BY <2>2, <4>1
      <4> HIDE DEF j
      <4>3. b[j] = wire[j + n]
        BY <2>1, <4>1
      <4>4. wire[j + n] = wire[i]
        BY <4>1
      <4> QED BY <4>2, <4>3, <4>4
    <3>3. i <= n \/ i > n
      BY <1>5
    <3> QED BY <3>1, <3>2, <3>3
  <2>5. a \o b = wire
    BY <1>5, <2>2, <2>3, <2>4, SeqEq
  <2> QED BY <2>5 DEF a, b
<1>8. Stream' = Stream
  <2>1. Stream' = (fifo \o SubSeq(wire, 1, n)) \o Drop(wire, n)
    BY <1>5 DEF Stream
  <2>2. (fifo \o SubSeq(wire, 1, n)) \o Drop(wire, n)
          = fifo \o (SubSeq(wire, 1, n) \o Drop(wire, n))
    BY <1>5, <1>6, CatAssoc
  <2> QED BY <1>7, <2>1, <2>2 DEF Stream
<1>9. Len(fifo') = Len(fifo) + n /\ Len(fifo') \in Nat /\ Len(fifo) <= Len(fifo')
  <2>1. Len(fifo \o SubSeq(wire, 1, n)) = Len(fifo) + Len(SubSeq(wire, 1, n))
    BY <1>5, <1>6, CatBytes
  <2> QED BY <1>5, <1>6, <2>1
<1>10. PlaceOk(Stream', Len(fifo'), context')
  <2>1. Stream \o <<>> = Stream /\ <<>> \in Seq(BYTE)
    BY StreamType
  <2>2. context.offset_len \in Nat /\ Len(fifo) \in 0..Len(Stream) /\ Stream \in Seq(BYTE)
    BY Fields, StreamType
  <2>3. PlaceOk(Stream \o <<>>, Len(fifo'), context)
    BY <1>9, <2>1, <2>2, PlaceMore DEF InStep
  <2> QED BY <1>2, <1>8, <2>1, <2>3
<1>11. InStep'
  BY <1>2, <1>3, <1>8, <1>10 DEF InStep
<1> QED BY <1>2, <1>3, <1>11

(* The modem sends a text of its own, behind everything else. *)
LEMMA ModemStep ==
  ASSUME TypeInv, InStep, ModemSends
  PROVE  InStep' /\ call'.at # "wild" /\ hist'.sends = hist.sends
<1>1. PICK text \in Unsolicited : wire' = wire \o Message(text, 0)
  BY DEF ModemSends, Sends
<1>2. /\ UNCHANGED <<context, fifo, age, call>> /\ call.at # "wild"
      /\ hist' = [hist EXCEPT !.unsolicited = @ + 1]
  BY DEF ModemSends
<1> DEFINE T == Message(text, 0)
<1>3. hist'.sends = hist.sends
  <2>1. hist \in HIST
    BY Fields
  <2> QED BY <1>2, <2>1 DEF HIST
<1>4. T \in Seq(BYTE) /\ \A i \in 1..Len(T) : T[i].of = 0
  <2>1. text \in Seq(Chars)
    BY TextType
  <2>2. /\ T \in Seq(BYTE) /\ Len(T) = Len(text)
        /\ \A i \in 1..Len(text) : T[i] = [c |-> text[i], of |-> 0, rest |-> Len(text) - i]
    BY <2>1, MessageFacts
  <2> HIDE DEF T
  <2>3. ASSUME NEW i \in 1..Len(T) PROVE T[i].of = 0
    <3>1. T[i] = [c |-> text[i], of |-> 0, rest |-> Len(text) - i]
      BY <2>2
    <3> QED BY <3>1
  <2> QED BY <2>2, <2>3
<1>5. Stream' = Stream \o T
  BY <1>1, <1>2, <1>4, StreamGrows
<1>6. FrameLeft(context) \in 0..Len(Stream) /\ Stream \in Seq(BYTE)
      /\ Len(fifo) \in 0..Len(Stream) /\ Len(fifo) \in Nat /\ context.offset_len \in Nat
  BY LeftFacts, StreamType, Fields
<1>7. Whole(Stream \o T, FrameLeft(context))
  BY <1>6, WholeCatText DEF InStep, StreamOk
<1> HIDE DEF T
<1>8. StreamOk(Stream', context')
  <2>1. Answers(Stream \o T, FrameLeft(context), FirstOf(context).id, ExpOf(context), MayOf(context))
    BY <1>4, <1>6, AnswersCatText DEF InStep, StreamOk
  <2> QED BY <1>2, <1>5, <1>7, <2>1 DEF StreamOk
<1>9. FrameOk(Stream', context')
  BY <1>2, <1>4, <1>5, <1>6, FrameMore DEF InStep
<1>10. PlaceOk(Stream', Len(fifo'), context')
  <2>1. PlaceOk(Stream \o T, Len(fifo), context)
    BY <1>4, <1>6, PlaceMore DEF InStep
  <2> QED BY <1>2, <1>5, <2>1
<1> QED BY <1>2, <1>3, <1>8, <1>9, <1>10 DEF InStep

(* Time passes. *)
LEMMA TickStep ==
  ASSUME TypeInv, InStep, Tick
  PROVE  InStep' /\ call'.at # "wild" /\ hist'.sends = hist.sends
<1>1. /\ UNCHANGED <<context, fifo, call, wire, hist>> /\ call.at # "wild"
  BY DEF Tick
<1>2. Stream' = Stream
  BY <1>1 DEF Stream
<1> QED BY <1>1, <1>2 DEF InStep

(* Nothing is there, and no command is out. *)
LEMMA NewOk ==
  ASSUME NEW ok \in BOOLEAN, NEW sends, NEW cl, cl.at = "poll"
  PROVE  LET c == NewContext(ok)
         IN  /\ StreamOk(<<>>, c) /\ FrameOk(<<>>, c) /\ PlaceOk(<<>>, 0, c)
             /\ PassOk(c, cl) /\ ListOk(c) /\ TriesOk(c, sends)
<1> DEFINE c == NewContext(ok)
<1>1. /\ c.state = "IDLE" /\ c.busy_flag = 0 /\ c.parsing_flag = FALSE
      /\ c.write_list = <<>> /\ FrameLeft(c) = 0
  BY DEF NewContext, FrameLeft
<1> HIDE DEF c
<1>2. StreamOk(<<>>, c)
  BY <1>1 DEF StreamOk, Whole, TextsWhole, AnswersWhole, Answers
<1>3. FrameOk(<<>>, c) /\ PassOk(c, cl) /\ ListOk(c) /\ TriesOk(c, sends)
  BY <1>1 DEF FrameOk, PassOk, ListOk, TriesOk
<1>4. PlaceOk(<<>>, 0, c)
  BY <1>1, PlainPlace DEF PlainStates
<1> QED BY <1>2, <1>3, <1>4 DEF c

(* The client cleans, with nothing on its way. *)
LEMMA CleanStep ==
  ASSUME TypeInv, HyAtUtilsClean, ~hist'.late
  PROVE  InStep' /\ call'.at # "wild" /\ hist'.sends = hist.sends
<1>0. wire = <<>> /\ hist'.sends = hist.sends
  <2> DEFINE b == InMessage \/ (fifo = <<>> /\ context.parsing_flag)
  <2>1. hist' = [hist EXCEPT !.late = @ \/ wire # <<>>, !.off_step = @ \/ b]
    BY DEF HyAtUtilsClean
  <2> HIDE DEF b
  <2>2. hist'.late = (hist.late \/ wire # <<>>) /\ hist'.sends = hist.sends
    BY <2>1, Fields DEF HIST
  <2> QED BY <2>2
<1>1. /\ context' = NewContext(context.is_cmd_ok) /\ fifo' = <<>> /\ wire' = <<>>
      /\ call'.at = "poll" /\ hist'.sends = hist.sends /\ context.is_cmd_ok \in BOOLEAN
  BY <1>0, AtType, Fields DEF HyAtUtilsClean, DestroyClean
<1>2. Stream' = <<>> /\ Len(fifo') = 0
  BY <1>1 DEF Stream
<1>3. \A c : c = NewContext(context.is_cmd_ok) =>
        /\ StreamOk(<<>>, c) /\ FrameOk(<<>>, c) /\ PlaceOk(<<>>, 0, c)
        /\ PassOk(c, call') /\ ListOk(c) /\ TriesOk(c, hist.sends)
  BY <1>1, NewOk
<1> QED BY <1>1, <1>2, <1>3 DEF InStep

-----------------------------------------------------------------------------
(* The invariant.                                                          *)

(* In the beginning nothing is there. *)
LEMMA InitIInv == Init => IInv
<1> SUFFICES ASSUME Init PROVE IInv
  OBVIOUS
<1>1. TypeInv
  BY InitType
<1>2. PICK ok \in BOOLEAN : context = NewContext(ok)
  BY DEF Init
<1>3. /\ fifo = <<>> /\ wire = <<>> /\ call.at = "poll" /\ hist.frame = <<>>
      /\ hist.sends = [i \in DOMAIN Cmds |-> 0]
  BY AtType DEF Init
<1>4. InStep
  <2>1. Stream = <<>> /\ Len(fifo) = 0
    BY <1>3 DEF Stream
  <2>2. \A c : c = NewContext(ok) =>
          /\ StreamOk(<<>>, c) /\ FrameOk(<<>>, c) /\ PlaceOk(<<>>, 0, c)
          /\ PassOk(c, call) /\ ListOk(c) /\ TriesOk(c, hist.sends)
    BY <1>3, NewOk
  <2> QED BY <1>2, <2>1, <2>2 DEF InStep
<1>5. SendsBounded
  <2>1. ASSUME NEW i \in 1..Len(Cmds) PROVE hist.sends[i] <= Cmds[i].retry
    <3> DEFINE r == Cmds[i].retry
    <3>1. r \in 1..255
      BY CmdTypes
    <3>2. hist.sends[i] = 0
      BY <1>3, CmdTypes
    <3> HIDE DEF r
    <3>3. 0 <= r
      BY <3>1
    <3> QED BY <3>2, <3>3 DEF r
  <2> QED BY <2>1, CmdTypes DEF SendsBounded
<1>6. UsedInv
  BY <1>3 DEF Init, UsedInv
<1> QED BY <1>1, <1>3, <1>4, <1>5, <1>6 DEF IInv, FirstEntryNonEmpty, FramesWhole

(* Once out of step the module stays so; sendings are counted when a command *)
(* goes out, and a frame is one that was given away.                       *)
LEMMA HistStep ==
  ASSUME TypeInv, Next
  PROVE  /\ OutOfStep => OutOfStep'
         /\ WriteCmd \/ hist'.sends = hist.sends
         /\ IpdHeader \/ IpdMore \/ hist'.frame = hist.frame
<1> DEFINE On == (hist.off_step => hist'.off_step) /\ (hist.late => hist'.late)
           Same == hist'.sends = hist.sends /\ hist'.frame = hist.frame /\ On
<1>1. hist \in HIST
  BY Fields
<1>2. ASSUME NEW b, hist' = [hist EXCEPT !.off_step = b], hist.off_step => b PROVE Same
  BY <1>1, <1>2 DEF HIST
<1>3. ASSUME UNCHANGED hist PROVE Same
  BY <1>3
<1>4. IdleRead \/ IdleWrite \/ Write \/ WriteCmdWait => Same
  BY <1>3 DEF IdleRead, IdleWrite, Write, WriteCmdWait
<1>5. WriteData \/ Peek \/ Read \/ ReadText \/ ReadClosed \/ ReadOk \/ ReadSignal => Same
  BY <1>3 DEF WriteData, Wild, Peek, Read, ReadText, ReadClosed, ReadOk, ReadSignal
<1>6. HyAtUtilsDestroy \/ Tick => Same
  BY <1>3 DEF HyAtUtilsDestroy, Tick
<1>7. IgnoreClosed \/ IpdBadHeader => Same
  BY <1>2 DEF IgnoreClosed, IpdBadHeader
<1>8. HyAtUtilsWriteCmd \/ ModemSends => Same
  BY <1>1 DEF HyAtUtilsWriteCmd, ModemSends, HIST
<1>9. HyAtUtilsPutData => Same
  <2> SUFFICES ASSUME HyAtUtilsPutData PROVE Same
    OBVIOUS
  <2>1. \E b : hist' = [hist EXCEPT !.off_step = @ \/ b]
    BY DEF HyAtUtilsPutData
  <2> QED BY <1>1, <2>1 DEF HIST
<1>10. ReadError => Same
  <2> SUFFICES ASSUME ReadError PROVE Same
    OBVIOUS
  <2>1. UNCHANGED hist \/ \E b : hist' = [hist EXCEPT !.off_step = @ \/ b]
    BY DEF ReadError, Wild
  <2> QED BY <1>1, <2>1 DEF HIST
<1>11. ReadHead => Same
  <2> SUFFICES ASSUME ReadHead PROVE Same
    OBVIOUS
  <2>1. UNCHANGED hist \/ \E b : hist' = [hist EXCEPT !.off_step = @ \/ b]
    BY DEF ReadHead
  <2> QED BY <1>1, <2>1 DEF HIST
<1>12. IdleTimeout => Same
  <2> SUFFICES ASSUME IdleTimeout PROVE Same
    OBVIOUS
  <2>1. \E b : hist' = [hist EXCEPT !.late = @ \/ b]
    BY DEF IdleTimeout
  <2> QED BY <1>1, <2>1 DEF HIST
<1>13. HyAtUtilsClean => Same
  <2> SUFFICES ASSUME HyAtUtilsClean PROVE Same
    OBVIOUS
  <2> DEFINE b == wire # <<>>
             d == InMessage \/ (fifo = <<>> /\ context.parsing_flag)
  <2>1. hist' = [hist EXCEPT !.late = @ \/ b, !.off_step = @ \/ d]
    BY DEF HyAtUtilsClean
  <2> HIDE DEF b, d
  <2> QED BY <1>1, <2>1 DEF HIST
<1>14. WriteCmd => hist'.frame = hist.frame /\ On
  <2> SUFFICES ASSUME WriteCmd PROVE hist'.frame = hist.frame /\ On
    OBVIOUS
  <2> DEFINE s == [hist.sends EXCEPT ![First.id] = @ + 1]
             b == Resumed
  <2>1. UNCHANGED hist \/ hist' = [hist EXCEPT !.sends = s, !.off_step = @ \/ b]
    BY DEF WriteCmd, Wild
  <2> HIDE DEF s, b
  <2> QED BY <1>1, <2>1 DEF HIST
<1>15. IpdHeader \/ IpdMore => hist'.sends = hist.sends /\ On
  <2> SUFFICES ASSUME IpdHeader \/ IpdMore
               PROVE  hist'.sends = hist.sends /\ On
    OBVIOUS
  <2>1. UNCHANGED hist \/ \E f : hist' = [hist EXCEPT !.frame = f]
    BY DEF IpdHeader, IpdMore, Deliver, KeepPart
  <2> QED BY <1>1, <2>1 DEF HIST
<1>16. Same => hist'.sends = hist.sends /\ hist'.frame = hist.frame /\ On
  OBVIOUS
<1>17. On => (OutOfStep => OutOfStep')
  BY DEF OutOfStep
<1> HIDE DEF Same, On
<1> QED BY <1>4, <1>5, <1>6, <1>7, <1>8, <1>9, <1>10, <1>11, <1>12, <1>13, <1>14, <1>15,
           <1>16, <1>17 DEF Next, HyAtUtilsProcess, Client

(* A step of the module in step keeps the invariant. *)
LEMMA LiveStep ==
  ASSUME TypeInv, UsedInv, InStep, Live, Next, ~OutOfStep'
  PROVE  (Live' => InStep') /\ call'.at # "wild"
<1>0. ~hist'.off_step /\ ~hist'.late
  BY DEF OutOfStep
<1> DEFINE Good == (Live' => InStep') /\ call'.at # "wild"
<1>1. call.at # "wild" /\ call.at # "closed"
  BY DEF Live
<1>2. IdleRead \/ IdleWrite \/ Write \/ WriteCmdWait => Good
  <2>1. IdleRead \/ IdleWrite \/ Write \/ WriteCmdWait => UNCHANGED call
    BY DEF IdleRead, IdleWrite, Write, WriteCmdWait
  <2> QED BY <1>1, <2>1, IdleStep
<1>3. IdleTimeout \/ WriteCmd \/ WriteData => Good
  BY <1>0, IdleTimeoutStep, WriteCmdStep, WriteDataStep
<1>4. Peek => Good
  <2>1. Peek => call'.at # "wild"
    BY AtType DEF Peek
  <2> QED BY <2>1, PeekStep
<1>5. ASSUME NEW c, Loop(c) PROVE call'.at # "wild"
  BY <1>5, AtType DEF Loop
<1>6. Read \/ ReadHead \/ ReadText \/ ReadSignal => Good
  <2>1. Read \/ ReadHead \/ ReadText \/ ReadSignal => \E c : Loop(c)
    BY DEF Read, ReadHead, ReadText, ReadSignal, Update, Keep
  <2> QED BY <1>0, <1>5, <2>1, ReadStep, ReadHeadStep, ReadTextStep, ReadSignalStep
<1>7. ReadError \/ ReadOk \/ IpdHeader \/ IpdMore => Good
  BY <1>0, ReadErrorStep, ReadOkStep, IpdHeaderStep, IpdMoreStep
<1>8. ReadClosed \/ HyAtUtilsDestroy => Good
  BY AtType DEF ReadClosed, HyAtUtilsDestroy, Live
<1>9. ~IpdBadHeader /\ (Client => Good)
  <2>1. hist \in HIST
    BY Fields
  <2>2. ~IpdBadHeader
    BY <1>0, <2>1 DEF IpdBadHeader, HIST
  <2>3. HyAtUtilsClean => Good
    BY <1>0, CleanStep
  <2> QED BY <1>1, <2>2, <2>3 DEF Client, IgnoreClosed
<1>10. HyAtUtilsWriteCmd \/ HyAtUtilsPutData \/ ModemSends \/ Tick => Good
  BY <1>0, WriteListStep, PutStep, ModemStep, TickStep
<1> HIDE DEF Good
<1>11. Good
  BY <1>2, <1>3, <1>4, <1>6, <1>7, <1>8, <1>9, <1>10 DEF Next, HyAtUtilsProcess
<1> QED BY <1>11 DEF Good

(* The client has been told CLOSED, or there is nothing to keep. *)
LEMMA RestStep ==
  ASSUME TypeInv, ~Live, call.at # "wild", Next, ~OutOfStep'
  PROVE  (Live' => InStep') /\ call'.at # "wild"
<1>0. ~hist'.off_step /\ ~hist'.late
  BY DEF OutOfStep
<1>1. call.at \in {"closed", "gone", "overrun"}
  BY DEF TypeInv, CALL, Live
<1>2. ~HyAtUtilsProcess
  BY <1>1 DEF HyAtUtilsProcess, IdleRead, IdleTimeout, IdleWrite, Write, WriteCmd,
       WriteCmdWait, WriteData, Peek, Read, ReadHead, ReadText, ReadClosed, ReadError,
       ReadOk, ReadSignal, IpdBadHeader, IpdHeader, IpdMore, Polls, Handles
<1>3. CASE HyAtUtilsClean
  BY <1>0, <1>3, CleanStep
<1>4. CASE HyAtUtilsPutData \/ ModemSends \/ Tick
  BY <1>1, <1>4 DEF HyAtUtilsPutData, ModemSends, Tick, Live
<1>5. ~IgnoreClosed
  <2>1. hist \in HIST
    BY Fields
  <2> QED BY <1>0, <2>1 DEF IgnoreClosed, HIST
<1>6. ~HyAtUtilsWriteCmd /\ ~HyAtUtilsDestroy
  BY <1>1 DEF HyAtUtilsWriteCmd, HyAtUtilsDestroy
<1> QED BY <1>2, <1>3, <1>4, <1>5, <1>6 DEF Next, Client

(* Every step keeps the invariant. *)
LEMMA NextIInv == IInv /\ [Next]_vars => IInv'
<1> SUFFICES ASSUME IInv, [Next]_vars PROVE IInv'
  OBVIOUS
<1>1. TypeInv /\ TypeInv' /\ UsedInv /\ UsedInv'
  BY NextType, UsedStep DEF IInv
<1>2. CASE UNCHANGED vars
  <2>1. Stream' = Stream
    BY <1>2 DEF vars, Stream
  <2>2. InStep' = InStep
    BY <1>2, <2>1 DEF vars, InStep
  <2> QED BY <1>1, <1>2, <2>2
          DEF IInv, vars, Live, OutOfStep, FirstEntryNonEmpty, FramesWhole, SendsBounded
<1>3. CASE Next /\ OutOfStep'
  BY <1>1, <1>3 DEF IInv, FirstEntryNonEmpty
<1>4. CASE Next /\ ~OutOfStep'
  <2>1. /\ ~hist.off_step /\ ~OutOfStep /\ ~hist'.off_step
        /\ call.at # "wild" /\ (Live => InStep)
    BY <1>1, <1>4, HistStep DEF IInv, OutOfStep, FirstEntryNonEmpty
  <2>2. (Live' => InStep') /\ call'.at # "wild"
    BY <1>1, <1>4, <2>1, LiveStep, RestStep
  <2>3. SendsBounded'
    <3>1. \A i \in 1..Len(Cmds) : hist.sends[i] <= Cmds[i].retry
      BY <2>1, CmdTypes DEF IInv, SendsBounded
    <3>2. \A i \in 1..Len(Cmds) : hist'.sends[i] <= Cmds[i].retry
      <4>1. CASE WriteCmd
        <5>1. InStep
          BY <2>1, <4>1 DEF WriteCmd, Polls, Live
        <5> QED BY <1>1, <1>4, <2>1, <3>1, <4>1, <5>1, WriteCmdStep
      <4>2. CASE ~WriteCmd
        BY <1>1, <1>4, <3>1, <4>2, HistStep
      <4> QED BY <4>1, <4>2
    <3> QED BY <3>2, CmdTypes DEF SendsBounded
  <2>4. FramesWhole'
    <3>1. hist'.frame # <<>> => Payload(hist'.frame)
      <4>1. CASE hist'.frame = hist.frame
        <5>1. hist.frame # <<>> => Payload(hist.frame)
          <6>1. ASSUME hist.frame # <<>> PROVE Payload(hist.frame)
            <7>1. PICK text \in Unsolicited : \E k \in DOMAIN text :
                    text[k] = ":" /\ hist.frame = SubSeq(Message(text, 0), k + 1, Len(text))
              BY <2>1, <6>1 DEF IInv, FramesWhole
            <7>2. DOMAIN text = 1..Len(text)
              BY TextType
            <7> QED BY <7>1, <7>2 DEF Payload
          <6> QED BY <6>1
        <5> QED BY <4>1, <5>1
      <4>2. CASE hist'.frame # hist.frame
        <5>1. IpdHeader \/ IpdMore
          BY <1>1, <1>4, <4>2, HistStep
        <5>2. InStep
          BY <2>1, <5>1 DEF IpdHeader, IpdMore, Handles, Live
        <5> QED BY <1>1, <4>2, <5>1, <5>2, IpdHeaderStep, IpdMoreStep
      <4> QED BY <4>1, <4>2
    <3>2. ASSUME hist'.frame # <<>>
          PROVE  \E text \in Unsolicited : \E k \in DOMAIN text :
                   text[k] = ":" /\ hist'.frame = SubSeq(Message(text, 0), k + 1, Len(text))
      <4>1. PICK text \in Unsolicited : \E k \in 1..Len(text) :
              text[k] = ":" /\ hist'.frame = SubSeq(Message(text, 0), k + 1, Len(text))
        BY <3>1, <3>2 DEF Payload
      <4>2. DOMAIN text = 1..Len(text)
        BY TextType
      <4> QED BY <4>1, <4>2
    <3> QED BY <3>2 DEF FramesWhole
  <2> QED BY <1>1, <2>2, <2>3, <2>4 DEF IInv, FirstEntryNonEmpty
<1> QED BY <1>2, <1>3, <1>4 DEF IInv

(* In every state that can be reached, the types are right, and in step the *)
(* stream, the list and the state fit together.                            *)
THEOREM IInvAlways == Spec => []IInv
  BY InitIInv, NextIInv, PTL DEF Spec

(* The context between two steps is sound: TypeOK of every field, the list in *)
(* the order of the calls and within at_cmd_num, what was kept of a frame     *)
(* shorter than it, always; and until one of the circumstances of OutOfStep,  *)
(* a late answer among them, list_first_entry is used on a list with an entry. *)
THEOREM ContextSoundAlways == Spec => []ContextSound
<1>1. IInv => ContextSound
  <2> SUFFICES ASSUME IInv PROVE ContextSound
    OBVIOUS
  <2>1. TypeInv
    BY DEF IInv
  <2>2. DOMAIN context.write_list = 1..Len(context.write_list)
    BY <2>1, Fields
  <2>3. \A i \in 1..Len(context.write_list) :
          /\ context.write_list[i].retry \in 0..255
          /\ context.write_list[i].del_cnt \in 1..2
    <3>1. \A i \in 1..Len(context.write_list) : context.write_list[i] \in ENTRY
      BY <2>1, Fields
    <3> QED BY <3>1 DEF ENTRY
  <2>4. context.state \in States /\ context.busy_flag \in 0..2
        /\ GoodList(context.write_list, hist.written) /\ GoodFrame(context)
    BY <2>1, Fields
  <2>5. TypeOK
    BY <2>1, <2>2, <2>3, <2>4 DEF TypeOK, TypeInv, States, GoodList, GoodFrame
  <2> QED BY <2>5 DEF IInv, ContextSound
<1> QED BY <1>1, IInvAlways, PTL

(* Until one of the circumstances of OutOfStep, an OK, an ERROR or a prompt  *)
(* is taken for the command that it answers, however the answers are cut up,  *)
(* and after commands that were never answered; not after an answer was late. *)
THEOREM OwnAnswerAlways == Spec => []OwnAnswer
<1>1. IInv => OwnAnswer
  <2> SUFFICES ASSUME IInv, Handles({"READ_OK", "READ_ERROR", "READ_SEND"}), ~NoFirst,
                      ~OutOfStep
               PROVE  fifo[1].of = First.id
    BY DEF OwnAnswer
  <2>1. TypeInv /\ call.at = "handle" /\ context.state \in {"READ_OK", "READ_ERROR", "READ_SEND"}
    BY DEF IInv, Handles
  <2>2. InStep
    BY <2>1 DEF IInv, Live
  <2>3. ~context.parsing_flag
    BY <2>1, <2>2 DEF InStep, PassOk
  <2>4. PICK char : FrontIs(Stream, Len(fifo), char)
    BY <2>1, <2>2 DEF InStep, PlaceOk
  <2>5. Stream[1].of = FirstOf(context).id /\ First = FirstOf(context)
    BY <2>1, <2>2, <2>3, <2>4, FrontExpected
  <2>6. Stream[1] = fifo[1]
    <3>1. 1 \in 1..Len(fifo)
      BY <2>1, <2>4, StreamType DEF FrontIs
    <3> QED BY <2>1, <3>1, StreamType
  <2> QED BY <2>5, <2>6
<1> QED BY <1>1, IInvAlways, PTL

(* Until one of the circumstances of OutOfStep, handle_frame_cb gets the     *)
(* whole payload of one frame that the modem sent, in however many pieces it *)
(* came and whatever it holds.                                             *)
THEOREM FramesWholeInStep == Spec => [](OutOfStep \/ FramesWhole)
<1>1. IInv => OutOfStep \/ FramesWhole
  BY DEF IInv
<1> QED BY <1>1, IInvAlways, PTL

(* Until one of the circumstances of OutOfStep, a command goes out at most   *)
(* as often as its retry says, time-outs and ERROR answers together.       *)
THEOREM SendsBoundedInStep == Spec => [](OutOfStep \/ SendsBounded)
<1>1. IInv => OutOfStep \/ SendsBounded
  BY DEF IInv
<1> QED BY <1>1, IInvAlways, PTL
=============================================================================
