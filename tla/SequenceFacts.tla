---------------------------- MODULE SequenceFacts ----------------------------
(***************************************************************************)
(* What the operators on sequences do, for the proofs about the rings,     *)
(* lists and streams of the broker.                                        *)
(***************************************************************************)
EXTENDS Integers, Sequences, TLAPS

\* A sequence is a function on 1 .. Len.
LEMMA SeqLen ==
  ASSUME NEW T, NEW q \in Seq(T)
  PROVE  Len(q) \in Nat /\ DOMAIN q = 1 .. Len(q) /\ q \in [1 .. Len(q) -> T]
OBVIOUS

\* The elements of a queue.
LEMMA SeqElement ==
  ASSUME NEW T, NEW q \in Seq(T), NEW k \in 1 .. Len(q)
  PROVE  q[k] \in T
OBVIOUS

\* A queue is empty when its length is zero.
LEMMA SeqEmpty ==
  ASSUME NEW T
  PROVE  /\ Len(<< >>) = 0 /\ << >> \in Seq(T)
         /\ \A q \in Seq(T) : q # << >> => Len(q) \in Nat \ {0}
OBVIOUS

\* A queue is what its elements are.
LEMMA SeqSame ==
  ASSUME NEW T, NEW p \in Seq(T), NEW q \in Seq(T), Len(p) = Len(q), \A k \in 1 .. Len(p) : p[k] = q[k]
  PROVE  p = q
OBVIOUS

\* One more at the end of a queue.
LEMMA SeqAppend ==
  ASSUME NEW T, NEW q \in Seq(T), NEW x \in T
  PROVE  /\ Append(q, x) \in Seq(T) /\ Len(Append(q, x)) = Len(q) + 1 /\ Append(q, x) # << >>
         /\ Append(q, x)[Len(q) + 1] = x /\ \A k \in 1 .. Len(q) : Append(q, x)[k] = q[k]
OBVIOUS

\* Appending is concatenation with a sequence of one.
LEMMA SeqLast ==
  ASSUME NEW T, NEW q \in Seq(T), NEW x \in T
  PROVE  Append(q, x) = q \o <<x>>
OBVIOUS

\* One less at the front of a queue.
LEMMA SeqTail ==
  ASSUME NEW T, NEW q \in Seq(T), q # << >>
  PROVE  /\ Head(q) \in T /\ Tail(q) \in Seq(T) /\ Len(Tail(q)) = Len(q) - 1
         /\ \A k \in 1 .. Len(Tail(q)) : Tail(q)[k] = q[k + 1]
OBVIOUS

\* The tail is the part from the second element on.
LEMMA SeqTailPart ==
  ASSUME NEW T, NEW q \in Seq(T), q # << >>
  PROVE  Tail(q) = SubSeq(q, 2, Len(q))
OBVIOUS

\* One stream after another.
LEMMA SeqConcat ==
  ASSUME NEW T, NEW p \in Seq(T), NEW q \in Seq(T)
  PROVE  /\ p \o q \in Seq(T) /\ Len(p \o q) = Len(p) + Len(q)
         /\ \A k \in 1 .. Len(p) + Len(q) : (p \o q)[k] = IF k <= Len(p) THEN p[k] ELSE q[k - Len(p)]
OBVIOUS

\* Three streams.
LEMMA SeqAssociates ==
  ASSUME NEW T, NEW p \in Seq(T), NEW q \in Seq(T), NEW r \in Seq(T)
  PROVE  (p \o q) \o r = p \o (q \o r)
OBVIOUS

\* An empty stream adds nothing.
LEMMA SeqUnit ==
  ASSUME NEW T, NEW q \in Seq(T)
  PROVE  << >> \o q = q /\ q \o << >> = q
OBVIOUS

\* A part of a stream.
LEMMA SeqPart ==
  ASSUME NEW T, NEW q, NEW m \in Int, NEW n \in Int, \A k \in m .. n : q[k] \in T
  PROVE  /\ SubSeq(q, m, n) \in Seq(T) /\ Len(SubSeq(q, m, n)) = IF m <= n THEN n - m + 1 ELSE 0
         /\ \A k \in 1 .. n - m + 1 : SubSeq(q, m, n)[k] = q[m + k - 1]
OBVIOUS

\* All of a stream.
LEMMA SeqWhole ==
  ASSUME NEW T, NEW q \in Seq(T)
  PROVE  SubSeq(q, 1, Len(q)) = q
OBVIOUS

\* Two parts that meet.
LEMMA SeqMeet ==
  ASSUME NEW T, NEW q \in Seq(T), NEW m \in 1 .. Len(q) + 1, NEW k \in m - 1 .. Len(q), NEW n \in k .. Len(q)
  PROVE  SubSeq(q, m, k) \o SubSeq(q, k + 1, n) = SubSeq(q, m, n)
OBVIOUS

\* A slot of a ring is written.
LEMMA SeqWrite ==
  ASSUME NEW T, NEW q \in Seq(T), NEW i \in 1 .. Len(q), NEW x \in T
  PROVE  /\ [q EXCEPT ![i] = x] \in Seq(T) /\ Len([q EXCEPT ![i] = x]) = Len(q)
         /\ \A k \in 1 .. Len(q) : [q EXCEPT ![i] = x][k] = IF k = i THEN x ELSE q[k]
OBVIOUS

\* Sequences over a larger set.
LEMMA SeqWider ==
  ASSUME NEW T, NEW U, T \subseteq U, NEW q \in Seq(T)
  PROVE  q \in Seq(U)
OBVIOUS
================================================================================
