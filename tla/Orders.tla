------------------------------- MODULE Orders -------------------------------
(* Sequences without repetition, as queues and board orders are.           *)
EXTENDS Naturals, Sequences

Elements(seq)   == { seq[i] : i \in DOMAIN seq }
Injective(seq)  == \A i, j \in DOMAIN seq : seq[i] = seq[j] => i = j
Without(seq, x) == LET p == CHOOSE i \in DOMAIN seq : seq[i] = x
                   IN  SubSeq(seq, 1, p - 1) \o SubSeq(seq, p + 1, Len(seq))
\* What is left of the first n elements when only members of S stay, and of all of them.
KeptOf(seq, S)  == LET kept[n \in 0..Len(seq)] == IF n = 0 THEN <<>>
                                                 ELSE IF seq[n] \in S THEN Append(kept[n - 1], seq[n])
                                                 ELSE kept[n - 1]
                   IN  kept
Only(seq, S)    == KeptOf(seq, S)[Len(seq)]
FirstN(seq, n)  == SubSeq(seq, 1, IF Len(seq) < n THEN Len(seq) ELSE n)
=============================================================================
