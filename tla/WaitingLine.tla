------------------------------ MODULE WaitingLine ------------------------------
(* What mu_queue and mu_list promise together: a line of items that others *)
(* join at the end or at the front, that serves the first and that any may *)
(* leave; a pile that is put on and taken from at the top, that any may be *)
(* taken out of and that may be turned over; and every item in at most one *)
(* place.                                                                  *)
EXTENDS Sequences, SequencesExt

CONSTANT Items
VARIABLES line, pile

LineInit == line = <<>> /\ pile = <<>>

IsFree(i) == i \notin ToSet(line) \union ToSet(pile)
Without(s, i, after) ==   \* after is s without i, if i is in it
  \/ i \notin ToSet(s) /\ after = s
  \/ \E k \in DOMAIN s : s[k] = i /\ after = RemoveAt(s, k)

Join(i) == IsFree(i) /\ line' = Append(line, i)
ButtIn(i) == IsFree(i) /\ line' = <<i>> \o line
Serve == line # <<>> /\ line' = Tail(line)
Leave(i) == Without(line, i, line')
Close == line' = <<>>

Put(i) == IsFree(i) /\ pile' = <<i>> \o pile
Take == pile # <<>> /\ pile' = Tail(pile)
TakeOut(i) == Without(pile, i, pile')
TurnOver == pile' = Reverse(pile)

LineNext ==
  \/ UNCHANGED pile /\ (Serve \/ Close \/ \E i \in Items : Join(i) \/ ButtIn(i) \/ Leave(i))
  \/ UNCHANGED line /\ (Take \/ TurnOver \/ \E i \in Items : Put(i) \/ TakeOut(i))

LineSpec == LineInit /\ [][LineNext]_<<line, pile>>
===============================================================================
