----------------------------- MODULE RangeHeap -----------------------------
(***************************************************************************)
(* What allocator and collector promise the program together: the heap     *)
(* below its top is divided into ranges, each in the program's hands or    *)
(* spare; the heap grows only for a request that no spare range can serve; *)
(* a collection leaves what it keeps in its place and makes spare ranges   *)
(* of all the room between.                                                *)
(***************************************************************************)
EXTENDS Integers

CONSTANT Requests   \* sizes asked for

VARIABLES held, spare, top
rangeVars == <<held, spare, top>>

Ranged(at, size) == [at |-> at, size |-> size]
End(r) == r.at + r.size

\* A range in one piece or in two.
Pieces(at, size) ==
  {{Ranged(at, size)}} \cup {{Ranged(at, n), Ranged(at + n, size - n)} : n \in 1 .. size - 1}

RangeInit == held = {} /\ spare = {} /\ top = 1

\* A spare range is handed out, as a whole or without its end.
Take(n) ==
  /\ UNCHANGED top
  /\ \E r \in spare :
       /\ n <= r.size
       /\ \/ /\ spare' = spare \ {r}
             /\ \E pieces \in Pieces(r.at, r.size) : held' = held \cup pieces
          \/ /\ n < r.size
             /\ spare' = (spare \ {r}) \cup {Ranged(r.at + n, r.size - n)}
             /\ \E pieces \in Pieces(r.at, n) : held' = held \cup pieces

Extend(n) ==
  /\ top' = top + n
  /\ UNCHANGED spare
  /\ \A r \in spare : r.size < n
  /\ \E pieces \in Pieces(top, n) : held' = held \cup pieces

\* An owner divides a range it holds.
Divide ==
  /\ UNCHANGED <<spare, top>>
  /\ \E r \in held : \E pieces \in Pieces(r.at, r.size) : held' = (held \ {r}) \cup pieces

\* An owner gives a range back; it may become one with the spare range behind it.
Return ==
  /\ UNCHANGED top
  /\ \E r \in held :
       /\ held' = held \ {r}
       /\ \/ spare' = spare \cup {r}
          \/ \E s \in spare :
               s.at = End(r) /\ spare' = (spare \ {s}) \cup {Ranged(r.at, r.size + s.size)}

\* Where room begins once only these ranges are kept, and the room up to the next of them.
Ends(kept) == {1} \cup {End(r) : r \in kept}
Gaps(kept) ==
  {g \in {Ranged(a, r.at - a) : a \in Ends(kept), r \in kept} :
     g.size > 0 /\ \A r \in kept : End(r) <= g.at \/ End(g) <= r.at}

Collect ==
  /\ held' \subseteq held
  /\ \E kept \in {held'} :
       /\ spare' = Gaps(kept)
       /\ top' \in Ends(kept) /\ \A e \in Ends(kept) : e <= top'

RangeNext == Collect \/ Divide \/ Return \/ \E n \in Requests : Take(n) \/ Extend(n)
RangeSpec == RangeInit /\ [][RangeNext]_rangeVars
=============================================================================
