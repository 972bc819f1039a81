------------------------------ MODULE PathGlob ------------------------------
(***************************************************************************)
(* Path globs: what a service's mesh block says about its endpoints.  A    *)
(* pattern is a list of segments and a tail flag; a segment is a list of   *)
(* characters, "*" standing for one or more of them; a path is a list of   *)
(* segments of plain characters.                                           *)
(*                                                                         *)
(* Matches is what nginx does with the rendered regular expression;        *)
(* Overlaps is the validator's walk over two patterns, which never looks   *)
(* at a path.                                                              *)
(***************************************************************************)
EXTENDS Integers, Sequences

IsList(s) == s \in Seq({s[i] : i \in DOMAIN s})
IsPath(path) == IsList(path) /\ \A i \in DOMAIN path : IsList(path[i])
IsGlob(p) == IsPath(p.segments)

Parsed(p) == p.segments # <<>> /\ \A i \in DOMAIN p.segments : p.segments[i] # <<>>

(* The anchored expression: each character of str is taken by one element  *)
(* of seg, in order; only a "*" takes more than one, and none is left out. *)
SegmentMatches(seg, str) ==
  \E by \in [DOMAIN str -> DOMAIN seg] :
    /\ \A j \in DOMAIN str : seg[by[j]] \in {"*", str[j]}
    /\ \A j, k \in DOMAIN str : j < k => /\ by[j] <= by[k]
                                         /\ (by[j] = by[k] => seg[by[j]] = "*")
    /\ \A i \in DOMAIN seg : \E j \in DOMAIN str : by[j] = i

Matches(p, path) ==
  /\ IF p.tail THEN Len(path) >= Len(p.segments) ELSE Len(path) = Len(p.segments)
  /\ \A i \in DOMAIN p.segments : SegmentMatches(p.segments[i], path[i])

(* Where a walk stands in a segment: at an element, or in the loop that    *)
(* follows the mandatory character of a "*".                               *)
At(i) == [at |-> i, loop |-> FALSE]
Looping(i) == [at |-> i, loop |-> TRUE]
Exit(x) == At(x.at + 1)

Ended(seg, x) == x.at > Len(seg)

(* Mutant: a loop is left as soon as it has consumed a character. *)
StepsOnce(seg, x) == {IF seg[x.at] = "*" /\ ~x.loop THEN Looping(x.at) ELSE Exit(x)}

(* Where one side of the walk stands after a character: a loop may stay. *)
Steps(seg, x) ==
  IF seg[x.at] # "*" THEN {Exit(x)}
  ELSE IF x.loop THEN {x, Exit(x)} ELSE {Looping(x.at)}

Skips(x) == IF x.loop THEN {Exit(x)} ELSE {}

Agree(x, y) == x = y \/ "*" \in {x, y}

(* The product automaton, from a place in a and a place in b.              *)
Moves(a, b, s) ==
  {<<x, s[2]>> : x \in Skips(s[1])} \cup {<<s[1], y>> : y \in Skips(s[2])}
    \cup (IF Ended(a, s[1]) \/ Ended(b, s[2]) \/ ~Agree(a[s[1].at], b[s[2].at])
          THEN {}
          ELSE Steps(a, s[1]) \X Steps(b, s[2]))

Rounds(a, b) == 2 * (Len(a) + Len(b))

Seen(a, b) ==
  LET seen[k \in 0 .. Rounds(a, b)] ==
        IF k = 0 THEN {<<At(1), At(1)>>}
        ELSE LET known == seen[k - 1] IN known \cup UNION {Moves(a, b, s) : s \in known}
  IN seen

(* Some common string leads both sides to their end.                       *)
SegmentsOverlap(a, b) ==
  <<At(Len(a) + 1), At(Len(b) + 1)>> \in Seen(a, b)[Rounds(a, b)]

Overlaps(p, q) ==
  LET n == Len(p.segments)
      m == Len(q.segments)
  IN /\ \A i \in 1 .. (IF n < m THEN n ELSE m) :
          SegmentsOverlap(p.segments[i], q.segments[i])
     /\ n < m => p.tail
     /\ m < n => q.tail
=============================================================================
