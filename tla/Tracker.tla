------------------------------ MODULE Tracker ------------------------------
(***************************************************************************)
(* tracker.py: the IoU tracker, as operators on its list of active tracks. *)
(* A track is its number (for the UUID), its box, the updates since it was *)
(* last seen and whether this update made it.  Types and confidences only  *)
(* follow the matched detection and are left out, as is the age that       *)
(* nothing reads.                                                          *)
(***************************************************************************)
EXTENDS Integers, Sequences, FiniteSetsExt

CONSTANT MaxAge     \* updates a track survives without a detection

ASSUME TrackerAssumption == MaxAge \in Nat

-----------------------------------------------------------------------------
(* _iou, as a fraction *)

Overlap(from1, length1, from2, length2) ==
  Max({0, Min({from1 + length1, from2 + length2}) - Max({from1, from2})})

Intersection(a, b) ==
  Overlap(a.x, a.width, b.x, b.width) * Overlap(a.y, a.height, b.y, b.height)

Area(box) == box.width * box.height

Union(a, b) == Area(a) + Area(b) - Intersection(a, b)

\* At least 0.3; a union of no area counts as 0.
Similar(a, b) == Union(a, b) > 0 /\ 10 * Intersection(a, b) >= 3 * Union(a, b)

-----------------------------------------------------------------------------
(* Greedy matching: pairs of a track's and a detection's place, highest IoU  *)
(* first and, as Python's sort is stable, in the order of the loops if equal *)

Pairs(tracks, dets) ==
  {p \in (1..Len(tracks)) \X (1..Len(dets)) : Similar(tracks[p[1]].box, dets[p[2]].box)}

Better(tracks, dets, p, q) ==
  LET a == tracks[p[1]].box   b == dets[p[2]].box
      c == tracks[q[1]].box   d == dets[q[2]].box
  IN Intersection(a, b) * Union(c, d) - Intersection(c, d) * Union(a, b)

\* Mutant of Before: lowest IoU first.
BeforeLowest(tracks, dets, p, q) ==
  LET better == Better(tracks, dets, p, q)
  IN \/ better < 0
     \/ better = 0 /\ (p[1] < q[1] \/ (p[1] = q[1] /\ p[2] < q[2]))

Before(tracks, dets, p, q) ==
  LET better == Better(tracks, dets, p, q)
  IN \/ better > 0
     \/ better = 0 /\ (p[1] < q[1] \/ (p[1] = q[1] /\ p[2] < q[2]))

Matching(tracks, dets) ==
  LET greedy[P \in SUBSET Pairs(tracks, dets)] ==
        IF P = {}
        THEN {}
        ELSE LET best == CHOOSE p \in P : \A q \in P \ {p} : Before(tracks, dets, p, q)
             IN {best} \cup greedy[{q \in P : q[1] # best[1] /\ q[2] # best[2]}]
  IN greedy[Pairs(tracks, dets)]

-----------------------------------------------------------------------------
(* update *)

\* Mutant of Unseen: an unmatched track goes on being new.
UnseenNew(track) == [track EXCEPT !.missed = @ + 1]

Unseen(track) == [track EXCEPT !.missed = @ + 1, !.new = FALSE]

Seen(track, box) == [track EXCEPT !.box = box, !.missed = 0, !.new = FALSE]

\* The elements of s at these places, in their order: Python's [x for x in s if
\* ...].  SelectSeq would do, but a proof cannot look inside it.
Select(s, places) ==
  LET kept[i \in 0..Len(s)] ==
        IF i = 0 THEN <<>>
        ELSE IF i \in places THEN Append(kept[i - 1], s[i]) ELSE kept[i - 1]
  IN kept[Len(s)]

\* Mutant of Left: matched detections are not marked.
LeftAll(dets, matching) == 1..Len(dets)

\* The places of the detections that matched no track.
Left(dets, matching) == {j \in 1..Len(dets) : \A p \in matching : p[2] # j}

\* The tracks after the update, matched or aged, followed by one for every
\* detection left over, without those unseen for too long.
Update(tracks, dets, made) ==
  LET matching == Matching(tracks, dets)
      left == Select([j \in 1..Len(dets) |-> j], Left(dets, matching))
      old == [i \in 1..Len(tracks) |->
                IF \E p \in matching : p[1] = i
                THEN Seen(tracks[i], dets[(CHOOSE p \in matching : p[1] = i)[2]].box)
                ELSE Unseen(tracks[i])]
      born == [k \in 1..Len(left) |->
                 [id |-> made + k, box |-> dets[left[k]].box, missed |-> 0, new |-> TRUE]]
      all == old \o born
  IN Select(all, {i \in 1..Len(all) : all[i].missed <= MaxAge})
=============================================================================
