------------------------------ MODULE QueueViews ------------------------------
(***************************************************************************)
(* What users see of a guild's queue, and the numbers they name tracks by: *)
(* /queue, /queue-page, /remove and /move (src/src/commands/playback.rs    *)
(* and queue.rs).  Each view renders one snapshot taken under a read lock; *)
(* its text is abstracted to the numbered lines in it.                     *)
(***************************************************************************)
EXTENDS PlaybackStore

CONSTANTS
  PreviewLimit,    \* QUEUE_PREVIEW_LIMIT
  PageSize         \* QUEUE_PAGE_SIZE

ASSUME ViewAssumption == PreviewLimit \in Nat /\ PageSize \in Nat \ {0}

Least(a, b) == IF a <= b THEN a ELSE b
Largest(a, b) == IF a >= b THEN a ELSE b

(* a.div_ceil(b) *)
DivCeil(a, b) == (a + b - 1) \div b

(* `shown' numbered from `first'. *)
Numbered(shown, first) ==
  [i \in DOMAIN shown |-> [number |-> first + i - 1, track |-> shown[i]]]

(* Mutant: the count that a user reads is taken as an index. *)
QueueIndexAsTyped(position) == position

(* queue_index and page_index: a user counts from one, the code from zero. *)
(* No index is -1.                                                         *)
QueueIndex(position) == IF position >= 1 THEN position - 1 ELSE -1

(* The player after /remove, and after /move. *)
RemovePosition(p, position) == RemoveQueued(p, QueueIndex(position))

MovePosition(p, from, to) == MoveQueued(p, QueueIndex(from), QueueIndex(to))

(* /queue: the head of the queue. *)
RenderQueue(p) ==
  Numbered(SubSeq(p.queue, 1, Least(PreviewLimit, Len(p.queue))), 1)

(* An empty queue has one page. *)
PageCount(p) == DivCeil(Largest(Len(p.queue), 1), PageSize)

(* The lines of a page; a page of an idle player is not rendered. *)
PageLines(p, page) ==
  LET start == QueueIndex(page) * PageSize
  IN  Numbered(SubSeq(p.queue, start + 1, Least(start + PageSize, Len(p.queue))),
               start + 1)

(* /queue-page: which page numbers have a rendering. *)
PageExists(p, page) == QueueIndex(page) \in 0 .. PageCount(p) - 1

------------------------------------------------------------------------------
Positions == -1 .. MaxQueue + 2

(* Every numbered line of the queue that some view shows. *)
ShownLines(p) ==
  ToSet(RenderQueue(p))
    \union UNION {ToSet(PageLines(p, page)) :
                    page \in {n \in Positions : PageExists(p, n)}}

(* The number beside a track in /queue or on any /queue-page is the one    *)
(* that names it: /remove with that number takes this track out and leaves *)
(* the others in their order, /move puts it where the next rendering shows *)
(* it under the number asked for, and a number no view shows, not even on  *)
(* the last page there is, names nothing.                                  *)
NumbersNameTracks ==
  \A g \in Guilds :
    LET p == players[g]
        shown == ShownLines(p)
    IN  /\ \A line \in shown :
             /\ RemovePosition(p, line.number).queue
                  = SubSeq(p.queue, 1, line.number - 1)
                      \o SubSeq(p.queue, line.number + 1, Len(p.queue))
             /\ p.queue[line.number] = line.track
             /\ \A other \in shown :
                  line.track \in
                    {moved.track : moved \in
                       {l \in ShownLines(MovePosition(p, line.number, other.number)) :
                          l.number = other.number}}
        /\ \A n \in Positions \ {line.number : line \in shown} :
             /\ RemovePosition(p, n) = p
             /\ \A m \in Positions :
                  MovePosition(p, n, m) = p /\ MovePosition(p, m, n) = p
==============================================================================
