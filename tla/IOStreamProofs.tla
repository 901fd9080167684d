--------------------------- MODULE IOStreamProofs ---------------------------
(***************************************************************************)
(* Proofs about IOStream, for any numbers of bytes and any bounds.         *)
(*                                                                         *)
(* A method of the stream is an operator from a stream to a stream, and    *)
(* methods call each other.  So the lemmas are about operators: each keeps *)
(* StreamOK and never takes back what Follows says.                        *)
(***************************************************************************)
EXTENDS IOStream, FiniteSetTheorems, WellFoundedInduction, TLAPS

\* What the stream puts into the loop's queue.
Entries == Wrapped \cup {"doClose"}

\* The close callback is behind nothing but bare calls of close().
CloseLast(queue) ==
  \A i, j \in DOMAIN queue : i < j /\ queue[j] = "close" => queue[i] = "doClose"

\* There are finitely many callbacks in the queue.
LEMMA ScheduledFinite ==
  ASSUME NEW queue \in Seq(Entries)
  PROVE  /\ IsFiniteSet(Scheduled(queue)) /\ Cardinality(Scheduled(queue)) \in Nat
         /\ Cardinality(Scheduled(queue)) = 0 <=> Scheduled(queue) = {}
<1>1. IsFiniteSet(1..Len(queue)) /\ Scheduled(queue) \subseteq 1..Len(queue)
  BY FS_Interval DEF Scheduled
<1> QED
  BY <1>1, FS_Subset, FS_CardinalityType, FS_EmptySet

\* One more in the queue, unless it is the bare close().
LEMMA ScheduledAppend ==
  ASSUME NEW queue \in Seq(Entries), NEW cb \in Entries
  PROVE  Cardinality(Scheduled(Append(queue, cb))) =
           Cardinality(Scheduled(queue)) + (IF cb = "doClose" THEN 0 ELSE 1)
<1>1. Scheduled(Append(queue, cb)) =
        Scheduled(queue) \cup (IF cb = "doClose" THEN {} ELSE {Len(queue) + 1})
  BY DEF Scheduled
<1>2. Len(queue) + 1 \notin Scheduled(queue)
  BY DEF Scheduled
<1>3. IsFiniteSet(Scheduled(queue)) /\ Cardinality(Scheduled(queue)) \in Nat
  BY ScheduledFinite
<1>4. CASE cb = "doClose"
  BY <1>1, <1>3, <1>4
<1>5. CASE cb # "doClose"
  <2>1. Scheduled(Append(queue, cb)) = Scheduled(queue) \cup {Len(queue) + 1}
    BY <1>1, <1>5
  <2> QED
    BY <1>2, <1>3, <1>5, <2>1, FS_AddElement
<1> QED
  BY <1>4, <1>5

\* One less when the first is taken, unless it was the bare close().
LEMMA ScheduledTail ==
  ASSUME NEW queue \in Seq(Entries), queue # <<>>
  PROVE  Cardinality(Scheduled(queue)) =
           Cardinality(Scheduled(Tail(queue)))
             + (IF Head(queue) = "doClose" THEN 0 ELSE 1)
<1> DEFINE rest == Scheduled(queue) \ {1}
           f == [i \in Scheduled(Tail(queue)) |-> i + 1]
<1>1. f \in Bijection(Scheduled(Tail(queue)), rest)
  <2>1. f \in [Scheduled(Tail(queue)) -> rest]
    BY DEF Scheduled
  <2>2. \A i, j \in Scheduled(Tail(queue)) : f[i] = f[j] => i = j
    BY DEF Scheduled
  <2>3. \A n \in rest : n - 1 \in Scheduled(Tail(queue)) /\ f[n - 1] = n
    BY DEF Scheduled
  <2> QED
    BY <2>1, <2>2, <2>3 DEF Bijection, Injection, Surjection, IsInjective
<1>2. /\ IsFiniteSet(Scheduled(Tail(queue)))
      /\ Cardinality(Scheduled(Tail(queue))) \in Nat
  <2>1. Tail(queue) \in Seq(Entries)
    OBVIOUS
  <2> QED
    BY <2>1, ScheduledFinite
<1>3. Cardinality(rest) = Cardinality(Scheduled(Tail(queue)))
  BY <1>1, <1>2, FS_Bijection DEF ExistsBijection
<1>4. IsFiniteSet(Scheduled(queue)) /\ Cardinality(Scheduled(queue)) \in Nat
  BY ScheduledFinite
<1>5. 1 \in Scheduled(queue) <=> Head(queue) # "doClose"
  BY DEF Scheduled
<1>6. Cardinality(rest) =
        Cardinality(Scheduled(queue)) - (IF 1 \in Scheduled(queue) THEN 1 ELSE 0)
  <2>1. CASE 1 \in Scheduled(queue)
    BY <1>4, <2>1, FS_RemoveElement
  <2>2. CASE 1 \notin Scheduled(queue)
    <3>1. rest = Scheduled(queue)
      BY <2>2
    <3> HIDE DEF rest
    <3> QED
      BY <1>4, <2>2, <3>1
  <2> QED
    BY <2>1, <2>2
<1> HIDE DEF rest
<1> QED
  BY <1>2, <1>3, <1>4, <1>5, <1>6

-----------------------------------------------------------------------------
(* What every method keeps, and what it never takes back.                  *)

\* The bytes of the read buffer are bytes that arrived.
Buffered(x) == x.taken <= x.got /\ x.got <= x.sent

\* A stream in the middle of a method, with k readers at work that count as
\* pending callbacks.
StreamOK(x, k) ==
  /\ x \in Stream
  /\ Buffered(x)
  /\ x.pending = Cardinality(Scheduled(x.queue)) + k
  /\ CloseLast(x.queue)

\* A watched stream stays watched and a closed one closed; no method takes a
\* callback out of the queue, or starts to connect.
Follows(x, y) ==
  /\ x.listening \/ x.closed => y.listening \/ y.closed
  /\ x.closed => y.closed
  /\ y.pending >= x.pending
  /\ y.connecting => x.connecting

\* The fields of a stream that the proofs look at.
LEMMA StreamFields ==
  ASSUME NEW x \in Stream
  PROVE  /\ x.pending \in Nat /\ x.queue \in Seq(Entries)
         /\ x.taken \in Nat /\ x.got \in Nat /\ x.sent \in Nat
         /\ x.want \in Nat /\ x.unsent \in Nat /\ x.room \in Nat
         /\ x.sent <= MaxSent /\ x.room <= MaxRoom
         /\ x.closed \in BOOLEAN /\ x.listening \in BOOLEAN
         /\ x.connecting \in BOOLEAN
BY IOStreamAssumption DEF Stream, Entries

\* y is what a method makes of x, in the middle of k reads.
Keeps(k, x, y) == StreamOK(y, k) /\ Follows(x, y)

\* Methods that call each other keep what each of them keeps.
LEMMA KeepsCompose ==
  ASSUME NEW k \in Nat, NEW x, NEW y, NEW z,
         StreamOK(x, k), Keeps(k, x, y), Keeps(k, y, z)
  PROVE  Keeps(k, x, z)
<1>1. x \in Stream /\ y \in Stream /\ z \in Stream
  BY DEF StreamOK, Keeps
<1> QED
  BY <1>1, StreamFields DEF Keeps, Follows

\* What a method does to the other fields does not matter here.
LEMMA KeepsOtherwise ==
  ASSUME NEW k \in Nat, NEW x, NEW y, StreamOK(x, k), y \in Stream,
         y.queue = x.queue, y.pending = x.pending, Buffered(y),
         y.listening \/ y.closed <=> x.listening \/ x.closed,
         x.closed => y.closed, y.connecting => x.connecting
  PROVE  Keeps(k, x, y)
<1>1. x.pending \in Nat
  BY StreamFields DEF StreamOK
<1> QED
  BY <1>1 DEF StreamOK, Keeps, Follows

\* _run_callback keeps the count, for every callback but the close callback.
LEMMA RunCallbackOK ==
  ASSUME NEW k \in Nat, NEW x, StreamOK(x, k), NEW cb \in Wrapped,
         cb = "close" => Scheduled(x.queue) = {}
  PROVE  /\ Keeps(k, x, RunCallback(x, cb))
         /\ RunCallback(x, cb).pending > 0
<1> DEFINE y == RunCallback(x, cb)
<1>1. /\ x \in Stream /\ x.queue \in Seq(Entries) /\ x.pending \in Nat
      /\ cb \in Entries /\ cb # "doClose"
  BY StreamFields DEF StreamOK, Entries, Wrapped
<1>2. Append(x.queue, cb) \in Seq(Entries) /\ x.pending + 1 \in Nat
  BY <1>1
<1>3. y \in Stream
  BY <1>1, <1>2 DEF RunCallback, Stream, Entries
<1>4. /\ y.queue = Append(x.queue, cb) /\ y.pending = x.pending + 1
      /\ y.taken = x.taken /\ y.got = x.got /\ y.sent = x.sent
      /\ y.listening = x.listening /\ y.closed = x.closed
      /\ y.connecting = x.connecting
  BY <1>1 DEF RunCallback, Stream
<1>5. y.pending = Cardinality(Scheduled(y.queue)) + k
  <2>1. Cardinality(Scheduled(x.queue)) \in Nat
    BY <1>1, ScheduledFinite
  <2> QED
    BY <1>1, <1>4, <2>1, ScheduledAppend DEF StreamOK
<1>6. CloseLast(y.queue)
  BY <1>1, <1>4 DEF StreamOK, CloseLast, Scheduled
<1>7. Buffered(y) /\ Follows(x, y) /\ y.pending > 0
  BY <1>1, <1>4 DEF StreamOK, Buffered, Follows
<1> QED
  BY <1>3, <1>5, <1>6, <1>7 DEF StreamOK, Keeps

\* So does handing n bytes of the read buffer to one of them.
LEMMA DeliverOK ==
  ASSUME NEW k \in Nat, NEW x, StreamOK(x, k), NEW cb \in Wrapped, cb # "close",
         NEW n \in Nat, n <= Unread(x)
  PROVE  /\ Keeps(k, x, Deliver(x, cb, n))
         /\ Deliver(x, cb, n).pending > 0
         /\ Deliver(x, cb, n).taken = x.taken + n
         /\ Deliver(x, cb, n).got = x.got
         /\ Deliver(x, cb, n).want = x.want
         /\ Deliver(x, cb, n).kinds = x.kinds
<1> DEFINE y == [x EXCEPT !.taken = @ + n]
<1>1. x \in Stream /\ x.taken \in Nat /\ x.got \in Nat /\ x.taken + n \in Nat
  BY StreamFields DEF StreamOK
<1>2. y \in Stream
  BY <1>1 DEF Stream
<1>3. /\ y.queue = x.queue /\ y.pending = x.pending
      /\ y.taken = x.taken + n /\ y.got = x.got /\ y.sent = x.sent
      /\ y.listening = x.listening /\ y.closed = x.closed
      /\ y.connecting = x.connecting /\ y.want = x.want /\ y.kinds = x.kinds
  BY <1>1 DEF Stream
<1>4. Keeps(k, x, y)
  <2>1. Buffered(y)
    BY <1>1, <1>3 DEF StreamOK, Buffered, Unread
  <2> HIDE DEF y
  <2> QED
    BY <1>2, <1>3, <2>1, KeepsOtherwise
<1> HIDE DEF y
<1>5. Keeps(k, y, RunCallback(y, cb)) /\ RunCallback(y, cb).pending > 0
  BY <1>4, RunCallbackOK DEF Keeps
<1>6. /\ RunCallback(y, cb).taken = y.taken /\ RunCallback(y, cb).got = y.got
      /\ RunCallback(y, cb).want = y.want /\ RunCallback(y, cb).kinds = y.kinds
  BY <1>2 DEF RunCallback, Stream
<1>7. Deliver(x, cb, n) = RunCallback(y, cb)
  BY DEF Deliver, y
<1> QED
  BY <1>3, <1>4, <1>5, <1>6, <1>7, KeepsCompose

\* The close callback is scheduled behind nothing that counts.
LEMMA MaybeRunCloseCallbackOK ==
  ASSUME NEW k \in Nat, NEW x, StreamOK(x, k)
  PROVE  Keeps(k, x, MaybeRunCloseCallback(x))
<1> DEFINE y == RunCallback(x, "close")
           z == [y EXCEPT !.closeCb = FALSE, !.reading = FALSE, !.writeCb = FALSE]
<1>1. CASE CloseCallbackDue(x)
  <2>1. Scheduled(x.queue) = {}
    <3>1. x.pending = 0 /\ x.queue \in Seq(Entries)
      BY <1>1, StreamFields DEF CloseCallbackDue, StreamOK
    <3> QED
      BY <3>1, ScheduledFinite DEF StreamOK
  <2>2. Keeps(k, x, y)
    BY <2>1, RunCallbackOK DEF Wrapped
  <2>3. MaybeRunCloseCallback(x) = z
    BY <1>1 DEF MaybeRunCloseCallback
  <2> HIDE DEF y
  <2>4. y \in Stream /\ StreamOK(y, k)
    BY <2>2 DEF Keeps, StreamOK
  <2>5. z \in Stream
    BY <2>4 DEF Stream
  <2>6. /\ z.queue = y.queue /\ z.pending = y.pending
        /\ z.taken = y.taken /\ z.got = y.got /\ z.sent = y.sent
        /\ z.listening = y.listening /\ z.closed = y.closed
        /\ z.connecting = y.connecting
    BY <2>4 DEF Stream
  <2> HIDE DEF z
  <2>7. Keeps(k, y, z)
    BY <2>4, <2>5, <2>6, KeepsOtherwise DEF StreamOK, Buffered
  <2> QED
    BY <2>2, <2>3, <2>7, KeepsCompose
<1>2. CASE ~CloseCallbackDue(x)
  BY <1>2, KeepsOtherwise DEF MaybeRunCloseCallback, StreamOK
<1> QED
  BY <1>1, <1>2

\* The bytes of the buffer are some number of bytes.
LEMMA UnreadIsNat ==
  ASSUME NEW k \in Nat, NEW x, StreamOK(x, k)
  PROVE  Unread(x) \in Nat
BY StreamFields DEF StreamOK, Buffered, Unread

\* The streaming callback gets no more than there is.
LEMMA StreamRestOK ==
  ASSUME NEW k \in Nat, NEW x, StreamOK(x, k)
  PROVE  Keeps(k, x, StreamRest(x))
<1>1. CASE x.streaming /\ Unread(x) > 0
  <2>1. Unread(x) \in Nat
    BY UnreadIsNat
  <2>2. Keeps(k, x, Deliver(x, "stream", Unread(x)))
    BY <2>1, DeliverOK DEF Wrapped
  <2> QED
    BY <1>1, <2>2 DEF StreamRest
<1>2. CASE ~(x.streaming /\ Unread(x) > 0)
  BY <1>2, KeepsOtherwise DEF StreamRest, StreamOK
<1> QED
  BY <1>1, <1>2

\* The end of a read until close leaves a stream as good as it was.
LEMMA FinishUntilCloseOK ==
  ASSUME NEW k \in Nat, NEW x, StreamOK(x, k)
  PROVE  Keeps(k, x, FinishUntilClose(x))
<1> DEFINE y == StreamRest(x)
           z == Deliver(y, "read", Unread(y))
           w == [z EXCEPT !.reading = FALSE, !.kinds = @ \ {"close"}]
<1>1. Keeps(k, x, y)
  BY StreamRestOK
<1>2. FinishUntilClose(x) = w
  BY DEF FinishUntilClose
<1> HIDE DEF y
<1>3. Keeps(k, y, z)
  <2>1. StreamOK(y, k) /\ Unread(y) \in Nat
    BY <1>1, UnreadIsNat DEF Keeps
  <2> QED
    BY <2>1, DeliverOK DEF Wrapped
<1> HIDE DEF z
<1>4. z \in Stream /\ StreamOK(z, k)
  BY <1>3 DEF Keeps, StreamOK
<1>5. w \in Stream
  BY <1>4 DEF Stream
<1>6. /\ w.queue = z.queue /\ w.pending = z.pending
      /\ w.taken = z.taken /\ w.got = z.got /\ w.sent = z.sent
      /\ w.listening = z.listening /\ w.closed = z.closed
      /\ w.connecting = z.connecting
  BY <1>4 DEF Stream
<1> HIDE DEF w
<1>7. Keeps(k, z, w)
  BY <1>4, <1>5, <1>6, KeepsOtherwise DEF StreamOK, Buffered
<1> QED
  BY <1>1, <1>2, <1>3, <1>7, KeepsCompose

\* close() leaves a closed stream.
LEMMA CloseOK ==
  ASSUME NEW k \in Nat, NEW x, StreamOK(x, k)
  PROVE  Keeps(k, x, Close(x)) /\ Close(x).closed
<1> DEFINE y == IF "close" \in x.kinds THEN FinishUntilClose(x) ELSE x
           z == [y EXCEPT !.closed = TRUE, !.listening = FALSE, !.interest = {}]
           w == IF x.closed THEN x ELSE z
<1>1. Keeps(k, x, y)
  BY FinishUntilCloseOK, KeepsOtherwise DEF StreamOK
<1>2. Close(x) = MaybeRunCloseCallback(w)
  BY DEF Close
<1> HIDE DEF y
<1>3. Keeps(k, x, w) /\ w.closed
  <2>1. CASE x.closed
    BY <2>1, KeepsOtherwise DEF StreamOK
  <2>2. CASE ~x.closed
    <3>1. y \in Stream /\ StreamOK(y, k)
      BY <1>1 DEF Keeps, StreamOK
    <3>2. z \in Stream
      BY <3>1 DEF Stream
    <3>3. /\ z.queue = y.queue /\ z.pending = y.pending
          /\ z.taken = y.taken /\ z.got = y.got /\ z.sent = y.sent
          /\ z.closed /\ z.connecting = y.connecting
      BY <3>1 DEF Stream
    <3>4. w = z
      BY <2>2
    <3> HIDE DEF z, w
    <3>5. StreamOK(z, k)
      BY <3>1, <3>2, <3>3 DEF StreamOK, Buffered
    <3>6. Follows(x, z)
      BY <1>1, <3>3 DEF Keeps, Follows
    <3> QED
      BY <3>3, <3>4, <3>5, <3>6 DEF Keeps
  <2> QED
    BY <2>1, <2>2
<1> HIDE DEF w
<1>4. Keeps(k, w, MaybeRunCloseCallback(w))
  BY <1>3, MaybeRunCloseCallbackOK DEF Keeps
<1>5. MaybeRunCloseCallback(w).closed
  BY <1>3, <1>4 DEF Keeps, Follows
<1> QED
  BY <1>2, <1>3, <1>4, <1>5, KeepsCompose

\* _add_io_state watches the stream, unless it is closed.
LEMMA AddIOStateOK ==
  ASSUME NEW k \in Nat, NEW x, StreamOK(x, k), NEW e \in {"READ", "WRITE"}
  PROVE  /\ Keeps(k, x, AddIOState(x, e))
         /\ AddIOState(x, e).closed \/ AddIOState(x, e).listening
<1>1. CASE x.closed
  BY <1>1, KeepsOtherwise DEF AddIOState, StreamOK
<1>2. CASE ~x.closed
  <2> DEFINE y == [x EXCEPT !.listening = TRUE, !.interest = @ \cup {e}]
  <2>1. x \in Stream
    BY DEF StreamOK
  <2>2. y \in Stream
    BY <2>1 DEF Stream
  <2>3. /\ y.queue = x.queue /\ y.pending = x.pending
        /\ y.taken = x.taken /\ y.got = x.got /\ y.sent = x.sent
        /\ y.listening /\ y.closed = x.closed /\ y.connecting = x.connecting
    BY <2>1 DEF Stream
  <2>4. AddIOState(x, e) = y
    BY <1>2 DEF AddIOState
  <2> HIDE DEF y
  <2>5. StreamOK(y, k)
    BY <2>2, <2>3 DEF StreamOK, Buffered
  <2>6. Follows(x, y)
    BY <2>1, <2>3, StreamFields DEF Follows
  <2> QED
    BY <2>3, <2>4, <2>5, <2>6 DEF Keeps
<1> QED
  BY <1>1, <1>2

\* _maybe_add_error_listener leaves a stream that is watched, or closed, or has
\* a callback that will call it again.
LEMMA MaybeAddErrorListenerOK ==
  ASSUME NEW k \in Nat, NEW x, StreamOK(x, k)
  PROVE  /\ Keeps(k, x, MaybeAddErrorListener(x))
         /\ \/ MaybeAddErrorListener(x).closed
            \/ MaybeAddErrorListener(x).listening
            \/ MaybeAddErrorListener(x).pending > 0
<1> DEFINE y == MaybeAddErrorListener(x)
<1>1. x.pending \in Nat
  BY StreamFields DEF StreamOK
<1>2. CASE x.listening \/ x.pending # 0
  BY <1>1, <1>2, KeepsOtherwise DEF MaybeAddErrorListener, StreamOK
<1>3. CASE ~(x.listening \/ x.pending # 0) /\ x.closed
  <2>1. y = MaybeRunCloseCallback(x)
    BY <1>3 DEF MaybeAddErrorListener
  <2>2. Keeps(k, x, y)
    BY <2>1, MaybeRunCloseCallbackOK
  <2> QED
    BY <1>3, <2>2 DEF Keeps, Follows
<1>4. CASE ~(x.listening \/ x.pending # 0) /\ ~x.closed
  <2>1. y = AddIOState(x, "READ")
    BY <1>4 DEF MaybeAddErrorListener
  <2> QED
    BY <2>1, AddIOStateOK
<1> QED
  BY <1>2, <1>3, <1>4

\* The smaller of two numbers.
LEMMA LeastIsLeast ==
  ASSUME NEW a \in Nat, NEW b \in Nat
  PROVE  Least(a, b) \in Nat /\ Least(a, b) <= a /\ Least(a, b) <= b
BY DEF Least

\* What the streaming callback gets in the middle of a read.
LEMMA StreamedOK ==
  ASSUME NEW k \in Nat, NEW x, StreamOK(x, k)
  PROVE  Keeps(k, x, Streamed(x))
<1> DEFINE n == IF "bytes" \in x.kinds THEN Least(x.want, Unread(x)) ELSE Unread(x)
           y == Deliver(x, "stream", n)
           z == [y EXCEPT !.want = IF "bytes" \in x.kinds THEN @ - n ELSE @]
<1>1. CASE x.streaming /\ Unread(x) > 0
  <2>1. x.want \in Nat /\ Unread(x) \in Nat
    BY StreamFields, UnreadIsNat DEF StreamOK
  <2>2. /\ n \in Nat /\ n <= Unread(x)
        /\ "bytes" \in x.kinds => n <= x.want
    <3>1. CASE "bytes" \in x.kinds
      BY <2>1, <3>1, LeastIsLeast
    <3>2. CASE "bytes" \notin x.kinds
      BY <2>1, <3>2
    <3> QED
      BY <3>1, <3>2
  <2>3. Streamed(x) = z
    BY <1>1 DEF Streamed
  <2> HIDE DEF n
  <2>4. Keeps(k, x, y) /\ y.want = x.want
    BY <2>2, DeliverOK DEF Wrapped
  <2> HIDE DEF y
  <2>5. y \in Stream /\ StreamOK(y, k)
    BY <2>4 DEF Keeps, StreamOK
  <2>6. (IF "bytes" \in x.kinds THEN y.want - n ELSE y.want) \in Nat
    BY <2>1, <2>2, <2>4
  <2>7. z \in Stream
    BY <2>5, <2>6 DEF Stream
  <2>8. /\ z.queue = y.queue /\ z.pending = y.pending
        /\ z.taken = y.taken /\ z.got = y.got /\ z.sent = y.sent
        /\ z.listening = y.listening /\ z.closed = y.closed
        /\ z.connecting = y.connecting
    BY <2>5 DEF Stream
  <2> HIDE DEF z
  <2>9. Keeps(k, y, z)
    BY <2>5, <2>7, <2>8, KeepsOtherwise DEF StreamOK, Buffered
  <2> QED
    BY <2>3, <2>4, <2>9, KeepsCompose
<1>2. CASE ~(x.streaming /\ Unread(x) > 0)
  BY <1>2, KeepsOtherwise DEF Streamed, StreamOK
<1> QED
  BY <1>1, <1>2

\* A set of numbers that is not empty has a smallest.
LEMMA SmallestExists ==
  ASSUME NEW S \in SUBSET Nat, S # {}
  PROVE  \E d \in S : \A e \in S : d <= e
<1> DEFINE less == OpToRel(<, Nat)
<1>1. less = {p \in Nat \X Nat : p[1] < p[2]}
  BY ZenonT(20) DEF OpToRel
<1>2. IsWellFoundedOn(less, Nat)
  BY NatLessThanWellFounded
<1> HIDE DEF less
<1>3. PICK d \in S : \A e \in S : <<e, d>> \notin less
  BY <1>2, WFMin
<1>4. SUFFICES ASSUME NEW e \in S PROVE d <= e
  OBVIOUS
<1>5. <<e, d>> \notin less /\ d \in Nat /\ e \in Nat
  BY <1>3
<1>6. ~(e < d)
  BY <1>1, <1>5
<1> QED
  BY <1>5, <1>6

\* A read that completes takes bytes that are there.
LEMMA AmountFits ==
  ASSUME NEW k \in Nat, NEW x, StreamOK(x, k), Completes(x)
  PROVE  Amount(x) \in Nat /\ Amount(x) <= Unread(x)
<1>1. /\ x.want \in Nat /\ x.taken \in Nat /\ x.got \in Nat
      /\ Delims \subseteq Nat
  BY StreamFields, IOStreamAssumption DEF StreamOK
<1>2. CASE EnoughBytes(x)
  BY <1>1, <1>2 DEF Amount, EnoughBytes, Unread
<1>3. CASE ~EnoughBytes(x)
  <2>1. Delimited(x) # {} /\ Delimited(x) \in SUBSET Nat
    BY <1>1, <1>3 DEF Completes, Delimited
  <2> DEFINE d == CHOOSE d \in Delimited(x) : \A e \in Delimited(x) : d <= e
  <2>2. \E e \in Delimited(x) : \A f \in Delimited(x) : e <= f
    BY <2>1, SmallestExists
  <2>3. d \in Delimited(x)
    BY <2>2
  <2>4. Amount(x) = d - x.taken
    BY <1>3 DEF Amount
  <2> HIDE DEF d
  <2> QED
    BY <1>1, <2>1, <2>3, <2>4 DEF Delimited, Unread
<1> QED
  BY <1>2, <1>3

\* _read_from_buffer; a read that completes has its callback scheduled.
LEMMA ReadFromBufferOK ==
  ASSUME NEW k \in Nat, NEW x, StreamOK(x, k)
  PROVE  /\ Keeps(k, x, ReadFromBuffer(x))
         /\ Completes(Streamed(x)) => ReadFromBuffer(x).pending > 0
<1> DEFINE y == Streamed(x)
           z == Deliver(y, "read", Amount(y))
           w == [z EXCEPT !.reading = FALSE, !.streaming = FALSE,
                          !.kinds = @ \ {IF EnoughBytes(y) THEN "bytes" ELSE "until"}]
<1>1. Keeps(k, x, y)
  BY StreamedOK
<1>2. CASE Completes(y)
  <2>1. ReadFromBuffer(x) = w
    BY <1>2 DEF ReadFromBuffer
  <2> HIDE DEF y
  <2>2. StreamOK(y, k) /\ Amount(y) \in Nat /\ Amount(y) <= Unread(y)
    BY <1>1, <1>2, AmountFits DEF Keeps
  <2>3. Keeps(k, y, z) /\ z.pending > 0
    BY <2>2, DeliverOK DEF Wrapped
  <2> HIDE DEF z
  <2>4. z \in Stream /\ StreamOK(z, k)
    BY <2>3 DEF Keeps, StreamOK
  <2>5. w \in Stream
    BY <2>4 DEF Stream
  <2>6. /\ w.queue = z.queue /\ w.pending = z.pending
        /\ w.taken = z.taken /\ w.got = z.got /\ w.sent = z.sent
        /\ w.listening = z.listening /\ w.closed = z.closed
        /\ w.connecting = z.connecting
    BY <2>4 DEF Stream
  <2> HIDE DEF w
  <2>7. Keeps(k, z, w)
    BY <2>4, <2>5, <2>6, KeepsOtherwise DEF StreamOK, Buffered
  <2>8. Keeps(k, x, z)
    BY <1>1, <2>3, KeepsCompose
  <2> QED
    BY <2>1, <2>3, <2>6, <2>7, <2>8, KeepsCompose
<1>3. CASE ~Completes(y)
  BY <1>1, <1>3 DEF ReadFromBuffer
<1> QED
  BY <1>2, <1>3

\* Receiving reads what arrived.
LEMMA FilledOK ==
  ASSUME NEW k \in Nat, NEW x, StreamOK(x, k)
  PROVE  Keeps(k, x, Filled(x))
<1> DEFINE n == IF x.broken THEN x.got ELSE Received(x)
           y == [x EXCEPT !.got = n]
<1>1. /\ x \in Stream /\ x.taken \in Nat /\ x.got \in Nat /\ x.sent \in Nat
      /\ x.taken <= x.got /\ x.got <= x.sent
  BY StreamFields DEF StreamOK, Buffered
<1>2. n \in Nat /\ x.taken <= n /\ n <= x.sent
  <2>1. CASE x.broken
    BY <1>1, <2>1
  <2>2. CASE ~x.broken
    BY <1>1, <2>2, IOStreamAssumption DEF Received, Least
  <2> QED
    BY <2>1, <2>2
<1>3. Filled(x) = y
  BY DEF Filled
<1> HIDE DEF n
<1>4. y \in Stream
  BY <1>1, <1>2 DEF Stream
<1>5. /\ y.queue = x.queue /\ y.pending = x.pending
      /\ y.taken = x.taken /\ y.got = n /\ y.sent = x.sent
      /\ y.listening = x.listening /\ y.closed = x.closed
      /\ y.connecting = x.connecting
  BY <1>1 DEF Stream
<1> HIDE DEF y
<1> QED
  BY <1>2, <1>3, <1>4, <1>5, KeepsOtherwise DEF Buffered

\* A reader counts as one more pending callback while it reads, so close() does
\* not schedule the close callback; it is uncounted with the queue as it was
\* counted.  A read that fails has closed the stream.
LEMMA ReadToBufferOK ==
  ASSUME NEW k \in Nat, NEW x, StreamOK(x, k)
  PROVE  /\ Keeps(k, x, ReadToBuffer(x))
         /\ ReadFails(x) => ReadToBuffer(x).closed
<1> DEFINE w == Filled(x)
           y == [w EXCEPT !.pending = @ + 1]
           z == CloseAfterReading(x, y)
           r == [z EXCEPT !.pending = @ - 1]
<1>1. Keeps(k, x, w)
  BY FilledOK
<1>2. ReadToBuffer(x) = r
  BY DEF ReadToBuffer
<1>3. k + 1 \in Nat
  OBVIOUS
<1> HIDE DEF w
<1>4. /\ StreamOK(w, k) /\ w \in Stream /\ w.pending \in Nat
      /\ w.queue \in Seq(Entries)
  BY <1>1, StreamFields DEF Keeps, StreamOK
<1>5. y \in Stream
  <2>1. w \in Stream /\ w.pending + 1 \in Nat
    BY <1>4
  <2> QED
    BY <2>1 DEF Stream
<1>6. /\ y.queue = w.queue /\ y.pending = w.pending + 1
      /\ y.taken = w.taken /\ y.got = w.got /\ y.sent = w.sent
      /\ y.listening = w.listening /\ y.closed = w.closed
      /\ y.connecting = w.connecting
  BY <1>4 DEF Stream
<1> HIDE DEF y
<1>7. StreamOK(y, k + 1)
  BY <1>4, <1>5, <1>6, ScheduledFinite DEF StreamOK, Buffered
<1>8. Keeps(k + 1, y, z) /\ (ReadFails(x) => z.closed)
  <2>1. CASE x.broken \/ Overflows(x) \/ (x.fin /\ y.got = x.sent)
    <3>1. z = Close(y)
      BY <2>1 DEF CloseAfterReading
    <3> QED
      BY <1>3, <1>7, <3>1, CloseOK
  <2>2. CASE ~(x.broken \/ Overflows(x) \/ (x.fin /\ y.got = x.sent))
    <3>1. z = y
      BY <2>2 DEF CloseAfterReading
    <3> QED
      BY <1>3, <1>5, <1>7, <2>2, <3>1, KeepsOtherwise DEF StreamOK, ReadFails
  <2> QED
    BY <2>1, <2>2
<1> HIDE DEF z
<1>9. /\ z \in Stream /\ StreamOK(z, k + 1) /\ z.pending \in Nat
      /\ z.queue \in Seq(Entries) /\ z.pending >= w.pending + 1
  BY <1>6, <1>8, StreamFields DEF Keeps, StreamOK, Follows
<1>10. z.pending - 1 \in Nat
  BY <1>4, <1>9
<1>11. r \in Stream
  BY <1>9, <1>10 DEF Stream
<1>12. /\ r.queue = z.queue /\ r.pending = z.pending - 1
       /\ r.taken = z.taken /\ r.got = z.got /\ r.sent = z.sent
       /\ r.listening = z.listening /\ r.closed = z.closed
       /\ r.connecting = z.connecting
  BY <1>9 DEF Stream
<1> HIDE DEF r
<1>13. StreamOK(r, k)
  BY <1>9, <1>11, <1>12, ScheduledFinite DEF StreamOK, Buffered
<1>14. Follows(w, r)
  BY <1>4, <1>6, <1>8, <1>9, <1>12 DEF Keeps, Follows
<1>15. Keeps(k, w, r)
  BY <1>13, <1>14 DEF Keeps
<1> QED
  BY <1>1, <1>2, <1>8, <1>12, <1>15, KeepsCompose

\* _handle_read.
LEMMA HandleReadOK ==
  ASSUME NEW k \in Nat, NEW x, StreamOK(x, k)
  PROVE  Keeps(k, x, HandleRead(x))
<1> DEFINE y == ReadToBuffer(x)
           z == ReadFromBuffer(y)
<1>1. Keeps(k, x, y)
  BY ReadToBufferOK
<1> HIDE DEF y
<1>2. StreamOK(y, k)
  BY <1>1 DEF Keeps
<1>3. Keeps(k, y, Close(y))
  BY <1>2, CloseOK
<1>4. Keeps(k, y, z)
  BY <1>2, ReadFromBufferOK
<1> HIDE DEF z
<1>5. Keeps(k, z, MaybeRunCloseCallback(z))
  BY <1>4, MaybeRunCloseCallbackOK DEF Keeps
<1>6. Keeps(k, y, MaybeRunCloseCallback(z))
  BY <1>2, <1>4, <1>5, KeepsCompose
<1>7. HandleRead(x) \in {Close(y), z, MaybeRunCloseCallback(z)}
  BY DEF HandleRead, y, z
<1>8. Keeps(k, y, HandleRead(x))
  BY <1>3, <1>4, <1>6, <1>7
<1> QED
  BY <1>1, <1>8, KeepsCompose

\* _try_inline_read: the read is answered, or the stream is watched or closed.
LEMMA TryInlineReadOK ==
  ASSUME NEW k \in Nat, NEW x, StreamOK(x, k)
  PROVE  /\ Keeps(k, x, TryInlineRead(x))
         /\ \/ TryInlineRead(x).closed
            \/ TryInlineRead(x).listening
            \/ TryInlineRead(x).pending > 0
<1> DEFINE y == ReadFromBuffer(x)
           z == ReadToBuffer(y)
           w == ReadFromBuffer(z)
           r == TryInlineRead(x)
<1>1. Keeps(k, x, y) /\ (Completes(Streamed(x)) => y.pending > 0)
  BY ReadFromBufferOK
<1>2. r = IF Completes(Streamed(x)) \/ y.closed THEN y
          ELSE IF ReadFails(y) THEN MaybeRunCloseCallback(z)
          ELSE IF Completes(Streamed(z)) THEN w
          ELSE MaybeAddErrorListener(w)
  BY DEF TryInlineRead
<1> HIDE DEF y, r
<1>3. Keeps(k, y, z) /\ (ReadFails(y) => z.closed)
  BY <1>1, ReadToBufferOK DEF Keeps
<1> HIDE DEF z
<1>4. Keeps(k, x, z)
  BY <1>1, <1>3, KeepsCompose
<1>5. Keeps(k, x, MaybeRunCloseCallback(z))
      /\ (z.closed => MaybeRunCloseCallback(z).closed)
  <2>1. Keeps(k, z, MaybeRunCloseCallback(z))
    BY <1>4, MaybeRunCloseCallbackOK DEF Keeps
  <2> QED
    BY <1>4, <2>1, KeepsCompose DEF Keeps, Follows
<1>6. Keeps(k, x, w) /\ (Completes(Streamed(z)) => w.pending > 0)
  <2>1. Keeps(k, z, w) /\ (Completes(Streamed(z)) => w.pending > 0)
    BY <1>4, ReadFromBufferOK DEF Keeps
  <2> QED
    BY <1>4, <2>1, KeepsCompose
<1> HIDE DEF w
<1>7. /\ Keeps(k, x, MaybeAddErrorListener(w))
      /\ \/ MaybeAddErrorListener(w).closed
         \/ MaybeAddErrorListener(w).listening
         \/ MaybeAddErrorListener(w).pending > 0
  <2>1. StreamOK(w, k)
    BY <1>6 DEF Keeps
  <2>2. Keeps(k, w, MaybeAddErrorListener(w))
    BY <2>1, MaybeAddErrorListenerOK
  <2> QED
    BY <1>6, <2>1, <2>2, MaybeAddErrorListenerOK, KeepsCompose
<1>8. CASE Completes(Streamed(x)) \/ y.closed
  BY <1>1, <1>2, <1>8 DEF r
<1>9. CASE ~(Completes(Streamed(x)) \/ y.closed) /\ ReadFails(y)
  BY <1>2, <1>3, <1>5, <1>9 DEF r
<1>10. CASE /\ ~(Completes(Streamed(x)) \/ y.closed)
            /\ ~ReadFails(y) /\ Completes(Streamed(z))
  BY <1>2, <1>6, <1>10 DEF r
<1>11. CASE /\ ~(Completes(Streamed(x)) \/ y.closed)
            /\ ~ReadFails(y) /\ ~Completes(Streamed(z))
  BY <1>2, <1>7, <1>11 DEF r
<1> QED
  BY <1>8, <1>9, <1>10, <1>11

\* _handle_write.
LEMMA HandleWriteOK ==
  ASSUME NEW k \in Nat, NEW x, StreamOK(x, k)
  PROVE  Keeps(k, x, HandleWrite(x))
<1> DEFINE n == Least(x.unsent, x.room)
           y == [x EXCEPT !.unsent = @ - n, !.room = @ - n]
           z == [y EXCEPT !.writeCb = FALSE]
<1>1. /\ x \in Stream /\ x.unsent \in Nat /\ x.room \in Nat /\ x.room <= MaxRoom
      /\ n \in Nat /\ n <= x.unsent /\ n <= x.room
  BY StreamFields, LeastIsLeast DEF StreamOK
<1>2. HandleWrite(x) \in {Close(x), RunCallback(z, "write"), y}
  BY DEF HandleWrite
<1> HIDE DEF n
<1>3. Keeps(k, x, y)
  <2>1. x.unsent - n \in Nat /\ x.room - n \in 0..MaxRoom
    BY <1>1, IOStreamAssumption
  <2>2. y \in Stream
    BY <1>1, <2>1 DEF Stream
  <2>3. /\ y.queue = x.queue /\ y.pending = x.pending
        /\ y.taken = x.taken /\ y.got = x.got /\ y.sent = x.sent
        /\ y.listening = x.listening /\ y.closed = x.closed
        /\ y.connecting = x.connecting
    BY <1>1 DEF Stream
  <2> HIDE DEF y
  <2> QED
    BY <2>2, <2>3, KeepsOtherwise DEF StreamOK, Buffered
<1> HIDE DEF y
<1>4. Keeps(k, y, z)
  <2>1. y \in Stream
    BY <1>3 DEF Keeps, StreamOK
  <2>2. z \in Stream
    BY <2>1 DEF Stream
  <2>3. /\ z.queue = y.queue /\ z.pending = y.pending
        /\ z.taken = y.taken /\ z.got = y.got /\ z.sent = y.sent
        /\ z.listening = y.listening /\ z.closed = y.closed
        /\ z.connecting = y.connecting
    BY <2>1 DEF Stream
  <2> HIDE DEF z
  <2> QED
    BY <1>3, <2>2, <2>3, KeepsOtherwise DEF Keeps, StreamOK, Buffered
<1> HIDE DEF z
<1>5. Keeps(k, z, RunCallback(z, "write"))
  BY <1>4, RunCallbackOK DEF Keeps, Wrapped
<1>6. Keeps(k, x, RunCallback(z, "write"))
  BY <1>3, <1>4, <1>5, KeepsCompose
<1> QED
  BY <1>2, <1>3, <1>6, CloseOK

\* _handle_connect.
LEMMA HandleConnectOK ==
  ASSUME NEW k \in Nat, NEW x, StreamOK(x, k)
  PROVE  Keeps(k, x, HandleConnect(x))
<1> DEFINE y == [x EXCEPT !.connectCb = FALSE]
           z == IF x.connectCb THEN RunCallback(y, "connect") ELSE x
           w == [z EXCEPT !.connecting = FALSE]
<1>1. x \in Stream
  BY DEF StreamOK
<1>2. HandleConnect(x) \in {Close(x), w}
  BY DEF HandleConnect
<1>3. Keeps(k, x, y)
  <2>1. y \in Stream
    BY <1>1 DEF Stream
  <2>2. /\ y.queue = x.queue /\ y.pending = x.pending
        /\ y.taken = x.taken /\ y.got = x.got /\ y.sent = x.sent
        /\ y.listening = x.listening /\ y.closed = x.closed
        /\ y.connecting = x.connecting
    BY <1>1 DEF Stream
  <2> HIDE DEF y
  <2> QED
    BY <2>1, <2>2, KeepsOtherwise DEF StreamOK, Buffered
<1> HIDE DEF y
<1>4. Keeps(k, x, z)
  <2>1. Keeps(k, y, RunCallback(y, "connect"))
    BY <1>3, RunCallbackOK DEF Keeps, Wrapped
  <2>2. Keeps(k, x, RunCallback(y, "connect"))
    BY <1>3, <2>1, KeepsCompose
  <2>3. Keeps(k, x, x)
    BY <1>1, KeepsOtherwise DEF StreamOK
  <2> QED
    BY <2>2, <2>3
<1> HIDE DEF z
<1>5. Keeps(k, z, w)
  <2>1. z \in Stream
    BY <1>4 DEF Keeps, StreamOK
  <2>2. w \in Stream
    BY <2>1 DEF Stream
  <2>3. /\ w.queue = z.queue /\ w.pending = z.pending
        /\ w.taken = z.taken /\ w.got = z.got /\ w.sent = z.sent
        /\ w.listening = z.listening /\ w.closed = z.closed
        /\ ~w.connecting
    BY <2>1 DEF Stream
  <2> HIDE DEF w
  <2> QED
    BY <1>4, <2>2, <2>3, KeepsOtherwise DEF Keeps, StreamOK, Buffered
<1> HIDE DEF w
<1> QED
  BY <1>2, <1>4, <1>5, KeepsCompose, CloseOK

\* A bare close() in the queue does not count, and may come anywhere.
LEMMA DoCloseOK ==
  ASSUME NEW k \in Nat, NEW x, StreamOK(x, k)
  PROVE  Keeps(k, x, [x EXCEPT !.queue = Append(@, "doClose")])
<1> DEFINE y == [x EXCEPT !.queue = Append(@, "doClose")]
<1>1. /\ x \in Stream /\ x.queue \in Seq(Entries) /\ x.pending \in Nat
      /\ "doClose" \in Entries /\ Cardinality(Scheduled(x.queue)) \in Nat
  BY StreamFields, ScheduledFinite DEF StreamOK, Entries
<1>2. y \in Stream
  <2>1. Append(x.queue, "doClose") \in Seq(Entries)
    BY <1>1
  <2> QED
    BY <1>1, <2>1 DEF Stream, Entries
<1>3. /\ y.queue = Append(x.queue, "doClose") /\ y.pending = x.pending
      /\ y.taken = x.taken /\ y.got = x.got /\ y.sent = x.sent
      /\ y.listening = x.listening /\ y.closed = x.closed
      /\ y.connecting = x.connecting
  BY <1>1 DEF Stream
<1> HIDE DEF y
<1>4. y.pending = Cardinality(Scheduled(y.queue)) + k
  BY <1>1, <1>3, ScheduledAppend DEF StreamOK
<1>5. CloseLast(y.queue)
  BY <1>1, <1>3 DEF StreamOK, CloseLast
<1>6. Buffered(y) /\ Follows(x, y)
  BY <1>1, <1>3 DEF StreamOK, Buffered, Follows
<1> QED
  BY <1>2, <1>4, <1>5, <1>6 DEF StreamOK, Keeps, y

\* What _handle_events asks the poller for.
LEMMA InterestOK ==
  ASSUME NEW k \in Nat, NEW x, StreamOK(x, k)
  PROVE  Keeps(k, x, [x EXCEPT !.interest = Wanted(x)])
<1> DEFINE y == [x EXCEPT !.interest = Wanted(x)]
<1>1. x \in Stream /\ Wanted(x) \in SUBSET {"READ", "WRITE"}
  BY DEF StreamOK, Wanted
<1>2. y \in Stream
  BY <1>1 DEF Stream
<1>3. /\ y.queue = x.queue /\ y.pending = x.pending
      /\ y.taken = x.taken /\ y.got = x.got /\ y.sent = x.sent
      /\ y.listening = x.listening /\ y.closed = x.closed
      /\ y.connecting = x.connecting
  BY <1>1 DEF Stream
<1> HIDE DEF y
<1>4. Keeps(k, x, y)
  BY <1>2, <1>3, KeepsOtherwise DEF StreamOK, Buffered
<1> QED
  BY <1>4 DEF y

\* _handle_events.
LEMMA HandleEventsOK ==
  ASSUME NEW k \in Nat, NEW x, StreamOK(x, k), NEW ev
  PROVE  Keeps(k, x, HandleEvents(x, ev))
<1> DEFINE r == IF "READ" \in ev THEN HandleRead(x) ELSE x
           c == IF r.connecting THEN HandleConnect(r) ELSE r
           w == IF "WRITE" \in ev THEN HandleWrite(c) ELSE r
           d == [w EXCEPT !.queue = Append(@, "doClose")]
           i == [w EXCEPT !.interest = Wanted(w)]
<1>1. HandleEvents(x, ev) \in {x, r, w, d, i}
  BY DEF HandleEvents
<1>2. Keeps(k, x, x)
  BY KeepsOtherwise DEF StreamOK
<1>3. Keeps(k, x, r)
  BY <1>2, HandleReadOK
<1> HIDE DEF r
<1>4. Keeps(k, x, c)
  <2>1. Keeps(k, r, HandleConnect(r))
    BY <1>3, HandleConnectOK DEF Keeps
  <2>2. Keeps(k, x, HandleConnect(r))
    BY <1>3, <2>1, KeepsCompose
  <2> QED
    BY <1>3, <2>2
<1> HIDE DEF c
<1>5. Keeps(k, x, w)
  <2>1. Keeps(k, c, HandleWrite(c))
    BY <1>4, HandleWriteOK DEF Keeps
  <2>2. Keeps(k, x, HandleWrite(c))
    BY <1>4, <2>1, KeepsCompose
  <2> QED
    BY <1>3, <2>2
<1> HIDE DEF w
<1>6. Keeps(k, w, d) /\ Keeps(k, w, i)
  BY <1>5, DoCloseOK, InterestOK DEF Keeps
<1> HIDE DEF d, i
<1>7. Keeps(k, x, d) /\ Keeps(k, x, i)
  BY <1>5, <1>6, KeepsCompose
<1> QED
  BY <1>1, <1>2, <1>3, <1>5, <1>7

\* The callback that the loop takes out of the queue no longer counts.
LEMMA PoppedOK ==
  ASSUME NEW x, StreamOK(x, 0), x.queue # <<>>
  PROVE  /\ StreamOK(Popped(x), 0)
         /\ x.listening \/ x.closed => Popped(x).listening \/ Popped(x).closed
         /\ x.closed => Popped(x).closed
         /\ Popped(x).connecting => x.connecting
         /\ Head(x.queue) = "doClose" => Popped(x).closed
<1> DEFINE y == [x EXCEPT !.queue = Tail(@)]
           z == [y EXCEPT !.pending = @ - 1]
<1>1. /\ x \in Stream /\ x.queue \in Seq(Entries) /\ x.pending \in Nat
      /\ Tail(x.queue) \in Seq(Entries)
  BY StreamFields DEF StreamOK
<1>2. y \in Stream
  BY <1>1 DEF Stream, Entries
<1>3. /\ y.queue = Tail(x.queue) /\ y.pending = x.pending
      /\ y.taken = x.taken /\ y.got = x.got /\ y.sent = x.sent
      /\ y.listening = x.listening /\ y.closed = x.closed
      /\ y.connecting = x.connecting
  BY <1>1 DEF Stream
<1>4. Popped(x) = IF Head(x.queue) = "doClose" THEN Close(y) ELSE z
  BY DEF Popped
<1> HIDE DEF y
<1>5. CloseLast(y.queue) /\ Buffered(y)
  BY <1>1, <1>3 DEF StreamOK, CloseLast, Buffered
<1>6. CASE Head(x.queue) = "doClose"
  <2>1. StreamOK(y, 0)
    BY <1>1, <1>2, <1>3, <1>5, <1>6, ScheduledTail, ScheduledFinite DEF StreamOK
  <2>2. Keeps(0, y, Close(y)) /\ Close(y).closed
    BY <2>1, CloseOK
  <2> QED
    BY <1>3, <1>4, <1>6, <2>2 DEF Keeps, Follows
<1>7. CASE Head(x.queue) # "doClose"
  <2>1. /\ x.pending = Cardinality(Scheduled(y.queue)) + 1
        /\ Cardinality(Scheduled(y.queue)) \in Nat
    <3>1. /\ x.pending = Cardinality(Scheduled(x.queue))
          /\ Cardinality(Scheduled(x.queue)) \in Nat
          /\ Cardinality(Scheduled(Tail(x.queue))) \in Nat
      <4>1. Cardinality(Scheduled(x.queue)) \in Nat
        BY <1>1, ScheduledFinite
      <4>2. Cardinality(Scheduled(Tail(x.queue))) \in Nat
        BY <1>1, ScheduledFinite
      <4> QED
        BY <1>1, <4>1, <4>2 DEF StreamOK
    <3>2. Cardinality(Scheduled(x.queue)) = Cardinality(Scheduled(Tail(x.queue))) + 1
      BY <1>1, <1>7, ScheduledTail
    <3> QED
      BY <1>3, <3>1, <3>2
  <2>2. y.pending - 1 = Cardinality(Scheduled(y.queue)) /\ y.pending - 1 \in Nat
    BY <1>3, <2>1
  <2>3. z \in Stream
    BY <1>2, <2>2 DEF Stream
  <2>4. /\ z.queue = y.queue /\ z.pending = y.pending - 1
        /\ z.taken = y.taken /\ z.got = y.got /\ z.sent = y.sent
        /\ z.listening = y.listening /\ z.closed = y.closed
        /\ z.connecting = y.connecting
    BY <1>2 DEF Stream
  <2> HIDE DEF z
  <2>5. StreamOK(z, 0)
    BY <1>5, <2>1, <2>2, <2>3, <2>4 DEF StreamOK, Buffered
  <2> QED
    BY <1>3, <1>4, <1>7, <2>4, <2>5
<1> QED
  BY <1>6, <1>7

\* The fields that a read method sets before it tries.
LEMMA ReadingOK ==
  ASSUME NEW k \in Nat, NEW x, StreamOK(x, k), NEW kind \in ReadKinds,
         NEW n \in Nat, NEW b \in BOOLEAN
  PROVE  /\ Keeps(k, x, Reading(x, kind))
         /\ Keeps(k, x, [Reading(x, kind) EXCEPT !.streaming = b])
         /\ Keeps(k, x, [Reading(x, kind) EXCEPT !.want = n, !.streaming = b])
<1> DEFINE y == [x EXCEPT !.reading = TRUE, !.kinds = @ \cup {kind}]
           z == [y EXCEPT !.streaming = b]
           w == [y EXCEPT !.want = n, !.streaming = b]
<1>1. x \in Stream
  BY DEF StreamOK
<1>2. y \in Stream
  <2>1. x.kinds \cup {kind} \in SUBSET ReadKinds
    BY <1>1 DEF Stream
  <2> QED
    BY <1>1, <2>1 DEF Stream
<1>3. /\ y.queue = x.queue /\ y.pending = x.pending
      /\ y.taken = x.taken /\ y.got = x.got /\ y.sent = x.sent
      /\ y.listening = x.listening /\ y.closed = x.closed
      /\ y.connecting = x.connecting
  BY <1>1 DEF Stream
<1>4. Reading(x, kind) = y
  BY DEF Reading
<1> HIDE DEF y
<1>5. z \in Stream /\ w \in Stream
  BY <1>2 DEF Stream
<1>6. /\ z.queue = y.queue /\ z.pending = y.pending
      /\ z.taken = y.taken /\ z.got = y.got /\ z.sent = y.sent
      /\ z.listening = y.listening /\ z.closed = y.closed
      /\ z.connecting = y.connecting
  BY <1>2 DEF Stream
<1>7. /\ w.queue = y.queue /\ w.pending = y.pending
      /\ w.taken = y.taken /\ w.got = y.got /\ w.sent = y.sent
      /\ w.listening = y.listening /\ w.closed = y.closed
      /\ w.connecting = y.connecting
  BY <1>2 DEF Stream
<1> HIDE DEF z, w
<1>8. Keeps(k, x, y) /\ Keeps(k, x, z) /\ Keeps(k, x, w)
  BY <1>2, <1>3, <1>5, <1>6, <1>7, KeepsOtherwise DEF StreamOK, Buffered
<1> QED
  BY <1>4, <1>8 DEF z, w

\* write() on an open stream: unless it is connecting, it is watched, closed, or
\* has a callback to come.
LEMMA WrittenOK ==
  ASSUME NEW k \in Nat, NEW x, StreamOK(x, k), NEW n \in Nat, NEW cb \in BOOLEAN
  PROVE  /\ Keeps(k, x, Written(x, n, cb))
         /\ \/ x.connecting
            \/ Written(x, n, cb).closed
            \/ Written(x, n, cb).listening
            \/ Written(x, n, cb).pending > 0
<1> DEFINE y == [x EXCEPT !.unsent = @ + n, !.writeCb = cb]
           z == HandleWrite(y)
           w == IF z.unsent > 0 THEN AddIOState(z, "WRITE") ELSE z
           v == MaybeAddErrorListener(w)
<1>1. x \in Stream /\ x.unsent + n \in Nat
  BY StreamFields DEF StreamOK
<1>2. y \in Stream
  BY <1>1 DEF Stream
<1>3. /\ y.queue = x.queue /\ y.pending = x.pending
      /\ y.taken = x.taken /\ y.got = x.got /\ y.sent = x.sent
      /\ y.listening = x.listening /\ y.closed = x.closed
      /\ y.connecting = x.connecting
  BY <1>1 DEF Stream
<1>4. Written(x, n, cb) = IF y.connecting THEN y ELSE v
  BY DEF Written
<1> HIDE DEF y
<1>5. Keeps(k, x, y)
  BY <1>2, <1>3, KeepsOtherwise DEF StreamOK, Buffered
<1>6. Keeps(k, x, z)
  BY <1>5, HandleWriteOK, KeepsCompose DEF Keeps
<1> HIDE DEF z
<1>7. Keeps(k, x, w)
  <2>1. Keeps(k, z, AddIOState(z, "WRITE"))
    BY <1>6, AddIOStateOK DEF Keeps
  <2>2. Keeps(k, x, AddIOState(z, "WRITE"))
    BY <1>6, <2>1, KeepsCompose
  <2> QED
    BY <1>6, <2>2
<1> HIDE DEF w
<1>8. StreamOK(w, k)
  BY <1>7 DEF Keeps
<1>9. Keeps(k, w, v) /\ (v.closed \/ v.listening \/ v.pending > 0)
  BY <1>8, MaybeAddErrorListenerOK
<1> HIDE DEF v
<1>10. Keeps(k, x, v)
  BY <1>7, <1>9, KeepsCompose
<1> QED
  BY <1>3, <1>4, <1>5, <1>9, <1>10

-----------------------------------------------------------------------------
(* The inductive invariant.                                                *)

\* A stream that is connecting waits for the poller.
ConnectIsWatched(x) == x.connecting /\ ~x.closed => x.listening

\* A stream that was used is watched, closed, or has a callback to come, unless
\* one of its callbacks is running.
UseIsWatched(x, cb, used) ==
  used > 0 /\ cb = "none" => x.closed \/ x.listening \/ x.pending > 0

StreamInv ==
  /\ StreamOK(s, 0)
  /\ ConnectIsWatched(s)
  /\ inCb \in Wrapped \cup {"none"} /\ batch \in Nat /\ ops \in 0..MaxOps
  /\ UseIsWatched(s, inCb, ops)

\* A stream as it is made.
LEMMA FreshOK ==
  ASSUME NEW b \in BOOLEAN
  PROVE  StreamOK(Fresh(b), 0) /\ ConnectIsWatched(Fresh(b))
<1> DEFINE x == Fresh(b)
<1>1. /\ x.queue = <<>> /\ x.pending = 0 /\ x.taken = 0 /\ x.got = 0
      /\ x.sent = 0 /\ ~x.connecting
  BY DEF Fresh
<1>2. x \in Stream
  <2>1. /\ <<>> \in Seq(Wrapped \cup {"doClose"}) /\ {} \in SUBSET ReadKinds
        /\ (IF b THEN MaxRoom ELSE 0) \in 0..MaxRoom /\ 0 \in 0..MaxSent
    BY IOStreamAssumption
  <2> QED
    BY <2>1 DEF Fresh, Stream
<1> HIDE DEF x
<1>3. Scheduled(x.queue) = {} /\ x.queue \in Seq(Entries)
  BY <1>1 DEF Scheduled
<1>4. x.pending = Cardinality(Scheduled(x.queue)) + 0
  <2>1. Cardinality({}) = 0
    BY FS_EmptySet
  <2>2. Cardinality(Scheduled(x.queue)) = Cardinality({})
    BY <1>3
  <2> QED
    BY <1>1, <2>1, <2>2
<1>5. StreamOK(x, 0) /\ ConnectIsWatched(x)
  BY <1>1, <1>2, <1>4 DEF StreamOK, Buffered, CloseLast, ConnectIsWatched
<1> QED
  BY <1>5 DEF x

\* A method keeps a connecting stream watched.
LEMMA KeepsWatched ==
  ASSUME NEW x, NEW y, Keeps(0, x, y), ConnectIsWatched(x)
  PROVE  ConnectIsWatched(y)
BY DEF Keeps, Follows, ConnectIsWatched

\* A call of a public method, or an event, after which the stream is watched
\* if it has to be.
LEMMA MethodStep ==
  ASSUME StreamInv, StreamOK(s', 0), ConnectIsWatched(s'),
         inCb' = inCb, batch' = batch, ops' \in 0..MaxOps,
         UseIsWatched(s', inCb', ops')
  PROVE  StreamInv'
BY DEF StreamInv, StreamOK, Buffered, CloseLast, ConnectIsWatched, UseIsWatched

\* Dispatch, RunNext, CallbackReturns and CallbackRaises keep the invariant.
LEMMA LoopStepInv ==
  ASSUME StreamInv, LoopStep
  PROVE  StreamInv'
<1>1. StreamOK(s, 0) /\ ConnectIsWatched(s) /\ s \in Stream /\ 0 \in Nat
  BY DEF StreamInv, StreamOK
<1>2. CASE Dispatch
  <2>1. Keeps(0, s, s')
    BY <1>1, <1>2, HandleEventsOK DEF Dispatch
  <2>2. s'.listening \/ s'.closed
    BY <1>2, <2>1 DEF Dispatch, Reported, Keeps, Follows
  <2>3. ConnectIsWatched(s') /\ StreamOK(s', 0)
    BY <1>1, <2>1, KeepsWatched DEF Keeps
  <2>4. batch' \in Nat
    <3>1. s' \in Stream
      BY <2>3 DEF StreamOK
    <3>2. s'.queue \in Seq(Entries)
      BY <3>1, StreamFields
    <3> QED
      BY <1>2, <3>2 DEF Dispatch
  <2> QED
    BY <1>2, <2>2, <2>3, <2>4 DEF Dispatch, StreamInv, UseIsWatched,
       StreamOK, Buffered, CloseLast, ConnectIsWatched
<1>3. CASE RunNext
  <2>1. /\ StreamOK(s', 0)
        /\ s.listening \/ s.closed => s'.listening \/ s'.closed
        /\ s.closed => s'.closed
        /\ s'.connecting => s.connecting
        /\ Head(s.queue) = "doClose" => s'.closed
    BY <1>1, <1>3, PoppedOK DEF RunNext, Turn
  <2>2. ConnectIsWatched(s')
    BY <1>1, <2>1 DEF ConnectIsWatched
  <2>3. Head(s.queue) \in Entries /\ Len(s.queue) \in Nat \ {0}
    <3>1. s.queue \in Seq(Entries) /\ s.queue # <<>>
      BY <1>1, <1>3, StreamFields DEF RunNext, Turn
    <3> QED
      BY <3>1
  <2>4. batch' \in Nat /\ inCb' \in Wrapped \cup {"none"}
    BY <1>3, <2>3 DEF RunNext, Turn, StreamInv, Entries
  <2>5. UseIsWatched(s', inCb', ops')
    BY <1>3, <2>1, <2>3 DEF RunNext, UseIsWatched, Entries, Wrapped
  <2> QED
    BY <1>3, <2>1, <2>2, <2>4, <2>5 DEF RunNext, StreamInv,
       StreamOK, Buffered, CloseLast, ConnectIsWatched, UseIsWatched
<1>4. CASE CallbackReturns
  <2>1. Keeps(0, s, s') /\ (s'.closed \/ s'.listening \/ s'.pending > 0)
    BY <1>1, <1>4, MaybeAddErrorListenerOK DEF CallbackReturns
  <2>2. ConnectIsWatched(s') /\ StreamOK(s', 0)
    BY <1>1, <2>1, KeepsWatched DEF Keeps
  <2> QED
    BY <1>4, <2>1, <2>2 DEF CallbackReturns, StreamInv, UseIsWatched,
       StreamOK, Buffered, CloseLast, ConnectIsWatched
<1>5. CASE CallbackRaises
  <2>1. Keeps(0, s, s') /\ s'.closed
    BY <1>1, <1>5, CloseOK DEF CallbackRaises
  <2>2. ConnectIsWatched(s') /\ StreamOK(s', 0)
    BY <1>1, <2>1, KeepsWatched DEF Keeps
  <2> QED
    BY <1>5, <2>1, <2>2 DEF CallbackRaises, StreamInv, UseIsWatched,
       StreamOK, Buffered, CloseLast, ConnectIsWatched
<1> QED
  BY <1>2, <1>3, <1>4, <1>5 DEF LoopStep

\* So does every method that user code calls.
LEMMA UserStepInv ==
  ASSUME StreamInv, UserStep
  PROVE  StreamInv'
<1>1. /\ StreamOK(s, 0) /\ ConnectIsWatched(s) /\ s \in Stream
      /\ UseIsWatched(s, inCb, ops) /\ ops \in 0..MaxOps /\ 0 \in Nat
  BY DEF StreamInv, StreamOK
<1>2. Operation => inCb' = inCb /\ batch' = batch /\ ops' \in 0..MaxOps
  BY <1>1, IOStreamAssumption DEF Operation
<1>3. ASSUME NEW x, Keeps(0, s, x), Operation, s' = TryInlineRead(x)
      PROVE  StreamInv'
  <2>1. /\ Keeps(0, x, s')
        /\ s'.closed \/ s'.listening \/ s'.pending > 0
    BY <1>1, <1>3, TryInlineReadOK DEF Keeps
  <2>2. Keeps(0, s, s')
    BY <1>1, <1>3, <2>1, KeepsCompose
  <2>3. StreamOK(s', 0) /\ ConnectIsWatched(s') /\ UseIsWatched(s', inCb', ops')
    BY <1>1, <2>1, <2>2, KeepsWatched DEF Keeps, UseIsWatched
  <2> QED
    BY <1>2, <1>3, <2>3, MethodStep
<1>4. ASSUME NEW x, StreamOK(x, 0), Operation, s' = Close(x)
      PROVE  StreamInv'
  <2>1. StreamOK(s', 0) /\ s'.closed
    BY <1>1, <1>4, CloseOK DEF Keeps
  <2>2. ConnectIsWatched(s') /\ UseIsWatched(s', inCb', ops')
    BY <2>1 DEF ConnectIsWatched, UseIsWatched
  <2> QED
    BY <1>2, <1>4, <2>1, <2>2, MethodStep
<1>5. ASSUME NEW n \in 0..MaxSent, NEW b \in BOOLEAN, ReadBytes(n, b)
      PROVE  StreamInv'
  <2>1. n \in Nat
    BY IOStreamAssumption
  <2>2. Keeps(0, s, [Reading(s, "bytes") EXCEPT !.want = n, !.streaming = b])
    BY <1>1, <2>1, ReadingOK DEF ReadKinds
  <2> QED
    BY <1>3, <1>5, <2>2 DEF ReadBytes
<1>6. CASE ReadUntil
  <2>1. Keeps(0, s, Reading(s, "until"))
    BY <1>1, ReadingOK DEF ReadKinds
  <2> QED
    BY <1>3, <1>6, <2>1 DEF ReadUntil
<1>7. ASSUME NEW b \in BOOLEAN, ReadUntilClose(b)
      PROVE  StreamInv'
  <2>1. CASE ~s.closed
    <3>1. Keeps(0, s, [Reading(s, "close") EXCEPT !.streaming = b])
      BY <1>1, ReadingOK DEF ReadKinds
    <3> QED
      BY <1>3, <1>7, <2>1, <3>1 DEF ReadUntilClose
  <2>2. CASE s.closed
    <3> DEFINE y == IF b THEN Deliver(s, "stream", Unread(s)) ELSE s
               z == Deliver(y, "read", Unread(y))
               w == [z EXCEPT !.streaming = FALSE]
    <3>1. s' = w
      BY <1>7, <2>2 DEF ReadUntilClose
    <3>2. Keeps(0, s, y)
      <4>1. Unread(s) \in Nat
        BY <1>1, UnreadIsNat
      <4>2. Keeps(0, s, Deliver(s, "stream", Unread(s)))
        BY <1>1, <4>1, DeliverOK DEF Wrapped
      <4>3. Keeps(0, s, s)
        BY <1>1, KeepsOtherwise DEF StreamOK
      <4> QED
        BY <4>2, <4>3
    <3> HIDE DEF y
    <3>3. Keeps(0, y, z)
      <4>1. StreamOK(y, 0) /\ Unread(y) \in Nat
        BY <1>1, <3>2, UnreadIsNat DEF Keeps
      <4> QED
        BY <1>1, <4>1, DeliverOK DEF Wrapped
    <3> HIDE DEF z
    <3>4. Keeps(0, z, w)
      <4>1. z \in Stream /\ StreamOK(z, 0)
        BY <3>3 DEF Keeps, StreamOK
      <4>2. w \in Stream
        BY <4>1 DEF Stream
      <4>3. /\ w.queue = z.queue /\ w.pending = z.pending
            /\ w.taken = z.taken /\ w.got = z.got /\ w.sent = z.sent
            /\ w.listening = z.listening /\ w.closed = z.closed
            /\ w.connecting = z.connecting
        BY <4>1 DEF Stream
      <4> HIDE DEF w
      <4> QED
        BY <1>1, <4>1, <4>2, <4>3, KeepsOtherwise DEF StreamOK, Buffered
    <3>5. Keeps(0, s, s')
      <4>1. Keeps(0, s, z)
        BY <1>1, <3>2, <3>3, KeepsCompose
      <4> QED
        BY <1>1, <3>1, <3>4, <4>1, KeepsCompose
    <3>6. s'.closed
      BY <2>2, <3>5 DEF Keeps, Follows
    <3>7. StreamOK(s', 0) /\ ConnectIsWatched(s') /\ UseIsWatched(s', inCb', ops')
      BY <3>5, <3>6 DEF Keeps, ConnectIsWatched, UseIsWatched
    <3> QED
      BY <1>2, <1>7, <3>7, MethodStep DEF ReadUntilClose
  <2> QED
    BY <2>1, <2>2
<1>8. ASSUME NEW n \in 0..MaxWrite, NEW b \in BOOLEAN, Write(n, b)
      PROVE  StreamInv'
  <2>1. n \in Nat
    BY IOStreamAssumption
  <2>2. /\ Keeps(0, s, s')
        /\ s.connecting \/ s'.closed \/ s'.listening \/ s'.pending > 0
    BY <1>1, <1>8, <2>1, WrittenOK DEF Write
  <2>3. s.connecting => s'.listening \/ s'.closed
    BY <1>1, <1>8, <2>2 DEF ConnectIsWatched, Keeps, Follows
  <2>4. StreamOK(s', 0) /\ ConnectIsWatched(s') /\ UseIsWatched(s', inCb', ops')
    BY <1>1, <2>2, <2>3, KeepsWatched DEF Keeps, UseIsWatched
  <2> QED
    BY <1>2, <1>8, <2>4, MethodStep DEF Write
<1>9. ASSUME NEW b \in BOOLEAN, Connect(b)
      PROVE  StreamInv'
  <2> DEFINE y == [s EXCEPT !.connecting = TRUE, !.connectCb = b]
             z == [s EXCEPT !.connecting = TRUE]
  <2>1. y \in Stream /\ z \in Stream
    BY <1>1 DEF Stream
  <2>2. /\ y.queue = s.queue /\ y.pending = s.pending
        /\ y.taken = s.taken /\ y.got = s.got /\ y.sent = s.sent
    BY <1>1 DEF Stream
  <2>3. /\ z.queue = s.queue /\ z.pending = s.pending
        /\ z.taken = s.taken /\ z.got = s.got /\ z.sent = s.sent
    BY <1>1 DEF Stream
  <2>4. Operation /\ s' \in {AddIOState(y, "WRITE"), Close(z)}
    BY <1>9 DEF Connect
  <2> HIDE DEF y, z
  <2>5. StreamOK(y, 0) /\ StreamOK(z, 0)
    BY <1>1, <2>1, <2>2, <2>3 DEF StreamOK, Buffered
  <2>6. CASE s' = AddIOState(y, "WRITE")
    <3>1. StreamOK(s', 0) /\ (s'.closed \/ s'.listening)
      BY <1>1, <2>5, <2>6, AddIOStateOK DEF Keeps
    <3>2. ConnectIsWatched(s') /\ UseIsWatched(s', inCb', ops')
      BY <3>1 DEF ConnectIsWatched, UseIsWatched
    <3> QED
      BY <1>2, <2>4, <3>1, <3>2, MethodStep
  <2>7. CASE s' = Close(z)
    BY <1>4, <2>4, <2>5, <2>7
  <2> QED
    BY <2>4, <2>6, <2>7
<1>10. ASSUME NEW b \in BOOLEAN, SetCloseCallback(b)
       PROVE  StreamInv'
  <2>1. s' = [s EXCEPT !.closeCb = b] /\ UNCHANGED <<inCb, batch, ops>>
    BY <1>10 DEF SetCloseCallback
  <2>2. s' \in Stream
    BY <1>1, <2>1 DEF Stream
  <2>3. /\ s'.queue = s.queue /\ s'.pending = s.pending
        /\ s'.taken = s.taken /\ s'.got = s.got /\ s'.sent = s.sent
        /\ s'.listening = s.listening /\ s'.closed = s.closed
        /\ s'.connecting = s.connecting
    BY <1>1, <2>1 DEF Stream
  <2>4. StreamOK(s', 0) /\ ConnectIsWatched(s') /\ UseIsWatched(s', inCb', ops')
    BY <1>1, <2>1, <2>2, <2>3
       DEF StreamOK, Buffered, ConnectIsWatched, UseIsWatched
  <2> QED
    BY <1>1, <2>1, <2>4, MethodStep
<1>11. CASE CloseStream
  BY <1>1, <1>4, <1>11 DEF CloseStream
<1> QED
  BY <1>5, <1>6, <1>7, <1>8, <1>9, <1>10, <1>11 DEF UserStep

\* So do the peer and the kernel.
LEMMA PeerStepInv ==
  ASSUME StreamInv, Arrive \/ Fin \/ Break \/ Establish \/ Drain
  PROVE  StreamInv'
<1>1. /\ StreamOK(s, 0) /\ ConnectIsWatched(s) /\ s \in Stream
      /\ UseIsWatched(s, inCb, ops) /\ ops \in 0..MaxOps
      /\ s.sent \in Nat /\ s.room \in Nat /\ s.got \in Nat
  BY StreamFields DEF StreamInv, StreamOK
<1>2. UNCHANGED <<inCb, batch, ops>>
  BY DEF Arrive, Fin, Break, Establish, Drain, Peer
<1> DEFINE Untouched(x) ==
             /\ x.queue = s.queue /\ x.pending = s.pending
             /\ x.taken = s.taken /\ x.got = s.got
             /\ x.listening = s.listening /\ x.closed = s.closed
             /\ x.connecting = s.connecting
<1>3. s' \in Stream /\ Untouched(s') /\ s'.sent >= s.sent
  <2>1. CASE Arrive
    <3>1. s.sent + 1 \in 0..MaxSent /\ s' = [s EXCEPT !.sent = @ + 1]
      BY <1>1, <2>1, IOStreamAssumption DEF Arrive, Peer
    <3>2. s' \in Stream
      BY <1>1, <3>1 DEF Stream
    <3>3. Untouched(s') /\ s'.sent >= s.sent
      BY <1>1, <3>1 DEF Stream
    <3> QED
      BY <3>2, <3>3
  <2>2. CASE Fin
    <3>1. s' = [s EXCEPT !.fin = TRUE]
      BY <2>2 DEF Fin, Peer
    <3>2. s' \in Stream
      BY <1>1, <3>1 DEF Stream
    <3>3. Untouched(s') /\ s'.sent >= s.sent
      BY <1>1, <3>1 DEF Stream
    <3> QED
      BY <3>2, <3>3
  <2>3. CASE Break
    <3>1. s' = [s EXCEPT !.broken = TRUE]
      BY <2>3 DEF Break, Peer
    <3>2. s' \in Stream
      BY <1>1, <3>1 DEF Stream
    <3>3. Untouched(s') /\ s'.sent >= s.sent
      BY <1>1, <3>1 DEF Stream
    <3> QED
      BY <3>2, <3>3
  <2>4. CASE Establish
    <3>1. s' = [s EXCEPT !.up = TRUE, !.room = MaxRoom] /\ MaxRoom \in 0..MaxRoom
      BY <2>4, IOStreamAssumption DEF Establish, Peer
    <3>2. s' \in Stream
      BY <1>1, <3>1 DEF Stream
    <3>3. Untouched(s') /\ s'.sent >= s.sent
      BY <1>1, <3>1 DEF Stream
    <3> QED
      BY <3>2, <3>3
  <2>5. CASE Drain
    <3>1. s.room + 1 \in 0..MaxRoom /\ s' = [s EXCEPT !.room = @ + 1]
      BY <1>1, <2>5, IOStreamAssumption DEF Drain, Peer
    <3>2. s' \in Stream
      BY <1>1, <3>1 DEF Stream
    <3>3. Untouched(s') /\ s'.sent >= s.sent
      BY <1>1, <3>1 DEF Stream
    <3> QED
      BY <3>2, <3>3
  <2> QED
    BY <2>1, <2>2, <2>3, <2>4, <2>5
<1>4. Buffered(s')
  <2>1. s'.sent \in Nat
    BY <1>3, StreamFields
  <2> QED
    BY <1>1, <1>3, <2>1 DEF StreamOK, Buffered
<1>5. StreamOK(s', 0) /\ ConnectIsWatched(s') /\ UseIsWatched(s', inCb', ops')
  BY <1>1, <1>2, <1>3, <1>4 DEF StreamOK, ConnectIsWatched, UseIsWatched
<1> QED
  BY <1>1, <1>2, <1>5, MethodStep

\* Every behaviour of a stream keeps the invariant.
THEOREM StreamInvariant == Spec => []StreamInv
<1>1. Init => StreamInv
  <2> SUFFICES ASSUME Init PROVE StreamInv
    OBVIOUS
  <2>1. StreamOK(s, 0) /\ ConnectIsWatched(s)
    BY FreshOK DEF Init
  <2> QED
    BY <2>1, IOStreamAssumption DEF Init, StreamInv, UseIsWatched
<1>2. StreamInv /\ [Next]_vars => StreamInv'
  <2> SUFFICES ASSUME StreamInv, [Next]_vars PROVE StreamInv'
    OBVIOUS
  <2>1. CASE Next
    BY <2>1, LoopStepInv, UserStepInv, PeerStepInv DEF Next
  <2>2. CASE UNCHANGED vars
    BY <2>2 DEF vars, StreamInv, StreamOK, Buffered, CloseLast,
       ConnectIsWatched, UseIsWatched
  <2> QED
    BY <2>1, <2>2
<1> QED
  BY <1>1, <1>2, PTL DEF Spec

-----------------------------------------------------------------------------
(* What follows from it.                                                   *)

\* Every variable of the stream has its type.
THEOREM TypeCorrect == Spec => []TypeOK
<1>1. StreamInv => TypeOK
  BY DEF StreamInv, StreamOK, TypeOK
<1> QED
  BY <1>1, StreamInvariant, PTL

\* _pending_callbacks is the number of the stream's callbacks in the loop's
\* queue: no path schedules, runs or drops one without counting it.
THEOREM PendingHolds == Spec => []PendingIsQueued
<1>1. StreamInv => PendingIsQueued
  <2> SUFFICES ASSUME StreamInv PROVE PendingIsQueued
    OBVIOUS
  <2>1. s.queue \in Seq(Entries) /\ s.pending = Cardinality(Scheduled(s.queue)) + 0
    BY StreamFields DEF StreamInv, StreamOK
  <2>2. Cardinality(Scheduled(s.queue)) \in Nat
    BY <2>1, ScheduledFinite
  <2> QED
    BY <2>1, <2>2 DEF PendingIsQueued
<1> QED
  BY <1>1, StreamInvariant, PTL

\* "If there are pending callbacks, don't run the close callback until they're
\* done" (_maybe_run_close_callback): when it is queued, no other callback of the
\* stream is ahead of it in the loop's queue.
THEOREM CloseCallbackComesLastHolds == Spec => []CloseCallbackComesLast
<1>1. StreamInv => CloseCallbackComesLast
  BY DEF StreamInv, StreamOK, CloseLast, CloseCallbackComesLast
<1> QED
  BY <1>1, StreamInvariant, PTL

\* "To detect closed connections, we must have called _add_io_state at some
\* point": a stream in use that has nothing scheduled is watched.
THEOREM StreamIsWatchedHolds == Spec => []StreamIsWatched
<1>1. StreamInv => StreamIsWatched
  BY DEF StreamInv, UseIsWatched, StreamIsWatched
<1> QED
  BY <1>1, StreamInvariant, PTL

-----------------------------------------------------------------------------
(* One read at a time: what the methods do to an open stream that nobody   *)
(* reads, that somebody reads, and whose reader will be called.  A plain   *)
(* stream is connected, and its reads are not streamed.                    *)

NoneOf(kind, queue) == \A i \in DOMAIN queue : queue[i] # kind
OneOf(kind, queue) ==
  \E i \in DOMAIN queue : /\ queue[i] = kind
                          /\ \A j \in DOMAIN queue : queue[j] = kind => j = i

Plain(x) == ~x.connecting /\ ~x.streaming /\ NoneOf("close", x.queue)

NotAsked(x) == ~x.reading /\ x.kinds = {} /\ NoneOf("read", x.queue)
Asked(x) == x.reading /\ x.kinds \in {{"until"}, {"bytes"}} /\ NoneOf("read", x.queue)
Due(x) == ~x.reading /\ x.kinds = {} /\ OneOf("read", x.queue)

\* Whether a read was asked for is not forgotten: its callback comes once, ...
Heeds(x, y) ==
  /\ Plain(y)
  /\ NotAsked(x) => NotAsked(y)
  /\ Asked(x) => Asked(y) \/ Due(y)
  /\ Due(x) => Due(y)

\* ... and nothing is written that was not given to write.
Goes(x, y) == y.closed \/ (Plain(x) => Heeds(x, y) /\ (x.unsent = 0 => y.unsent = 0))

\* Methods that call each other.
LEMMA GoesCompose ==
  ASSUME NEW x, NEW y, NEW z, Goes(x, y), Goes(y, z), Follows(y, z)
  PROVE  Goes(x, z)
BY DEF Goes, Heeds, Follows

\* What a method does to the other fields does not matter here.
LEMMA GoesOtherwise ==
  ASSUME NEW x, NEW y, y.reading = x.reading, y.kinds = x.kinds, y.queue = x.queue,
         y.streaming = x.streaming, y.connecting = x.connecting, y.unsent = x.unsent
  PROVE  Goes(x, y)
BY DEF Goes, Heeds, Plain, NotAsked, Asked, Due

\* The fields that say so.
LEMMA ReadFields ==
  ASSUME NEW x \in Stream
  PROVE  /\ x.reading \in BOOLEAN /\ x.streaming \in BOOLEAN
         /\ x.kinds \subseteq ReadKinds
BY DEF Stream

\* A callback more at the end of the queue.
LEMMA AppendKinds ==
  ASSUME NEW queue \in Seq(Entries), NEW cb \in Entries, NEW kind
  PROVE  /\ NoneOf(kind, queue) /\ cb # kind => NoneOf(kind, Append(queue, cb))
         /\ OneOf(kind, queue) /\ cb # kind => OneOf(kind, Append(queue, cb))
         /\ NoneOf(cb, queue) => OneOf(cb, Append(queue, cb))
<1> DEFINE all == Append(queue, cb)
<1>1. /\ DOMAIN all = 1..(Len(queue) + 1) /\ DOMAIN queue = 1..Len(queue) /\ Len(queue) \in Nat
      /\ \A i \in DOMAIN queue : all[i] = queue[i]
      /\ all[Len(queue) + 1] = cb
  OBVIOUS
<1> HIDE DEF all
<1>2. \A i \in DOMAIN all : i \in DOMAIN queue \/ i = Len(queue) + 1
  BY <1>1
<1>3. DOMAIN queue \subseteq DOMAIN all /\ Len(queue) + 1 \in DOMAIN all
  BY <1>1
<1>4. NoneOf(kind, queue) /\ cb # kind => NoneOf(kind, all)
  BY <1>1, <1>2 DEF NoneOf
<1>5. ASSUME OneOf(kind, queue), cb # kind PROVE OneOf(kind, all)
  <2>1. PICK i \in DOMAIN queue : /\ queue[i] = kind
                                  /\ \A j \in DOMAIN queue : queue[j] = kind => j = i
    BY <1>5 DEF OneOf
  <2> QED
    BY <1>1, <1>2, <1>3, <1>5, <2>1 DEF OneOf
<1>6. ASSUME NoneOf(cb, queue) PROVE OneOf(cb, all)
  BY <1>1, <1>2, <1>3, <1>6 DEF OneOf, NoneOf
<1> QED
  BY <1>4, <1>5, <1>6 DEF all

\* One callback less at the front.
LEMMA TailKinds ==
  ASSUME NEW queue \in Seq(Entries), queue # <<>>, NEW kind
  PROVE  /\ NoneOf(kind, queue) => NoneOf(kind, Tail(queue)) /\ Head(queue) # kind
         /\ OneOf(kind, queue) => IF Head(queue) = kind THEN NoneOf(kind, Tail(queue))
                                                        ELSE OneOf(kind, Tail(queue))
<1> DEFINE rest == Tail(queue)
<1>1. /\ DOMAIN rest = 1..(Len(queue) - 1) /\ DOMAIN queue = 1..Len(queue)
      /\ Len(queue) \in Nat \ {0}
      /\ \A i \in DOMAIN rest : rest[i] = queue[i + 1]
      /\ Head(queue) = queue[1]
  OBVIOUS
<1> HIDE DEF rest
<1>2. 1 \in DOMAIN queue /\ \A i \in DOMAIN rest : i \in Nat /\ i + 1 \in DOMAIN queue /\ i + 1 # 1
  BY <1>1
<1>3. NoneOf(kind, queue) => NoneOf(kind, rest) /\ Head(queue) # kind
  BY <1>1, <1>2 DEF NoneOf
<1>4. ASSUME OneOf(kind, queue)
      PROVE  IF Head(queue) = kind THEN NoneOf(kind, rest) ELSE OneOf(kind, rest)
  <2>1. PICK i \in DOMAIN queue : /\ queue[i] = kind
                                  /\ \A j \in DOMAIN queue : queue[j] = kind => j = i
    BY <1>4 DEF OneOf
  <2>2. CASE Head(queue) = kind
    <3>1. i = 1
      BY <1>1, <1>2, <2>1, <2>2
    <3> QED
      BY <1>1, <1>2, <2>1, <2>2, <3>1 DEF NoneOf
  <2>3. CASE Head(queue) # kind
    <3>1. i - 1 \in DOMAIN rest /\ i = (i - 1) + 1
      BY <1>1, <2>1, <2>3
    <3>2. \A j \in DOMAIN rest : rest[j] = kind => j = i - 1
      BY <1>1, <1>2, <2>1
    <3> QED
      BY <1>1, <2>1, <2>3, <3>1, <3>2 DEF OneOf
  <2> QED
    BY <2>2, <2>3
<1> QED
  BY <1>3, <1>4 DEF rest

\* _run_callback, for callbacks of another kind.
LEMMA RunCallbackGoes ==
  ASSUME NEW x \in Stream, NEW cb \in Wrapped \ {"read", "close"}
  PROVE  Goes(x, RunCallback(x, cb))
<1> DEFINE y == RunCallback(x, cb)
<1>1. x.queue \in Seq(Entries) /\ cb \in Entries /\ cb # "read" /\ cb # "close"
  BY StreamFields DEF Entries
<1>2. /\ y.reading = x.reading /\ y.kinds = x.kinds /\ y.queue = Append(x.queue, cb)
      /\ y.streaming = x.streaming /\ y.connecting = x.connecting /\ y.unsent = x.unsent
  BY DEF RunCallback, Stream
<1> HIDE DEF y
<1>3. /\ NoneOf("close", x.queue) => NoneOf("close", y.queue)
      /\ NoneOf("read", x.queue) => NoneOf("read", y.queue)
      /\ OneOf("read", x.queue) => OneOf("read", y.queue)
  BY <1>1, <1>2, AppendKinds
<1>4. Goes(x, y)
  BY <1>2, <1>3 DEF Goes, Heeds, Plain, NotAsked, Asked, Due
<1> QED
  BY <1>4 DEF y

\* The close callback is only scheduled once the stream is closed.
LEMMA MaybeRunCloseCallbackGoes ==
  ASSUME NEW k \in Nat, NEW x, StreamOK(x, k)
  PROVE  Goes(x, MaybeRunCloseCallback(x))
<1>1. CASE x.closed
  BY <1>1, MaybeRunCloseCallbackOK DEF Keeps, Follows, Goes
<1>2. CASE ~x.closed
  <2>1. MaybeRunCloseCallback(x) = x
    BY <1>2 DEF MaybeRunCloseCallback, CloseCallbackDue
  <2> QED
    BY <2>1, GoesOtherwise
<1> QED
  BY <1>1, <1>2

\* _add_io_state and _maybe_add_error_listener.
LEMMA AddIOStateGoes ==
  ASSUME NEW x \in Stream, NEW e
  PROVE  Goes(x, AddIOState(x, e))
<1> DEFINE y == [x EXCEPT !.listening = TRUE, !.interest = @ \cup {e}]
<1>1. AddIOState(x, e) \in {x, y}
  BY DEF AddIOState
<1>2. /\ y.reading = x.reading /\ y.kinds = x.kinds /\ y.queue = x.queue
      /\ y.streaming = x.streaming /\ y.connecting = x.connecting /\ y.unsent = x.unsent
  BY DEF Stream
<1> HIDE DEF y
<1> QED
  BY <1>1, <1>2, GoesOtherwise

\* Listening for errors (_maybe_add_error_listener) answers no read.
LEMMA MaybeAddErrorListenerGoes ==
  ASSUME NEW k \in Nat, NEW x, StreamOK(x, k)
  PROVE  Goes(x, MaybeAddErrorListener(x))
<1>1. MaybeAddErrorListener(x) \in {x, MaybeRunCloseCallback(x), AddIOState(x, "READ")}
  BY DEF MaybeAddErrorListener
<1>2. x \in Stream
  BY DEF StreamOK
<1> QED
  BY <1>1, <1>2, GoesOtherwise, MaybeRunCloseCallbackGoes, AddIOStateGoes

\* A read that is answered is over, and its callback is in the queue.
LEMMA ReadFromBufferGoes ==
  ASSUME NEW k \in Nat, NEW x, StreamOK(x, k)
  PROVE  Goes(x, ReadFromBuffer(x))
<1> SUFFICES ASSUME Plain(x)
             PROVE  Heeds(x, ReadFromBuffer(x))
                    /\ (x.unsent = 0 => ReadFromBuffer(x).unsent = 0)
  BY DEF Goes
<1> DEFINE kind == IF EnoughBytes(x) THEN "bytes" ELSE "until"
           z == Deliver(x, "read", Amount(x))
           w == [z EXCEPT !.reading = FALSE, !.streaming = FALSE, !.kinds = @ \ {kind}]
<1>1. Streamed(x) = x
  BY DEF Streamed, Plain
<1>2. CASE ~Completes(x)
  <2>1. ReadFromBuffer(x) = x
    BY <1>1, <1>2 DEF ReadFromBuffer
  <2> QED
    BY <2>1 DEF Heeds
<1>3. CASE Completes(x)
  <2>1. ReadFromBuffer(x) = w
    BY <1>1, <1>3 DEF ReadFromBuffer
  <2>2. x \in Stream /\ x.queue \in Seq(Entries) /\ "read" \in Entries
    BY StreamFields DEF StreamOK, Entries, Wrapped
  <2>3. Amount(x) \in Nat /\ Amount(x) <= Unread(x)
    BY <1>3, AmountFits
  <2>4. z \in Stream
    BY <2>3, DeliverOK DEF Keeps, StreamOK, Wrapped
  <2>5. /\ z.kinds = x.kinds /\ z.queue = Append(x.queue, "read")
        /\ z.connecting = x.connecting /\ z.unsent = x.unsent
    <3> DEFINE v == [x EXCEPT !.taken = x.taken + Amount(x)]
    <3>1. /\ v.kinds = x.kinds /\ v.queue = x.queue /\ v.connecting = x.connecting
          /\ v.unsent = x.unsent /\ v = [v EXCEPT !.got = v.got]
      BY <2>2 DEF Stream
    <3>2. z = RunCallback(v, "read")
      BY DEF Deliver
    <3>3. v \in Stream
      <4>1. x.taken \in Nat /\ x.taken + Amount(x) \in Nat
        BY <2>2, <2>3, StreamFields
      <4> QED
        BY <2>2, <4>1 DEF Stream
    <3> HIDE DEF v, z
    <3> QED
      BY <3>1, <3>2, <3>3 DEF RunCallback, Stream
  <2> HIDE DEF z, kind
  <2>6. /\ w.kinds = z.kinds \ {kind} /\ w.queue = z.queue
        /\ w.connecting = z.connecting /\ w.unsent = z.unsent
        /\ w.reading = FALSE /\ w.streaming = FALSE
    BY <2>4 DEF Stream
  <2> HIDE DEF w
  <2>7. ~NotAsked(x) /\ ~Due(x) /\ (Asked(x) => x.kinds = {kind})
    BY <1>3 DEF NotAsked, Due, Asked, Completes, EnoughBytes, kind
  <2>8. /\ NoneOf("close", x.queue) => NoneOf("close", w.queue)
        /\ NoneOf("read", x.queue) => OneOf("read", w.queue)
    BY <2>2, <2>5, <2>6, AppendKinds
  <2>9. Plain(w)
    BY <2>5, <2>6, <2>8 DEF Plain
  <2>10. Asked(x) => Due(w)
    BY <2>5, <2>6, <2>7, <2>8 DEF Asked, Due
  <2> QED
    BY <2>1, <2>5, <2>6, <2>7, <2>9, <2>10 DEF Heeds
<1> QED
  BY <1>2, <1>3

\* Receiving does nothing to a read.
LEMMA ReadToBufferGoes ==
  ASSUME NEW k \in Nat, NEW x, StreamOK(x, k)
  PROVE  Goes(x, ReadToBuffer(x))
<1> DEFINE w == Filled(x)
           y == [w EXCEPT !.pending = @ + 1]
           z == CloseAfterReading(x, y)
           r == [z EXCEPT !.pending = @ - 1]
<1>1. x \in Stream /\ w \in Stream
  BY FilledOK DEF Keeps, StreamOK
<1>2. /\ w.reading = x.reading /\ w.kinds = x.kinds /\ w.queue = x.queue
      /\ w.streaming = x.streaming /\ w.connecting = x.connecting /\ w.unsent = x.unsent
  BY <1>1 DEF Filled, Stream
<1>3. ReadToBuffer(x) = r
  BY DEF ReadToBuffer
<1>4. Keeps(k, x, ReadToBuffer(x))
  BY ReadToBufferOK
<1> HIDE DEF w
<1>5. /\ y.reading = x.reading /\ y.kinds = x.kinds /\ y.queue = x.queue
      /\ y.streaming = x.streaming /\ y.connecting = x.connecting /\ y.unsent = x.unsent
      /\ y \in Stream
  <2>1. w.pending \in Nat
    BY <1>1, StreamFields
  <2>2. w.pending + 1 \in Nat
    BY <2>1
  <2> QED
    BY <1>1, <1>2, <2>2 DEF Stream
<1>6. CASE z = y
  <2>1. /\ r.reading = y.reading /\ r.kinds = y.kinds /\ r.queue = y.queue
        /\ r.streaming = y.streaming /\ r.connecting = y.connecting /\ r.unsent = y.unsent
    <3> HIDE DEF y, z
    <3> QED
      BY <1>5, <1>6 DEF Stream
  <2> HIDE DEF r, y, z
  <2> QED
    BY <1>3, <1>5, <2>1, GoesOtherwise
<1>7. CASE z = Close(y)
  <2>1. StreamOK(y, k + 1) /\ k + 1 \in Nat
    <3>1. StreamOK(w, k)
      BY FilledOK DEF Keeps, w
    <3>2. /\ y.queue = w.queue /\ y.pending = w.pending + 1
          /\ y.taken = w.taken /\ y.got = w.got /\ y.sent = w.sent
      BY <1>1 DEF Stream
    <3>3. w.pending \in Nat /\ w.queue \in Seq(Entries)
      BY <1>1, StreamFields
    <3> HIDE DEF y
    <3> QED
      BY <1>5, <3>1, <3>2, <3>3, ScheduledFinite DEF StreamOK, Buffered
  <2>2. z.closed /\ z \in Stream
    <3> HIDE DEF y
    <3> QED
      BY <1>7, <2>1, CloseOK DEF Keeps, StreamOK
  <2>3. r.closed
    <3> HIDE DEF z
    <3> QED
      BY <2>2 DEF Stream
  <2> QED
    BY <1>3, <2>3 DEF Goes
<1> QED
  BY <1>6, <1>7 DEF CloseAfterReading

\* What both kinds of lemmas say, of methods that call each other.
LEMMA BothCompose ==
  ASSUME NEW k \in Nat, NEW x, NEW y, NEW z, StreamOK(x, k),
         Keeps(k, x, y), Goes(x, y), Keeps(k, y, z), Goes(y, z)
  PROVE  Keeps(k, x, z) /\ Goes(x, z)
BY KeepsCompose, GoesCompose DEF Keeps

\* _handle_read.
LEMMA HandleReadGoes ==
  ASSUME NEW k \in Nat, NEW x, StreamOK(x, k)
  PROVE  Goes(x, HandleRead(x))
<1> DEFINE y == ReadToBuffer(x)
           z == ReadFromBuffer(y)
<1>1. Keeps(k, x, y) /\ Goes(x, y)
  BY ReadToBufferOK, ReadToBufferGoes
<1>2. HandleRead(x) \in {Close(y), z, MaybeRunCloseCallback(z)}
  BY DEF HandleRead
<1> HIDE DEF y
<1>3. StreamOK(y, k)
  BY <1>1 DEF Keeps
<1>4. Keeps(k, y, z) /\ Goes(y, z)
  BY <1>3, ReadFromBufferOK, ReadFromBufferGoes
<1> HIDE DEF z
<1>5. Keeps(k, x, z) /\ Goes(x, z)
  BY <1>1, <1>4, BothCompose
<1>6. Goes(x, MaybeRunCloseCallback(z))
  <2>1. Keeps(k, z, MaybeRunCloseCallback(z)) /\ Goes(z, MaybeRunCloseCallback(z))
    BY <1>5, MaybeRunCloseCallbackOK, MaybeRunCloseCallbackGoes DEF Keeps
  <2> QED
    BY <1>5, <2>1, BothCompose
<1>7. Goes(x, Close(y))
  BY <1>3, CloseOK DEF Goes
<1> QED
  BY <1>2, <1>5, <1>6, <1>7

\* _try_inline_read.
LEMMA TryInlineReadGoes ==
  ASSUME NEW k \in Nat, NEW x, StreamOK(x, k)
  PROVE  Goes(x, TryInlineRead(x))
<1> DEFINE y == ReadFromBuffer(x)
           z == ReadToBuffer(y)
           w == ReadFromBuffer(z)
<1>1. TryInlineRead(x) \in {y, MaybeRunCloseCallback(z), w, MaybeAddErrorListener(w)}
  BY DEF TryInlineRead
<1>2. Keeps(k, x, y) /\ Goes(x, y)
  BY ReadFromBufferOK, ReadFromBufferGoes
<1> HIDE DEF y
<1>3. Keeps(k, x, z) /\ Goes(x, z)
  <2>1. Keeps(k, y, z) /\ Goes(y, z)
    BY <1>2, ReadToBufferOK, ReadToBufferGoes DEF Keeps
  <2> QED
    BY <1>2, <2>1, BothCompose
<1> HIDE DEF z
<1>4. Keeps(k, x, w) /\ Goes(x, w)
  <2>1. Keeps(k, z, w) /\ Goes(z, w)
    BY <1>3, ReadFromBufferOK, ReadFromBufferGoes DEF Keeps
  <2> QED
    BY <1>3, <2>1, BothCompose
<1> HIDE DEF w
<1>5. Goes(x, MaybeRunCloseCallback(z))
  <2>1. Keeps(k, z, MaybeRunCloseCallback(z)) /\ Goes(z, MaybeRunCloseCallback(z))
    BY <1>3, MaybeRunCloseCallbackOK, MaybeRunCloseCallbackGoes DEF Keeps
  <2> QED
    BY <1>3, <2>1, BothCompose
<1>6. Goes(x, MaybeAddErrorListener(w))
  <2>1. StreamOK(w, k)
    BY <1>4 DEF Keeps
  <2>2. Keeps(k, w, MaybeAddErrorListener(w)) /\ Goes(w, MaybeAddErrorListener(w))
    BY <2>1, MaybeAddErrorListenerOK, MaybeAddErrorListenerGoes
  <2> QED
    BY <1>4, <2>2, BothCompose
<1> QED
  BY <1>1, <1>2, <1>4, <1>5, <1>6

\* _handle_write.
LEMMA HandleWriteGoes ==
  ASSUME NEW k \in Nat, NEW x, StreamOK(x, k)
  PROVE  Goes(x, HandleWrite(x))
<1> DEFINE n == Least(x.unsent, x.room)
           y == [x EXCEPT !.unsent = @ - n, !.room = @ - n]
           z == [y EXCEPT !.writeCb = FALSE]
<1>1. /\ x \in Stream /\ x.unsent \in Nat /\ x.room \in Nat /\ x.room <= MaxRoom
      /\ n \in Nat /\ n <= x.unsent /\ n <= x.room
  BY StreamFields, LeastIsLeast DEF StreamOK
<1>2. HandleWrite(x) \in {Close(x), RunCallback(z, "write"), y}
  BY DEF HandleWrite
<1> HIDE DEF n
<1>3. y \in Stream
  <2>1. x.unsent - n \in Nat /\ x.room - n \in 0..MaxRoom
    BY <1>1, IOStreamAssumption
  <2> QED
    BY <1>1, <2>1 DEF Stream
<1>4. /\ y.reading = x.reading /\ y.kinds = x.kinds /\ y.queue = x.queue
      /\ y.streaming = x.streaming /\ y.connecting = x.connecting
      /\ y.unsent = x.unsent - n
  BY <1>1 DEF Stream
<1>5. Goes(x, y)
  <2>1. x.unsent = 0 => y.unsent = 0
    BY <1>1, <1>4
  <2> HIDE DEF y
  <2> QED
    BY <1>4, <2>1 DEF Goes, Heeds, Plain, NotAsked, Asked, Due
<1> HIDE DEF y
<1>6. z \in Stream /\ z.closed = y.closed
  BY <1>3 DEF Stream
<1>7. /\ z.reading = y.reading /\ z.kinds = y.kinds /\ z.queue = y.queue
      /\ z.streaming = y.streaming /\ z.connecting = y.connecting /\ z.unsent = y.unsent
  BY <1>3 DEF Stream
<1> HIDE DEF z
<1>8. Goes(y, z) /\ Goes(z, RunCallback(z, "write"))
  BY <1>6, <1>7, GoesOtherwise, RunCallbackGoes DEF Wrapped
<1>9. RunCallback(z, "write").closed = z.closed
  BY <1>6 DEF RunCallback, Stream
<1>10. Goes(x, RunCallback(z, "write"))
  BY <1>5, <1>6, <1>8, <1>9 DEF Goes, Heeds
<1> QED
  BY <1>2, <1>5, <1>10, CloseOK DEF Goes

\* _handle_events.
LEMMA HandleEventsGoes ==
  ASSUME NEW k \in Nat, NEW x, StreamOK(x, k), NEW ev
  PROVE  Goes(x, HandleEvents(x, ev))
<1> SUFFICES ASSUME Plain(x) PROVE Goes(x, HandleEvents(x, ev))
  BY DEF Goes
<1> DEFINE r == IF "READ" \in ev THEN HandleRead(x) ELSE x
           c == IF r.connecting THEN HandleConnect(r) ELSE r
           w == IF "WRITE" \in ev THEN HandleWrite(c) ELSE r
           d == [w EXCEPT !.queue = Append(@, "doClose")]
           i == [w EXCEPT !.interest = Wanted(w)]
<1>1. HandleEvents(x, ev) \in {x, r, w, d, i}
  BY DEF HandleEvents
<1>2. Keeps(k, x, x) /\ Goes(x, x)
  BY KeepsOtherwise, GoesOtherwise DEF StreamOK
<1>3. Keeps(k, x, r) /\ Goes(x, r)
  BY <1>2, HandleReadOK, HandleReadGoes
<1> HIDE DEF r
<1>4. c = r
  <2>1. ~r.connecting
    BY <1>3 DEF Keeps, Follows, Plain
  <2> QED
    BY <2>1
<1> HIDE DEF c
<1>5. Keeps(k, x, w) /\ Goes(x, w)
  <2>1. Keeps(k, r, HandleWrite(r)) /\ Goes(r, HandleWrite(r))
    BY <1>3, HandleWriteOK, HandleWriteGoes DEF Keeps
  <2>2. Keeps(k, x, HandleWrite(r)) /\ Goes(x, HandleWrite(r))
    BY <1>3, <2>1, BothCompose
  <2> QED
    BY <1>3, <1>4, <2>2
<1> HIDE DEF w
<1>6. w \in Stream /\ w.queue \in Seq(Entries) /\ "doClose" \in Entries
  BY <1>5, StreamFields DEF Keeps, StreamOK, Entries
<1>7. Goes(w, d)
  <2>1. /\ d.reading = w.reading /\ d.kinds = w.kinds /\ d.queue = Append(w.queue, "doClose")
        /\ d.streaming = w.streaming /\ d.connecting = w.connecting /\ d.unsent = w.unsent
    BY <1>6 DEF Stream
  <2> HIDE DEF d
  <2>2. /\ NoneOf("close", w.queue) => NoneOf("close", d.queue)
        /\ NoneOf("read", w.queue) => NoneOf("read", d.queue)
        /\ OneOf("read", w.queue) => OneOf("read", d.queue)
    BY <1>6, <2>1, AppendKinds
  <2> QED
    BY <2>1, <2>2 DEF Goes, Heeds, Plain, NotAsked, Asked, Due
<1>8. Goes(w, i)
  <2>1. /\ i.reading = w.reading /\ i.kinds = w.kinds /\ i.queue = w.queue
        /\ i.streaming = w.streaming /\ i.connecting = w.connecting /\ i.unsent = w.unsent
    BY <1>6 DEF Stream
  <2> HIDE DEF i
  <2> QED
    BY <2>1, GoesOtherwise
<1>9. Keeps(k, w, d) /\ Keeps(k, w, i)
  BY <1>5, DoCloseOK, InterestOK DEF Keeps
<1> HIDE DEF d, i
<1>10. Goes(x, d) /\ Goes(x, i)
  BY <1>5, <1>7, <1>8, <1>9, BothCompose
<1> QED
  BY <1>1, <1>2, <1>3, <1>5, <1>10

\* A write that has to wait is the only other thing that write() does.
LEMMA WrittenHeeds ==
  ASSUME NEW k \in Nat, NEW x, StreamOK(x, k), NEW n \in Nat, NEW cb \in BOOLEAN
  PROVE  Written(x, n, cb).closed \/ (Plain(x) => Heeds(x, Written(x, n, cb)))
<1> DEFINE m == x.unsent + n
           y == [x EXCEPT !.unsent = m, !.writeCb = cb]
           z == HandleWrite(y)
           w == IF z.unsent > 0 THEN AddIOState(z, "WRITE") ELSE z
           v == MaybeAddErrorListener(w)
<1>1. x \in Stream /\ m \in Nat
  BY StreamFields DEF StreamOK
<1>2. Written(x, n, cb) = IF y.connecting THEN y ELSE v
  BY DEF Written
<1> HIDE DEF m
<1>3. y \in Stream
  BY <1>1 DEF Stream
<1>4. /\ y.queue = x.queue /\ y.pending = x.pending
      /\ y.taken = x.taken /\ y.got = x.got /\ y.sent = x.sent
      /\ y.listening = x.listening /\ y.closed = x.closed
      /\ y.connecting = x.connecting /\ y.reading = x.reading /\ y.kinds = x.kinds
      /\ y.streaming = x.streaming
  BY <1>1 DEF Stream
<1> HIDE DEF y
<1>5. StreamOK(y, k)
  BY <1>3, <1>4 DEF StreamOK, Buffered
<1>6. Keeps(k, y, z) /\ Goes(y, z)
  BY <1>5, HandleWriteOK, HandleWriteGoes
<1> HIDE DEF z
<1>7. Keeps(k, y, w) /\ Goes(y, w)
  <2>1. StreamOK(z, k) /\ z \in Stream
    BY <1>6 DEF Keeps, StreamOK
  <2>2. Keeps(k, z, AddIOState(z, "WRITE")) /\ Goes(z, AddIOState(z, "WRITE"))
    BY <2>1, AddIOStateOK, AddIOStateGoes
  <2>3. Keeps(k, y, AddIOState(z, "WRITE")) /\ Goes(y, AddIOState(z, "WRITE"))
    BY <1>5, <1>6, <2>2, BothCompose
  <2> QED
    BY <1>6, <2>3
<1> HIDE DEF w
<1>8. Goes(y, v)
  <2>1. StreamOK(w, k)
    BY <1>7 DEF Keeps
  <2>2. Keeps(k, w, v) /\ Goes(w, v)
    BY <2>1, MaybeAddErrorListenerOK, MaybeAddErrorListenerGoes
  <2> QED
    BY <1>5, <1>7, <2>2, BothCompose
<1>9. v.closed \/ (Plain(x) => Heeds(x, v))
  BY <1>4, <1>8 DEF Goes, Heeds, Plain, NotAsked, Asked, Due
<1>10. Plain(x) => ~y.connecting
  BY <1>4 DEF Plain
<1> HIDE DEF v
<1>11. Plain(x) => Heeds(x, y)
  BY <1>4 DEF Heeds, Plain, NotAsked, Asked, Due
<1> QED
  BY <1>2, <1>9, <1>11

\* A read is asked for.
LEMMA ReadingGoes ==
  ASSUME NEW x \in Stream, NEW kind \in {"until", "bytes"}, NotAsked(x), Plain(x)
  PROVE  LET y == Reading(x, kind)
         IN  /\ Asked(y) /\ Plain(y) /\ y.unsent = x.unsent /\ y \in Stream
<1> DEFINE y == Reading(x, kind)
<1>1. x.kinds \cup {kind} \in SUBSET ReadKinds /\ x.kinds \cup {kind} = {kind}
  BY DEF Stream, ReadKinds, NotAsked
<1>2. /\ y.kinds = x.kinds \cup {kind} /\ y.queue = x.queue /\ y.reading = TRUE
      /\ y.streaming = x.streaming /\ y.connecting = x.connecting /\ y.unsent = x.unsent
  BY DEF Reading, Stream
<1>3. y \in Stream
  BY <1>1 DEF Reading, Stream
<1> HIDE DEF y
<1>4. Asked(y) /\ Plain(y)
  BY <1>1, <1>2 DEF Asked, Plain, NotAsked
<1> QED
  BY <1>2, <1>3, <1>4 DEF y

\* The reader whose turn has come is the one that was due.
LEMMA PoppedGoes ==
  ASSUME NEW x, StreamOK(x, 0), x.queue # <<>>, Plain(x)
  PROVE  LET y == Popped(x)
         IN  \/ y.closed
             \/ /\ Plain(y) /\ y.unsent = x.unsent
                /\ NotAsked(x) => NotAsked(y)
                /\ Asked(x) => Asked(y)
                /\ Due(x) /\ Head(x.queue) # "read" => Due(y)
                /\ Due(x) /\ Head(x.queue) = "read" => NotAsked(y)
<1> DEFINE p == x.pending - 1
           y == [x EXCEPT !.queue = Tail(x.queue)]
           z == [y EXCEPT !.pending = p]
<1>1. x \in Stream /\ x.queue \in Seq(Entries) /\ Tail(x.queue) \in Seq(Entries)
  BY StreamFields DEF StreamOK
<1>2. y.pending = x.pending
  BY <1>1 DEF Stream
<1>3. CASE Head(x.queue) = "doClose"
  BY <1>3, PoppedOK
<1>4. CASE Head(x.queue) # "doClose"
  <2>1. Popped(x) = [y EXCEPT !.pending = y.pending - 1]
    BY <1>4 DEF Popped
  <2>2. Popped(x) = z
    <3> HIDE DEF y
    <3> QED
      BY <1>2, <2>1
  <2> HIDE DEF p
  <2>3. /\ z.reading = x.reading /\ z.kinds = x.kinds /\ z.queue = Tail(x.queue)
        /\ z.streaming = x.streaming /\ z.connecting = x.connecting /\ z.unsent = x.unsent
    BY <1>1 DEF Stream
  <2> HIDE DEF z
  <2>4. /\ NoneOf("close", x.queue) => NoneOf("close", z.queue)
        /\ NoneOf("read", x.queue) => NoneOf("read", z.queue)
        /\ OneOf("read", x.queue) => IF Head(x.queue) = "read" THEN NoneOf("read", z.queue)
                                                               ELSE OneOf("read", z.queue)
    BY <1>1, <2>3, TailKinds
  <2>5. /\ Plain(z) /\ z.unsent = x.unsent
        /\ NotAsked(x) => NotAsked(z)
        /\ Asked(x) => Asked(z)
        /\ Due(x) /\ Head(x.queue) # "read" => Due(z)
        /\ Due(x) /\ Head(x.queue) = "read" => NotAsked(z)
    BY <2>3, <2>4 DEF Plain, NotAsked, Asked, Due
  <2> QED
    BY <2>2, <2>5
<1> QED
  BY <1>3, <1>4
=============================================================================
