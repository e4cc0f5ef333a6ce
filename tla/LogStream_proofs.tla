--------------------------- MODULE LogStream_proofs ---------------------------
(* Proofs about LogStream, for any size of the buffer, any number of tail  *)
(* lines and a log of any length.                                          *)
EXTENDS LogStream, SequenceTheorems, TLAPS

-----------------------------------------------------------------------------
(* The inductive invariant *)

(* Nothing was read before the stream is open, and the loop comes back to  *)
(* the next Read only without an error.                                    *)
Begins ==
  /\ pc = "open" => at = from /\ last.n = 0 /\ last.err = "none" /\ got = << >>
  /\ pc = "read" => last.err = "none"

(* The handler is never ahead of what there is to read. *)
Bounds ==
  /\ from <= at /\ at <= log /\ until <= log
  /\ mode = "copy" => at <= until
  /\ mode = "follow" => from = 0

(* The first bytes of the buffer are those of the last Read. *)
InBuffer == pc = "got" => \A i \in 1 .. last.n : buf[i] = at - last.n + i

(* A client that is still there got all that was read, except for what the *)
(* last Read returned, while it is not written yet or never will be.       *)
Delivered ==
  client = "there" =>
    Len(got) = at - from - (IF pc = "got" \/ (pc = "done" /\ mode = "follow") THEN last.n ELSE 0)

(* What the last Read returned besides the bytes was true and stays so. *)
ReadEnds ==
  /\ last.err = "EOF" => IF mode = "follow" THEN pod = "ended" /\ at = log ELSE at = until
  /\ last.err = "error" => link = "broken" \/ client = "gone"

(* Before a client that is still there the handler stops for a reason. *)
Stops ==
  pc = "done" /\ client = "there" => told \/ last.err = "EOF" \/ (mode = "copy" /\ last.err = "error")

StreamInv ==
  TypeOK /\ Begins /\ Bounds /\ InBuffer /\ Delivered /\ ReadEnds /\ Stops /\ InOrder

-----------------------------------------------------------------------------
(* The operators *)

Errs    == {"none", "EOF", "error"}
Results == [n: 0 .. BufSize, err: Errs]

(* The types, with the numbers of the state among the integers. *)
LEMMA Types ==
  TypeOK <=> /\ mode \in {"follow", "copy"} /\ log \in 0 .. MaxLog /\ pod \in {"running", "ended"}
             /\ link \in {"fine", "broken"} /\ client \in {"there", "left", "gone"}
             /\ pc \in {"open", "read", "got", "done"}
             /\ from \in 0 .. MaxLog /\ at \in 0 .. MaxLog /\ until \in 0 .. MaxLog
             /\ at - from >= last.n /\ buf \in [1 .. BufSize -> 0 .. MaxLog]
             /\ last \in Results /\ got \in Seq(1 .. MaxLog) /\ told \in BOOLEAN
BY DEF TypeOK, Results, Errs

(* The same after a step. *)
LEMMA NextTypes ==
  TypeOK' <=> /\ mode' \in {"follow", "copy"} /\ log' \in 0 .. MaxLog /\ pod' \in {"running", "ended"}
              /\ link' \in {"fine", "broken"} /\ client' \in {"there", "left", "gone"}
              /\ pc' \in {"open", "read", "got", "done"}
              /\ from' \in 0 .. MaxLog /\ at' \in 0 .. MaxLog /\ until' \in 0 .. MaxLog
              /\ at' - from' >= last'.n /\ buf' \in [1 .. BufSize -> 0 .. MaxLog]
              /\ last' \in Results /\ got' \in Seq(1 .. MaxLog) /\ told' \in BOOLEAN
BY DEF TypeOK, Results, Errs

(* A Read returns no more than there is and than the buffer holds. *)
LEMMA ReadSize ==
  ASSUME TypeOK, NEW n \in 0 .. Upto(Ready, BufSize)
  PROVE  /\ n \in 0 .. BufSize
         /\ mode = "follow" /\ at <= log => at + n <= log
         /\ mode = "copy" /\ at <= until => at + n <= until
<1>1. at \in Int /\ log \in Int /\ until \in Int /\ BufSize \in Int /\ Ready \in Int
  BY SizesAssumption, Types DEF Ready
<1>2. n \in Int /\ 0 <= n /\ n <= Ready /\ n <= BufSize
  BY <1>1 DEF Upto
<1> QED
  BY <1>1, <1>2 DEF Ready

(* The pieces that are written are the next ones of the log, so what the   *)
(* client got stays in order and reaches to where the handler has read.    *)
LEMMA Written ==
  ASSUME StreamInv, pc = "got", client = "there"
  PROVE  LET now == got \o FirstOf(last.n)
         IN  /\ now \in Seq(1 .. MaxLog) /\ Len(now) = at - from
             /\ \A i \in DOMAIN now : now[i] = from + i
<1> DEFINE piece == FirstOf(last.n)
           now   == got \o piece
<1>1. /\ last.n \in 0 .. BufSize /\ at \in 0 .. MaxLog /\ from \in 0 .. MaxLog /\ MaxLog \in Nat /\ BufSize \in Nat
      /\ got \in Seq(1 .. MaxLog) /\ at - from >= last.n
  BY SizesAssumption, Types DEF StreamInv, Results
<1>2. \A i \in 1 .. last.n : buf[i] = at - last.n + i /\ buf[i] \in 1 .. MaxLog
  BY <1>1 DEF StreamInv, InBuffer
<1>3. /\ piece \in Seq(1 .. MaxLog) /\ Len(piece) = last.n
      /\ \A i \in 1 .. last.n : piece[i] = at - last.n + i
  BY <1>1, <1>2, SubSeqProperties DEF FirstOf
<1>4. Len(got) = at - from - last.n /\ DOMAIN got = 1 .. Len(got)
  BY <1>1, LenProperties DEF StreamInv, Delivered
<1>5. \A i \in 1 .. Len(got) : got[i] = from + i
  BY <1>4 DEF StreamInv, InOrder
<1> HIDE DEF piece
<1>6. /\ now \in Seq(1 .. MaxLog) /\ Len(now) = at - from
      /\ \A i \in 1 .. Len(got) + Len(piece) : now[i] = IF i <= Len(got) THEN got[i] ELSE piece[i - Len(got)]
  <2>1. Len(got) + Len(piece) = at - from
    BY <1>1, <1>3, <1>4
  <2> QED
    BY <1>1, <1>3, <2>1, ConcatProperties
<1>7. DOMAIN now = 1 .. at - from
  BY <1>6, LenProperties
<1>8. ASSUME NEW i \in 1 .. at - from PROVE now[i] = from + i
  <2>1. now[i] = IF i <= Len(got) THEN got[i] ELSE piece[i - Len(got)]
    BY <1>1, <1>3, <1>4, <1>6
  <2>2. CASE i <= Len(got)
    BY <1>1, <1>4, <1>5, <2>1, <2>2
  <2>3. CASE ~(i <= Len(got))
    <3>1. i - Len(got) \in 1 .. last.n
      BY <1>1, <1>4, <2>3
    <3>2. piece[i - Len(got)] = at - last.n + (i - Len(got))
      BY <1>3, <3>1
    <3> QED
      BY <1>1, <1>4, <2>1, <2>3, <3>2
  <2> QED
    BY <2>2, <2>3
<1> QED
  BY <1>6, <1>7, <1>8 DEF piece

-----------------------------------------------------------------------------
(* The steps of the handler *)

(* The opening of the stream keeps the invariant: a copy starts no more    *)
(* than the tail before the end of the log, and not before its beginning.  *)
LEMMA OpenStep == StreamInv /\ Open => StreamInv'
<1> SUFFICES ASSUME StreamInv, Open PROVE StreamInv'
  OBVIOUS
<1>1. /\ TypeOK /\ last.n = 0 /\ got = << >> /\ log \in 0 .. MaxLog /\ TailLines \in Nat /\ MaxLog \in Nat
      /\ pc = "open" /\ UNCHANGED <<mode, log, pod, link, client, buf, last, got>>
      /\ from' = (IF mode = "follow" \/ log < TailLines THEN 0 ELSE log - TailLines)
      /\ at' = from' /\ until' = log /\ mode \in {"follow", "copy"}
  BY SizesAssumption, Types DEF StreamInv, Begins, Open, outside
<1>2. from' \in 0 .. MaxLog /\ from' <= log /\ (mode = "follow" => from' = 0)
  BY <1>1
<1>3. \/ pc' = "read" /\ told' = told
      \/ pc' = "done" /\ told' = (client = "there")
  BY Zenon DEF Open
<1>4. TypeOK'
  <2>1. told' \in BOOLEAN /\ pc' \in {"open", "read", "got", "done"}
    BY <1>1, <1>3, Zenon, Types
  <2>2. at' - from' >= last'.n /\ at' \in 0 .. MaxLog /\ until' \in 0 .. MaxLog
    BY <1>1, <1>2
  <2>3. /\ link' \in {"fine", "broken"} /\ client' \in {"there", "left", "gone"} /\ pod' \in {"running", "ended"}
        /\ buf' \in [1 .. BufSize -> 0 .. MaxLog] /\ last' \in Results /\ got' \in Seq(1 .. MaxLog)
    BY <1>1, Types
  <2> QED
    BY <1>1, <1>2, <2>1, <2>2, <2>3, NextTypes
<1>5. last.err = "none"
  BY DEF StreamInv, Begins, Open
<1>6. Begins' /\ InBuffer' /\ InOrder'
  BY <1>1, <1>3, <1>5 DEF StreamInv, Begins, InBuffer, InOrder
<1>7. Bounds'
  BY <1>1, <1>2 DEF Bounds
<1>8. Delivered'
  BY <1>1, <1>2, <1>3 DEF Delivered
<1>9. ReadEnds' /\ Stops'
  BY <1>1, <1>3, <1>5 DEF ReadEnds, Stops
<1> QED
  BY <1>4, <1>6, <1>7, <1>8, <1>9 DEF StreamInv

(* So does a Read, which puts the next pieces into the buffer. *)
LEMMA ReadStep == StreamInv /\ Read => StreamInv'
<1> SUFFICES ASSUME StreamInv, Read PROVE StreamInv'
  OBVIOUS
<1>0. /\ TypeOK /\ pc = "read" /\ pc' = "got" /\ MaxLog \in Nat /\ BufSize \in Nat
      /\ UNCHANGED <<mode, log, pod, link, client, from, until, got, told>>
      /\ log \in 0 .. MaxLog /\ at \in 0 .. MaxLog /\ from \in 0 .. MaxLog /\ until \in 0 .. MaxLog
      /\ mode \in {"follow", "copy"} /\ from <= at /\ at <= log /\ until <= log
      /\ (mode = "copy" => at <= until)
  BY SizesAssumption, Types DEF StreamInv, Bounds, Read, outside
<1>1. PICK n \in 0 .. Upto(Ready, BufSize), err \in Errs :
        /\ err = "EOF"   => EndsAt(at + n)
        /\ err = "error" => Fails
        /\ last' = [n |-> n, err |-> err]
        /\ at' = at + n
        /\ buf' = [i \in 1 .. BufSize |-> IF i <= n THEN at + i ELSE buf[i]]
  BY DEF Read, Errs
<1>2. n \in 0 .. BufSize /\ at + n <= log /\ (mode = "copy" => at + n <= until)
  BY <1>0, ReadSize
<1>3. last'.n = n /\ last'.err = err /\ last' \in Results
  BY <1>1, <1>2 DEF Results
<1>4. TypeOK'
  <2>1. buf' \in [1 .. BufSize -> 0 .. MaxLog]
    <3>1. \A i \in 1 .. BufSize : i <= n => at + i \in 0 .. MaxLog
      BY <1>0, <1>2
    <3>2. buf \in [1 .. BufSize -> 0 .. MaxLog]
      BY <1>0, Types
    <3> QED
      BY <1>1, <3>1, <3>2
  <2>2. at' \in 0 .. MaxLog /\ at' - from' >= last'.n
    BY <1>0, <1>1, <1>2, <1>3
  <2> QED
    BY <1>0, <1>3, <2>1, <2>2, Types, NextTypes
<1>5. Begins' /\ InOrder' /\ Stops'
  BY <1>0 DEF StreamInv, Begins, InOrder, Stops
<1>6. Bounds'
  BY <1>0, <1>1, <1>2 DEF StreamInv, Bounds
<1>7. InBuffer'
  <2>1. \A i \in 1 .. n : buf'[i] = at + i
    BY <1>0, <1>1, <1>2
  <2> QED
    BY <1>0, <1>1, <1>2, <1>3, <2>1 DEF InBuffer
<1>8. Delivered'
  <2>1. client = "there" => Len(got) = at - from
    BY <1>0 DEF StreamInv, Delivered
  <2> QED
    BY <1>0, <1>1, <1>2, <1>3, <2>1 DEF Delivered
<1>9. ReadEnds'
  BY <1>0, <1>1, <1>3 DEF ReadEnds, EndsAt, Fails
<1> QED
  BY <1>4, <1>5, <1>6, <1>7, <1>8, <1>9 DEF StreamInv

(* After a step that hands over what the last Read returned the client has *)
(* a longer beginning of the answer, or what it had.                       *)
LEMMA SendEffect ==
  ASSUME StreamInv, pc = "got", Send(FirstOf(last.n)), UNCHANGED <<from, at, client>>
  PROVE  /\ got' \in Seq(1 .. MaxLog) /\ InOrder'
         /\ client = "there" => Len(got') = at - from
<1>1. CASE client = "there"
  <2>1. got' = got \o FirstOf(last.n)
    BY <1>1 DEF Send
  <2> QED
    BY <1>1, <2>1, Written DEF InOrder
<1>2. CASE client # "there"
  <2>1. got' = got
    BY <1>2 DEF Send
  <2> QED
    BY <1>2, <2>1, Types DEF StreamInv, InOrder
<1> QED
  BY <1>1, <1>2

(* The rest of the invariant is kept by every step that only hands over    *)
(* what was read and goes on or stops for a reason.                        *)
LEMMA HandOver ==
  ASSUME StreamInv, pc = "got", UNCHANGED <<mode, log, pod, link, client, from, at, until, buf, last>>,
         pc' \in {"read", "done"}, pc' = "read" => last.err = "none",
         told' \in BOOLEAN, got' \in Seq(1 .. MaxLog), InOrder', Delivered', Stops'
  PROVE  StreamInv'
<1>1. TypeOK'
  BY Types, NextTypes DEF StreamInv
<1>2. Begins' /\ InBuffer'
  BY DEF StreamInv, Begins, InBuffer
<1>3. Bounds' /\ ReadEnds'
  BY DEF StreamInv, Bounds, ReadEnds
<1> QED
  BY <1>1, <1>2, <1>3 DEF StreamInv

(* The loop of a followed log keeps the invariant: it stops at an error or *)
(* the end without writing, and at a client that is gone.                  *)
LEMMA FollowStep == StreamInv /\ Follow => StreamInv'
<1> SUFFICES ASSUME StreamInv, Follow PROVE StreamInv'
  OBVIOUS
<1>0. /\ TypeOK /\ pc = "got" /\ mode = "follow"
      /\ UNCHANGED <<mode, log, pod, link, client, from, at, until, buf, last>>
      /\ last.n \in 0 .. BufSize /\ last.err \in Errs /\ got \in Seq(1 .. MaxLog) /\ told \in BOOLEAN
  BY Types DEF StreamInv, Follow, outside, Results
<1>1. CASE last.err # "none"
  <2>1. pc' = "done" /\ got' = got /\ told' = (last.err = "error" /\ client = "there")
    BY <1>1 DEF Follow
  <2>2. InOrder' /\ Delivered'
    BY <1>0, <2>1 DEF StreamInv, InOrder, Delivered
  <2>3. Stops'
    BY <1>0, <1>1, <2>1 DEF Stops, Errs
  <2>4. told' \in BOOLEAN /\ pc' \in {"read", "done"} /\ pc' # "read"
    BY <2>1
  <2> QED
    BY <1>0, <2>1, <2>2, <2>3, <2>4, HandOver
<1>2. CASE last.err = "none"
  <2>1. Send(FirstOf(last.n)) /\ pc' = (IF client = "gone" THEN "done" ELSE "read") /\ told' = told
    BY <1>2 DEF Follow, Write
  <2>2. got' \in Seq(1 .. MaxLog) /\ InOrder' /\ (client = "there" => Len(got') = at - from)
    BY <1>0, <2>1, SendEffect
  <2>3. at - from \in Int
    BY <1>0, Types
  <2>4. Delivered' /\ Stops'
    BY <1>0, <2>1, <2>2, <2>3 DEF Delivered, Stops
  <2> QED
    BY <1>0, <1>2, <2>1, <2>2, <2>4, HandOver
<1> QED
  BY <1>1, <1>2

(* So does io.Copy, which writes first. *)
LEMMA CopyStep == StreamInv /\ Copy => StreamInv'
<1> SUFFICES ASSUME StreamInv, Copy PROVE StreamInv'
  OBVIOUS
<1>0. /\ TypeOK /\ pc = "got" /\ mode = "copy"
      /\ UNCHANGED <<mode, log, pod, link, client, from, at, until, buf, last, told>>
      /\ Send(FirstOf(last.n)) /\ last.err \in Errs /\ told \in BOOLEAN
      /\ pc' = (IF last.err # "none" \/ client = "gone" THEN "done" ELSE "read")
  BY Types DEF StreamInv, Copy, outside, Results
<1>1. got' \in Seq(1 .. MaxLog) /\ InOrder' /\ (client = "there" => Len(got') = at - from)
  BY <1>0, SendEffect
<1>2. at - from \in Int
  BY <1>0, Types
<1>3. Delivered'
  BY <1>0, <1>1, <1>2 DEF Delivered
<1>4. Stops'
  BY <1>0 DEF Stops, Errs
<1> QED
  BY <1>0, <1>1, <1>3, <1>4, HandOver

-----------------------------------------------------------------------------
(* The steps of the surroundings *)

(* The pod, the connection and the client keep the invariant: a pod that   *)
(* ended writes no more, and a client that left does not come back.        *)
LEMMA OutsideStep ==
  StreamInv /\ (PodWrites \/ PodEnds \/ LinkBreaks \/ ClientLeaves \/ ClientGone) => StreamInv'
<1> SUFFICES ASSUME StreamInv, PodWrites \/ PodEnds \/ LinkBreaks \/ ClientLeaves \/ ClientGone PROVE StreamInv'
  OBVIOUS
<1>0. /\ TypeOK /\ log \in 0 .. MaxLog /\ MaxLog \in Nat /\ at \in 0 .. MaxLog /\ until \in 0 .. MaxLog
      /\ UNCHANGED <<mode, pc, from, at, until, buf, last, got, told>>
  BY SizesAssumption, Types DEF StreamInv, PodWrites, PodEnds, LinkBreaks, ClientLeaves, ClientGone, inside
<1>1. /\ log' \in 0 .. MaxLog /\ log <= log' /\ (log' # log => pod = "running" /\ pod' = "running")
      /\ (pod' = pod \/ pod' = "ended") /\ (link' = link \/ link' = "broken")
      /\ \/ client' = client
         \/ client = "there" /\ client' = "left"
         \/ client = "left" /\ client' = "gone"
  <2>1. CASE PodWrites
    BY <1>0, <2>1 DEF PodWrites
  <2>2. CASE PodEnds
    BY <1>0, <2>2 DEF PodEnds
  <2>3. CASE LinkBreaks
    BY <1>0, <2>3 DEF LinkBreaks
  <2>4. CASE ClientLeaves
    BY <1>0, <2>4 DEF ClientLeaves
  <2>5. CASE ClientGone
    BY <1>0, <2>5 DEF ClientGone
  <2> QED
    BY <2>1, <2>2, <2>3, <2>4, <2>5
<1>2. TypeOK'
  BY <1>0, <1>1, Types, NextTypes
<1>3. Begins' /\ InBuffer' /\ InOrder' /\ Stops'
  BY <1>0, <1>1 DEF StreamInv, Begins, InBuffer, InOrder, Stops
<1>4. Bounds'
  BY <1>0, <1>1 DEF StreamInv, Bounds
<1>5. Delivered'
  BY <1>0, <1>1 DEF StreamInv, Delivered
<1>6. ReadEnds'
  BY <1>0, <1>1 DEF StreamInv, ReadEnds
<1> QED
  BY <1>2, <1>3, <1>4, <1>5, <1>6 DEF StreamInv

-----------------------------------------------------------------------------
(* The properties *)

(* The invariant holds of every behaviour. *)
THEOREM StreamCorrect == Spec => []StreamInv
<1>1. Init => StreamInv
  <2> SUFFICES ASSUME Init PROVE StreamInv
    OBVIOUS
  <2>1. /\ log \in 0 .. MaxLog /\ MaxLog \in Nat /\ BufSize \in Nat /\ last.n = 0 /\ last.err = "none"
        /\ last \in Results /\ got = << >> /\ at = 0 /\ from = 0 /\ until = 0 /\ pc = "open"
    BY SizesAssumption DEF Init, Results, Errs
  <2>2. TypeOK
    <3>1. buf \in [1 .. BufSize -> 0 .. MaxLog] /\ got \in Seq(1 .. MaxLog)
      BY <2>1, EmptySeq DEF Init
    <3>2. {from, at, until} \subseteq 0 .. MaxLog /\ at - from >= last.n
      BY <2>1
    <3> QED
      BY <2>1, <3>1, <3>2, Types DEF Init
  <2>3. Begins /\ Bounds /\ InBuffer /\ Delivered /\ ReadEnds /\ Stops
    BY <2>1 DEF Begins, Bounds, InBuffer, Delivered, ReadEnds, Stops
  <2>4. InOrder
    BY <2>1 DEF InOrder
  <2> QED
    BY <2>2, <2>3, <2>4 DEF StreamInv
<1>2. StreamInv /\ [Next]_vars => StreamInv'
  <2> SUFFICES ASSUME StreamInv, [Next]_vars PROVE StreamInv'
    OBVIOUS
  <2>1. CASE UNCHANGED vars
    <3>1. TypeOK'
      BY <2>1, Types, NextTypes DEF StreamInv, vars, outside
    <3>2. (Begins /\ Bounds /\ InBuffer /\ Delivered /\ ReadEnds /\ Stops /\ InOrder)'
      BY <2>1 DEF StreamInv, Begins, Bounds, InBuffer, Delivered, ReadEnds, Stops, InOrder, vars, outside
    <3> QED
      BY <3>1, <3>2 DEF StreamInv
  <2> QED
    BY <2>1, OpenStep, ReadStep, FollowStep, CopyStep, OutsideStep DEF Next, Handler
<1> QED
  BY <1>1, <1>2, PTL DEF Spec

(* Every variable keeps its type; in particular no Read goes past the log. *)
THEOREM StreamTypeCorrect == Spec => []TypeOK
<1>1. StreamInv => TypeOK
  BY DEF StreamInv
<1> QED
  BY <1>1, StreamCorrect, PTL

(* What reaches the client is a piece of the log without gaps, repetitions *)
(* or leftovers of the buffer, for every way of cutting the log into       *)
(* reads.                                                                  *)
THEOREM LogInOrder == Spec => []InOrder
<1>1. StreamInv => InOrder
  BY DEF StreamInv
<1> QED
  BY <1>1, StreamCorrect, PTL

(* A client that stays gets the whole copy, or of a followed log all but   *)
(* what came together with the end, which is at most one buffer.           *)
THEOREM LogDelivered == Spec => []TailDelivered
<1>1. StreamInv => TailDelivered
  <2> SUFFICES ASSUME StreamInv, EndedWell
               PROVE  IF mode = "copy" THEN Len(got) = until - from
                                       ELSE log - Len(got) \in 0 .. BufSize /\ Len(got) >= at - last.n
    BY DEF TailDelivered
  <2>1. pc = "done" /\ client = "there" /\ link = "fine" /\ told = FALSE
    BY Types DEF StreamInv, EndedWell
  <2>2. last.err = "EOF"
    BY <2>1 DEF StreamInv, Stops, ReadEnds
  <2>3. /\ log \in Int /\ at \in Int /\ from \in Int /\ until \in Int /\ last.n \in 0 .. BufSize /\ BufSize \in Nat
        /\ mode \in {"follow", "copy"}
    BY SizesAssumption, Types DEF StreamInv, Results
  <2>4. CASE mode = "copy"
    <3>1. at = until /\ Len(got) = at - from - 0
      BY <2>1, <2>2, <2>4 DEF StreamInv, ReadEnds, Delivered
    <3> QED
      BY <2>3, <2>4, <3>1
  <2>5. CASE mode = "follow"
    <3>1. at = log /\ Len(got) = at - from - last.n /\ from = 0
      BY <2>1, <2>2, <2>5 DEF StreamInv, ReadEnds, Delivered, Bounds
    <3> QED
      BY <2>3, <2>5, <3>1
  <2> QED
    BY <2>3, <2>4, <2>5
<1> QED
  BY <1>1, StreamCorrect, PTL

(* A client that stays is told, or the pod has ended. *)
THEOREM LogEndExplained == Spec => []EndIsExplained
<1>1. StreamInv => EndIsExplained
  BY DEF StreamInv, EndIsExplained, Stops, ReadEnds
<1> QED
  BY <1>1, StreamCorrect, PTL
=============================================================================
