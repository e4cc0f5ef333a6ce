------------------------------ MODULE LogStream ------------------------------
(***************************************************************************)
(* One request for the log of a pod: streamPodLogs of                      *)
(* internal/ui/server.go, which follows the log over a WebSocket, and      *)
(* getPodLogs, which copies its last lines into an HTTP answer.  A pod     *)
(* writes while it runs, the connection to the API server may break, and   *)
(* the client may leave.                                                   *)
(*                                                                         *)
(* The log is a number of pieces, known by their positions; a Read returns *)
(* as many as it likes up to the size of the buffer, and may return the    *)
(* last ones together with the end or an error.                            *)
(***************************************************************************)
EXTENDS Integers, Sequences

CONSTANTS
  BufSize,   \* the buffer given to Read
  TailLines, \* TailLines of getPodLogs
  MaxLog     \* bound: the length of the log

ASSUME SizesAssumption == BufSize \in Nat \ {0} /\ TailLines \in Nat /\ MaxLog \in Nat

VARIABLES
  mode,     \* "follow" for streamPodLogs, "copy" for getPodLogs
  log,      \* how much the pod has written
  pod,      \* "running" or "ended"
  link,     \* the stream from the API server: "fine" or "broken"
  client,   \* "there"; "left", writes vanish; "gone", writes fail
  pc,       \* the handler: "open", "read", "got", "done"
  from, at, \* where the answer starts in the log, and how far it is read
  until,    \* where a copy ends
  buf,      \* the buffer: positions, 0 for none yet
  last,     \* what the last Read returned
  got,      \* the positions that reached the client
  told      \* an error message did

outside == <<log, pod, link, client>>
vars    == <<mode, log, pod, link, client, pc, from, at, until, buf, last, got, told>>

Upto(a, b)  == IF a < b THEN a ELSE b
FirstOf(n)  == SubSeq(buf, 1, n)

-----------------------------------------------------------------------------
(* The handler *)

(* There is no stream, and an error is told, when the environment, its     *)
(* Status.ActiveNamespace, the pod or the client of Kubernetes is missing. *)
Open ==
  /\ pc = "open"
  /\ from' = IF mode = "follow" \/ log < TailLines THEN 0 ELSE log - TailLines
  /\ at' = from' /\ until' = log
  /\ \/ pc' = "read" /\ UNCHANGED told
     \/ pc' = "done" /\ told' = (client = "there")
  /\ UNCHANGED <<mode, outside, buf, last, got>>

Ready == (IF mode = "follow" THEN log ELSE until) - at

EndsAt(p) == IF mode = "follow" THEN pod = "ended" /\ p = log ELSE p = until

(* The client's departure cancels the context of an HTTP request, but not  *)
(* that of a connection that became a WebSocket.                           *)
Fails == link = "broken" \/ (mode = "copy" /\ client = "gone")

(* A Read blocks while there is nothing to return.  Its n bytes replace    *)
(* the first n of the buffer.                                              *)
Read ==
  /\ pc = "read"
  /\ \E n \in 0 .. Upto(Ready, BufSize), err \in {"none", "EOF", "error"} :
       /\ err = "none"  => n > 0
       /\ err = "EOF"   => EndsAt(at + n)
       /\ err = "error" => Fails
       /\ last' = [n |-> n, err |-> err]
       /\ at' = at + n
       /\ buf' = [i \in 1 .. BufSize |-> IF i <= n THEN at + i ELSE buf[i]]
  /\ pc' = "got"
  /\ UNCHANGED <<mode, outside, from, until, got, told>>

Send(bytes) == got' = IF client = "there" THEN got \o bytes ELSE got

(* WriteMessage of buf[:n]: a message to a client that left is an error    *)
(* only once that is known. *)
MutWriteBuffer ==
  /\ Send(buf)
  /\ pc' = IF client = "gone" THEN "done" ELSE "read"
Write ==
  /\ Send(FirstOf(last.n))
  /\ pc' = IF client = "gone" THEN "done" ELSE "read"

(* The loop of streamPodLogs: an error ends it before the bytes that came  *)
(* with it are looked at.                                                  *)
MutShortReadEnds ==
  /\ pc = "got" /\ mode = "follow"
  /\ IF last.n < BufSize \/ last.err # "none"
       THEN /\ pc' = "done" /\ UNCHANGED got
            /\ told' = (last.err = "error" /\ client = "there")
       ELSE Write /\ UNCHANGED told
  /\ UNCHANGED <<mode, outside, from, at, until, buf, last>>
MutReadOn ==
  /\ pc = "got" /\ mode = "follow"
  /\ IF last.err = "error" THEN pc' = "done" /\ told' = (client = "there") /\ UNCHANGED got
                           ELSE Write /\ UNCHANGED told
  /\ UNCHANGED <<mode, outside, from, at, until, buf, last>>
MutEndSilently ==
  /\ pc = "got" /\ mode = "follow"
  /\ IF last.err # "none" THEN pc' = "done" /\ UNCHANGED got ELSE Write
  /\ UNCHANGED <<mode, outside, from, at, until, buf, last, told>>
Follow ==
  /\ pc = "got" /\ mode = "follow"
  /\ IF last.err # "none"
       THEN /\ pc' = "done" /\ UNCHANGED got
            /\ told' = (last.err = "error" /\ client = "there")
       ELSE Write /\ UNCHANGED told
  /\ UNCHANGED <<mode, outside, from, at, until, buf, last>>

(* io.Copy writes the bytes first; its errors are ignored. *)
MutCopyOn ==
  /\ pc = "got" /\ mode = "copy"
  /\ Send(FirstOf(last.n)) /\ pc' = "read"
  /\ UNCHANGED <<mode, outside, from, at, until, buf, last, told>>
Copy ==
  /\ pc = "got" /\ mode = "copy"
  /\ Send(FirstOf(last.n))
  /\ pc' = IF last.err # "none" \/ client = "gone" THEN "done" ELSE "read"
  /\ UNCHANGED <<mode, outside, from, at, until, buf, last, told>>

Handler == Open \/ Read \/ Follow \/ Copy

-----------------------------------------------------------------------------
(* The surroundings *)

inside == <<mode, pc, from, at, until, buf, last, got, told>>

PodWrites   == /\ pod = "running" /\ log < MaxLog /\ log' = log + 1
               /\ UNCHANGED <<inside, pod, link, client>>
PodEnds     == /\ pod = "running" /\ pod' = "ended"
               /\ UNCHANGED <<inside, log, link, client>>
LinkBreaks  == /\ link = "fine" /\ link' = "broken"
               /\ UNCHANGED <<inside, log, pod, client>>
ClientLeaves == /\ client = "there" /\ client' = "left"
                /\ UNCHANGED <<inside, log, pod, link>>
ClientGone  == /\ client = "left" /\ client' = "gone"
               /\ UNCHANGED <<inside, log, pod, link>>

Init ==
  /\ mode \in {"follow", "copy"}
  /\ log \in 0 .. MaxLog /\ pod \in {"running", "ended"} /\ link = "fine" /\ client = "there"
  /\ pc = "open" /\ from = 0 /\ at = 0 /\ until = 0
  /\ buf = [i \in 1 .. BufSize |-> 0]
  /\ last = [n |-> 0, err |-> "none"]
  /\ got = << >> /\ told = FALSE

Next == Handler \/ PodWrites \/ PodEnds \/ LinkBreaks \/ ClientLeaves \/ ClientGone

Spec == Init /\ [][Next]_vars

(* The goroutine of the handler runs; a departure is noticed in the end.   *)
FairSpec == Spec /\ WF_vars(Handler) /\ WF_vars(ClientGone)

-----------------------------------------------------------------------------
(* Properties *)

(* Every variable has its type. *)
TypeOK ==
  /\ mode \in {"follow", "copy"} /\ log \in 0 .. MaxLog /\ pod \in {"running", "ended"}
  /\ link \in {"fine", "broken"} /\ client \in {"there", "left", "gone"}
  /\ pc \in {"open", "read", "got", "done"}
  /\ {from, at, until} \subseteq 0 .. MaxLog /\ at - from >= last.n
  /\ buf \in [1 .. BufSize -> 0 .. MaxLog]
  /\ last \in [n: 0 .. BufSize, err: {"none", "EOF", "error"}]
  /\ got \in Seq(1 .. MaxLog) /\ told \in BOOLEAN

(* What reaches the client is a piece of the log without gaps,             *)
(* repetitions or leftovers of the buffer, however the reads are cut.      *)
InOrder == \A i \in DOMAIN got : got[i] = from + i

EndedWell == pc = "done" /\ client = "there" /\ link = "fine" /\ ~told

(* A client that stays to the end gets everything that is asked for, and   *)
(* of a followed log at least what was there before the last Read: that is *)
(* all that the early break can lose.                                      *)
TailDelivered ==
  EndedWell => IF mode = "copy" THEN Len(got) = until - from
                                ELSE log - Len(got) \in 0 .. BufSize /\ Len(got) >= at - last.n

(* A client that stays sees a followed log end without an error message    *)
(* only when the pod has ended.                                            *)
EndIsExplained ==
  pc = "done" /\ mode = "follow" /\ client = "there" => told \/ pod = "ended"

(* The handler of a pod that ended does not stay behind, whether or not    *)
(* somebody is still there to be answered.                                 *)
EndsWithPod == pod = "ended" ~> pc = "done"

(* Nor does the handler of a copy whose client went away.  (Nothing like   *)
(* it holds of a followed log: while the pod is silent the departure is    *)
(* not noticed.)                                                           *)
CopyEndsWithClient == (mode = "copy" /\ client = "gone") ~> pc = "done"
=============================================================================
