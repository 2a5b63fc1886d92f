------------------------- MODULE ValvulaReaderProofs -------------------------
(***************************************************************************)
(* Proofs about ValvulaReader for any number of connections, workers and   *)
(* request objects.                                                        *)
(***************************************************************************)
EXTENDS ValvulaReader, FiniteSetTheorems, SequenceTheorems, TLAPS

-----------------------------------------------------------------------------
(* The inductive invariant.                                                 *)

\* Where the reader is tells what it has in its hands.
ReaderShape ==
    /\ cur = NULL <=> rpc \in {"wait", "accept", "pass"}
    /\ cur # NULL => cur \in conn_list /\ cur \notin todo
    /\ todo \subseteq conn_list
    /\ rpc = "wait" => todo = {}
    /\ \A c \in todo : input[c] # <<>>
    /\ rpc = "recv" => input[cur] # <<>>

\* Where a worker is tells what it has in its hands.
WorkerShape ==
    /\ \A w \in Workers : wconn[w] = NULL <=> wpc[w] \in {"idle", "free"}
    /\ \A w \in Workers : wpc[w] \in {"idle", "take"} => wreq[w] = NULL
    /\ \A w \in Workers : wpc[w] \in {"reply", "unref", "free"} => wreq[w] # NULL

\* A connection nobody accepted yet has no holder.
Unborn ==
    \A c \in Conns : client[c] \in {"absent", "connecting"} => ref_count[c] = 0

RefInv == TypeOK /\ ReaderShape /\ WorkerShape /\ Unborn /\ RefsAreHolders

\* The launches of OneLaunch, one pair of claims at a time.
InReader(c) == rpc \in {"ref", "task"} /\ cur = c
LaunchInv ==
    \A c \in Conns :
        /\ queued[c] <= 1
        /\ queued[c] = 1 => process_launched[c] /\ ~ InReader(c)
        /\ InReader(c) => process_launched[c]
        /\ \A w \in Workers : Claiming(w, c) =>
              /\ process_launched[c]
              /\ queued[c] = 0
              /\ ~ InReader(c)
        /\ \A v, w \in Workers : Claiming(v, c) /\ Claiming(w, c) => v = w

\* The objects connections point to are in use, and by one connection each.
RequestInv ==
    /\ \A c \in Conns : request[c] # NULL => request[c] \in heap
    /\ \A c, d \in Conns : request[c] = request[d] /\ request[c] # NULL => c = d

IInv == RefInv /\ LaunchInv /\ RequestInv /\ OneOwner

-----------------------------------------------------------------------------
(* Every action preserves the types.                                        *)

LEMMA EndedType ==
    ASSUME NEW s \in Seq(Line), s # <<>>, NEW k \in {"attr", "malformed"}
    PROVE  Ended(s, k) \in Seq(Line) /\ Ended(s, k) # <<>>
<1>1. Len(s) \in 1..Len(s) /\ s[Len(s)] \in Line
  BY EmptySeq, ElementOfSeq
<1>2. [kind |-> k, of |-> s[Len(s)].of] \in Line
  BY <1>1 DEF Line
<1>3. Ended(s, k) \in Seq(Line) /\ Len(Ended(s, k)) = Len(s)
  BY <1>1, <1>2, ExceptSeq DEF Ended
<1>4. Len(s) # 0
  BY <1>1
<1> QED
  BY <1>3, <1>4, EmptySeq

\* Client steps append to, or complete, the lines waiting in the client's own socket.
LEMMA ClientStepType ==
    ASSUME TypeOK, NEW c \in Conns, ClientStep(c)
    PROVE  /\ ClientTypeOK'
           /\ \A d \in Conns : input[d] # <<>> => input'[d] # <<>>
<1>1. CASE Connect(c)
  BY <1>1 DEF TypeOK, ClientTypeOK, Connect, ClientElse
<1>2. ASSUME NEW kind \in {"attr", "malformed", "checkserver", "blank", "part"}, Sends(c, kind)
      PROVE  /\ input' \in [Conns -> Seq(Line)]
             /\ \A d \in Conns : input[d] # <<>> => input'[d] # <<>>
  <2> DEFINE l == [kind |-> kind, of |-> sent[c] + 1]
  <2>1. l \in Line
    BY DEF TypeOK, ClientTypeOK, Line
  <2>2. Append(input[c], l) \in Seq(Line) /\ Append(input[c], l) # <<>>
    BY <2>1, AppendProperties DEF TypeOK, ClientTypeOK
  <2> QED
    BY <1>2, <2>2 DEF Sends, TypeOK, ClientTypeOK
<1>3. CASE SendLine(c) \/ SendPart(c)
  BY <1>2, <1>3, ReaderAssumption DEF TypeOK, ClientTypeOK, SendLine, SendPart, ClientElse
<1>4. CASE SendBlank(c)
  BY <1>2, <1>4 DEF TypeOK, ClientTypeOK, SendBlank, ClientElse
<1>5. CASE FinishLine(c)
  <2>1. Ended(input[c], "attr") \in Seq(Line) /\ Ended(input[c], "attr") # <<>>
    BY <1>5, EndedType DEF FinishLine, Unfinished, TypeOK, ClientTypeOK
  <2> QED
    BY <1>5, <2>1 DEF TypeOK, ClientTypeOK, FinishLine, ClientElse
<1>6. CASE Disconnect(c)
  <2> DEFINE eof == [kind |-> "eof", of |-> 0]
  <2>1. PICK cut \in {"attr", "malformed"} :
            LET pending == IF Unfinished(c) THEN Ended(input[c], cut) ELSE input[c]
            IN  input' = IF session[c] = "open"
                         THEN [input EXCEPT ![c] = Append(pending, eof)]
                         ELSE input
    BY <1>6 DEF Disconnect
  <2> DEFINE pending == IF Unfinished(c) THEN Ended(input[c], cut) ELSE input[c]
  <2>2. pending \in Seq(Line)
    BY EndedType DEF Unfinished, TypeOK, ClientTypeOK
  <2>3. eof \in Line
    BY DEF Line
  <2>4. Append(pending, eof) \in Seq(Line) /\ Append(pending, eof) # <<>>
    BY <2>2, <2>3, AppendProperties
  <2> QED
    BY <1>6, <2>1, <2>4 DEF TypeOK, ClientTypeOK, Disconnect, ClientElse
<1> QED
  BY <1>1, <1>3, <1>4, <1>5, <1>6 DEF ClientStep

\* Releasing a reference keeps the types: the count of a holder is not zero.
LEMMA UnrefType ==
    ASSUME TypeOK, NEW c \in Conns, ref_count[c] > 0, Unref(c)
    PROVE  /\ ref_count' \in [Conns -> Nat]
           /\ alive' \in [Conns -> BOOLEAN]
           /\ request' \in [Conns -> Requests \cup {NULL}]
           /\ heap' \subseteq Requests
           /\ content' \in [Requests -> SUBSET (Conns \X Nat)]
<1>1. ref_count' \in [Conns -> Nat]
  BY DEF TypeOK, ConnTypeOK, Unref
<1>2. CASE ref_count[c] = 1
  <2>1. content' = [r \in Requests |-> IF r = request[c] THEN {} ELSE content[r]]
    BY <1>2 DEF Unref
  <2>2. content' \in [Requests -> SUBSET (Conns \X Nat)]
    BY <2>1, Zenon DEF TypeOK, ConnTypeOK
  <2> QED
    BY <1>1, <1>2, <2>2 DEF TypeOK, ConnTypeOK, Unref
<1>3. CASE ref_count[c] # 1
  BY <1>1, <1>3 DEF TypeOK, ConnTypeOK, Unref, heapVars
<1> QED
  BY <1>2, <1>3

\* Facts about the steps of the reader that work on the current connection.
LEMMA CurrentConn ==
    ASSUME TypeOK, ReaderShape, rpc \notin {"wait", "accept", "pass"}
    PROVE  cur \in Conns /\ cur \in conn_list /\ cur \notin todo
BY DEF TypeOK, ReaderTypeOK, ReaderShape

\* What the number of holders says: a connection in the reader's list or in the hands
\* of a worker is not free, and a free one has no holder of any kind.
LEMMA HolderCounts ==
    ASSUME RefInv, NEW c \in Conns
    PROVE  /\ IsFiniteSet(HeldBy(c)) /\ Cardinality(HeldBy(c)) \in Nat
           /\ c \in conn_list => ref_count[c] > 0
           /\ \A w \in HeldBy(c) : ref_count[c] > 0
           /\ ref_count[c] = 0 => /\ c \notin conn_list /\ HeldBy(c) = {} /\ cur # c
                                  /\ queued[c] = 0 /\ dropped[c] = 0
<1>1. IsFiniteSet(HeldBy(c)) /\ Cardinality(HeldBy(c)) \in Nat
  BY FS_Subset, FS_CardinalityType, ReaderAssumption DEF HeldBy
<1>2. Cardinality(HeldBy(c)) = 0 => HeldBy(c) = {}
  BY <1>1, FS_EmptySet
<1>3. ref_count[c] = Holders(c)
  <2>1. RefsAreHolders
    BY DEF RefInv
  <2> QED
    BY <2>1 DEF RefsAreHolders
<1>4. queued[c] \in Nat /\ dropped[c] \in Nat
  BY DEF RefInv, TypeOK, WorkerTypeOK
<1>5. InList(c) \in Nat /\ InTask(c) \in Nat
  BY DEF InList, InTask
<1>6. c \in conn_list => ref_count[c] > 0
  BY <1>1, <1>3, <1>4, <1>5 DEF Holders, InList
<1>7. Cardinality(HeldBy(c)) > 0 => ref_count[c] > 0
  BY <1>1, <1>3, <1>4, <1>5 DEF Holders
<1>8. queued[c] > 0 \/ dropped[c] > 0 => ref_count[c] > 0
  BY <1>1, <1>3, <1>4, <1>5 DEF Holders
<1>9. cur = c => c \in conn_list
  BY ReaderAssumption DEF RefInv, ReaderShape
<1> QED
  BY <1>1, <1>2, <1>4, <1>6, <1>7, <1>8, <1>9

-----------------------------------------------------------------------------
(* Types.                                                                   *)

USE DEF connVars, readerVars, poolVars, workerVars, heapVars, clientVars

LEMMA ReaderStepType ==
    ASSUME RefInv, ReaderStep
    PROVE  TypeOK'
<1>1. ConnTypeOK /\ ReaderTypeOK /\ WorkerTypeOK /\ ClientTypeOK /\ ReaderShape /\ TypeOK
  BY DEF RefInv, TypeOK
<1>2. rpc \notin {"wait", "accept", "pass"} => cur \in Conns
  BY <1>1, CurrentConn
<1>3. ASSUME BackToPass, todo' = todo PROVE ReaderTypeOK'
  BY <1>1, <1>3 DEF BackToPass, NoLine, Line, ReaderTypeOK
<1>4. ASSUME NEW c \in Conns, CloseSession(c)
      PROVE  session' \in [Conns -> {"none", "open", "closed"}] /\ input' \in [Conns -> Seq(Line)]
  BY <1>1, <1>4, EmptySeq DEF CloseSession, ConnTypeOK, ClientTypeOK
<1>5. ASSUME NEW c \in Conns, DropClosed(c) PROVE TypeOK'
  <2>1. ref_count[c] > 0
    BY <1>5, HolderCounts DEF DropClosed
  <2>2. ConnTypeOK'
    BY <1>1, <1>5, <2>1, UnrefType DEF DropClosed, ConnTypeOK
  <2> QED
    BY <1>1, <1>5, <2>2 DEF DropClosed, TypeOK, ReaderTypeOK, WorkerTypeOK, ClientTypeOK
<1>6. ASSUME NEW c \in Conns, Accept(c) PROVE TypeOK'
  <2>1. ConnTypeOK'
    BY <1>1, <1>6 DEF Accept, ConnTypeOK
  <2>2. ClientTypeOK'
    BY <1>1, <1>6 DEF Accept, ClientTypeOK
  <2> QED
    BY <1>1, <1>6, <2>1, <2>2 DEF Accept, TypeOK, ReaderTypeOK, WorkerTypeOK
<1>7. ASSUME NEW c \in Conns, Select(c) PROVE TypeOK'
  <2>1. ReaderTypeOK'
    BY <1>1, <1>7 DEF Select, ReaderTypeOK
  <2> QED
    BY <1>1, <1>7, <2>1 DEF Select, TypeOK, ConnTypeOK, WorkerTypeOK, ClientTypeOK
<1>8. CASE Wait \/ PassDone
  <2>1. ReaderTypeOK'
    BY <1>1, <1>8 DEF Wait, PassDone, Readable, ReaderTypeOK, ConnTypeOK
  <2> QED
    BY <1>1, <1>8, <2>1 DEF Wait, PassDone, TypeOK, ConnTypeOK, WorkerTypeOK, ClientTypeOK
<1>9. CASE Recv
  <2>1. cur \in Conns /\ input[cur] \in Seq(Line) /\ input[cur] # <<>>
    BY <1>1, <1>2, <1>9 DEF Recv, At, ReaderShape, ClientTypeOK
  <2>2. Head(input[cur]) \in Line /\ Tail(input[cur]) \in Seq(Line)
    BY <2>1, HeadTailProperties
  <2>3. ReaderTypeOK'
    <3>1. CASE Head(input[cur]).kind = "checkserver"
      BY <1>3, <1>9, <3>1 DEF Recv
    <3>2. CASE Head(input[cur]).kind # "checkserver"
      BY <1>1, <1>9, <2>1, <2>2, <3>2 DEF Recv, ReaderTypeOK, ConnTypeOK
    <3> QED
      BY <3>1, <3>2
  <2>4. /\ session' \in [Conns -> {"none", "open", "closed"}]
        /\ input' \in [Conns -> Seq(Line)]
        /\ process_launched' \in [Conns -> BOOLEAN]
    BY <1>1, <1>4, <1>9, <2>1, <2>2 DEF Recv, ConnTypeOK, ClientTypeOK
  <2>5. ConnTypeOK'
    BY <1>1, <1>9, <2>4 DEF Recv, ConnTypeOK
  <2>6. ClientTypeOK'
    BY <1>1, <1>9, <2>4 DEF Recv, ClientTypeOK
  <2> QED
    BY <1>1, <1>9, <2>3, <2>5, <2>6 DEF Recv, TypeOK, WorkerTypeOK
<1>10. CASE Count
  <2>1. cur \in Conns
    BY <1>2, <1>10 DEF Count, At
  <2>2. ReaderTypeOK'
    <3>1. CASE found > RequestLineLimit
      BY <1>3, <1>10, <3>1 DEF Count
    <3>2. CASE ~ found > RequestLineLimit
      BY <1>1, <1>10, <3>2 DEF Count, ReaderTypeOK
    <3> QED
      BY <3>1, <3>2
  <2>3. /\ session' \in [Conns -> {"none", "open", "closed"}]
        /\ input' \in [Conns -> Seq(Line)]
    BY <1>1, <1>4, <1>10, <2>1 DEF Count, ConnTypeOK, ClientTypeOK
  <2>4. ConnTypeOK'
    BY <1>1, <1>10, <2>1, <2>3 DEF Count, ConnTypeOK, ReaderTypeOK
  <2>5. ClientTypeOK'
    BY <1>1, <1>10, <2>3 DEF Count, ClientTypeOK
  <2> QED
    BY <1>1, <1>10, <2>2, <2>4, <2>5 DEF Count, TypeOK, WorkerTypeOK
<1>11. CASE Alloc
  <2>1. cur \in Conns
    BY <1>2, <1>11 DEF Alloc, At
  <2>2. ReaderTypeOK'
    <3>1. CASE line.kind = "malformed"
      BY <1>3, <1>11, <3>1 DEF Alloc
    <3>2. CASE line.kind # "malformed"
      BY <1>1, <1>11, <3>2 DEF Alloc, ParseOrLaunch, ReaderTypeOK
    <3> QED
      BY <3>1, <3>2
  <2>3. /\ session' \in [Conns -> {"none", "open", "closed"}]
        /\ input' \in [Conns -> Seq(Line)]
    BY <1>1, <1>4, <1>11, <2>1 DEF Alloc, ConnTypeOK, ClientTypeOK
  <2>4. heap' \subseteq Requests /\ request' \in [Conns -> Requests \cup {NULL}]
    BY <1>1, <1>11, <2>1 DEF Alloc, ConnTypeOK
  <2>5. ConnTypeOK'
    BY <1>1, <1>11, <2>3, <2>4 DEF Alloc, ConnTypeOK
  <2>6. ClientTypeOK'
    BY <1>1, <1>11, <2>3 DEF Alloc, ClientTypeOK
  <2> QED
    BY <1>1, <1>11, <2>2, <2>5, <2>6 DEF Alloc, TypeOK, WorkerTypeOK
<1>12. CASE Launch
  <2>1. cur \in Conns /\ <<cur, line.of>> \in Conns \X Nat
    BY <1>1, <1>2, <1>12 DEF Launch, At, Line, ReaderTypeOK
  <2>2. ReaderTypeOK'
    <3>1. CASE process_launched[cur]
      BY <1>3, <1>12, <3>1 DEF Launch
    <3>2. CASE ~ process_launched[cur]
      BY <1>1, <1>12, <3>2 DEF Launch, ReaderTypeOK
    <3> QED
      BY <3>1, <3>2
  <2>3. /\ session' \in [Conns -> {"none", "open", "closed"}]
        /\ input' \in [Conns -> Seq(Line)]
    BY <1>1, <1>4, <1>12, <2>1 DEF Launch, ConnTypeOK, ClientTypeOK
  <2>4. content' \in [Requests -> SUBSET (Conns \X Nat)]
    <3>1. content \in [Requests -> SUBSET (Conns \X Nat)]
      BY <1>1 DEF ConnTypeOK
    <3>2. \/ content' = content
          \/ content' = [r \in Requests |-> IF r = request[cur]
                                            THEN content[r] \cup {<<cur, line.of>>}
                                            ELSE content[r]]
      BY <1>12 DEF Launch
    <3>3. \A r \in Requests : content[r] \cup {<<cur, line.of>>} \in SUBSET (Conns \X Nat)
      BY <2>1, <3>1
    <3> QED
      BY <3>1, <3>2, <3>3, Zenon
  <2>5. process_launched' \in [Conns -> BOOLEAN]
    BY <1>1, <1>12, <2>1 DEF Launch, ConnTypeOK
  <2>6. ConnTypeOK'
    BY <1>1, <1>12, <2>3, <2>4, <2>5 DEF Launch, ConnTypeOK
  <2>7. ClientTypeOK'
    BY <1>1, <1>12, <2>3 DEF Launch, ClientTypeOK
  <2> QED
    BY <1>1, <1>12, <2>2, <2>6, <2>7 DEF Launch, TypeOK, WorkerTypeOK
<1>13. CASE Ref
  <2>1. ConnTypeOK'
    BY <1>1, <1>2, <1>13 DEF Ref, At, ConnTypeOK
  <2> QED
    BY <1>1, <1>13, <2>1 DEF Ref, TypeOK, ReaderTypeOK, WorkerTypeOK, ClientTypeOK
<1>14. CASE NewTask
  <2>1. WorkerTypeOK'
    BY <1>1, <1>2, <1>14 DEF NewTask, At, WorkerTypeOK
  <2>2. ReaderTypeOK'
    BY <1>3, <1>14 DEF NewTask
  <2> QED
    BY <1>1, <1>14, <2>1, <2>2 DEF NewTask, TypeOK, ConnTypeOK, ClientTypeOK
<1>15. CASE Load
  <2>1. ReaderTypeOK'
    BY <1>1, <1>2, <1>15 DEF Load, At, ReaderTypeOK, ConnTypeOK
  <2>2. WorkerTypeOK'
    BY <1>1, <1>15 DEF Load, WorkerTypeOK
  <2> QED
    BY <1>1, <1>15, <2>1, <2>2 DEF Load, TypeOK, ConnTypeOK, ClientTypeOK
<1>16. CASE WriteField
  <2>1. <<cur, line.of>> \in Conns \X Nat
    BY <1>1, <1>2, <1>16 DEF WriteField, At, Line, ReaderTypeOK
  <2>2. content' \in [Requests -> SUBSET (Conns \X Nat)]
    <3>1. content \in [Requests -> SUBSET (Conns \X Nat)]
      BY <1>1 DEF ConnTypeOK
    <3>2. item \in heap => content[item] \cup {<<cur, line.of>>} \in SUBSET (Conns \X Nat)
      BY <1>1, <2>1 DEF ConnTypeOK
    <3> DEFINE more == content[item] \cup {<<cur, line.of>>}
    <3>3. \/ content' = content
          \/ item \in heap /\ content' = [content EXCEPT ![item] = more]
      BY <1>16 DEF WriteField
    <3>4. item \in heap => more \in SUBSET (Conns \X Nat)
      BY <3>2
    <3> HIDE DEF more
    <3> QED
      BY <3>1, <3>3, <3>4, Zenon
  <2>3. ConnTypeOK'
    BY <1>1, <1>16, <2>2 DEF WriteField, ConnTypeOK
  <2>4. ReaderTypeOK'
    BY <1>3, <1>16 DEF WriteField
  <2>5. WorkerTypeOK'
    BY <1>1, <1>16 DEF WriteField, WorkerTypeOK
  <2> QED
    BY <1>1, <1>16, <2>3, <2>4, <2>5 DEF WriteField, TypeOK, ClientTypeOK
<1> QED
  BY <1>5, <1>6, <1>7, <1>8, <1>9, <1>10, <1>11, <1>12, <1>13, <1>14, <1>15, <1>16
  DEF ReaderStep

LEMMA WorkerStepType ==
    ASSUME RefInv, NEW w \in Workers, WorkerStep(w)
    PROVE  TypeOK'
<1> USE DEF WorkerElse
<1>1. ConnTypeOK /\ ReaderTypeOK /\ WorkerTypeOK /\ ClientTypeOK /\ WorkerShape /\ TypeOK
  BY DEF RefInv, TypeOK
<1>2. wpc[w] \notin {"idle", "free"} => wconn[w] \in Conns
  BY <1>1 DEF WorkerShape, WorkerTypeOK
<1>3. CASE Take(w)
  <2>1. WorkerTypeOK'
    BY <1>1, <1>2, <1>3 DEF Take, WorkerAt, WorkerTypeOK, ConnTypeOK
  <2> QED
    BY <1>1, <1>3, <2>1 DEF Take, TypeOK, ConnTypeOK, ReaderTypeOK, ClientTypeOK
<1>4. CASE Clear(w) \/ Ready(w) \/ Reset(w)
  <2>1. WorkerTypeOK'
    BY <1>1, <1>4 DEF Clear, Ready, Reset, WorkerTypeOK
  <2>2. ConnTypeOK'
    <3>1. wconn[w] \in Conns
      BY <1>2, <1>4 DEF Clear, Ready, Reset, WorkerAt
    <3>2. CASE Clear(w)
      BY <1>1, <3>1, <3>2 DEF Clear, ConnTypeOK
    <3>3. CASE Ready(w)
      BY <1>1, <3>1, <3>3 DEF Ready, ConnTypeOK
    <3>4. CASE Reset(w)
      BY <1>1, <3>1, <3>4 DEF Reset, ConnTypeOK
    <3> QED
      BY <1>4, <3>2, <3>3, <3>4
  <2> QED
    BY <1>1, <1>4, <2>1, <2>2 DEF Clear, Ready, Reset, TypeOK, ReaderTypeOK, ClientTypeOK
<1>5. CASE Handle(w)
  <2>1. WorkerTypeOK'
    BY <1>1, <1>5 DEF Handle, WorkerTypeOK
  <2> QED
    BY <1>1, <1>5, <2>1 DEF Handle, TypeOK, ConnTypeOK, ReaderTypeOK, ClientTypeOK
<1>6. CASE Reply(w)
  <2>1. wconn[w] \in Conns /\ wreq[w] \in Requests
    BY <1>1, <1>2, <1>6 DEF Reply, WorkerAt, WorkerShape, WorkerTypeOK
  <2>2. content[wreq[w]] \in SUBSET (Conns \X Nat)
    BY <1>1, <2>1 DEF ConnTypeOK
  <2>3. Append(answered[wconn[w]], content[wreq[w]]) \in Seq(SUBSET (Conns \X Nat))
    BY <1>1, <2>1, <2>2, AppendProperties DEF ClientTypeOK
  <2>4. answered' \in [Conns -> Seq(SUBSET (Conns \X Nat))]
    <3>1. answered \in [Conns -> Seq(SUBSET (Conns \X Nat))]
      BY <1>1 DEF ClientTypeOK
    <3> DEFINE more == Append(answered[wconn[w]], content[wreq[w]])
    <3>2. answered' = answered \/ answered' = [answered EXCEPT ![wconn[w]] = more]
      BY <1>6 DEF Reply
    <3> HIDE DEF more
    <3> QED
      BY <2>1, <2>3, <3>1, <3>2, Zenon DEF more
  <2>5. ClientTypeOK'
    BY <1>1, <1>6, <2>1, <2>4 DEF Reply, ClientTypeOK
  <2>6. WorkerTypeOK'
    BY <1>1, <1>6 DEF Reply, WorkerTypeOK
  <2> QED
    BY <1>1, <1>6, <2>5, <2>6 DEF Reply, TypeOK, ConnTypeOK, ReaderTypeOK
<1>7. CASE UnrefConn(w)
  <2>1. wconn[w] \in Conns /\ ref_count[wconn[w]] > 0
    BY <1>2, <1>7, HolderCounts DEF UnrefConn, WorkerAt, HeldBy
  <2>2. ConnTypeOK'
    BY <1>1, <1>7, <2>1, UnrefType DEF UnrefConn, ConnTypeOK
  <2>3. WorkerTypeOK'
    BY <1>1, <1>7 DEF UnrefConn, WorkerTypeOK
  <2> QED
    BY <1>1, <1>7, <2>2, <2>3 DEF UnrefConn, TypeOK, ReaderTypeOK, ClientTypeOK
<1>8. CASE FreeRequest(w)
  <2>1. content' \in [Requests -> SUBSET (Conns \X Nat)]
    BY <1>1, <1>8 DEF FreeRequest, ConnTypeOK
  <2>2. ConnTypeOK'
    BY <1>1, <1>8, <2>1 DEF FreeRequest, ConnTypeOK
  <2>3. WorkerTypeOK'
    BY <1>1, <1>8 DEF FreeRequest, WorkerTypeOK
  <2> QED
    BY <1>1, <1>8, <2>2, <2>3 DEF FreeRequest, TypeOK, ReaderTypeOK, ClientTypeOK
<1> QED
  BY <1>3, <1>4, <1>5, <1>6, <1>7, <1>8 DEF WorkerStep

\* Every step keeps the types.
LEMMA TypeStep ==
    ASSUME RefInv, [Next]_vars
    PROVE  TypeOK'
<1>1. ConnTypeOK /\ ReaderTypeOK /\ WorkerTypeOK /\ ClientTypeOK /\ TypeOK
  BY DEF RefInv, TypeOK
<1>2. ASSUME NEW w \in Workers, NEW c \in Conns, Pop(w, c) PROVE TypeOK'
  <2>1. WorkerTypeOK'
    BY <1>1, <1>2 DEF Pop, WorkerTypeOK
  <2> QED
    BY <1>1, <1>2, <2>1 DEF Pop, TypeOK, ConnTypeOK, ReaderTypeOK, ClientTypeOK
<1>3. ASSUME NEW c \in Conns, ClientStep(c) PROVE TypeOK'
  <2>1. ClientTypeOK'
    BY <1>1, <1>3, ClientStepType
  <2>2. UNCHANGED <<connVars, readerVars, poolVars, workerVars, heapVars, crashed>>
    BY <1>3
    DEF ClientStep, Connect, SendLine, SendBlank, SendPart, FinishLine, Disconnect, ClientElse
  <2> QED
    BY <1>1, <2>1, <2>2 DEF TypeOK, ConnTypeOK, ReaderTypeOK, WorkerTypeOK
<1>4. CASE BeingClosed
  BY <1>1, <1>4 DEF BeingClosed, TypeOK, ConnTypeOK, ReaderTypeOK, WorkerTypeOK, ClientTypeOK
<1>5. CASE UNCHANGED vars
  BY <1>1, <1>5 DEF vars, TypeOK, ConnTypeOK, ReaderTypeOK, WorkerTypeOK, ClientTypeOK
<1> QED
  BY <1>2, <1>3, <1>4, <1>5, ReaderStepType, WorkerStepType DEF Next, PopTask

-----------------------------------------------------------------------------
(* Where the threads are, and what they hold there.                         *)

\* Every step keeps what the place of the reader says of its variables.
LEMMA ReaderShapeStep ==
    ASSUME RefInv, [Next]_vars
    PROVE  ReaderShape'
<1>1. TypeOK /\ ReaderShape /\ ConnTypeOK /\ ReaderTypeOK /\ ClientTypeOK /\ TypeOK'
  BY TypeStep DEF RefInv, TypeOK
<1>2. rpc \notin {"wait", "accept", "pass"} =>
          cur \in Conns /\ cur # NULL /\ cur \in conn_list /\ cur \notin todo
  BY <1>1, ReaderAssumption, CurrentConn
<1>3. ASSUME BackToPass, todo' = todo, conn_list' = conn_list,
             \A c \in todo : input'[c] = input[c]
      PROVE  ReaderShape'
  BY <1>1, <1>3 DEF BackToPass, ReaderShape
<1>4. ASSUME CloseSession(cur), rpc \notin {"wait", "accept", "pass"}
      PROVE  \A c \in todo : input'[c] = input[c]
  BY <1>1, <1>2, <1>4 DEF CloseSession, ReaderTypeOK, ClientTypeOK
<1>5. ASSUME NEW c \in Conns, DropClosed(c) \/ Accept(c) PROVE ReaderShape'
  BY <1>1, <1>5 DEF DropClosed, Accept, At, ReaderShape, clientVars
<1>6. ASSUME NEW c \in Conns, Select(c) PROVE ReaderShape'
  BY <1>1, <1>6, ReaderAssumption DEF Select, At, ReaderShape
<1>7. CASE Wait \/ PassDone
  BY <1>1, <1>7 DEF Wait, PassDone, At, ReaderShape, Readable
<1>8. CASE Recv
  <2>1. CASE Head(input[cur]).kind = "checkserver"
    BY <1>3, <1>4, <1>8, <2>1 DEF Recv, At
  <2>2. CASE Head(input[cur]).kind # "checkserver"
    <3>1. \A c \in todo : input'[c] = input[c]
      BY <1>1, <1>2, <1>8, <2>2 DEF Recv, At, ReaderTypeOK, ClientTypeOK
    <3> QED
      BY <1>1, <1>2, <1>8, <2>2, <3>1 DEF Recv, At, ReaderShape
  <2> QED
    BY <2>1, <2>2
<1>9. CASE Count
  <2>1. CASE found > RequestLineLimit
    BY <1>3, <1>4, <1>9, <2>1 DEF Count, At
  <2>2. CASE ~ found > RequestLineLimit
    BY <1>1, <1>2, <1>9, <2>2 DEF Count, At, ReaderShape
  <2> QED
    BY <2>1, <2>2
<1>10. CASE Alloc
  <2>1. CASE line.kind = "malformed"
    BY <1>3, <1>4, <1>10, <2>1 DEF Alloc, At
  <2>2. CASE line.kind # "malformed"
    BY <1>1, <1>2, <1>10, <2>2 DEF Alloc, At, ReaderShape, ParseOrLaunch
  <2> QED
    BY <2>1, <2>2
<1>11. CASE Launch
  <2>1. CASE process_launched[cur]
    BY <1>3, <1>4, <1>11, <2>1 DEF Launch, At
  <2>2. CASE ~ process_launched[cur]
    BY <1>1, <1>2, <1>11, <2>2 DEF Launch, At, ReaderShape
  <2> QED
    BY <2>1, <2>2
<1>12. CASE Ref \/ Load
  BY <1>1, <1>2, <1>12 DEF Ref, Load, At, ReaderShape
<1>13. CASE NewTask \/ WriteField
  BY <1>3, <1>13 DEF NewTask, WriteField
<1>14. ASSUME NEW w \in Workers,
              WorkerStep(w) \/ (\E c \in Conns : Pop(w, c))
       PROVE  ReaderShape'
  <2>1. UNCHANGED <<readerVars, conn_list, input>>
    BY <1>14 DEF WorkerStep, Take, Clear, Ready, Reset, Handle, Reply, UnrefConn, FreeRequest,
                 WorkerElse, Pop
  <2> QED
    BY <1>1, <2>1 DEF ReaderShape
<1>15. ASSUME NEW c \in Conns, ClientStep(c) PROVE ReaderShape'
  <2>1. UNCHANGED <<readerVars, conn_list>>
    BY <1>15 DEF ClientStep, Connect, SendLine, SendBlank, SendPart, FinishLine, Disconnect,
                 ClientElse
  <2>2. \A d \in Conns : input[d] # <<>> => input'[d] # <<>>
    BY <1>1, <1>15, ClientStepType
  <2> QED
    BY <1>1, <1>2, <2>1, <2>2 DEF ReaderShape, ReaderTypeOK
<1>16. CASE BeingClosed \/ UNCHANGED vars
  BY <1>1, <1>16 DEF BeingClosed, vars, ReaderShape
<1> QED
  BY <1>5, <1>6, <1>7, <1>8, <1>9, <1>10, <1>11, <1>12, <1>13, <1>14, <1>15, <1>16
  DEF Next, ReaderStep, PopTask

\* What the steps of the reader, of the clients and of the main thread leave alone.
LEMMA WorkersUntouched ==
    ASSUME ReaderStep \/ (\E c \in Conns : ClientStep(c)) \/ BeingClosed \/ UNCHANGED vars
    PROVE  UNCHANGED workerVars
<1>1. CASE ReaderStep
  BY <1>1 DEF ReaderStep, DropClosed, Accept, Select, Wait, PassDone, Recv, Count, Alloc, Launch,
              Ref, NewTask, Load, WriteField
<1>2. ASSUME NEW c \in Conns, ClientStep(c) PROVE UNCHANGED workerVars
  BY <1>2 DEF ClientStep, Connect, SendLine, SendBlank, SendPart, FinishLine, Disconnect,
              ClientElse
<1>3. CASE BeingClosed \/ UNCHANGED vars
  BY <1>3 DEF BeingClosed, vars
<1> QED
  BY <1>1, <1>2, <1>3

\* Every step keeps what the place of a worker says of its variables.
LEMMA WorkerShapeStep ==
    ASSUME RefInv, [Next]_vars
    PROVE  WorkerShape'
<1>1. WorkerTypeOK /\ WorkerShape /\ WorkerTypeOK'
  BY TypeStep DEF RefInv, TypeOK
<1>2. NULL \notin Conns
  BY ReaderAssumption
<1>3. CASE ReaderStep \/ (\E c \in Conns : ClientStep(c)) \/ BeingClosed \/ UNCHANGED vars
  BY <1>1, <1>3, WorkersUntouched DEF WorkerShape
<1>4. ASSUME NEW w \in Workers, NEW c \in Conns, Pop(w, c) PROVE WorkerShape'
  BY <1>1, <1>2, <1>4 DEF Pop, WorkerAt, WorkerShape, WorkerTypeOK
<1>5. ASSUME NEW w \in Workers, WorkerStep(w) PROVE WorkerShape'
  <2>1. CASE Take(w)
    BY <1>1, <2>1 DEF Take, WorkerAt, WorkerShape, WorkerTypeOK
  <2>2. CASE Clear(w) \/ Ready(w) \/ Reset(w)
    BY <1>1, <2>2 DEF Clear, Ready, Reset, WorkerAt, WorkerShape, WorkerTypeOK
  <2>3. CASE Handle(w)
    BY <1>1, <2>3 DEF Handle, WorkerAt, WorkerShape, WorkerTypeOK
  <2>4. CASE Reply(w) \/ UnrefConn(w)
    BY <1>1, <2>4 DEF Reply, UnrefConn, WorkerAt, WorkerShape, WorkerTypeOK
  <2>5. CASE FreeRequest(w)
    BY <1>1, <2>5 DEF FreeRequest, WorkerAt, WorkerShape, WorkerTypeOK
  <2> QED
    BY <1>5, <2>1, <2>2, <2>3, <2>4, <2>5 DEF WorkerStep
<1> QED
  BY <1>3, <1>4, <1>5 DEF Next, PopTask

-----------------------------------------------------------------------------
(* Reference counting.                                                      *)

\* Steps that move nothing a holder is made of keep the number of holders.
LEMMA HoldersFrame ==
    ASSUME NEW c \in Conns,
           UNCHANGED <<conn_list, queued, dropped, wconn>>,
           InTask(c)' = InTask(c)
    PROVE  Holders(c)' = Holders(c)
<1>1. InList(c)' = InList(c)
  BY DEF InList
<1>2. HeldBy(c)' = HeldBy(c)
  BY DEF HeldBy
<1> QED
  BY <1>1, <1>2 DEF Holders

\* The steps that neither take nor give back a reference.
RefNeutral ==
    \/ Wait \/ PassDone \/ Recv \/ Count \/ Alloc \/ Launch \/ Load \/ WriteField
    \/ \E c \in Conns : Select(c) \/ ClientStep(c)
    \/ \E w \in Workers : \/ Take(w) \/ Clear(w) \/ Ready(w) \/ Reset(w)
                          \/ Handle(w) \/ Reply(w) \/ FreeRequest(w)
    \/ BeingClosed \/ UNCHANGED vars

\* They leave alone whatever a holder is made of.
RefFrame ==
    /\ UNCHANGED <<conn_list, ref_count, alive, queued, dropped, wconn>>
    /\ \/ rpc' = rpc /\ cur' = cur
       \/ rpc # "task" /\ rpc' # "task"

LEMMA RefNeutralStep ==
    ASSUME RefInv, RefNeutral
    PROVE  RefsAreHolders'
<1>1. RefsAreHolders
  BY DEF RefInv
<1>2. RefFrame
  <2>1. CASE Wait \/ PassDone \/ Recv \/ Count \/ Alloc \/ Launch \/ Load \/ WriteField
    BY <2>1 DEF RefFrame, Wait, PassDone, Recv, Count, Alloc, ParseOrLaunch, Launch, Load,
                WriteField, At, BackToPass
  <2>2. ASSUME NEW c \in Conns, Select(c) PROVE RefFrame
    BY <2>2 DEF RefFrame, Select, At
  <2>3. ASSUME NEW c \in Conns, ClientStep(c) PROVE RefFrame
    <3>1. ClientElse
      BY <2>3 DEF ClientStep, Connect, SendLine, SendBlank, SendPart, FinishLine, Disconnect
    <3> QED
      BY <3>1 DEF RefFrame, ClientElse
  <2>4. ASSUME NEW w \in Workers,
               \/ Take(w) \/ Clear(w) \/ Ready(w) \/ Reset(w)
               \/ Handle(w) \/ Reply(w) \/ FreeRequest(w)
        PROVE  RefFrame
    <3>1. UNCHANGED <<ref_count, alive, queued, wconn>> /\ WorkerElse
      BY <2>4 DEF Take, Clear, Ready, Reset, Handle, Reply, FreeRequest
    <3> QED
      BY <3>1 DEF RefFrame, WorkerElse
  <2>5. CASE BeingClosed
    BY <2>5 DEF RefFrame, BeingClosed
  <2>6. CASE UNCHANGED vars
    BY <2>6 DEF RefFrame, vars
  <2> QED
    BY <2>1, <2>2, <2>3, <2>4, <2>5, <2>6 DEF RefNeutral
<1>3. ASSUME NEW c \in Conns PROVE Holders(c)' = Holders(c)
  <2>1. InTask(c)' = InTask(c)
    BY <1>2 DEF RefFrame, InTask
  <2> QED
    BY <1>2, <2>1, HoldersFrame DEF RefFrame
<1> QED
  BY <1>1, <1>2, <1>3 DEF RefFrame, RefsAreHolders

\* Giving a reference back keeps alive in step with the count.
LEMMA UnrefAlive ==
    ASSUME RefInv, NEW c \in Conns, ref_count[c] > 0, Unref(c)
    PROVE  /\ ref_count'[c] = ref_count[c] - 1
           /\ alive'[c] <=> ref_count'[c] > 0
           /\ \A d \in Conns \ {c} : ref_count'[d] = ref_count[d] /\ alive'[d] = alive[d]
<1>1. ConnTypeOK /\ RefsAreHolders
  BY DEF RefInv, TypeOK
<1>2. alive[c] /\ ref_count[c] \in Nat
  BY <1>1 DEF RefsAreHolders, ConnTypeOK
<1>3. CASE ref_count[c] = 1
  BY <1>1, <1>3 DEF Unref, ConnTypeOK
<1>4. CASE ref_count[c] # 1
  BY <1>1, <1>2, <1>4 DEF Unref, ConnTypeOK
<1> QED
  BY <1>3, <1>4

\* The terms of the number of holders.
LEMMA HolderTerms ==
    ASSUME TypeOK, NEW c \in Conns
    PROVE  /\ IsFiniteSet(HeldBy(c)) /\ Cardinality(HeldBy(c)) \in Nat
           /\ InList(c) \in Nat /\ InTask(c) \in Nat /\ queued[c] \in Nat /\ dropped[c] \in Nat
<1>1. IsFiniteSet(HeldBy(c)) /\ Cardinality(HeldBy(c)) \in Nat
  BY FS_Subset, FS_CardinalityType, ReaderAssumption DEF HeldBy
<1> QED
  BY <1>1 DEF TypeOK, WorkerTypeOK, InList, InTask

\* The reader's reference for the task, and its passing to the queue or to nobody.
LEMMA TaskRefStep ==
    ASSUME RefInv, NEW k \in Conns, k = cur, Ref \/ NewTask
    PROVE  RefsAreHolders'
<1>1. RefsAreHolders /\ TypeOK /\ ConnTypeOK /\ WorkerTypeOK /\ TypeOK'
  BY TypeStep DEF RefInv, TypeOK, Ref, NewTask, At, Next, ReaderStep
<1>2. ASSUME NEW c \in Conns
      PROVE  /\ HeldBy(c)' = HeldBy(c) /\ InList(c)' = InList(c)
             /\ ref_count[c] = Holders(c) /\ alive'[c] = alive[c]
             /\ alive[c] <=> ref_count[c] > 0
  BY <1>1 DEF HeldBy, InList, Ref, NewTask, RefsAreHolders
<1>3. k \in conn_list
  BY CurrentConn DEF RefInv, Ref, NewTask, At
<1>4. CASE Ref
  <2>1. ASSUME NEW c \in Conns, c # k PROVE Holders(c)' = Holders(c) /\ ref_count'[c] = ref_count[c]
    <3>1. InTask(c)' = InTask(c)
      BY <1>4, <2>1 DEF Ref, At, InTask
    <3> QED
      BY <1>1, <1>4, <2>1, <3>1, HoldersFrame DEF Ref, ConnTypeOK
  <2>2. Holders(k)' = Holders(k) + 1
    <3>1. InTask(k) = 0 /\ InTask(k)' = 1
      BY <1>4 DEF Ref, At, InTask
    <3>2. queued'[k] = queued[k] /\ dropped'[k] = dropped[k]
      BY <1>4 DEF Ref
    <3> QED
      BY <1>1, <1>2, <3>1, <3>2, HolderTerms DEF Holders
  <2>3. ref_count'[k] = ref_count[k] + 1 /\ ref_count[k] > 0
    BY <1>1, <1>3, <1>4, HolderCounts DEF Ref, ConnTypeOK
  <2>4. ref_count[k] \in Nat
    BY <1>1 DEF ConnTypeOK
  <2>5. ref_count'[k] = Holders(k)' /\ (alive'[k] <=> ref_count'[k] > 0)
    BY <1>1, <1>2, <2>2, <2>3, <2>4
  <2> QED
    BY <1>2, <2>1, <2>5 DEF RefsAreHolders
<1>5. CASE NewTask
  <2>1. ASSUME NEW c \in Conns, c # k PROVE Holders(c)' = Holders(c)
    <3>1. InTask(c) = 0 /\ InTask(c)' = 0
      BY <1>5, <2>1 DEF NewTask, At, BackToPass, InTask
    <3>2. queued'[c] = queued[c] /\ dropped'[c] = dropped[c]
      BY <1>1, <1>5, <2>1 DEF NewTask, WorkerTypeOK
    <3> QED
      BY <1>2, <3>1, <3>2 DEF Holders
  <2>2. Holders(k)' = Holders(k)
    <3>1. InTask(k) = 1 /\ InTask(k)' = 0
      BY <1>5 DEF NewTask, At, BackToPass, InTask
    <3>2. queued'[k] + dropped'[k] = queued[k] + dropped[k] + 1
      BY <1>1, <1>5 DEF NewTask, WorkerTypeOK
    <3>3. queued'[k] \in Nat /\ dropped'[k] \in Nat
      BY <1>1 DEF TypeOK, WorkerTypeOK
    <3> QED
      BY <1>1, <1>2, <3>1, <3>2, <3>3, HolderTerms DEF Holders
  <2>3. ref_count' = ref_count
    BY <1>5 DEF NewTask
  <2> QED
    BY <1>2, <2>1, <2>2, <2>3 DEF RefsAreHolders
<1> QED
  BY <1>4, <1>5

\* The reference of the reader's list, taken with the socket and given back once the
\* session is seen closed.
LEMMA ListRefStep ==
    ASSUME RefInv, NEW c \in Conns, DropClosed(c) \/ Accept(c)
    PROVE  RefsAreHolders'
<1>1. RefsAreHolders /\ TypeOK /\ ConnTypeOK /\ ClientTypeOK
  BY DEF RefInv, TypeOK
<1>2. ASSUME NEW d \in Conns
      PROVE  /\ HeldBy(d)' = HeldBy(d) /\ InTask(d)' = InTask(d)
             /\ queued'[d] = queued[d] /\ dropped'[d] = dropped[d]
             /\ ref_count[d] = Holders(d)
             /\ alive[d] <=> ref_count[d] > 0
  <2>1. UNCHANGED <<wconn, queued, dropped>> /\ InTask(d)' = InTask(d)
    BY DEF DropClosed, Accept, At, InTask
  <2> QED
    BY <1>1, <2>1 DEF HeldBy, RefsAreHolders
<1>3. ASSUME NEW d \in Conns, d # c PROVE Holders(d)' = Holders(d)
  <2>1. InList(d)' = InList(d)
    BY <1>3 DEF InList, DropClosed, Accept
  <2> QED
    BY <1>2, <2>1 DEF Holders
<1>4. CASE DropClosed(c)
  <2>1. ref_count[c] > 0
    BY <1>4, HolderCounts DEF DropClosed
  <2>2. Holders(c)' = Holders(c) - 1
    <3>1. InList(c) = 1 /\ InList(c)' = 0
      BY <1>4 DEF DropClosed, InList
    <3> QED
      BY <1>1, <1>2, <3>1, HolderTerms DEF Holders
  <2>3. Unref(c)
    BY <1>4 DEF DropClosed
  <2> QED
    BY <1>2, <1>3, <2>1, <2>2, <2>3, UnrefAlive DEF RefsAreHolders
<1>5. CASE Accept(c)
  <2>1. ref_count[c] = 0
    BY <1>5 DEF Accept, RefInv, Unborn
  <2>2. Holders(c)' = Holders(c) + 1
    <3>1. InList(c) = 0 /\ InList(c)' = 1
      BY <1>5, <2>1, HolderCounts DEF Accept, InList
    <3> QED
      BY <1>1, <1>2, <3>1, HolderTerms DEF Holders
  <2>3. /\ ref_count'[c] = 1 /\ alive'[c] = TRUE
        /\ \A d \in Conns \ {c} : ref_count'[d] = ref_count[d] /\ alive'[d] = alive[d]
    BY <1>1, <1>5 DEF Accept, ConnTypeOK
  <2>4. Holders(c)' = 1
    BY <1>2, <2>1, <2>2
  <2> QED
    BY <1>2, <1>3, <2>3, <2>4 DEF RefsAreHolders
<1> QED
  BY <1>4, <1>5

\* The reference of a task: from the queue to the worker that runs it, who gives it
\* back, or to nobody when the pool stops.
LEMMA WorkerRefStep ==
    ASSUME RefInv, NEW w \in Workers, NEW c \in Conns,
           Pop(w, c) \/ (UnrefConn(w) /\ wconn[w] = c)
    PROVE  RefsAreHolders'
<1>1. RefsAreHolders /\ TypeOK /\ WorkerTypeOK /\ WorkerShape /\ NULL \notin Conns
  BY ReaderAssumption DEF RefInv, TypeOK
<1>2. ASSUME NEW d \in Conns
      PROVE  /\ InList(d)' = InList(d) /\ InTask(d)' = InTask(d)
             /\ ref_count[d] = Holders(d)
             /\ alive[d] <=> ref_count[d] > 0
  <2>1. UNCHANGED <<conn_list, rpc, cur>>
    BY DEF Pop, UnrefConn, WorkerElse
  <2> QED
    BY <1>1, <2>1 DEF InList, InTask, RefsAreHolders
<1>3. ASSUME NEW d \in Conns, d # c PROVE Holders(d)' = Holders(d)
  <2>1. queued'[d] = queued[d] /\ dropped'[d] = dropped[d]
    BY <1>1, <1>3 DEF Pop, UnrefConn, WorkerElse, WorkerTypeOK
  <2>2. HeldBy(d)' = HeldBy(d)
    BY <1>1, <1>3 DEF HeldBy, Pop, UnrefConn, WorkerAt, WorkerTypeOK, WorkerShape
  <2> QED
    BY <1>2, <2>1, <2>2 DEF Holders
<1>4. CASE Pop(w, c)
  <2>1. CASE thread_pool_being_stopped
    <3>1. queued'[c] = queued[c] - 1 /\ dropped'[c] = dropped[c] + 1 /\ HeldBy(c)' = HeldBy(c)
      BY <1>1, <1>4, <2>1 DEF Pop, HeldBy, WorkerTypeOK
    <3>2. queued'[c] + dropped'[c] = queued[c] + dropped[c]
      BY <1>1, <3>1, HolderTerms
    <3>3. queued'[c] \in Nat /\ dropped'[c] \in Nat
      BY TypeStep, <1>4 DEF Next, PopTask, TypeOK, WorkerTypeOK
    <3>4. Holders(c)' = Holders(c)
      BY <1>1, <1>2, <3>1, <3>2, <3>3, HolderTerms DEF Holders
    <3> QED
      BY <1>2, <1>3, <1>4, <3>4 DEF Pop, RefsAreHolders
  <2>2. CASE ~ thread_pool_being_stopped
    <3>1. w \notin HeldBy(c) /\ HeldBy(c)' = HeldBy(c) \cup {w}
      BY <1>1, <1>4, <2>2 DEF Pop, WorkerAt, HeldBy, WorkerTypeOK, WorkerShape
    <3>2. Cardinality(HeldBy(c)') = Cardinality(HeldBy(c)) + 1
      BY <1>1, <3>1, HolderTerms, FS_AddElement
    <3>3. queued'[c] = queued[c] - 1 /\ dropped'[c] = dropped[c]
      BY <1>1, <1>4, <2>2 DEF Pop, WorkerTypeOK
    <3>4. Holders(c)' = Holders(c)
      BY <1>1, <1>2, <3>2, <3>3, HolderTerms DEF Holders
    <3> QED
      BY <1>2, <1>3, <1>4, <3>4 DEF Pop, RefsAreHolders
  <2> QED
    BY <2>1, <2>2
<1>5. CASE UnrefConn(w) /\ wconn[w] = c
  <2>1. w \in HeldBy(c) /\ HeldBy(c)' = HeldBy(c) \ {w}
    BY <1>1, <1>5 DEF UnrefConn, HeldBy, WorkerTypeOK
  <2>2. Cardinality(HeldBy(c)') = Cardinality(HeldBy(c)) - 1
    BY <1>1, <2>1, HolderTerms, FS_RemoveElement
  <2>3. queued'[c] = queued[c] /\ dropped'[c] = dropped[c]
    BY <1>5 DEF UnrefConn, WorkerElse
  <2>4. Holders(c)' = Holders(c) - 1
    BY <1>1, <1>2, <2>2, <2>3, HolderTerms DEF Holders
  <2>5. ref_count[c] > 0 /\ Unref(c)
    BY <1>5, <2>1, HolderCounts DEF UnrefConn
  <2> QED
    BY <1>2, <1>3, <2>4, <2>5, UnrefAlive DEF RefsAreHolders
<1> QED
  BY <1>4, <1>5

\* A connection that is not accepted yet stays without references.
LEMMA UnbornStep ==
    ASSUME RefInv, [Next]_vars
    PROVE  Unborn'
<1>1. TypeOK /\ ConnTypeOK /\ WorkerTypeOK /\ ClientTypeOK /\ Unborn /\ WorkerShape
  BY DEF RefInv, TypeOK
<1>2. ASSUME UNCHANGED <<ref_count, client>> PROVE Unborn'
  BY <1>1, <1>2 DEF Unborn
<1>3. CASE Ref
  <2>1. cur \in Conns /\ cur \in conn_list
    BY <1>1, <1>3, CurrentConn DEF Ref, At, RefInv
  <2>2. ref_count[cur] > 0
    BY <2>1, HolderCounts
  <2> QED
    BY <1>1, <1>3, <2>1, <2>2 DEF Ref, Unborn, ConnTypeOK
<1>4. ASSUME NEW c \in Conns, DropClosed(c) PROVE Unborn'
  <2>1. ref_count[c] > 0
    BY <1>4, HolderCounts DEF DropClosed
  <2>2. \A d \in Conns \ {c} : ref_count'[d] = ref_count[d]
    BY <1>4, <2>1, UnrefAlive DEF DropClosed
  <2> QED
    BY <1>1, <1>4, <2>1, <2>2 DEF DropClosed, Unborn
<1>5. ASSUME NEW c \in Conns, Accept(c) PROVE Unborn'
  BY <1>1, <1>5 DEF Accept, Unborn, ConnTypeOK, ClientTypeOK
<1>6. ASSUME NEW w \in Workers, UnrefConn(w) PROVE Unborn'
  <2>1. wconn[w] \in Conns
    BY <1>1, <1>6 DEF UnrefConn, WorkerAt, WorkerShape, WorkerTypeOK
  <2>2. ref_count[wconn[w]] > 0
    BY <2>1, HolderCounts DEF HeldBy
  <2>3. \A d \in Conns \ {wconn[w]} : ref_count'[d] = ref_count[d]
    BY <1>6, <2>1, <2>2, UnrefAlive DEF UnrefConn
  <2> QED
    BY <1>1, <1>6, <2>1, <2>2, <2>3 DEF UnrefConn, Unborn
<1>7. ASSUME NEW w \in Workers, Reply(w) PROVE Unborn'
  <2>1. client' \in [Conns -> {"absent", "connecting", "writing", "waiting", "unanswered",
                               "streaming", "gone"}]
        /\ \A d \in Conns : client'[d] # client[d] => client'[d] \in {"writing", "unanswered"}
    BY <1>1, <1>7 DEF Reply, ClientTypeOK
  <2> QED
    BY <1>1, <1>7, <2>1 DEF Reply, Unborn
<1>8. ASSUME NEW c \in Conns, ClientStep(c) PROVE Unborn'
  <2>1. UNCHANGED ref_count
    BY <1>8 DEF ClientStep, Connect, SendLine, SendBlank, SendPart, FinishLine, Disconnect,
                ClientElse
  <2>2. \A d \in Conns : client'[d] \in {"absent", "connecting"}
                            => client[d] \in {"absent", "connecting"}
    BY <1>1, <1>8 DEF ClientStep, Connect, SendLine, SendBlank, SendPart, FinishLine, Disconnect,
                      Sends, ClientTypeOK
  <2> QED
    BY <1>1, <2>1, <2>2 DEF Unborn
<1>9. CASE Wait \/ PassDone \/ Recv \/ Count \/ Alloc \/ Launch \/ NewTask \/ Load \/ WriteField
  BY <1>2, <1>9 DEF Wait, PassDone, Recv, Count, Alloc, Launch, NewTask, Load, WriteField
<1>10. ASSUME NEW c \in Conns, Select(c) PROVE Unborn'
  BY <1>2, <1>10 DEF Select
<1>11. ASSUME NEW w \in Workers, NEW c \in Conns, Pop(w, c) PROVE Unborn'
  BY <1>2, <1>11 DEF Pop
<1>12. ASSUME NEW w \in Workers,
              Take(w) \/ Clear(w) \/ Ready(w) \/ Reset(w) \/ Handle(w) \/ FreeRequest(w)
       PROVE  Unborn'
  BY <1>2, <1>12 DEF Take, Clear, Ready, Reset, Handle, FreeRequest
<1>13. CASE BeingClosed \/ UNCHANGED vars
  BY <1>2, <1>13 DEF BeingClosed, vars
<1> QED
  BY <1>3, <1>4, <1>5, <1>6, <1>7, <1>8, <1>9, <1>10, <1>11, <1>12, <1>13
  DEF Next, ReaderStep, WorkerStep, PopTask

LEMMA RefInvInit ==
    Init => RefInv
<1> SUFFICES ASSUME Init PROVE RefInv
  OBVIOUS
<1>1. <<>> \in Seq(Line) /\ <<>> \in Seq(SUBSET (Conns \X Nat)) /\ NoLine \in Line
  BY EmptySeq DEF NoLine, Line
<1>2. TypeOK
  BY <1>1 DEF Init, TypeOK, ConnTypeOK, ReaderTypeOK, WorkerTypeOK, ClientTypeOK
<1>3. ReaderShape /\ WorkerShape /\ Unborn
  BY DEF Init, ReaderShape, WorkerShape, Unborn
<1>4. ASSUME NEW c \in Conns PROVE ref_count[c] = Holders(c) /\ (alive[c] <=> ref_count[c] > 0)
  <2>1. HeldBy(c) = {}
    BY ReaderAssumption DEF Init, HeldBy
  <2> QED
    BY <2>1, FS_EmptySet DEF Init, Holders, InList, InTask
<1> QED
  BY <1>2, <1>3, <1>4 DEF RefInv, RefsAreHolders

LEMMA RefInvStep ==
    RefInv /\ [Next]_vars => RefInv'
<1> SUFFICES ASSUME RefInv, [Next]_vars PROVE RefInv'
  OBVIOUS
<1>1. RefsAreHolders'
  <2>1. CASE RefNeutral
    BY <2>1, RefNeutralStep
  <2>2. CASE Ref \/ NewTask
    <3>1. cur \in Conns
      BY <2>2, CurrentConn DEF Ref, NewTask, At, RefInv
    <3> QED
      BY <2>2, <3>1, TaskRefStep
  <2>3. ASSUME NEW c \in Conns, DropClosed(c) \/ Accept(c) PROVE RefsAreHolders'
    BY <2>3, ListRefStep
  <2>4. ASSUME NEW w \in Workers, NEW c \in Conns, Pop(w, c) PROVE RefsAreHolders'
    BY <2>4, WorkerRefStep
  <2>5. ASSUME NEW w \in Workers, UnrefConn(w) PROVE RefsAreHolders'
    <3>1. wconn[w] \in Conns
      BY <2>5 DEF UnrefConn, WorkerAt, WorkerShape, WorkerTypeOK, TypeOK, RefInv
    <3> QED
      BY <2>5, <3>1, WorkerRefStep
  <2> QED
    BY <2>1, <2>2, <2>3, <2>4, <2>5 DEF Next, ReaderStep, WorkerStep, PopTask, RefNeutral
<1> QED
  BY <1>1, TypeStep, ReaderShapeStep, WorkerShapeStep, UnbornStep DEF RefInv

LEMMA RefInvAlways ==
    Spec => []RefInv
BY RefInvInit, RefInvStep, PTL DEF Spec

\* No count of the pipeline, references among them, ever goes below zero.
THEOREM TypeCorrect ==
    Spec => []TypeOK
<1>1. RefInv => TypeOK
  BY DEF RefInv
<1> QED
  BY <1>1, RefInvAlways, PTL

\* A connection has as many references as holders, however many connections, workers
\* and pipelined requests there are.
THEOREM RefCounting ==
    Spec => []RefsAreHolders
<1>1. RefInv => RefsAreHolders
  BY DEF RefInv
<1> QED
  BY <1>1, RefInvAlways, PTL

\* Neither the reader nor a worker ever works on a released connection.
THEOREM NoReleasedConnection ==
    Spec => []NoUseAfterFree
<1>1. RefInv => NoUseAfterFree
  <2> SUFFICES ASSUME RefInv PROVE NoUseAfterFree
    OBVIOUS
  <2>1. TypeOK /\ RefsAreHolders /\ ReaderShape
    BY DEF RefInv
  <2>2. cur # NULL => cur \in Conns /\ cur \in conn_list
    BY <2>1 DEF ReaderShape, TypeOK, ReaderTypeOK
  <2>3. \A w \in Workers : wconn[w] # NULL => wconn[w] \in Conns
    BY <2>1 DEF TypeOK, WorkerTypeOK
  <2>4. cur # NULL => alive[cur]
    BY <2>1, <2>2, HolderCounts DEF RefsAreHolders
  <2>5. ASSUME NEW w \in Workers, wconn[w] # NULL PROVE alive[wconn[w]]
    BY <2>1, <2>3, <2>5, HolderCounts DEF RefsAreHolders, HeldBy
  <2> QED
    BY <2>4, <2>5 DEF NoUseAfterFree
<1> QED
  BY <1>1, RefInvAlways, PTL

-----------------------------------------------------------------------------
(* One launch at a time.                                                    *)

\* Steps that give up claims, and clear no flag, keep the launches apart.
LEMMA LaunchFrame ==
    ASSUME LaunchInv, queued' = queued,
           \A c \in Conns : process_launched[c] => process_launched'[c],
           \A c \in Conns : InReader(c)' => InReader(c),
           \A w \in Workers, c \in Conns : Claiming(w, c)' => Claiming(w, c)
    PROVE  LaunchInv'
BY DEF LaunchInv

LEMMA ReaderLaunchStep ==
    ASSUME RefInv, LaunchInv, ReaderStep
    PROVE  LaunchInv'
<1>1. ConnTypeOK /\ WorkerTypeOK /\ UNCHANGED workerVars /\ NULL \notin Conns
  BY WorkersUntouched, ReaderAssumption DEF RefInv, TypeOK
<1>2. \A w \in Workers, c \in Conns : Claiming(w, c)' = Claiming(w, c)
  BY <1>1 DEF Claiming
<1>3. rpc \notin {"wait", "accept", "pass"} => cur \in Conns
  BY CurrentConn DEF RefInv
<1>4. ASSUME UNCHANGED <<queued, process_launched>>, rpc' \notin {"ref", "task"} PROVE LaunchInv'
  BY <1>2, <1>4, LaunchFrame DEF InReader
<1>5. ASSUME NEW c \in Conns, DropClosed(c) \/ Accept(c) \/ Select(c) PROVE LaunchInv'
  BY <1>4, <1>5 DEF DropClosed, Accept, Select, At
<1>6. CASE Wait \/ PassDone \/ Count
  BY <1>4, <1>6 DEF Wait, PassDone, Count, BackToPass
<1>7. CASE Alloc \/ Load \/ WriteField
  BY <1>4, <1>7 DEF Alloc, ParseOrLaunch, Load, WriteField, At, BackToPass
<1>8. CASE Recv
  <2>1. \A c \in Conns : process_launched[c] => process_launched'[c]
    BY <1>1, <1>8 DEF Recv, ConnTypeOK
  <2>2. queued' = queued /\ rpc' \notin {"ref", "task"}
    BY <1>8 DEF Recv, BackToPass
  <2> QED
    BY <1>2, <2>1, <2>2, LaunchFrame DEF InReader
<1>9. CASE Launch
  <2>1. CASE process_launched[cur]
    BY <1>4, <1>9, <2>1 DEF Launch, BackToPass
  <2>2. CASE ~ process_launched[cur]
    <3>1. cur \in Conns /\ cur' = cur /\ queued' = queued /\ rpc = "launch" /\ rpc' = "ref"
          /\ process_launched' = [process_launched EXCEPT ![cur] = TRUE]
      BY <1>3, <1>9, <2>2 DEF Launch, At
    <3>2. process_launched'[cur] /\ \A c \in Conns \ {cur} : process_launched'[c] = process_launched[c]
      BY <1>1, <3>1 DEF ConnTypeOK
    <3>3. queued[cur] = 0
      BY <1>1, <2>2, <3>1 DEF LaunchInv, WorkerTypeOK
    <3> QED
      BY <1>2, <2>2, <3>1, <3>2, <3>3 DEF LaunchInv, InReader
  <2> QED
    BY <2>1, <2>2
<1>10. CASE Ref
  BY <1>2, <1>10, LaunchFrame DEF Ref, At, InReader
<1>11. CASE NewTask
  <2>1. cur \in Conns /\ InReader(cur) /\ process_launched' = process_launched
        /\ \A c \in Conns : ~ InReader(c)'
    BY <1>1, <1>3, <1>11 DEF NewTask, At, BackToPass, InReader
  <2>2. CASE PoolRefuses
    BY <1>2, <1>11, <2>1, <2>2, LaunchFrame DEF NewTask
  <2>3. CASE ~ PoolRefuses
    <3>1. /\ queued'[cur] = queued[cur] + 1
          /\ \A c \in Conns \ {cur} : queued'[c] = queued[c]
      BY <1>1, <1>11, <2>1, <2>3 DEF NewTask, WorkerTypeOK
    <3>2. queued[cur] = 0 /\ process_launched[cur] /\ \A w \in Workers : ~ Claiming(w, cur)
      BY <1>1, <2>1 DEF LaunchInv, WorkerTypeOK
    <3> QED
      BY <1>2, <2>1, <3>1, <3>2 DEF LaunchInv
  <2> QED
    BY <2>2, <2>3
<1> QED
  BY <1>5, <1>6, <1>7, <1>8, <1>9, <1>10, <1>11 DEF ReaderStep

LEMMA WorkerLaunchStep ==
    ASSUME RefInv, LaunchInv, NEW w \in Workers,
           WorkerStep(w) \/ \E c \in Conns : Pop(w, c)
    PROVE  LaunchInv'
<1>1. ConnTypeOK /\ WorkerTypeOK /\ WorkerShape /\ NULL \notin Conns
  BY ReaderAssumption DEF RefInv, TypeOK
<1>2. \A c \in Conns : InReader(c)' = InReader(c)
  BY DEF WorkerStep, Take, Clear, Ready, Reset, Handle, Reply, UnrefConn, FreeRequest, Pop,
         WorkerElse, InReader
<1>3. CASE Take(w) \/ Clear(w)
  <2>1. \A v \in Workers, c \in Conns : Claiming(v, c)' => Claiming(v, c)
    BY <1>1, <1>3 DEF Take, Clear, WorkerAt, Claiming, WorkerTypeOK
  <2>2. UNCHANGED <<queued, process_launched>>
    BY <1>3 DEF Take, Clear
  <2> QED
    BY <1>2, <2>1, <2>2, LaunchFrame
<1>4. CASE Ready(w)
  <2>1. wconn[w] \in Conns /\ Claiming(w, wconn[w])
    BY <1>1, <1>4 DEF Ready, WorkerAt, WorkerShape, WorkerTypeOK, Claiming
  <2>2. PICK c \in Conns : c = wconn[w]
    BY <2>1
  <2>3. /\ \A v \in Workers, d \in Conns : Claiming(v, d)' => Claiming(v, d)
        /\ ~ Claiming(w, c)' /\ queued' = queued
    BY <1>1, <1>4, <2>2 DEF Ready, Claiming, WorkerTypeOK
  <2>4. \A d \in Conns \ {c} : process_launched'[d] = process_launched[d]
    BY <1>1, <1>4, <2>2 DEF Ready, ConnTypeOK
  <2>5. /\ queued[c] = 0 /\ ~ InReader(c)
        /\ \A v \in Workers : Claiming(v, c) => v = w
    BY <2>1, <2>2 DEF LaunchInv
  <2> QED
    BY <1>2, <2>3, <2>4, <2>5 DEF LaunchInv
<1>5. CASE Reset(w) \/ Handle(w) \/ Reply(w) \/ UnrefConn(w) \/ FreeRequest(w)
  <2>1. UNCHANGED <<queued, process_launched>>
    BY <1>5 DEF Reset, Handle, Reply, UnrefConn, FreeRequest
  <2>2. ASSUME NEW v \in Workers, NEW c \in Conns, Claiming(v, c)' PROVE Claiming(v, c)
    <3>1. CASE Reset(w) \/ Handle(w) \/ Reply(w)
      BY <1>1, <2>2, <3>1 DEF Reset, Handle, Reply, Claiming, WorkerTypeOK
    <3>2. CASE UnrefConn(w) \/ FreeRequest(w)
      BY <1>1, <2>2, <3>2 DEF UnrefConn, FreeRequest, Claiming, WorkerTypeOK
    <3> QED
      BY <1>5, <3>1, <3>2
  <2> QED
    BY <1>2, <2>1, <2>2, LaunchFrame
<1>6. ASSUME NEW c \in Conns, Pop(w, c) PROVE LaunchInv'
  <2>1. queued[c] = 1 /\ process_launched[c] /\ process_launched' = process_launched
    BY <1>1, <1>6 DEF Pop, LaunchInv, WorkerTypeOK
  <2>2. queued'[c] = 0 /\ \A d \in Conns \ {c} : queued'[d] = queued[d]
    BY <1>1, <1>6, <2>1 DEF Pop, WorkerTypeOK
  <2>3. ~ InReader(c) /\ \A v \in Workers : ~ Claiming(v, c)
    BY <2>1 DEF LaunchInv
  <2>4. \A v \in Workers, d \in Conns : Claiming(v, d)' => Claiming(v, d) \/ (v = w /\ d = c)
    BY <1>1, <1>6 DEF Pop, WorkerAt, Claiming, WorkerTypeOK
  <2> QED
    BY <1>2, <2>1, <2>2, <2>3, <2>4 DEF LaunchInv
<1> QED
  BY <1>3, <1>4, <1>5, <1>6 DEF WorkerStep

\* Every step keeps the launches of a connection apart.
LEMMA LaunchStep ==
    ASSUME RefInv, LaunchInv, [Next]_vars
    PROVE  LaunchInv'
<1>1. CASE (\E c \in Conns : ClientStep(c)) \/ BeingClosed \/ UNCHANGED vars
  <2>1. UNCHANGED <<queued, process_launched, rpc, cur>>
    <3>1. ASSUME NEW c \in Conns, ClientStep(c)
          PROVE  UNCHANGED <<queued, process_launched, rpc, cur>>
      BY <3>1 DEF ClientStep, Connect, SendLine, SendBlank, SendPart, FinishLine, Disconnect,
                  ClientElse
    <3>2. CASE BeingClosed \/ UNCHANGED vars
      BY <3>2 DEF BeingClosed, vars
    <3> QED
      BY <1>1, <3>1, <3>2
  <2>2. UNCHANGED workerVars
    BY <1>1, WorkersUntouched
  <2>3. \A w \in Workers, c \in Conns : Claiming(w, c)' = Claiming(w, c)
    BY <2>2 DEF Claiming
  <2>4. \A c \in Conns : InReader(c)' = InReader(c)
    BY <2>1 DEF InReader
  <2> QED
    BY <2>1, <2>3, <2>4, LaunchFrame
<1> QED
  BY <1>1, ReaderLaunchStep, WorkerLaunchStep DEF Next, PopTask

-----------------------------------------------------------------------------
(* One owner of a request object.                                           *)

OwnerInv == RequestInv /\ OneOwner

\* The last reference is the reader's list or one worker, never both.
LEMMA LastReference ==
    ASSUME RefInv, NEW c \in Conns, ref_count[c] = 1
    PROVE  /\ c \in conn_list => HeldBy(c) = {}
           /\ \A v, w \in HeldBy(c) : v = w
<1>1. /\ IsFiniteSet(HeldBy(c)) /\ Cardinality(HeldBy(c)) \in Nat
      /\ InList(c) \in Nat /\ InTask(c) \in Nat /\ queued[c] \in Nat /\ dropped[c] \in Nat
  BY HolderTerms DEF RefInv
<1>2. Holders(c) = 1
  BY DEF RefInv, RefsAreHolders
<1>3. c \in conn_list => Cardinality(HeldBy(c)) = 0
  BY <1>1, <1>2 DEF Holders, InList
<1>4. Cardinality(HeldBy(c)) = 0 \/ Cardinality(HeldBy(c)) = 1
  <2>1. Cardinality(HeldBy(c)) <= 1
    BY <1>1, <1>2 DEF Holders
  <2> QED
    BY <1>1, <2>1
<1>5. Cardinality(HeldBy(c)) = 0 => HeldBy(c) = {}
  BY <1>1, FS_EmptySet
<1>6. Cardinality(HeldBy(c)) = 1 => \E w : HeldBy(c) = {w}
  BY <1>1, FS_Singleton
<1> QED
  BY <1>3, <1>4, <1>5, <1>6

\* Releasing a connection releases its object, if it has one, and no other.
LEMMA UnrefRequest ==
    ASSUME RefInv, OwnerInv, NEW c \in Conns, Unref(c)
    PROVE  /\ ref_count[c] = 1 =>
                /\ heap' = heap \ {request[c]}
                /\ request'[c] = NULL
                /\ \A d \in Conns \ {c} : request'[d] = request[d]
           /\ ref_count[c] # 1 => UNCHANGED <<request, heap>>
           /\ RequestInv'
<1>1. ConnTypeOK
  BY DEF RefInv, TypeOK
<1>2. CASE ref_count[c] = 1
  <2>1. /\ heap' = heap \ {request[c]}
        /\ request'[c] = NULL
        /\ \A d \in Conns \ {c} : request'[d] = request[d]
    BY <1>1, <1>2 DEF Unref, ConnTypeOK
  <2> QED
    BY <1>2, <2>1 DEF OwnerInv, RequestInv
<1>3. CASE ref_count[c] # 1
  <2>1. UNCHANGED <<request, heap>>
    BY <1>3 DEF Unref
  <2> QED
    BY <1>3, <2>1 DEF OwnerInv, RequestInv
<1> QED
  BY <1>2, <1>3

LEMMA ReaderOwnerStep ==
    ASSUME RefInv, OwnerInv, ReaderStep
    PROVE  OwnerInv'
<1>1. ConnTypeOK /\ WorkerTypeOK /\ UNCHANGED workerVars
  BY WorkersUntouched DEF RefInv, TypeOK
<1>2. ASSUME UNCHANGED <<request, heap>> PROVE OwnerInv'
  BY <1>1, <1>2 DEF OwnerInv, RequestInv, OneOwner
<1>3. ASSUME NEW c \in Conns, DropClosed(c) PROVE OwnerInv'
  <2>1. ref_count[c] > 0 /\ Unref(c) /\ c \in conn_list
    BY <1>3, HolderCounts DEF DropClosed
  <2>2. ref_count[c] = 1 => \A w \in Workers : wreq[w] # NULL => wreq[w] # request[c]
    <3> SUFFICES ASSUME ref_count[c] = 1, NEW w \in Workers, wreq[w] # NULL, wreq[w] = request[c]
                 PROVE  FALSE
      OBVIOUS
    <3>1. wconn[w] = c
      BY DEF OwnerInv, OneOwner
    <3> QED
      BY <2>1, <3>1, LastReference DEF HeldBy
  <2> QED
    BY <1>1, <2>1, <2>2, UnrefRequest DEF OwnerInv, OneOwner
<1>4. CASE Alloc
  <2>1. cur \in Conns
    BY <1>4, CurrentConn DEF Alloc, At, RefInv
  <2>2. CASE request[cur] = NULL
    <3>1. PICK r \in Requests \ heap :
             heap' = heap \cup {r} /\ request' = [request EXCEPT ![cur] = r]
      BY <1>4, <2>2 DEF Alloc
    <3>2. request'[cur] = r /\ \A d \in Conns \ {cur} : request'[d] = request[d]
      BY <1>1, <2>1, <3>1 DEF ConnTypeOK
    <3>3. RequestInv'
      BY <2>1, <3>1, <3>2 DEF OwnerInv, RequestInv
    <3>4. OneOwner'
      BY <1>1, <2>1, <3>1, <3>2 DEF OwnerInv, OneOwner
    <3> QED
      BY <3>3, <3>4 DEF OwnerInv
  <2>3. CASE request[cur] # NULL
    BY <1>2, <1>4, <2>3 DEF Alloc
  <2> QED
    BY <2>2, <2>3
<1>5. ASSUME NEW c \in Conns, Accept(c) \/ Select(c) PROVE OwnerInv'
  BY <1>2, <1>5 DEF Accept, Select
<1>6. CASE Wait \/ PassDone \/ Recv \/ Count
  BY <1>2, <1>6 DEF Wait, PassDone, Recv, Count
<1>7. CASE Launch \/ Ref \/ NewTask \/ Load \/ WriteField
  BY <1>2, <1>7 DEF Launch, Ref, NewTask, Load, WriteField
<1> QED
  BY <1>3, <1>4, <1>5, <1>6, <1>7 DEF ReaderStep

LEMMA WorkerOwnerStep ==
    ASSUME RefInv, LaunchInv, OwnerInv, NEW w \in Workers,
           WorkerStep(w) \/ \E c \in Conns : Pop(w, c)
    PROVE  OwnerInv'
<1>1. ConnTypeOK /\ WorkerTypeOK /\ WorkerShape /\ NULL \notin Conns
  BY ReaderAssumption DEF RefInv, TypeOK
<1>2. wpc[w] \notin {"idle", "free"} => wconn[w] \in Conns
  BY <1>1 DEF WorkerShape, WorkerTypeOK
<1>3. CASE Take(w)
  <2>1. PICK c \in Conns : c = wconn[w]
    BY <1>2, <1>3 DEF Take, WorkerAt
  <2>2. /\ UNCHANGED <<request, heap, wconn>>
        /\ wreq'[w] = request[c] /\ wpc'[w] = "clear"
        /\ \A v \in Workers \ {w} : wreq'[v] = wreq[v] /\ wpc'[v] = wpc[v]
    BY <1>1, <1>3, <2>1 DEF Take, WorkerTypeOK
  <2>3. ASSUME NEW v \in Workers \ {w}, wreq[v] # NULL PROVE wreq[v] # request[c]
    <3> SUFFICES ASSUME wreq[v] = request[c] PROVE FALSE
      OBVIOUS
    <3>1. Claiming(v, c) /\ Claiming(w, c)
      BY <1>3, <2>1, <2>3 DEF OwnerInv, OneOwner, Claiming, Take, WorkerAt
    <3> QED
      BY <3>1 DEF LaunchInv
  <2>4. \A u, v \in Workers : wreq'[u] = wreq'[v] /\ wreq'[u] # NULL => u = v
    BY <2>2, <2>3 DEF OwnerInv, OneOwner
  <2>5. \A v \in Workers, d \in Conns :
           wreq'[v] # NULL /\ request'[d] = wreq'[v] => wpc'[v] = "clear" /\ wconn'[v] = d
    BY <2>1, <2>2 DEF OwnerInv, OneOwner, RequestInv
  <2>6. \A v \in Workers : wreq'[v] # NULL => wreq'[v] \in heap'
    BY <2>2 DEF OwnerInv, OneOwner, RequestInv
  <2> QED
    BY <2>2, <2>4, <2>5, <2>6 DEF OwnerInv, OneOwner, RequestInv
<1>4. CASE Clear(w)
  <2>1. PICK c \in Conns : c = wconn[w]
    BY <1>2, <1>4 DEF Clear, WorkerAt
  <2>2. /\ UNCHANGED <<wreq, heap, wconn>>
        /\ request'[c] = NULL /\ \A d \in Conns \ {c} : request'[d] = request[d]
        /\ wpc[w] = "clear" /\ \A v \in Workers \ {w} : wpc'[v] = wpc[v]
    BY <1>1, <1>4, <2>1 DEF Clear, WorkerAt, ConnTypeOK, WorkerTypeOK
  <2>3. RequestInv'
    BY <2>2 DEF OwnerInv, RequestInv
  <2>4. OneOwner'
    BY <2>1, <2>2 DEF OwnerInv, OneOwner
  <2> QED
    BY <2>3, <2>4 DEF OwnerInv
<1>5. ASSUME UNCHANGED <<wreq, request, heap>>, wpc[w] # "clear",
             \A v \in Workers \ {w} : wpc'[v] = wpc[v] /\ wconn'[v] = wconn[v]
      PROVE  OwnerInv'
  BY <1>5 DEF OwnerInv, RequestInv, OneOwner
<1>6. CASE Ready(w) \/ Reset(w)
  BY <1>1, <1>5, <1>6 DEF Ready, Reset, WorkerAt, WorkerTypeOK
<1>7. CASE Handle(w) \/ Reply(w)
  BY <1>1, <1>5, <1>7 DEF Handle, Reply, WorkerAt, WorkerTypeOK
<1>8. ASSUME NEW c \in Conns, Pop(w, c) PROVE OwnerInv'
  BY <1>1, <1>5, <1>8 DEF Pop, WorkerAt, WorkerTypeOK
<1>9. CASE UnrefConn(w)
  <2>1. PICK c \in Conns : c = wconn[w]
    BY <1>2, <1>9 DEF UnrefConn, WorkerAt
  <2>2. /\ ref_count[c] > 0 /\ Unref(c) /\ w \in HeldBy(c) /\ wpc[w] = "unref" /\ wreq' = wreq
        /\ wpc' = [wpc EXCEPT ![w] = "free"] /\ wconn' = [wconn EXCEPT ![w] = NULL]
    BY <1>9, <2>1, HolderCounts DEF UnrefConn, WorkerAt, HeldBy
  <2>3. ASSUME ref_count[c] = 1, NEW v \in Workers, wreq[v] # NULL, wreq[v] = request[c]
        PROVE  FALSE
    <3>1. wpc[v] = "clear" /\ v \in HeldBy(c)
      BY <2>3 DEF OwnerInv, OneOwner, HeldBy
    <3> QED
      BY <2>2, <2>3, <3>1, LastReference
  <2>4. \A v \in Workers \ {w} : wpc'[v] = wpc[v] /\ wconn'[v] = wconn[v]
    BY <1>1, <2>2 DEF WorkerTypeOK
  <2>5. OneOwner'
    BY <2>2, <2>3, <2>4, UnrefRequest DEF OwnerInv, OneOwner
  <2> QED
    BY <2>2, <2>5, UnrefRequest DEF OwnerInv
<1>10. CASE FreeRequest(w)
  <2>1. /\ heap' = heap \ {wreq[w]} /\ wreq'[w] = NULL /\ UNCHANGED <<request, wconn>>
        /\ wpc[w] = "free" /\ wreq[w] # NULL
        /\ \A v \in Workers \ {w} : wreq'[v] = wreq[v] /\ wpc'[v] = wpc[v]
    BY <1>1, <1>10 DEF FreeRequest, WorkerAt, WorkerTypeOK, WorkerShape
  <2>2. RequestInv'
    BY <2>1 DEF OwnerInv, OneOwner, RequestInv
  <2>3. OneOwner'
    BY <2>1 DEF OwnerInv, OneOwner
  <2> QED
    BY <2>2, <2>3 DEF OwnerInv
<1> QED
  BY <1>3, <1>4, <1>6, <1>7, <1>8, <1>9, <1>10 DEF WorkerStep

\* Every step keeps the objects of the connections and of the workers apart.
LEMMA OwnerStep ==
    ASSUME RefInv, LaunchInv, OwnerInv, [Next]_vars
    PROVE  OwnerInv'
<1>1. CASE (\E c \in Conns : ClientStep(c)) \/ BeingClosed \/ UNCHANGED vars
  <2>1. UNCHANGED <<request, heap>>
    <3>1. ASSUME NEW c \in Conns, ClientStep(c) PROVE UNCHANGED <<request, heap>>
      BY <3>1 DEF ClientStep, Connect, SendLine, SendBlank, SendPart, FinishLine, Disconnect,
                  ClientElse
    <3>2. CASE BeingClosed \/ UNCHANGED vars
      BY <3>2 DEF BeingClosed, vars
    <3> QED
      BY <1>1, <3>1, <3>2
  <2>2. UNCHANGED workerVars
    BY <1>1, WorkersUntouched
  <2> QED
    BY <2>1, <2>2 DEF OwnerInv, RequestInv, OneOwner
<1> QED
  BY <1>1, ReaderOwnerStep, WorkerOwnerStep DEF Next, PopTask

-----------------------------------------------------------------------------

LEMMA IInvInit ==
    Init => IInv
<1> SUFFICES ASSUME Init PROVE IInv
  OBVIOUS
<1>1. LaunchInv
  BY DEF Init, LaunchInv, InReader, Claiming
<1>2. RequestInv /\ OneOwner
  BY DEF Init, RequestInv, OneOwner
<1> QED
  BY <1>1, <1>2, RefInvInit DEF IInv

LEMMA IInvAlways ==
    Spec => []IInv
<1>1. IInv /\ [Next]_vars => IInv'
  BY RefInvStep, LaunchStep, OwnerStep DEF IInv, OwnerInv
<1> QED
  BY <1>1, IInvInit, PTL DEF Spec

\* The unlocked flag process_launched is enough: a connection never has two requests
\* on their way to the workers, whatever lines its client pipelines.
THEOREM SingleLaunch ==
    Spec => []OneLaunch
<1>1. IInv => OneLaunch
  <2> SUFFICES ASSUME IInv, NEW c \in Conns
               PROVE  LET inReader == IF rpc \in {"ref", "task"} /\ cur = c THEN 1 ELSE 0
                          claims   == inReader + queued[c]
                                        + Cardinality({w \in Workers : Claiming(w, c)})
                      IN  claims <= 1 /\ (claims = 1 => process_launched[c])
    BY Zenon DEF OneLaunch
  <2> DEFINE claiming == {w \in Workers : Claiming(w, c)}
             inReader == IF rpc \in {"ref", "task"} /\ cur = c THEN 1 ELSE 0
  <2>1. queued[c] \in Nat /\ LaunchInv
    BY DEF IInv, RefInv, TypeOK, WorkerTypeOK
  <2>2. /\ inReader = 0 \/ (inReader = 1 /\ InReader(c))
        /\ queued[c] = 0 \/ queued[c] = 1
    BY <2>1 DEF InReader, LaunchInv
  <2>3. claiming = {} \/ \E w \in Workers : claiming = {w} /\ Claiming(w, c)
    BY <2>1 DEF LaunchInv
  <2>4. \/ claiming = {} /\ Cardinality(claiming) = 0
        \/ /\ Cardinality(claiming) = 1
           /\ queued[c] = 0 /\ inReader = 0 /\ process_launched[c]
    <3>1. CASE claiming = {}
      BY <3>1, FS_EmptySet
    <3>2. ASSUME NEW w \in Workers, claiming = {w}, Claiming(w, c)
          PROVE  /\ Cardinality(claiming) = 1
                 /\ queued[c] = 0 /\ inReader = 0 /\ process_launched[c]
      BY <2>1, <3>2, FS_Singleton DEF LaunchInv, InReader
    <3> QED
      BY <2>3, <3>1, <3>2
  <2>5. /\ inReader = 1 => queued[c] = 0 /\ process_launched[c]
        /\ queued[c] = 1 => process_launched[c]
    BY <2>1, <2>2 DEF LaunchInv, InReader
  <2> HIDE DEF claiming, inReader
  <2>6. /\ inReader + queued[c] + Cardinality(claiming) <= 1
        /\ inReader + queued[c] + Cardinality(claiming) = 1 => process_launched[c]
    BY <2>2, <2>4, <2>5
  <2> QED
    BY <2>6 DEF claiming, inReader
<1> QED
  BY <1>1, IInvAlways, PTL

\* A request object is never run or released by two workers, nor reached by the
\* reader once a worker has emptied the connection.
THEOREM RequestOwnership ==
    Spec => []OneOwner
<1>1. IInv => OneOwner
  BY DEF IInv
<1> QED
  BY <1>1, IInvAlways, PTL


-----------------------------------------------------------------------------
(* A reply for each request, in order.                                      *)

\* A client that waits for its replies, and the number of the request it is at.
Waits(c) == client[c] \in {"writing", "waiting", "unanswered"}
Turn(c) == Len(answered[c]) + 1

\* A request of the connection is under way: launched, queued or taken by a worker that has
\* not replied.
Busy(w, c) == wconn[w] = c /\ wpc[w] \in {"take", "clear", "ready", "reset", "handle", "reply"}
InFlight(c) == InReader(c) \/ queued[c] # 0 \/ \E w \in Workers : Busy(w, c)

\* The reader has a line of the connection in its hands.
Reading(c) == cur = c /\ rpc \in {"count", "alloc", "launch", "load", "write"}

\* The replies so far, and what has been sent.
RepliesTurn(c) ==
    /\ Turn(c) = IF client[c] = "writing" THEN sent[c] + 1 ELSE sent[c]
    /\ \A n \in 1..Len(answered[c]) : answered[c][n] = {<<c, n>>}

\* The lines in the socket are those of the request.
LinesTurn(c) ==
    \A i \in 1..Len(input[c]) :
        /\ input[c][i].of = Turn(c) /\ input[c][i].kind # "eof"
        /\ input[c][i].kind = "blank" => i = Len(input[c]) /\ client[c] = "waiting"

\* So is the line the reader has.
ReadingTurn(c) ==
    Reading(c) =>
        /\ ~ InFlight(c)
        /\ line.of = Turn(c) /\ line.kind \in {"attr", "malformed", "blank"}
        /\ line.kind = "blank" => client[c] = "waiting" /\ input[c] = <<>>
        /\ rpc = "launch" => line.kind = "blank"
        /\ rpc \in {"launch", "load", "write"} => request[c] # NULL

\* What the connection and the worker have is of the request, and once launched all of it.
ContentTurn(c) ==
    /\ request[c] # NULL => content[request[c]] \subseteq {<<c, Turn(c)>>}
    /\ InReader(c) \/ queued[c] # 0 =>
           request[c] # NULL /\ content[request[c]] = {<<c, Turn(c)>>}
    /\ \A w \in Workers : Busy(w, c) =>
           /\ wpc[w] = "take" => request[c] # NULL /\ content[request[c]] = {<<c, Turn(c)>>}
           /\ wpc[w] = "clear" => request[c] = wreq[w]
           /\ wpc[w] \notin {"take", "clear"} => request[c] = NULL
           /\ wpc[w] # "take" => wreq[w] # NULL /\ content[wreq[w]] = {<<c, Turn(c)>>}

\* One request at a time, and the client waits for it.
FlightTurn(c) ==
    /\ InFlight(c) => client[c] = "waiting" /\ input[c] = <<>>
    /\ \A w \in Workers : Busy(w, c) => queued[c] = 0 /\ ~ InReader(c)
    /\ \A v, w \in Workers : Busy(v, c) /\ Busy(w, c) => v = w

TurnOf(c) ==
    RepliesTurn(c) /\ LinesTurn(c) /\ ReadingTurn(c) /\ ContentTurn(c) /\ FlightTurn(c)
TurnInv == \A c \in Conns : Waits(c) => TurnOf(c)

\* A free object is empty, the reader writes to no object of another connection, and a
\* client is new when it is accepted.
FreshInv ==
    /\ \A r \in Requests \ heap : content[r] = {}
    /\ rpc = "write" => item # NULL /\ \A c \in Conns : request[c] = item => c = cur
    /\ \A c \in Conns : client[c] \in {"absent", "connecting"} =>
           sent[c] = 0 /\ answered[c] = <<>> /\ input[c] = <<>> /\ request[c] = NULL

\* What the steps of the clients and of the main thread leave alone.
LEMMA ClientsOnly ==
    ASSUME (\E c \in Conns : ClientStep(c)) \/ BeingClosed \/ UNCHANGED vars
    PROVE  UNCHANGED <<conn_list, ref_count, request, rpc, cur, line, item, queued, wpc, wconn, wreq,
                       heap, content, answered>>
<1>1. ASSUME NEW c \in Conns, ClientStep(c)
      PROVE  UNCHANGED <<conn_list, ref_count, request, rpc, cur, line, item, queued, wpc, wconn, wreq,
                         heap, content, answered>>
  BY <1>1 DEF ClientStep, Connect, SendLine, SendBlank, SendPart, FinishLine, Disconnect,
              ClientElse
<1> QED
  BY <1>1 DEF BeingClosed, vars

\* Releasing a connection empties its object when that is released with it.
LEMMA UnrefContent ==
    ASSUME TypeOK, NEW c \in Conns, Unref(c)
    PROVE  \/ UNCHANGED <<request, heap, content>>
           \/ /\ ref_count[c] = 1 /\ request'[c] = NULL /\ heap' = heap \ {request[c]}
              /\ \A d \in Conns \ {c} : request'[d] = request[d]
              /\ \A r \in Requests : content'[r] = IF r = request[c] THEN {} ELSE content[r]
<1>1. ConnTypeOK
  BY DEF TypeOK
<1>2. CASE ref_count[c] = 1
  <2>1. /\ request' = [request EXCEPT ![c] = NULL] /\ heap' = heap \ {request[c]}
        /\ content' = [r \in Requests |-> IF r = request[c] THEN {} ELSE content[r]]
    BY <1>2 DEF Unref
  <2> QED
    BY <1>1, <1>2, <2>1 DEF ConnTypeOK
<1>3. CASE ref_count[c] # 1
  BY <1>3 DEF Unref
<1> QED
  BY <1>2, <1>3

LEMMA FreeObjectsStep ==
    ASSUME IInv, FreshInv, [Next]_vars
    PROVE  \A r \in Requests \ heap' : content'[r] = {}
<1> SUFFICES ASSUME NEW r \in Requests, r \notin heap' PROVE content'[r] = {}
  OBVIOUS
<1>0. TypeOK /\ ConnTypeOK /\ (r \notin heap => content[r] = {}) /\ NULL \notin Requests
  BY ReaderAssumption DEF IInv, RefInv, TypeOK, FreshInv
<1>1. CASE heap \subseteq heap' /\ content' = content
  BY <1>0, <1>1
<1>2. CASE (\E c \in Conns : ClientStep(c)) \/ BeingClosed \/ UNCHANGED vars
  BY <1>1, <1>2, ClientsOnly
<1>3. ASSUME NEW c \in Conns, Unref(c) PROVE content'[r] = {}
  BY <1>0, <1>3, UnrefContent
<1>4. CASE ReaderStep
  <2>1. CASE Launch
    <3>1. cur \in Conns /\ request[cur] \in heap \cup {NULL}
      BY <2>1, CurrentConn DEF Launch, At, IInv, RefInv, RequestInv
    <3>2. /\ heap' = heap
          /\ \/ content' = content
             \/ content' = [q \in Requests |-> IF q = request[cur]
                                               THEN content[q] \cup {<<cur, line.of>>}
                                               ELSE content[q]]
      BY <2>1 DEF Launch
    <3> QED
      BY <1>0, <3>1, <3>2
  <2>2. CASE WriteField
    <3>1. /\ heap' = heap
          /\ \/ content' = content
             \/ item \in heap /\ content' = [content EXCEPT ![item] = @ \cup {<<cur, line.of>>}]
      BY <2>2 DEF WriteField
    <3> QED
      BY <1>0, <3>1 DEF ConnTypeOK
  <2>3. ASSUME NEW c \in Conns, DropClosed(c) PROVE content'[r] = {}
    BY <1>3, <2>3 DEF DropClosed
  <2>4. CASE ~ Launch /\ ~ WriteField /\ ~ \E c \in Conns : DropClosed(c)
    BY <1>1, <1>4, <2>4 DEF ReaderStep, Accept, Select, Wait, PassDone, Recv, Count, Alloc, Ref,
                            NewTask, Load
  <2> QED
    BY <2>1, <2>2, <2>3, <2>4
<1>5. ASSUME NEW w \in Workers, WorkerStep(w) PROVE content'[r] = {}
  <2>1. CASE FreeRequest(w)
    <3>1. heap' = heap \ {wreq[w]} /\ content' = [content EXCEPT ![wreq[w]] = {}]
      BY <2>1 DEF FreeRequest
    <3> QED
      BY <1>0, <3>1 DEF ConnTypeOK
  <2>2. CASE UnrefConn(w)
    <3>1. wconn[w] \in Conns
      BY <2>2 DEF UnrefConn, WorkerAt, IInv, RefInv, WorkerShape, TypeOK, WorkerTypeOK
    <3> QED
      BY <1>3, <2>2, <3>1 DEF UnrefConn
  <2>3. CASE ~ FreeRequest(w) /\ ~ UnrefConn(w)
    BY <1>1, <1>5, <2>3 DEF WorkerStep, Take, Clear, Ready, Reset, Handle, Reply
  <2> QED
    BY <2>1, <2>2, <2>3
<1>6. ASSUME NEW c \in Conns, PopTask(c) PROVE content'[r] = {}
  BY <1>1, <1>6 DEF PopTask, Pop
<1> QED
  BY <1>2, <1>4, <1>5, <1>6 DEF Next

\* What a step changes of the objects the connections point to.
LEMMA RequestChanges ==
    ASSUME IInv, [Next]_vars
    PROVE  \A c \in Conns :
             \/ request'[c] = request[c] \/ request'[c] = NULL
             \/ rpc = "alloc" /\ cur = c
<1> SUFFICES ASSUME NEW c \in Conns
             PROVE  \/ request'[c] = request[c] \/ request'[c] = NULL
                    \/ rpc = "alloc" /\ cur = c
  OBVIOUS
<1>0. TypeOK /\ request \in [Conns -> Requests \cup {NULL}]
  BY DEF IInv, RefInv, TypeOK, ConnTypeOK
<1>1. CASE request' = request
  BY <1>1
<1>2. CASE (\E d \in Conns : ClientStep(d)) \/ BeingClosed \/ UNCHANGED vars
  BY <1>1, <1>2, ClientsOnly
<1>3. ASSUME NEW d \in Conns, Unref(d) PROVE request'[c] = request[c] \/ request'[c] = NULL
  BY <1>0, <1>3, UnrefContent
<1>4. CASE ReaderStep
  <2>1. CASE Alloc
    <3>1. cur \in Conns /\ (request' = request \/ \E r : request' = [request EXCEPT ![cur] = r])
      BY <1>0, <2>1, CurrentConn DEF Alloc, At, IInv, RefInv
    <3> QED
      BY <1>0, <2>1, <3>1 DEF Alloc, At
  <2>2. CASE \E d \in Conns : DropClosed(d)
    BY <1>3, <2>2 DEF DropClosed
  <2>3. CASE ~ Alloc /\ ~ \E d \in Conns : DropClosed(d)
    BY <1>1, <1>4, <2>3 DEF ReaderStep, Accept, Select, Wait, PassDone, Recv, Count, Launch, Ref,
                            NewTask, Load, WriteField
  <2> QED
    BY <2>1, <2>2, <2>3
<1>5. ASSUME NEW w \in Workers, WorkerStep(w)
      PROVE  request'[c] = request[c] \/ request'[c] = NULL
  <2>1. wpc[w] \in {"clear", "unref"} => wconn[w] \in Conns
    BY DEF IInv, RefInv, WorkerShape, TypeOK, WorkerTypeOK
  <2>2. CASE Clear(w)
    <3>1. request' = [request EXCEPT ![wconn[w]] = NULL] /\ wconn[w] \in Conns
      BY <2>1, <2>2 DEF Clear, WorkerAt
    <3> QED
      BY <1>0, <3>1
  <2>3. CASE UnrefConn(w)
    BY <1>3, <2>1, <2>3 DEF UnrefConn, WorkerAt
  <2>4. CASE ~ Clear(w) /\ ~ UnrefConn(w)
    BY <1>1, <1>5, <2>4 DEF WorkerStep, Take, Ready, Reset, Handle, Reply, FreeRequest
  <2> QED
    BY <2>2, <2>3, <2>4
<1>6. ASSUME NEW d \in Conns, PopTask(d) PROVE request' = request
  BY <1>6 DEF PopTask, Pop
<1> QED
  BY <1>1, <1>2, <1>4, <1>5, <1>6 DEF Next

\* Where the reader is changes by its own steps only.
LEMMA ReaderOnly ==
    ASSUME [Next]_vars, ~ ReaderStep
    PROVE  UNCHANGED <<conn_list, rpc, cur, line, item>>
<1>1. CASE (\E c \in Conns : ClientStep(c)) \/ BeingClosed \/ UNCHANGED vars
  BY <1>1, ClientsOnly
<1>2. ASSUME NEW w \in Workers, WorkerStep(w) PROVE UNCHANGED <<conn_list, rpc, cur, line, item>>
  BY <1>2 DEF WorkerStep, Take, Clear, Ready, Reset, Handle, Reply, UnrefConn, FreeRequest, WorkerElse
<1>3. ASSUME NEW c \in Conns, PopTask(c) PROVE UNCHANGED <<conn_list, rpc, cur, line, item>>
  BY <1>3 DEF PopTask, Pop
<1> QED
  BY <1>1, <1>2, <1>3 DEF Next

LEMMA WriterStep ==
    ASSUME IInv, FreshInv, [Next]_vars, rpc' = "write"
    PROVE  item' # NULL /\ \A c \in Conns : request'[c] = item' => c = cur'
<1>0. ConnTypeOK /\ RequestInv
  BY DEF IInv, RefInv, TypeOK
<1>1. CASE Load
  <2>1. request[cur] # NULL /\ item' = request[cur] /\ cur' = cur /\ request' = request /\ cur \in Conns
    BY <1>1, CurrentConn DEF Load, IInv, RefInv, At
  <2> QED
    BY <1>0, <2>1 DEF RequestInv
<1>2. CASE ReaderStep /\ ~ Load
  BY <1>2 DEF ReaderStep, DropClosed, Accept, Select, Wait, PassDone, Recv, Count, Alloc, Launch, Ref,
              NewTask, WriteField, BackToPass, ParseOrLaunch, At
<1>3. CASE ~ ReaderStep
  <2>1. UNCHANGED <<rpc, cur, item>>
    BY <1>3, ReaderOnly
  <2>2. item # NULL /\ \A c \in Conns : request[c] = item => c = cur
    BY <2>1 DEF FreshInv
  <2>3. \A c \in Conns : request'[c] = request[c] \/ request'[c] = NULL
    BY <2>1, RequestChanges
  <2> QED
    BY <2>1, <2>2, <2>3
<1> QED
  BY <1>1, <1>2, <1>3

\* The clients and the answers of a connection change only by the client's own steps, when it
\* is accepted and when a worker replies.
LEMMA UnbornTurn ==
    ASSUME IInv, FreshInv, [Next]_vars, NEW c \in Conns, client'[c] \in {"absent", "connecting"}
    PROVE  sent'[c] = 0 /\ answered'[c] = <<>> /\ input'[c] = <<>> /\ request'[c] = NULL
<1>0. TypeOK /\ ClientTypeOK /\ RefInv /\ WorkerTypeOK /\ WorkerShape
  BY DEF IInv, RefInv, TypeOK
<1>1. ASSUME client[c] \in {"absent", "connecting"}
      PROVE  /\ sent[c] = 0 /\ answered[c] = <<>> /\ input[c] = <<>> /\ request[c] = NULL
             /\ cur # c /\ c \notin conn_list
             /\ \A w \in Workers : wconn[w] # c
  <2>1. ref_count[c] = 0
    BY <1>1 DEF IInv, RefInv, Unborn
  <2> QED
    BY <1>0, <1>1, <2>1, HolderCounts DEF FreshInv, HeldBy
<1>2. CASE UNCHANGED vars \/ BeingClosed \/ \E d \in Conns : PopTask(d)
  BY <1>1, <1>2 DEF vars, BeingClosed, PopTask, Pop
<1>3. ASSUME NEW d \in Conns, ClientStep(d)
      PROVE  sent'[c] = 0 /\ answered'[c] = <<>> /\ input'[c] = <<>> /\ request'[c] = NULL
  <2>1. UNCHANGED <<answered, request>>
    BY <1>3, ClientsOnly
  <2>2. CASE Connect(d)
    <3>1. client[c] \in {"absent", "connecting"}
      BY <1>0, <2>2 DEF Connect, ClientTypeOK
    <3> QED
      BY <1>1, <2>1, <2>2, <3>1 DEF Connect
  <2>3. CASE ~ Connect(d)
    <3>1. /\ client[d] \notin {"absent", "connecting"} /\ client'[d] \notin {"absent", "connecting"}
          /\ d # c => client'[c] = client[c] /\ sent'[c] = sent[c] /\ input'[c] = input[c]
      BY <1>0, <1>3, <2>3 DEF ClientStep, SendLine, SendBlank, SendPart, FinishLine, Disconnect, Sends,
                              ClientTypeOK
    <3> QED
      BY <1>1, <2>1, <3>1
  <2> QED
    BY <2>2, <2>3
<1>4. CASE ReaderStep
  <2>1. UNCHANGED <<sent, answered>>
    BY <1>4 DEF ReaderStep, DropClosed, Accept, Select, Wait, PassDone, Recv, Count, Alloc, Launch, Ref,
                NewTask, Load, WriteField
  <2>2. client[c] \in {"absent", "connecting"}
    <3>1. ASSUME NEW d \in Conns, Accept(d) PROVE client[c] \in {"absent", "connecting"}
      BY <1>0, <3>1 DEF Accept, ClientTypeOK
    <3>2. CASE ~ \E d \in Conns : Accept(d)
      BY <1>4, <3>2 DEF ReaderStep, DropClosed, Select, Wait, PassDone, Recv, Count, Alloc, Launch, Ref,
                        NewTask, Load, WriteField
    <3> QED
      BY <3>1, <3>2
  <2>3. request'[c] = NULL
    BY <1>1, <2>2, RequestChanges
  <2>4. input'[c] = <<>>
    <3>1. rpc \notin {"wait", "accept", "pass"} => cur \in Conns \ {c}
      BY <1>0, <1>1, <2>2, CurrentConn DEF RefInv
    <3>2. input' = input \/ (cur \in Conns \ {c} /\ \E s : input' = [input EXCEPT ![cur] = s])
      BY <1>4, <3>1 DEF ReaderStep, DropClosed, Accept, Select, Wait, PassDone, Recv, Count, Alloc, Launch,
                        Ref, NewTask, Load, WriteField, CloseSession, At
    <3> QED
      BY <1>0, <1>1, <2>2, <3>2 DEF ClientTypeOK
  <2> QED
    BY <1>1, <2>1, <2>2, <2>3, <2>4
<1>5. ASSUME NEW w \in Workers, WorkerStep(w)
      PROVE  sent'[c] = 0 /\ answered'[c] = <<>> /\ input'[c] = <<>> /\ request'[c] = NULL
  <2>1. UNCHANGED <<sent, input>>
    BY <1>5 DEF WorkerStep, Take, Clear, Ready, Reset, Handle, Reply, UnrefConn, FreeRequest, WorkerElse
  <2>2. CASE Reply(w)
    <3>1. wconn[w] \in Conns
      BY <1>0, <2>2 DEF Reply, WorkerAt, WorkerShape, WorkerTypeOK
    <3>2. /\ wconn[w] # c => client'[c] = client[c] /\ answered'[c] = answered[c]
          /\ wconn[w] = c => client[c] \in {"absent", "connecting"}
      BY <1>0, <2>2, <3>1 DEF Reply, ClientTypeOK
    <3>3. request' = request
      BY <2>2 DEF Reply
    <3> QED
      BY <1>1, <2>1, <3>2, <3>3
  <2>3. CASE ~ Reply(w)
    <3>1. UNCHANGED <<client, answered>> /\ rpc' = rpc
      BY <1>5, <2>3 DEF WorkerStep, Take, Clear, Ready, Reset, Handle, UnrefConn, FreeRequest, WorkerElse
    <3> QED
      BY <1>1, <2>1, <3>1, RequestChanges
  <2> QED
    BY <2>2, <2>3
<1> QED
  BY <1>2, <1>3, <1>4, <1>5 DEF Next

LEMMA FreshStep ==
    ASSUME IInv, FreshInv, [Next]_vars
    PROVE  FreshInv'
BY FreeObjectsStep, WriterStep, UnbornTurn DEF FreshInv

\* A step that does not concern the connection, nor what a worker does for it.
Aside(c) ==
    /\ client'[c] = client[c] /\ sent'[c] = sent[c] /\ input'[c] = input[c]
    /\ answered'[c] = answered[c] /\ request'[c] = request[c] /\ queued'[c] = queued[c]
    /\ InReader(c)' <=> InReader(c)
    /\ Reading(c)' => Reading(c) /\ rpc' = rpc /\ line' = line
    /\ \A w \in Workers : /\ Busy(w, c)' <=> Busy(w, c)
                          /\ Busy(w, c) => wpc'[w] = wpc[w] /\ wreq'[w] = wreq[w]

\* The contents of the objects a connection has, and of those it had, stay as they are, unless
\* the reader adds a line.
LEMMA ContentKept ==
    ASSUME IInv, FreshInv, [Next]_vars, NEW c \in Conns,
           ~ (cur = c /\ (Launch \/ WriteField))
    PROVE  /\ request'[c] = request[c] /\ request[c] # NULL => content'[request[c]] = content[request[c]]
           /\ \A w \in Workers : Busy(w, c) /\ wreq[w] # NULL => content'[wreq[w]] = content[wreq[w]]
<1>0. /\ TypeOK /\ ConnTypeOK /\ WorkerTypeOK /\ RefInv /\ RequestInv /\ OneOwner /\ NULL \notin Requests
      /\ WorkerShape
  BY ReaderAssumption DEF IInv, RefInv, TypeOK
<1> SUFFICES ASSUME NEW r \in Requests,
                    \/ request'[c] = r /\ request[c] = r
                    \/ \E w \in Workers : Busy(w, c) /\ wreq[w] = r
             PROVE  content'[r] = content[r]
  BY <1>0 DEF ConnTypeOK, WorkerTypeOK
<1>1. CASE content' = content
  BY <1>1
<1>2. CASE (\E d \in Conns : ClientStep(d)) \/ BeingClosed \/ UNCHANGED vars
  BY <1>2, ClientsOnly
<1>3. ASSUME NEW d \in Conns, Unref(d), r = request[d], ref_count[d] = 1, request'[d] = NULL
      PROVE  \E w \in Workers : Busy(w, c) /\ wreq[w] = r /\ wpc[w] = "clear" /\ d = c
  <2>1. request[c] = r => d = c
    BY <1>0, <1>3 DEF RequestInv
  <2>2. PICK w \in Workers : Busy(w, c) /\ wreq[w] = r
    BY <1>0, <1>3, <2>1
  <2> QED
    BY <1>0, <1>3, <2>2 DEF OneOwner, Busy
<1>4. ASSUME NEW d \in Conns, Unref(d)
      PROVE  \/ content'[r] = content[r]
             \/ /\ d = c /\ ref_count[c] = 1
                /\ \E w \in Workers : Busy(w, c) /\ wreq[w] = r /\ wpc[w] = "clear"
  BY <1>0, <1>3, <1>4, UnrefContent
<1>5. CASE ReaderStep
  <2>1. CASE Launch \/ WriteField
    <3>1. cur \in Conns \ {c} /\ (rpc = "launch" \/ rpc = "write")
      BY <2>1, <1>0, CurrentConn DEF Launch, WriteField, At, RefInv
    <3>2. CASE Launch
      <4>1. \/ content' = content
            \/ content' = [q \in Requests |-> IF q = request[cur]
                                              THEN content[q] \cup {<<cur, line.of>>}
                                              ELSE content[q]]
        BY <3>2 DEF Launch
      <4>2. request[cur] # r
        BY <1>0, <3>1 DEF RequestInv, OneOwner, Busy
      <4> QED
        BY <1>0, <4>1, <4>2
    <3>3. CASE WriteField
      <4>1. \/ content' = content
            \/ item \in heap /\ ~ Taken(item)
               /\ content' = [content EXCEPT ![item] = @ \cup {<<cur, line.of>>}]
        BY <3>3 DEF WriteField
      <4>2. request[c] # item \/ item = NULL
        BY <3>1, <3>3 DEF FreshInv, WriteField, At
      <4>3. item # r \/ Taken(item)
        BY <1>0, <4>2 DEF Taken
      <4> QED
        BY <1>0, <4>1, <4>3 DEF ConnTypeOK
    <3> QED
      BY <2>1, <3>2, <3>3
  <2>2. ASSUME NEW d \in Conns, DropClosed(d) PROVE content'[r] = content[r]
    <3> SUFFICES ASSUME d = c, ref_count[c] = 1, NEW w \in Workers, Busy(w, c) PROVE FALSE
      BY <1>4, <2>2 DEF DropClosed
    <3> QED
      BY <1>0, <2>2, LastReference DEF DropClosed, Busy, HeldBy
  <2>3. CASE ~ Launch /\ ~ WriteField /\ ~ \E d \in Conns : DropClosed(d)
    BY <1>1, <1>5, <2>3 DEF ReaderStep, Accept, Select, Wait, PassDone, Recv, Count, Alloc, Ref,
                            NewTask, Load
  <2> QED
    BY <2>1, <2>2, <2>3
<1>6. ASSUME NEW v \in Workers, WorkerStep(v) PROVE content'[r] = content[r]
  <2>1. CASE FreeRequest(v)
    <3>1. wpc[v] = "free" /\ wreq[v] # NULL /\ content' = [content EXCEPT ![wreq[v]] = {}]
      BY <1>0, <2>1 DEF FreeRequest, WorkerAt, WorkerShape
    <3>2. wreq[v] # r
      BY <1>0, <3>1 DEF OneOwner, Busy
    <3> QED
      BY <1>0, <3>1, <3>2 DEF ConnTypeOK
  <2>2. CASE UnrefConn(v)
    <3>1. wconn[v] \in Conns /\ wpc[v] = "unref" /\ Unref(wconn[v])
      BY <1>0, <2>2 DEF UnrefConn, WorkerAt, WorkerShape, WorkerTypeOK
    <3> SUFFICES ASSUME wconn[v] = c, ref_count[c] = 1, NEW w \in Workers, Busy(w, c), wpc[w] = "clear"
                 PROVE  FALSE
      BY <1>4, <3>1
    <3> QED
      BY <1>0, <3>1, LastReference DEF Busy, HeldBy
  <2>3. CASE ~ FreeRequest(v) /\ ~ UnrefConn(v)
    BY <1>1, <1>6, <2>3 DEF WorkerStep, Take, Clear, Ready, Reset, Handle, Reply
  <2> QED
    BY <2>1, <2>2, <2>3
<1>7. ASSUME NEW d \in Conns, PopTask(d) PROVE content'[r] = content[r]
  BY <1>1, <1>7 DEF PopTask, Pop
<1> QED
  BY <1>2, <1>5, <1>6, <1>7 DEF Next

LEMMA AsideKeeps ==
    ASSUME IInv, FreshInv, [Next]_vars, NEW c \in Conns, TurnOf(c), Aside(c),
           ~ (cur = c /\ (Launch \/ WriteField))
    PROVE  TurnOf(c)'
<1>1. Turn(c)' = Turn(c)
  BY DEF Turn, Aside
<1>2. InFlight(c)' <=> InFlight(c)
  BY DEF InFlight, Aside
<1>3. RepliesTurn(c)'
  BY <1>1 DEF RepliesTurn, TurnOf, Aside
<1>4. LinesTurn(c)'
  BY <1>1 DEF LinesTurn, TurnOf, Aside
<1>5. ReadingTurn(c)'
  BY <1>1, <1>2 DEF ReadingTurn, TurnOf, Aside
<1>6. FlightTurn(c)'
  BY <1>2 DEF FlightTurn, TurnOf, Aside
<1>7. ContentTurn(c)'
  <2>1. /\ request[c] # NULL => content'[request[c]] = content[request[c]]
        /\ \A w \in Workers : Busy(w, c) /\ wreq[w] # NULL => content'[wreq[w]] = content[wreq[w]]
    BY ContentKept DEF Aside
  <2>2. ContentTurn(c)
    BY DEF TurnOf
  <2>3. request'[c] # NULL => content'[request'[c]] \subseteq {<<c, Turn(c)'>>}
    BY <1>1, <2>1, <2>2 DEF ContentTurn, Aside
  <2>4. InReader(c)' \/ queued'[c] # 0 =>
           request'[c] # NULL /\ content'[request'[c]] = {<<c, Turn(c)'>>}
    BY <1>1, <2>1, <2>2 DEF ContentTurn, Aside
  <2>5. ASSUME NEW w \in Workers, Busy(w, c)'
        PROVE  /\ wpc'[w] = "take" => request'[c] # NULL /\ content'[request'[c]] = {<<c, Turn(c)'>>}
               /\ wpc'[w] = "clear" => request'[c] = wreq'[w]
               /\ wpc'[w] \notin {"take", "clear"} => request'[c] = NULL
               /\ wpc'[w] # "take" => wreq'[w] # NULL /\ content'[wreq'[w]] = {<<c, Turn(c)'>>}
    <3>1. Busy(w, c) /\ wpc'[w] = wpc[w] /\ wreq'[w] = wreq[w] /\ request'[c] = request[c]
      BY <2>5 DEF Aside
    <3> QED
      BY <1>1, <2>1, <2>2, <3>1 DEF ContentTurn
  <2> QED
    BY <2>3, <2>4, <2>5 DEF ContentTurn
<1> QED
  BY <1>3, <1>4, <1>5, <1>6, <1>7 DEF TurnOf

\* The steps that do concern it.
About(c) ==
    \/ ClientStep(c) \/ Accept(c) \/ DropClosed(c)
    \/ cur = c /\ (Recv \/ Count \/ Alloc \/ Launch \/ Ref \/ NewTask \/ Load \/ WriteField)
    \/ \E w \in Workers : Pop(w, c) \/ (wconn[w] = c /\ WorkerStep(w))

LEMMA WorkersApart ==
    ASSUME NEW c \in Conns, NEW v \in Workers, wconn[v] # c,
           \A w \in Workers \ {v} : wpc'[w] = wpc[w] /\ wconn'[w] = wconn[w] /\ wreq'[w] = wreq[w],
           wconn'[v] # c
    PROVE  \A w \in Workers : /\ Busy(w, c)' <=> Busy(w, c)
                              /\ Busy(w, c) => wpc'[w] = wpc[w] /\ wreq'[w] = wreq[w]
BY DEF Busy

LEMMA AsideSteps ==
    ASSUME IInv, [Next]_vars, NEW c \in Conns, ~ About(c)
    PROVE  Aside(c)
<1>0. /\ ConnTypeOK /\ WorkerTypeOK /\ ClientTypeOK /\ WorkerShape /\ RefInv /\ NULL \notin Conns
  BY ReaderAssumption DEF IInv, RefInv, TypeOK
<1>1. ASSUME UNCHANGED workerVars
      PROVE  \A w \in Workers : /\ Busy(w, c)' <=> Busy(w, c)
                                /\ Busy(w, c) => wpc'[w] = wpc[w] /\ wreq'[w] = wreq[w]
  BY <1>1 DEF Busy
<1>2. ASSUME UNCHANGED <<rpc, cur, line>>
      PROVE  /\ InReader(c)' <=> InReader(c)
             /\ Reading(c)' => Reading(c) /\ rpc' = rpc /\ line' = line
  BY <1>2 DEF InReader, Reading
<1>3. CASE UNCHANGED vars \/ BeingClosed
  <2>1. UNCHANGED <<client, sent, input, answered, request, queued, rpc, cur, line, workerVars>>
    BY <1>3 DEF vars, BeingClosed
  <2> QED
    BY <1>1, <1>2, <2>1 DEF Aside
<1>4. ASSUME NEW d \in Conns, ClientStep(d) PROVE Aside(c)
  <2>1. UNCHANGED <<answered, request, queued, rpc, cur, line, workerVars>>
    BY <1>4, ClientsOnly, WorkersUntouched
  <2>2. d # c
    BY <1>4 DEF About
  <2>3. client'[c] = client[c] /\ sent'[c] = sent[c] /\ input'[c] = input[c]
    BY <1>0, <1>4, <2>2 DEF ClientStep, Connect, SendLine, SendBlank, SendPart, FinishLine, Disconnect,
                            Sends, ClientTypeOK
  <2> QED
    BY <1>1, <1>2, <2>1, <2>3 DEF Aside
<1>5. CASE ReaderStep
  <2>1. UNCHANGED <<sent, answered, workerVars>>
    BY <1>5 DEF ReaderStep, DropClosed, Accept, Select, Wait, PassDone, Recv, Count, Alloc, Launch, Ref,
                NewTask, Load, WriteField
  <2>2. ASSUME NEW d \in Conns, DropClosed(d) PROVE Aside(c)
    <3>1. d # c /\ Unref(d) /\ UNCHANGED <<client, input, queued, rpc, cur, line>>
      BY <2>2 DEF DropClosed, About
    <3>2. request'[c] = request[c]
      BY <1>0, <3>1, UnrefContent DEF RefInv
    <3> QED
      BY <1>1, <1>2, <2>1, <3>1, <3>2 DEF Aside
  <2>3. ASSUME NEW d \in Conns, Accept(d) \/ Select(d) \/ Wait \/ PassDone PROVE Aside(c)
    <3>1. UNCHANGED <<input, queued, request>>
          /\ rpc \in {"wait", "accept", "pass"} /\ rpc' \in {"wait", "accept", "pass", "recv"}
      BY <2>3 DEF Accept, Select, Wait, PassDone, At
    <3>2. client'[c] = client[c]
      <4>1. Accept(d) => d # c
        BY DEF About
      <4> QED
        BY <1>0, <2>3, <4>1 DEF Accept, Select, Wait, PassDone, ClientTypeOK
    <3> QED
      BY <1>1, <2>1, <3>1, <3>2 DEF Aside, InReader, Reading
  <2>4. CASE Recv \/ Count \/ Alloc \/ Launch \/ Ref \/ NewTask \/ Load \/ WriteField
    <3>1. cur \in Conns \ {c} /\ cur' \in {cur, NULL}
      BY <1>0, <2>4, CurrentConn DEF Recv, Count, Alloc, Launch, Ref, NewTask, Load, WriteField, At, RefInv,
                                     About, BackToPass
    <3>2. client' = client
      BY <2>4 DEF Recv, Count, Alloc, Launch, Ref, NewTask, Load, WriteField
    <3>3. input'[c] = input[c]
      <4>1. input' = input \/ \E s : input' = [input EXCEPT ![cur] = s]
        BY <2>4 DEF Recv, Count, Alloc, Launch, Ref, NewTask, Load, WriteField, CloseSession
      <4> QED
        BY <1>0, <3>1, <4>1 DEF ClientTypeOK
    <3>4. request'[c] = request[c]
      <4>1. request' = request \/ \E s : request' = [request EXCEPT ![cur] = s]
        BY <2>4 DEF Recv, Count, Alloc, Launch, Ref, NewTask, Load, WriteField
      <4> QED
        BY <1>0, <3>1, <4>1 DEF ConnTypeOK
    <3>5. queued'[c] = queued[c]
      <4>1. queued' = queued \/ \E s : queued' = [queued EXCEPT ![cur] = s]
        BY <2>4 DEF Recv, Count, Alloc, Launch, Ref, NewTask, Load, WriteField
      <4> QED
        BY <1>0, <3>1, <4>1 DEF WorkerTypeOK
    <3> QED
      BY <1>0, <1>1, <2>1, <3>1, <3>2, <3>3, <3>4, <3>5 DEF Aside, InReader, Reading
  <2> QED
    BY <1>5, <2>2, <2>3, <2>4 DEF ReaderStep
<1>6. ASSUME NEW v \in Workers, NEW d \in Conns, Pop(v, d) PROVE Aside(c)
  <2>1. d # c
    BY <1>6 DEF About
  <2>2. /\ UNCHANGED <<client, sent, input, answered, request, rpc, cur, line, wreq>>
        /\ queued'[c] = queued[c] /\ wconn[v] = NULL /\ wconn'[v] \in {NULL, d}
    BY <1>0, <1>6, <2>1 DEF Pop, WorkerAt, WorkerShape, WorkerTypeOK
  <2>3. \A w \in Workers \ {v} : wpc'[w] = wpc[w] /\ wconn'[w] = wconn[w] /\ wreq'[w] = wreq[w]
    BY <1>0, <1>6 DEF Pop, WorkerTypeOK
  <2> QED
    BY <1>0, <1>2, <2>1, <2>2, <2>3, WorkersApart DEF Aside
<1>7. ASSUME NEW v \in Workers, WorkerStep(v) PROVE Aside(c)
  <2>1. wconn[v] # c
    BY <1>7 DEF About
  <2>2. UNCHANGED <<sent, input, queued, rpc, cur, line>> /\ wconn'[v] \in {wconn[v], NULL}
    BY <1>0, <1>7 DEF WorkerStep, Take, Clear, Ready, Reset, Handle, Reply, UnrefConn, FreeRequest,
                      WorkerElse, WorkerTypeOK
  <2>3. \A w \in Workers \ {v} : wpc'[w] = wpc[w] /\ wconn'[w] = wconn[w] /\ wreq'[w] = wreq[w]
    BY <1>0, <1>7 DEF WorkerStep, Take, Clear, Ready, Reset, Handle, Reply, UnrefConn, FreeRequest,
                      WorkerTypeOK
  <2>4. wpc[v] \notin {"idle", "free"} => wconn[v] \in Conns
    BY <1>0 DEF WorkerShape, WorkerTypeOK
  <2>5. client'[c] = client[c] /\ answered'[c] = answered[c] /\ request'[c] = request[c]
    <3>1. CASE Reply(v)
      BY <1>0, <2>1, <2>4, <3>1 DEF Reply, WorkerAt, ClientTypeOK
    <3>2. CASE Clear(v)
      BY <1>0, <2>1, <2>4, <3>2 DEF Clear, WorkerAt, ConnTypeOK
    <3>3. CASE UnrefConn(v)
      <4>1. wconn[v] \in Conns \ {c} /\ Unref(wconn[v]) /\ UNCHANGED <<client, answered>>
        BY <2>1, <2>4, <3>3 DEF UnrefConn, WorkerAt
      <4> QED
        BY <4>1, <1>0, UnrefContent DEF RefInv
    <3>4. CASE ~ Reply(v) /\ ~ Clear(v) /\ ~ UnrefConn(v)
      BY <1>7, <3>4 DEF WorkerStep, Take, Ready, Reset, Handle, FreeRequest
    <3> QED
      BY <3>1, <3>2, <3>3, <3>4
  <2> QED
    BY <1>0, <1>2, <2>1, <2>2, <2>3, <2>5, WorkersApart DEF Aside
<1> QED
  BY <1>3, <1>4, <1>5, <1>6, <1>7 DEF Next, PopTask

\* The client that writes sends the lines of its turn; after the blank one it waits.
LEMMA ClientTurn ==
    ASSUME IInv, NEW c \in Conns, Waits(c), TurnOf(c), ClientStep(c), Waits(c)'
    PROVE  TurnOf(c)'
<1>0. /\ client \in [Conns -> {"absent", "connecting", "writing", "waiting", "unanswered",
                               "streaming", "gone"}]
      /\ sent[c] \in Nat /\ input[c] \in Seq(Line) /\ input \in [Conns -> Seq(Line)]
      /\ sent \in [Conns -> Nat]
  BY DEF IInv, RefInv, TypeOK, ClientTypeOK
<1>1. UNCHANGED <<request, rpc, cur, line, queued, wpc, wconn, wreq, content, answered>>
  BY ClientsOnly
<1>2. /\ client[c] = "writing" /\ client'[c] \in {"writing", "waiting"}
      /\ SendLine(c) \/ SendPart(c) \/ SendBlank(c) \/ FinishLine(c)
  BY <1>0 DEF ClientStep, Connect, SendLine, SendBlank, SendPart, FinishLine, Disconnect, Sends, Waits
<1>3. Turn(c)' = Turn(c) /\ (InFlight(c)' <=> InFlight(c)) /\ (Reading(c)' <=> Reading(c))
  BY <1>1 DEF Turn, InFlight, InReader, Busy, Reading
<1>4. Turn(c) = sent[c] + 1 /\ ~ InFlight(c)
  BY <1>2 DEF TurnOf, RepliesTurn, FlightTurn
<1>5. RepliesTurn(c)'
  <2>1. Turn(c) = IF client'[c] = "writing" THEN sent'[c] + 1 ELSE sent'[c]
    BY <1>0, <1>2, <1>4 DEF SendLine, SendPart, SendBlank, FinishLine
  <2> QED
    BY <1>1, <1>3, <2>1 DEF RepliesTurn, TurnOf
<1>6. LinesTurn(c)'
  <2>0. \A i \in 1..Len(input[c]) :
           input[c][i].of = Turn(c) /\ input[c][i].kind # "eof" /\ input[c][i].kind # "blank"
    BY <1>2 DEF TurnOf, LinesTurn
  <2>1. CASE FinishLine(c)
    <3>1. input'[c] = Ended(input[c], "attr") /\ input[c] # <<>>
      BY <1>0, <2>1 DEF FinishLine, Unfinished
    <3>2. Len(input[c]) \in 1..Len(input[c])
      BY <1>0, <3>1, EmptySeq
    <3>3. /\ Len(input'[c]) = Len(input[c])
          /\ \A i \in 1..Len(input[c]) :
                input'[c][i] = IF i = Len(input[c])
                               THEN [kind |-> "attr", of |-> input[c][Len(input[c])].of]
                               ELSE input[c][i]
      BY <1>0, <3>1, <3>2 DEF Ended
    <3>4. \A i \in 1..Len(input'[c]) :
             input'[c][i].of = Turn(c) /\ input'[c][i].kind # "eof" /\ input'[c][i].kind # "blank"
      BY <2>0, <3>2, <3>3
    <3> QED
      BY <1>3, <3>4 DEF LinesTurn
  <2>2. ASSUME NEW kind \in {"attr", "malformed", "checkserver", "part", "blank"}, Sends(c, kind),
               kind = "blank" => client'[c] = "waiting"
        PROVE  LinesTurn(c)'
    <3> DEFINE l == [kind |-> kind, of |-> sent[c] + 1]
    <3>1. input'[c] = Append(input[c], l)
      BY <1>0, <2>2 DEF Sends
    <3>2. Len(input'[c]) = Len(input[c]) + 1 /\ Len(input[c]) \in Nat
      BY <1>0, <3>1
    <3>3. \A i \in 1..Len(input'[c]) :
             \/ i = Len(input'[c]) /\ input'[c][i] = l
             \/ i \in 1..Len(input[c]) /\ input'[c][i] = input[c][i]
      BY <1>0, <3>1, <3>2
    <3>4. l.of = Turn(c) /\ l.kind = kind
      BY <1>4
    <3> HIDE DEF l
    <3> QED
      BY <1>3, <2>0, <2>2, <3>3, <3>4 DEF LinesTurn
  <2>3. CASE SendLine(c)
    BY <2>2, <2>3, ReaderAssumption DEF SendLine
  <2>4. CASE SendPart(c)
    BY <2>2, <2>4 DEF SendPart
  <2>5. CASE SendBlank(c)
    <3>1. client'[c] = "waiting" /\ Sends(c, "blank")
      BY <1>0, <1>2, <2>5 DEF SendBlank
    <3> QED
      BY <2>2, <3>1
  <2> QED
    BY <1>2, <2>1, <2>3, <2>4, <2>5
<1>7. ReadingTurn(c)'
  <2>1. Reading(c) => line.kind # "blank"
    BY <1>2 DEF TurnOf, ReadingTurn
  <2> QED
    BY <1>1, <1>3, <2>1 DEF TurnOf, ReadingTurn
<1>8. ContentTurn(c)'
  BY <1>1, <1>3 DEF TurnOf, ContentTurn, InReader, Busy
<1>9. FlightTurn(c)'
  BY <1>3, <1>4 DEF FlightTurn, InFlight
<1> QED
  BY <1>5, <1>6, <1>7, <1>8, <1>9 DEF TurnOf

\* A connection that is accepted is new.
LEMMA AcceptTurn ==
    ASSUME IInv, FreshInv, NEW c \in Conns, Accept(c), Waits(c)'
    PROVE  TurnOf(c)'
<1>0. /\ TypeOK /\ ClientTypeOK /\ WorkerTypeOK /\ RefInv /\ NULL \notin Conns
  BY ReaderAssumption DEF IInv, RefInv, TypeOK
<1>1. /\ sent[c] = 0 /\ answered[c] = <<>> /\ input[c] = <<>> /\ request[c] = NULL /\ ref_count[c] = 0
  BY DEF Accept, FreshInv, IInv, RefInv, Unborn
<1>2. cur # c /\ queued[c] = 0 /\ \A w \in Workers : wconn[w] # c
  BY <1>0, <1>1, HolderCounts DEF HeldBy
<1>3. /\ client'[c] = "writing" /\ rpc' = "pass"
      /\ UNCHANGED <<sent, answered, input, request, cur, queued, wconn>>
  BY <1>0 DEF Accept, ClientTypeOK, Waits
<1>4. ~ InFlight(c)' /\ ~ Reading(c)' /\ ~ InReader(c)' /\ \A w \in Workers : ~ Busy(w, c)'
  BY <1>2, <1>3 DEF InFlight, InReader, Busy, Reading
<1>5. Len(answered'[c]) = 0 /\ Len(input'[c]) = 0
  BY <1>1, <1>3
<1>6. RepliesTurn(c)' /\ LinesTurn(c)'
  BY <1>1, <1>3, <1>5 DEF RepliesTurn, LinesTurn, Turn
<1>7. ReadingTurn(c)' /\ FlightTurn(c)'
  BY <1>4 DEF ReadingTurn, FlightTurn
<1>8. ContentTurn(c)'
  BY <1>1, <1>2, <1>3, <1>4 DEF ContentTurn
<1> QED
  BY <1>6, <1>7, <1>8 DEF TurnOf

\* What is left in the reader's list when the session has been closed may go.
LEMMA DropTurn ==
    ASSUME IInv, FreshInv, [Next]_vars, NEW c \in Conns, TurnOf(c), DropClosed(c)
    PROVE  TurnOf(c)'
<1>0. /\ TypeOK /\ WorkerTypeOK /\ RefInv /\ NULL \notin Conns /\ c \in conn_list /\ At("wait")
  BY ReaderAssumption DEF IInv, RefInv, TypeOK, DropClosed
<1>1. UNCHANGED <<client, sent, input, answered, rpc, cur, line, queued, workerVars>>
  BY DEF DropClosed
<1>2. ~ InReader(c) /\ ~ Reading(c) /\ (\A w \in Workers : Busy(w, c)' <=> Busy(w, c))
  BY <1>0, <1>1 DEF InReader, Reading, Busy, At
<1>3. CASE request' = request
  <2>1. Aside(c)
    BY <1>1, <1>3 DEF Aside, InReader, Reading, Busy
  <2>2. ~ (cur = c /\ (Launch \/ WriteField))
    BY <1>0 DEF At, Launch, WriteField
  <2> QED
    BY <2>1, <2>2, AsideKeeps
<1>4. CASE ref_count[c] = 1 /\ request'[c] = NULL
  <2>1. HeldBy(c) = {} /\ queued[c] = 0
    <3>1. /\ IsFiniteSet(HeldBy(c)) /\ Cardinality(HeldBy(c)) \in Nat
          /\ InList(c) \in Nat /\ InTask(c) \in Nat /\ queued[c] \in Nat /\ dropped[c] \in Nat
      BY <1>0, HolderTerms DEF RefInv
    <3>2. Holders(c) = 1 /\ InList(c) = 1
      BY <1>0, <1>4 DEF RefInv, RefsAreHolders, InList
    <3> QED
      BY <1>0, <1>4, <3>1, <3>2, LastReference DEF Holders
  <2>2. ~ InFlight(c) /\ ~ InFlight(c)' /\ (\A w \in Workers : ~ Busy(w, c)') /\ ~ InReader(c)'
    BY <1>1, <1>2, <2>1 DEF InFlight, InReader, Busy, HeldBy
  <2>3. RepliesTurn(c)' /\ LinesTurn(c)'
    BY <1>1 DEF TurnOf, RepliesTurn, LinesTurn, Turn
  <2>4. ReadingTurn(c)' /\ FlightTurn(c)'
    BY <1>1, <1>2, <2>2 DEF ReadingTurn, FlightTurn, Reading
  <2>5. ContentTurn(c)'
    BY <1>1, <1>4, <2>1, <2>2 DEF ContentTurn
  <2> QED
    BY <2>3, <2>4, <2>5 DEF TurnOf
<1> QED
  BY <1>0, <1>3, <1>4, UnrefContent DEF DropClosed

\* The reader's steps on the connection it is at.
LEMMA ReaderTurn ==
    ASSUME IInv, FreshInv, [Next]_vars, NEW c \in Conns, Waits(c), TurnOf(c), cur = c,
           Recv \/ Count \/ Alloc \/ Launch \/ Ref \/ NewTask \/ Load \/ WriteField
    PROVE  TurnOf(c)'
<1>0. /\ TypeOK /\ ConnTypeOK /\ ClientTypeOK /\ WorkerTypeOK /\ RefInv /\ ReaderShape /\ RequestInv
      /\ NULL \notin Conns /\ NULL \notin Requests /\ LaunchInv
  BY ReaderAssumption DEF IInv, RefInv, TypeOK
<1>1. UNCHANGED <<client, sent, answered, workerVars>>
  BY DEF Recv, Count, Alloc, Launch, Ref, NewTask, Load, WriteField
<1>2. Turn(c)' = Turn(c) /\ (\A w \in Workers : Busy(w, c)' <=> Busy(w, c))
  BY <1>1 DEF Turn, Busy
<1>3. RepliesTurn(c)'
  BY <1>1, <1>2 DEF TurnOf, RepliesTurn
<1>4. CASE Ref \/ NewTask
  <2>1. InReader(c) /\ rpc \in {"ref", "task"} /\ UNCHANGED <<input, request, content>>
    BY <1>4 DEF Ref, NewTask, At, InReader
  <2>2. ~ Reading(c)' /\ (\A w \in Workers : ~ Busy(w, c)') /\ InFlight(c)
    BY <1>0, <1>2, <1>4, <2>1 DEF Reading, Ref, NewTask, BackToPass, TurnOf, FlightTurn, InFlight
  <2>3. client[c] = "waiting" /\ input[c] = <<>>
    BY <2>2 DEF TurnOf, FlightTurn
  <2>4. LinesTurn(c)' /\ ReadingTurn(c)'
    BY <1>1, <1>2, <2>1, <2>2 DEF TurnOf, LinesTurn, ReadingTurn
  <2>5. FlightTurn(c)'
    BY <1>1, <2>1, <2>2, <2>3 DEF FlightTurn
  <2>6. request[c] # NULL /\ content[request[c]] = {<<c, Turn(c)>>}
    BY <2>1 DEF TurnOf, ContentTurn
  <2>7. ContentTurn(c)'
    BY <1>2, <2>1, <2>2, <2>6 DEF ContentTurn
  <2> QED
    BY <1>3, <2>4, <2>5, <2>7 DEF TurnOf
<1>5. CASE Recv \/ Count \/ Alloc \/ Launch \/ Load \/ WriteField
  <2>0. UNCHANGED queued
    BY <1>5 DEF Recv, Count, Alloc, Launch, Load, WriteField
  <2>1. ~ InFlight(c)
    <3>1. CASE Recv
      BY <1>0, <3>1 DEF Recv, At, ReaderShape, TurnOf, FlightTurn
    <3>2. CASE ~ Recv
      BY <1>5, <3>2 DEF Count, Alloc, Launch, Load, WriteField, At, Reading, TurnOf, ReadingTurn
    <3> QED
      BY <3>1, <3>2
  <2>2. queued'[c] = 0 /\ \A w \in Workers : ~ Busy(w, c)'
    BY <1>2, <2>0, <2>1 DEF InFlight
  <2>3. CASE Recv \/ Count \/ Alloc \/ Load \/ WriteField
    <3>1. ~ InReader(c)' /\ ~ InFlight(c)'
      BY <1>0, <2>2, <2>3 DEF Recv, Count, Alloc, Load, WriteField, At, BackToPass, ParseOrLaunch, InReader,
                              InFlight
    <3>2. FlightTurn(c)'
      BY <2>2, <3>1 DEF FlightTurn
    <3>3. LinesTurn(c)'
      <4>1. CASE input'[c] = input[c] \/ input'[c] = <<>>
        BY <1>1, <1>2, <4>1 DEF TurnOf, LinesTurn
      <4>2. CASE Recv
        <5>1. input'[c] = input[c] \/ input'[c] = <<>> \/ input'[c] = Tail(input[c])
          BY <1>0, <4>2 DEF Recv, CloseSession, ClientTypeOK
        <5>2. ASSUME input'[c] = Tail(input[c]) PROVE LinesTurn(c)'
          <6>1. input[c] \in Seq(Line) /\ input[c] # <<>>
            BY <1>0, <4>2 DEF Recv, At, ReaderShape, ClientTypeOK
          <6>2. /\ Len(input'[c]) = Len(input[c]) - 1 /\ Len(input[c]) \in Nat \ {0}
                /\ \A i \in 1..Len(input'[c]) : input'[c][i] = input[c][i + 1]
            BY <5>2, <6>1
          <6>3. \A i \in 1..Len(input'[c]) : i + 1 \in 1..Len(input[c])
            BY <6>2
          <6>4. \A i \in 1..Len(input'[c]) : i + 1 = Len(input[c]) => i = Len(input'[c])
            BY <6>2
          <6> QED
            BY <1>1, <1>2, <6>2, <6>3, <6>4 DEF TurnOf, LinesTurn
        <5> QED
          BY <4>1, <5>1, <5>2
      <4>3. CASE ~ Recv
        <5>1. input' = input \/ input' = [input EXCEPT ![c] = <<>>]
          BY <2>3, <4>3 DEF Count, Alloc, Load, WriteField, CloseSession
        <5> QED
          BY <1>0, <4>1, <5>1 DEF ClientTypeOK
      <4> QED
        BY <4>2, <4>3
    <3>4. ContentTurn(c)'
      <4>1. CASE Alloc
        <5>1. content' = content
          BY <4>1 DEF Alloc
        <5>2. request'[c] = request[c] \/ (request'[c] \in Requests \ heap)
          BY <1>0, <4>1 DEF Alloc, ConnTypeOK
        <5>3. request'[c] # NULL => content'[request'[c]] \subseteq {<<c, Turn(c)>>}
          BY <5>1, <5>2 DEF TurnOf, ContentTurn, FreshInv
        <5> QED
          BY <1>2, <2>2, <3>1, <5>3 DEF ContentTurn
      <4>2. CASE WriteField
        <5>1. /\ request' = request
              /\ \/ content' = content
                 \/ item \in heap /\ content' = [content EXCEPT ![item] = @ \cup {<<c, line.of>>}]
          BY <4>2 DEF WriteField
        <5>2. line.of = Turn(c)
          BY <4>2 DEF WriteField, At, Reading, TurnOf, ReadingTurn
        <5>3. request[c] # NULL => content'[request[c]] \subseteq {<<c, Turn(c)>>}
          <6>1. request[c] # NULL => content[request[c]] \subseteq {<<c, Turn(c)>>}
            BY DEF TurnOf, ContentTurn
          <6>2. request[c] # NULL => request[c] \in Requests
            BY <1>0 DEF ConnTypeOK
          <6>3. content \in [Requests -> SUBSET (Conns \X Nat)]
            BY <1>0 DEF ConnTypeOK
          <6> QED
            BY <5>1, <5>2, <6>1, <6>2, <6>3
        <5> QED
          BY <1>2, <2>2, <3>1, <5>1, <5>3 DEF ContentTurn
      <4>3. CASE ~ Alloc /\ ~ WriteField
        <5>1. UNCHANGED <<request, content>>
          BY <2>3, <4>3 DEF Recv, Count, Load
        <5> QED
          BY <1>2, <2>2, <3>1, <5>1 DEF TurnOf, ContentTurn
      <4> QED
        BY <4>1, <4>2, <4>3
    <3>5. ReadingTurn(c)'
      <4> SUFFICES ASSUME Reading(c)'
                   PROVE  /\ line'.of = Turn(c) /\ line'.kind \in {"attr", "malformed", "blank"}
                          /\ line'.kind = "blank" => client[c] = "waiting" /\ input'[c] = <<>>
                          /\ rpc' = "launch" => line'.kind = "blank"
                          /\ rpc' \in {"launch", "load", "write"} => request'[c] # NULL
        BY <1>1, <1>2, <3>1 DEF ReadingTurn
      <4>1. CASE Recv
        <5>1. input[c] \in Seq(Line) /\ input[c] # <<>>
          BY <1>0, <4>1 DEF Recv, At, ReaderShape, ClientTypeOK
        <5>2. Head(input[c]) = input[c][1] /\ 1 \in 1..Len(input[c]) /\ input[c][1] \in Line
          BY <5>1
        <5>3. /\ line' = input[c][1] /\ line'.kind # "checkserver" /\ line'.kind # "part" /\ rpc' = "count"
              /\ line'.kind # "eof" => input' = [input EXCEPT ![c] = Tail(@)]
          BY <1>0, <4>1, <5>2 DEF Recv, Reading, BackToPass
        <5>4. /\ line'.of = Turn(c) /\ line'.kind # "eof"
              /\ line'.kind = "blank" => Len(input[c]) = 1 /\ client[c] = "waiting"
          BY <5>2, <5>3 DEF TurnOf, LinesTurn
        <5>5. input'[c] = Tail(input[c])
          BY <1>0, <5>3, <5>4 DEF ClientTypeOK
        <5>6. ASSUME Len(input[c]) = 1 PROVE input'[c] = <<>>
          <6>1. Tail(input[c]) \in Seq(Line) /\ Len(Tail(input[c])) = Len(input[c]) - 1
            BY <5>1, HeadTailProperties
          <6>2. ~ (Len(Tail(input[c])) \in Nat \ {0})
            BY <5>6, <6>1
          <6> QED
            BY <5>5, <6>1, <6>2, EmptySeq
        <5>7. line'.kind \in {"attr", "malformed", "blank"}
          BY <5>2, <5>3, <5>4 DEF Line
        <5> QED
          BY <5>3, <5>4, <5>6, <5>7
      <4>2. CASE ~ Recv
        <5>1. Reading(c)
          BY <2>3, <4>2 DEF Count, Alloc, Load, WriteField, At, Reading
        <5>2. /\ line.of = Turn(c) /\ line.kind \in {"attr", "malformed", "blank"}
              /\ line.kind = "blank" => client[c] = "waiting" /\ input[c] = <<>>
          BY <5>1 DEF TurnOf, ReadingTurn
        <5>3. cur' = c
          BY DEF Reading
        <5>4. CASE Count
          BY <1>0, <5>2, <5>3, <5>4 DEF Count, BackToPass
        <5>5. CASE Load
          <6>1. UNCHANGED <<line, input, request>> /\ (rpc' = "load" \/ rpc' = "write")
            BY <5>5 DEF Load, At
          <6>2. request[c] # NULL
            BY <5>1, <5>5 DEF Load, At, TurnOf, ReadingTurn
          <6> QED
            BY <5>2, <6>1, <6>2
        <5>6. CASE Alloc
          <6>1. UNCHANGED <<line, input>> /\ rpc' = ParseOrLaunch(line.kind) /\ line.kind # "malformed"
            BY <1>0, <5>3, <5>6 DEF Alloc, BackToPass
          <6>2. request'[c] # NULL
            BY <1>0, <5>6 DEF Alloc, ConnTypeOK
          <6> QED
            BY <5>2, <6>1, <6>2 DEF ParseOrLaunch
        <5>7. CASE WriteField
          BY <1>0, <5>3, <5>7 DEF WriteField, BackToPass
        <5> QED
          BY <2>3, <4>2, <5>4, <5>5, <5>6, <5>7
      <4> QED
        BY <4>1, <4>2
    <3> QED
      BY <1>3, <3>2, <3>3, <3>4, <3>5 DEF TurnOf
  <2>4. CASE Launch
    <3>1. /\ line.of = Turn(c) /\ client[c] = "waiting" /\ input[c] = <<>> /\ request[c] # NULL
          /\ content[request[c]] \subseteq {<<c, Turn(c)>>}
      BY <2>4 DEF Launch, At, Reading, TurnOf, ReadingTurn, ContentTurn
    <3>2. input'[c] = <<>> /\ request' = request
      BY <1>0, <2>4, <3>1 DEF Launch, CloseSession, ClientTypeOK
    <3>3. ~ Reading(c)'
      BY <1>0, <2>4 DEF Launch, BackToPass, Reading
    <3>4. LinesTurn(c)' /\ ReadingTurn(c)' /\ FlightTurn(c)'
      BY <1>1, <2>2, <3>1, <3>2, <3>3 DEF LinesTurn, ReadingTurn, FlightTurn
    <3>5. CASE process_launched[c]
      <4>1. ~ InReader(c)' /\ content' = content
        BY <1>0, <2>4, <3>5 DEF Launch, BackToPass, InReader
      <4> QED
        BY <1>2, <1>3, <2>2, <3>1, <3>2, <3>4, <4>1 DEF TurnOf, ContentTurn
    <3>6. CASE ~ process_launched[c]
      <4>1. content' = [r \in Requests |-> IF r = request[c] THEN content[r] \cup {<<c, line.of>>}
                                           ELSE content[r]]
        BY <2>4, <3>6 DEF Launch
      <4>2. content'[request[c]] = {<<c, Turn(c)>>}
        <5>1. request[c] \in Requests
          BY <1>0, <3>1 DEF ConnTypeOK
        <5> QED
          BY <3>1, <4>1, <5>1
      <4> QED
        BY <1>2, <1>3, <2>2, <3>1, <3>2, <3>4, <4>2 DEF TurnOf, ContentTurn
    <3> QED
      BY <3>5, <3>6
  <2> QED
    BY <1>5, <2>3, <2>4
<1> QED
  BY <1>4, <1>5

\* The steps of a worker on the connection whose request it has.
LEMMA PopTurn ==
    ASSUME IInv, FreshInv, [Next]_vars, NEW c \in Conns, TurnOf(c), NEW v \in Workers, Pop(v, c)
    PROVE  TurnOf(c)'
<1>0. /\ TypeOK /\ WorkerTypeOK /\ WorkerShape /\ LaunchInv /\ NULL \notin Conns
  BY ReaderAssumption DEF IInv, RefInv, TypeOK
<1>1. /\ UNCHANGED <<client, sent, input, answered, request, content, rpc, cur, line, wreq>>
      /\ wpc[v] = "idle" /\ wconn[v] = NULL /\ queued[c] # 0 /\ queued'[c] = queued[c] - 1
  BY <1>0 DEF Pop, WorkerAt, WorkerShape, WorkerTypeOK
<1>2. queued[c] = 1 /\ ~ InReader(c)
  BY <1>0, <1>1 DEF LaunchInv, WorkerTypeOK
<1>3. queued'[c] = 0 /\ \A w \in Workers : ~ Busy(w, c)
  BY <1>1, <1>2 DEF TurnOf, FlightTurn
<1>4. InFlight(c) /\ client[c] = "waiting" /\ input[c] = <<>> /\ request[c] # NULL
      /\ content[request[c]] = {<<c, Turn(c)>>}
  BY <1>1 DEF TurnOf, FlightTurn, ContentTurn, InFlight
<1>5. /\ \A w \in Workers \ {v} : ~ Busy(w, c)'
      /\ Busy(v, c)' => wpc'[v] = "take"
  <2>1. \A w \in Workers \ {v} : wpc'[w] = wpc[w] /\ wconn'[w] = wconn[w]
    BY <1>0 DEF Pop, WorkerTypeOK
  <2>2. wpc'[v] \in {"idle", "take"}
    BY <1>0, <1>1 DEF Pop, WorkerTypeOK
  <2> QED
    BY <1>3, <2>1, <2>2 DEF Busy
<1>6. ~ InReader(c)' /\ Turn(c)' = Turn(c) /\ ~ Reading(c)'
  BY <1>1, <1>2, <1>4 DEF InReader, Turn, Reading, TurnOf, ReadingTurn
<1>7. RepliesTurn(c)' /\ LinesTurn(c)'
  BY <1>1, <1>6 DEF TurnOf, RepliesTurn, LinesTurn
<1>8. ReadingTurn(c)' /\ FlightTurn(c)'
  BY <1>1, <1>3, <1>4, <1>5, <1>6 DEF ReadingTurn, FlightTurn
<1>9. ContentTurn(c)'
  BY <1>1, <1>3, <1>4, <1>5, <1>6 DEF ContentTurn
<1> QED
  BY <1>7, <1>8, <1>9 DEF TurnOf

LEMMA WorkerTurn ==
    ASSUME IInv, FreshInv, [Next]_vars, NEW c \in Conns, Waits(c), TurnOf(c), NEW v \in Workers,
           wconn[v] = c, WorkerStep(v)
    PROVE  TurnOf(c)'
<1>0. /\ TypeOK /\ ConnTypeOK /\ ClientTypeOK /\ WorkerTypeOK /\ RefInv /\ WorkerShape /\ OneOwner
      /\ NULL \notin Conns /\ NULL \notin Requests
  BY ReaderAssumption DEF IInv, RefInv, TypeOK
<1>1. /\ UNCHANGED <<sent, input, queued, rpc, cur, line>>
      /\ \A w \in Workers \ {v} : wpc'[w] = wpc[w] /\ wconn'[w] = wconn[w] /\ wreq'[w] = wreq[w]
  BY <1>0 DEF WorkerStep, Take, Clear, Ready, Reset, Handle, Reply, UnrefConn, FreeRequest,
              WorkerElse, WorkerTypeOK
<1>2. wpc[v] \notin {"idle", "free"} /\ (Busy(v, c) <=> wpc[v] # "unref")
  BY <1>0 DEF WorkerShape, WorkerTypeOK, Busy
<1>3. /\ InReader(c)' <=> InReader(c)
      /\ Reading(c)' <=> Reading(c)
      /\ \A w \in Workers \ {v} : Busy(w, c)' <=> Busy(w, c)
  BY <1>1 DEF InReader, Reading, Busy
<1>4. /\ request'[c] = request[c] /\ request[c] # NULL => content'[request[c]] = content[request[c]]
      /\ \A w \in Workers : Busy(w, c) /\ wreq[w] # NULL => content'[wreq[w]] = content[wreq[w]]
  <2>1. ~ Launch /\ ~ WriteField
    BY <1>1, <1>2 DEF Launch, WriteField, BackToPass, At, WorkerStep, Take, Clear, Ready, Reset, Handle,
                      Reply, UnrefConn, FreeRequest
  <2> QED
    BY <2>1, ContentKept
<1>5. ASSUME Busy(v, c)
      PROVE  /\ InFlight(c) /\ client[c] = "waiting" /\ input[c] = <<>> /\ queued[c] = 0
             /\ ~ InReader(c) /\ ~ Reading(c) /\ \A w \in Workers \ {v} : ~ Busy(w, c)
  BY <1>5 DEF TurnOf, FlightTurn, ReadingTurn, InFlight
<1>6. ASSUME Busy(v, c), UNCHANGED <<client, answered>>, Busy(v, c)'
      PROVE  /\ RepliesTurn(c)' /\ LinesTurn(c)' /\ ReadingTurn(c)' /\ FlightTurn(c)'
             /\ Turn(c)' = Turn(c)
  <2>1. Turn(c)' = Turn(c)
    BY <1>6 DEF Turn
  <2>2. RepliesTurn(c)' /\ LinesTurn(c)'
    BY <1>1, <1>6, <2>1 DEF TurnOf, RepliesTurn, LinesTurn
  <2>3. ReadingTurn(c)' /\ FlightTurn(c)'
    BY <1>1, <1>3, <1>5, <1>6 DEF ReadingTurn, FlightTurn
  <2> QED
    BY <2>1, <2>2, <2>3
<1>7. CASE Take(v)
  <2>1. /\ UNCHANGED <<client, answered, request, wconn>> /\ wpc[v] = "take" /\ wpc'[v] = "clear"
        /\ wreq'[v] = request[c]
    BY <1>0, <1>7 DEF Take, WorkerAt, WorkerTypeOK
  <2>2. Busy(v, c) /\ Busy(v, c)'
    BY <2>1 DEF Busy
  <2>3. request[c] # NULL /\ content[request[c]] = {<<c, Turn(c)>>}
    BY <2>1, <2>2 DEF TurnOf, ContentTurn
  <2>4. ContentTurn(c)'
    BY <1>1, <1>3, <1>4, <1>5, <1>6, <2>1, <2>2, <2>3 DEF ContentTurn
  <2> QED
    BY <1>6, <2>1, <2>2, <2>4 DEF TurnOf
<1>8. CASE Clear(v)
  <2>1. /\ UNCHANGED <<client, answered, wconn, wreq>> /\ wpc[v] = "clear" /\ wpc'[v] = "ready"
        /\ request'[c] = NULL
    BY <1>0, <1>8 DEF Clear, WorkerAt, WorkerTypeOK, ConnTypeOK
  <2>2. Busy(v, c) /\ Busy(v, c)'
    BY <2>1 DEF Busy
  <2>3. wreq[v] # NULL /\ content[wreq[v]] = {<<c, Turn(c)>>}
    BY <2>1, <2>2 DEF TurnOf, ContentTurn
  <2>4. ContentTurn(c)'
    BY <1>1, <1>3, <1>4, <1>5, <1>6, <2>1, <2>2, <2>3 DEF ContentTurn
  <2> QED
    BY <1>6, <2>1, <2>2, <2>4 DEF TurnOf
<1>9. CASE Ready(v) \/ Reset(v) \/ Handle(v)
  <2>1. /\ UNCHANGED <<client, answered, request, wconn, wreq>>
        /\ wpc[v] \in {"ready", "reset", "handle"} /\ wpc'[v] \in {"reset", "handle", "reply"}
    BY <1>0, <1>9 DEF Ready, Reset, Handle, WorkerAt, WorkerTypeOK
  <2>2. Busy(v, c) /\ Busy(v, c)'
    BY <2>1 DEF Busy
  <2>3. request[c] = NULL /\ wreq[v] # NULL /\ content[wreq[v]] = {<<c, Turn(c)>>}
    BY <2>1, <2>2 DEF TurnOf, ContentTurn
  <2>4. ContentTurn(c)'
    BY <1>1, <1>3, <1>4, <1>5, <1>6, <2>1, <2>2, <2>3 DEF ContentTurn
  <2> QED
    BY <1>6, <2>1, <2>2, <2>4 DEF TurnOf
<1>10. CASE Reply(v)
  <2>1. /\ UNCHANGED <<request, wconn, wreq, content>> /\ wpc[v] = "reply" /\ wpc'[v] = "unref"
    BY <1>0, <1>10 DEF Reply, WorkerAt, WorkerTypeOK
  <2>2. Busy(v, c) /\ ~ Busy(v, c)'
    BY <2>1 DEF Busy
  <2>3. request[c] = NULL /\ content[wreq[v]] = {<<c, Turn(c)>>}
    BY <2>1, <2>2 DEF TurnOf, ContentTurn
  <2>4. ~ InFlight(c)' /\ ~ InReader(c)' /\ ~ Reading(c)' /\ queued'[c] = 0
        /\ \A w \in Workers : ~ Busy(w, c)'
    BY <1>1, <1>3, <1>5, <2>2 DEF InFlight
  <2>5. ReadingTurn(c)' /\ FlightTurn(c)' /\ ContentTurn(c)'
    BY <2>1, <2>3, <2>4 DEF ReadingTurn, FlightTurn, ContentTurn
  <2>6. LinesTurn(c)'
    BY <1>1, <1>5, <2>2 DEF LinesTurn
  <2>7. \/ client'[c] = "writing" /\ answered'[c] = Append(answered[c], {<<c, Turn(c)>>})
        \/ client'[c] = "unanswered" /\ answered'[c] = answered[c]
    BY <1>0, <1>5, <1>10, <2>2, <2>3 DEF Reply, ClientTypeOK
  <2>8. RepliesTurn(c)'
    <3>1. /\ answered[c] \in Seq(SUBSET (Conns \X Nat)) /\ sent[c] \in Nat
          /\ Turn(c) = sent[c] /\ \A n \in 1..Len(answered[c]) : answered[c][n] = {<<c, n>>}
      BY <1>0, <1>5, <2>2 DEF TurnOf, RepliesTurn, ClientTypeOK
    <3>2. CASE client'[c] = "writing" /\ answered'[c] = Append(answered[c], {<<c, Turn(c)>>})
      <4>1. /\ Len(answered'[c]) = Len(answered[c]) + 1
            /\ \A n \in 1..Len(answered[c]) : answered'[c][n] = answered[c][n]
            /\ answered'[c][Len(answered[c]) + 1] = {<<c, Turn(c)>>}
        BY <3>1, <3>2
      <4>2. Turn(c)' = sent'[c] + 1
        BY <1>1, <3>1, <4>1 DEF Turn
      <4>3. \A n \in 1..Len(answered'[c]) : answered'[c][n] = {<<c, n>>}
        BY <3>1, <4>1 DEF Turn
      <4> QED
        BY <3>2, <4>2, <4>3 DEF RepliesTurn
    <3>3. CASE client'[c] = "unanswered" /\ answered'[c] = answered[c]
      BY <1>1, <3>1, <3>3 DEF RepliesTurn, Turn
    <3> QED
      BY <2>7, <3>2, <3>3
  <2> QED
    BY <2>5, <2>6, <2>8 DEF TurnOf
<1>11. CASE UnrefConn(v)
  <2>1. /\ UNCHANGED <<client, answered, wreq>> /\ wpc[v] = "unref" /\ wconn'[v] = NULL /\ Unref(c)
    BY <1>0, <1>11 DEF UnrefConn, WorkerAt, WorkerTypeOK
  <2>2. ~ Busy(v, c) /\ ~ Busy(v, c)'
    BY <1>0, <2>1 DEF Busy
  <2>3. (\A w \in Workers : Busy(w, c)' <=> Busy(w, c)) /\ (InFlight(c)' <=> InFlight(c))
    BY <1>1, <1>3, <2>2 DEF InFlight
  <2>4. Turn(c)' = Turn(c)
    BY <2>1 DEF Turn
  <2>5. RepliesTurn(c)' /\ LinesTurn(c)'
    BY <1>1, <2>1, <2>4 DEF TurnOf, RepliesTurn, LinesTurn
  <2>6. FlightTurn(c)'
    BY <1>1, <1>3, <2>1, <2>3 DEF TurnOf, FlightTurn
  <2>7. CASE request' = request
    <3>1. Aside(c)
      BY <1>1, <1>3, <2>1, <2>2, <2>3, <2>7 DEF Aside
    <3>2. ~ Launch /\ ~ WriteField
      BY <1>1, <1>11 DEF Launch, WriteField, BackToPass, At, UnrefConn
    <3> QED
      BY <3>1, <3>2, AsideKeeps
  <2>8. CASE ref_count[c] = 1 /\ request'[c] = NULL
    <3>1. c \notin conn_list /\ \A w \in Workers : wconn[w] = c => w = v
      BY <1>0, <2>8, LastReference DEF HeldBy
    <3>2. queued[c] = 0 /\ ~ InReader(c) /\ cur # c
      <4>1. /\ IsFiniteSet(HeldBy(c)) /\ Cardinality(HeldBy(c)) \in Nat
            /\ InList(c) \in Nat /\ InTask(c) \in Nat /\ queued[c] \in Nat /\ dropped[c] \in Nat
        BY <1>0, HolderTerms DEF RefInv
      <4>2. Holders(c) = 1
        BY <1>0, <2>8 DEF RefInv, RefsAreHolders
      <4>3. Cardinality(HeldBy(c)) # 0
        BY <4>1, FS_EmptySet DEF HeldBy
      <4>4. queued[c] = 0
        BY <4>1, <4>2, <4>3 DEF Holders
      <4>5. cur # c
        BY <1>0, <3>1 DEF RefInv, ReaderShape
      <4> QED
        BY <4>4, <4>5 DEF InReader
    <3>3. (\A w \in Workers : ~ Busy(w, c)') /\ ~ InReader(c)' /\ queued'[c] = 0 /\ ~ Reading(c)'
      BY <1>1, <1>3, <2>2, <3>1, <3>2 DEF Busy, Reading
    <3>4. ReadingTurn(c)' /\ ContentTurn(c)'
      BY <2>8, <3>3 DEF ReadingTurn, ContentTurn
    <3> QED
      BY <2>5, <2>6, <3>4 DEF TurnOf
  <2> QED
    BY <1>0, <2>1, <2>7, <2>8, UnrefContent
<1>12. CASE FreeRequest(v)
  BY <1>2, <1>12 DEF FreeRequest, WorkerAt
<1> QED
  BY <1>7, <1>8, <1>9, <1>10, <1>11, <1>12 DEF WorkerStep

LEMMA TurnStep ==
    ASSUME IInv, FreshInv, TurnInv, [Next]_vars
    PROVE  TurnInv'
<1> SUFFICES ASSUME NEW c \in Conns, Waits(c)' PROVE TurnOf(c)'
  BY DEF TurnInv
<1>0. TypeOK /\ ClientTypeOK
  BY DEF IInv, RefInv, TypeOK
<1>1. CASE Accept(c)
  BY <1>1, AcceptTurn
<1>2. CASE ~ Accept(c)
  <2>1. Waits(c)
    <3>1. CASE ~ About(c)
      BY <3>1, AsideSteps DEF Aside, Waits
    <3>2. CASE ClientStep(c)
      BY <1>0, <3>2 DEF ClientStep, Connect, SendLine, SendBlank, SendPart, FinishLine, Disconnect,
                        Sends, Waits, ClientTypeOK
    <3>3. ASSUME NEW w \in Workers, WorkerStep(w) PROVE Waits(c)
      <4>1. wpc[w] = "reply" => wconn[w] \in Conns
        BY DEF IInv, RefInv, WorkerShape, TypeOK, WorkerTypeOK
      <4>2. CASE Reply(w)
        BY <1>0, <4>1, <4>2 DEF Reply, WorkerAt, Waits, ClientTypeOK
      <4>3. CASE ~ Reply(w)
        BY <3>3, <4>3 DEF WorkerStep, Take, Clear, Ready, Reset, Handle, UnrefConn, FreeRequest, Waits
      <4> QED
        BY <4>2, <4>3
    <3>4. CASE About(c) /\ ~ ClientStep(c) /\ ~ \E w \in Workers : WorkerStep(w)
      BY <1>2, <3>4 DEF About, DropClosed, Recv, Count, Alloc, Launch, Ref, NewTask, Load, WriteField,
                        Pop, Waits
    <3> QED
      BY <3>1, <3>2, <3>3, <3>4
  <2>2. TurnOf(c)
    BY <2>1 DEF TurnInv
  <2>3. CASE About(c)
    BY <1>2, <2>1, <2>2, <2>3, ClientTurn, DropTurn, ReaderTurn, PopTurn, WorkerTurn DEF About
  <2>4. CASE ~ About(c)
    <3>1. ~ (cur = c /\ (Launch \/ WriteField))
      BY <2>4 DEF About
    <3> QED
      BY <2>2, <2>4, <3>1, AsideSteps, AsideKeeps
  <2> QED
    BY <2>3, <2>4
<1> QED
  BY <1>1, <1>2

LEMMA TurnAlways ==
    Spec => [](IInv /\ FreshInv /\ TurnInv)
<1>1. Init => FreshInv /\ TurnInv
  BY DEF Init, FreshInv, TurnInv, Waits
<1>2. IInv /\ FreshInv /\ TurnInv /\ [Next]_vars => (FreshInv /\ TurnInv)'
  BY FreshStep, TurnStep
<1> QED
  BY <1>1, <1>2, IInvAlways, PTL DEF Spec

\* To a client that waits for its replies, as Postfix does, the n-th reply answers its n-th
\* request (valvula_reader_process_socket, valvula_reader_process_request_proxy): a request
\* is under way only while its client waits, the reader adds lines to its object before the
\* launch and never after, and no other connection's object is touched meanwhile, although
\* reader and workers share the connection with no lock.
THEOREM AnswersInOrder ==
    Spec => []RepliesInOrder
<1>1. IInv /\ TurnInv => RepliesInOrder
  <2> SUFFICES ASSUME IInv, TurnInv, NEW c \in Conns, Waits(c)
               PROVE  /\ Len(answered[c]) <= sent[c]
                      /\ \A n \in 1..Len(answered[c]) : answered[c][n] = {<<c, n>>}
    BY DEF RepliesInOrder, Waits
  <2>1. RepliesTurn(c)
    BY DEF TurnInv, TurnOf
  <2>2. sent[c] \in Nat /\ Len(answered[c]) \in Nat
    BY DEF IInv, RefInv, TypeOK, ClientTypeOK
  <2> QED
    BY <2>1, <2>2 DEF RepliesTurn, Turn
<1> QED
  BY <1>1, TurnAlways, PTL


-----------------------------------------------------------------------------
(* Clients that do not wait, and the service as a whole.                    *)

\* The requests of a connection that are still to be answered: blank lines in its socket, one
\* in the reader's hands, the launched, queued and taken ones.
Blanks(s) == {i \in 1..Len(s) : s[i].kind = "blank"}
BusyWith(c) == {w \in Workers : Busy(w, c)}
LineAsks(c) == IF Reading(c) /\ line.kind = "blank" THEN 1 ELSE 0
LaunchAsks(c) == IF InReader(c) THEN 1 ELSE 0
Open(c) ==
    Cardinality(Blanks(input[c])) + LineAsks(c) + LaunchAsks(c) + queued[c] + Cardinality(BusyWith(c))

\* The lines it may have sent.
Own(c) == {c} \X (1..(sent[c] + 1))

OwnLines(c) ==
    \A i \in 1..Len(input[c]) : input[c][i].of \in 1..(sent[c] + 1) /\ input[c][i].kind # "eof"
OwnReading(c) ==
    Reading(c) =>
        /\ line.of \in 1..(sent[c] + 1) /\ line.kind \in {"attr", "malformed", "blank"}
        /\ rpc = "launch" => line.kind = "blank"
OwnContent(c) ==
    /\ request[c] # NULL => content[request[c]] \subseteq Own(c)
    /\ \A w \in Workers : Busy(w, c) /\ wreq[w] # NULL => content[wreq[w]] \subseteq Own(c)
NoneInvented(c) == Len(answered[c]) + Open(c) <= sent[c]

StreamOf(c) == OwnLines(c) /\ OwnReading(c) /\ OwnContent(c) /\ NoneInvented(c)
StreamInv == \A c \in Conns : client[c] = "streaming" => StreamOf(c)

LEMMA BlanksType ==
    ASSUME NEW s, Len(s) \in Nat
    PROVE  IsFiniteSet(Blanks(s)) /\ Cardinality(Blanks(s)) \in Nat
<1>1. IsFiniteSet(1..Len(s)) /\ Blanks(s) \in SUBSET (1..Len(s))
  BY FS_Interval DEF Blanks
<1> QED
  BY <1>1, FS_Subset, FS_CardinalityType

\* A blank line counts as one when it is written and when it is read, another line not at all.
IsBlank(l) == IF l.kind = "blank" THEN 1 ELSE 0

LEMMA BlanksAppended ==
    ASSUME NEW s \in Seq(Line), NEW l \in Line
    PROVE  Cardinality(Blanks(Append(s, l))) = Cardinality(Blanks(s)) + IsBlank(l)
<1> DEFINE r == Append(s, l)
           m == Len(s) + 1
<1>1. /\ Len(s) \in Nat /\ Len(r) = m /\ r[m] = l
      /\ \A i \in 1..Len(s) : r[i] = s[i]
  OBVIOUS
<1>2. IsFiniteSet(Blanks(s)) /\ Cardinality(Blanks(s)) \in Nat /\ m \notin Blanks(s)
  BY <1>1, BlanksType DEF Blanks
<1>3. \A i : i \in 1..m <=> i \in 1..Len(s) \/ i = m
  BY <1>1
<1> HIDE DEF r, m
<1>4. CASE l.kind = "blank"
  <2>1. Blanks(r) = Blanks(s) \cup {m}
    BY <1>1, <1>3, <1>4 DEF Blanks
  <2>2. Cardinality(Blanks(r)) = Cardinality(Blanks(s)) + 1
    BY <1>2, <2>1, FS_AddElement
  <2> QED
    BY <1>4, <2>2 DEF IsBlank, r
<1>5. CASE l.kind # "blank"
  <2>1. Blanks(r) = Blanks(s)
    BY <1>1, <1>3, <1>5 DEF Blanks
  <2> QED
    BY <1>2, <1>5, <2>1 DEF IsBlank, r
<1> QED
  BY <1>4, <1>5

LEMMA BlanksTail ==
    ASSUME NEW s \in Seq(Line), s # <<>>
    PROVE  Cardinality(Blanks(s)) = Cardinality(Blanks(Tail(s))) + IsBlank(Head(s))
<1> DEFINE r == Tail(s)
           f == [i \in Blanks(r) |-> i + 1]
<1>1. /\ Len(s) \in Nat /\ Len(s) # 0 /\ Len(r) = Len(s) - 1
      /\ Head(s) = s[1] /\ \A i \in 1..Len(r) : r[i] = s[i + 1]
  OBVIOUS
<1> HIDE DEF r
<1>2. /\ IsFiniteSet(Blanks(s)) /\ Cardinality(Blanks(s)) \in Nat
      /\ IsFiniteSet(Blanks(r)) /\ Cardinality(Blanks(r)) \in Nat
  BY <1>1, BlanksType
<1>3. Blanks(s) \ {1} = {i + 1 : i \in Blanks(r)}
  <2>1. ASSUME NEW j \in Blanks(s) \ {1}
        PROVE  j - 1 \in Blanks(r) /\ j = (j - 1) + 1
    BY <1>1 DEF Blanks
  <2>2. ASSUME NEW i \in Blanks(r)
        PROVE  i + 1 \in Blanks(s) \ {1}
    BY <1>1 DEF Blanks
  <2> QED
    BY <2>1, <2>2
<1>4. f \in Bijection(Blanks(r), Blanks(s) \ {1})
  <2>1. \A i \in Blanks(r) : i \in Nat
    BY DEF Blanks
  <2>2. f \in [Blanks(r) -> Blanks(s) \ {1}]
    BY <1>3
  <2>3. \A i, j \in Blanks(r) : f[i] = f[j] => i = j
    BY <2>1
  <2>4. \A j \in Blanks(s) \ {1} : \E i \in Blanks(r) : f[i] = j
    BY <1>3
  <2> QED
    BY <2>2, <2>3, <2>4 DEF Bijection, Injection, Surjection, IsInjective
<1>5. Cardinality(Blanks(s) \ {1}) = Cardinality(Blanks(r))
  BY <1>2, <1>4, FS_Bijection DEF ExistsBijection
<1>6. Cardinality(Blanks(s) \ {1})
         = IF 1 \in Blanks(s) THEN Cardinality(Blanks(s)) - 1 ELSE Cardinality(Blanks(s))
  BY <1>2, FS_RemoveElement
<1>7. 1 \in Blanks(s) <=> Head(s).kind = "blank"
  BY <1>1 DEF Blanks
<1>8. Cardinality(Blanks(s)) = Cardinality(Blanks(r)) + IsBlank(Head(s))
  BY <1>2, <1>5, <1>6, <1>7 DEF IsBlank
<1> QED
  BY <1>8 DEF r

LEMMA NoBlanks == Blanks(<<>>) = {} /\ Cardinality(Blanks(<<>>)) = 0
<1>1. Blanks(<<>>) = {}
  BY DEF Blanks
<1> QED
  BY <1>1, FS_EmptySet

\* The terms of Open are numbers.
LEMMA OpenTerms ==
    ASSUME TypeOK, NEW c \in Conns
    PROVE  /\ Cardinality(Blanks(input[c])) \in Nat
           /\ LineAsks(c) \in Nat /\ LaunchAsks(c) \in Nat /\ queued[c] \in Nat
           /\ IsFiniteSet(BusyWith(c)) /\ Cardinality(BusyWith(c)) \in Nat
           /\ Len(answered[c]) \in Nat /\ sent[c] \in Nat /\ Len(input[c]) \in Nat
           /\ Open(c) \in Nat
<1>1. Len(answered[c]) \in Nat /\ sent[c] \in Nat /\ Len(input[c]) \in Nat /\ queued[c] \in Nat
  BY DEF TypeOK, ClientTypeOK, WorkerTypeOK
<1>2. IsFiniteSet(BusyWith(c)) /\ Cardinality(BusyWith(c)) \in Nat
  <2>1. BusyWith(c) \in SUBSET Workers /\ IsFiniteSet(Workers)
    BY ReaderAssumption DEF BusyWith
  <2> QED
    BY <2>1, FS_Subset, FS_CardinalityType
<1>3. LineAsks(c) \in Nat /\ LaunchAsks(c) \in Nat
  BY DEF LineAsks, LaunchAsks
<1>4. Cardinality(Blanks(input[c])) \in Nat
  BY <1>1, BlanksType
<1>5. Open(c) \in Nat
  BY <1>1, <1>2, <1>3, <1>4 DEF Open
<1> QED
  BY <1>1, <1>2, <1>3, <1>4, <1>5

LEMMA StreamAside ==
    ASSUME IInv, FreshInv, [Next]_vars, NEW c \in Conns, StreamOf(c), Aside(c),
           ~ (cur = c /\ (Launch \/ WriteField))
    PROVE  StreamOf(c)'
<1>0. TypeOK
  BY DEF IInv, RefInv
<1>1. Own(c)' = Own(c)
  BY DEF Own, Aside
<1>2. OwnLines(c)' /\ OwnReading(c)'
  BY DEF OwnLines, OwnReading, StreamOf, Aside
<1>3. OwnContent(c)'
  <2>1. /\ request[c] # NULL => content'[request[c]] = content[request[c]]
        /\ \A w \in Workers : Busy(w, c) /\ wreq[w] # NULL => content'[wreq[w]] = content[wreq[w]]
    BY ContentKept DEF Aside
  <2>2. OwnContent(c)
    BY DEF StreamOf
  <2>3. request'[c] # NULL => content'[request'[c]] \subseteq Own(c)'
    BY <1>1, <2>1, <2>2 DEF OwnContent, Aside
  <2>4. ASSUME NEW w \in Workers, Busy(w, c)', wreq'[w] # NULL
        PROVE  content'[wreq'[w]] \subseteq Own(c)'
    <3>1. Busy(w, c) /\ wreq'[w] = wreq[w]
      BY <2>4 DEF Aside
    <3> QED
      BY <1>1, <2>1, <2>2, <2>4, <3>1 DEF OwnContent
  <2> QED
    BY <2>3, <2>4 DEF OwnContent
<1>4. NoneInvented(c)'
  <2>1. BusyWith(c)' = BusyWith(c) /\ LaunchAsks(c)' = LaunchAsks(c)
    BY DEF BusyWith, LaunchAsks, Aside
  <2>2. LineAsks(c)' \in {0, LineAsks(c)}
    BY DEF LineAsks, Aside
  <2>3. Len(answered[c]) + Open(c) <= sent[c]
    BY DEF StreamOf, NoneInvented
  <2>4. Open(c)' = Open(c) - LineAsks(c) + LineAsks(c)'
    BY <1>0, <2>1, <2>2, OpenTerms DEF Open, Aside
  <2>5. Open(c) \in Nat /\ Open(c)' <= Open(c) /\ Open(c)' \in Int
    BY <1>0, <2>2, <2>4, OpenTerms DEF Open
  <2>6. Len(answered'[c]) = Len(answered[c]) /\ sent'[c] = sent[c]
    BY DEF Aside
  <2> QED
    BY <1>0, <2>3, <2>5, <2>6, OpenTerms DEF NoneInvented
<1> QED
  BY <1>2, <1>3, <1>4 DEF StreamOf

\* The client adds lines, and a request with each blank one.
LEMMA StreamClient ==
    ASSUME IInv, [Next]_vars, NEW c \in Conns, StreamOf(c), ClientStep(c),
           client[c] = "streaming", client'[c] = "streaming"
    PROVE  StreamOf(c)'
<1>0. /\ TypeOK /\ client \in [Conns -> {"absent", "connecting", "writing", "waiting", "unanswered",
                                         "streaming", "gone"}]
      /\ sent[c] \in Nat /\ input[c] \in Seq(Line) /\ input \in [Conns -> Seq(Line)]
      /\ sent \in [Conns -> Nat]
  BY DEF IInv, RefInv, TypeOK, ClientTypeOK
<1>1. UNCHANGED <<request, rpc, cur, line, queued, wpc, wconn, wreq, content, answered>>
  BY ClientsOnly
<1>2. SendLine(c) \/ SendPart(c) \/ SendBlank(c) \/ FinishLine(c)
  BY <1>0 DEF ClientStep, Connect, Disconnect
<1>3. sent'[c] \in Nat /\ sent'[c] >= sent[c]
  BY <1>0, <1>2 DEF SendLine, SendPart, SendBlank, FinishLine
<1>4. \A n \in 1..(sent[c] + 1) : n \in 1..(sent'[c] + 1)
  BY <1>0, <1>3
<1>5. Own(c) \subseteq Own(c)'
  BY <1>4 DEF Own
<1>6. OwnReading(c)'
  BY <1>1, <1>4 DEF StreamOf, OwnReading, Reading
<1>7. OwnContent(c)'
  BY <1>1, <1>5 DEF StreamOf, OwnContent, Busy
<1>8. /\ LineAsks(c)' = LineAsks(c) /\ LaunchAsks(c)' = LaunchAsks(c)
      /\ BusyWith(c)' = BusyWith(c)
  BY <1>1 DEF LineAsks, LaunchAsks, BusyWith, Reading, InReader, Busy
<1>9. ASSUME NEW n \in {0, 1}, sent'[c] = sent[c] + n,
             Cardinality(Blanks(input'[c])) = Cardinality(Blanks(input[c])) + n
      PROVE  NoneInvented(c)'
  <2>1. Len(answered[c]) + Open(c) <= sent[c]
    BY DEF StreamOf, NoneInvented
  <2>2. Cardinality(Blanks(input'[c])) \in Nat /\ Cardinality(Blanks(input[c])) \in Nat
    <3>1. input'[c] \in Seq(Line)
      BY RefInvStep DEF IInv, RefInv, TypeOK, ClientTypeOK
    <3> QED
      BY <1>0, <3>1, BlanksType
  <2>3. Open(c)' = Open(c) - Cardinality(Blanks(input[c])) + Cardinality(Blanks(input'[c]))
    <3>1. Open(c)' = Cardinality(Blanks(input'[c])) + LineAsks(c) + LaunchAsks(c) + queued[c]
                     + Cardinality(BusyWith(c))
      BY <1>1, <1>8 DEF Open
    <3>2. /\ LineAsks(c) \in Nat /\ LaunchAsks(c) \in Nat /\ queued[c] \in Nat
          /\ Cardinality(BusyWith(c)) \in Nat
      BY <1>0, OpenTerms
    <3> QED
      BY <2>2, <3>1, <3>2 DEF Open
  <2>4. Open(c) \in Nat
    BY <1>0, OpenTerms
  <2>5. Open(c)' = Open(c) + n
    BY <1>9, <2>2, <2>3, <2>4
  <2>6. Len(answered'[c]) = Len(answered[c]) /\ Len(answered[c]) \in Nat
    BY <1>0, <1>1, OpenTerms
  <2>7. Len(answered'[c]) + Open(c)' <= sent'[c]
    BY <1>0, <1>9, <2>1, <2>4, <2>5, <2>6
  <2> QED
    BY <2>7 DEF NoneInvented
<1>10. CASE FinishLine(c)
  <2>1. input'[c] = Ended(input[c], "attr") /\ input[c] # <<>> /\ sent' = sent
        /\ input[c][Len(input[c])].kind = "part"
    BY <1>0, <1>10 DEF FinishLine, Unfinished
  <2>2. Len(input[c]) \in 1..Len(input[c])
    BY <1>0, <2>1, EmptySeq
  <2>3. /\ Len(input'[c]) = Len(input[c])
        /\ \A i \in 1..Len(input[c]) :
              input'[c][i] = IF i = Len(input[c])
                             THEN [kind |-> "attr", of |-> input[c][Len(input[c])].of]
                             ELSE input[c][i]
    BY <1>0, <2>1, <2>2 DEF Ended
  <2>4. OwnLines(c)'
    BY <2>1, <2>2, <2>3 DEF StreamOf, OwnLines
  <2>5. Blanks(input'[c]) = Blanks(input[c])
    BY <2>1, <2>2, <2>3 DEF Blanks
  <2>6. NoneInvented(c)'
    <3>1. sent'[c] = sent[c] + 0 /\ Cardinality(Blanks(input'[c])) = Cardinality(Blanks(input[c])) + 0
      BY <1>0, <2>1, <2>5, OpenTerms
    <3> QED
      BY <1>9, <3>1
  <2> QED
    BY <1>6, <1>7, <2>4, <2>6 DEF StreamOf
<1>11. ASSUME NEW kind \in {"attr", "malformed", "checkserver", "part", "blank"}, Sends(c, kind),
              sent'[c] = sent[c] + (IF kind = "blank" THEN 1 ELSE 0)
       PROVE  StreamOf(c)'
  <2> DEFINE l == [kind |-> kind, of |-> sent[c] + 1]
  <2>1. input'[c] = Append(input[c], l)
    BY <1>0, <1>11 DEF Sends
  <2>2. l \in Line /\ l.of = sent[c] + 1 /\ l.kind = kind
    BY <1>0 DEF Line
  <2>3. Len(input'[c]) = Len(input[c]) + 1 /\ Len(input[c]) \in Nat
    BY <1>0, <2>1
  <2>4. \A i \in 1..Len(input'[c]) :
           \/ i = Len(input'[c]) /\ input'[c][i] = l
           \/ i \in 1..Len(input[c]) /\ input'[c][i] = input[c][i]
    BY <1>0, <2>1, <2>3
  <2> HIDE DEF l
  <2>5. sent[c] + 1 \in 1..(sent'[c] + 1)
    BY <1>0, <1>3
  <2>6. OwnLines(c)'
    BY <1>4, <2>2, <2>4, <2>5 DEF StreamOf, OwnLines
  <2>7. Cardinality(Blanks(input'[c])) = Cardinality(Blanks(input[c])) + IsBlank(l)
    BY <1>0, <2>1, <2>2, BlanksAppended
  <2>8. sent'[c] = sent[c] + IsBlank(l)
    BY <1>11, <2>2 DEF IsBlank
  <2>9. Cardinality(Blanks(input[c])) \in Nat /\ IsBlank(l) \in {0, 1}
    BY <1>0, OpenTerms DEF IsBlank
  <2>10. NoneInvented(c)'
    BY <1>9, <2>7, <2>8, <2>9
  <2> QED
    BY <1>6, <1>7, <2>6, <2>10 DEF StreamOf
<1>12. CASE SendLine(c)
  <2>1. PICK kind \in LineKinds : Sends(c, kind)
    BY <1>12 DEF SendLine
  <2>2. kind \in {"attr", "malformed", "checkserver"} /\ sent'[c] = sent[c] + 0
    BY <1>0, <1>12, ReaderAssumption DEF SendLine
  <2> QED
    BY <1>11, <2>1, <2>2
<1>13. CASE SendPart(c)
  BY <1>0, <1>11, <1>13 DEF SendPart
<1>14. CASE SendBlank(c)
  BY <1>0, <1>11, <1>14 DEF SendBlank
<1> QED
  BY <1>2, <1>10, <1>12, <1>13, <1>14

LEMMA StreamAccept ==
    ASSUME IInv, FreshInv, NEW c \in Conns, Accept(c)
    PROVE  StreamOf(c)'
<1>0. /\ TypeOK /\ ClientTypeOK /\ WorkerTypeOK /\ RefInv /\ NULL \notin Conns
  BY ReaderAssumption DEF IInv, RefInv, TypeOK
<1>1. /\ sent[c] = 0 /\ answered[c] = <<>> /\ input[c] = <<>> /\ request[c] = NULL /\ ref_count[c] = 0
  BY DEF Accept, FreshInv, IInv, RefInv, Unborn
<1>2. cur # c /\ queued[c] = 0 /\ \A w \in Workers : wconn[w] # c
  BY <1>0, <1>1, HolderCounts DEF HeldBy
<1>3. UNCHANGED <<sent, answered, input, request, cur, queued, wconn>>
  BY DEF Accept
<1>4. ~ Reading(c)' /\ ~ InReader(c)' /\ \A w \in Workers : ~ Busy(w, c)'
  BY <1>2, <1>3 DEF InReader, Busy, Reading
<1>5. Len(answered'[c]) = 0 /\ Len(input'[c]) = 0
  BY <1>1, <1>3
<1>6. OwnLines(c)' /\ OwnReading(c)' /\ OwnContent(c)'
  BY <1>1, <1>3, <1>4, <1>5 DEF OwnLines, OwnReading, OwnContent
<1>7. LineAsks(c)' = 0 /\ LaunchAsks(c)' = 0 /\ BusyWith(c)' = {}
  BY <1>4 DEF LineAsks, LaunchAsks, BusyWith
<1>8. NoneInvented(c)'
  BY <1>1, <1>2, <1>3, <1>5, <1>7, NoBlanks, FS_EmptySet DEF NoneInvented, Open
<1> QED
  BY <1>6, <1>8 DEF StreamOf

\* Nothing but the object of a connection may go with its last reference.
LEMMA StreamUnref ==
    ASSUME IInv, FreshInv, [Next]_vars, NEW c \in Conns, StreamOf(c), Unref(c),
           ~ (cur = c /\ (Launch \/ WriteField)),
           UNCHANGED <<sent, input, answered, queued, rpc, cur, line>>,
           \A w \in Workers : Busy(w, c)' <=> Busy(w, c),
           \A w \in Workers : Busy(w, c) => wreq'[w] = wreq[w]
    PROVE  StreamOf(c)'
<1>0. TypeOK
  BY DEF IInv, RefInv
<1>1. OwnLines(c)' /\ OwnReading(c)'
  BY DEF StreamOf, OwnLines, OwnReading, Reading
<1>2. OwnContent(c)'
  <2>1. /\ request'[c] = request[c] /\ request[c] # NULL => content'[request[c]] = content[request[c]]
        /\ \A w \in Workers : Busy(w, c) /\ wreq[w] # NULL => content'[wreq[w]] = content[wreq[w]]
    BY ContentKept
  <2>2. request'[c] = request[c] \/ request'[c] = NULL
    BY <1>0, UnrefContent
  <2> QED
    BY <2>1, <2>2 DEF StreamOf, OwnContent, Own
<1>3. NoneInvented(c)'
  <2>1. LineAsks(c)' = LineAsks(c) /\ LaunchAsks(c)' = LaunchAsks(c) /\ BusyWith(c)' = BusyWith(c)
    BY DEF LineAsks, LaunchAsks, BusyWith, Reading, InReader
  <2> QED
    BY <2>1 DEF StreamOf, NoneInvented, Open
<1> QED
  BY <1>1, <1>2, <1>3 DEF StreamOf

\* The reader takes the lines one by one and makes no requests of its own.
LEMMA StreamReader ==
    ASSUME IInv, FreshInv, [Next]_vars, NEW c \in Conns, StreamOf(c), cur = c,
           Recv \/ Count \/ Alloc \/ Launch \/ Ref \/ NewTask \/ Load \/ WriteField
    PROVE  StreamOf(c)'
<1>0. /\ TypeOK /\ ConnTypeOK /\ ClientTypeOK /\ WorkerTypeOK /\ RefInv /\ ReaderShape /\ RequestInv
      /\ NULL \notin Conns /\ NULL \notin Requests
  BY ReaderAssumption DEF IInv, RefInv, TypeOK
<1>1. UNCHANGED <<sent, answered, workerVars>>
  BY DEF Recv, Count, Alloc, Launch, Ref, NewTask, Load, WriteField
<1>2. BusyWith(c)' = BusyWith(c) /\ Own(c)' = Own(c) /\ (\A w \in Workers : Busy(w, c)' <=> Busy(w, c))
  BY <1>1 DEF BusyWith, Busy, Own
\* The content.
<1>3. OwnContent(c)'
  <2>1. ASSUME \A r \in Requests : content'[r] \subseteq content[r] \cup Own(c),
               request'[c] \in {request[c], NULL} \/ content'[request'[c]] = {}
        PROVE  OwnContent(c)'
    <3>1. request[c] \in Requests \cup {NULL} /\ \A w \in Workers : wreq[w] \in Requests \cup {NULL}
      BY <1>0 DEF ConnTypeOK, WorkerTypeOK
    <3>2. request'[c] # NULL => content'[request'[c]] \subseteq Own(c)
      BY <2>1, <3>1 DEF StreamOf, OwnContent
    <3>3. \A w \in Workers : Busy(w, c) /\ wreq[w] # NULL => content'[wreq[w]] \subseteq Own(c)
      BY <2>1, <3>1 DEF StreamOf, OwnContent
    <3> QED
      BY <1>1, <1>2, <3>2, <3>3 DEF OwnContent
  <2>2. CASE Alloc
    <3>1. content' = content /\ (request'[c] = request[c] \/ request'[c] \in Requests \ heap)
      BY <1>0, <2>2 DEF Alloc, ConnTypeOK
    <3> QED
      BY <2>1, <3>1 DEF FreshInv
  <2>3. CASE Launch \/ WriteField
    <3>1. <<c, line.of>> \in Own(c) /\ request' = request
      BY <2>3 DEF Launch, WriteField, At, Reading, StreamOf, OwnReading, Own
    <3>2. \A r \in Requests : content'[r] \subseteq content[r] \cup {<<c, line.of>>}
      <4>1. CASE Launch
        BY <4>1 DEF Launch
      <4>2. CASE WriteField
        BY <1>0, <4>2 DEF WriteField, ConnTypeOK
      <4> QED
        BY <2>3, <4>1, <4>2
    <3> QED
      BY <2>1, <3>1, <3>2
  <2>4. CASE Recv \/ Count \/ Ref \/ NewTask \/ Load
    <3>1. UNCHANGED <<request, content>>
      BY <2>4 DEF Recv, Count, Ref, NewTask, Load
    <3> QED
      BY <2>1, <3>1
  <2> QED
    BY <2>2, <2>3, <2>4
\* The lines.
<1>4. input[c] \in Seq(Line) /\ Len(input[c]) \in Nat
  BY <1>0 DEF ClientTypeOK
<1>5. CASE Recv
  <2>0. input[c] # <<>> /\ rpc = "recv" /\ UNCHANGED queued
    BY <1>0, <1>5 DEF Recv, At, ReaderShape
  <2>1. LineAsks(c) = 0 /\ LaunchAsks(c) = 0
    BY <2>0 DEF LineAsks, LaunchAsks, Reading, InReader
  <2>2. ~ InReader(c)' /\ LaunchAsks(c)' = 0
    BY <1>0, <1>5 DEF Recv, BackToPass, InReader, LaunchAsks
  <2>3. CASE Head(input[c]).kind = "checkserver"
    <3>1. input'[c] = <<>> /\ ~ Reading(c)'
      BY <1>0, <1>5, <2>3 DEF Recv, CloseSession, BackToPass, Reading, ClientTypeOK
    <3>2. OwnLines(c)' /\ OwnReading(c)' /\ LineAsks(c)' = 0 /\ Cardinality(Blanks(input'[c])) = 0
      BY <3>1, NoBlanks DEF OwnLines, OwnReading, LineAsks
    <3>3. Open(c)' <= Open(c) /\ Open(c)' \in Nat
      BY <1>0, <1>2, <2>0, <2>1, <2>2, <3>2, OpenTerms DEF Open
    <3>4. NoneInvented(c)'
      BY <1>0, <1>1, <3>3, OpenTerms DEF StreamOf, NoneInvented
    <3> QED
      BY <1>3, <3>2, <3>4 DEF StreamOf
  <2>4. CASE Head(input[c]).kind # "checkserver"
    <3>1. Head(input[c]) = input[c][1] /\ 1 \in 1..Len(input[c]) /\ input[c][1] \in Line
      BY <1>4, <2>0
    <3>2. input[c][1].of \in 1..(sent[c] + 1) /\ input[c][1].kind # "eof"
      BY <3>1 DEF StreamOf, OwnLines
    <3>3. /\ line' = input[c][1] /\ input'[c] = Tail(input[c]) /\ rpc' = "count" /\ cur' = cur
          /\ input[c][1].kind # "part"
      BY <1>0, <1>5, <2>4, <3>1, <3>2 DEF Recv, ClientTypeOK
    <3>4. OwnReading(c)'
      BY <1>1, <2>4, <3>1, <3>2, <3>3 DEF OwnReading, Line
    <3>5. OwnLines(c)'
      <4>1. /\ Len(input'[c]) = Len(input[c]) - 1
            /\ \A i \in 1..Len(input'[c]) : input'[c][i] = input[c][i + 1]
        BY <1>4, <2>0, <3>3
      <4>2. \A i \in 1..Len(input'[c]) : i + 1 \in 1..Len(input[c])
        BY <1>4, <4>1
      <4> QED
        BY <1>1, <4>1, <4>2 DEF StreamOf, OwnLines
    <3>6. LineAsks(c)' = IsBlank(Head(input[c]))
      BY <3>1, <3>3 DEF LineAsks, Reading, IsBlank
    <3>7. Cardinality(Blanks(input[c])) = Cardinality(Blanks(input'[c])) + IsBlank(Head(input[c]))
      BY <1>4, <2>0, <3>3, BlanksTail
    <3>8. Cardinality(Blanks(input'[c])) \in Nat /\ LineAsks(c)' \in Nat
      <4>1. Len(input'[c]) \in Nat
        BY <1>4, <2>0, <3>3
      <4> QED
        BY <4>1, <3>6, BlanksType DEF IsBlank
    <3>9. Open(c)' = Open(c)
      BY <1>0, <1>2, <2>0, <2>1, <2>2, <3>6, <3>7, <3>8, OpenTerms DEF Open
    <3>10. NoneInvented(c)'
      BY <1>1, <3>9 DEF StreamOf, NoneInvented
    <3> QED
      BY <1>3, <3>4, <3>5, <3>10 DEF StreamOf
  <2> QED
    BY <2>3, <2>4
<1>6. CASE ~ Recv
  <2>1. input'[c] = input[c] \/ input'[c] = <<>>
    <3>1. input' = input \/ input' = [input EXCEPT ![c] = <<>>]
      BY <1>6 DEF Count, Alloc, Launch, Ref, NewTask, Load, WriteField, CloseSession
    <3> QED
      BY <1>0, <3>1 DEF ClientTypeOK
  <2>2. OwnLines(c)'
    BY <1>1, <2>1 DEF StreamOf, OwnLines
  <2>3. /\ Cardinality(Blanks(input'[c])) \in Nat
        /\ Cardinality(Blanks(input'[c])) <= Cardinality(Blanks(input[c]))
    BY <1>0, <2>1, NoBlanks, OpenTerms
  <2>4. OwnReading(c)'
    <3> SUFFICES ASSUME Reading(c)'
                 PROVE  Reading(c) /\ line' = line /\ (rpc' = "launch" => line.kind = "blank")
      BY <1>1 DEF StreamOf, OwnReading
    <3>1. ~ Launch /\ ~ Ref /\ ~ NewTask /\ ~ WriteField
      BY <1>0 DEF Launch, Ref, NewTask, WriteField, BackToPass, Reading
    <3>2. CASE Alloc
      <4>1. Reading(c)
        BY <3>2 DEF Alloc, At, Reading
      <4>2. line.kind \in {"attr", "malformed", "blank"}
        BY <4>1 DEF StreamOf, OwnReading
      <4>3. line.kind # "malformed" /\ line' = line /\ rpc' = ParseOrLaunch(line.kind)
        BY <1>0, <3>2 DEF Alloc, BackToPass, Reading
      <4> QED
        BY <4>1, <4>2, <4>3 DEF ParseOrLaunch
    <3>3. CASE Count
      BY <1>0, <3>3 DEF Count, At, BackToPass, Reading
    <3>4. CASE Load
      BY <1>0, <3>4 DEF Load, At, Reading
    <3> QED
      BY <1>6, <3>1, <3>2, <3>3, <3>4
  <2>5. LineAsks(c)' + LaunchAsks(c)' + queued'[c] <= LineAsks(c) + LaunchAsks(c) + queued[c]
        /\ LineAsks(c)' \in Nat /\ LaunchAsks(c)' \in Nat /\ queued'[c] \in Nat
    <3>1. queued[c] \in Nat /\ LineAsks(c)' \in {0, 1} /\ LaunchAsks(c)' \in {0, 1}
          /\ LineAsks(c) \in {0, 1} /\ LaunchAsks(c) \in {0, 1}
      BY <1>0 DEF WorkerTypeOK, LineAsks, LaunchAsks
    <3>2. CASE Launch
      <4>1. line.kind = "blank" /\ rpc = "launch"
        BY <3>2 DEF Launch, At, Reading, StreamOf, OwnReading
      <4>2. LineAsks(c) = 1 /\ LineAsks(c)' = 0 /\ queued' = queued /\ LaunchAsks(c) = 0
        BY <1>0, <3>2, <4>1 DEF Launch, BackToPass, LineAsks, LaunchAsks, Reading, InReader
      <4> QED
        BY <3>1, <4>2
    <3>3. CASE NewTask
      <4>1. LaunchAsks(c) = 1 /\ LaunchAsks(c)' = 0 /\ LineAsks(c)' = 0
        BY <1>0, <3>3 DEF NewTask, At, BackToPass, LineAsks, LaunchAsks, Reading, InReader
      <4>2. queued'[c] \in {queued[c], queued[c] + 1}
        BY <1>0, <3>3 DEF NewTask, WorkerTypeOK
      <4> QED
        BY <3>1, <4>1, <4>2
    <3>4. CASE ~ Launch /\ ~ NewTask
      <4>1. queued' = queued
        BY <1>6, <3>4 DEF Count, Alloc, Ref, Load, WriteField
      <4>2. InReader(c)' => InReader(c)
        BY <1>0, <1>6, <3>4 DEF Count, Alloc, Ref, Load, WriteField, At, BackToPass, ParseOrLaunch, InReader
      <4>3. Reading(c)' => Reading(c) /\ line' = line
        BY <1>0, <1>6, <3>4 DEF Count, Alloc, Ref, Load, WriteField, At, BackToPass, Reading
      <4>4. LineAsks(c)' <= LineAsks(c) /\ LaunchAsks(c)' <= LaunchAsks(c)
        BY <4>2, <4>3 DEF LineAsks, LaunchAsks
      <4> QED
        BY <3>1, <4>1, <4>4
    <3> QED
      BY <3>2, <3>3, <3>4
  <2>6. Open(c)' <= Open(c) /\ Open(c)' \in Nat
    <3>1. Open(c)' = Cardinality(Blanks(input'[c])) + LineAsks(c)' + LaunchAsks(c)' + queued'[c]
                     + Cardinality(BusyWith(c))
      BY <1>2 DEF Open
    <3>2. Open(c) = Cardinality(Blanks(input[c])) + LineAsks(c) + LaunchAsks(c) + queued[c]
                    + Cardinality(BusyWith(c))
      BY DEF Open
    <3>3. /\ Cardinality(Blanks(input[c])) \in Nat /\ LineAsks(c) \in Nat /\ LaunchAsks(c) \in Nat
          /\ queued[c] \in Nat /\ Cardinality(BusyWith(c)) \in Nat
      BY <1>0, OpenTerms
    <3> QED
      BY <2>3, <2>5, <3>1, <3>2, <3>3
  <2>7. NoneInvented(c)'
    BY <1>0, <1>1, <2>6, OpenTerms DEF StreamOf, NoneInvented
  <2> QED
    BY <1>3, <2>2, <2>4, <2>7 DEF StreamOf
<1> QED
  BY <1>5, <1>6

\* What a worker takes, keeps and answers is one request.
LEMMA StreamPop ==
    ASSUME IInv, FreshInv, [Next]_vars, NEW c \in Conns, StreamOf(c), NEW v \in Workers, Pop(v, c)
    PROVE  StreamOf(c)'
<1>0. /\ TypeOK /\ WorkerTypeOK /\ WorkerShape /\ NULL \notin Conns
  BY ReaderAssumption DEF IInv, RefInv, TypeOK
<1>1. /\ UNCHANGED <<sent, input, answered, request, content, rpc, cur, line, wreq>>
      /\ wpc[v] = "idle" /\ wconn[v] = NULL /\ wreq[v] = NULL
      /\ queued[c] \in Nat \ {0} /\ queued'[c] = queued[c] - 1
  BY <1>0 DEF Pop, WorkerAt, WorkerShape, WorkerTypeOK
<1>2. \A w \in Workers \ {v} : Busy(w, c)' <=> Busy(w, c)
  BY <1>0 DEF Pop, WorkerTypeOK, Busy
<1>3. OwnLines(c)' /\ OwnReading(c)'
  BY <1>1 DEF StreamOf, OwnLines, OwnReading, Reading
<1>4. OwnContent(c)'
  BY <1>1, <1>2 DEF StreamOf, OwnContent, Own
<1>5. ~ Busy(v, c)
  BY <1>1 DEF Busy
<1>6. /\ Cardinality(BusyWith(c)') \in Nat
      /\ Cardinality(BusyWith(c)') <= Cardinality(BusyWith(c)) + 1
  <2>1. BusyWith(c)' = BusyWith(c) \/ BusyWith(c)' = BusyWith(c) \cup {v}
    BY <1>2, <1>5 DEF BusyWith
  <2>2. v \notin BusyWith(c)
    BY <1>5 DEF BusyWith
  <2> QED
    BY <1>0, <2>1, <2>2, OpenTerms, FS_AddElement
<1>7. Open(c)' <= Open(c) /\ Open(c)' \in Nat
  <2>1. LineAsks(c)' = LineAsks(c) /\ LaunchAsks(c)' = LaunchAsks(c)
    BY <1>1 DEF LineAsks, LaunchAsks, Reading, InReader
  <2>2. Open(c)' = Cardinality(Blanks(input[c])) + LineAsks(c) + LaunchAsks(c) + (queued[c] - 1)
                   + Cardinality(BusyWith(c)')
    BY <1>1, <2>1 DEF Open
  <2>3. Open(c) = Cardinality(Blanks(input[c])) + LineAsks(c) + LaunchAsks(c) + queued[c]
                  + Cardinality(BusyWith(c))
    BY DEF Open
  <2>4. /\ Cardinality(Blanks(input[c])) \in Nat /\ LineAsks(c) \in Nat /\ LaunchAsks(c) \in Nat
        /\ Cardinality(BusyWith(c)) \in Nat
    BY <1>0, OpenTerms
  <2> QED
    BY <1>1, <1>6, <2>2, <2>3, <2>4
<1>8. NoneInvented(c)'
  BY <1>0, <1>1, <1>7, OpenTerms DEF StreamOf, NoneInvented
<1> QED
  BY <1>3, <1>4, <1>8 DEF StreamOf

LEMMA StreamWorker ==
    ASSUME IInv, FreshInv, [Next]_vars, NEW c \in Conns, client[c] = "streaming", StreamOf(c),
           NEW v \in Workers, wconn[v] = c, WorkerStep(v)
    PROVE  /\ StreamOf(c)'
           /\ Reply(v) => Len(answered[c]) < sent[c] /\ content[wreq[v]] \subseteq Own(c)
<1>0. /\ TypeOK /\ ConnTypeOK /\ ClientTypeOK /\ WorkerTypeOK /\ RefInv /\ WorkerShape /\ OneOwner
      /\ NULL \notin Conns /\ NULL \notin Requests
  BY ReaderAssumption DEF IInv, RefInv, TypeOK
<1>1. /\ UNCHANGED <<sent, input, queued, rpc, cur, line>>
      /\ \A w \in Workers \ {v} : wpc'[w] = wpc[w] /\ wconn'[w] = wconn[w] /\ wreq'[w] = wreq[w]
  BY <1>0 DEF WorkerStep, Take, Clear, Ready, Reset, Handle, Reply, UnrefConn, FreeRequest,
              WorkerElse, WorkerTypeOK
<1>2. wpc[v] \notin {"idle", "free"} /\ (Busy(v, c) <=> wpc[v] # "unref")
  BY <1>0 DEF WorkerShape, WorkerTypeOK, Busy
<1>3. \A w \in Workers \ {v} : Busy(w, c)' <=> Busy(w, c)
  BY <1>1 DEF Busy
<1>4. ~ (cur = c /\ (Launch \/ WriteField))
  BY <1>1, <1>2 DEF Launch, WriteField, BackToPass, At, WorkerStep, Take, Clear, Ready, Reset, Handle,
                    Reply, UnrefConn, FreeRequest
<1>5. /\ request'[c] = request[c] /\ request[c] # NULL => content'[request[c]] = content[request[c]]
      /\ \A w \in Workers : Busy(w, c) /\ wreq[w] # NULL => content'[wreq[w]] = content[wreq[w]]
  BY <1>4, ContentKept
<1>6. /\ OwnLines(c)' /\ OwnReading(c)' /\ Own(c)' = Own(c)
      /\ LineAsks(c)' = LineAsks(c) /\ LaunchAsks(c)' = LaunchAsks(c)
  BY <1>1 DEF StreamOf, OwnLines, OwnReading, Reading, Own, LineAsks, LaunchAsks, InReader
<1>7. ASSUME Busy(v, c), wpc'[v] # "unref" => Busy(v, c)', content' = content,
             request'[c] \in {request[c], NULL}, wreq'[v] \in {wreq[v], request[c]}
      PROVE  OwnContent(c)'
  <2>1. request'[c] # NULL => content'[request'[c]] \subseteq Own(c)
    BY <1>7 DEF StreamOf, OwnContent
  <2>2. ASSUME NEW w \in Workers, Busy(w, c)', wreq'[w] # NULL
        PROVE  content'[wreq'[w]] \subseteq Own(c)
    BY <1>1, <1>3, <1>7, <2>2 DEF StreamOf, OwnContent
  <2> QED
    BY <1>6, <2>1, <2>2 DEF OwnContent
<1>8. ASSUME Busy(v, c), Busy(v, c)', answered' = answered
      PROVE  NoneInvented(c)'
  <2>1. BusyWith(c)' = BusyWith(c)
    BY <1>3, <1>8 DEF BusyWith
  <2> QED
    BY <1>1, <1>6, <1>8, <2>1 DEF StreamOf, NoneInvented, Open
<1>9. CASE Take(v) \/ Clear(v) \/ Ready(v) \/ Reset(v) \/ Handle(v)
  <2>1. /\ UNCHANGED <<answered, content, wconn>> /\ request'[c] \in {request[c], NULL}
        /\ wreq'[v] \in {wreq[v], request[c]}
        /\ wpc[v] \in {"take", "clear", "ready", "reset", "handle"}
        /\ wpc'[v] \in {"clear", "ready", "reset", "handle", "reply"}
    BY <1>0, <1>9 DEF Take, Clear, Ready, Reset, Handle, WorkerAt, WorkerTypeOK, ConnTypeOK
  <2>2. Busy(v, c) /\ Busy(v, c)'
    BY <2>1 DEF Busy
  <2>3. ~ Reply(v)
    BY <2>1 DEF Reply, WorkerAt
  <2> QED
    BY <1>6, <1>7, <1>8, <2>1, <2>2, <2>3 DEF StreamOf
<1>10. CASE Reply(v)
  <2>1. /\ UNCHANGED <<request, wconn, wreq, content>> /\ wpc[v] = "reply" /\ wpc'[v] = "unref"
        /\ wreq[v] # NULL
    BY <1>0, <1>10 DEF Reply, WorkerAt, WorkerTypeOK, WorkerShape
  <2>2. Busy(v, c) /\ ~ Busy(v, c)'
    BY <2>1 DEF Busy
  <2>3. OwnContent(c)'
    BY <1>7, <2>1, <2>2
  <2>4. BusyWith(c)' = BusyWith(c) \ {v} /\ v \in BusyWith(c)
    BY <1>3, <2>2 DEF BusyWith
  <2>5. /\ Cardinality(BusyWith(c)') = Cardinality(BusyWith(c)) - 1
        /\ Cardinality(BusyWith(c)) \in Nat \ {0}
    <3>1. IsFiniteSet(BusyWith(c)) /\ Cardinality(BusyWith(c)) \in Nat
      BY <1>0, OpenTerms
    <3>2. Cardinality(BusyWith(c)) # 0
      BY <2>4, <3>1, FS_EmptySet
    <3>3. Cardinality(BusyWith(c) \ {v}) = Cardinality(BusyWith(c)) - 1
      BY <2>4, <3>1, FS_RemoveElement
    <3> QED
      BY <2>4, <3>1, <3>2, <3>3
  <2>6. Open(c)' = Open(c) - 1 /\ Open(c) \in Nat \ {0}
    <3>1. Open(c)' = Cardinality(Blanks(input[c])) + LineAsks(c) + LaunchAsks(c) + queued[c]
                     + Cardinality(BusyWith(c)')
      BY <1>1, <1>6 DEF Open
    <3>2. Open(c) = Cardinality(Blanks(input[c])) + LineAsks(c) + LaunchAsks(c) + queued[c]
                    + Cardinality(BusyWith(c))
      BY DEF Open
    <3>3. /\ Cardinality(Blanks(input[c])) \in Nat /\ LineAsks(c) \in Nat /\ LaunchAsks(c) \in Nat
          /\ queued[c] \in Nat
      BY <1>0, OpenTerms
    <3> QED
      BY <2>5, <3>1, <3>2, <3>3
  <2>7. Len(answered[c]) + Open(c) <= sent[c] /\ Len(answered[c]) \in Nat /\ sent[c] \in Nat
    BY <1>0, OpenTerms DEF StreamOf, NoneInvented
  <2>8. Len(answered'[c]) \in {Len(answered[c]), Len(answered[c]) + 1}
    <3>1. answered[c] \in Seq(SUBSET (Conns \X Nat)) /\ content[wreq[v]] \in SUBSET (Conns \X Nat)
      BY <1>0, <2>1 DEF ClientTypeOK, ConnTypeOK, WorkerTypeOK
    <3>2. answered'[c] \in {answered[c], Append(answered[c], content[wreq[v]])}
      BY <1>0, <1>10 DEF Reply, ClientTypeOK
    <3> QED
      BY <3>1, <3>2
  <2>9. NoneInvented(c)'
    <3>0. sent'[c] = sent[c]
      BY <1>1
    <3>1. Len(answered'[c]) + Open(c)' <= sent'[c]
      BY <2>6, <2>7, <2>8, <3>0
    <3> QED
      BY <3>1 DEF NoneInvented
  <2>10. Len(answered[c]) < sent[c]
    BY <2>6, <2>7
  <2>11. content[wreq[v]] \subseteq Own(c)
    BY <2>1, <2>2 DEF StreamOf, OwnContent
  <2> QED
    BY <1>6, <2>3, <2>9, <2>10, <2>11 DEF StreamOf
<1>11. CASE UnrefConn(v)
  <2>1. /\ UNCHANGED <<answered, wreq>> /\ wpc[v] = "unref" /\ wconn'[v] = NULL /\ Unref(c)
    BY <1>0, <1>11 DEF UnrefConn, WorkerAt, WorkerTypeOK
  <2>2. ~ Busy(v, c) /\ ~ Busy(v, c)' /\ ~ Reply(v)
    BY <1>0, <2>1 DEF Busy, Reply, WorkerAt
  <2> QED
    BY <1>1, <1>3, <1>4, <2>1, <2>2, StreamUnref
<1>12. CASE FreeRequest(v)
  BY <1>2, <1>12 DEF FreeRequest, WorkerAt
<1> QED
  BY <1>9, <1>10, <1>11, <1>12 DEF WorkerStep

LEMMA StreamStep ==
    ASSUME IInv, FreshInv, StreamInv, [Next]_vars
    PROVE  StreamInv'
<1> SUFFICES ASSUME NEW c \in Conns, client'[c] = "streaming" PROVE StreamOf(c)'
  BY DEF StreamInv
<1>0. TypeOK /\ ClientTypeOK
  BY DEF IInv, RefInv, TypeOK
<1>1. CASE Accept(c)
  BY <1>1, StreamAccept
<1>2. CASE ~ Accept(c)
  <2>1. client[c] = "streaming"
    <3>1. CASE ~ About(c)
      BY <3>1, AsideSteps DEF Aside
    <3>2. CASE ClientStep(c)
      BY <1>0, <3>2 DEF ClientStep, Connect, SendLine, SendBlank, SendPart, FinishLine, Disconnect,
                        Sends, ClientTypeOK
    <3>3. ASSUME NEW w \in Workers, WorkerStep(w) PROVE client[c] = "streaming"
      <4>1. wpc[w] = "reply" => wconn[w] \in Conns
        BY DEF IInv, RefInv, WorkerShape, TypeOK, WorkerTypeOK
      <4>2. CASE Reply(w)
        BY <1>0, <4>1, <4>2 DEF Reply, WorkerAt, ClientTypeOK
      <4>3. CASE ~ Reply(w)
        BY <3>3, <4>3 DEF WorkerStep, Take, Clear, Ready, Reset, Handle, UnrefConn, FreeRequest
      <4> QED
        BY <4>2, <4>3
    <3>4. CASE About(c) /\ ~ ClientStep(c) /\ ~ \E w \in Workers : WorkerStep(w)
      BY <1>2, <3>4 DEF About, DropClosed, Recv, Count, Alloc, Launch, Ref, NewTask, Load, WriteField,
                        Pop
    <3> QED
      BY <3>1, <3>2, <3>3, <3>4
  <2>2. StreamOf(c)
    BY <2>1 DEF StreamInv
  <2>3. CASE DropClosed(c)
    <3>1. ~ (cur = c /\ (Launch \/ WriteField))
      BY <2>3 DEF DropClosed, At, Launch, WriteField
    <3> QED
      BY <2>2, <2>3, <3>1, StreamUnref DEF DropClosed, Busy
  <2>4. CASE About(c) /\ ~ DropClosed(c)
    BY <1>2, <2>1, <2>2, <2>4, StreamClient, StreamReader, StreamPop, StreamWorker DEF About
  <2>5. CASE ~ About(c)
    <3>1. ~ (cur = c /\ (Launch \/ WriteField))
      BY <2>5 DEF About
    <3> QED
      BY <2>2, <2>5, <3>1, AsideSteps, StreamAside
  <2> QED
    BY <2>3, <2>4, <2>5
<1> QED
  BY <1>1, <1>2

ServiceInv == IInv /\ FreshInv /\ TurnInv /\ StreamInv

\* Each step is one of the service, for one client, or nothing to it.
PhaseNow == [c \in Conns |-> Phase(c)]
Step(c) ==
    \/ Service!Come(c) \/ Service!Ask(c) \/ Service!Answer(c) \/ Service!AnswerStream(c)
    \/ Service!PassOver(c) \/ Service!Leave(c)
    \/ UNCHANGED <<PhaseNow, sent, answered>>

LEMMA PhaseChange ==
    ASSUME NEW c \in Conns, TypeOK, NEW to, client' = [client EXCEPT ![c] = to],
           to \notin {"absent", "connecting"}
    PROVE  PhaseNow' = [PhaseNow EXCEPT ![c] = to]
<1>1. client \in [Conns -> {"absent", "connecting", "writing", "waiting", "unanswered",
                            "streaming", "gone"}]
  BY DEF TypeOK, ClientTypeOK
<1>2. \A d \in Conns : Phase(d)' = IF d = c THEN to ELSE Phase(d)
  BY <1>1 DEF Phase
<1> QED
  BY <1>2 DEF PhaseNow

LEMMA ReplyServes ==
    ASSUME ServiceInv, [Next]_vars, NEW w \in Workers, Reply(w)
    PROVE  \E c \in Conns : Step(c)
<1> DEFINE c == wconn[w]
<1>0. /\ TypeOK /\ ConnTypeOK /\ ClientTypeOK /\ WorkerTypeOK /\ RefInv /\ WorkerShape
      /\ NULL \notin Conns
  BY ReaderAssumption DEF ServiceInv, IInv, RefInv, TypeOK
<1>1. wpc[w] = "reply" /\ c \in Conns /\ Busy(w, c) /\ InFlight(c) /\ wreq[w] # NULL
  BY <1>0 DEF Reply, WorkerAt, WorkerShape, WorkerTypeOK, Busy, InFlight
<1> DEFINE delivered == wstate[w] \notin Silent /\ session[c] = "open" /\ client[c] # "gone"
<1>2. /\ answered' = IF delivered THEN [answered EXCEPT ![c] = Append(@, content[wreq[w]])] ELSE answered
      /\ client' = [client EXCEPT ![c] = IF @ # "waiting" THEN @
                                         ELSE IF delivered THEN "writing" ELSE "unanswered"]
      /\ sent' = sent
  BY DEF Reply
<1>3. client[c] # "waiting" => client' = client /\ PhaseNow' = PhaseNow
  BY <1>0, <1>1, <1>2 DEF PhaseNow, Phase, ClientTypeOK
<1>4. client[c] \notin {"absent", "connecting"}
  <2>1. ref_count[c] > 0
    BY <1>0, <1>1, HolderCounts DEF HeldBy
  <2> QED
    BY <1>0, <1>1, <2>1 DEF RefInv, Unborn
<1>5. PhaseNow[c] = client[c]
  BY <1>1, <1>4 DEF PhaseNow, Phase
<1> HIDE DEF c, delivered
<1>6. CASE client[c] = "waiting"
  <2>1. TurnOf(c)
    BY <1>1, <1>6 DEF ServiceInv, TurnInv, Waits
  <2>2. Turn(c) = sent[c] /\ content[wreq[w]] = {<<c, Turn(c)>>}
    BY <1>1, <1>6, <2>1 DEF TurnOf, RepliesTurn, ContentTurn
  <2>3. CASE delivered
    <3>1. PhaseNow' = [PhaseNow EXCEPT ![c] = "writing"]
      BY <1>0, <1>1, <1>2, <1>6, <2>3, PhaseChange
    <3>2. answered' = [answered EXCEPT ![c] = Append(@, {<<c, sent[c]>>})]
      BY <1>2, <2>2, <2>3
    <3>3. Service!Answer(c)
      BY <1>2, <1>5, <1>6, <3>1, <3>2 DEF Service!Answer, Service!Goes, PhaseNow
    <3> QED
      BY <1>1, <3>3 DEF Step
  <2>4. CASE ~ delivered
    <3>1. PhaseNow' = [PhaseNow EXCEPT ![c] = "unanswered"]
      BY <1>0, <1>1, <1>2, <1>6, <2>4, PhaseChange
    <3>2. Service!PassOver(c)
      BY <1>2, <1>5, <1>6, <2>4, <3>1 DEF Service!PassOver, Service!Goes, PhaseNow
    <3> QED
      BY <1>1, <3>2 DEF Step
  <2> QED
    BY <2>3, <2>4
<1>7. CASE client[c] = "streaming"
  <2>1. StreamOf(c) /\ WorkerStep(w)
    BY <1>1, <1>7 DEF ServiceInv, StreamInv, WorkerStep
  <2>2. Len(answered[c]) < sent[c] /\ content[wreq[w]] \subseteq Own(c)
    BY <1>1, <1>7, <2>1, StreamWorker DEF ServiceInv, c
  <2>3. CASE delivered
    <3>1. content[wreq[w]] \in SUBSET Service!Lines(c, sent[c] + 1)
      BY <2>2 DEF Own, Service!Lines
    <3>2. answered' = [answered EXCEPT ![c] = Append(@, content[wreq[w]])]
      BY <1>2, <2>3
    <3>3. Service!AnswerStream(c)
      BY <1>2, <1>3, <1>5, <1>7, <2>2, <3>1, <3>2 DEF Service!AnswerStream, PhaseNow
    <3> QED
      BY <1>1, <3>3 DEF Step
  <2>4. CASE ~ delivered
    BY <1>1, <1>2, <1>3, <1>7, <2>4 DEF Step
  <2> QED
    BY <2>3, <2>4
<1>8. CASE client[c] = "gone"
  <2>1. ~ delivered
    BY <1>8 DEF delivered
  <2> QED
    BY <1>1, <1>2, <1>3, <1>8, <2>1 DEF Step
<1>9. client[c] \notin {"writing", "unanswered"}
  <2>1. Waits(c) => TurnOf(c)
    BY <1>1 DEF ServiceInv, TurnInv
  <2> QED
    BY <1>1, <2>1 DEF Waits, TurnOf, FlightTurn
<1> QED
  BY <1>0, <1>1, <1>4, <1>6, <1>7, <1>8, <1>9 DEF ClientTypeOK

LEMMA ServiceStep ==
    ASSUME ServiceInv, [Next]_vars
    PROVE  [Service!Next]_(Service!vars)
<1>0. /\ TypeOK /\ client \in [Conns -> {"absent", "connecting", "writing", "waiting", "unanswered",
                                         "streaming", "gone"}]
      /\ sent \in [Conns -> Nat]
  BY DEF ServiceInv, IInv, RefInv, TypeOK, ClientTypeOK
<1>1. ASSUME NEW c \in Conns, Step(c) PROVE [Service!Next]_(Service!vars)
  BY <1>1 DEF Step, Service!Next, Service!vars, PhaseNow
<1>2. CASE UNCHANGED <<client, sent, answered>>
  BY <1>2 DEF Service!vars, Phase
<1>3. ASSUME NEW c \in Conns, ClientStep(c) PROVE [Service!Next]_(Service!vars)
  <2>1. UNCHANGED answered
    BY <1>3, ClientsOnly
  <2>2. CASE Connect(c)
    <3>1. \A d \in Conns : Phase(d)' = Phase(d)
      BY <1>0, <2>2 DEF Connect, Phase
    <3> QED
      BY <2>1, <2>2, <3>1 DEF Connect, Service!vars
  <2>3. CASE SendLine(c) \/ SendPart(c) \/ FinishLine(c)
    BY <1>2, <2>1, <2>3 DEF SendLine, SendPart, FinishLine
  <2>4. CASE SendBlank(c)
    <3>1. /\ sent' = [sent EXCEPT ![c] = @ + 1] /\ client[c] \in {"writing", "streaming"}
          /\ client' = [client EXCEPT ![c] = IF @ = "writing" THEN "waiting" ELSE @]
      BY <2>4 DEF SendBlank, Sends
    <3>2. PhaseNow[c] = client[c]
      BY <3>1 DEF PhaseNow, Phase
    <3>3. CASE client[c] = "writing"
      <4>1. PhaseNow' = [PhaseNow EXCEPT ![c] = "waiting"]
        BY <1>0, <3>1, <3>3, PhaseChange
      <4> QED
        BY <1>1, <2>1, <3>1, <3>2, <3>3, <4>1 DEF Step, Service!Ask, Service!Goes, PhaseNow
    <3>4. CASE client[c] = "streaming"
      <4>1. PhaseNow' = [PhaseNow EXCEPT ![c] = "streaming"]
        BY <1>0, <3>1, <3>4, PhaseChange
      <4> QED
        BY <1>1, <2>1, <3>1, <3>2, <3>4, <4>1 DEF Step, Service!Ask, Service!Goes, PhaseNow
    <3> QED
      BY <3>1, <3>3, <3>4
  <2>5. CASE Disconnect(c)
    <3>1. /\ sent' = sent /\ client[c] \notin {"absent", "connecting", "gone"}
          /\ client' = [client EXCEPT ![c] = "gone"]
      BY <2>5 DEF Disconnect
    <3>2. PhaseNow[c] = client[c] /\ client[c] # "away"
      BY <1>0, <3>1 DEF PhaseNow, Phase
    <3>3. PhaseNow' = [PhaseNow EXCEPT ![c] = "gone"]
      BY <1>0, <3>1, PhaseChange
    <3> QED
      BY <1>1, <2>1, <3>1, <3>2, <3>3 DEF Step, Service!Leave, PhaseNow
  <2> QED
    BY <1>3, <2>2, <2>3, <2>4, <2>5 DEF ClientStep
<1>4. ASSUME NEW c \in Conns, Accept(c) PROVE [Service!Next]_(Service!vars)
  <2>1. /\ UNCHANGED <<sent, answered>> /\ PhaseNow[c] = "away"
        /\ \E to \in {"writing", "streaming"} : client' = [client EXCEPT ![c] = to]
    BY <1>4 DEF Accept, PhaseNow, Phase
  <2>2. PICK to \in {"writing", "streaming"} : client' = [client EXCEPT ![c] = to]
    BY <2>1
  <2>3. PhaseNow' = [PhaseNow EXCEPT ![c] = to]
    BY <1>0, <2>2, PhaseChange
  <2> QED
    BY <1>1, <2>1, <2>3 DEF Step, Service!Come, Service!Goes, PhaseNow
<1>5. CASE ReaderStep /\ ~ \E c \in Conns : Accept(c)
  BY <1>2, <1>5 DEF ReaderStep, DropClosed, Select, Wait, PassDone, Recv, Count, Alloc, Launch, Ref,
                    NewTask, Load, WriteField
<1>6. ASSUME NEW w \in Workers, WorkerStep(w) PROVE [Service!Next]_(Service!vars)
  <2>1. CASE Reply(w)
    BY <1>1, <2>1, ReplyServes
  <2>2. CASE ~ Reply(w)
    BY <1>2, <1>6, <2>2 DEF WorkerStep, Take, Clear, Ready, Reset, Handle, UnrefConn, FreeRequest
  <2> QED
    BY <2>1, <2>2
<1>7. CASE UNCHANGED vars \/ BeingClosed \/ \E c \in Conns : PopTask(c)
  BY <1>2, <1>7 DEF vars, BeingClosed, PopTask, Pop
<1> QED
  BY <1>3, <1>4, <1>5, <1>6, <1>7 DEF Next

\* The reader and the workers, with connections they share without a lock, are the service
\* that libValvula promises (valvula_reader_process_socket to
\* valvula_reader_process_request_proxy): a waiting client gets one reply to each request,
\* made of it alone, and one that does not wait gets, while it stays, no more replies than it
\* sent requests, each made of its own lines, whatever other clients do.
THEOREM ServesItsClients ==
    Spec => Serves
<1>1. Init => ServiceInv
  <2>1. Init => FreshInv /\ TurnInv /\ StreamInv
    BY DEF Init, FreshInv, TurnInv, StreamInv, Waits
  <2> QED
    BY <2>1, RefInvInit, IInvInit DEF ServiceInv
<1>2. ServiceInv /\ [Next]_vars => ServiceInv'
  <2>1. IInv /\ [Next]_vars => IInv'
    BY RefInvStep, LaunchStep, OwnerStep DEF IInv, OwnerInv
  <2> QED
    BY <2>1, FreshStep, TurnStep, StreamStep DEF ServiceInv
<1>3. Init => Service!Init
  BY DEF Init, Service!Init, Phase
<1>4. ServiceInv /\ [Next]_vars => [Service!Next]_(Service!vars)
  BY ServiceStep
<1> QED
  BY <1>1, <1>2, <1>3, <1>4, PTL DEF Spec, Serves, Service!Spec

=============================================================================
