--------------------------- MODULE YamuxSessionProofs ---------------------------
(***************************************************************************)
(* What YamuxSession promises, for any number of streams and writes, and   *)
(* whatever frames a peer sends that this code never does.                 *)
(*                                                                         *)
(* Readers are released because a stream that a task has is in the table,  *)
(* where the session finds it when it ends, or was ended before (Listed).  *)
(* No payload is lost because the SYN of its stream is handled first and   *)
(* only an RST takes the stream out of the table (WireInv): so every step  *)
(* leaves what is read, queued and on the wire as it is, in order, or adds *)
(* the payload it writes (WholeSteps).  b"" means that all was read        *)
(* because no payload follows the FIN on the wire, nor the marker in the   *)
(* queue (EndInv).                                                         *)
(*                                                                         *)
(* Picked is defined by recursion.  What holds of it for sequences of any  *)
(* length is proved from a least counterexample (LeastElement).            *)
(***************************************************************************)
EXTENDS YamuxSession, SequenceTheorems, NaturalsInduction, WellFoundedInduction, TLAPS

LEMMA PeerFacts ==
    /\ \A s \in Sides : Peer(s) \in Sides /\ Peer(s) # s /\ Peer(Peer(s)) = s
    /\ \A s, t \in Sides : t = s \/ t = Peer(s)
BY DEF Sides, Peer

LEMMA IdFacts ==
    \A s \in Sides : /\ FirstId(s) \in Nat
                     /\ OwnIds(s) \subseteq StreamIds
                     /\ OwnIds(s) \subseteq Nat
BY SessionAssumption DEF StreamIds, OwnIds, Sides, FirstId

-------------------------------------------------------------------------------
(* Types *)

LEMMA FrameTypes ==
    /\ \A i \in StreamIds, flag \in {"SYN", "FIN", "RST"} :
          [flag |-> flag, id |-> i] \in Frames
    /\ \A i \in StreamIds, x \in Writes :
          [flag |-> "DATA", id |-> i, payload |-> x] \in Frames
    /\ \A flag \in {"PING", "PONG", "GO_AWAY"} : [flag |-> flag] \in Frames
BY DEF Frames

LEMMA FrameFacts ==
    ASSUME NEW f \in Frames
    PROVE  /\ f.flag \in {"SYN", "FIN", "RST"} => f.id \in StreamIds
           /\ f.flag = "DATA" => f.id \in StreamIds /\ f.payload \in Writes
BY DEF Frames

LEMMA SendTypes ==
    ASSUME wire \in [Sides -> Seq(Frames)], NEW s \in Sides, NEW f \in Frames,
           Send(s, f)
    PROVE  wire' \in [Sides -> Seq(Frames)]
<1>1. Append(wire[s], f) \in Seq(Frames)
  BY AppendProperties
<1> QED BY <1>1 DEF Send

LEMMA NextFrameTypes ==
    ASSUME wire \in [Sides -> Seq(Frames)], NEW s \in Sides, wire[Peer(s)] # <<>>
    PROVE  /\ NextFrame(s) \in Frames
           /\ Tail(wire[Peer(s)]) \in Seq(Frames)
<1>1. wire[Peer(s)] \in Seq(Frames)
  BY PeerFacts
<1> QED BY <1>1, HeadTailProperties DEF NextFrame

LEMMA ConsumeTypes ==
    ASSUME TypeOK, NEW s \in Sides, wire[Peer(s)] # <<>>, Consume(s)
    PROVE  /\ wire' \in [Sides -> Seq(Frames)]
           /\ reading' \in [Sides -> BOOLEAN]
<1>1. Tail(wire[Peer(s)]) \in Seq(Frames)
  BY NextFrameTypes DEF TypeOK
<1>2. wire' \in [Sides -> Seq(Frames)]
  BY <1>1, PeerFacts DEF TypeOK, Consume
<1>3. running[s] \in BOOLEAN
  BY DEF TypeOK
<1> QED BY <1>2, <1>3 DEF TypeOK, Consume

LEMMA OnFinTypes ==
    ASSUME TypeOK, NEW s \in Sides, NEW I, OnFin(s, I)
    PROVE  /\ I \subseteq StreamIds => remote_closed' \in [Sides -> SUBSET StreamIds]
           /\ read_queue' \in [Sides -> [StreamIds -> Seq(Writes \cup {EOF})]]
<1>1. \A i \in StreamIds : Append(read_queue[s][i], EOF) \in Seq(Writes \cup {EOF})
  BY AppendProperties DEF TypeOK
<1>2. [i \in StreamIds |-> IF i \in I THEN Append(read_queue[s][i], EOF)
                                      ELSE read_queue[s][i]]
      \in [StreamIds -> Seq(Writes \cup {EOF})]
  BY <1>1 DEF TypeOK
<1> QED BY <1>2 DEF TypeOK, OnFin

LEMMA AddTypes ==
    ASSUME NEW S \in [Sides -> SUBSET StreamIds], NEW s \in Sides, NEW i \in StreamIds
    PROVE  Add(S, s, i) \in [Sides -> SUBSET StreamIds]
BY DEF Add

LEMMA AddFacts ==
    ASSUME NEW S \in [Sides -> SUBSET StreamIds], NEW s \in Sides, NEW i
    PROVE  /\ Add(S, s, i)[s] = S[s] \cup {i}
           /\ \A t \in Sides \ {s} : Add(S, s, i)[t] = S[t]
BY DEF Add

LEMMA WriteTypes ==
    ASSUME TypeOK, NEW s \in Sides, NEW i \in StreamIds, Write(s, i)
    PROVE  sent[s][i] \in Nat /\ sent[s][i] + 1 \in Writes
<1>1. sent[s][i] \in Writes \cup {0} /\ sent[s][i] < MaxData[s]
  BY DEF Write, TypeOK
<1>2. MaxData[s] \in Nat /\ MaxData["client"] \in Nat /\ MaxData["server"] \in Nat
  BY SessionAssumption DEF Sides
<1>3. sent[s][i] \in Nat
  BY <1>1, <1>2 DEF Writes
<1>4. sent[s][i] + 1 \in 1..MaxData[s]
  BY <1>1, <1>2, <1>3
<1>5. s = "client" \/ s = "server"
  BY DEF Sides
<1> QED BY <1>3, <1>4, <1>5 DEF Writes

LEMMA InitTypes == Init => TypeOK
<1> SUFFICES ASSUME Init PROVE TypeOK
  OBVIOUS
<1>1. <<>> \in Seq(StreamIds) /\ <<>> \in Seq(Writes \cup {EOF})
      /\ <<>> \in Seq(Frames) /\ <<>> \in Seq(Writes)
  OBVIOUS
<1>2. \A s \in Sides : next_stream_id[s] % 2 = FirstId(s) % 2
  BY DEF Init
<1> QED BY <1>1, <1>2, IdFacts DEF Init, TypeOK

LEMMA NextTypes == TypeOK /\ [Next]_vars => TypeOK'
<1> SUFFICES ASSUME TypeOK, [Next]_vars PROVE TypeOK'
  OBVIOUS
<1>1. CASE UNCHANGED vars
  BY <1>1 DEF TypeOK, vars, sessionVars, streamVars, history
<1>2. CASE Lose
  <2>1. wire' \in [Sides -> Seq(Frames)]
    BY <1>2 DEF Lose
  <2> QED BY <1>2, <2>1 DEF Lose, TypeOK, sessionVars, streamVars, history
<1>3. ASSUME NEW s \in Sides, OpenStream(s) \/ OpenFails(s) PROVE TypeOK'
  <2> DEFINE i == next_stream_id[s]
  <2>1. i \in StreamIds /\ i \in Nat
    BY <1>3, IdFacts DEF OpenStream, OpenFails
  <2>2. wire' \in [Sides -> Seq(Frames)]
    BY <1>3, <2>1, FrameTypes, SendTypes DEF OpenStream, OpenFails, TypeOK
  <2>3. next_stream_id' = [next_stream_id EXCEPT ![s] = i + 2]
    BY <1>3 DEF OpenStream, OpenFails, AfterId
  <2>4. (i + 2) % 2 = i % 2
    BY <2>1
  <2>5. next_stream_id' \in [Sides -> Nat]
    BY <2>1, <2>3 DEF TypeOK
  <2>6. \A t \in Sides : next_stream_id'[t] % 2 = FirstId(t) % 2
    BY <2>3, <2>4 DEF TypeOK
  <2>7. /\ streams' \in [Sides -> SUBSET StreamIds]
        /\ owned' \in [Sides -> SUBSET StreamIds]
    <3>1. /\ streams' = Add(streams, s, i)
          /\ owned' = owned \/ owned' = Add(owned, s, i)
      BY <1>3 DEF OpenStream, OpenFails, streamVars
    <3>2. /\ streams \in [Sides -> SUBSET StreamIds]
          /\ owned \in [Sides -> SUBSET StreamIds]
      BY DEF TypeOK
    <3> HIDE DEF i
    <3> QED BY <2>1, <3>1, <3>2, AddTypes
  <2> QED BY <1>3, <2>2, <2>5, <2>6, <2>7
          DEF OpenStream, OpenFails, TypeOK, streamVars, history
<1>4. ASSUME NEW s \in Sides, AcceptStream(s) PROVE TypeOK'
  <2>1. Head(accept_queue[s]) \in StreamIds /\ Tail(accept_queue[s]) \in Seq(StreamIds)
    BY <1>4, HeadTailProperties DEF AcceptStream, TypeOK
  <2>2. accept_queue' \in [Sides -> Seq(StreamIds)]
    BY <1>4, <2>1 DEF AcceptStream, TypeOK
  <2>3. owned' \in [Sides -> SUBSET StreamIds]
    BY <1>4, <2>1, AddTypes DEF AcceptStream, TypeOK
  <2> QED BY <1>4, <2>2, <2>3 DEF AcceptStream, TypeOK, history
<1>5. ASSUME NEW s \in Sides, HandleSyn(s) PROVE TypeOK'
  <2>1. wire[Peer(s)] # <<>> /\ NextFrame(s).flag = "SYN" /\ Consume(s)
    BY <1>5 DEF HandleSyn, Receives
  <2>2. NextFrame(s).id \in StreamIds
    BY <2>1, NextFrameTypes, FrameFacts DEF TypeOK
  <2>3. Append(accept_queue[s], NextFrame(s).id) \in Seq(StreamIds)
    BY <2>2, AppendProperties DEF TypeOK
  <2>4. accept_queue' \in [Sides -> Seq(StreamIds)]
    BY <1>5, <2>3 DEF HandleSyn, TypeOK
  <2>5. streams' \in [Sides -> SUBSET StreamIds]
    <3>1. streams' = streams \/ streams' = Add(streams, s, NextFrame(s).id)
      BY <1>5 DEF HandleSyn
    <3>2. streams \in [Sides -> SUBSET StreamIds]
      BY DEF TypeOK
    <3> QED BY <2>2, <3>1, <3>2, AddTypes
  <2> QED BY <1>5, <2>1, <2>4, <2>5, ConsumeTypes DEF HandleSyn, TypeOK, streamVars, history
<1>6. ASSUME NEW s \in Sides, HandleData(s) PROVE TypeOK'
  <2>1. wire[Peer(s)] # <<>> /\ NextFrame(s).flag = "DATA" /\ Consume(s)
    BY <1>6 DEF HandleData, Receives
  <2>2. NextFrame(s).id \in StreamIds /\ NextFrame(s).payload \in Writes
    BY <2>1, NextFrameTypes, FrameFacts DEF TypeOK
  <2>3. Append(read_queue[s][NextFrame(s).id], NextFrame(s).payload)
        \in Seq(Writes \cup {EOF})
    BY <2>2, AppendProperties DEF TypeOK
  <2>4. read_queue' \in [Sides -> [StreamIds -> Seq(Writes \cup {EOF})]]
    BY <1>6, <2>3 DEF HandleData, TypeOK, Feed
  <2> QED BY <1>6, <2>1, <2>4, ConsumeTypes DEF HandleData, TypeOK, history
<1>7. ASSUME NEW s \in Sides, HandleFin(s) \/ HandleRst(s) PROVE TypeOK'
  <2>1. wire[Peer(s)] # <<>> /\ Consume(s) /\ OnFin(s, {NextFrame(s).id} \cap streams[s])
    BY <1>7 DEF HandleFin, HandleRst, Receives
  <2>2. {NextFrame(s).id} \cap streams[s] \subseteq StreamIds
    BY DEF TypeOK
  <2>3. streams' \in [Sides -> SUBSET StreamIds]
    <3>1. CASE HandleFin(s)
      BY <3>1 DEF HandleFin, TypeOK
    <3>2. CASE HandleRst(s)
      BY <3>2 DEF HandleRst, TypeOK
    <3> QED BY <1>7, <3>1, <3>2
  <2> QED BY <1>7, <2>1, <2>2, <2>3, ConsumeTypes, OnFinTypes
          DEF HandleFin, HandleRst, TypeOK, history
<1>8. ASSUME NEW s \in Sides, HandlePing(s) PROVE TypeOK'
  <2>1. CASE Receives(s, "PONG") /\ Consume(s)
    <3>1. wire[Peer(s)] # <<>>
      BY <2>1 DEF Receives
    <3> QED BY <1>8, <2>1, <3>1, ConsumeTypes DEF HandlePing, TypeOK, streamVars, history
  <2>2. CASE ~ (Receives(s, "PONG") /\ Consume(s))
    <3>1. wire[Peer(s)] # <<>>
          /\ wire' = [wire EXCEPT
                         ![Peer(s)] = Tail(@),
                         ![s] = IF Broken(s) THEN @
                                ELSE Append(@, [flag |-> "PONG"])]
          /\ reading' = [reading EXCEPT ![s] = running[s]]
      BY <1>8, <2>2 DEF HandlePing, Receives
    <3>2. Append(wire[s], [flag |-> "PONG"]) \in Seq(Frames)
      BY FrameTypes, AppendProperties DEF TypeOK
    <3>3. Tail(wire[Peer(s)]) \in Seq(Frames)
      BY <3>1, NextFrameTypes DEF TypeOK
    <3>4. wire' \in [Sides -> Seq(Frames)]
      BY <3>1, <3>2, <3>3, PeerFacts DEF TypeOK
    <3>5. reading' \in [Sides -> BOOLEAN]
      BY <3>1 DEF TypeOK
    <3> QED BY <1>8, <3>4, <3>5 DEF HandlePing, TypeOK, streamVars, history
  <2> QED BY <2>1, <2>2
<1>9. ASSUME NEW s \in Sides, HandleGoAway(s) \/ EndOfInput(s) \/ CloseSession(s)
      PROVE  TypeOK'
  <2>1. wire' \in [Sides -> Seq(Frames)]
    <3>1. CASE HandleGoAway(s)
      <4>1. wire[Peer(s)] # <<>>
        BY <3>1 DEF HandleGoAway, Receives
      <4>2. Tail(wire[Peer(s)]) \in Seq(Frames)
        BY <4>1, NextFrameTypes DEF TypeOK
      <4> QED BY <3>1, <4>2, PeerFacts DEF TypeOK, HandleGoAway
    <3>2. CASE ~ HandleGoAway(s)
      BY <1>9, <3>2 DEF EndOfInput, CloseSession, TypeOK
    <3> QED BY <3>1, <3>2
  <2>2. running' \in [Sides -> BOOLEAN] /\ reading' \in [Sides -> BOOLEAN]
    <3>1. CASE HandleGoAway(s)
      BY <3>1 DEF HandleGoAway, TypeOK
    <3>2. CASE EndOfInput(s)
      BY <3>2 DEF EndOfInput, TypeOK
    <3>3. CASE CloseSession(s)
      BY <3>3 DEF CloseSession, TypeOK
    <3> QED BY <1>9, <3>1, <3>2, <3>3
  <2> QED BY <1>9, <2>1, <2>2
          DEF HandleGoAway, EndOfInput, CloseSession, TypeOK, streamVars, history
<1>10. ASSUME NEW s \in Sides, FinishClose(s) PROVE TypeOK'
  <2>1. streams[s] \subseteq StreamIds
    BY DEF TypeOK
  <2> QED BY <1>10, <2>1, OnFinTypes DEF FinishClose, TypeOK, history
<1>11. ASSUME NEW s \in Sides, NEW i \in StreamIds, Write(s, i) PROVE TypeOK'
  <2>1. sent[s][i] + 1 \in Writes
    BY <1>11, WriteTypes
  <2>2. sent' \in [Sides -> [StreamIds -> Writes \cup {0}]]
    BY <1>11, <2>1 DEF Write, TypeOK
  <2>3. wire' \in [Sides -> Seq(Frames)]
    BY <1>11, <2>1, FrameTypes, SendTypes DEF Write, TypeOK
  <2> QED BY <1>11, <2>2, <2>3 DEF Write, TypeOK, sessionVars, streamVars
<1>12. ASSUME NEW s \in Sides, NEW i \in StreamIds, CloseStream(s, i) \/ SendRst(s, i)
       PROVE  TypeOK'
  <2>1. wire' \in [Sides -> Seq(Frames)]
    BY <1>12, FrameTypes, SendTypes DEF CloseStream, SendRst, TypeOK
  <2>2. closed' \in [Sides -> SUBSET StreamIds]
    <3>1. closed' = Add(closed, s, i) /\ closed \in [Sides -> SUBSET StreamIds]
      BY <1>12 DEF CloseStream, SendRst, TypeOK
    <3> QED BY <3>1, AddTypes
  <2>3. marking' \in [Sides -> SUBSET StreamIds] /\ reset' \subseteq StreamIds
    <3>1. marking' = marking \/ marking' = Add(marking, s, i)
      BY <1>12 DEF CloseStream, SendRst
    <3>2. reset' = reset \/ reset' = reset \cup {i}
      BY <1>12 DEF CloseStream, SendRst, history
    <3>3. marking \in [Sides -> SUBSET StreamIds] /\ reset \subseteq StreamIds
      BY DEF TypeOK
    <3> QED BY <3>1, <3>2, <3>3, AddTypes
  <2> QED BY <1>12, <2>1, <2>2, <2>3 DEF CloseStream, SendRst, TypeOK, sessionVars, history
<1>13. ASSUME NEW s \in Sides, NEW i \in StreamIds, QueueMarker(s, i) PROVE TypeOK'
  <2>1. Append(read_queue[s][i], EOF) \in Seq(Writes \cup {EOF})
    BY AppendProperties DEF TypeOK
  <2>2. read_queue' \in [Sides -> [StreamIds -> Seq(Writes \cup {EOF})]]
    BY <1>13, <2>1 DEF QueueMarker, TypeOK
  <2>3. marking' \in [Sides -> SUBSET StreamIds]
    BY <1>13 DEF QueueMarker, TypeOK
  <2> QED BY <1>13, <2>2, <2>3 DEF QueueMarker, TypeOK, sessionVars, history
<1>14. ASSUME NEW s \in Sides, NEW i \in StreamIds, BeginRead(s, i) PROVE TypeOK'
  <2>1. /\ ended' \in [Sides -> SUBSET StreamIds]
        /\ waiting' \in [Sides -> SUBSET StreamIds]
    <3>1. /\ ended' = ended \/ ended' = Add(ended, s, i)
          /\ waiting' = waiting \/ waiting' = Add(waiting, s, i)
      BY <1>14 DEF BeginRead
    <3>2. /\ ended \in [Sides -> SUBSET StreamIds]
          /\ waiting \in [Sides -> SUBSET StreamIds]
      BY DEF TypeOK
    <3> QED BY <3>1, <3>2, AddTypes
  <2> QED BY <1>14, <2>1 DEF BeginRead, TypeOK, sessionVars
<1>15. ASSUME NEW s \in Sides, NEW i \in StreamIds, EndRead(s, i) PROVE TypeOK'
  <2>1. /\ Head(read_queue[s][i]) \in Writes \cup {EOF}
        /\ Tail(read_queue[s][i]) \in Seq(Writes \cup {EOF})
    BY <1>15, HeadTailProperties DEF EndRead, TypeOK
  <2>2. read_queue' \in [Sides -> [StreamIds -> Seq(Writes \cup {EOF})]]
    BY <1>15, <2>1 DEF EndRead, TypeOK
  <2>3. received' \in [Sides -> [StreamIds -> Seq(Writes)]]
    <3>1. CASE Head(read_queue[s][i]) = EOF
      <4>1. received' = received
        BY <1>15, <3>1 DEF EndRead
      <4> QED BY <4>1 DEF TypeOK
    <3>2. CASE Head(read_queue[s][i]) # EOF
      <4>1. Append(received[s][i], Head(read_queue[s][i])) \in Seq(Writes)
        BY <2>1, <3>2, AppendProperties DEF TypeOK
      <4>2. received' = [received EXCEPT ![s][i] = Append(@, Head(read_queue[s][i]))]
        BY <1>15, <3>2 DEF EndRead
      <4> QED BY <4>1, <4>2 DEF TypeOK
    <3> QED BY <3>1, <3>2
  <2>4. /\ ended' \in [Sides -> SUBSET StreamIds]
        /\ waiting' \in [Sides -> SUBSET StreamIds]
    <3>1. /\ ended' = ended \/ ended' = Add(ended, s, i)
          /\ waiting' = waiting \/ waiting' = [waiting EXCEPT ![s] = @ \ {i}]
      BY <1>15 DEF EndRead
    <3>2. /\ ended \in [Sides -> SUBSET StreamIds]
          /\ waiting \in [Sides -> SUBSET StreamIds]
      BY DEF TypeOK
    <3> QED BY <3>1, <3>2, AddTypes
  <2> QED BY <1>15, <2>2, <2>3, <2>4 DEF EndRead, TypeOK, sessionVars
<1>16. ASSUME NEW s \in Sides, NEW flag \in Foreign, SendForeign(s, flag) PROVE TypeOK'
  <2>1. flag \in {"PING", "PONG", "GO_AWAY"}
    BY <1>16, SessionAssumption DEF SendForeign
  <2>2. wire' \in [Sides -> Seq(Frames)]
    BY <1>16, <2>1, FrameTypes, SendTypes DEF SendForeign, TypeOK
  <2> QED BY <1>16, <2>2 DEF SendForeign, TypeOK, sessionVars, streamVars, history
<1> QED BY <1>1, <1>2, <1>3, <1>4, <1>5, <1>6, <1>7, <1>8, <1>9, <1>10, <1>11,
           <1>12, <1>13, <1>14, <1>15, <1>16 DEF Next, Handle

\* Frames, queues and tables of both sessions keep their types; the client's
\* streams have odd ids and the server's even ones, so that they never collide.
THEOREM SessionTypesKept == Spec => []TypeOK
BY InitTypes, NextTypes, PTL DEF Spec
-------------------------------------------------------------------------------
(* Readers of a session that ends *)

Queued(s) == {accept_queue[s][n] : n \in 1..Len(accept_queue[s])}

\* The streams that tasks have or will accept are in the table, from which the
\* session will end them, or have been ended.
Listed ==
    \A s \in Sides :
       /\ owned[s] \cup Queued(s) \subseteq streams[s] \cup remote_closed[s]
       /\ finished[s] => owned[s] \cup Queued(s) \subseteq remote_closed[s]

\* A reader that waits on an ended stream finds a marker.
Told == \A s \in Sides : \A i \in waiting[s] \cap remote_closed[s] :
           read_queue[s][i] # <<>>

ReaderInv == TypeOK /\ Listed /\ Told

\* The steps that concern neither the table of streams nor their readers.
LEMMA UnlistedSteps ==
    ASSUME [Next]_vars
    PROVE  \/ UNCHANGED <<finished, owned, accept_queue, streams, remote_closed,
                          waiting, read_queue>>
           \/ \E s \in Sides :
                 \/ OpenStream(s) \/ OpenFails(s) \/ AcceptStream(s)
                 \/ HandleSyn(s) \/ HandleData(s) \/ HandleFin(s) \/ HandleRst(s)
                 \/ FinishClose(s)
                 \/ \E i \in StreamIds : \/ QueueMarker(s, i)
                                         \/ BeginRead(s, i) \/ EndRead(s, i)
<1> DEFINE Same == UNCHANGED <<finished, owned, accept_queue, streams,
                               remote_closed, waiting, read_queue>>
<1>1. UNCHANGED vars \/ Lose => Same
  BY DEF vars, sessionVars, streamVars, history, Lose
<1>2. \A s \in Sides : HandlePing(s) \/ HandleGoAway(s) => Same
  BY DEF HandlePing, HandleGoAway, streamVars
<1>3. \A s \in Sides : EndOfInput(s) \/ CloseSession(s) => Same
  BY DEF EndOfInput, CloseSession, streamVars
<1>4. \A s \in Sides, i \in StreamIds : Write(s, i) => Same
  BY DEF Write, sessionVars, streamVars
<1>5. \A s \in Sides, i \in StreamIds : CloseStream(s, i) \/ SendRst(s, i) => Same
  BY DEF CloseStream, SendRst, sessionVars
<1>6. \A s \in Sides : \A flag \in Foreign : SendForeign(s, flag) => Same
  BY DEF SendForeign, sessionVars, streamVars
<1> HIDE DEF Same
<1>7. Same \/ \E s \in Sides :
                 \/ OpenStream(s) \/ OpenFails(s) \/ AcceptStream(s)
                 \/ HandleSyn(s) \/ HandleData(s) \/ HandleFin(s) \/ HandleRst(s)
                 \/ FinishClose(s)
                 \/ \E i \in StreamIds : \/ QueueMarker(s, i)
                                         \/ BeginRead(s, i) \/ EndRead(s, i)
  BY <1>1, <1>2, <1>3, <1>4, <1>5, <1>6, Zenon DEF Next, Handle
<1> QED BY <1>7 DEF Same

\* A queue that gets a new value, and all the others that keep theirs.
Requeued(s, i, q) == [read_queue EXCEPT ![s][i] = q]

LEMMA OneQueue ==
    ASSUME TypeOK, NEW s \in Sides, NEW i \in StreamIds, NEW q,
           read_queue' = Requeued(s, i, q)
    PROVE  /\ read_queue'[s][i] = q
           /\ \A t \in Sides, j \in StreamIds :
                 t # s \/ j # i => read_queue'[t][j] = read_queue[t][j]
<1>1. /\ read_queue'[s] = [read_queue[s] EXCEPT ![i] = q]
      /\ \A t \in Sides \ {s} : read_queue'[t] = read_queue[t]
  BY DEF TypeOK, Requeued
<1> QED BY <1>1 DEF TypeOK

LEMMA FedNotEmpty ==
    ASSUME TypeOK, NEW s \in Sides, NEW i \in StreamIds, NEW x \in Writes \cup {EOF}
    PROVE  Append(read_queue[s][i], x) # <<>>
<1> DEFINE q == read_queue[s][i]
<1>1. q \in Seq(Writes \cup {EOF})
  BY DEF TypeOK
<1> HIDE DEF q
<1>2. Append(q, x) # <<>>
  BY <1>1, AppendProperties
<1> QED BY <1>2 DEF q

LEMMA OnFinFacts ==
    ASSUME TypeOK, NEW s \in Sides, NEW I \in SUBSET StreamIds, OnFin(s, I)
    PROVE  /\ remote_closed'[s] = remote_closed[s] \cup I
           /\ \A i \in I : read_queue'[s][i] = Append(read_queue[s][i], EOF)
           /\ \A i \in StreamIds \ I : read_queue'[s][i] = read_queue[s][i]
           /\ \A t \in Sides \ {s} : /\ remote_closed'[t] = remote_closed[t]
                                     /\ read_queue'[t] = read_queue[t]
           /\ \A i \in I : read_queue'[s][i] # <<>>
<1>1. \A i \in StreamIds : read_queue[s][i] \in Seq(Writes \cup {EOF})
  BY DEF TypeOK
<1>2. \A i \in I : Append(read_queue[s][i], EOF) # <<>>
  BY <1>1, AppendProperties
<1>3. /\ remote_closed'[s] = remote_closed[s] \cup I
      /\ \A t \in Sides \ {s} : /\ remote_closed'[t] = remote_closed[t]
                                /\ read_queue'[t] = read_queue[t]
  BY DEF OnFin, TypeOK
<1>4. read_queue'[s] = [i \in StreamIds |-> IF i \in I THEN Append(read_queue[s][i], EOF)
                                            ELSE read_queue[s][i]]
  BY DEF OnFin, TypeOK
<1> QED BY <1>2, <1>3, <1>4

LEMMA QueuedAfterAppend ==
    ASSUME TypeOK, NEW s \in Sides, NEW i \in StreamIds,
           accept_queue' = [accept_queue EXCEPT ![s] = Append(@, i)]
    PROVE  /\ Queued(s)' = Queued(s) \cup {i}
           /\ \A t \in Sides \ {s} : Queued(t)' = Queued(t)
<1> DEFINE q == accept_queue[s]
<1>1. q \in Seq(StreamIds) /\ Len(q) \in Nat
  BY DEF TypeOK
<1>2. accept_queue'[s] = Append(q, i)
  BY DEF TypeOK
<1>3. /\ Len(Append(q, i)) = Len(q) + 1
      /\ \A n \in 1..Len(q) : Append(q, i)[n] = q[n]
      /\ Append(q, i)[Len(q) + 1] = i
  BY <1>1, AppendProperties
<1>4. Queued(s) = {q[n] : n \in 1..Len(q)}
  BY DEF Queued
<1>5. Queued(s)' = {Append(q, i)[n] : n \in 1..(Len(q) + 1)}
  BY <1>2, <1>3 DEF Queued
<1> HIDE DEF q
<1>6. Queued(s)' = Queued(s) \cup {i}
  BY <1>1, <1>3, <1>4, <1>5
<1>7. \A t \in Sides \ {s} : Queued(t)' = Queued(t)
  BY DEF TypeOK, Queued
<1> QED BY <1>6, <1>7

LEMMA QueuedAfterAccept ==
    ASSUME TypeOK, NEW s \in Sides, AcceptStream(s)
    PROVE  /\ Queued(s)' \subseteq Queued(s)
           /\ Head(accept_queue[s]) \in Queued(s)
           /\ \A t \in Sides \ {s} : Queued(t)' = Queued(t)
<1> DEFINE q == accept_queue[s]
<1>1. q \in Seq(StreamIds) /\ Len(q) \in Nat /\ q # <<>>
  BY DEF TypeOK, AcceptStream
<1>2. accept_queue'[s] = Tail(q)
  BY DEF TypeOK, AcceptStream
<1>3. /\ Len(q) >= 1 /\ Head(q) = q[1] /\ Len(Tail(q)) = Len(q) - 1
      /\ \A n \in 1..(Len(q) - 1) : Tail(q)[n] = q[n + 1]
  BY <1>1, HeadTailProperties
<1>4. Queued(s) = {q[n] : n \in 1..Len(q)}
  BY DEF Queued
<1>5. Queued(s)' = {Tail(q)[n] : n \in 1..(Len(q) - 1)}
  BY <1>2, <1>3 DEF Queued
<1> HIDE DEF q
<1>6. Queued(s)' \subseteq Queued(s) /\ Head(q) \in Queued(s)
  BY <1>1, <1>3, <1>4, <1>5
<1>7. \A t \in Sides \ {s} : Queued(t)' = Queued(t)
  BY DEF TypeOK, Queued, AcceptStream
<1> QED BY <1>6, <1>7 DEF q

LEMMA InitReaders == Init => Listed /\ Told
<1>1. Init => \A s \in Sides : Queued(s) = {}
  <2> SUFFICES ASSUME Init, NEW s \in Sides PROVE Queued(s) = {}
    OBVIOUS
  <2>1. accept_queue[s] = <<>> /\ Len(<<>>) = 0
    BY DEF Init
  <2> QED BY <2>1 DEF Queued
<1> QED BY <1>1 DEF Init, Listed, Told

LEMMA NextReaders == ReaderInv /\ [Next]_vars => Listed' /\ Told'
<1> SUFFICES ASSUME ReaderInv, [Next]_vars PROVE Listed' /\ Told'
  OBVIOUS
<1>0. TypeOK /\ Listed /\ Told
  BY DEF ReaderInv
<1>a. /\ streams \in [Sides -> SUBSET StreamIds]
      /\ owned \in [Sides -> SUBSET StreamIds]
      /\ waiting \in [Sides -> SUBSET StreamIds]
  BY <1>0 DEF TypeOK
<1>t. TypeOK'
  BY <1>0, NextTypes
<1>1. CASE UNCHANGED <<finished, owned, accept_queue, streams, remote_closed,
                       waiting, read_queue>>
  BY <1>0, <1>1 DEF Listed, Told, Queued
<1>2. ASSUME NEW s \in Sides, OpenStream(s) \/ OpenFails(s) PROVE Listed' /\ Told'
  <2>1. UNCHANGED <<finished, accept_queue, remote_closed, waiting, read_queue>>
    BY <1>2 DEF OpenStream, OpenFails, streamVars
  <2>2. /\ streams' = Add(streams, s, next_stream_id[s])
        /\ owned' = owned \/ (~finished[s] /\ owned' = Add(owned, s, next_stream_id[s]))
    BY <1>2 DEF OpenStream, OpenFails, streamVars
  <2>3. Listed'
    <3> DEFINE i == next_stream_id[s]
    <3>1. \A t \in Sides : Queued(t)' = Queued(t)
      BY <2>1 DEF Queued
    <3>2. /\ streams'[s] = streams[s] \cup {i}
          /\ \A t \in Sides \ {s} : streams'[t] = streams[t]
      BY <1>a, <2>2, AddFacts
    <3>3. /\ owned'[s] = owned[s] \/ (owned'[s] = owned[s] \cup {i} /\ ~finished[s])
          /\ \A t \in Sides \ {s} : owned'[t] = owned[t]
      BY <1>a, <2>2, AddFacts
    <3> HIDE DEF i
    <3> QED BY <1>0, <2>1, <3>1, <3>2, <3>3 DEF Listed
  <2> QED BY <1>0, <2>1, <2>3 DEF Told
<1>3. ASSUME NEW s \in Sides, AcceptStream(s) PROVE Listed' /\ Told'
  <2>1. UNCHANGED <<finished, streams, remote_closed, waiting, read_queue>>
    BY <1>3 DEF AcceptStream
  <2>2. owned' = Add(owned, s, Head(accept_queue[s]))
    BY <1>3 DEF AcceptStream
  <2>3. Listed'
    <3> DEFINE i == Head(accept_queue[s])
    <3>1. /\ Queued(s)' \subseteq Queued(s) /\ i \in Queued(s)
          /\ \A t \in Sides \ {s} : Queued(t)' = Queued(t)
      BY <1>0, <1>3, QueuedAfterAccept
    <3>2. /\ owned'[s] = owned[s] \cup {i}
          /\ \A t \in Sides \ {s} : owned'[t] = owned[t]
      BY <1>a, <2>2, AddFacts
    <3> HIDE DEF i
    <3> QED BY <1>0, <2>1, <3>1, <3>2 DEF Listed
  <2> QED BY <1>0, <2>1, <2>3 DEF Told
<1>4. ASSUME NEW s \in Sides, HandleSyn(s) PROVE Listed' /\ Told'
  <2> DEFINE i == NextFrame(s).id
  <2>1. UNCHANGED <<finished, owned, remote_closed, waiting, read_queue>> /\ ~finished[s]
    BY <1>4 DEF HandleSyn, Receives, streamVars
  <2>2. i \in StreamIds
    BY <1>0, <1>4, NextFrameTypes, FrameFacts DEF HandleSyn, Receives, TypeOK
  <2>3. \/ UNCHANGED <<streams, accept_queue>>
        \/ /\ streams' = Add(streams, s, i)
           /\ accept_queue' = [accept_queue EXCEPT ![s] = Append(@, i)]
    BY <1>4 DEF HandleSyn
  <2> HIDE DEF i
  <2>4. CASE UNCHANGED <<streams, accept_queue>>
    BY <1>0, <2>1, <2>4 DEF Listed, Told, Queued
  <2>5. CASE /\ streams' = Add(streams, s, i)
             /\ accept_queue' = [accept_queue EXCEPT ![s] = Append(@, i)]
    <3>1. /\ Queued(s)' = Queued(s) \cup {i}
          /\ \A t \in Sides \ {s} : Queued(t)' = Queued(t)
      BY <1>0, <2>2, <2>5, QueuedAfterAppend
    <3>2. Listed'
      BY <1>0, <2>1, <2>5, <3>1 DEF Listed, Add, TypeOK
    <3> QED BY <1>0, <2>1, <3>2 DEF Told
  <2> QED BY <2>3, <2>4, <2>5
<1>5. ASSUME NEW s \in Sides, HandleData(s) PROVE Listed' /\ Told'
  <2>1. UNCHANGED <<finished, owned, accept_queue, streams, remote_closed, waiting>>
    BY <1>5 DEF HandleData
  <2>2. NextFrame(s).id \in StreamIds /\ NextFrame(s).payload \in Writes
    BY <1>0, <1>5, NextFrameTypes, FrameFacts DEF HandleData, Receives, TypeOK
  <2>3. Append(read_queue[s][NextFrame(s).id], NextFrame(s).payload) # <<>>
    BY <1>0, <2>2, FedNotEmpty
  <2>4. read_queue' = read_queue
        \/ read_queue' = [read_queue EXCEPT
              ![s][NextFrame(s).id] = Append(@, NextFrame(s).payload)]
    BY <1>5 DEF HandleData, Feed
  <2>5. Told'
    <3>1. CASE read_queue' = read_queue
      BY <1>0, <2>1, <3>1 DEF Told
    <3>2. CASE read_queue' # read_queue
      <4>1. \A t \in Sides, j \in StreamIds :
              read_queue'[t][j] = <<>> => read_queue[t][j] = <<>>
        <5> DEFINE i == NextFrame(s).id
                   q == Append(read_queue[s][i], NextFrame(s).payload)
        <5>1. i \in StreamIds /\ q # <<>>
              /\ read_queue' = [read_queue EXCEPT ![s][i] = q]
          BY <2>2, <2>3, <2>4, <3>2
        <5> HIDE DEF i, q
        <5> QED BY <1>0, <5>1
      <4> QED BY <1>0, <1>a, <2>1, <4>1 DEF Told
    <3> QED BY <3>1, <3>2
  <2> QED BY <1>0, <2>1, <2>5 DEF Listed, Queued
<1>6. ASSUME NEW s \in Sides, NEW I \in SUBSET StreamIds, OnFin(s, I),
             UNCHANGED <<owned, accept_queue, waiting>>,
             \/ UNCHANGED <<finished, streams>>
             \/ UNCHANGED finished /\ streams' = [streams EXCEPT ![s] = @ \ I]
             \/ /\ finished' = [finished EXCEPT ![s] = TRUE]
                /\ I = streams[s]
                /\ streams' = [streams EXCEPT ![s] = {}]
      PROVE  Listed' /\ Told'
  <2>1. /\ remote_closed'[s] = remote_closed[s] \cup I
        /\ \A i \in I : read_queue'[s][i] # <<>>
        /\ \A i \in StreamIds \ I : read_queue'[s][i] = read_queue[s][i]
        /\ \A t \in Sides \ {s} : /\ remote_closed'[t] = remote_closed[t]
                                  /\ read_queue'[t] = read_queue[t]
    BY <1>0, <1>6, OnFinFacts
  <2>2. Told'
    <3>1. ASSUME NEW t \in Sides, NEW j \in waiting'[t] \cap remote_closed'[t]
          PROVE  read_queue'[t][j] # <<>>
      <4>1. j \in waiting[t] /\ j \in StreamIds
        BY <1>0, <1>6 DEF TypeOK
      <4>2. j \in remote_closed[t] => read_queue[t][j] # <<>>
        BY <1>0, <4>1 DEF Told
      <4> QED BY <2>1, <4>1, <4>2
    <3> QED BY <3>1 DEF Told
  <2>3. \A t \in Sides : Queued(t)' = Queued(t)
    BY <1>6 DEF Queued
  <2>4. ASSUME NEW t \in Sides
        PROVE  /\ (owned[t] \cup Queued(t) \subseteq streams[t] \cup remote_closed[t])'
               /\ finished'[t] => (owned[t] \cup Queued(t) \subseteq remote_closed[t])'
    <3>1. /\ owned[t] \cup Queued(t) \subseteq streams[t] \cup remote_closed[t]
          /\ finished[t] => owned[t] \cup Queued(t) \subseteq remote_closed[t]
      BY <1>0 DEF Listed
    <3>2. CASE t # s
      <4>1. streams'[t] = streams[t] /\ finished'[t] = finished[t]
        BY <1>0, <1>6, <3>2 DEF TypeOK
      <4> QED BY <1>6, <2>1, <2>3, <3>1, <3>2, <4>1
    <3>3. CASE t = s
      <4>1. \/ finished'[s] = finished[s] /\ streams[s] \ I \subseteq streams'[s]
            \/ streams[s] = I
        BY <1>0, <1>6 DEF TypeOK
      <4> QED BY <1>6, <2>1, <2>3, <3>1, <3>3, <4>1
    <3> QED BY <3>2, <3>3
  <2> QED BY <2>2, <2>4 DEF Listed
<1>7. ASSUME NEW s \in Sides, HandleFin(s) \/ HandleRst(s) PROVE Listed' /\ Told'
  <2> DEFINE I == {NextFrame(s).id} \cap streams[s]
  <2>1. I \in SUBSET StreamIds /\ OnFin(s, I)
    BY <1>0, <1>7 DEF HandleFin, HandleRst, TypeOK
  <2>2. UNCHANGED <<owned, accept_queue, waiting, finished>>
    BY <1>7 DEF HandleFin, HandleRst
  <2>3. streams[s] \ {NextFrame(s).id} = streams[s] \ I
    OBVIOUS
  <2>4. streams' = streams \/ streams' = [streams EXCEPT ![s] = @ \ I]
    BY <1>7, <2>3 DEF HandleFin, HandleRst
  <2> HIDE DEF I
  <2> QED BY <1>6, <2>1, <2>2, <2>4
<1>8. ASSUME NEW s \in Sides, FinishClose(s) PROVE Listed' /\ Told'
  <2>1. streams[s] \in SUBSET StreamIds
    BY <1>0 DEF TypeOK
  <2> QED BY <1>6, <1>8, <2>1 DEF FinishClose
<1>9. ASSUME NEW s \in Sides, NEW i \in StreamIds, QueueMarker(s, i) PROVE Listed' /\ Told'
  <2>1. UNCHANGED <<finished, owned, accept_queue, streams, remote_closed, waiting>>
    BY <1>9 DEF QueueMarker, sessionVars
  <2>2. Append(read_queue[s][i], EOF) # <<>>
    BY <1>0, FedNotEmpty
  <2>3. read_queue' = [read_queue EXCEPT ![s][i] = Append(@, EOF)]
    BY <1>9 DEF QueueMarker
  <2>4. Told'
    <3>1. \A t \in Sides, j \in StreamIds :
            read_queue'[t][j] = <<>> => read_queue[t][j] = <<>>
      BY <1>0, <2>2, <2>3
    <3> QED BY <1>0, <2>1, <3>1 DEF Told, TypeOK
  <2> QED BY <1>0, <2>1, <2>4 DEF Listed, Queued
<1>10. ASSUME NEW s \in Sides, NEW i \in StreamIds, BeginRead(s, i) PROVE Listed' /\ Told'
  <2>1. UNCHANGED <<finished, owned, accept_queue, streams, remote_closed, read_queue>>
    BY <1>10 DEF BeginRead, sessionVars
  <2>2. waiting' = waiting \/ (~AtEnd(s, i) /\ waiting' = Add(waiting, s, i))
    BY <1>10 DEF BeginRead
  <2>3. ASSUME NEW t \in Sides, NEW j \in waiting'[t] \cap remote_closed'[t]
        PROVE  read_queue'[t][j] # <<>>
    <3>1. j \in remote_closed[t] /\ read_queue' = read_queue
      BY <2>1
    <3>2. j \in waiting[t] \/ (t = s /\ j = i /\ ~AtEnd(s, i))
      BY <1>a, <2>2, <2>3, AddFacts
    <3> QED BY <1>0, <3>1, <3>2 DEF Told, AtEnd
  <2>4. Told'
    BY <2>3 DEF Told
  <2> QED BY <1>0, <2>1, <2>4 DEF Listed, Queued
<1>11. ASSUME NEW s \in Sides, NEW i \in StreamIds, EndRead(s, i) PROVE Listed' /\ Told'
  <2>1. UNCHANGED <<finished, owned, accept_queue, streams, remote_closed>>
    BY <1>11 DEF EndRead, sessionVars
  <2>2. /\ waiting' = [waiting EXCEPT ![s] = @ \ {i}]
        /\ read_queue' = [read_queue EXCEPT ![s][i] = Tail(@)]
    BY <1>11 DEF EndRead
  <2>3. Told'
    <3>1. \A t \in Sides, j \in StreamIds :
            t # s \/ j # i => read_queue'[t][j] = read_queue[t][j]
      BY <1>0, <2>2
    <3>2. i \notin waiting'[s] /\ \A t \in Sides : waiting'[t] \subseteq waiting[t]
      BY <1>0, <2>2 DEF TypeOK
    <3>3. ASSUME NEW t \in Sides, NEW j \in waiting'[t] \cap remote_closed'[t]
          PROVE  read_queue'[t][j] # <<>>
      <4>1. j \in StreamIds /\ j \in waiting[t] \cap remote_closed[t]
        BY <1>a, <2>1, <3>2
      <4>2. t # s \/ j # i
        BY <3>2
      <4> QED BY <1>0, <3>1, <4>1, <4>2 DEF Told
    <3> QED BY <3>3 DEF Told
  <2> QED BY <1>0, <2>1, <2>3 DEF Listed, Queued
<1> QED BY <1>1, <1>2, <1>3, <1>4, <1>5, <1>7, <1>8, <1>9, <1>10, <1>11, UnlistedSteps

\* When a session has ended, whoever reads on a stream of it is answered: every
\* stream that a task opened or accepted, also while close() was waiting, has
\* been told (Session.close, Stream.on_fin).
THEOREM ReadersAreReleased == Spec => []ReadersReleased
<1>1. Init => ReaderInv
  BY InitTypes, InitReaders DEF ReaderInv
<1>2. ReaderInv /\ [Next]_vars => ReaderInv'
  BY NextTypes, NextReaders DEF ReaderInv
<1>3. ReaderInv => ReadersReleased
  BY DEF ReaderInv, Listed, Told, ReadersReleased
<1> QED BY <1>1, <1>2, <1>3, PTL DEF Spec
-------------------------------------------------------------------------------
(* What frames on the wire say about the tables at both ends *)

\* Where a side's frames of one kind for a stream are on the wire.
On(s, flag, i) ==
    {n \in 1..Len(wire[s]) : wire[s][n].flag = flag /\ wire[s][n].id = i}

StreamFlags == {"SYN", "DATA", "FIN", "RST"}

\* The streams a side's tasks have or will accept.
Held(s) == owned[s] \cup Queued(s)

\* A side that resets a stream writes on it no more.
RstCloses ==
    \A s \in Sides, i \in StreamIds :
       On(s, "RST", i) # {} => i \in closed[s] \cap reset

\* A side that announced a stream has it in its table, if the peer did not
\* reset it.
SynKnown ==
    \A s \in Sides, i \in StreamIds :
       On(s, "SYN", i) # {} /\ ~finished[s] => i \in streams[s] \cup closed[Peer(s)]

\* What a side writes on a stream will find the stream at the peer.
Reachable ==
    \A s \in Sides, i \in StreamIds :
       i \in Held(s) \ closed[s] /\ ~Broken(s) /\ ~finished[Peer(s)] =>
          i \in streams[Peer(s)] \/ On(s, "SYN", i) # {}

\* A payload on the wire comes after the SYN and before an RST.
DataKnown ==
    \A s \in Sides, i \in StreamIds : \A n \in On(s, "DATA", i) :
       /\ ~finished[Peer(s)] => i \in streams[Peer(s)] \/ \E m \in On(s, "SYN", i) : m < n
       /\ \A m \in On(s, "RST", i) : n < m

WireInv == RstCloses /\ SynKnown /\ Reachable /\ DataKnown

\* What is closed, ended, reset or broken remains so.
Forward ==
    /\ reset \subseteq reset'
    /\ \A t \in Sides : /\ finished[t] => finished'[t]
                        /\ Broken(t) => Broken(t)'
                        /\ closed[t] \subseteq closed'[t]

LEMMA NextForward == TypeOK /\ [Next]_vars => Forward
<1> SUFFICES ASSUME TypeOK, [Next]_vars PROVE Forward
  OBVIOUS
<1>a. closed \in [Sides -> SUBSET StreamIds]
  BY DEF TypeOK
<1>1. reset' = reset \/ \E i : reset' = reset \cup {i}
  <2>1. ASSUME NEW s \in Sides, NEW i \in StreamIds,
               Write(s, i) \/ CloseStream(s, i) \/ QueueMarker(s, i) \/ SendRst(s, i)
               \/ BeginRead(s, i) \/ EndRead(s, i)
        PROVE  reset' = reset \/ \E j : reset' = reset \cup {j}
    BY <2>1 DEF Write, CloseStream, QueueMarker, SendRst, BeginRead, EndRead, history
  <2>2. ASSUME NEW s \in Sides,
               OpenStream(s) \/ OpenFails(s) \/ AcceptStream(s) \/ Handle(s)
               \/ CloseSession(s) \/ FinishClose(s)
        PROVE  reset' = reset
    BY <2>2 DEF OpenStream, OpenFails, AcceptStream, Handle, CloseSession, FinishClose,
                HandleSyn, HandleData, HandleFin, HandleRst, HandlePing, HandleGoAway,
                EndOfInput, history
  <2>3. ASSUME NEW s \in Sides, NEW flag \in Foreign, SendForeign(s, flag)
        PROVE  reset' = reset
    BY <2>3 DEF SendForeign, history
  <2>4. Lose \/ UNCHANGED vars => reset' = reset
    BY DEF Lose, vars, history
  <2> QED BY <2>1, <2>2, <2>3, <2>4 DEF Next
<1>2. closed' = closed \/ \E s \in Sides, i \in StreamIds : closed' = Add(closed, s, i)
  <2>1. ASSUME NEW s \in Sides, NEW i \in StreamIds,
               Write(s, i) \/ CloseStream(s, i) \/ QueueMarker(s, i) \/ SendRst(s, i)
               \/ BeginRead(s, i) \/ EndRead(s, i)
        PROVE  closed' = closed \/ closed' = Add(closed, s, i)
    BY <2>1 DEF Write, CloseStream, QueueMarker, SendRst, BeginRead, EndRead, streamVars
  <2>2. ASSUME NEW s \in Sides,
               OpenStream(s) \/ OpenFails(s) \/ AcceptStream(s) \/ Handle(s)
               \/ CloseSession(s) \/ FinishClose(s)
        PROVE  closed' = closed
    BY <2>2 DEF OpenStream, OpenFails, AcceptStream, Handle, CloseSession, FinishClose,
                HandleSyn, HandleData, HandleFin, HandleRst, HandlePing, HandleGoAway,
                EndOfInput, streamVars
  <2>3. ASSUME NEW s \in Sides, NEW flag \in Foreign, SendForeign(s, flag)
        PROVE  closed' = closed
    BY <2>3 DEF SendForeign, streamVars
  <2>4. Lose \/ UNCHANGED vars => closed' = closed
    BY DEF Lose, vars, streamVars
  <2> QED BY <2>1, <2>2, <2>3, <2>4 DEF Next
<1>3. \/ UNCHANGED <<running, connected, finished>>
      \/ connected' = FALSE /\ UNCHANGED <<running, finished>>
      \/ \E s \in Sides : /\ running' = [running EXCEPT ![s] = FALSE]
                          /\ UNCHANGED <<connected, finished>>
      \/ \E s \in Sides : /\ finished' = [finished EXCEPT ![s] = TRUE]
                          /\ UNCHANGED <<connected, running>>
  <2>1. ASSUME NEW s \in Sides, NEW i \in StreamIds,
               Write(s, i) \/ CloseStream(s, i) \/ QueueMarker(s, i) \/ SendRst(s, i)
               \/ BeginRead(s, i) \/ EndRead(s, i)
        PROVE  UNCHANGED <<running, connected, finished>>
    BY <2>1 DEF Write, CloseStream, QueueMarker, SendRst, BeginRead, EndRead, sessionVars
  <2>2. ASSUME NEW s \in Sides,
               OpenStream(s) \/ OpenFails(s) \/ AcceptStream(s)
               \/ HandleSyn(s) \/ HandleData(s) \/ HandleFin(s) \/ HandleRst(s)
               \/ HandlePing(s)
        PROVE  UNCHANGED <<running, connected, finished>>
    BY <2>2 DEF OpenStream, OpenFails, AcceptStream, HandleSyn, HandleData, HandleFin,
                HandleRst, HandlePing
  <2>3. ASSUME NEW s \in Sides, HandleGoAway(s) \/ EndOfInput(s) \/ CloseSession(s)
        PROVE  /\ running' = [running EXCEPT ![s] = FALSE]
               /\ UNCHANGED <<connected, finished>>
    BY <2>3 DEF HandleGoAway, EndOfInput, CloseSession
  <2>4. ASSUME NEW s \in Sides, FinishClose(s)
        PROVE  /\ finished' = [finished EXCEPT ![s] = TRUE]
               /\ UNCHANGED <<connected, running>>
    BY <2>4 DEF FinishClose
  <2>5. ASSUME NEW s \in Sides, NEW flag \in Foreign, SendForeign(s, flag)
        PROVE  UNCHANGED <<running, connected, finished>>
    BY <2>5 DEF SendForeign, sessionVars
  <2>6. Lose => connected' = FALSE /\ UNCHANGED <<running, finished>>
    BY DEF Lose, sessionVars
  <2>7. UNCHANGED vars => UNCHANGED <<running, connected, finished>>
    BY DEF vars, sessionVars
  <2> QED BY <2>1, <2>2, <2>3, <2>4, <2>5, <2>6, <2>7 DEF Next, Handle
<1>4. \A t \in Sides : closed[t] \subseteq closed'[t]
  BY <1>a, <1>2, AddFacts
<1>5. \A t \in Sides : (finished[t] => finished'[t]) /\ (Broken(t) => Broken(t)')
  BY <1>3 DEF TypeOK, Broken
<1> QED BY <1>1, <1>4, <1>5 DEF Forward

LEMMA SendOn ==
    ASSUME TypeOK, NEW s \in Sides, NEW f \in Frames, Send(s, f),
           NEW t \in Sides, NEW flag, NEW i
    PROVE  /\ \A n \in On(t, flag, i) : n \in Nat /\ n <= Len(wire[t])
           /\ On(t, flag, i) \subseteq On(t, flag, i)'
           /\ \A n \in On(t, flag, i)' \ On(t, flag, i) :
                 /\ t = s /\ ~Broken(s) /\ n = Len(wire[s]) + 1
                 /\ f.flag = flag /\ f.id = i
           /\ t = s /\ ~Broken(s) /\ f.flag = flag /\ f.id = i =>
                 Len(wire[s]) + 1 \in On(s, flag, i)'
<1>1. wire[t] \in Seq(Frames) /\ wire[s] \in Seq(Frames) /\ Len(wire[t]) \in Nat
  BY DEF TypeOK
<1>2. \A n \in On(t, flag, i) : n \in Nat /\ n <= Len(wire[t])
  BY <1>1 DEF On
<1>3. CASE t # s \/ Broken(s)
  <2>1. wire'[t] = wire[t]
    BY <1>3 DEF Send, TypeOK
  <2>2. On(t, flag, i)' = On(t, flag, i)
    BY <2>1 DEF On
  <2> QED BY <1>2, <1>3, <2>2
<1>4. CASE t = s /\ ~Broken(s)
  <2> DEFINE q == wire[s]  r == wire'[s]  n == Len(wire[s])
  <2>1. r = Append(q, f)
    BY <1>4 DEF Send, TypeOK
  <2>2. /\ Len(r) = n + 1 /\ r[n + 1] = f /\ n \in Nat
        /\ \A k \in 1..n : r[k] = q[k]
    BY <1>1, <2>1, AppendProperties
  <2>3. /\ On(t, flag, i) = {k \in 1..n : q[k].flag = flag /\ q[k].id = i}
        /\ On(t, flag, i)' = {k \in 1..(n + 1) : r[k].flag = flag /\ r[k].id = i}
    BY <1>4, <2>2 DEF On
  <2> HIDE DEF q, r, n
  <2>4. \A k : k \in 1..(n + 1) <=> k \in 1..n \/ k = n + 1
    BY <2>2
  <2>5. /\ On(t, flag, i) \subseteq On(t, flag, i)'
        /\ \A k \in On(t, flag, i)' \ On(t, flag, i) :
              k = n + 1 /\ f.flag = flag /\ f.id = i
        /\ f.flag = flag /\ f.id = i => n + 1 \in On(t, flag, i)'
    BY <2>2, <2>3, <2>4
  <2> QED BY <1>2, <1>4, <2>5 DEF n
<1> QED BY <1>3, <1>4

\* The session of s takes the next frame off the wire; what it may send itself
\* is no frame of a stream.
Takes(s) ==
    /\ wire[Peer(s)] # <<>>
    /\ \A flag \in StreamFlags, i \in StreamIds :
          /\ On(s, flag, i)' = On(s, flag, i)
          /\ On(Peer(s), flag, i)' = {n - 1 : n \in On(Peer(s), flag, i) \ {1}}
          /\ 1 \in On(Peer(s), flag, i) <=> NextFrame(s).flag = flag /\ NextFrame(s).id = i

LEMMA TakesFrame ==
    ASSUME TypeOK, NEW s \in Sides, wire[Peer(s)] # <<>>,
           wire'[Peer(s)] = Tail(wire[Peer(s)]),
           \/ wire'[s] = wire[s]
           \/ wire'[s] = Append(wire[s], [flag |-> "PONG"])
    PROVE  Takes(s)
<1>1. wire[Peer(s)] \in Seq(Frames) /\ wire[s] \in Seq(Frames)
  BY PeerFacts DEF TypeOK
<1>2. ASSUME NEW flag \in StreamFlags, NEW i \in StreamIds
      PROVE  On(s, flag, i)' = On(s, flag, i)
  <2>1. CASE wire'[s] = wire[s]
    BY <2>1 DEF On
  <2>2. CASE wire'[s] = Append(wire[s], [flag |-> "PONG"])
    <3> DEFINE q == wire[s]  r == wire'[s]  n == Len(wire[s])
    <3>1. [flag |-> "PONG"] \in Frames /\ [flag |-> "PONG"].flag = "PONG"
      BY FrameTypes
    <3>2. /\ Len(r) = n + 1 /\ r[n + 1].flag = "PONG" /\ n \in Nat
          /\ \A k \in 1..n : r[k] = q[k]
      BY <1>1, <2>2, <3>1, AppendProperties
    <3>3. /\ On(s, flag, i) = {k \in 1..n : q[k].flag = flag /\ q[k].id = i}
          /\ On(s, flag, i)' = {k \in 1..(n + 1) : r[k].flag = flag /\ r[k].id = i}
      BY <3>2 DEF On
    <3> HIDE DEF q, r, n
    <3>4. \A k : k \in 1..(n + 1) <=> k \in 1..n \/ k = n + 1
      BY <3>2
    <3>5. flag # "PONG"
      BY DEF StreamFlags
    <3> QED BY <3>2, <3>3, <3>4, <3>5
  <2> QED BY <2>1, <2>2
<1>3. ASSUME NEW flag \in StreamFlags, NEW i \in StreamIds
      PROVE  /\ On(Peer(s), flag, i)' = {n - 1 : n \in On(Peer(s), flag, i) \ {1}}
             /\ 1 \in On(Peer(s), flag, i)
                   <=> NextFrame(s).flag = flag /\ NextFrame(s).id = i
  <2> DEFINE q == wire[Peer(s)]  r == wire'[Peer(s)]  n == Len(wire[Peer(s)])
  <2>1. n \in Nat /\ n >= 1 /\ q[1] = NextFrame(s)
    BY <1>1, HeadTailProperties DEF NextFrame
  <2>2. Len(r) = n - 1 /\ \A k \in 1..(n - 1) : r[k] = q[k + 1]
    BY <1>1, HeadTailProperties
  <2>3. /\ On(Peer(s), flag, i) = {k \in 1..n : q[k].flag = flag /\ q[k].id = i}
        /\ On(Peer(s), flag, i)' = {k \in 1..(n - 1) : r[k].flag = flag /\ r[k].id = i}
    BY <2>2 DEF On
  <2> HIDE DEF q, r, n
  <2>4. \A k \in 1..n : k # 1 => k - 1 \in 1..(n - 1) /\ (k - 1) + 1 = k
    BY <2>1
  <2>5. \A k \in 1..(n - 1) : k + 1 \in 1..n /\ k + 1 # 1 /\ (k + 1) - 1 = k
    BY <2>1
  <2>6. ASSUME NEW k \in On(Peer(s), flag, i)'
        PROVE  k \in {m - 1 : m \in On(Peer(s), flag, i) \ {1}}
    <3>1. k \in 1..(n - 1) /\ r[k].flag = flag /\ r[k].id = i
      BY <2>3
    <3>2. k + 1 \in On(Peer(s), flag, i) \ {1} /\ (k + 1) - 1 = k
      BY <2>2, <2>3, <2>5, <3>1
    <3> QED BY <3>2
  <2>7. {k - 1 : k \in On(Peer(s), flag, i) \ {1}} \subseteq On(Peer(s), flag, i)'
    BY <2>2, <2>3, <2>4
  <2>8. 1 \in 1..n
    BY <2>1
  <2> QED BY <2>1, <2>3, <2>6, <2>7, <2>8
<1> QED BY <1>2, <1>3 DEF Takes

LEMMA HandleTakes ==
    ASSUME TypeOK, NEW s \in Sides,
           \/ HandleSyn(s) \/ HandleData(s) \/ HandleFin(s) \/ HandleRst(s)
           \/ HandlePing(s) \/ HandleGoAway(s)
    PROVE  /\ Takes(s) /\ reading[s] /\ ~finished[s] /\ NextFrame(s) \in Frames
           /\ wire[Peer(s)] # <<>>
           /\ wire'[Peer(s)] = Tail(wire[Peer(s)])
           /\ \/ wire'[s] = wire[s]
              \/ wire'[s] = Append(wire[s], [flag |-> "PONG"])
<1>1. wire[Peer(s)] # <<>> /\ reading[s] /\ ~finished[s]
  BY DEF HandleSyn, HandleData, HandleFin, HandleRst, HandlePing, HandleGoAway, Receives
<1>2. \/ wire' = [wire EXCEPT ![Peer(s)] = Tail(@)]
      \/ wire' = [wire EXCEPT ![Peer(s)] = Tail(@),
                              ![s] = IF Broken(s) THEN @
                                     ELSE Append(@, [flag |-> "PONG"])]
  BY DEF HandleSyn, HandleData, HandleFin, HandleRst, HandlePing, HandleGoAway, Consume
<1>3. /\ wire'[Peer(s)] = Tail(wire[Peer(s)])
      /\ wire'[s] = wire[s] \/ wire'[s] = Append(wire[s], [flag |-> "PONG"])
  <2>1. CASE wire' = [wire EXCEPT ![Peer(s)] = Tail(@)]
    BY <2>1, PeerFacts DEF TypeOK
  <2>2. CASE wire' = [wire EXCEPT ![Peer(s)] = Tail(@),
                              ![s] = IF Broken(s) THEN @
                                     ELSE Append(@, [flag |-> "PONG"])]
    BY <2>2, PeerFacts DEF TypeOK
  <2> QED BY <1>2, <2>1, <2>2
<1>4. NextFrame(s) \in Frames
  BY <1>1, NextFrameTypes DEF TypeOK
<1> QED BY <1>1, <1>3, <1>4, TakesFrame

\* Steps that put nothing on the wire and take nothing off it, unless all of it
\* is lost.
LEMMA QuietWire ==
    ASSUME WireInv, Forward,
           wire' = wire \/ (~connected' /\ \A t \in Sides : wire'[t] = <<>>),
           \A t \in Sides : /\ finished'[t] \/ streams[t] \subseteq streams'[t]
                            /\ Held(t)' \subseteq Held(t)
    PROVE  WireInv'
<1>1. CASE wire' = wire
  <2>1. \A t \in Sides, i \in StreamIds :
           /\ On(t, "RST", i)' = On(t, "RST", i)
           /\ On(t, "SYN", i)' = On(t, "SYN", i)
           /\ On(t, "DATA", i)' = On(t, "DATA", i)
    BY <1>1 DEF On
  <2>2. RstCloses'
    BY <2>1 DEF WireInv, RstCloses, Forward
  <2>3. SynKnown'
    BY <2>1, PeerFacts DEF WireInv, SynKnown, Forward
  <2>4. Reachable'
    BY <2>1, PeerFacts DEF WireInv, Reachable, Forward
  <2>5. DataKnown'
    BY <2>1, PeerFacts DEF WireInv, DataKnown, Forward
  <2> QED BY <2>2, <2>3, <2>4, <2>5 DEF WireInv
<1>2. CASE ~connected' /\ \A t \in Sides : wire'[t] = <<>>
  <2>1. \A t \in Sides : \A flag, i : On(t, flag, i)' = {}
    BY <1>2 DEF On
  <2>2. \A t \in Sides : Broken(t)'
    BY <1>2 DEF Broken
  <2> QED BY <2>1, <2>2 DEF WireInv, RstCloses, SynKnown, Reachable, DataKnown
<1> QED BY <1>1, <1>2

\* Steps that send a frame.
LEMMA SendWire ==
    ASSUME TypeOK, WireInv, Forward, NEW s \in Sides, NEW f \in Frames, Send(s, f),
           UNCHANGED finished,
           \A t \in Sides : streams[t] \subseteq streams'[t],
           \A t \in Sides : \A i \in Held(t)' : i \in Held(t)
                               \/ (t = s /\ f.flag = "SYN" /\ f.id = i),
           f.flag = "SYN" => f.id \in streams'[s],
           f.flag = "RST" => f.id \in closed'[s] \cap reset',
           f.flag = "DATA" => f.id \in owned[s] \ closed[s]
    PROVE  WireInv'
<1> DEFINE top == Len(wire[s]) + 1
<1>1. ASSUME NEW t \in Sides, NEW flag \in StreamFlags, NEW i \in StreamIds
      PROVE  /\ \A n \in On(t, flag, i) : n \in Nat /\ n <= Len(wire[t])
             /\ On(t, flag, i) \subseteq On(t, flag, i)'
             /\ \A n \in On(t, flag, i)' \ On(t, flag, i) :
                   /\ t = s /\ ~Broken(s) /\ n = top
                   /\ f.flag = flag /\ f.id = i
             /\ t = s /\ ~Broken(s) /\ f.flag = flag /\ f.id = i =>
                   top \in On(s, flag, i)'
  BY SendOn
<1>2. Len(wire[s]) \in Nat /\ top \in Nat
  BY DEF TypeOK
<1>3. "RST" \in StreamFlags /\ "SYN" \in StreamFlags /\ "DATA" \in StreamFlags
  BY DEF StreamFlags
<1>w. RstCloses /\ SynKnown /\ Reachable /\ DataKnown
  BY DEF WireInv
<1>5. \A t \in Sides : closed[t] \subseteq closed'[t] /\ (Broken(t) => Broken(t)')
  BY DEF Forward
<1>6. reset \subseteq reset'
  BY DEF Forward
<1>7. ASSUME NEW t \in Sides, NEW i \in StreamIds, On(t, "RST", i)' # {}
      PROVE  i \in (closed[t] \cap reset)'
  <2>1. CASE On(t, "RST", i) # {}
    BY <1>w, <1>5, <1>6, <2>1 DEF RstCloses
  <2>2. CASE On(t, "RST", i) = {}
    BY <1>1, <1>3, <1>7, <2>2
  <2> QED BY <2>1, <2>2
<1>8. ASSUME NEW t \in Sides, NEW i \in StreamIds,
             On(t, "SYN", i)' # {}, ~finished'[t]
      PROVE  i \in (streams[t] \cup closed[Peer(t)])'
  <2>1. CASE On(t, "SYN", i) # {}
    BY <1>w, <1>5, <1>8, <2>1, PeerFacts DEF SynKnown
  <2>2. CASE On(t, "SYN", i) = {}
    BY <1>1, <1>3, <1>8, <2>2
  <2> QED BY <2>1, <2>2
<1>9. ASSUME NEW t \in Sides, NEW i \in StreamIds,
             i \in (Held(t) \ closed[t])', ~Broken(t)', ~finished'[Peer(t)]
      PROVE  i \in streams'[Peer(t)] \/ On(t, "SYN", i)' # {}
  <2>1. ~Broken(t) /\ i \notin closed[t] /\ ~finished[Peer(t)]
    BY <1>5, <1>9, PeerFacts
  <2>2. CASE i \in Held(t)
    <3>1. i \in streams[Peer(t)] \/ On(t, "SYN", i) # {}
      BY <1>w, <2>1, <2>2 DEF Reachable
    <3> QED BY <1>1, <1>3, <3>1, PeerFacts
  <2>3. CASE i \notin Held(t)
    <3>1. t = s /\ f.flag = "SYN" /\ f.id = i
      BY <1>9, <2>3
    <3> QED BY <1>1, <1>3, <2>1, <3>1
  <2> QED BY <2>2, <2>3
<1>10. ASSUME NEW t \in Sides, NEW i \in StreamIds, NEW n \in On(t, "DATA", i)'
       PROVE  /\ ~finished'[Peer(t)] =>
                    i \in streams'[Peer(t)] \/ \E m \in On(t, "SYN", i)' : m < n
              /\ \A m \in On(t, "RST", i)' : n < m
  <2>1. CASE n \in On(t, "DATA", i)
    <3>1. /\ ~finished[Peer(t)] =>
                i \in streams[Peer(t)] \/ \E m \in On(t, "SYN", i) : m < n
          /\ \A m \in On(t, "RST", i) : n < m
      BY <1>w, <2>1 DEF DataKnown
    <3>2. \A m \in On(t, "RST", i)' : n < m
      BY <1>1, <1>2, <1>3, <2>1, <3>1
    <3>3. ~finished'[Peer(t)] =>
             i \in streams'[Peer(t)] \/ \E m \in On(t, "SYN", i)' : m < n
      BY <1>1, <1>3, <3>1, PeerFacts
    <3> QED BY <3>2, <3>3
  <2>2. CASE n \notin On(t, "DATA", i)
    <3>1. t = s /\ ~Broken(s) /\ n = top /\ f.flag = "DATA" /\ f.id = i
      BY <1>1, <1>3, <2>2
    <3>2. i \in Held(s) \ closed[s]
      BY <3>1 DEF Held
    <3>3. ~finished[Peer(s)] => i \in streams[Peer(s)] \/ On(s, "SYN", i) # {}
      BY <1>w, <3>1, <3>2 DEF Reachable
    <3>4. \A m \in On(s, "SYN", i) : m \in On(s, "SYN", i)' /\ m < top
      BY <1>1, <1>2, <1>3
    <3>5. ~finished'[Peer(s)] =>
             i \in streams'[Peer(s)] \/ \E m \in On(s, "SYN", i)' : m < n
      BY <3>1, <3>3, <3>4, PeerFacts
    <3>6. On(s, "RST", i) = {}
      BY <1>w, <3>2 DEF RstCloses
    <3>7. On(s, "RST", i)' = {}
      BY <1>1, <1>3, <3>1, <3>6
    <3> QED BY <3>1, <3>5, <3>7
  <2> QED BY <2>1, <2>2
<1> QED BY <1>7, <1>8, <1>9, <1>10 DEF WireInv, RstCloses, SynKnown, Reachable, DataKnown

\* Steps that handle a frame.
LEMMA TakeWire ==
    ASSUME TypeOK, WireInv, Forward, NEW s \in Sides, Takes(s), UNCHANGED finished,
           ~finished[s],
           \A t \in Sides \ {s} : streams'[t] = streams[t],
           \A i \in streams[s] \ streams'[s] : i \in StreamIds
              /\ NextFrame(s).flag = "RST" /\ NextFrame(s).id = i,
           NextFrame(s).flag = "SYN" => NextFrame(s).id \in streams'[s],
           \A t \in Sides : \A i \in Held(t)' : i \in Held(t)
              \/ (t = s /\ i \in StreamIds
                    /\ NextFrame(s).flag = "SYN" /\ NextFrame(s).id = i)
    PROVE  WireInv'
<1> DEFINE p == Peer(s)
<1>p. p \in Sides /\ p # s /\ Peer(p) = s /\ \A t \in Sides : t = s \/ t = p
  BY PeerFacts
<1>1. \A flag \in StreamFlags, i \in StreamIds :
         /\ On(s, flag, i)' = On(s, flag, i)
         /\ On(p, flag, i)' = {n - 1 : n \in On(p, flag, i) \ {1}}
         /\ 1 \in On(p, flag, i) <=> NextFrame(s).flag = flag /\ NextFrame(s).id = i
  BY DEF Takes
<1>3. "RST" \in StreamFlags /\ "SYN" \in StreamFlags /\ "DATA" \in StreamFlags
  BY DEF StreamFlags
<1>n. \A t \in Sides : \A flag, i : \A n \in On(t, flag, i) : n \in Nat /\ n >= 1
  <2> SUFFICES ASSUME NEW t \in Sides, NEW flag, NEW i, NEW n \in On(t, flag, i)
               PROVE  n \in Nat /\ n >= 1
    OBVIOUS
  <2>1. Len(wire[t]) \in Nat
    BY DEF TypeOK
  <2> QED BY <2>1 DEF On
<1>w. RstCloses /\ SynKnown /\ Reachable /\ DataKnown
  BY DEF WireInv
<1>5. \A t \in Sides : closed[t] \subseteq closed'[t] /\ (Broken(t) => Broken(t)')
  BY DEF Forward
<1>6. reset \subseteq reset'
  BY DEF Forward
\* A stream that leaves the table was reset by the peer.
<1>g. \A i \in streams[s] \ streams'[s] : i \in closed[p] /\ 1 \in On(p, "RST", i)
  BY <1>1, <1>3, <1>w, <1>p DEF RstCloses
<1> HIDE DEF p
<1>7. ASSUME NEW t \in Sides, NEW i \in StreamIds, On(t, "RST", i)' # {}
      PROVE  i \in (closed[t] \cap reset)'
  <2>1. On(t, "RST", i) # {}
    BY <1>1, <1>3, <1>7, <1>p
  <2> QED BY <1>w, <1>5, <1>6, <2>1 DEF RstCloses
<1>8. ASSUME NEW t \in Sides, NEW i \in StreamIds,
             On(t, "SYN", i)' # {}, ~finished'[t]
      PROVE  i \in (streams[t] \cup closed[Peer(t)])'
  <2>1. On(t, "SYN", i) # {}
    BY <1>1, <1>3, <1>8, <1>p
  <2>2. i \in streams[t] \cup closed[Peer(t)]
    BY <1>w, <1>8, <2>1 DEF SynKnown
  <2>3. CASE t = s
    BY <1>5, <1>g, <2>2, <2>3, <1>p DEF p
  <2>4. CASE t = p
    BY <1>5, <2>2, <2>4, <1>p
  <2> QED BY <2>3, <2>4, <1>p
<1>9. ASSUME NEW t \in Sides, NEW i \in StreamIds,
             i \in (Held(t) \ closed[t])', ~Broken(t)', ~finished'[Peer(t)]
      PROVE  i \in streams'[Peer(t)] \/ On(t, "SYN", i)' # {}
  <2>1. ~Broken(t) /\ i \notin closed[t] /\ ~finished[Peer(t)]
    BY <1>5, <1>9, <1>p, PeerFacts
  <2>2. CASE i \in Held(t)
    <3>1. i \in streams[Peer(t)] \/ On(t, "SYN", i) # {}
      BY <1>w, <2>1, <2>2 DEF Reachable
    <3>2. CASE t = s
      BY <1>1, <1>3, <1>p, <3>1, <3>2 DEF p
    <3>3. CASE t = p
      <4>1. CASE i \in streams[s]
        BY <1>g, <1>p, <2>1, <3>3, <4>1
      <4>2. CASE i \notin streams[s]
        <5>1. PICK n \in On(p, "SYN", i) : TRUE
          BY <1>p, <3>1, <3>3, <4>2
        <5>2. CASE n = 1
          BY <1>1, <1>3, <1>p, <3>3, <5>1, <5>2
        <5>3. CASE n # 1
          BY <1>1, <1>3, <1>p, <3>3, <5>1, <5>3
        <5> QED BY <5>2, <5>3
      <4> QED BY <4>1, <4>2
    <3> QED BY <3>2, <3>3, <1>p
  <2>3. CASE i \notin Held(t)
    <3>1. t = s /\ 1 \in On(p, "SYN", i)
      BY <1>1, <1>3, <1>9, <2>3
    <3>2. i \in streams[p] \cup closed[s]
      BY <1>w, <1>p, <1>9, <3>1, <2>1 DEF SynKnown, p
    <3> QED BY <2>1, <3>1, <3>2, <1>p DEF p
  <2> QED BY <2>2, <2>3
<1>10. ASSUME NEW t \in Sides, NEW i \in StreamIds, NEW n \in On(t, "DATA", i)'
       PROVE  /\ ~finished'[Peer(t)] =>
                    i \in streams'[Peer(t)] \/ \E m \in On(t, "SYN", i)' : m < n
              /\ \A m \in On(t, "RST", i)' : n < m
  <2>1. CASE t = s
    <3>1. n \in On(s, "DATA", i)
      BY <1>1, <1>3, <2>1
    <3>2. /\ ~finished[p] => i \in streams[p] \/ \E m \in On(s, "SYN", i) : m < n
          /\ \A m \in On(s, "RST", i) : n < m
      BY <1>w, <3>1 DEF DataKnown, p
    <3> QED BY <1>1, <1>3, <1>p, <2>1, <3>2 DEF p
  <2>2. CASE t = p
    <3>1. PICK k \in On(p, "DATA", i) \ {1} : n = k - 1
      BY <1>1, <1>3, <2>2
    <3>2. /\ ~finished[s] => i \in streams[s] \/ \E m \in On(p, "SYN", i) : m < k
          /\ \A m \in On(p, "RST", i) : k < m
      BY <1>w, <1>p, <3>1 DEF DataKnown
    <3>3. k \in Nat /\ k > 1
      BY <1>n, <1>p, <3>1
    <3>4. i \in streams'[s] \/ \E m \in On(p, "SYN", i)' : m < n
      <4>1. CASE i \in streams[s]
        <5>1. 1 \notin On(p, "RST", i)
          BY <3>2, <3>3
        <5> QED BY <1>g, <4>1, <5>1
      <4>2. CASE i \notin streams[s]
        <5>1. PICK m \in On(p, "SYN", i) : m < k
          BY <3>2, <4>2
        <5>2. CASE m = 1
          BY <1>1, <1>3, <5>1, <5>2
        <5>3. CASE m # 1
          <6>1. m - 1 \in On(p, "SYN", i)'
            BY <1>1, <1>3, <5>1, <5>3
          <6>2. m \in Nat /\ m - 1 < n
            BY <1>n, <1>p, <3>1, <3>3, <5>1
          <6> QED BY <6>1, <6>2
        <5> QED BY <5>2, <5>3
      <4> QED BY <4>1, <4>2
    <3>5. ASSUME NEW m \in On(p, "RST", i)' PROVE n < m
      <4>1. PICK j \in On(p, "RST", i) : m = j - 1
        BY <1>1, <1>3
      <4>2. j \in Nat /\ k < j
        BY <1>n, <1>p, <3>2, <4>1
      <4> QED BY <3>1, <3>3, <4>1, <4>2
    <3> QED BY <1>p, <2>2, <3>4, <3>5
  <2> QED BY <2>1, <2>2, <1>p
<1> QED BY <1>7, <1>8, <1>9, <1>10 DEF WireInv, RstCloses, SynKnown, Reachable, DataKnown

LEMMA InitWire == Init => WireInv
<1> SUFFICES ASSUME Init PROVE WireInv
  OBVIOUS
<1>1. \A s \in Sides : \A flag, i : On(s, flag, i) = {}
  <2> SUFFICES ASSUME NEW s \in Sides, NEW flag, NEW i PROVE On(s, flag, i) = {}
    OBVIOUS
  <2>1. wire[s] = <<>> /\ Len(<<>>) = 0
    BY DEF Init
  <2> QED BY <2>1 DEF On
<1>2. \A s \in Sides : Held(s) = {}
  <2> SUFFICES ASSUME NEW s \in Sides PROVE Held(s) = {}
    OBVIOUS
  <2>1. owned[s] = {} /\ accept_queue[s] = <<>> /\ Len(<<>>) = 0
    BY DEF Init
  <2> QED BY <2>1 DEF Held, Queued
<1> QED BY <1>1, <1>2 DEF WireInv, RstCloses, SynKnown, Reachable, DataKnown

\* Streams are held by being opened, or by the SYN of the peer.
LEMMA HeldSame ==
    ASSUME UNCHANGED <<owned, accept_queue>>
    PROVE  \A t \in Sides : Held(t)' = Held(t)
BY DEF Held, Queued

LEMMA NextWire == TypeOK /\ WireInv /\ [Next]_vars => WireInv'
<1> SUFFICES ASSUME TypeOK, WireInv, [Next]_vars PROVE WireInv'
  OBVIOUS
<1>f. Forward
  BY NextForward
<1>a. streams \in [Sides -> SUBSET StreamIds] /\ owned \in [Sides -> SUBSET StreamIds]
  BY DEF TypeOK
<1>1. CASE Lose \/ UNCHANGED vars
  <2>1. UNCHANGED <<streams, owned, accept_queue>>
    BY <1>1 DEF Lose, vars, sessionVars, streamVars
  <2>2. wire' = wire \/ (~connected' /\ \A t \in Sides : wire'[t] = <<>>)
    BY <1>1 DEF Lose, vars
  <2> QED BY <1>f, <2>1, <2>2, HeldSame, QuietWire
<1>2. ASSUME NEW s \in Sides, EndOfInput(s) \/ CloseSession(s) PROVE WireInv'
  <2>1. UNCHANGED <<streams, owned, accept_queue, wire>>
    BY <1>2 DEF EndOfInput, CloseSession, streamVars
  <2> QED BY <1>f, <2>1, HeldSame, QuietWire
<1>3. ASSUME NEW s \in Sides, NEW i \in StreamIds,
             QueueMarker(s, i) \/ BeginRead(s, i) \/ EndRead(s, i)
      PROVE  WireInv'
  <2>1. UNCHANGED <<streams, owned, accept_queue, wire>>
    BY <1>3 DEF QueueMarker, BeginRead, EndRead, sessionVars
  <2> QED BY <1>f, <2>1, HeldSame, QuietWire
<1>4. ASSUME NEW s \in Sides, FinishClose(s) PROVE WireInv'
  <2>1. UNCHANGED <<owned, accept_queue, wire>>
    BY <1>4 DEF FinishClose
  <2>2. \A t \in Sides : finished'[t] \/ streams[t] \subseteq streams'[t]
    BY <1>4 DEF FinishClose, TypeOK
  <2> QED BY <1>f, <2>1, <2>2, HeldSame, QuietWire
<1>5. ASSUME NEW s \in Sides, OpenFails(s) PROVE WireInv'
  <2>1. UNCHANGED <<owned, accept_queue, wire>>
    BY <1>5 DEF OpenFails, streamVars
  <2>2. streams' = Add(streams, s, next_stream_id[s])
    BY <1>5 DEF OpenFails
  <2>3. \A t \in Sides : streams[t] \subseteq streams'[t]
    BY <1>a, <2>2, AddFacts
  <2> QED BY <1>f, <2>1, <2>3, HeldSame, QuietWire
<1>6. ASSUME NEW s \in Sides, AcceptStream(s) PROVE WireInv'
  <2> DEFINE i == Head(accept_queue[s])
  <2>1. UNCHANGED <<streams, wire>> /\ owned' = Add(owned, s, i)
    BY <1>6 DEF AcceptStream
  <2>2. /\ Queued(s)' \subseteq Queued(s) /\ i \in Queued(s)
        /\ \A t \in Sides \ {s} : Queued(t)' = Queued(t)
    BY <1>6, QueuedAfterAccept
  <2>3. /\ owned'[s] = owned[s] \cup {i}
        /\ \A t \in Sides \ {s} : owned'[t] = owned[t]
    BY <1>a, <2>1, AddFacts
  <2> HIDE DEF i
  <2>4. \A t \in Sides : Held(t)' \subseteq Held(t)
    BY <2>2, <2>3 DEF Held
  <2> QED BY <1>f, <2>1, <2>4, QuietWire
<1>7. ASSUME NEW s \in Sides, OpenStream(s) PROVE WireInv'
  <2> DEFINE i == next_stream_id[s]  f == [flag |-> "SYN", id |-> i]
  <2>1. i \in StreamIds
    BY <1>7, IdFacts DEF OpenStream
  <2>2. f \in Frames /\ f.flag = "SYN" /\ f.id = i
    BY <2>1, FrameTypes
  <2>3. UNCHANGED <<finished, accept_queue>> /\ Send(s, f)
        /\ streams' = Add(streams, s, i) /\ owned' = Add(owned, s, i)
    BY <1>7 DEF OpenStream
  <2>4. /\ streams'[s] = streams[s] \cup {i} /\ owned'[s] = owned[s] \cup {i}
        /\ \A t \in Sides \ {s} : streams'[t] = streams[t] /\ owned'[t] = owned[t]
    BY <1>a, <2>3, AddFacts
  <2>5. \A t \in Sides : Queued(t)' = Queued(t)
    BY <2>3 DEF Queued
  <2> HIDE DEF i, f
  <2>6. \A t \in Sides : \A j \in Held(t)' : j \in Held(t)
           \/ (t = s /\ f.flag = "SYN" /\ f.id = j)
    BY <2>2, <2>4, <2>5 DEF Held
  <2>7. \A t \in Sides : streams[t] \subseteq streams'[t]
    BY <2>4
  <2>8. i \in streams'[s]
    BY <2>4
  <2> QED BY <1>f, <2>2, <2>3, <2>6, <2>7, <2>8, SendWire
<1>8. ASSUME NEW s \in Sides, NEW i \in StreamIds, Write(s, i) PROVE WireInv'
  <2> DEFINE f == [flag |-> "DATA", id |-> i, payload |-> sent[s][i] + 1]
  <2>1. UNCHANGED <<finished, streams, owned, accept_queue>> /\ Send(s, f)
    BY <1>8 DEF Write, sessionVars, streamVars
  <2>2. sent[s][i] + 1 \in Writes
    BY <1>8, WriteTypes
  <2>3. f \in Frames /\ f.flag = "DATA" /\ f.id = i
    BY <2>2, FrameTypes
  <2>4. i \in owned[s] \ closed[s]
    BY <1>8 DEF Write, MayWrite
  <2> HIDE DEF f
  <2> QED BY <1>f, <2>1, <2>3, <2>4, HeldSame, SendWire
<1>9. ASSUME NEW s \in Sides, NEW i \in StreamIds, CloseStream(s, i) PROVE WireInv'
  <2> DEFINE f == [flag |-> "FIN", id |-> i]
  <2>1. UNCHANGED <<finished, streams, owned, accept_queue>> /\ Send(s, f)
    BY <1>9 DEF CloseStream, sessionVars
  <2>2. f \in Frames /\ f.flag = "FIN"
    BY FrameTypes
  <2> HIDE DEF f
  <2> QED BY <1>f, <2>1, <2>2, HeldSame, SendWire
<1>10. ASSUME NEW s \in Sides, NEW i \in StreamIds, SendRst(s, i) PROVE WireInv'
  <2> DEFINE f == [flag |-> "RST", id |-> i]
  <2>1. UNCHANGED <<finished, streams, owned, accept_queue>> /\ Send(s, f)
    BY <1>10 DEF SendRst, sessionVars
  <2>2. f \in Frames /\ f.flag = "RST" /\ f.id = i
    BY FrameTypes
  <2>3. closed' = Add(closed, s, i) /\ i \in reset'
    BY <1>10 DEF SendRst
  <2>4. i \in closed'[s]
    <3>1. closed \in [Sides -> SUBSET StreamIds]
      BY DEF TypeOK
    <3> QED BY <2>3, <3>1, AddFacts
  <2> HIDE DEF f
  <2> QED BY <1>f, <2>1, <2>2, <2>3, <2>4, HeldSame, SendWire
<1>11. ASSUME NEW s \in Sides, NEW flag \in Foreign, SendForeign(s, flag) PROVE WireInv'
  <2> DEFINE f == [flag |-> flag]
  <2>1. UNCHANGED <<finished, streams, owned, accept_queue>> /\ Send(s, f)
    BY <1>11 DEF SendForeign, sessionVars, streamVars
  <2>2. flag \in {"PING", "PONG", "GO_AWAY"}
    BY <1>11, SessionAssumption DEF SendForeign
  <2>3. f \in Frames /\ f.flag \notin {"SYN", "DATA", "RST"}
    BY <2>2, FrameTypes
  <2> HIDE DEF f
  <2> QED BY <1>f, <2>1, <2>3, HeldSame, SendWire
<1>12. ASSUME NEW s \in Sides, HandleSyn(s) PROVE WireInv'
  <2> DEFINE i == NextFrame(s).id
  <2>1. Takes(s) /\ ~finished[s] /\ NextFrame(s).flag = "SYN" /\ i \in StreamIds
    BY <1>12, HandleTakes, FrameFacts DEF HandleSyn, Receives
  <2>2. UNCHANGED <<finished, owned>>
    BY <1>12 DEF HandleSyn, streamVars
  <2>3. \/ i \in streams[s] /\ UNCHANGED <<streams, accept_queue>>
        \/ /\ streams' = Add(streams, s, i)
           /\ accept_queue' = [accept_queue EXCEPT ![s] = Append(@, i)]
    BY <1>12 DEF HandleSyn, Knows
  <2> HIDE DEF i
  <2>4. /\ i \in streams'[s] /\ streams[s] \subseteq streams'[s]
        /\ \A t \in Sides \ {s} : streams'[t] = streams[t]
    BY <1>a, <2>3, AddFacts
  <2>5. \A t \in Sides : \A j \in Held(t)' : j \in Held(t) \/ (t = s /\ j = i)
    <3>1. CASE UNCHANGED accept_queue
      BY <2>2, <3>1, HeldSame
    <3>2. CASE accept_queue' = [accept_queue EXCEPT ![s] = Append(@, i)]
      <4>1. /\ Queued(s)' = Queued(s) \cup {i}
            /\ \A t \in Sides \ {s} : Queued(t)' = Queued(t)
        BY <2>1, <3>2, QueuedAfterAppend
      <4> QED BY <2>2, <4>1 DEF Held
    <3> QED BY <2>3, <3>1, <3>2
  <2> QED BY <1>f, <2>1, <2>2, <2>4, <2>5, TakeWire DEF i
<1>13. ASSUME NEW s \in Sides, HandleRst(s) PROVE WireInv'
  <2>1. Takes(s) /\ ~finished[s] /\ NextFrame(s).flag = "RST"
    BY <1>13, HandleTakes DEF HandleRst, Receives
  <2>2. UNCHANGED <<finished, owned, accept_queue>>
        /\ streams' = [streams EXCEPT ![s] = @ \ {NextFrame(s).id}]
    BY <1>13 DEF HandleRst
  <2>3. /\ streams'[s] = streams[s] \ {NextFrame(s).id}
        /\ \A t \in Sides \ {s} : streams'[t] = streams[t]
    BY <1>a, <2>2
  <2>4. \A i \in streams[s] \ streams'[s] : i \in StreamIds /\ NextFrame(s).id = i
    BY <1>a, <2>3
  <2> QED BY <1>f, <2>1, <2>2, <2>3, <2>4, HeldSame, TakeWire
<1>14. ASSUME NEW s \in Sides,
              HandleData(s) \/ HandleFin(s) \/ HandlePing(s) \/ HandleGoAway(s)
       PROVE  WireInv'
  <2>1. Takes(s) /\ ~finished[s] /\ NextFrame(s).flag # "SYN"
    BY <1>14, HandleTakes
       DEF HandleData, HandleFin, HandlePing, HandleGoAway, Receives
  <2>2. UNCHANGED <<finished, streams, owned, accept_queue>>
    BY <1>14 DEF HandleData, HandleFin, HandlePing, HandleGoAway, streamVars
  <2> QED BY <1>f, <2>1, <2>2, HeldSame, TakeWire
<1> QED BY <1>1, <1>2, <1>3, <1>4, <1>5, <1>6, <1>7, <1>8, <1>9, <1>10, <1>11,
           <1>12, <1>13, <1>14 DEF Next, Handle

LEMMA AlwaysWire == Spec => [](TypeOK /\ WireInv)
<1>1. Init => TypeOK /\ WireInv
  BY InitTypes, InitWire
<1>2. (TypeOK /\ WireInv) /\ [Next]_vars => (TypeOK /\ WireInv)'
  BY NextTypes, NextWire
<1> QED BY <1>1, <1>2, PTL DEF Spec

-------------------------------------------------------------------------------
(* Picking elements out of a sequence *)

\* A set of numbers has a least one: what holds of every number is proved from
\* its least counterexample.
LEMMA LeastElement ==
    ASSUME NEW T \in SUBSET Nat, T # {}
    PROVE  \E n \in T : \A m \in T : n <= m
<1> DEFINE R == OpToRel(<, Nat)
<1>1. IsWellFoundedOn(R, Nat)
  BY NatLessThanWellFounded
<1>2. \A n, m \in Nat : m < n => <<m, n>> \in R
  BY DEF OpToRel
<1> HIDE DEF R
<1>3. PICK n \in T : \A m \in T : ~ (<<m, n>> \in R)
  BY <1>1, WFMin
<1>4. ASSUME NEW m \in T PROVE n <= m
  <2>1. m \in Nat /\ n \in Nat
    OBVIOUS
  <2>2. ~ (m < n)
    BY <1>2, <1>3, <2>1
  <2> QED BY <2>1, <2>2
<1> QED BY <1>4

\* What is picked from the first n elements of q, as a function of n.
Picks(p, n, q, S) ==
    p = [k \in 0..n |-> IF k = 0 THEN <<>>
                        ELSE IF q[k] \in S THEN Append(p[k - 1], q[k])
                        ELSE p[k - 1]]

LEMMA PicksFacts ==
    ASSUME NEW p, NEW n \in Nat, NEW q, NEW S, Picks(p, n, q, S)
    PROVE  /\ p[0] = <<>>
           /\ \A k \in 1..n : p[k] = IF q[k] \in S THEN Append(p[k - 1], q[k])
                                                    ELSE p[k - 1]
<1>1. \A k \in 0..n : p[k] = IF k = 0 THEN <<>>
                              ELSE IF q[k] \in S THEN Append(p[k - 1], q[k])
                              ELSE p[k - 1]
  BY DEF Picks
<1>2. 0 \in 0..n /\ \A k \in 1..n : k \in 0..n /\ k # 0
  OBVIOUS
<1> QED BY <1>1, <1>2

LEMMA PicksExist ==
    ASSUME NEW q, NEW S, NEW n \in Nat
    PROVE  \E p : Picks(p, n, q, S)
<1> DEFINE T == {k \in Nat : ~ \E p : Picks(p, k, q, S)}
<1> SUFFICES ASSUME T # {} PROVE FALSE
  OBVIOUS
<1>1. PICK k \in T : \A m \in T : k <= m
  BY LeastElement
<1>2. k \in Nat /\ ~ \E p : Picks(p, k, q, S)
  OBVIOUS
<1>3. CASE k = 0
  <2> DEFINE f == [i \in 0..k |-> <<>>]
  <2>1. \A i \in 0..k : i = 0
    BY <1>3
  <2>2. Picks(f, k, q, S)
    BY <2>1, Zenon DEF Picks
  <2> QED BY <1>2, <2>2
<1>4. CASE k # 0
  <2>1. k - 1 \in Nat /\ ~ (k <= k - 1)
    BY <1>2, <1>4
  <2>2. k - 1 \notin T
    BY <1>1, <2>1
  <2>3. PICK p : Picks(p, k - 1, q, S)
    BY <2>1, <2>2
  <2> DEFINE last == IF q[k] \in S THEN Append(p[k - 1], q[k]) ELSE p[k - 1]
             f == [i \in 0..k |-> IF i = k THEN last ELSE p[i]]
  <2>4. ASSUME NEW i \in 0..k
        PROVE  f[i] = IF i = 0 THEN <<>>
                      ELSE IF q[i] \in S THEN Append(f[i - 1], q[i]) ELSE f[i - 1]
    <3>1. CASE i = k
      <4>1. k - 1 \in 0..k /\ k - 1 # k /\ i # 0
        BY <1>2, <1>4, <3>1
      <4>2. f[k - 1] = p[k - 1] /\ f[i] = last
        BY <3>1, <4>1
      <4> QED BY <3>1, <4>1, <4>2
    <3>2. CASE i # k
      <4>1. i \in 0..(k - 1)
        BY <1>2, <3>2
      <4>2. p[i] = IF i = 0 THEN <<>>
                   ELSE IF q[i] \in S THEN Append(p[i - 1], q[i]) ELSE p[i - 1]
        BY <2>3, <4>1 DEF Picks
      <4>3. i # 0 => i - 1 \in 0..k /\ i - 1 # k
        BY <1>2, <4>1
      <4>4. f[i] = p[i] /\ (i # 0 => f[i - 1] = p[i - 1])
        BY <3>2, <4>3
      <4> HIDE DEF f
      <4> QED BY <4>2, <4>4
    <3> QED BY <3>1, <3>2
  <2>5. Picks(f, k, q, S)
    <3> DEFINE g == [i \in 0..k |-> IF i = 0 THEN <<>>
                      ELSE IF q[i] \in S THEN Append(f[i - 1], q[i]) ELSE f[i - 1]]
    <3>1. \A i \in 0..k : f[i] = g[i]
      BY <2>4
    <3>2. f = [i \in 0..k |-> f[i]] /\ g = [i \in 0..k |-> g[i]]
      OBVIOUS
    <3> HIDE DEF f
    <3>3. f = g
      <4> HIDE DEF g
      <4> QED BY <3>1, <3>2
    <3> QED BY <3>3, Zenon DEF Picks
  <2> QED BY <1>2, <2>5
<1> QED BY <1>3, <1>4

\* Where two sequences begin alike, what is picked is alike.
LEMMA PicksAgree ==
    ASSUME NEW p, NEW n \in Nat, NEW q, NEW S, Picks(p, n, q, S),
           NEW g, NEW m \in Nat, NEW r, Picks(g, m, r, S),
           NEW l \in Nat, l <= n, l <= m, \A k \in 1..l : q[k] = r[k]
    PROVE  \A k \in 0..l : p[k] = g[k]
<1> DEFINE T == {k \in 0..l : p[k] # g[k]}
<1> SUFFICES ASSUME T # {} PROVE FALSE
  OBVIOUS
<1>1. T \in SUBSET Nat
  OBVIOUS
<1>2. PICK k \in T : \A j \in T : k <= j
  BY <1>1, LeastElement
<1>3. k \in 0..l /\ p[k] # g[k]
  OBVIOUS
<1>4. p[0] = <<>> /\ g[0] = <<>>
  BY PicksFacts
<1>5. k # 0
  BY <1>3, <1>4
<1>6. k - 1 \in 0..l /\ ~ (k <= k - 1) /\ k \in 1..l /\ k \in 1..n /\ k \in 1..m
  BY <1>3, <1>5
<1>7. p[k - 1] = g[k - 1]
  BY <1>2, <1>6
<1>8. /\ p[k] = IF q[k] \in S THEN Append(p[k - 1], q[k]) ELSE p[k - 1]
      /\ g[k] = IF r[k] \in S THEN Append(g[k - 1], r[k]) ELSE g[k - 1]
  BY <1>6, PicksFacts
<1>9. q[k] = r[k]
  BY <1>6
<1> HIDE DEF T
<1> QED BY <1>3, <1>7, <1>8, <1>9

LEMMA PickedIs ==
    ASSUME NEW q, Len(q) \in Nat, NEW S
    PROVE  \E p : Picks(p, Len(q), q, S) /\ Picked(q, S) = p[Len(q)]
<1> DEFINE Q(f) == f = [k \in 0..Len(q) |-> IF k = 0 THEN <<>>
                        ELSE IF q[k] \in S THEN Append(f[k - 1], q[k])
                        ELSE f[k - 1]]
<1>0. \E f : Picks(f, Len(q), q, S)
  BY PicksExist
<1>1. PICK f : Q(f)
  BY <1>0 DEF Picks
<1> DEFINE c == CHOOSE g : Q(g)
<1>2. Picked(q, S) = c[Len(q)]
  BY DEF Picked
<1>3. Q(c)
  <2> HIDE DEF Q
  <2> QED BY <1>1
<1>4. Picks(c, Len(q), q, S)
  <2> HIDE DEF c
  <2> QED BY <1>3 DEF Picks
<1> HIDE DEF c
<1> QED BY <1>2, <1>4

LEMMA PickedEmpty ==
    ASSUME NEW S
    PROVE  Picked(<<>>, S) = <<>>
<1>1. Len(<<>>) = 0
  OBVIOUS
<1>2. PICK p : Picks(p, 0, <<>>, S) /\ Picked(<<>>, S) = p[0]
  BY <1>1, PickedIs
<1> QED BY <1>2, PicksFacts

LEMMA PickedAppend ==
    ASSUME NEW R, NEW q \in Seq(R), NEW x \in R, NEW S
    PROVE  Picked(Append(q, x), S) = IF x \in S THEN Append(Picked(q, S), x)
                                                ELSE Picked(q, S)
<1> DEFINE n == Len(q)  r == Append(q, x)
<1>1. /\ n \in Nat /\ Len(r) = n + 1 /\ r[n + 1] = x
      /\ \A k \in 1..n : r[k] = q[k]
  BY AppendProperties
<1>2. PICK p : Picks(p, n, q, S) /\ Picked(q, S) = p[n]
  BY <1>1, PickedIs
<1>3. PICK g : Picks(g, n + 1, r, S) /\ Picked(r, S) = g[n + 1]
  <2>1. Len(r) \in Nat
    BY <1>1
  <2>2. PICK g : Picks(g, Len(r), r, S) /\ Picked(r, S) = g[Len(r)]
    BY <2>1, PickedIs
  <2> HIDE DEF r, n
  <2> QED BY <1>1, <2>2
<1> HIDE DEF r, n
<1>4. n + 1 \in Nat /\ n <= n /\ n <= n + 1 /\ n \in 0..n /\ n + 1 \in 1..(n + 1)
      /\ (n + 1) - 1 = n
  BY <1>1
<1>5. \A k \in 1..n : q[k] = r[k]
  BY <1>1
<1>6. p[n] = g[n]
  <2>1. Picks(p, n, q, S) /\ Picks(g, n + 1, r, S) /\ n \in Nat
    BY <1>1, <1>2, <1>3
  <2>2. \A k \in 0..n : p[k] = g[k]
    BY <1>4, <1>5, <2>1, PicksAgree
  <2> QED BY <1>4, <2>2
<1>7. g[n + 1] = IF r[n + 1] \in S THEN Append(g[n], r[n + 1]) ELSE g[n]
  BY <1>3, <1>4, PicksFacts
<1> QED BY <1>1, <1>2, <1>3, <1>6, <1>7 DEF r

LEMMA PicksTypes ==
    ASSUME NEW p, NEW n \in Nat, NEW q, NEW S, Picks(p, n, q, S)
    PROVE  \A k \in 0..n : p[k] \in Seq(S)
<1> DEFINE T == {k \in 0..n : p[k] \notin Seq(S)}
<1> SUFFICES ASSUME T # {} PROVE FALSE
  OBVIOUS
<1>1. T \in SUBSET Nat
  OBVIOUS
<1>2. PICK k \in T : \A j \in T : k <= j
  BY <1>1, LeastElement
<1>3. k \in 0..n /\ p[k] \notin Seq(S)
  OBVIOUS
<1>4. p[0] = <<>> /\ <<>> \in Seq(S)
  BY PicksFacts
<1>5. k # 0
  BY <1>3, <1>4
<1>6. k - 1 \in 0..n /\ ~ (k <= k - 1) /\ k \in 1..n
  BY <1>3, <1>5
<1>7. p[k - 1] \in Seq(S)
  BY <1>2, <1>6
<1>8. p[k] = IF q[k] \in S THEN Append(p[k - 1], q[k]) ELSE p[k - 1]
  BY <1>6, PicksFacts
<1> HIDE DEF T
<1> QED BY <1>3, <1>7, <1>8, AppendProperties

LEMMA PickedTypes ==
    ASSUME NEW q, Len(q) \in Nat, NEW S
    PROVE  Picked(q, S) \in Seq(S)
<1>1. PICK p : Picks(p, Len(q), q, S) /\ Picked(q, S) = p[Len(q)]
  BY PickedIs
<1>2. Len(q) \in 0..Len(q)
  OBVIOUS
<1> QED BY <1>1, <1>2, PicksTypes

LEMMA SeqShift ==
    ASSUME NEW R, NEW a \in Seq(R), NEW b \in Seq(R), NEW x \in R
    PROVE  /\ Append(a, x) \o b = a \o (<<x>> \o b)
           /\ a \o Append(b, x) = Append(a \o b, x)
<1>1. <<x>> \in Seq(R)
  OBVIOUS
<1>2. Append(a, x) = a \o <<x>> /\ Append(b, x) = b \o <<x>>
  BY AppendIsConcat
<1>3. a \o b \in Seq(R)
  BY ConcatProperties
<1>4. Append(a \o b, x) = (a \o b) \o <<x>>
  BY <1>3, AppendIsConcat
<1> QED BY <1>1, <1>2, <1>4, ConcatAssociative

LEMMA PickedTail ==
    ASSUME NEW R, NEW q \in Seq(R), q # <<>>, NEW S
    PROVE  Picked(q, S) = IF Head(q) \in S THEN <<Head(q)>> \o Picked(Tail(q), S)
                                           ELSE Picked(Tail(q), S)
<1> DEFINE n == Len(q) - 1  r == Tail(q)  first == IF q[1] \in S THEN <<q[1]>> ELSE <<>>
<1>1. /\ n \in Nat /\ Len(q) = n + 1 /\ Len(r) = n /\ Head(q) = q[1]
      /\ \A k \in 1..n : r[k] = q[k + 1]
  BY HeadTailProperties
<1>2. PICK p : Picks(p, n, r, S) /\ Picked(r, S) = p[n]
  <2>1. PICK p : Picks(p, Len(r), r, S) /\ Picked(r, S) = p[Len(r)]
    <3> HIDE DEF r
    <3> QED BY <1>1, PickedIs
  <2> HIDE DEF r, n
  <2> QED BY <1>1, <2>1
<1>3. PICK g : Picks(g, n + 1, q, S) /\ Picked(q, S) = g[n + 1]
  <2>1. Len(q) \in Nat
    OBVIOUS
  <2>2. PICK g : Picks(g, Len(q), q, S) /\ Picked(q, S) = g[Len(q)]
    BY <2>1, PickedIs
  <2> HIDE DEF n
  <2> QED BY <1>1, <2>2
<1>4. first \in Seq(S)
  OBVIOUS
<1> HIDE DEF n, r
<1>p. /\ p[0] = <<>>
      /\ \A k \in 1..n : p[k] = IF r[k] \in S THEN Append(p[k - 1], r[k]) ELSE p[k - 1]
  BY <1>1, <1>2, PicksFacts
<1>g. /\ g[0] = <<>>
      /\ \A k \in 1..(n + 1) : g[k] = IF q[k] \in S THEN Append(g[k - 1], q[k])
                                                    ELSE g[k - 1]
  <2>1. n + 1 \in Nat /\ Picks(g, n + 1, q, S)
    BY <1>1, <1>3
  <2> QED BY <2>1, PicksFacts
<1>5. g[1] = first
  <2>1. 1 \in 1..(n + 1) /\ 1 - 1 = 0
    BY <1>1
  <2>2. g[1] = IF q[1] \in S THEN Append(<<>>, q[1]) ELSE <<>>
    BY <1>g, <2>1
  <2>3. Append(<<>>, q[1]) = <<q[1]>>
    OBVIOUS
  <2> QED BY <2>2, <2>3
<1> HIDE DEF first
<1>6. \A k \in 0..n : g[k + 1] = first \o p[k]
  <2> DEFINE T == {k \in 0..n : g[k + 1] # first \o p[k]}
  <2> SUFFICES ASSUME T # {} PROVE FALSE
    OBVIOUS
  <2>1. T \in SUBSET Nat
    BY <1>1
  <2>2. PICK k \in T : \A j \in T : k <= j
    BY <2>1, LeastElement
  <2>3. k \in 0..n /\ g[k + 1] # first \o p[k]
    OBVIOUS
  <2>4. first \o <<>> = first /\ p[0] = <<>>
    BY <1>p, <1>4, ConcatEmptySeq
  <2>5. k # 0
    <3> SUFFICES ASSUME k = 0 PROVE FALSE
      OBVIOUS
    <3>1. g[k + 1] = g[1] /\ p[k] = <<>>
      BY <2>4
    <3> QED BY <1>5, <2>3, <2>4, <3>1
  <2>6. /\ k - 1 \in 0..n /\ ~ (k <= k - 1) /\ k \in 1..n /\ k + 1 \in 1..(n + 1)
        /\ (k - 1) + 1 = k /\ (k + 1) - 1 = k /\ n + 1 \in Nat
    BY <1>1, <2>3, <2>5
  <2>7. g[k] = first \o p[k - 1]
    <3>1. k - 1 \notin T
      BY <2>2, <2>6
    <3>2. g[(k - 1) + 1] = first \o p[k - 1]
      BY <2>6, <3>1
    <3> QED BY <2>6, <3>2
  <2> HIDE DEF T
  <2>8. p[k] = IF r[k] \in S THEN Append(p[k - 1], r[k]) ELSE p[k - 1]
    BY <1>p, <2>6
  <2>9. g[k + 1] = IF q[k + 1] \in S THEN Append(g[k], q[k + 1]) ELSE g[k]
    BY <1>g, <2>6
  <2>10. r[k] = q[k + 1]
    BY <1>1, <2>6
  <2>11. p[k - 1] \in Seq(S)
    BY <1>1, <1>2, <2>6, PicksTypes
  <2>12. r[k] \in S => first \o Append(p[k - 1], r[k]) = Append(first \o p[k - 1], r[k])
    BY <1>4, <2>11, SeqShift
  <2> QED BY <2>3, <2>7, <2>8, <2>9, <2>10, <2>12
<1>7. n \in 0..n
  BY <1>1
<1>8. Picked(q, S) = first \o Picked(r, S)
  BY <1>2, <1>3, <1>6, <1>7
<1>9. Picked(r, S) \in Seq(S)
  BY <1>1, PickedTypes
<1>10. <<>> \o Picked(r, S) = Picked(r, S)
  BY <1>9, ConcatEmptySeq
<1> QED BY <1>1, <1>8, <1>10 DEF first, r

-------------------------------------------------------------------------------
(* What is read, queued and on the wire is what was written *)

DataOf(i) == [flag : {"DATA"}, id : {i}, payload : Writes]

Carried(frames) == [k \in DOMAIN frames |-> frames[k].payload]

LEMMA DataFrames ==
    ASSUME NEW f \in Frames, NEW i
    PROVE  f \in DataOf(i) <=> f.flag = "DATA" /\ f.id = i
<1>1. ASSUME f \in DataOf(i) PROVE f.flag = "DATA" /\ f.id = i
  BY <1>1 DEF DataOf
<1>2. ASSUME f.flag = "DATA", f.id = i PROVE f \in DataOf(i)
  <2>1. f \in [flag : {"DATA"}, id : StreamIds, payload : Writes]
    BY <1>2 DEF Frames
  <2> QED BY <1>2, <2>1 DEF DataOf
<1> QED BY <1>1, <1>2

LEMMA CarriedFacts ==
    ASSUME NEW i, NEW m \in Seq(DataOf(i)), NEW f \in DataOf(i)
    PROVE  /\ Carried(m) \in Seq(Writes)
           /\ Carried(Append(m, f)) = Append(Carried(m), f.payload)
           /\ Carried(<<f>> \o m) = <<f.payload>> \o Carried(m)
<1> DEFINE n == Len(m)
<1>1. n \in Nat /\ m = [k \in 1..n |-> m[k]] /\ DOMAIN m = 1..n
      /\ \A k \in 1..n : m[k] \in DataOf(i)
  OBVIOUS
<1>2. \A g \in DataOf(i) : g.payload \in Writes
  BY DEF DataOf
<1>3. Carried(m) \in Seq(Writes) /\ Len(Carried(m)) = n
      /\ \A k \in 1..n : Carried(m)[k] = m[k].payload
  <2>1. Carried(m) = [k \in 1..n |-> m[k].payload]
    BY <1>1 DEF Carried
  <2>2. \A k \in 1..n : m[k].payload \in Writes
    BY <1>1, <1>2
  <2> HIDE DEF n
  <2>3. [k \in 1..n |-> m[k].payload] \in Seq(Writes)
    BY <1>1, <2>2, IsASeq
  <2>4. Len([k \in 1..n |-> m[k].payload]) = n
    BY <1>1, <2>3
  <2> QED BY <2>1, <2>3, <2>4
<1>4. Carried(Append(m, f)) = Append(Carried(m), f.payload)
  <2> DEFINE a == Append(m, f)  b == Append(Carried(m), f.payload)
  <2>1. /\ Len(a) = n + 1 /\ a[n + 1] = f /\ DOMAIN a = 1..(n + 1)
        /\ \A k \in 1..n : a[k] = m[k]
    BY <1>1, AppendProperties
  <2>2. /\ b = [k \in 1..(n + 1) |-> b[k]]
        /\ b[n + 1] = f.payload /\ \A k \in 1..n : b[k] = Carried(m)[k]
    BY <1>1, <1>2, <1>3, AppendProperties
  <2>3. Carried(a) = [k \in 1..(n + 1) |-> a[k].payload]
    BY <2>1 DEF Carried
  <2> HIDE DEF a, b
  <2>4. \A k \in 1..(n + 1) : a[k].payload = b[k]
    <3> SUFFICES ASSUME NEW k \in 1..(n + 1) PROVE a[k].payload = b[k]
      OBVIOUS
    <3>1. k \in 1..n \/ k = n + 1
      BY <1>1
    <3> HIDE DEF n
    <3> QED BY <1>3, <2>1, <2>2, <3>1
  <2> QED BY <2>2, <2>3, <2>4 DEF a, b
<1>5. Carried(<<f>> \o m) = <<f.payload>> \o Carried(m)
  <2> DEFINE a == <<f>> \o m  b == <<f.payload>> \o Carried(m)
  <2>1. <<f>> \in Seq(DataOf(i)) /\ <<f.payload>> \in Seq(Writes)
        /\ Len(<<f>>) = 1 /\ Len(<<f.payload>>) = 1
        /\ <<f>>[1] = f /\ <<f.payload>>[1] = f.payload
    BY <1>2
  <2>2. /\ Len(a) = n + 1 /\ a \in Seq(DataOf(i)) /\ DOMAIN a = 1..(n + 1)
        /\ a[1] = f /\ \A k \in 2..(n + 1) : a[k] = m[k - 1]
    <3>1. Len(a) = 1 + n /\ a \in Seq(DataOf(i))
      BY <1>1, <2>1, ConcatProperties
    <3>2. \A k \in 1..(1 + n) : a[k] = IF k <= 1 THEN <<f>>[k] ELSE m[k - 1]
      BY <1>1, <2>1, ConcatProperties
    <3> HIDE DEF a
    <3>3. DOMAIN a = 1..(n + 1) /\ 1 + n = n + 1 /\ 1 \in 1..(n + 1)
      BY <1>1, <3>1
    <3> HIDE DEF n
    <3>4. \A k \in 2..(n + 1) : k \in 1..(n + 1) /\ ~(k <= 1)
      BY <1>1
    <3> QED BY <2>1, <3>1, <3>2, <3>3, <3>4
  <2>3. /\ b = [k \in 1..(n + 1) |-> b[k]]
        /\ b[1] = f.payload /\ \A k \in 2..(n + 1) : b[k] = Carried(m)[k - 1]
    <3>1. Len(b) = 1 + n /\ b \in Seq(Writes)
      BY <1>3, <2>1, ConcatProperties
    <3>2. \A k \in 1..(1 + n) : b[k] = IF k <= 1 THEN <<f.payload>>[k] ELSE Carried(m)[k - 1]
      BY <1>3, <2>1, ConcatProperties
    <3> HIDE DEF b
    <3>3. b = [k \in 1..(n + 1) |-> b[k]] /\ 1 + n = n + 1 /\ 1 \in 1..(n + 1)
      BY <1>1, <3>1
    <3> HIDE DEF n
    <3>4. \A k \in 2..(n + 1) : k \in 1..(n + 1) /\ ~(k <= 1)
      BY <1>1
    <3>5. b[1] = f.payload
      BY <2>1, <3>2, <3>3
    <3>6. \A k \in 2..(n + 1) : b[k] = Carried(m)[k - 1]
      BY <3>2, <3>3, <3>4
    <3> QED BY <3>3, <3>5, <3>6
  <2>4. Carried(a) = [k \in 1..(n + 1) |-> a[k].payload]
    BY <2>2 DEF Carried
  <2> HIDE DEF a, b
  <2>5. \A k \in 1..(n + 1) : a[k].payload = b[k]
    <3> SUFFICES ASSUME NEW k \in 1..(n + 1) PROVE a[k].payload = b[k]
      OBVIOUS
    <3>1. k = 1 \/ (k \in 2..(n + 1) /\ k - 1 \in 1..n)
      BY <1>1
    <3> HIDE DEF n
    <3> QED BY <1>3, <2>2, <2>3, <3>1
  <2> QED BY <2>3, <2>4, <2>5 DEF a, b
<1> QED BY <1>3, <1>4, <1>5

LEMMA InFlightIs ==
    ASSUME TypeOK, NEW t \in Sides, NEW i
    PROVE  /\ InFlight(t, i) = Carried(Picked(wire[t], DataOf(i)))
           /\ Picked(wire[t], DataOf(i)) \in Seq(DataOf(i))
           /\ InFlight(t, i) \in Seq(Writes)
<1>1. Len(wire[t]) \in Nat
  BY DEF TypeOK
<1>2. Picked(wire[t], DataOf(i)) \in Seq(DataOf(i))
  BY <1>1, PickedTypes
<1>3. InFlight(t, i) = Carried(Picked(wire[t], DataOf(i)))
  BY DEF InFlight, Carried, DataOf
<1>4. \A m \in Seq(DataOf(i)) : Carried(m) \in Seq(Writes)
  <2> SUFFICES ASSUME NEW m \in Seq(DataOf(i)) PROVE Carried(m) \in Seq(Writes)
    OBVIOUS
  <2>1. Carried(m) = [k \in 1..Len(m) |-> m[k].payload] /\ Len(m) \in Nat
    BY DEF Carried
  <2>2. \A k \in 1..Len(m) : m[k].payload \in Writes
    <3> SUFFICES ASSUME NEW k \in 1..Len(m) PROVE m[k].payload \in Writes
      OBVIOUS
    <3>1. m[k] \in DataOf(i)
      OBVIOUS
    <3> QED BY <3>1 DEF DataOf
  <2> QED BY <2>1, <2>2, IsASeq
<1> QED BY <1>2, <1>3, <1>4

LEMMA InFlightAppend ==
    ASSUME TypeOK, NEW t \in Sides, NEW i, NEW f \in Frames,
           wire'[t] = Append(wire[t], f)
    PROVE  InFlight(t, i)' = IF f.flag = "DATA" /\ f.id = i
                             THEN Append(InFlight(t, i), f.payload) ELSE InFlight(t, i)
<1> DEFINE m == Picked(wire[t], DataOf(i))
<1>1. wire[t] \in Seq(Frames)
  BY DEF TypeOK
<1>2. InFlight(t, i)' = Carried(Picked(Append(wire[t], f), DataOf(i)))
  BY DEF InFlight, Carried, DataOf
<1>3. Picked(Append(wire[t], f), DataOf(i)) =
         IF f \in DataOf(i) THEN Append(m, f) ELSE m
  BY <1>1, PickedAppend
<1>4. InFlight(t, i) = Carried(m) /\ m \in Seq(DataOf(i))
  BY InFlightIs
<1> HIDE DEF m
<1>5. CASE f \in DataOf(i)
  <2>1. Carried(Append(m, f)) = Append(Carried(m), f.payload)
    BY <1>4, <1>5, CarriedFacts
  <2> QED BY <1>2, <1>3, <1>4, <1>5, <2>1, DataFrames
<1>6. CASE f \notin DataOf(i)
  BY <1>2, <1>3, <1>4, <1>6, DataFrames
<1> QED BY <1>5, <1>6

LEMMA InFlightTail ==
    ASSUME TypeOK, NEW t \in Sides, NEW i, wire[t] # <<>>, wire'[t] = Tail(wire[t]),
           NEW f, f = Head(wire[t])
    PROVE  InFlight(t, i) = IF f.flag = "DATA" /\ f.id = i
                            THEN <<f.payload>> \o InFlight(t, i)' ELSE InFlight(t, i)'
<1> DEFINE m == Picked(Tail(wire[t]), DataOf(i))
<1>1. wire[t] \in Seq(Frames) /\ f \in Frames /\ Tail(wire[t]) \in Seq(Frames)
      /\ Len(Tail(wire[t])) \in Nat
  BY HeadTailProperties DEF TypeOK
<1>2. InFlight(t, i)' = Carried(m)
  BY DEF InFlight, Carried, DataOf
<1>3. Picked(wire[t], DataOf(i)) = IF f \in DataOf(i) THEN <<f>> \o m ELSE m
  BY <1>1, PickedTail
<1>4. InFlight(t, i) = Carried(Picked(wire[t], DataOf(i))) /\ m \in Seq(DataOf(i))
  BY <1>1, InFlightIs, PickedTypes
<1> HIDE DEF m
<1>5. CASE f \in DataOf(i)
  <2>1. Carried(<<f>> \o m) = <<f.payload>> \o Carried(m)
    BY <1>4, <1>5, CarriedFacts
  <2> QED BY <1>1, <1>2, <1>3, <1>4, <1>5, <2>1, DataFrames
<1>6. CASE f \notin DataOf(i)
  BY <1>1, <1>2, <1>3, <1>4, <1>6, DataFrames
<1> QED BY <1>5, <1>6

LEMMA PayloadsFacts ==
    ASSUME NEW q \in Seq(Writes \cup {EOF})
    PROVE  /\ Payloads(q) \in Seq(Writes)
           /\ Payloads(Append(q, EOF)) = Payloads(q)
           /\ \A x \in Writes : Payloads(Append(q, x)) = Append(Payloads(q), x)
           /\ q # <<>> /\ Head(q) = EOF => Payloads(Tail(q)) = Payloads(q)
           /\ q # <<>> /\ Head(q) # EOF =>
                 Head(q) \in Writes /\ Payloads(q) = <<Head(q)>> \o Payloads(Tail(q))
<1>1. EOF \notin Writes
  <2>1. MaxData["client"] \in Nat /\ MaxData["server"] \in Nat
    BY SessionAssumption DEF Sides
  <2> QED BY <2>1 DEF Writes, EOF
<1>2. Payloads(q) \in Seq(Writes)
  <2>1. Len(q) \in Nat
    OBVIOUS
  <2> QED BY <2>1, PickedTypes DEF Payloads
<1>3. \A x \in Writes \cup {EOF} : Payloads(Append(q, x)) =
         IF x \in Writes THEN Append(Payloads(q), x) ELSE Payloads(q)
  BY PickedAppend DEF Payloads
<1>4. q # <<>> => Payloads(q) = IF Head(q) \in Writes
                                THEN <<Head(q)>> \o Payloads(Tail(q)) ELSE Payloads(Tail(q))
  BY PickedTail DEF Payloads
<1>5. q # <<>> => Head(q) \in Writes \cup {EOF}
  BY HeadTailProperties
<1> QED BY <1>1, <1>2, <1>3, <1>4, <1>5

\* All there is of what t has written on stream i.
Whole(t, i) ==
    received[Peer(t)][i] \o Payloads(read_queue[Peer(t)][i]) \o InFlight(t, i)

\* The first writes, in their order.
InOrder(w) == w = [k \in 1..Len(w) |-> k]

\* What a side wrote on a stream and has not been lost is there once, in order;
\* as long as the side is connected nothing is lost.
FlowInv ==
    \A t \in Sides, i \in StreamIds :
       /\ InOrder(Whole(t, i))
       /\ Len(Whole(t, i)) <= sent[t][i]
       /\ ~Broken(t) => Len(Whole(t, i)) = sent[t][i]

LEMMA WholeTypes ==
    ASSUME TypeOK, NEW t \in Sides, NEW i \in StreamIds
    PROVE  /\ received[t][i] \in Seq(Writes)
           /\ read_queue[t][i] \in Seq(Writes \cup {EOF})
           /\ Payloads(read_queue[t][i]) \in Seq(Writes)
           /\ InFlight(t, i) \in Seq(Writes)
           /\ Whole(t, i) \in Seq(Writes)
           /\ sent[t][i] \in Nat
<1>1. \A s \in Sides : /\ received[s][i] \in Seq(Writes)
                       /\ read_queue[s][i] \in Seq(Writes \cup {EOF})
  BY DEF TypeOK
<1>2. \A s \in Sides : Payloads(read_queue[s][i]) \in Seq(Writes)
  BY <1>1, PayloadsFacts
<1>3. InFlight(t, i) \in Seq(Writes)
  BY InFlightIs
<1>4. received[Peer(t)][i] \o Payloads(read_queue[Peer(t)][i]) \in Seq(Writes)
  BY <1>1, <1>2, PeerFacts, ConcatProperties
<1>5. Whole(t, i) \in Seq(Writes)
  BY <1>3, <1>4, ConcatProperties DEF Whole
<1>6. sent[t][i] \in Nat
  <2>1. MaxData["client"] \in Nat /\ MaxData["server"] \in Nat
    BY SessionAssumption DEF Sides
  <2>2. sent[t][i] \in Writes \cup {0}
    BY DEF TypeOK
  <2> QED BY <2>1, <2>2 DEF Writes
<1> QED BY <1>1, <1>2, <1>3, <1>5, <1>6

\* Markers are no payloads.
LEMMA MarkersOnly ==
    ASSUME TypeOK, NEW s \in Sides, NEW I \in SUBSET StreamIds, OnFin(s, I)
    PROVE  \A t \in Sides, i \in StreamIds :
              Payloads(read_queue'[t][i]) = Payloads(read_queue[t][i])
<1> SUFFICES ASSUME NEW t \in Sides, NEW i \in StreamIds
             PROVE  Payloads(read_queue'[t][i]) = Payloads(read_queue[t][i])
  OBVIOUS
<1>1. \/ read_queue'[t][i] = read_queue[t][i]
      \/ read_queue'[t][i] = Append(read_queue[t][i], EOF)
  BY OnFinFacts
<1> QED BY <1>1, WholeTypes, PayloadsFacts

LEMMA SendInFlight ==
    ASSUME TypeOK, NEW s \in Sides, NEW f \in Frames, Send(s, f), NEW t \in Sides, NEW i
    PROVE  InFlight(t, i)' = IF t = s /\ ~Broken(s) /\ f.flag = "DATA" /\ f.id = i
                             THEN Append(InFlight(t, i), f.payload) ELSE InFlight(t, i)
<1>1. CASE t = s /\ ~Broken(s)
  <2>1. wire'[t] = Append(wire[t], f)
    BY <1>1 DEF Send, TypeOK
  <2> QED BY <1>1, <2>1, InFlightAppend
<1>2. CASE ~ (t = s /\ ~Broken(s))
  <2>1. wire'[t] = wire[t]
    BY <1>2 DEF Send, TypeOK
  <2> QED BY <1>2, <2>1 DEF InFlight
<1> QED BY <1>1, <1>2

LEMMA TakeInFlight ==
    ASSUME TypeOK, NEW s \in Sides, wire[Peer(s)] # <<>>,
           wire'[Peer(s)] = Tail(wire[Peer(s)]),
           \/ wire'[s] = wire[s]
           \/ wire'[s] = Append(wire[s], [flag |-> "PONG"]),
           NEW i
    PROVE  /\ InFlight(s, i)' = InFlight(s, i)
           /\ InFlight(Peer(s), i) =
                 IF NextFrame(s).flag = "DATA" /\ NextFrame(s).id = i
                 THEN <<NextFrame(s).payload>> \o InFlight(Peer(s), i)'
                 ELSE InFlight(Peer(s), i)'
<1>1. CASE wire'[s] = wire[s]
  <2>1. InFlight(s, i)' = InFlight(s, i)
    BY <1>1 DEF InFlight
  <2> QED BY <2>1, PeerFacts, InFlightTail DEF NextFrame
<1>2. CASE wire'[s] = Append(wire[s], [flag |-> "PONG"])
  <2>1. [flag |-> "PONG"] \in Frames /\ [flag |-> "PONG"].flag # "DATA"
    BY FrameTypes
  <2>2. InFlight(s, i)' = InFlight(s, i)
    BY <1>2, <2>1, InFlightAppend
  <2> QED BY <2>2, PeerFacts, InFlightTail DEF NextFrame
<1> QED BY <1>1, <1>2

\* A payload that arrives finds its stream.
LEMMA DataArrives ==
    ASSUME TypeOK, WireInv, NEW s \in Sides, HandleData(s)
    PROVE  /\ NextFrame(s).id \in streams[s]
           /\ NextFrame(s).id \in StreamIds
           /\ NextFrame(s).payload \in Writes
<1> DEFINE i == NextFrame(s).id  p == Peer(s)
<1>1. NextFrame(s).flag = "DATA" /\ Takes(s) /\ ~finished[s] /\ NextFrame(s) \in Frames
  BY HandleTakes DEF HandleData, Receives
<1>2. i \in StreamIds /\ NextFrame(s).payload \in Writes
  BY <1>1, FrameFacts
<1>3. "DATA" \in StreamFlags
  BY DEF StreamFlags
<1>4. 1 \in On(p, "DATA", i)
  BY <1>1, <1>2, <1>3 DEF Takes
<1>5. p \in Sides /\ Peer(p) = s /\ Len(wire[p]) \in Nat
  BY PeerFacts DEF TypeOK
<1>6. i \in streams[s] \/ \E m \in On(p, "SYN", i) : m < 1
  BY <1>1, <1>2, <1>4, <1>5 DEF WireInv, DataKnown
<1>7. \A m \in On(p, "SYN", i) : ~ (m < 1)
  BY <1>5 DEF On
<1> QED BY <1>2, <1>6, <1>7

\* A step leaves what there is of a stream's payloads, only moves it on, adds
\* the payload it writes, or loses what is on the wire.
LEMMA WholeSteps ==
    ASSUME TypeOK, WireInv, [Next]_vars, NEW t \in Sides, NEW i \in StreamIds
    PROVE  \/ Whole(t, i)' = Whole(t, i) /\ sent'[t][i] = sent[t][i]
           \/ /\ sent'[t][i] = sent[t][i] + 1
              /\ IF Broken(t) THEN Whole(t, i)' = Whole(t, i)
                 ELSE Whole(t, i)' = Append(Whole(t, i), sent[t][i] + 1)
           \/ /\ ~connected' /\ sent'[t][i] = sent[t][i]
              /\ Whole(t, i)' = received[Peer(t)][i] \o Payloads(read_queue[Peer(t)][i])
<1> DEFINE p == Peer(t)  Same == Whole(t, i)' = Whole(t, i) /\ sent'[t][i] = sent[t][i]
<1>p. p \in Sides /\ p # t /\ Peer(p) = t
  BY PeerFacts
<1>k. ASSUME UNCHANGED <<received, sent>>,
             Payloads(read_queue'[p][i]) = Payloads(read_queue[p][i]),
             InFlight(t, i)' = InFlight(t, i)
      PROVE  Same
  BY <1>k DEF Whole
<1>1. ASSUME UNCHANGED <<received, sent, wire, read_queue>> PROVE Same
  BY <1>k, <1>1 DEF InFlight
<1>2. ASSUME NEW s \in Sides, NEW f \in Frames, Send(s, f), f.flag # "DATA",
             UNCHANGED <<received, sent, read_queue>>
      PROVE  Same
  BY <1>k, <1>2, SendInFlight
<1>3. ASSUME NEW s \in Sides, NEW I \in SUBSET StreamIds, OnFin(s, I),
             UNCHANGED <<received, sent>>, InFlight(t, i)' = InFlight(t, i)
      PROVE  Same
  BY <1>k, <1>3, <1>p, MarkersOnly
<1> HIDE DEF Same
<1>4. CASE UNCHANGED vars
  BY <1>1, <1>4 DEF vars, streamVars, history, Same
<1>5. CASE Lose
  <2>1. UNCHANGED <<received, read_queue, sent>> /\ connected' = FALSE
        /\ wire'[t] = <<>>
    BY <1>5 DEF Lose, streamVars, history
  <2>2. InFlight(t, i)' = <<>>
    <3>1. InFlight(t, i)' = Carried(Picked(<<>>, DataOf(i)))
      BY <2>1 DEF InFlight, Carried, DataOf
    <3>2. Carried(<<>>) = <<>>
      BY DEF Carried
    <3> QED BY <3>1, <3>2, PickedEmpty
  <2>3. received[p][i] \o Payloads(read_queue[p][i]) \in Seq(Writes)
    BY <1>p, WholeTypes, ConcatProperties
  <2>4. Whole(t, i)' = received[p][i] \o Payloads(read_queue[p][i])
    BY <2>1, <2>2, <2>3, ConcatEmptySeq DEF Whole
  <2> QED BY <2>1, <2>4
<1>6. ASSUME NEW s \in Sides,
             OpenFails(s) \/ AcceptStream(s) \/ EndOfInput(s) \/ CloseSession(s)
      PROVE  Same
  BY <1>1, <1>6 DEF OpenFails, AcceptStream, EndOfInput, CloseSession, streamVars, history
<1>7. ASSUME NEW s \in Sides, OpenStream(s) PROVE Same
  <2> DEFINE f == [flag |-> "SYN", id |-> next_stream_id[s]]
  <2>1. Send(s, f) /\ UNCHANGED <<received, sent, read_queue>>
    BY <1>7 DEF OpenStream, history
  <2>2. next_stream_id[s] \in StreamIds
    BY <1>7, IdFacts DEF OpenStream
  <2>3. f \in Frames /\ f.flag # "DATA"
    BY <2>2, FrameTypes
  <2> HIDE DEF f
  <2> QED BY <1>2, <2>1, <2>3
<1>8. ASSUME NEW s \in Sides, NEW j \in StreamIds, CloseStream(s, j) \/ SendRst(s, j)
      PROVE  Same
  <2>1. PICK flag \in {"FIN", "RST"} : Send(s, [flag |-> flag, id |-> j])
    BY <1>8 DEF CloseStream, SendRst
  <2>2. UNCHANGED <<received, sent, read_queue>>
    BY <1>8 DEF CloseStream, SendRst, history
  <2> DEFINE f == [flag |-> flag, id |-> j]
  <2>3. f \in Frames /\ f.flag # "DATA" /\ Send(s, f)
    BY <2>1, FrameTypes
  <2> HIDE DEF f
  <2> QED BY <1>2, <2>2, <2>3
<1>9. ASSUME NEW s \in Sides, NEW flag \in Foreign, SendForeign(s, flag) PROVE Same
  <2> DEFINE f == [flag |-> flag]
  <2>1. flag \in {"PING", "PONG", "GO_AWAY"}
    BY <1>9, SessionAssumption DEF SendForeign
  <2>2. f \in Frames /\ f.flag # "DATA"
    BY <2>1, FrameTypes
  <2>3. Send(s, f) /\ UNCHANGED <<received, sent, read_queue>>
    BY <1>9 DEF SendForeign, streamVars, history
  <2> HIDE DEF f
  <2> QED BY <1>2, <2>2, <2>3
<1>10. ASSUME NEW s \in Sides, NEW j \in StreamIds, BeginRead(s, j) PROVE Same
  BY <1>1, <1>10 DEF BeginRead
<1>11. ASSUME NEW s \in Sides, NEW j \in StreamIds, QueueMarker(s, j) PROVE Same
  <2>1. UNCHANGED <<received, sent, wire>>
        /\ read_queue' = [read_queue EXCEPT ![s][j] = Append(@, EOF)]
    BY <1>11 DEF QueueMarker, history
  <2>2. \/ read_queue'[p][i] = read_queue[p][i]
        \/ read_queue'[p][i] = Append(read_queue[p][i], EOF)
    BY <1>p, <2>1
  <2>3. Payloads(read_queue'[p][i]) = Payloads(read_queue[p][i])
    BY <1>p, <2>2, WholeTypes, PayloadsFacts
  <2>4. InFlight(t, i)' = InFlight(t, i)
    BY <2>1 DEF InFlight
  <2> QED BY <1>k, <2>1, <2>3, <2>4
<1>12. ASSUME NEW s \in Sides, FinishClose(s) PROVE Same
  <2>1. streams[s] \in SUBSET StreamIds
    BY DEF TypeOK
  <2>2. UNCHANGED <<received, sent>> /\ InFlight(t, i)' = InFlight(t, i)
        /\ OnFin(s, streams[s])
    BY <1>12 DEF FinishClose, history, InFlight
  <2> QED BY <1>3, <2>1, <2>2
<1>13. ASSUME NEW s \in Sides,
              HandleSyn(s) \/ HandleFin(s) \/ HandleRst(s) \/ HandlePing(s) \/ HandleGoAway(s)
       PROVE  Same
  <2>1. /\ wire[Peer(s)] # <<>>
        /\ wire'[Peer(s)] = Tail(wire[Peer(s)])
        /\ wire'[s] = wire[s] \/ wire'[s] = Append(wire[s], [flag |-> "PONG"])
    BY <1>13, HandleTakes
  <2>2. NextFrame(s).flag # "DATA"
    BY <1>13 DEF HandleSyn, HandleFin, HandleRst, HandlePing, HandleGoAway, Receives
  <2>3. InFlight(t, i)' = InFlight(t, i)
    <3>1. /\ InFlight(s, i)' = InFlight(s, i)
          /\ InFlight(Peer(s), i)' = InFlight(Peer(s), i)
      BY <2>1, <2>2, TakeInFlight
    <3>2. t = s \/ t = Peer(s)
      BY PeerFacts
    <3> QED BY <3>1, <3>2
  <2>4. UNCHANGED <<received, sent>>
    BY <1>13 DEF HandleSyn, HandleFin, HandleRst, HandlePing, HandleGoAway, history
  <2>5. CASE HandleFin(s) \/ HandleRst(s)
    <3> DEFINE I == {NextFrame(s).id} \cap streams[s]
    <3>1. OnFin(s, I) /\ I \in SUBSET StreamIds
      BY <2>5 DEF HandleFin, HandleRst, TypeOK
    <3> HIDE DEF I
    <3> QED BY <1>3, <2>3, <2>4, <3>1
  <2>6. CASE HandleSyn(s) \/ HandlePing(s) \/ HandleGoAway(s)
    <3>1. UNCHANGED read_queue
      BY <2>6 DEF HandleSyn, HandlePing, HandleGoAway, streamVars
    <3> QED BY <1>k, <2>3, <2>4, <3>1
  <2> QED BY <1>13, <2>5, <2>6
<1>14. ASSUME NEW s \in Sides, HandleData(s) PROVE Same
  <2> DEFINE j == NextFrame(s).id  x == NextFrame(s).payload
  <2>1. j \in streams[s] /\ j \in StreamIds /\ x \in Writes
    BY <1>14, DataArrives
  <2>2. /\ UNCHANGED <<received, sent>> /\ NextFrame(s).flag = "DATA"
        /\ read_queue' = [read_queue EXCEPT ![s][j] = Append(@, x)]
    BY <1>14, <2>1 DEF HandleData, history, Knows, Feed, Receives
  <2>3. /\ InFlight(s, i)' = InFlight(s, i)
        /\ InFlight(Peer(s), i) = IF j = i THEN <<x>> \o InFlight(Peer(s), i)'
                                           ELSE InFlight(Peer(s), i)'
    BY <1>14, <2>2, HandleTakes, TakeInFlight
  <2> HIDE DEF j, x
  <2>4. CASE p = s /\ i = j
    <3> DEFINE r == received[p][i]  q == Payloads(read_queue[p][i])
    <3>1. read_queue'[p][i] = Append(read_queue[p][i], x)
      <4>0. PICK nq : nq = Append(read_queue[s][j], x)
        OBVIOUS
      <4>1. read_queue' = Requeued(s, j, nq)
        BY <2>2, <4>0 DEF Requeued
      <4>2. read_queue'[s][j] = nq
        BY <2>1, <4>1, OneQueue
      <4> QED BY <2>4, <4>0, <4>2
    <3>2. Payloads(read_queue'[p][i]) = Append(q, x)
      BY <1>p, <2>1, <3>1, WholeTypes, PayloadsFacts
    <3>3. Peer(s) = t
      BY <1>p, <2>4
    <3>4. InFlight(t, i) = <<x>> \o InFlight(t, i)'
      BY <2>3, <2>4, <3>3
    <3>5. r \in Seq(Writes) /\ q \in Seq(Writes) /\ InFlight(t, i)' \in Seq(Writes)
      <4>1. TypeOK'
        BY NextTypes
      <4>2. InFlight(t, i)' = Carried(Picked(wire'[t], DataOf(i)))
        BY DEF InFlight, Carried, DataOf
      <4>3. Picked(wire'[t], DataOf(i)) \in Seq(DataOf(i))
        <5>1. Len(wire'[t]) \in Nat
          BY <4>1 DEF TypeOK
        <5> QED BY <5>1, PickedTypes
      <4>4. InFlight(t, i)' \in Seq(Writes)
        <5>1. \A f \in DataOf(i) : f.payload \in Writes
          BY DEF DataOf
        <5>2. x \in Writes
          BY <2>1
        <5>3. [flag |-> "DATA", id |-> i, payload |-> x] \in DataOf(i)
          BY <5>2 DEF DataOf
        <5> QED BY <4>2, <4>3, <5>3, CarriedFacts
      <4> QED BY <1>p, <4>4, WholeTypes
    <3>6. Whole(t, i) = (r \o q) \o (<<x>> \o InFlight(t, i)')
      BY <3>4 DEF Whole
    <3>7. Whole(t, i)' = (r \o Append(q, x)) \o InFlight(t, i)'
      BY <2>2, <3>2 DEF Whole
    <3> HIDE DEF r, q
    <3>8. r \o q \in Seq(Writes) /\ r \o Append(q, x) = Append(r \o q, x)
      BY <2>1, <3>5, SeqShift, ConcatProperties
    <3>9. Append(r \o q, x) \o InFlight(t, i)' = (r \o q) \o (<<x>> \o InFlight(t, i)')
      BY <2>1, <3>5, <3>8, SeqShift
    <3> QED BY <2>2, <3>6, <3>7, <3>8, <3>9 DEF Same
  <2>5. CASE ~ (p = s /\ i = j)
    <3>1. read_queue'[p][i] = read_queue[p][i]
      BY <1>p, <2>1, <2>2, <2>5
    <3>2. InFlight(t, i)' = InFlight(t, i)
      BY <1>p, <2>3, <2>5, PeerFacts
    <3> QED BY <1>k, <2>2, <3>1, <3>2
  <2> QED BY <2>4, <2>5
<1>15. ASSUME NEW s \in Sides, NEW j \in StreamIds, EndRead(s, j) PROVE Same
  <2> DEFINE q == read_queue[s][j]  x == Head(q)
  <2>1. q # <<>> /\ UNCHANGED <<sent, wire>>
        /\ read_queue' = [read_queue EXCEPT ![s][j] = Tail(q)]
    BY <1>15 DEF EndRead
  <2>2. \/ x = EOF /\ received' = received
        \/ x # EOF /\ received' = [received EXCEPT ![s][j] = Append(@, x)]
    BY <1>15 DEF EndRead
  <2>3. q \in Seq(Writes \cup {EOF})
    BY WholeTypes
  <2>4. read_queue'[s][j] = Tail(q)
        /\ \A u \in Sides, k \in StreamIds :
              u # s \/ k # j => read_queue'[u][k] = read_queue[u][k]
    <3>0. PICK nq : nq = Tail(q)
      OBVIOUS
    <3>1. read_queue' = Requeued(s, j, nq)
      BY <2>1, <3>0 DEF Requeued
    <3>2. /\ read_queue'[s][j] = nq
          /\ \A u \in Sides, k \in StreamIds :
                u # s \/ k # j => read_queue'[u][k] = read_queue[u][k]
      BY <3>1, OneQueue
    <3> QED BY <3>0, <3>2
  <2>5. InFlight(t, i)' = InFlight(t, i)
    BY <2>1 DEF InFlight
  <2>6. CASE ~ (p = s /\ i = j)
    <3>1. received'[p][i] = received[p][i]
      <4> HIDE DEF x
      <4>1. received \in [Sides -> [StreamIds -> Seq(Writes)]]
        BY DEF TypeOK
      <4>2. CASE received' = received
        BY <4>2
      <4>3. CASE received' = [received EXCEPT ![s][j] = Append(@, x)] /\ p # s
        BY <1>p, <4>1, <4>3
      <4>4. CASE received' = [received EXCEPT ![s][j] = Append(@, x)] /\ p = s /\ i # j
        BY <1>p, <4>1, <4>4
      <4> QED BY <2>2, <2>6, <4>2, <4>3, <4>4
    <3>2. read_queue'[p][i] = read_queue[p][i]
      BY <1>p, <2>4, <2>6
    <3> QED BY <2>1, <2>5, <3>1, <3>2 DEF Whole, Same
  <2>7. CASE p = s /\ i = j /\ x = EOF
    <3>1. Payloads(read_queue'[p][i]) = Payloads(read_queue[p][i])
      <4>1. Payloads(Tail(q)) = Payloads(q)
        <5>1. Head(q) = EOF
          BY <2>7
        <5> HIDE DEF q
        <5> QED BY <2>1, <2>3, <5>1, PayloadsFacts
      <4> QED BY <2>4, <2>7, <4>1
    <3> QED BY <1>k, <2>1, <2>2, <2>5, <2>7, <3>1
  <2>8. CASE p = s /\ i = j /\ x # EOF
    <3> DEFINE r == received[p][i]  rest == Payloads(Tail(q))
    <3>1. x \in Writes /\ Payloads(q) = <<x>> \o rest
      BY <2>1, <2>3, <2>8, PayloadsFacts
    <3>2. r \in Seq(Writes) /\ rest \in Seq(Writes)
      <4>1. Tail(q) \in Seq(Writes \cup {EOF})
        BY <2>1, <2>3, HeadTailProperties
      <4> QED BY <1>p, <4>1, WholeTypes, PayloadsFacts
    <3>3. received'[p][i] = Append(r, x)
      BY <1>p, <2>2, <2>8 DEF TypeOK
    <3>4. Append(r, x) \o rest = r \o (<<x>> \o rest)
      <4> HIDE DEF r, rest, x
      <4> QED BY <3>1, <3>2, SeqShift
    <3>5. Payloads(read_queue'[p][i]) = rest /\ Payloads(read_queue[p][i]) = <<x>> \o rest
      BY <2>4, <2>8, <3>1
    <3>6. Whole(t, i)' = Whole(t, i)
      BY <2>5, <3>3, <3>4, <3>5 DEF Whole
    <3> QED BY <2>1, <3>6 DEF Same
  <2> QED BY <2>6, <2>7, <2>8
<1>16. ASSUME NEW s \in Sides, NEW j \in StreamIds, Write(s, j)
       PROVE  Same \/ /\ sent'[t][i] = sent[t][i] + 1
                      /\ IF Broken(t) THEN Whole(t, i)' = Whole(t, i)
                         ELSE Whole(t, i)' = Append(Whole(t, i), sent[t][i] + 1)
  <2> DEFINE x == sent[s][j] + 1  f == [flag |-> "DATA", id |-> j, payload |-> x]
  <2>1. sent' = [sent EXCEPT ![s][j] = x] /\ Send(s, f)
        /\ UNCHANGED <<received, read_queue>>
    BY <1>16 DEF Write, streamVars
  <2>2. x \in Writes
    BY <1>16, WriteTypes
  <2>3. f \in Frames /\ f.flag = "DATA" /\ f.id = j /\ f.payload = x
    BY <2>2, FrameTypes
  <2> HIDE DEF f
  <2>4. InFlight(t, i)' = IF t = s /\ ~Broken(s) /\ j = i
                          THEN Append(InFlight(t, i), x) ELSE InFlight(t, i)
    BY <2>1, <2>3, SendInFlight
  <2>5. CASE t = s /\ i = j
    <3>1. sent'[t][i] = sent[t][i] + 1
      BY <2>1, <2>5 DEF TypeOK
    <3>2. CASE Broken(t)
      <4>1. Whole(t, i)' = Whole(t, i)
        BY <2>1, <2>4, <2>5, <3>2 DEF Whole
      <4> QED BY <3>1, <3>2, <4>1
    <3>3. CASE ~Broken(t)
      <4> DEFINE a == received[p][i] \o Payloads(read_queue[p][i])
      <4>1. a \in Seq(Writes) /\ InFlight(t, i) \in Seq(Writes)
        BY <1>p, WholeTypes, ConcatProperties
      <4>2. Whole(t, i) = a \o InFlight(t, i)
        BY DEF Whole
      <4>3. Whole(t, i)' = a \o Append(InFlight(t, i), x)
        BY <2>1, <2>4, <2>5, <3>3 DEF Whole
      <4> HIDE DEF a
      <4>4. Whole(t, i)' = Append(Whole(t, i), x)
        BY <2>2, <4>1, <4>2, <4>3, SeqShift
      <4> QED BY <2>5, <3>1, <3>3, <4>4
    <3> QED BY <3>2, <3>3
  <2>6. CASE ~ (t = s /\ i = j)
    <3>1. sent'[t][i] = sent[t][i]
      BY <2>1, <2>6 DEF TypeOK
    <3>2. InFlight(t, i)' = InFlight(t, i)
      BY <2>4, <2>6
    <3> QED BY <2>1, <3>1, <3>2 DEF Whole, Same
  <2> QED BY <2>5, <2>6
<1> QED BY <1>4, <1>5, <1>6, <1>7, <1>8, <1>9, <1>10, <1>11, <1>12, <1>13, <1>14,
           <1>15, <1>16 DEF Next, Handle, Same

LEMMA InOrderFacts ==
    ASSUME NEW w \in Seq(Writes), InOrder(w)
    PROVE  /\ \A x \in Writes : x = Len(w) + 1 => InOrder(Append(w, x))
           /\ \A a, b \in Seq(Writes) : w = a \o b => InOrder(a) /\ Len(a) <= Len(w)
<1> DEFINE n == Len(w)
<1>1. n \in Nat /\ w = [k \in 1..n |-> k]
  BY DEF InOrder
<1>2. ASSUME NEW x \in Writes, x = n + 1 PROVE InOrder(Append(w, x))
  <2> DEFINE r == Append(w, x)
  <2>1. /\ r = [k \in 1..(n + 1) |-> r[k]] /\ Len(r) = n + 1 /\ r[n + 1] = x
        /\ \A k \in 1..n : r[k] = w[k]
    <3>1. /\ r \in Seq(Writes) /\ Len(r) = n + 1 /\ r[n + 1] = x
          /\ \A k \in 1..n : r[k] = w[k]
      BY <1>2, AppendProperties
    <3>2. r = [k \in 1..Len(r) |-> r[k]]
      <4> HIDE DEF r
      <4> QED BY <3>1
    <3> QED BY <3>1, <3>2
  <2> HIDE DEF r
  <2>2. \A k \in 1..n : w[k] = k
    BY <1>1
  <2>3. \A k \in 1..(n + 1) : k \in 1..n \/ k = n + 1
    BY <1>1
  <2> HIDE DEF n
  <2>4. \A k \in 1..(n + 1) : r[k] = k
    BY <1>2, <2>1, <2>2, <2>3
  <2> QED BY <2>1, <2>4 DEF InOrder, r
<1>3. ASSUME NEW a \in Seq(Writes), NEW b \in Seq(Writes), w = a \o b
      PROVE  InOrder(a) /\ Len(a) <= Len(w)
  <2>1. /\ Len(w) = Len(a) + Len(b) /\ Len(a) \in Nat /\ Len(b) \in Nat
        /\ \A k \in 1..Len(a) : w[k] = a[k]
    BY <1>3, ConcatProperties
  <2>2. \A k \in 1..Len(a) : k \in 1..n
    BY <2>1
  <2>3. \A k \in 1..Len(a) : a[k] = k
    BY <1>1, <2>1, <2>2
  <2>4. a = [k \in 1..Len(a) |-> a[k]]
    OBVIOUS
  <2> QED BY <2>1, <2>3, <2>4 DEF InOrder
<1> QED BY <1>2, <1>3

LEMMA NextFlow == TypeOK /\ WireInv /\ FlowInv /\ [Next]_vars => FlowInv'
<1> SUFFICES ASSUME TypeOK, WireInv, FlowInv, [Next]_vars,
                    NEW t \in Sides, NEW i \in StreamIds
             PROVE  /\ InOrder(Whole(t, i)')
                    /\ Len(Whole(t, i)') <= sent'[t][i]
                    /\ ~Broken(t)' => Len(Whole(t, i)') = sent'[t][i]
  BY DEF FlowInv, InOrder
<1> DEFINE w == Whole(t, i)
<1>1. /\ w \in Seq(Writes) /\ InOrder(w) /\ Len(w) <= sent[t][i]
      /\ ~Broken(t) => Len(w) = sent[t][i]
      /\ sent[t][i] \in Nat
  BY WholeTypes DEF FlowInv
<1>2. Broken(t) => Broken(t)'
  BY NextForward DEF Forward
<1>3. Len(w) \in Nat
  BY <1>1
<1>4. CASE w' = w /\ sent'[t][i] = sent[t][i]
  BY <1>1, <1>2, <1>4
<1>5. CASE sent'[t][i] = sent[t][i] + 1 /\ Broken(t) /\ w' = w
  <2>1. Len(w) <= sent[t][i] + 1
    <3> HIDE DEF w
    <3> QED BY <1>1, <1>3
  <2> QED BY <1>1, <1>2, <1>5, <2>1
<1>6. CASE sent'[t][i] = sent[t][i] + 1 /\ ~Broken(t) /\ w' = Append(w, sent[t][i] + 1)
  <2> HIDE DEF w
  <2>1. Len(w) = sent[t][i]
    BY <1>1, <1>6
  <2>2. sent[t][i] + 1 \in Writes
    <3>1. TypeOK'
      BY NextTypes
    <3>2. sent'[t][i] \in Writes \cup {0}
      BY <3>1 DEF TypeOK
    <3> QED BY <1>1, <1>6, <3>2
  <2>3. InOrder(Append(w, sent[t][i] + 1))
    BY <1>1, <2>1, <2>2, InOrderFacts
  <2>4. Len(Append(w, sent[t][i] + 1)) = sent[t][i] + 1
    BY <1>1, <2>1, <2>2, AppendProperties
  <2> QED BY <1>1, <1>6, <2>3, <2>4 DEF w
<1>7. CASE /\ ~connected' /\ sent'[t][i] = sent[t][i]
           /\ w' = received[Peer(t)][i] \o Payloads(read_queue[Peer(t)][i])
  <2> DEFINE a == received[Peer(t)][i] \o Payloads(read_queue[Peer(t)][i])
  <2>1. a \in Seq(Writes) /\ InFlight(t, i) \in Seq(Writes)
    BY WholeTypes, PeerFacts, ConcatProperties
  <2>2. w = a \o InFlight(t, i)
    BY DEF Whole
  <2>3. InOrder(a) /\ Len(a) <= Len(w) /\ Len(a) \in Nat
    <3> DEFINE b == InFlight(t, i)
    <3>1. a \in Seq(Writes) /\ b \in Seq(Writes) /\ w = a \o b
          /\ w \in Seq(Writes) /\ InOrder(w)
      BY <1>1, <2>1, <2>2
    <3> HIDE DEF a, b, w
    <3>2. InOrder(a) /\ Len(a) <= Len(w)
      BY <3>1, InOrderFacts
    <3> QED BY <3>1, <3>2
  <2> HIDE DEF a, w
  <2>4. Broken(t)'
    BY <1>7 DEF Broken
  <2>5. Len(a) <= sent[t][i]
    BY <1>1, <1>3, <2>3
  <2> QED BY <1>7, <2>3, <2>4, <2>5 DEF a, w
<1> QED BY <1>4, <1>5, <1>6, <1>7, WholeSteps

LEMMA InitFlow == Init => FlowInv
<1> SUFFICES ASSUME Init, NEW t \in Sides, NEW i \in StreamIds
             PROVE  /\ Whole(t, i) = <<>> /\ sent[t][i] = 0
  <2>1. InOrder(<<>>) /\ Len(<<>>) = 0
    BY DEF InOrder
  <2> QED BY <2>1 DEF FlowInv
<1>1. /\ \A s \in Sides : received[s][i] = <<>> /\ read_queue[s][i] = <<>>
      /\ wire[t] = <<>> /\ sent[t][i] = 0
  BY DEF Init
<1>2. InFlight(t, i) = Carried(Picked(<<>>, DataOf(i)))
  BY <1>1 DEF InFlight, Carried, DataOf
<1>3. Carried(<<>>) = <<>> /\ Payloads(<<>>) = <<>> /\ <<>> \o <<>> = <<>>
  BY PickedEmpty DEF Carried, Payloads
<1>4. Whole(t, i) = <<>>
  BY <1>1, <1>2, <1>3, PeerFacts, PickedEmpty DEF Whole
<1> QED BY <1>1, <1>4

LEMMA AlwaysFlow == Spec => [](TypeOK /\ WireInv /\ FlowInv)
<1>1. Init => TypeOK /\ WireInv /\ FlowInv
  BY InitTypes, InitWire, InitFlow
<1>2. (TypeOK /\ WireInv /\ FlowInv) /\ [Next]_vars => (TypeOK /\ WireInv /\ FlowInv)'
  BY NextTypes, NextWire, NextFlow
<1> QED BY <1>1, <1>2, PTL DEF Spec

\* Whatever is opened, accepted, closed and reset in between: what one side
\* writes on a stream is read, queued or on the wire, once and in order, while
\* both sessions run and the connection holds.
THEOREM NothingIsLost == Spec => []NothingLost
<1>1. TypeOK /\ WireInv /\ FlowInv => NothingLost
  <2> SUFFICES ASSUME TypeOK, FlowInv, NEW s \in Sides, NEW i \in StreamIds, Intact(i)
               PROVE  Whole(s, i) = [k \in 1..sent[s][i] |-> k]
    BY DEF NothingLost, Whole
  <2>1. ~Broken(s)
    BY DEF Intact, Broken
  <2> QED BY <2>1 DEF FlowInv, InOrder
<1> QED BY <1>1, AlwaysFlow, PTL

\* Also when the session is closed or the connection breaks, what has been read
\* is a beginning of what was written, in order and without repetition.
THEOREM ReadsArePrefixes == Spec => []PrefixRead
<1>1. TypeOK /\ WireInv /\ FlowInv => PrefixRead
  <2> SUFFICES ASSUME TypeOK, FlowInv, NEW s \in Sides, NEW i \in StreamIds
               PROVE  InOrder(received[s][i])
    BY DEF PrefixRead, InOrder
  <2> DEFINE t == Peer(s)  r == received[s][i]  q == Payloads(read_queue[s][i])
             f == InFlight(t, i)
  <2>1. t \in Sides /\ Peer(t) = s
    BY PeerFacts
  <2>2. r \in Seq(Writes) /\ q \in Seq(Writes) /\ f \in Seq(Writes)
    BY <2>1, WholeTypes
  <2>3. Whole(t, i) = (r \o q) \o f /\ Whole(t, i) \in Seq(Writes) /\ InOrder(Whole(t, i))
    BY <2>1, WholeTypes DEF FlowInv, Whole
  <2> HIDE DEF r, q, f, t
  <2>4. q \o f \in Seq(Writes) /\ (r \o q) \o f = r \o (q \o f)
    BY <2>2, ConcatProperties, ConcatAssociative
  <2>5. InOrder(r)
    BY <2>2, <2>3, <2>4, InOrderFacts
  <2> QED BY <2>5 DEF r
<1> QED BY <1>1, AlwaysFlow, PTL

-------------------------------------------------------------------------------
(* The end of a stream *)

MarkersLast(q) == \A m, n \in 1..Len(q) : m < n /\ q[m] = EOF => q[n] = EOF
NoMarkers(q) == \A n \in 1..Len(q) : q[n] # EOF
OnlyMarkers(q) == \A n \in 1..Len(q) : q[n] = EOF

\* The peer of an ended stream has closed it, with all payloads before the FIN.
FinLast(s, i) ==
    /\ i \in remote_closed[s] => i \in closed[Peer(s)] /\ On(Peer(s), "DATA", i) = {}
    /\ \A n \in On(s, "FIN", i) :
          i \in closed[s] /\ \A m \in On(s, "DATA", i) : m < n

\* A reader that did not close its end finds a marker only after the FIN, and
\* after a marker no payload.
MarkersRight(s, i) ==
    i \notin closed[s] =>
       /\ MarkersLast(read_queue[s][i])
       /\ i \notin remote_closed[s] => NoMarkers(read_queue[s][i]) /\ i \notin ended[s]
       /\ i \in ended[s] => OnlyMarkers(read_queue[s][i])

EndInv ==
    /\ \A s \in Sides : marking[s] \subseteq closed[s]
    /\ \A s \in Sides, i \in StreamIds : Intact(i) => FinLast(s, i) /\ MarkersRight(s, i)

\* The steps that change the frames of streams on the wire.
LEMMA WireSteps ==
    ASSUME TypeOK, [Next]_vars
    PROVE  \/ wire' = wire
           \/ ~connected'
           \/ \E u \in Sides : \E f \in Frames :
                 /\ Send(u, f)
                 /\ f.flag = "DATA" => Write(u, f.id)
                 /\ f.flag = "FIN" => CloseStream(u, f.id)
           \/ \E u \in Sides : Takes(u)
<1> DEFINE Sends == \E u \in Sides : \E f \in Frames :
                       /\ Send(u, f)
                       /\ f.flag = "DATA" => Write(u, f.id)
                       /\ f.flag = "FIN" => CloseStream(u, f.id)
           Goal == wire' = wire \/ ~connected' \/ Sends \/ \E u \in Sides : Takes(u)
<1>1. UNCHANGED vars \/ Lose => wire' = wire \/ ~connected'
  BY DEF vars, Lose
<1>2. ASSUME NEW s \in Sides,
             OpenFails(s) \/ AcceptStream(s) \/ EndOfInput(s) \/ CloseSession(s)
             \/ FinishClose(s)
      PROVE  wire' = wire
  BY <1>2 DEF OpenFails, AcceptStream, EndOfInput, CloseSession, FinishClose
<1>3. ASSUME NEW s \in Sides, NEW i \in StreamIds,
             QueueMarker(s, i) \/ BeginRead(s, i) \/ EndRead(s, i)
      PROVE  wire' = wire
  BY <1>3 DEF QueueMarker, BeginRead, EndRead
<1>4. ASSUME NEW s \in Sides, OpenStream(s) PROVE Sends
  <2> DEFINE f == [flag |-> "SYN", id |-> next_stream_id[s]]
  <2>1. Send(s, f)
    BY <1>4 DEF OpenStream
  <2>2. next_stream_id[s] \in StreamIds
    BY <1>4, IdFacts DEF OpenStream
  <2>3. f \in Frames /\ f.flag = "SYN"
    BY <2>2, FrameTypes
  <2> HIDE DEF f
  <2> QED BY <2>1, <2>3
<1>5. ASSUME NEW s \in Sides, NEW i \in StreamIds, Write(s, i) PROVE Sends
  <2> DEFINE f == [flag |-> "DATA", id |-> i, payload |-> sent[s][i] + 1]
  <2>1. Send(s, f)
    BY <1>5 DEF Write
  <2>2. sent[s][i] + 1 \in Writes
    BY <1>5, WriteTypes
  <2>3. f \in Frames /\ f.flag = "DATA" /\ f.id = i
    BY <2>2, FrameTypes
  <2> HIDE DEF f
  <2> QED BY <1>5, <2>1, <2>3
<1>6. ASSUME NEW s \in Sides, NEW i \in StreamIds, CloseStream(s, i) PROVE Sends
  <2> DEFINE f == [flag |-> "FIN", id |-> i]
  <2>1. Send(s, f)
    BY <1>6 DEF CloseStream
  <2>2. f \in Frames /\ f.flag = "FIN" /\ f.id = i
    BY FrameTypes
  <2> HIDE DEF f
  <2> QED BY <1>6, <2>1, <2>2
<1>7. ASSUME NEW s \in Sides, NEW i \in StreamIds, SendRst(s, i) PROVE Sends
  <2> DEFINE f == [flag |-> "RST", id |-> i]
  <2>1. Send(s, f)
    BY <1>7 DEF SendRst
  <2>2. f \in Frames /\ f.flag = "RST"
    BY FrameTypes
  <2> HIDE DEF f
  <2> QED BY <2>1, <2>2
<1>8. ASSUME NEW s \in Sides, NEW flag \in Foreign, SendForeign(s, flag) PROVE Sends
  <2> DEFINE f == [flag |-> flag]
  <2>1. flag \in {"PING", "PONG", "GO_AWAY"}
    BY <1>8, SessionAssumption DEF SendForeign
  <2>2. f \in Frames /\ f.flag \notin {"DATA", "FIN"}
    BY <2>1, FrameTypes
  <2>3. Send(s, f)
    BY <1>8 DEF SendForeign
  <2> HIDE DEF f
  <2> QED BY <2>2, <2>3
<1>9. ASSUME NEW s \in Sides,
             \/ HandleSyn(s) \/ HandleData(s) \/ HandleFin(s) \/ HandleRst(s)
             \/ HandlePing(s) \/ HandleGoAway(s)
      PROVE  Takes(s)
  BY <1>9, HandleTakes
<1> HIDE DEF Sends
<1>10. Goal
  BY <1>1, <1>2, <1>3, <1>4, <1>5, <1>6, <1>7, <1>8, <1>9 DEF Next, Handle
<1> QED BY <1>10 DEF Goal, Sends

\* What ends a stream.
LEMMA EndSteps ==
    ASSUME TypeOK, [Next]_vars, NEW s \in Sides, NEW i \in StreamIds,
           i \in remote_closed'[s], i \notin remote_closed[s]
    PROVE  \/ HandleFin(s) /\ NextFrame(s).id = i
           \/ HandleRst(s) /\ NextFrame(s).id = i
           \/ FinishClose(s)
<1> DEFINE Same == UNCHANGED remote_closed
<1>1. UNCHANGED vars \/ Lose => Same
  BY DEF vars, streamVars, Lose
<1>2. ASSUME NEW u \in Sides,
             \/ OpenStream(u) \/ OpenFails(u) \/ AcceptStream(u) \/ HandleSyn(u)
             \/ HandleData(u) \/ HandlePing(u) \/ HandleGoAway(u) \/ EndOfInput(u)
             \/ CloseSession(u)
      PROVE  Same
  BY <1>2 DEF OpenStream, OpenFails, AcceptStream, HandleSyn, HandleData, HandlePing,
              HandleGoAway, EndOfInput, CloseSession, streamVars
<1>3. ASSUME NEW u \in Sides, NEW j \in StreamIds,
             \/ Write(u, j) \/ CloseStream(u, j) \/ QueueMarker(u, j) \/ SendRst(u, j)
             \/ BeginRead(u, j) \/ EndRead(u, j)
      PROVE  Same
  BY <1>3 DEF Write, CloseStream, QueueMarker, SendRst, BeginRead, EndRead, streamVars
<1>4. ASSUME NEW u \in Sides, NEW flag \in Foreign, SendForeign(u, flag) PROVE Same
  BY <1>4 DEF SendForeign, streamVars
<1>5. ASSUME NEW u \in Sides, NEW I \in SUBSET StreamIds, OnFin(u, I)
      PROVE  u = s /\ i \in I
  BY <1>5, OnFinFacts
<1>6. ASSUME NEW u \in Sides, HandleFin(u) \/ HandleRst(u)
      PROVE  u = s /\ NextFrame(s).id = i
  <2> DEFINE I == {NextFrame(u).id} \cap streams[u]
  <2>1. OnFin(u, I) /\ I \in SUBSET StreamIds
    BY <1>6 DEF HandleFin, HandleRst, TypeOK
  <2>2. u = s /\ i \in I
    <3> HIDE DEF I
    <3> QED BY <1>5, <2>1
  <2> QED BY <2>2
<1>7. ASSUME NEW u \in Sides, FinishClose(u) PROVE u = s
  <2>1. OnFin(u, streams[u]) /\ streams[u] \in SUBSET StreamIds
    BY <1>7 DEF FinishClose, TypeOK
  <2> QED BY <1>5, <2>1
<1>8. ~Same
  OBVIOUS
<1> HIDE DEF Same
<1> QED BY <1>1, <1>2, <1>3, <1>4, <1>6, <1>7, <1>8 DEF Next, Handle

LEMMA IntactBack ==
    ASSUME TypeOK, [Next]_vars, NEW i, Intact(i)'
    PROVE  /\ Intact(i) /\ i \notin reset' /\ connected'
           /\ \A s \in Sides : ~Broken(s) /\ running[s] /\ running'[s] /\ ~Broken(s)'
<1>1. Forward
  BY NextForward
<1>2. connected' /\ i \notin reset' /\ \A s \in Sides : running'[s]
  BY DEF Intact
<1>3. \A s \in Sides : ~Broken(s)'
  BY <1>2 DEF Broken
<1>4. \A s \in Sides : ~Broken(s)
  BY <1>1, <1>3 DEF Forward
<1>5. \A s \in Sides : running[s] /\ connected
  BY <1>4 DEF Broken
<1>6. connected
  BY <1>5 DEF Sides
<1> QED BY <1>1, <1>2, <1>3, <1>4, <1>5, <1>6 DEF Forward, Intact

LEMMA NextFin ==
    ASSUME TypeOK, WireInv, EndInv, [Next]_vars, NEW s \in Sides, NEW i \in StreamIds,
           Intact(i)'
    PROVE  FinLast(s, i)'
<1> DEFINE p == Peer(s)
<1>p. p \in Sides /\ p # s /\ Peer(p) = s /\ \A u \in Sides : u = s \/ u = p
  BY PeerFacts
<1>i. Intact(i) /\ i \notin reset' /\ connected' /\ running[s] /\ running'[s]
  BY IntactBack
<1>e. FinLast(s, i)
  BY <1>i DEF EndInv
<1>a. FinLast(p, i)
  BY <1>i, <1>p DEF EndInv
<1>f. "FIN" \in StreamFlags /\ "DATA" \in StreamFlags /\ "RST" \in StreamFlags
  BY DEF StreamFlags
<1>c. closed[s] \subseteq closed'[s] /\ closed[p] \subseteq closed'[p] /\ reset \subseteq reset'
  BY NextForward, <1>p DEF Forward
<1>n. \A t \in Sides : \A flag, j : \A n \in On(t, flag, j) :
         n \in Nat /\ n >= 1 /\ n <= Len(wire[t]) /\ Len(wire[t]) \in Nat
  <2> SUFFICES ASSUME NEW t \in Sides, NEW flag, NEW j, NEW n \in On(t, flag, j)
               PROVE  n \in Nat /\ n >= 1 /\ n <= Len(wire[t]) /\ Len(wire[t]) \in Nat
    OBVIOUS
  <2>1. Len(wire[t]) \in Nat
    BY DEF TypeOK
  <2> QED BY <2>1 DEF On
<1>s. ASSUME NEW u \in Sides, NEW f \in Frames, Send(u, f), NEW t \in Sides,
             NEW flag
      PROVE  /\ On(t, flag, i) \subseteq On(t, flag, i)'
             /\ \A n \in On(t, flag, i)' \ On(t, flag, i) :
                   t = u /\ n = Len(wire[u]) + 1 /\ f.flag = flag /\ f.id = i
  BY <1>s, SendOn
<1>t. ASSUME NEW u \in Sides, Takes(u), NEW flag \in StreamFlags
      PROVE  /\ On(u, flag, i)' = On(u, flag, i)
             /\ On(Peer(u), flag, i)' = {n - 1 : n \in On(Peer(u), flag, i) \ {1}}
             /\ 1 \in On(Peer(u), flag, i)
                   <=> NextFrame(u).flag = flag /\ NextFrame(u).id = i
  BY <1>t DEF Takes
<1> HIDE DEF p
<1>w. ASSUME NEW u \in Sides, Write(u, i) PROVE i \notin closed[u]
  BY <1>w DEF Write, MayWrite
<1>1. ASSUME i \in remote_closed'[s]
      PROVE  i \in closed'[p] /\ On(p, "DATA", i)' = {}
  <2>1. CASE i \in remote_closed[s]
    <3>1. i \in closed[p] /\ On(p, "DATA", i) = {}
      BY <1>e, <2>1 DEF FinLast, p
    <3>2. CASE wire' = wire
      BY <1>c, <3>1, <3>2 DEF On
    <3>3. ASSUME NEW u \in Sides, NEW f \in Frames, Send(u, f),
                 f.flag = "DATA" => Write(u, f.id)
          PROVE  On(p, "DATA", i)' = {}
      <4>1. \A n \in On(p, "DATA", i)' : p = u /\ f.flag = "DATA" /\ f.id = i
        BY <1>s, <1>p, <3>1, <3>3
      <4> QED BY <1>w, <3>1, <3>3, <4>1
    <3>4. ASSUME NEW u \in Sides, Takes(u) PROVE On(p, "DATA", i)' = {}
      <4>1. CASE u = p
        BY <1>t, <1>f, <3>1, <3>4, <4>1
      <4>2. CASE u = s
        BY <1>t, <1>f, <3>1, <3>4, <4>2 DEF p
      <4> QED BY <1>p, <4>1, <4>2
    <3> QED BY <1>c, <1>i, <3>1, <3>2, <3>3, <3>4, WireSteps
  <2>2. CASE i \notin remote_closed[s]
    <3>1. ~ (HandleRst(s) /\ NextFrame(s).id = i)
      <4> SUFFICES ASSUME HandleRst(s), NextFrame(s).id = i PROVE FALSE
        OBVIOUS
      <4>1. Takes(s) /\ NextFrame(s).flag = "RST"
        BY HandleTakes DEF HandleRst, Receives
      <4>2. 1 \in On(p, "RST", i)
        BY <1>t, <1>f, <4>1 DEF p
      <4>3. i \in reset
        BY <1>p, <4>2 DEF WireInv, RstCloses
      <4> QED BY <1>c, <1>i, <4>3
    <3>2. ~FinishClose(s)
      BY <1>i DEF FinishClose
    <3>3. HandleFin(s) /\ NextFrame(s).id = i
      BY <1>1, <2>2, <3>1, <3>2, EndSteps
    <3>4. Takes(s) /\ NextFrame(s).flag = "FIN"
      BY <3>3, HandleTakes DEF HandleFin, Receives
    <3>5. 1 \in On(p, "FIN", i)
      BY <1>t, <1>f, <3>3, <3>4 DEF p
    <3>6. i \in closed[p] /\ \A m \in On(p, "DATA", i) : m < 1
      BY <1>a, <3>5 DEF FinLast
    <3>7. On(p, "DATA", i) = {}
      BY <1>n, <1>p, <3>6
    <3>8. On(p, "DATA", i)' = {}
      BY <1>t, <1>f, <3>4, <3>7 DEF p
    <3> QED BY <1>c, <3>6, <3>8
  <2> QED BY <2>1, <2>2
<1>2. ASSUME NEW n \in On(s, "FIN", i)'
      PROVE  i \in closed'[s] /\ \A m \in On(s, "DATA", i)' : m < n
  <2>1. CASE wire' = wire
    <3>1. n \in On(s, "FIN", i) /\ On(s, "DATA", i)' = On(s, "DATA", i)
      BY <2>1 DEF On
    <3> QED BY <1>c, <1>e, <3>1 DEF FinLast
  <2>2. ASSUME NEW u \in Sides, NEW f \in Frames, Send(u, f),
               f.flag = "DATA" => Write(u, f.id),
               f.flag = "FIN" => CloseStream(u, f.id)
        PROVE  i \in closed'[s] /\ \A m \in On(s, "DATA", i)' : m < n
    <3>1. CASE n \in On(s, "FIN", i)
      <4>1. i \in closed[s] /\ \A m \in On(s, "DATA", i) : m < n
        BY <1>e, <3>1 DEF FinLast
      <4>2. \A m \in On(s, "DATA", i)' : m \in On(s, "DATA", i)
        BY <1>s, <1>w, <2>2, <4>1
      <4> QED BY <1>c, <4>1, <4>2
    <3>2. CASE n \notin On(s, "FIN", i)
      <4>1. s = u /\ n = Len(wire[s]) + 1 /\ f.flag = "FIN" /\ f.id = i
        BY <1>s, <2>2, <3>2
      <4>2. closed' = Add(closed, s, i) /\ closed \in [Sides -> SUBSET StreamIds]
        BY <2>2, <4>1 DEF CloseStream, TypeOK
      <4>3. i \in closed'[s]
        BY <4>2, AddFacts
      <4>4. \A m \in On(s, "DATA", i)' : m \in On(s, "DATA", i)
        BY <1>s, <2>2, <4>1
      <4> QED BY <1>n, <4>1, <4>3, <4>4
    <3> QED BY <3>1, <3>2
  <2>3. ASSUME NEW u \in Sides, Takes(u)
        PROVE  i \in closed'[s] /\ \A m \in On(s, "DATA", i)' : m < n
    <3>1. CASE u = s
      <4>1. n \in On(s, "FIN", i) /\ On(s, "DATA", i)' = On(s, "DATA", i)
        BY <1>t, <1>f, <2>3, <3>1
      <4> QED BY <1>c, <1>e, <4>1 DEF FinLast
    <3>2. CASE u = p
      <4>1. PICK k \in On(s, "FIN", i) : n = k - 1
        BY <1>t, <1>f, <1>p, <2>3, <3>2
      <4>2. i \in closed[s] /\ \A m \in On(s, "DATA", i) : m < k
        BY <1>e, <4>1 DEF FinLast
      <4>3. ASSUME NEW m \in On(s, "DATA", i)' PROVE m < n
        <5>1. PICK j \in On(s, "DATA", i) : m = j - 1
          BY <1>t, <1>f, <1>p, <2>3, <3>2
        <5>2. j \in Nat /\ k \in Nat /\ j < k
          BY <1>n, <4>1, <4>2, <5>1
        <5> QED BY <4>1, <5>1, <5>2
      <4> QED BY <1>c, <4>2, <4>3
    <3> QED BY <1>p, <3>1, <3>2
  <2> QED BY <1>i, <2>1, <2>2, <2>3, WireSteps
<1> QED BY <1>1, <1>2 DEF FinLast, p

LEMMA EofIsNoPayload == EOF \notin Writes
<1>1. MaxData["client"] \in Nat /\ MaxData["server"] \in Nat
  BY SessionAssumption DEF Sides
<1> QED BY <1>1 DEF Writes, EOF

LEMMA MarkerFacts ==
    ASSUME NEW q \in Seq(Writes \cup {EOF})
    PROVE  /\ NoMarkers(q) => MarkersLast(q)
           /\ MarkersLast(q) => MarkersLast(Append(q, EOF))
           /\ OnlyMarkers(q) => OnlyMarkers(Append(q, EOF))
           /\ \A x \in Writes : NoMarkers(q) => NoMarkers(Append(q, x))
           /\ q # <<>> /\ MarkersLast(q) => MarkersLast(Tail(q))
           /\ q # <<>> /\ NoMarkers(q) => NoMarkers(Tail(q)) /\ Head(q) # EOF
           /\ q # <<>> /\ OnlyMarkers(q) => OnlyMarkers(Tail(q))
           /\ q # <<>> /\ MarkersLast(q) /\ Head(q) = EOF => OnlyMarkers(Tail(q))
           /\ q = <<>> => OnlyMarkers(q)
<1> DEFINE n == Len(q)
<1>1. n \in Nat
  OBVIOUS
<1>2. \A x \in Writes \cup {EOF} :
         /\ Len(Append(q, x)) = n + 1 /\ Append(q, x)[n + 1] = x
         /\ \A k \in 1..n : Append(q, x)[k] = q[k]
  BY AppendProperties
<1>3. q # <<>> => /\ n >= 1 /\ Head(q) = q[1] /\ Len(Tail(q)) = n - 1
                  /\ \A k \in 1..(n - 1) : Tail(q)[k] = q[k + 1]
  BY HeadTailProperties
<1>4. q = <<>> => n = 0
  OBVIOUS
<1>5. MarkersLast(q) = \A l, k \in 1..n : l < k /\ q[l] = EOF => q[k] = EOF
  BY DEF MarkersLast
<1>6. NoMarkers(q) = \A k \in 1..n : q[k] # EOF
  BY DEF NoMarkers
<1>7. OnlyMarkers(q) = \A k \in 1..n : q[k] = EOF
  BY DEF OnlyMarkers
<1> HIDE DEF n
<1>8. NoMarkers(q) => MarkersLast(q)
  BY <1>5, <1>6
<1>9. MarkersLast(q) => MarkersLast(Append(q, EOF))
  <2> SUFFICES ASSUME MarkersLast(q), NEW l \in 1..(n + 1), NEW k \in 1..(n + 1), l < k,
                      Append(q, EOF)[l] = EOF
               PROVE  Append(q, EOF)[k] = EOF
    BY <1>2 DEF MarkersLast
  <2>1. l \in 1..n
    BY <1>1
  <2>2. k = n + 1 \/ k \in 1..n
    BY <1>1
  <2> QED BY <1>2, <1>5, <2>1, <2>2
<1>10. OnlyMarkers(q) => OnlyMarkers(Append(q, EOF))
  <2>1. \A k \in 1..(n + 1) : k = n + 1 \/ k \in 1..n
    BY <1>1
  <2> QED BY <1>2, <1>7, <2>1 DEF OnlyMarkers
<1>11. ASSUME NEW x \in Writes, NoMarkers(q) PROVE NoMarkers(Append(q, x))
  <2>1. \A k \in 1..(n + 1) : k = n + 1 \/ k \in 1..n
    BY <1>1
  <2> QED BY <1>2, <1>6, <1>11, <2>1, EofIsNoPayload DEF NoMarkers
<1>12. ASSUME q # <<>>
       PROVE  /\ MarkersLast(q) => MarkersLast(Tail(q))
              /\ NoMarkers(q) => NoMarkers(Tail(q)) /\ Head(q) # EOF
              /\ OnlyMarkers(q) => OnlyMarkers(Tail(q))
              /\ MarkersLast(q) /\ Head(q) = EOF => OnlyMarkers(Tail(q))
  <2>1. \A k \in 1..(n - 1) : k + 1 \in 1..n /\ 1 < k + 1
    BY <1>1
  <2>2. 1 \in 1..n /\ \A l, k \in 1..(n - 1) : l < k => l + 1 < k + 1
    BY <1>1, <1>3, <1>12
  <2>3. MarkersLast(q) => MarkersLast(Tail(q))
    BY <1>3, <1>5, <1>12, <2>1, <2>2 DEF MarkersLast
  <2>4. NoMarkers(q) => NoMarkers(Tail(q)) /\ Head(q) # EOF
    BY <1>3, <1>6, <1>12, <2>1, <2>2 DEF NoMarkers
  <2>5. OnlyMarkers(q) => OnlyMarkers(Tail(q))
    BY <1>3, <1>7, <1>12, <2>1 DEF OnlyMarkers
  <2>6. MarkersLast(q) /\ Head(q) = EOF => OnlyMarkers(Tail(q))
    BY <1>3, <1>5, <1>12, <2>1, <2>2 DEF OnlyMarkers
  <2> QED BY <2>3, <2>4, <2>5, <2>6
<1>13. q = <<>> => OnlyMarkers(q)
  BY <1>4, <1>7
<1> QED BY <1>8, <1>9, <1>10, <1>11, <1>12, <1>13

\* What a step does to the queue of a stream and to its end.
LEMMA QueueSteps ==
    ASSUME TypeOK, WireInv, [Next]_vars, NEW s \in Sides, NEW i \in StreamIds
    PROVE  \/ /\ read_queue'[s][i] = read_queue[s][i]
              /\ i \in remote_closed'[s] <=> i \in remote_closed[s]
              /\ i \in ended'[s] <=> i \in ended[s]
           \/ /\ i \in remote_closed'[s] /\ read_queue'[s][i] = Append(read_queue[s][i], EOF)
              /\ i \in ended'[s] <=> i \in ended[s]
           \/ i \in marking[s]
           \/ /\ HandleData(s) /\ NextFrame(s).id = i /\ NextFrame(s).payload \in Writes
              /\ read_queue'[s][i] = Append(read_queue[s][i], NextFrame(s).payload)
              /\ UNCHANGED <<remote_closed, ended>>
           \/ AtEnd(s, i) /\ UNCHANGED <<remote_closed, read_queue>>
           \/ /\ read_queue[s][i] # <<>> /\ read_queue'[s][i] = Tail(read_queue[s][i])
              /\ UNCHANGED remote_closed
              /\ \/ i \in ended'[s] <=> i \in ended[s]
                 \/ Head(read_queue[s][i]) = EOF
<1> DEFINE Same == /\ read_queue'[s][i] = read_queue[s][i]
                   /\ i \in remote_closed'[s] <=> i \in remote_closed[s]
                   /\ i \in ended'[s] <=> i \in ended[s]
           Ends == /\ i \in remote_closed'[s]
                   /\ read_queue'[s][i] = Append(read_queue[s][i], EOF)
                   /\ i \in ended'[s] <=> i \in ended[s]
           Feeds == /\ HandleData(s) /\ NextFrame(s).id = i
                    /\ NextFrame(s).payload \in Writes
                    /\ read_queue'[s][i] = Append(read_queue[s][i], NextFrame(s).payload)
                    /\ UNCHANGED <<remote_closed, ended>>
           Stops == AtEnd(s, i) /\ UNCHANGED <<remote_closed, read_queue>>
           Reads == /\ read_queue[s][i] # <<>>
                    /\ read_queue'[s][i] = Tail(read_queue[s][i])
                    /\ UNCHANGED remote_closed
                    /\ \/ i \in ended'[s] <=> i \in ended[s]
                       \/ Head(read_queue[s][i]) = EOF
           All == UNCHANGED <<read_queue, remote_closed, ended>>
<1>0. All => Same
  OBVIOUS
<1>1. UNCHANGED vars \/ Lose => All
  BY DEF vars, streamVars, history, Lose
<1>2. ASSUME NEW u \in Sides,
             \/ OpenStream(u) \/ OpenFails(u) \/ AcceptStream(u) \/ HandleSyn(u)
             \/ HandlePing(u) \/ HandleGoAway(u) \/ EndOfInput(u) \/ CloseSession(u)
      PROVE  All
  BY <1>2 DEF OpenStream, OpenFails, AcceptStream, HandleSyn, HandlePing,
              HandleGoAway, EndOfInput, CloseSession, streamVars, history
<1>3. ASSUME NEW u \in Sides, NEW j \in StreamIds,
             Write(u, j) \/ CloseStream(u, j) \/ SendRst(u, j)
      PROVE  All
  BY <1>3 DEF Write, CloseStream, SendRst, streamVars, history
<1>4. ASSUME NEW u \in Sides, NEW flag \in Foreign, SendForeign(u, flag) PROVE All
  BY <1>4 DEF SendForeign, streamVars, history
<1>5. ASSUME NEW u \in Sides, NEW I \in SUBSET StreamIds, OnFin(u, I), UNCHANGED ended
      PROVE  Same \/ Ends
  <2>1. CASE u = s /\ i \in I
    BY <1>5, <2>1, OnFinFacts
  <2>2. CASE u # s \/ i \notin I
    BY <1>5, <2>2, OnFinFacts
  <2> QED BY <2>1, <2>2
<1>6. ASSUME NEW u \in Sides, HandleFin(u) \/ HandleRst(u) \/ FinishClose(u)
      PROVE  Same \/ Ends
  <2> DEFINE I == {NextFrame(u).id} \cap streams[u]
  <2>1. I \in SUBSET StreamIds /\ streams[u] \in SUBSET StreamIds
    BY DEF TypeOK
  <2>2. UNCHANGED ended /\ (OnFin(u, I) \/ OnFin(u, streams[u]))
    BY <1>6 DEF HandleFin, HandleRst, FinishClose, history
  <2> HIDE DEF I, Same, Ends
  <2> QED BY <1>5, <2>1, <2>2
<1>7. ASSUME NEW u \in Sides, NEW j \in StreamIds, QueueMarker(u, j)
      PROVE  Same \/ i \in marking[s]
  <2>1. PICK nq : nq = Append(read_queue[u][j], EOF)
    OBVIOUS
  <2>2. read_queue' = Requeued(u, j, nq) /\ j \in marking[u]
        /\ UNCHANGED <<remote_closed, ended>>
    BY <1>7, <2>1 DEF QueueMarker, Requeued, history
  <2>3. s # u \/ i # j => read_queue'[s][i] = read_queue[s][i]
    BY <2>2, OneQueue
  <2> QED BY <2>2, <2>3
<1>8. ASSUME NEW u \in Sides, NEW j \in StreamIds, BeginRead(u, j)
      PROVE  Same \/ Stops
  <2>1. UNCHANGED <<read_queue, remote_closed>>
    BY <1>8 DEF BeginRead
  <2>2. UNCHANGED ended \/ (AtEnd(u, j) /\ ended' = Add(ended, u, j))
    BY <1>8 DEF BeginRead
  <2>3. ended \in [Sides -> SUBSET StreamIds]
    BY DEF TypeOK
  <2>4. ended' = Add(ended, u, j) /\ (s # u \/ i # j) => (i \in ended'[s] <=> i \in ended[s])
    BY <2>3, AddFacts
  <2> QED BY <2>1, <2>2, <2>4
<1>9. ASSUME NEW u \in Sides, NEW j \in StreamIds, EndRead(u, j)
      PROVE  Same \/ Reads
  <2>1. PICK nq : nq = Tail(read_queue[u][j])
    OBVIOUS
  <2>2. read_queue' = Requeued(u, j, nq) /\ read_queue[u][j] # <<>>
        /\ UNCHANGED remote_closed
    BY <1>9, <2>1 DEF EndRead, Requeued
  <2>3. /\ read_queue'[u][j] = nq
        /\ s # u \/ i # j => read_queue'[s][i] = read_queue[s][i]
    BY <2>2, OneQueue
  <2>4. \/ UNCHANGED ended
        \/ Head(read_queue[u][j]) = EOF /\ ended' = Add(ended, u, j)
    BY <1>9 DEF EndRead
  <2>5. ended \in [Sides -> SUBSET StreamIds]
    BY DEF TypeOK
  <2>6. ended' = Add(ended, u, j) /\ (s # u \/ i # j) => (i \in ended'[s] <=> i \in ended[s])
    BY <2>5, AddFacts
  <2>7. CASE s # u \/ i # j
    BY <2>2, <2>3, <2>4, <2>6, <2>7
  <2>8. CASE s = u /\ i = j
    BY <2>1, <2>2, <2>3, <2>4, <2>8
  <2> QED BY <2>7, <2>8
<1>10. ASSUME NEW u \in Sides, HandleData(u) PROVE Same \/ Feeds
  <2>1. NextFrame(u).id \in StreamIds /\ NextFrame(u).payload \in Writes
        /\ NextFrame(u).id \in streams[u]
    BY <1>10, DataArrives
  <2>2. PICK nq : nq = Append(read_queue[u][NextFrame(u).id], NextFrame(u).payload)
    OBVIOUS
  <2>3. read_queue' = Requeued(u, NextFrame(u).id, nq) /\ UNCHANGED <<remote_closed, ended>>
    BY <1>10, <2>1, <2>2 DEF HandleData, Knows, Feed, Requeued, history
  <2>4. /\ read_queue'[u][NextFrame(u).id] = nq
        /\ s # u \/ i # NextFrame(u).id => read_queue'[s][i] = read_queue[s][i]
    BY <2>1, <2>3, OneQueue
  <2>5. CASE s # u \/ i # NextFrame(u).id
    BY <2>3, <2>4, <2>5
  <2>6. CASE s = u /\ i = NextFrame(u).id
    BY <1>10, <2>1, <2>2, <2>3, <2>4, <2>6
  <2> QED BY <2>5, <2>6
<1> HIDE DEF Same, Ends, Feeds, Stops, Reads, All
<1>11. Same \/ Ends \/ Feeds \/ Stops \/ Reads \/ i \in marking[s]
  BY <1>0, <1>1, <1>2, <1>3, <1>4, <1>6, <1>7, <1>8, <1>9, <1>10, Zenon DEF Next, Handle
<1> QED BY <1>11 DEF Same, Ends, Feeds, Stops, Reads

LEMMA NextMarkers ==
    ASSUME TypeOK, WireInv, EndInv, [Next]_vars, NEW s \in Sides, NEW i \in StreamIds,
           Intact(i)'
    PROVE  MarkersRight(s, i)'
<1> DEFINE q == read_queue[s][i]  r == read_queue'[s][i]
<1>i. Intact(i)
  BY IntactBack
<1>e. FinLast(s, i) /\ MarkersRight(s, i) /\ marking[s] \subseteq closed[s]
  BY <1>i DEF EndInv
<1>c. closed[s] \subseteq closed'[s]
  BY NextForward DEF Forward
<1>q. q \in Seq(Writes \cup {EOF})
  BY DEF TypeOK
<1>0. SUFFICES ASSUME i \notin closed'[s]
               PROVE  /\ MarkersLast(r)
                      /\ i \notin remote_closed'[s] => NoMarkers(r) /\ i \notin ended'[s]
                      /\ i \in ended'[s] => OnlyMarkers(r)
  BY DEF MarkersRight
<1>1. i \notin closed[s] /\ i \notin marking[s]
  BY <1>0, <1>c, <1>e
<1>2. /\ MarkersLast(q)
      /\ i \notin remote_closed[s] => NoMarkers(q) /\ i \notin ended[s]
      /\ i \in ended[s] => OnlyMarkers(q)
  BY <1>1, <1>e DEF MarkersRight
<1>3. ASSUME r = q, i \in remote_closed'[s] <=> i \in remote_closed[s],
             i \in ended'[s] <=> i \in ended[s]
      PROVE  /\ MarkersLast(r)
             /\ i \notin remote_closed'[s] => NoMarkers(r) /\ i \notin ended'[s]
             /\ i \in ended'[s] => OnlyMarkers(r)
  BY <1>2, <1>3
<1>4. ASSUME i \in remote_closed'[s], r = Append(q, EOF), i \in ended'[s] <=> i \in ended[s]
      PROVE  /\ MarkersLast(r)
             /\ i \in ended'[s] => OnlyMarkers(r)
  BY <1>2, <1>4, <1>q, MarkerFacts
<1>5. ASSUME HandleData(s), NextFrame(s).id = i, NextFrame(s).payload \in Writes,
             r = Append(q, NextFrame(s).payload), UNCHANGED <<remote_closed, ended>>
      PROVE  /\ MarkersLast(r) /\ NoMarkers(r) /\ i \notin ended'[s]
  <2>1. Takes(s) /\ NextFrame(s).flag = "DATA"
    BY <1>5, HandleTakes DEF HandleData, Receives
  <2>2. 1 \in On(Peer(s), "DATA", i)
    BY <1>5, <2>1 DEF Takes, StreamFlags
  <2>3. i \notin remote_closed[s]
    BY <1>e, <2>2 DEF FinLast
  <2>4. NoMarkers(q) /\ i \notin ended[s]
    BY <1>2, <2>3
  <2>5. NoMarkers(r)
    BY <1>5, <1>q, <2>4, MarkerFacts
  <2>6. r \in Seq(Writes \cup {EOF})
    BY <1>5, <1>q, AppendProperties
  <2>7. MarkersLast(r)
    <3> HIDE DEF r
    <3> QED BY <2>5, <2>6, MarkerFacts
  <2> QED BY <1>5, <2>4, <2>5, <2>7
<1>6. ASSUME AtEnd(s, i), UNCHANGED <<remote_closed, read_queue>>
      PROVE  /\ MarkersLast(r) /\ i \in remote_closed'[s] /\ OnlyMarkers(r)
  <2>1. q = <<>> /\ r = q /\ i \in remote_closed'[s]
    BY <1>6 DEF AtEnd
  <2>2. OnlyMarkers(q)
    BY <1>q, <2>1, MarkerFacts
  <2> QED BY <1>2, <2>1, <2>2
<1>7. ASSUME q # <<>>, r = Tail(q), UNCHANGED remote_closed,
             \/ i \in ended'[s] <=> i \in ended[s]
             \/ Head(q) = EOF
      PROVE  /\ MarkersLast(r)
             /\ i \notin remote_closed'[s] => NoMarkers(r) /\ i \notin ended'[s]
             /\ i \in ended'[s] => OnlyMarkers(r)
  <2>1. MarkersLast(r)
    BY <1>2, <1>7, <1>q, MarkerFacts
  <2>2. i \notin remote_closed[s] => NoMarkers(r) /\ Head(q) # EOF
    BY <1>2, <1>7, <1>q, MarkerFacts
  <2>3. OnlyMarkers(q) => OnlyMarkers(r)
    BY <1>7, <1>q, MarkerFacts
  <2>4. Head(q) = EOF => OnlyMarkers(r)
    BY <1>2, <1>7, <1>q, MarkerFacts
  <2> HIDE DEF q, r
  <2> QED BY <1>2, <1>7, <2>1, <2>2, <2>3, <2>4
<1>8. \/ r = q /\ (i \in remote_closed'[s] <=> i \in remote_closed[s])
               /\ (i \in ended'[s] <=> i \in ended[s])
      \/ i \in remote_closed'[s] /\ r = Append(q, EOF) /\ (i \in ended'[s] <=> i \in ended[s])
      \/ i \in marking[s]
      \/ /\ HandleData(s) /\ NextFrame(s).id = i /\ NextFrame(s).payload \in Writes
         /\ r = Append(q, NextFrame(s).payload)
         /\ UNCHANGED <<remote_closed, ended>>
      \/ AtEnd(s, i) /\ UNCHANGED <<remote_closed, read_queue>>
      \/ /\ q # <<>> /\ r = Tail(q) /\ UNCHANGED remote_closed
         /\ \/ i \in ended'[s] <=> i \in ended[s]
            \/ Head(q) = EOF
  BY QueueSteps
<1> HIDE DEF q, r
<1> QED BY <1>1, <1>3, <1>4, <1>5, <1>6, <1>7, <1>8

LEMMA InitEnd == Init => EndInv
<1> SUFFICES ASSUME Init PROVE EndInv
  OBVIOUS
<1>1. \A s \in Sides : marking[s] \subseteq closed[s]
  BY DEF Init
<1>2. ASSUME NEW s \in Sides, NEW i \in StreamIds PROVE FinLast(s, i) /\ MarkersRight(s, i)
  <2>1. wire[s] = <<>> /\ read_queue[s][i] = <<>> /\ remote_closed[s] = {} /\ ended[s] = {}
    BY DEF Init
  <2>2. On(s, "FIN", i) = {}
    BY <2>1 DEF On
  <2>3. FinLast(s, i)
    BY <2>1, <2>2 DEF FinLast
  <2>4. MarkersRight(s, i)
    BY <2>1 DEF MarkersRight, MarkersLast, NoMarkers
  <2> QED BY <2>3, <2>4
<1> QED BY <1>1, <1>2 DEF EndInv

LEMMA NextMarking ==
    ASSUME TypeOK, EndInv, [Next]_vars
    PROVE  \A s \in Sides : marking'[s] \subseteq closed'[s]
<1>1. \A s \in Sides : marking[s] \subseteq closed[s] /\ closed[s] \subseteq closed'[s]
  BY NextForward DEF EndInv, Forward
<1>2. \A s \in Sides : marking[s] \subseteq closed'[s]
  BY <1>1
<1> DEFINE Goal == \A s \in Sides : marking'[s] \subseteq closed'[s]
<1>3. UNCHANGED marking => Goal
  BY <1>2
<1>4. UNCHANGED vars \/ Lose => UNCHANGED marking
  BY DEF vars, streamVars, Lose
<1>5. ASSUME NEW s \in Sides,
             \/ OpenStream(s) \/ OpenFails(s) \/ AcceptStream(s) \/ Handle(s)
             \/ CloseSession(s) \/ FinishClose(s)
      PROVE  UNCHANGED marking
  BY <1>5 DEF OpenStream, OpenFails, AcceptStream, Handle, HandleSyn, HandleData, HandleFin,
              HandleRst, HandlePing, HandleGoAway, EndOfInput, CloseSession, FinishClose,
              streamVars
<1>6. ASSUME NEW s \in Sides, NEW i \in StreamIds,
             Write(s, i) \/ SendRst(s, i) \/ BeginRead(s, i) \/ EndRead(s, i)
      PROVE  UNCHANGED marking
  BY <1>6 DEF Write, SendRst, BeginRead, EndRead, streamVars
<1>7. ASSUME NEW s \in Sides, NEW flag \in Foreign, SendForeign(s, flag)
      PROVE  UNCHANGED marking
  BY <1>7 DEF SendForeign, streamVars
<1>8. ASSUME NEW s \in Sides, NEW i \in StreamIds, CloseStream(s, i) PROVE Goal
  <2>1. UNCHANGED marking \/ marking' = Add(marking, s, i)
    BY <1>8 DEF CloseStream
  <2>2. closed' = Add(closed, s, i)
    BY <1>8 DEF CloseStream
  <2>3. marking \in [Sides -> SUBSET StreamIds] /\ closed \in [Sides -> SUBSET StreamIds]
    BY DEF TypeOK
  <2>4. i \in closed'[s]
    BY <2>2, <2>3, AddFacts
  <2>5. marking' = Add(marking, s, i) =>
           /\ marking'[s] = marking[s] \cup {i}
           /\ \A t \in Sides \ {s} : marking'[t] = marking[t]
    BY <2>3, AddFacts
  <2> QED BY <1>2, <1>3, <2>1, <2>4, <2>5
<1>9. ASSUME NEW s \in Sides, NEW i \in StreamIds, QueueMarker(s, i) PROVE Goal
  <2>1. marking' = [marking EXCEPT ![s] = @ \ {i}]
    BY <1>9 DEF QueueMarker
  <2>2. \A t \in Sides : marking'[t] \subseteq marking[t]
    BY <2>1 DEF TypeOK
  <2> QED BY <1>2, <2>2
<1> HIDE DEF Goal
<1>10. Goal
  BY <1>3, <1>4, <1>5, <1>6, <1>7, <1>8, <1>9 DEF Next
<1> QED BY <1>10 DEF Goal

LEMMA AlwaysEnd == Spec => [](TypeOK /\ WireInv /\ FlowInv /\ EndInv)
<1>1. Init => TypeOK /\ WireInv /\ FlowInv /\ EndInv
  BY InitTypes, InitWire, InitFlow, InitEnd
<1>2. (TypeOK /\ WireInv /\ FlowInv /\ EndInv) /\ [Next]_vars
      => (TypeOK /\ WireInv /\ FlowInv /\ EndInv)'
  <2> SUFFICES ASSUME TypeOK, WireInv, FlowInv, EndInv, [Next]_vars
               PROVE  (TypeOK /\ WireInv /\ FlowInv /\ EndInv)'
    OBVIOUS
  <2>1. ASSUME NEW s \in Sides, NEW i \in StreamIds, Intact(i)'
        PROVE  FinLast(s, i)' /\ MarkersRight(s, i)'
    BY <2>1, NextFin, NextMarkers
  <2>2. EndInv'
    BY <2>1, NextMarking DEF EndInv
  <2> QED BY <2>2, NextTypes, NextWire, NextFlow
<1> QED BY <1>1, <1>2, PTL DEF Spec

\* Nothing is picked from a sequence with nothing to pick.
LEMMA NothingPicked ==
    ASSUME NEW q, Len(q) \in Nat, NEW S, \A k \in 1..Len(q) : q[k] \notin S
    PROVE  Picked(q, S) = <<>>
<1>1. PICK p : Picks(p, Len(q), q, S) /\ Picked(q, S) = p[Len(q)]
  BY PickedIs
<1> DEFINE n == Len(q)  T == {k \in 0..n : p[k] # <<>>}
<1>2. p[0] = <<>> /\ \A k \in 1..n : p[k] = p[k - 1]
  BY <1>1, PicksFacts
<1>3. n \in Nat /\ Picked(q, S) = p[n]
  BY <1>1
<1> HIDE DEF n
<1>4. ASSUME T # {} PROVE FALSE
  <2>1. T \in SUBSET Nat
    OBVIOUS
  <2>2. PICK k \in T : \A j \in T : k <= j
    BY <1>4, <2>1, LeastElement
  <2>3. k \in 0..n /\ p[k] # <<>> /\ k # 0
    BY <1>2
  <2>4. k \in 1..n /\ k - 1 \in 0..n /\ ~ (k <= k - 1)
    BY <1>3, <2>3
  <2>5. p[k - 1] = <<>>
    BY <2>2, <2>4
  <2> QED BY <1>2, <2>3, <2>4, <2>5
<1>5. n \in 0..n
  BY <1>3
<1> QED BY <1>3, <1>4, <1>5

LEMMA EndMeaning == TypeOK /\ WireInv /\ FlowInv /\ EndInv => EofMeansAll
<1> SUFFICES ASSUME TypeOK, FlowInv, EndInv, NEW s \in Sides, NEW i \in StreamIds,
                    Intact(i), i \in ended[s] \ closed[s]
             PROVE  i \in closed[Peer(s)] /\ Len(received[s][i]) = sent[Peer(s)][i]
  BY DEF EofMeansAll
<1> DEFINE t == Peer(s)  q == read_queue[s][i]  r == received[s][i]
<1>1. t \in Sides /\ Peer(t) = s
  BY PeerFacts
<1>2. MarkersRight(s, i) /\ FinLast(s, i)
  BY DEF EndInv
<1>3. i \in remote_closed[s] /\ OnlyMarkers(q)
  BY <1>2 DEF MarkersRight
<1>4. i \in closed[t] /\ On(t, "DATA", i) = {}
  BY <1>2, <1>3 DEF FinLast
<1>5. Payloads(q) = <<>>
  <2>1. Len(q) \in Nat
    BY WholeTypes
  <2>2. \A k \in 1..Len(q) : q[k] \notin Writes
    BY <1>3, EofIsNoPayload DEF OnlyMarkers
  <2> QED BY <2>1, <2>2, NothingPicked DEF Payloads
<1>6. InFlight(t, i) = <<>>
  <2>1. wire[t] \in Seq(Frames) /\ Len(wire[t]) \in Nat
    BY <1>1 DEF TypeOK
  <2>2. \A k \in 1..Len(wire[t]) : wire[t][k] \in Frames
    BY <2>1
  <2>3. \A k \in 1..Len(wire[t]) : wire[t][k] \notin DataOf(i)
    BY <1>4, <2>2, DataFrames DEF On
  <2>4. Picked(wire[t], DataOf(i)) = <<>>
    BY <2>1, <2>3, NothingPicked
  <2>5. Carried(<<>>) = <<>>
    BY DEF Carried
  <2> QED BY <1>1, <2>4, <2>5, InFlightIs
<1>7. Whole(t, i) = (r \o <<>>) \o <<>>
  BY <1>1, <1>5, <1>6 DEF Whole
<1>8. r \in Seq(Writes)
  BY WholeTypes
<1> HIDE DEF r
<1>9. Whole(t, i) = r
  BY <1>7, <1>8, ConcatEmptySeq
<1>10. ~Broken(t)
  BY <1>1 DEF Intact, Broken
<1>11. Len(Whole(t, i)) = sent[t][i]
  BY <1>1, <1>10 DEF FlowInv
<1> QED BY <1>4, <1>9, <1>11 DEF r

\* A reader that has not closed its end and reads b"" knows that the peer has
\* closed the stream and has read every payload the peer wrote on it: no
\* payload comes after the FIN, and on_fin queues its marker behind them all.
THEOREM EndsMeanAll == Spec => []EofMeansAll
BY EndMeaning, AlwaysEnd, PTL

-------------------------------------------------------------------------------
(* The contract *)

\* Nobody waits on a stream whose end he has read.
DoneReading == \A s \in Sides : waiting[s] \cap ended[s] = {}

SessionInv == TypeOK /\ WireInv /\ FlowInv /\ EndInv

LEMMA NextDoneReading ==
    ASSUME TypeOK, DoneReading, [Next]_vars
    PROVE  DoneReading'
<1>1. UNCHANGED <<waiting, ended>> => DoneReading'
  BY DEF DoneReading
<1>2. UNCHANGED vars \/ Lose => UNCHANGED <<waiting, ended>>
  BY DEF vars, streamVars, history, Lose
<1>3. ASSUME NEW s \in Sides,
             \/ OpenStream(s) \/ OpenFails(s) \/ AcceptStream(s) \/ Handle(s)
             \/ CloseSession(s) \/ FinishClose(s)
      PROVE  UNCHANGED <<waiting, ended>>
  BY <1>3 DEF OpenStream, OpenFails, AcceptStream, Handle, HandleSyn, HandleData, HandleFin,
              HandleRst, HandlePing, HandleGoAway, EndOfInput, CloseSession, FinishClose,
              streamVars, history
<1>4. ASSUME NEW s \in Sides, NEW i \in StreamIds,
             Write(s, i) \/ CloseStream(s, i) \/ QueueMarker(s, i) \/ SendRst(s, i)
      PROVE  UNCHANGED <<waiting, ended>>
  BY <1>4 DEF Write, CloseStream, QueueMarker, SendRst, streamVars, history
<1>5. ASSUME NEW s \in Sides, NEW flag \in Foreign, SendForeign(s, flag)
      PROVE  UNCHANGED <<waiting, ended>>
  BY <1>5 DEF SendForeign, streamVars, history
<1>6. ASSUME NEW s \in Sides, NEW i \in StreamIds, BeginRead(s, i) \/ EndRead(s, i)
      PROVE  DoneReading'
  <2>1. /\ waiting \in [Sides -> SUBSET StreamIds]
        /\ ended \in [Sides -> SUBSET StreamIds]
    BY DEF TypeOK
  <2>2. \/ i \notin waiting[s] /\ ended' = Add(ended, s, i) /\ waiting' = waiting
        \/ i \notin ended[s] /\ waiting' = Add(waiting, s, i) /\ ended' = ended
        \/ /\ waiting' = [waiting EXCEPT ![s] = @ \ {i}]
           /\ ended' = ended \/ ended' = Add(ended, s, i)
    BY <1>6 DEF BeginRead, EndRead
  <2> QED BY <2>1, <2>2 DEF DoneReading, Add
<1> QED BY <1>1, <1>2, <1>3, <1>4, <1>5, <1>6 DEF Next

LEMMA AlwaysSession == Spec => [](SessionInv /\ DoneReading)
<1>1. Init => DoneReading
  BY DEF Init, DoneReading
<1>2. TypeOK /\ DoneReading /\ [Next]_vars => DoneReading'
  BY NextDoneReading
<1> QED BY <1>1, <1>2, AlwaysEnd, PTL DEF Spec, SessionInv

\* What the contract sees of a session.
Cut == {i \in StreamIds : ~Intact(i)}

ContractStep == [Contract!ContractNext]_(Contract!contractVars)

\* A step that the contract does not see.
LEMMA HiddenStep ==
    ASSUME UNCHANGED <<sent, received, closed, ended, reset, running, connected>>
    PROVE  ContractStep
BY DEF ContractStep, Contract!contractVars, Intact

\* A session ends or the connection breaks.
LEMMA CutStep ==
    ASSUME UNCHANGED <<sent, received, closed, ended>>,
           ~connected' \/ \E s \in Sides : ~running'[s]
    PROVE  ContractStep
<1>1. Cut' = StreamIds
  BY DEF Cut, Intact
<1>2. Contract!CutAll
  BY <1>1 DEF Contract!CutAll, Cut
<1> QED BY <1>2 DEF ContractStep, Contract!ContractNext

LEMMA WriteStep ==
    ASSUME NEW s \in Sides, NEW i \in StreamIds, Write(s, i)
    PROVE  ContractStep
<1>1. Cut' = Cut
  BY DEF Write, sessionVars, Cut, Intact
<1>2. Contract!Put(s, i)
  BY <1>1 DEF Write, MayWrite, streamVars, Contract!Put, Cut
<1> QED BY <1>2 DEF ContractStep, Contract!ContractNext

LEMMA CloseStep ==
    ASSUME NEW s \in Sides, NEW i \in StreamIds, CloseStream(s, i) \/ SendRst(s, i)
    PROVE  ContractStep
<1>1. UNCHANGED <<sent, received, ended, running, connected>>
  BY DEF CloseStream, SendRst, history, sessionVars
<1>2. reset' = reset \/ reset' = reset \cup {i}
  BY DEF CloseStream, SendRst, history
<1>3. Cut' = Cut \/ Cut' = Cut \cup {i}
  BY <1>1, <1>2 DEF Cut, Intact
<1>4. i \notin closed[s] /\ closed' = [closed EXCEPT ![s] = @ \cup {i}]
  BY DEF CloseStream, SendRst, Add
<1>5. Contract!Shut(s, i)
  BY <1>1, <1>3, <1>4 DEF Contract!Shut, Cut
<1> QED BY <1>5 DEF ContractStep, Contract!ContractNext

LEMMA EndMeaningThen == SessionInv' => EofMeansAll'
BY EndMeaning, PTL DEF SessionInv

LEMMA FinishStep ==
    ASSUME SessionInv, SessionInv', NEW s \in Sides, NEW i \in StreamIds,
           i \notin ended[s], ended' = Add(ended, s, i),
           UNCHANGED <<sent, received, closed, reset, running, connected>>
    PROVE  ContractStep
<1>1. Cut' = Cut
  BY DEF Cut, Intact
<1>2. i \in ended'[s]
  <2>1. ended \in [Sides -> SUBSET StreamIds]
    BY DEF SessionInv, TypeOK
  <2> QED BY <2>1, AddFacts
<1>3. EofMeansAll'
  BY EndMeaningThen
<1>4. \/ i \in closed[s] \cup Cut
      \/ i \in closed[Peer(s)] /\ Len(received[s][i]) = sent[Peer(s)][i]
  <2> SUFFICES ASSUME i \notin closed[s], i \notin Cut
               PROVE  i \in closed[Peer(s)] /\ Len(received[s][i]) = sent[Peer(s)][i]
    OBVIOUS
  <2>1. Intact(i)'
    BY DEF Cut, Intact
  <2> QED BY <1>2, <1>3, <2>1 DEF EofMeansAll
<1>5. Contract!Finish(s, i)
  BY <1>1, <1>4 DEF Contract!Finish, Cut, Add
<1> QED BY <1>5 DEF ContractStep, Contract!ContractNext

\* The payload that is read is the next one the other side wrote.
LEMMA DeliverStep ==
    ASSUME SessionInv, DoneReading, NEW s \in Sides, NEW i \in StreamIds, EndRead(s, i),
           Head(read_queue[s][i]) # EOF
    PROVE  ContractStep
<1> DEFINE t == Peer(s)  r == received[s][i]  q == read_queue[s][i]  x == Head(q)
           f == InFlight(t, i)
<1>t. TypeOK /\ FlowInv /\ t \in Sides /\ Peer(t) = s
  BY PeerFacts DEF SessionInv
<1>1. /\ q # <<>> /\ i \in waiting[s]
      /\ received' = [received EXCEPT ![s][i] = Append(@, x)]
      /\ UNCHANGED <<sent, closed, ended, reset, running, connected>>
  BY DEF EndRead, sessionVars
<1>2. /\ r \in Seq(Writes) /\ q \in Seq(Writes \cup {EOF}) /\ f \in Seq(Writes)
      /\ Whole(t, i) \in Seq(Writes) /\ sent[t][i] \in Nat
  BY <1>t, WholeTypes
<1>3. x \in Writes /\ Payloads(q) = <<x>> \o Payloads(Tail(q))
  BY <1>1, <1>2, PayloadsFacts
<1>4. Payloads(Tail(q)) \in Seq(Writes)
  <2>1. Tail(q) \in Seq(Writes \cup {EOF})
    BY <1>1, <1>2, HeadTailProperties
  <2> QED BY <2>1, PayloadsFacts
<1>5. Whole(t, i) = (r \o (<<x>> \o Payloads(Tail(q)))) \o f
  BY <1>t, <1>3 DEF Whole
<1>6. InOrder(Whole(t, i)) /\ Len(Whole(t, i)) <= sent[t][i]
  BY <1>t DEF FlowInv
<1>7. x = Len(r) + 1 /\ Len(r) < sent[t][i]
  <2> DEFINE p == Payloads(Tail(q))  w == Whole(t, i)  n == Len(r)  m == sent[t][i]
  <2>1. p \in Seq(Writes) /\ r \in Seq(Writes) /\ f \in Seq(Writes) /\ x \in Writes
        /\ w \in Seq(Writes) /\ w = (r \o (<<x>> \o p)) \o f /\ InOrder(w) /\ Len(w) <= m
        /\ m \in Nat
    BY <1>2, <1>3, <1>4, <1>5, <1>6
  <2> HIDE DEF p, w, r, f, x, m, n
  <2>2. Len(w) = n + 1 + Len(p) + Len(f) /\ w[n + 1] = x /\ n \in Nat
        /\ Len(p) \in Nat /\ Len(f) \in Nat
    BY <2>1 DEF n
  <2>3. n + 1 \in 1..Len(w)
    BY <2>2
  <2>4. w[n + 1] = n + 1
    BY <2>1, <2>3 DEF InOrder
  <2>5. n < m
    <3>1. Len(w) \in Nat
      BY <2>1
    <3> QED BY <2>1, <2>2, <3>1
  <2> QED BY <2>2, <2>4, <2>5 DEF n, m
<1>8. received' = [received EXCEPT ![s][i] = Append(@, Len(@) + 1)]
  BY <1>1, <1>7
<1>9. i \notin ended[s]
  BY <1>1 DEF DoneReading
<1>10. Cut' = Cut
  BY <1>1 DEF Cut, Intact
<1>11. Contract!Deliver(s, i)
  BY <1>1, <1>7, <1>8, <1>9, <1>10 DEF Contract!Deliver, Cut
<1> QED BY <1>11 DEF ContractStep, Contract!ContractNext

LEMMA ContractSteps ==
    ASSUME SessionInv, DoneReading, SessionInv', [Next]_vars
    PROVE  ContractStep
<1>1. CASE UNCHANGED vars
  BY <1>1, HiddenStep DEF vars, sessionVars, streamVars, history
<1>2. CASE Lose
  BY <1>2, CutStep DEF Lose, streamVars, history
<1>3. ASSUME NEW s \in Sides,
             \/ OpenStream(s) \/ OpenFails(s) \/ AcceptStream(s)
             \/ HandleSyn(s) \/ HandleData(s) \/ HandleFin(s) \/ HandleRst(s)
             \/ HandlePing(s) \/ FinishClose(s)
      PROVE  UNCHANGED <<sent, received, closed, ended, reset, running, connected>>
  BY <1>3 DEF OpenStream, OpenFails, AcceptStream, HandleSyn, HandleData, HandleFin,
              HandleRst, HandlePing, FinishClose, streamVars, history
<1>4. ASSUME NEW s \in Sides, HandleGoAway(s) \/ EndOfInput(s) \/ CloseSession(s)
      PROVE  ContractStep
  <2>1. UNCHANGED <<sent, received, closed, ended>>
        /\ running' = [running EXCEPT ![s] = FALSE]
    BY <1>4 DEF HandleGoAway, EndOfInput, CloseSession, streamVars, history
  <2>2. ~running'[s]
    BY <2>1 DEF SessionInv, TypeOK
  <2> QED BY <2>1, <2>2, CutStep
<1>5. ASSUME NEW s \in Sides, NEW i \in StreamIds, QueueMarker(s, i)
      PROVE  UNCHANGED <<sent, received, closed, ended, reset, running, connected>>
  BY <1>5 DEF QueueMarker, sessionVars, history
<1>6. ASSUME NEW s \in Sides, NEW flag \in Foreign, SendForeign(s, flag)
      PROVE  UNCHANGED <<sent, received, closed, ended, reset, running, connected>>
  BY <1>6 DEF SendForeign, sessionVars, streamVars, history
<1>7. ASSUME NEW s \in Sides, NEW i \in StreamIds, BeginRead(s, i) PROVE ContractStep
  <2>1. /\ UNCHANGED <<sent, received, closed, reset, running, connected>>
        /\ i \notin ended[s]
        /\ ended' = ended \/ ended' = Add(ended, s, i)
    BY <1>7 DEF BeginRead, sessionVars
  <2> QED BY <2>1, FinishStep, HiddenStep
<1>8. ASSUME NEW s \in Sides, NEW i \in StreamIds, EndRead(s, i) PROVE ContractStep
  <2>1. CASE Head(read_queue[s][i]) = EOF
    <3>1. UNCHANGED <<sent, received, closed, reset, running, connected>>
          /\ i \in waiting[s] /\ ended' = Add(ended, s, i)
      BY <1>8, <2>1 DEF EndRead, sessionVars
    <3>2. i \notin ended[s]
      BY <3>1 DEF DoneReading
    <3> QED BY <3>1, <3>2, FinishStep
  <2>2. CASE Head(read_queue[s][i]) # EOF
    BY <1>8, <2>2, DeliverStep
  <2> QED BY <2>1, <2>2
<1>9. ASSUME NEW s \in Sides, NEW i \in StreamIds,
             Write(s, i) \/ CloseStream(s, i) \/ SendRst(s, i)
      PROVE  ContractStep
  BY <1>9, WriteStep, CloseStep
<1> HIDE DEF ContractStep
<1> QED BY <1>1, <1>2, <1>3, <1>4, <1>5, <1>6, <1>7, <1>8, <1>9, HiddenStep
        DEF Next, Handle

\* For its users a stream of two sessions is a reliable, ordered channel whose
\* two ends are closed one by one: every step of the sessions is a step of
\* StreamContract or changes nothing it speaks of.
THEOREM StreamsKeepContract == Spec => ImplementsContract
<1>1. Init => Contract!ContractInit
  <2> SUFFICES ASSUME Init PROVE Contract!ContractInit
    OBVIOUS
  <2>1. Cut = {}
    BY DEF Init, Cut, Intact
  <2> QED BY <2>1 DEF Init, Contract!ContractInit, Cut
<1>2. SessionInv /\ DoneReading /\ SessionInv' /\ [Next]_vars
        => [Contract!ContractNext]_(Contract!contractVars)
  BY ContractSteps DEF ContractStep
<1> QED BY <1>1, <1>2, AlwaysSession, PTL
        DEF Spec, ImplementsContract, Contract!ContractSpec
================================================================================
