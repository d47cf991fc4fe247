---------------------------- MODULE ReadingProofs ----------------------------
(***************************************************************************)
(* Safety of streamed readings for channels and responses of any size, any *)
(* reader and any number of chats.                                         *)
(*                                                                         *)
(* The pipeline, with a wrapper or without: both channels carry            *)
(* consecutive chunks, so what has been taken and is under way adds up to  *)
(* what was produced (Raw, Out), as long as somebody takes it; the end of  *)
(* each stage is visible to the next only once everything before it is     *)
(* settled (Stages).  A reading implements the pipeline, so all of this    *)
(* holds of it, and Reader relates what was sent to what was read.  The    *)
(* draft clock: draft_next_ms is past everything permitted or paused so    *)
(* far (Budget).                                                           *)
(***************************************************************************)
EXTENDS Reading, SequenceTheorems, TLAPS

\* What has left the producer's channel.
Fed == IF Wrapped THEN reply ELSE got

\* From the producer to whoever receives.
Raw == /\ \A i \in DOMAIN reply : reply[i] = i
       /\ \A i \in DOMAIN raw : raw[i] = Len(Fed) + i
       /\ ~ReceiverGone =>
            /\ producer = "read" => produced = Len(Fed) + Len(raw)
            /\ producer = "send" => produced = Len(Fed) + Len(raw) + 1
            /\ RawClosed /\ ~failed => produced = Len(Fed) + Len(raw)
       /\ ReceiverGone => raw = <<>>
       /\ RawClosed /\ ~failed => produced > 0
       /\ failed => RawClosed

\* From the wrapper to the client.
Out == /\ \A i \in DOMAIN got : got[i] = i
       /\ \A i \in DOMAIN out : out[i] = Len(got) + i
       /\ wrapper = "forward" => reply # <<>> /\ ~sendFailed
       /\ client # "gone" => ~sendFailed
       /\ Wrapped /\ client # "gone" =>
            Len(got) + Len(out) + (IF wrapper = "forward" THEN 1 ELSE 0) = Len(reply)
       /\ ~Wrapped => out = <<>> /\ reply = <<>> /\ ~sendFailed

Stages ==
  /\ producer \in {"ack", "done"} => logged = IF failed THEN "failure" ELSE "success"
  /\ producer \notin {"ack", "done"} => logged = "none"
  /\ producer = "done" => acked = IF failed THEN "no" ELSE "yes"
  /\ producer # "done" => acked = "none"
  /\ wrapper \in {"finish", "persist", "ack", "done"} => raw = <<>> /\ RawClosed
  /\ wrapper \in {"persist", "ack", "done"} => producer = "done"
  /\ wrapper = "persist" => acked = "yes" /\ ~blank
  /\ wrapper \notin {"ack", "done"} => persisted = <<>>
  /\ wrapper \in {"ack", "done"} =>
       persisted = IF acked = "yes" /\ ~blank THEN reply ELSE <<>>
  /\ wrapper = "done" => confirmed = IF acked = "yes" /\ ~sendFailed THEN "yes" ELSE "no"
  /\ wrapper # "done" => confirmed = "none"
  /\ client \in {"finish", "ok", "error"} => Feed = <<>> /\ FeedClosed
  /\ client = "ok" => Answer = "yes"
  /\ client = "error" => Answer = "no"

Inv == TypeOK /\ Raw /\ Out /\ Stages

----------------------------------------------------------------------------

LEMMA TailChunks ==
  ASSUME NEW s \in Seq(Chunks), s # <<>>
  PROVE  /\ Head(s) \in Chunks /\ Head(s) = s[1] /\ 1 \in DOMAIN s
         /\ Tail(s) \in Seq(Chunks) /\ Len(Tail(s)) = Len(s) - 1 /\ Len(s) \in Nat /\ Len(s) > 0
         /\ \A i \in DOMAIN Tail(s) : i \in Nat /\ i + 1 \in DOMAIN s /\ Tail(s)[i] = s[i + 1]
  OBVIOUS

LEMMA AppendChunks ==
  ASSUME NEW s \in Seq(Chunks), NEW e \in Chunks
  PROVE  /\ Append(s, e) \in Seq(Chunks) /\ Len(Append(s, e)) = Len(s) + 1
         /\ Append(s, e) # <<>> /\ Append(s, e)[Len(s) + 1] = e /\ Len(s) \in Nat
         /\ \A i \in DOMAIN Append(s, e) : \/ i = Len(s) + 1
                                           \/ i \in DOMAIN s /\ Append(s, e)[i] = s[i]
  OBVIOUS

LEMMA StepProducer ==
  ASSUME Inv, ProducerStep
  PROVE  Inv'
<1> USE DEF Inv, TypeOK, RawClosed, Wrapped, ReceiverGone, Fed, Feed, FeedClosed, Answer, wrapperVars, clientVars
<1>0. /\ Len(reply) \in Nat /\ Len(got) \in Nat /\ Len(raw) \in Nat
      /\ produced \in Nat /\ MaxResponse \in Nat
  BY PipelineAssumption
<1>1. CASE ReadChunk
  BY <1>0, <1>1 DEF ReadChunk, Raw, Out, Stages
<1>2. CASE ReadFails
  BY <1>0, <1>2 DEF ReadFails, Raw, Out, Stages
<1>3. CASE ReadEnd
  <2>1. /\ producer = "read" /\ producer' = "log" /\ failed' = (produced = 0) /\ failed' \in BOOLEAN
        /\ UNCHANGED <<blank, produced, logged, acked, raw, wrapper, reply, sendFailed, persisted,
                       confirmed, out, client, got>>
    BY <1>3 DEF ReadEnd
  <2>2. TypeOK'
    BY <2>1
  <2>3. ~failed' => produced' > 0
    <3>1. ~failed' => produced # 0
      BY <2>1, Zenon
    <3>2. produced # 0 => produced > 0
      BY <1>0
    <3> QED
      BY <2>1, <3>1, <3>2
  <2>4. Raw'
    BY <1>0, <2>1, <2>3 DEF Raw
  <2>5. Out' /\ Stages'
    BY <2>1 DEF Out, Stages
  <2> QED
    BY <2>2, <2>4, <2>5
<1>4. CASE SendChunk
  <2>1. produced \in Chunks
    BY <1>0, <1>4 DEF SendChunk, Raw, Chunks
  <2>2. /\ raw' \in Seq(Chunks) /\ Len(raw') = Len(raw) + 1 /\ raw'[Len(raw) + 1] = produced
        /\ \A i \in DOMAIN raw' : i = Len(raw) + 1 \/ (i \in DOMAIN raw /\ raw'[i] = raw[i])
    BY <2>1, <1>4, AppendChunks DEF SendChunk
  <2>3. TypeOK'
    BY <1>0, <1>4, <2>2, PipelineAssumption DEF SendChunk
  <2>4. Raw'
    <3>1. /\ producer = "send" /\ producer' = "read" /\ ~ReceiverGone /\ ~ReceiverGone' /\ Fed' = Fed
          /\ UNCHANGED <<produced, failed, reply>>
      BY <1>4 DEF SendChunk
    <3>2. produced = Len(Fed) + Len(raw) + 1 /\ Len(Fed) \in Nat /\ ~failed
      BY <1>0, <3>1 DEF Raw
    <3>3. \A i \in DOMAIN raw : raw[i] = Len(Fed) + i
      BY DEF Raw
    <3>4. \A i \in DOMAIN reply : reply[i] = i
      BY DEF Raw
    <3> HIDE DEF Inv, TypeOK, ReceiverGone, Fed
    <3>5. \A i \in DOMAIN raw' : raw'[i] = Len(Fed) + i
      BY <1>0, <2>2, <3>2, <3>3
    <3> QED
      BY <1>0, <2>2, <3>1, <3>2, <3>4, <3>5 DEF Raw
  <2>5. Out' /\ Stages'
    BY <1>4 DEF SendChunk, Out, Stages
  <2> QED
    BY <2>3, <2>4, <2>5
<1>5. CASE SendFails
  BY <1>0, <1>5 DEF SendFails, SendStuck, Raw, Out, Stages
<1>6. CASE Log
  BY <1>0, <1>6 DEF Log, Raw, Out, Stages
<1>7. CASE Acknowledge
  <2>1. TypeOK' /\ Raw' /\ Out'
    BY <1>7 DEF Acknowledge, Raw, Out, Answers
  <2>2. Stages'
    BY <1>7 DEF Acknowledge, Stages
  <2> QED
    BY <2>1, <2>2
<1>8. CASE ReceiverLeft
  BY <1>0, <1>8 DEF ReceiverLeft, Raw, Out, Stages
<1> QED
  BY <1>1, <1>2, <1>3, <1>4, <1>5, <1>6, <1>7, <1>8 DEF ProducerStep

LEMMA StepWrapper ==
  ASSUME Inv, WrapperStep
  PROVE  Inv'
<1> USE DEF Inv, TypeOK, RawClosed, Wrapped, ReceiverGone, Fed, Feed, FeedClosed, Answer, producerVars, clientVars
<1>0. /\ Len(reply) \in Nat /\ Len(raw) \in Nat /\ Len(got) \in Nat /\ Len(out) \in Nat
      /\ produced \in Nat
  BY PipelineAssumption
<1>1. CASE Collect
  <2>1. /\ Head(raw) \in Chunks /\ Head(raw) = Len(reply) + 1
        /\ raw' \in Seq(Chunks) /\ Len(raw') = Len(raw) - 1 /\ Len(raw') \in Nat
        /\ \A i \in DOMAIN raw' : raw'[i] = Len(reply) + 1 + i
    <3>1. raw \in Seq(Chunks) /\ raw # <<>> /\ raw' = Tail(raw)
      BY <1>1 DEF Collect
    <3>2. \A i \in DOMAIN raw : raw[i] = Len(reply) + i
      BY <1>1 DEF Collect, Raw
    <3> HIDE DEF Inv, TypeOK
    <3>3. /\ Head(raw) \in Chunks /\ Head(raw) = raw[1] /\ 1 \in DOMAIN raw
          /\ raw' \in Seq(Chunks) /\ Len(raw') = Len(raw) - 1 /\ Len(raw) > 0
          /\ \A i \in DOMAIN raw' : i \in Nat /\ i + 1 \in DOMAIN raw /\ raw'[i] = raw[i + 1]
      BY <3>1, TailChunks
    <3>4. \A i \in DOMAIN raw' : raw'[i] = Len(reply) + 1 + i
      <4> TAKE i \in DOMAIN raw'
      <4>1. i \in Nat /\ raw'[i] = raw[i + 1] /\ i + 1 \in DOMAIN raw
        BY <3>3
      <4>2. raw[i + 1] = Len(reply) + (i + 1)
        BY <4>1, <3>2
      <4> QED
        BY <1>0, <4>1, <4>2
    <3>5. Head(raw) = Len(reply) + 1
      BY <3>2, <3>3
    <3>6. Len(raw') \in Nat
      BY <1>0, <3>3
    <3> QED
      BY <3>3, <3>4, <3>5, <3>6
  <2>2. /\ reply' \in Seq(Chunks) /\ Len(reply') = Len(reply) + 1 /\ reply' # <<>>
        /\ \A i \in DOMAIN reply' : reply'[i] = i
    <3>1. reply \in Seq(Chunks) /\ reply' = Append(reply, Head(raw))
      BY <1>1 DEF Collect
    <3>2. \A i \in DOMAIN reply : reply[i] = i
      BY DEF Raw
    <3> HIDE DEF Inv, TypeOK
    <3> QED
      BY <2>1, <3>1, <3>2, AppendChunks
  <2>3. TypeOK'
    <3>1. Len(raw') <= RawCapacity
      BY <1>0, <2>1, PipelineAssumption
    <3> QED
      BY <1>1, <2>1, <2>2, <3>1 DEF Collect
  <2>4. Raw'
    <3>1. /\ \A i \in DOMAIN raw' : raw'[i] = Len(reply') + i
          /\ Len(reply') + Len(raw') = Len(reply) + Len(raw)
      BY <1>0, <2>1, <2>2
    <3>2. /\ UNCHANGED <<producer, produced, failed, client>>
          /\ wrapper = "recv" /\ wrapper' \in {"recv", "forward"}
      BY <1>1 DEF Collect
    <3> HIDE DEF Inv, TypeOK
    <3>3. Raw
      BY DEF Inv
    <3> QED
      BY <1>0, <2>1, <2>2, <3>1, <3>2, <3>3 DEF Raw
  <2>5. Out'
    <3>1. wrapper = "recv" /\ UNCHANGED <<client, got, out, sendFailed>>
          /\ wrapper' = IF sendFailed THEN "recv" ELSE "forward"
      BY <1>1 DEF Collect
    <3> HIDE DEF Inv, TypeOK
    <3>2. Out
      BY DEF Inv
    <3> QED
      BY <1>0, <2>2, <3>1, <3>2 DEF Out
  <2>6. Stages'
    BY <1>1 DEF Collect, Stages
  <2> QED
    BY <2>3, <2>4, <2>5, <2>6
<1>2. CASE Forward
  <2>1. CASE client # "gone" /\ Len(out) < OutCapacity /\ out' = Append(out, reply[Len(reply)])
             /\ UNCHANGED sendFailed
    <3>1. reply[Len(reply)] \in Chunks /\ reply[Len(reply)] = Len(reply)
      BY <1>0, <1>2 DEF Forward, Raw, Out
    <3>2. /\ out' \in Seq(Chunks) /\ Len(out') = Len(out) + 1 /\ out'[Len(out) + 1] = Len(reply)
          /\ \A i \in DOMAIN out' : i = Len(out) + 1 \/ (i \in DOMAIN out /\ out'[i] = out[i])
      BY <2>1, <3>1, AppendChunks
    <3>3. TypeOK'
      BY <1>0, <1>2, <2>1, <3>2, PipelineAssumption DEF Forward
    <3>4. Out'
      BY <1>0, <1>2, <2>1, <3>2 DEF Forward, Out
    <3>5. Raw' /\ Stages'
      BY <1>2, <2>1 DEF Forward, Raw, Stages
    <3> QED
      BY <3>3, <3>4, <3>5
  <2>2. CASE client = "gone" /\ sendFailed' = TRUE /\ UNCHANGED out
    BY <1>2, <2>2 DEF Forward, Raw, Out, Stages
  <2> QED
    BY <1>2, <2>1, <2>2 DEF Forward
<1>3. CASE CollectEnd
  BY <1>3 DEF CollectEnd, Raw, Out, Stages
<1>4. CASE FinishRaw
  BY <1>4 DEF FinishRaw, Raw, Out, Stages
<1>5. CASE Persist
  BY <1>5 DEF Persist, Raw, Out, Stages
<1>6. CASE Confirm
  <2>1. TypeOK' /\ Raw' /\ Out'
    BY <1>6 DEF Confirm, Raw, Out, Answers
  <2>2. Stages'
    BY <1>6 DEF Confirm, Stages
  <2> QED
    BY <2>1, <2>2
<1> QED
  BY <1>1, <1>2, <1>3, <1>4, <1>5, <1>6 DEF WrapperStep

LEMMA StepClient ==
  ASSUME Inv, ClientStep
  PROVE  Inv'
<1> USE DEF Inv, TypeOK, RawClosed, Wrapped, ReceiverGone, Fed, Feed, FeedClosed, Answer, producerVars, wrapperVars
<1>0. Len(reply) \in Nat /\ Len(got) \in Nat /\ Len(out) \in Nat /\ Len(raw) \in Nat
  OBVIOUS
<1>1. CASE Read
  <2> DEFINE feed == Feed
  <2>0. /\ feed \in Seq(Chunks) /\ feed # <<>> /\ client = "recv" /\ got' = Append(got, Head(feed))
        /\ UNCHANGED <<blank, producer, produced, failed, logged, acked, wrapper, reply,
                       sendFailed, persisted, confirmed, client>>
        /\ Wrapped => feed = out /\ out' = Tail(feed) /\ raw' = raw
        /\ ~Wrapped => feed = raw /\ raw' = Tail(feed) /\ out' = out
    BY <1>1 DEF Read, Feeds
  <2>f. \A i \in DOMAIN feed : feed[i] = Len(got) + i
    BY DEF Raw, Out
  <2> HIDE DEF feed
  <2>1. /\ Head(feed) \in Chunks /\ Head(feed) = Len(got) + 1
        /\ Tail(feed) \in Seq(Chunks) /\ Len(Tail(feed)) = Len(feed) - 1 /\ Len(feed) \in Nat
        /\ Len(Tail(feed)) \in Nat
        /\ \A i \in DOMAIN Tail(feed) : Tail(feed)[i] = Len(got) + 1 + i
    <3> HIDE DEF Inv, TypeOK
    <3>3. /\ Head(feed) \in Chunks /\ Head(feed) = feed[1] /\ 1 \in DOMAIN feed
          /\ Tail(feed) \in Seq(Chunks) /\ Len(Tail(feed)) = Len(feed) - 1 /\ Len(feed) > 0
          /\ Len(feed) \in Nat
          /\ \A i \in DOMAIN Tail(feed) : i \in Nat /\ i + 1 \in DOMAIN feed
                                          /\ Tail(feed)[i] = feed[i + 1]
      BY <2>0, TailChunks
    <3>4. ASSUME NEW i \in DOMAIN Tail(feed) PROVE Tail(feed)[i] = Len(got) + 1 + i
      <4>1. i \in Nat /\ Tail(feed)[i] = feed[i + 1] /\ i + 1 \in DOMAIN feed
        BY <3>3
      <4>2. feed[i + 1] = Len(got) + (i + 1)
        BY <4>1, <2>f
      <4> QED
        BY <1>0, <4>1, <4>2
    <3>5. Head(feed) = Len(got) + 1
      BY <2>f, <3>3
    <3>6. Len(Tail(feed)) \in Nat
      BY <3>3
    <3> QED
      BY <3>3, <3>4, <3>5, <3>6
  <2>2. /\ got' \in Seq(Chunks) /\ Len(got') = Len(got) + 1
        /\ \A i \in DOMAIN got' : got'[i] = i
    BY <2>0, <2>1, AppendChunks DEF Out
  <2>3. /\ raw' \in Seq(Chunks) /\ Len(raw') <= RawCapacity
        /\ out' \in Seq(Chunks) /\ Len(out') <= OutCapacity
    <3>1. /\ raw \in Seq(Chunks) /\ Len(raw) <= RawCapacity
          /\ out \in Seq(Chunks) /\ Len(out) <= OutCapacity
          /\ RawCapacity \in Nat /\ OutCapacity \in Nat
      BY PipelineAssumption
    <3> HIDE DEF Inv, TypeOK
    <3>2. CASE Wrapped
      <4>1. raw' = raw /\ out' = Tail(feed) /\ feed = out
        BY <2>0, <3>2
      <4>2. out' \in Seq(Chunks) /\ Len(out') = Len(out) - 1
        BY <2>1, <4>1
      <4>3. Len(out') <= OutCapacity
        BY <1>0, <3>1, <4>2
      <4> QED
        BY <3>1, <4>1, <4>2, <4>3
    <3>3. CASE ~Wrapped
      <4>1. out' = out /\ raw' = Tail(feed) /\ feed = raw
        BY <2>0, <3>3
      <4>2. raw' \in Seq(Chunks) /\ Len(raw') = Len(raw) - 1
        BY <2>1, <4>1
      <4>3. Len(raw') <= RawCapacity
        BY <1>0, <3>1, <4>2
      <4> QED
        BY <3>1, <4>1, <4>2, <4>3
    <3> QED
      BY <3>2, <3>3
  <2>t. TypeOK'
    BY <2>0, <2>2, <2>3
  <2>4. Raw'
    <3>1. CASE Wrapped
      BY <2>0, <3>1 DEF Raw
    <3>2. CASE ~Wrapped
      <4>1. /\ feed = raw /\ raw' = Tail(feed) /\ Fed = got /\ Fed' = got' /\ ~ReceiverGone
            /\ ~ReceiverGone' /\ RawClosed' = RawClosed /\ UNCHANGED <<producer, produced, failed, reply>>
        BY <2>0, <3>2
      <4>2. Raw
        OBVIOUS
      <4> HIDE DEF Inv, TypeOK, Fed, ReceiverGone, RawClosed
      <4>3. Len(Fed') + Len(raw') = Len(Fed) + Len(raw)
        <5>1. Len(Fed') = Len(got) + 1 /\ Len(raw') = Len(raw) - 1 /\ Len(Fed) = Len(got)
          BY <2>1, <2>2, <4>1
        <5> QED
          BY <1>0, <5>1
      <4>4. \A i \in DOMAIN raw' : raw'[i] = Len(Fed') + i
        BY <1>0, <2>1, <2>2, <4>1
      <4> QED
        BY <4>1, <4>2, <4>3, <4>4 DEF Raw
    <3> QED
      BY <3>1, <3>2
  <2>5. Out'
    <3>1. CASE Wrapped
      <4>1. /\ feed = out /\ out' = Tail(feed)
            /\ Wrapped' /\ UNCHANGED <<wrapper, reply, sendFailed, client>> /\ client = "recv"
        BY <2>0, <3>1
      <4>2. Out
        OBVIOUS
      <4> HIDE DEF Inv, TypeOK, Wrapped
      <4>3. Len(got') + Len(out') = Len(got) + Len(out)
        BY <1>0, <2>1, <2>2, <4>1
      <4>4. \A i \in DOMAIN out' : out'[i] = Len(got') + i
        BY <1>0, <2>1, <2>2, <4>1
      <4>5. Len(got') \in Nat /\ Len(out') \in Nat
        BY <1>0, <2>1, <2>2, <4>1
      <4>6. Len(got') + Len(out') + (IF wrapper = "forward" THEN 1 ELSE 0) = Len(reply)
        BY <1>0, <3>1, <4>1, <4>2, <4>3, <4>5 DEF Out
      <4> QED
        BY <2>2, <3>1, <4>1, <4>2, <4>4, <4>6 DEF Out
    <3>2. CASE ~Wrapped
      BY <2>0, <2>2, <3>2 DEF Out
    <3> QED
      BY <3>1, <3>2
  <2>6. Stages'
    <3>1. CASE Wrapped
      BY <2>0, <3>1 DEF Stages
    <3>2. CASE ~Wrapped
      BY <2>0, <3>2 DEF Stages
    <3> QED
      BY <3>1, <3>2
  <2> QED
    BY <2>t, <2>4, <2>5, <2>6
<1>2. CASE ReadAll
  BY <1>2 DEF ReadAll, Raw, Out, Stages
<1>3. CASE FinishOut
  BY <1>3 DEF FinishOut, Raw, Out, Stages
<1>4. CASE Disconnect
  <2>1. CASE Wrapped
    BY <1>4, <2>1, PipelineAssumption DEF Disconnect, Feeds, Raw, Out, Stages
  <2>2. CASE ~Wrapped
    BY <1>4, <2>2, PipelineAssumption DEF Disconnect, Feeds, Raw, Out, Stages
  <2> QED
    BY <2>1, <2>2
<1> QED
  BY <1>1, <1>2, <1>3, <1>4 DEF ClientStep

(* Inv is inductive: it holds in every reachable state.                    *)
THEOREM PipelineInvariance == Spec => []Inv
<1>1. Init => Inv
  <2> SUFFICES ASSUME Init PROVE Inv
    OBVIOUS
  <2>1. TypeOK
    <3>1. blank \in BOOLEAN /\ failed \in BOOLEAN /\ sendFailed \in BOOLEAN
      BY DEF Init
    <3>2. produced \in 0..MaxResponse /\ Len(raw) <= RawCapacity /\ Len(out) <= OutCapacity
      BY PipelineAssumption DEF Init
    <3>3. /\ raw \in Seq(Chunks) /\ reply \in Seq(Chunks) /\ persisted \in Seq(Chunks)
          /\ out \in Seq(Chunks) /\ got \in Seq(Chunks)
      BY DEF Init
    <3>4. /\ producer = "read" /\ logged = "none" /\ acked = "none" /\ wrapper \in {"recv", "none"}
          /\ confirmed = "none" /\ client = "recv"
      BY DEF Init
    <3> QED
      BY <3>1, <3>2, <3>3, <3>4 DEF TypeOK, Answers
  <2>2. Raw /\ Out
    BY DEF Init, Raw, Out, RawClosed, Wrapped, ReceiverGone, Fed
  <2>3. Stages
    BY DEF Init, Stages, RawClosed
  <2> QED
    BY <2>1, <2>2, <2>3 DEF Inv
<1>2. Inv /\ [Next]_vars => Inv'
  <2>1. ASSUME Inv, UNCHANGED vars PROVE Inv'
    BY <2>1 DEF vars, producerVars, wrapperVars, clientVars, Inv, TypeOK, Raw, Out, Stages,
       RawClosed, Wrapped, ReceiverGone, Fed, Feed, FeedClosed, Answer
  <2> QED
    BY <2>1, StepProducer, StepWrapper, StepClient DEF Next, Ended
<1> QED
  BY <1>1, <1>2, PTL DEF Spec

----------------------------------------------------------------------------

LEMMA AllTaken ==
  ASSUME Inv, RawClosed, ~failed, raw = <<>>, ~ReceiverGone
  PROVE  Complete(Fed)
<1>1. Len(Fed) = produced /\ Fed \in Seq(Chunks)
  BY DEF Inv, TypeOK, Raw, Fed
<1>2. Fed = [i \in 1..Len(Fed) |-> Fed[i]]
  BY <1>1
<1>3. \A i \in 1..Len(Fed) : Fed[i] = i
  BY <1>1 DEF Inv, Raw, Out, Fed
<1> QED
  BY <1>1, <1>2, <1>3 DEF Complete

LEMMA WholeAnswer ==
  ASSUME Inv, client = "ok"
  PROVE  /\ Complete(got) /\ logged = "success" /\ (Wrapped => blank \/ persisted = got)
         /\ got # <<>>
<1>1. /\ acked = "yes" /\ producer = "done" /\ ~failed /\ raw = <<>> /\ RawClosed
      /\ logged = "success" /\ ~ReceiverGone
      /\ Wrapped => wrapper = "done" /\ out = <<>>
  BY DEF Inv, Stages, TypeOK, RawClosed, Wrapped, Feed, FeedClosed, Answer, ReceiverGone
<1>2. Complete(Fed) /\ (Wrapped => blank \/ persisted = Fed)
  BY <1>1, AllTaken DEF Inv, Stages, Fed
<1>3. got = Fed
  <2>1. CASE ~Wrapped
    BY <2>1 DEF Fed
  <2>2. CASE Wrapped
    <3>1. Fed = reply /\ Len(got) = Len(reply) /\ got \in Seq(Chunks) /\ reply \in Seq(Chunks)
      BY <1>1, <2>2 DEF Inv, Out, TypeOK, Fed
    <3>2. got = [i \in 1..Len(got) |-> got[i]] /\ reply = [i \in 1..Len(got) |-> reply[i]]
      BY <3>1
    <3>3. \A i \in 1..Len(got) : got[i] = reply[i]
      BY <3>1 DEF Inv, Raw, Out
    <3> QED
      BY <3>1, <3>2, <3>3
  <2> QED
    BY <2>1, <2>2
<1>4. got # <<>>
  <2>1. produced > 0 /\ Len(Fed) = produced
    BY <1>1 DEF Inv, Raw
  <2> QED
    BY <1>3, <2>1
<1> QED
  BY <1>1, <1>2, <1>3, <1>4

LEMMA NothingKept ==
  ASSUME Inv, client = "error"
  PROVE  logged = "failure" /\ persisted = <<>>
<1>1. /\ Answer = "no" /\ ~sendFailed /\ producer = "done"
      /\ Wrapped => wrapper = "done"
  BY DEF Inv, Stages, TypeOK, Out, Answer, FeedClosed, Wrapped
<1>2. acked # "yes"
  BY <1>1 DEF Inv, Stages, Answer
<1>3. persisted = <<>>
  BY <1>1, <1>2 DEF Inv, Stages, Wrapped
<1>4. failed
  BY <1>1, <1>2 DEF Inv, Stages, TypeOK
<1> QED
  BY <1>1, <1>3, <1>4 DEF Inv, Stages

----------------------------------------------------------------------------
(* The reading implements the pipeline *)

LEMMA ReaderSteps ==
  ASSUME ReaderStep
  PROVE  UNCHANGED vars \/ Read \/ ReadAll \/ FinishOut \/ Disconnect
  BY DEF ReaderStep, TakeChunk, EndOfChunks, Finish, Tell, Begin, SendFrame, Check, CheckPasses,
     CheckFails, Place, Placed, Timer, Draft, Drafted, MyDraft

LEMMA StepRefines ==
  ASSUME [ReadingNext]_readingVars
  PROVE  [Next]_vars
<1>1. CASE Produce \/ Wrap \/ Over
  BY <1>1 DEF Produce, Wrap, Over, Next, Ended
<1>2. CASE ReaderStep
  BY <1>2, ReaderSteps DEF Next, ClientStep
<1>3. CASE Leave
  BY <1>3 DEF Leave, Dropped, Next, ClientStep
<1>4. CASE Tick \/ \E c \in Chats : OtherDraft(c)
  BY <1>4 DEF Tick, OtherDraft
<1>5. CASE UNCHANGED readingVars
  BY <1>5 DEF readingVars
<1> QED
  BY <1>1, <1>2, <1>3, <1>4, <1>5 DEF ReadingNext

(* Whatever its reader, of a wrapped stream or of the producer's own, a    *)
(* reading is a pipeline: the reader takes, ends and leaves as the client  *)
(* does (models/common.rs:122-142).                                        *)
THEOREM ReadingIsPipeline == ReadingSpec => Spec
<1>1. ReadingInit => Init
  BY DEF ReadingInit
<1>2. [ReadingNext]_readingVars => [Next]_vars
  BY StepRefines
<1> QED
  BY <1>1, <1>2, PTL DEF ReadingSpec, Spec

(* Neither channel ever holds more than its capacity and no response       *)
(* outgrows its limit (llm.rs:220-250, conversation.rs:97-108).            *)
THEOREM ChannelsBounded == ReadingSpec => []TypeOK
<1>1. Inv => TypeOK
  BY DEF Inv
<1> QED
  BY <1>1, PipelineInvariance, ReadingIsPipeline, PTL

(* No partial text is ever persisted (docs/websocket-integration.md:114).  *)
THEOREM NeverPartial == ReadingSpec => []NoPartialReply
<1>1. Inv => NoPartialReply
  BY AllTaken DEF Inv, Stages, NoPartialReply, TypeOK, Wrapped, ReceiverGone, Fed
<1> QED
  BY <1>1, PipelineInvariance, ReadingIsPipeline, PTL

(* A complete response that is wrapped is persisted even if nobody reads   *)
(* it to its end (conversation.rs:100-117).                                *)
THEOREM NeverLost == ReadingSpec => []NothingLost
<1>1. Inv => NothingLost
  BY AllTaken DEF Inv, Stages, NothingLost, TypeOK, Wrapped, ReceiverGone, Fed
<1> QED
  BY <1>1, PipelineInvariance, ReadingIsPipeline, PTL

----------------------------------------------------------------------------
(* What the user is told *)

Reader == /\ ReadingTypeOK
          /\ \A i \in DOMAIN sent : sent[i] = i
          /\ Framed /\ (at # "end" \/ told = "done") =>
               Len(got) = Len(sent) + (IF at = "frame" THEN 1 ELSE 0)
          /\ ~Framed /\ told = "done" => sent = got
          /\ at \notin {"last", "end"} => client \in {"recv", "finish"}
          /\ at = "last" => client \in {"ok", "error"}
          /\ at = "frame" => Framed
          /\ at # "end" => told = "nothing"
          /\ told = "done" => client = "ok"
          /\ told = "interrupted" => client = "error"
          /\ told # "empty"

LEMMA ReaderInit ==
  ASSUME ReadingInit
  PROVE  Reader
<1>1. sent \in Seq(Chunks) /\ sent = <<>> /\ got = <<>> /\ told = "nothing" /\ client = "recv"
  BY DEF ReadingInit, Init
<1>2. age \in 0..EditInterval
  BY ReadingAssumption DEF ReadingInit
<1>3. kind \in Kinds /\ pending \in BOOLEAN /\ at \in {"start", "select"}
  BY DEF ReadingInit
<1> QED
  BY <1>1, <1>2, <1>3 DEF Reader, ReadingTypeOK, Framed, EventStreams

LEMMA ReaderTakes ==
  ASSUME Inv, Reader, TakeChunk
  PROVE  Reader'
<1>1. /\ at = "select" /\ client = "recv" /\ UNCHANGED <<client, kind, age, sent, told>>
      /\ told = "nothing" /\ got \in Seq(Chunks) /\ got' = Append(got, Head(Feed)) /\ Feed # <<>>
      /\ Feed \in Seq(Chunks)
  BY DEF TakeChunk, Read, Reader, Inv, TypeOK, Feed
<1>2. Head(Feed) \in Chunks
  BY <1>1, TailChunks
<1>3. Len(got') = Len(got) + 1 /\ Len(got) \in Nat
  BY <1>1, <1>2, AppendChunks
<1>4. kind \in {"telegram", "whole", "sse", "picks", "socket"}
  BY ReadingAssumption DEF Reader, ReadingTypeOK
<1>5. pending' \in BOOLEAN
  BY DEF TakeChunk
<1>6. \/ Framed /\ at' = "frame"
      \/ ~Framed /\ at' \in {"select", "flush"}
  BY <1>4 DEF TakeChunk, Framed, EventStreams
<1>7. ReadingTypeOK'
  BY <1>1, <1>5, <1>6 DEF Reader, ReadingTypeOK
<1>8. (Framed /\ (at # "end" \/ told = "done") =>
         Len(got) = Len(sent) + (IF at = "frame" THEN 1 ELSE 0))'
  BY <1>1, <1>3, <1>6 DEF Reader, Framed, EventStreams
<1> QED
  BY <1>1, <1>6, <1>7, <1>8 DEF Reader, Framed, EventStreams

LEMMA ReaderSends ==
  ASSUME Inv, Reader, SendFrame
  PROVE  Reader'
<1>1. /\ at = "frame" /\ at' = "select" /\ sent' = Append(sent, got[Len(got)])
      /\ UNCHANGED <<kind, age, pending, told, got, client>>
  BY DEF SendFrame, vars, clientVars
<1>2. /\ Framed /\ Len(got) = Len(sent) + 1 /\ sent \in Seq(Chunks) /\ Len(sent) \in Nat
      /\ told = "nothing" /\ client \in {"recv", "finish"}
  BY <1>1 DEF Reader, ReadingTypeOK
<1>3. got \in Seq(Chunks) /\ \A i \in DOMAIN got : got[i] = i
  BY DEF Inv, TypeOK, Out
<1>4. got[Len(got)] \in Chunks /\ got[Len(got)] = Len(sent) + 1
  BY <1>2, <1>3
<1>5. /\ sent' \in Seq(Chunks) /\ Len(sent') = Len(sent) + 1
      /\ sent'[Len(sent) + 1] = Len(sent) + 1
      /\ \A i \in DOMAIN sent' : i = Len(sent) + 1 \/ (i \in DOMAIN sent /\ sent'[i] = sent[i])
  BY <1>1, <1>2, <1>4, AppendChunks
<1>6. \A i \in DOMAIN sent' : sent'[i] = i
  BY <1>5 DEF Reader
<1>7. ReadingTypeOK'
  BY <1>1, <1>5 DEF Reader, ReadingTypeOK
<1>8. Len(got') = Len(sent')
  BY <1>1, <1>2, <1>5
<1> QED
  BY <1>1, <1>2, <1>6, <1>7, <1>8 DEF Reader, Framed, EventStreams

LEMMA ReaderTells ==
  ASSUME Inv, Reader, Tell
  PROVE  Reader'
<1>1. /\ at = "last" /\ at' = "end" /\ client \in {"ok", "error"} /\ told = "nothing"
      /\ UNCHANGED <<kind, age, pending, got, client>>
  BY DEF Tell, vars, clientVars, Reader
<1>2. /\ got \in Seq(Chunks) /\ \A i \in DOMAIN got : got[i] = i
      /\ sent \in Seq(Chunks) /\ \A i \in DOMAIN sent : sent[i] = i
  BY DEF Inv, TypeOK, Out, Reader, ReadingTypeOK
<1>3. kind \in {"telegram", "whole", "sse", "picks", "socket"}
  BY ReadingAssumption DEF Reader, ReadingTypeOK
<1>4. CASE client = "error"
  <2>1. told' = "interrupted" /\ sent' = sent
    BY <1>4 DEF Tell
  <2>2. ReadingTypeOK'
    BY <1>1, <2>1 DEF Reader, ReadingTypeOK
  <2> QED
    BY <1>1, <1>2, <1>4, <2>1, <2>2 DEF Reader, Framed, EventStreams
<1>5. CASE client = "ok"
  <2>1. told' = "done"
    BY <1>5, WholeAnswer DEF Tell
  <2>2. sent' = IF Framed THEN sent ELSE got
    BY <1>3, <1>5 DEF Tell, Framed, EventStreams
  <2>3. ReadingTypeOK'
    BY <1>1, <1>2, <2>1, <2>2 DEF Reader, ReadingTypeOK
  <2>4. Framed => Len(got) = Len(sent)
    BY <1>1 DEF Reader
  <2> QED
    BY <1>1, <1>2, <1>5, <2>1, <2>2, <2>3, <2>4 DEF Reader, Framed, EventStreams
<1> QED
  BY <1>1, <1>4, <1>5

LEMMA ReaderKeeps ==
  ASSUME Reader, [ReadingNext]_readingVars, ~TakeChunk, ~SendFrame, ~Tell
  PROVE  Reader'
<1> USE DEF Reader, ReadingTypeOK, Framed, EventStreams
<1>1. CASE Produce \/ Wrap
  <2>1. UNCHANGED <<readerVars, client, got>>
    BY <1>1 DEF Produce, Wrap, ProducerStep, WrapperStep, ReadChunk, ReadFails, ReceiverLeft, ReadEnd,
       SendChunk, SendFails, Log, Acknowledge, Collect, Forward, CollectEnd, FinishRaw, Persist, Confirm, clientVars
  <2> QED
    BY <2>1 DEF readerVars
<1>2. CASE EndOfChunks
  BY <1>2 DEF EndOfChunks, ReadAll, readerVars
<1>3. CASE Finish
  BY <1>3 DEF Finish, FinishOut
<1>4. CASE Begin \/ Check \/ CheckPasses
  BY <1>4 DEF Begin, Check, CheckPasses, vars, clientVars
<1>5. CASE CheckFails
  BY <1>5 DEF CheckFails, Disconnect
<1>6. CASE Place \/ Placed \/ Timer \/ Draft
  BY <1>6 DEF Place, Placed, Timer, Draft, vars, clientVars
<1>7. CASE Drafted
  <2>1. age' \in 0..EditInterval
    <3>1. age' = 0 /\ 0 \in 0..EditInterval
      BY <1>7, ReadingAssumption DEF Drafted
    <3> QED
      BY <3>1
  <2> QED
    BY <1>7, <2>1 DEF Drafted, vars, clientVars
<1>8. CASE MyDraft \/ \E c \in Chats : OtherDraft(c)
  BY <1>8 DEF MyDraft, OtherDraft, vars, clientVars, readerVars
<1>9. CASE Leave
  BY <1>9 DEF Leave, Dropped, Disconnect, vars, clientVars
<1>10. CASE Tick
  <2>1. age' \in 0..EditInterval
    BY <1>10, ReadingAssumption DEF Tick
  <2> QED
    BY <1>10, <2>1 DEF Tick, vars, clientVars
<1>11. CASE Over \/ UNCHANGED readingVars
  BY <1>11 DEF Over, Ended, readingVars, readerVars, vars, clientVars
<1> QED
  BY <1>1, <1>2, <1>3, <1>4, <1>5, <1>6, <1>7, <1>8, <1>9, <1>10, <1>11 DEF ReadingNext, ReaderStep

(* The user of every transport learns how the reading ended, and what he   *)
(* was sent agrees with it (handlers.rs:38-53, helpers.rs:78-101).         *)
THEOREM TruthIsTold == ReadingSpec => []ToldTheTruth
<1>1. ReadingInit => Reader
  BY ReaderInit
<1>2. Inv /\ Reader /\ [ReadingNext]_readingVars => Reader'
  BY ReaderTakes, ReaderSends, ReaderTells, ReaderKeeps
<1>3. Inv /\ Reader => ToldTheTruth
  <2>1. ASSUME Inv, Reader, told = "done"
        PROVE  Complete(sent) /\ logged = "success" /\ (Wrapped => blank \/ persisted = sent)
    <3>1. /\ Complete(got) /\ logged = "success" /\ (Wrapped => blank \/ persisted = got)
      BY <2>1, WholeAnswer DEF Reader
    <3>2. sent = got
      <4>1. CASE Framed
        <5>1. at = "end" /\ Len(got) = Len(sent) /\ sent \in Seq(Chunks) /\ got \in Seq(Chunks)
          BY <2>1, <4>1 DEF Reader, ReadingTypeOK, Inv, TypeOK
        <5>2. \A i \in DOMAIN sent : sent[i] = i
          BY <2>1 DEF Reader
        <5>3. \A i \in DOMAIN got : got[i] = i
          BY <2>1 DEF Inv, Out
        <5>4. /\ sent = [i \in 1..Len(got) |-> sent[i]] /\ got = [i \in 1..Len(got) |-> got[i]]
          BY <5>1
        <5>5. \A i \in 1..Len(got) : sent[i] = got[i]
          BY <5>1, <5>2, <5>3
        <5> QED
          BY <5>4, <5>5
      <4>2. CASE ~Framed
        BY <2>1, <4>2 DEF Reader
      <4> QED
        BY <4>1, <4>2
    <3> QED
      BY <3>1, <3>2
  <2>2. ASSUME Inv, Reader, told = "interrupted" PROVE logged = "failure" /\ persisted = <<>>
    BY <2>2, NothingKept DEF Reader
  <2>3. ASSUME Reader PROVE told # "empty"
    BY <2>3 DEF Reader
  <2> QED
    BY <2>1, <2>2, <2>3 DEF ToldTheTruth
<1> QED
  BY <1>1, <1>2, <1>3, PipelineInvariance, ReadingIsPipeline, PTL DEF ReadingSpec

----------------------------------------------------------------------------
(* The draft clock *)

Budget ==
  /\ DraftTypeOK
  /\ DraftsPaced
  /\ \A i \in DOMAIN granted : granted[i].at + Spacing <= draft_next_ms
  /\ paused <= draft_next_ms
  /\ \A c \in Chats : /\ call[c].current <= draft_next_ms
                      /\ At(c, "load") \/ At(c, "allow") => call[c].target = call[c].now + Spacing

LEMMA Appended ==
  ASSUME NEW S, NEW s \in Seq(S), NEW e \in S
  PROVE  /\ Append(s, e) \in Seq(S) /\ DOMAIN Append(s, e) = 1..(Len(s) + 1) /\ Len(s) \in Nat
         /\ Append(s, e)[Len(s) + 1] = e /\ DOMAIN s = 1..Len(s)
         /\ \A i \in 1..Len(s) : Append(s, e)[i] = s[i]
  OBVIOUS

LEMMA Elements ==
  ASSUME NEW S, NEW s \in Seq(S)
  PROVE  \A i \in DOMAIN s : s[i] \in S
  OBVIOUS

LEMMA Ages ==
  ASSUME Budget
  PROVE  \A i \in DOMAIN granted : granted[i].at \in Nat /\ granted[i].at + Spacing <= draft_next_ms
<1>1. granted \in Seq([at : Nat, floor : Nat])
  BY DEF Budget, DraftTypeOK
<1>2. \A i \in DOMAIN granted : granted[i] \in [at : Nat, floor : Nat]
  BY <1>1, Elements
<1>3. \A i \in DOMAIN granted : granted[i].at \in Nat
  BY <1>2
<1>4. \A i \in DOMAIN granted : granted[i].at + Spacing <= draft_next_ms
  BY DEF Budget
<1> QED
  BY <1>3, <1>4

LEMMA CallKept ==
  ASSUME Budget, NEW c \in Chats, NEW new \in Call, Goto(c, new),
         new.current <= draft_next_ms, draft_next_ms <= draft_next_ms', draft_next_ms' \in Nat,
         new.step \in {"load", "allow"} => new.target = new.now + Spacing
  PROVE  /\ call' \in [Chats -> Call]
         /\ \A d \in Chats : /\ call'[d].current <= draft_next_ms'
                             /\ call'[d].step \in {"load", "allow"} => call'[d].target = call'[d].now + Spacing
<1>1. call \in [Chats -> Call] /\ draft_next_ms \in Nat
  BY DEF Budget, DraftTypeOK
<1>2. call'[c] = new /\ \A d \in Chats : d # c => call'[d] = call[d]
  BY <1>1 DEF Goto
<1>3. call' \in [Chats -> Call]
  BY <1>1 DEF Goto
<1>4. ASSUME NEW d \in Chats
      PROVE  /\ call'[d].current <= draft_next_ms'
             /\ call'[d].step \in {"load", "allow"} => call'[d].target = call'[d].now + Spacing
  <2>1. CASE d = c
    <3>1. new.current \in Nat
      BY DEF Call
    <3> QED
      BY <1>1, <1>2, <2>1, <3>1
  <2>2. CASE d # c
    <3>1. call[d].current \in Nat
      BY <1>1 DEF Call
    <3>2. call[d].current <= draft_next_ms
      BY DEF Budget
    <3>3. call[d].step \in {"load", "allow"} => call[d].target = call[d].now + Spacing
      BY DEF Budget, At
    <3> QED
      BY <1>1, <1>2, <2>2, <3>1, <3>2, <3>3
  <2> QED
    BY <2>1, <2>2
<1> QED
  BY <1>3, <1>4

LEMMA IdleCall == Idle \in Call /\ [Idle EXCEPT !.step = "post"] \in Call
  BY DEF Idle, Call, Steps

LEMMA Granting ==
  ASSUME Budget, NEW c \in Chats, Allowed(c)
  PROVE  Budget'
<1>1. /\ call \in [Chats -> Call] /\ clock \in Nat /\ draft_next_ms \in Nat /\ paused \in Nat
      /\ granted \in Seq([at : Nat, floor : Nat]) /\ Spacing \in Nat
  BY ClockAssumption DEF Budget, DraftTypeOK
<1> DEFINE e == [at |-> call[c].now, floor |-> paused]
<1>2. /\ call[c].now \in Nat /\ call[c].target = call[c].now + Spacing
      /\ call[c].now >= draft_next_ms /\ draft_next_ms' = call[c].target
      /\ granted' = Append(granted, e) /\ UNCHANGED <<clock, paused>>
      /\ Goto(c, [Idle EXCEPT !.step = "post"])
  BY <1>1 DEF Allowed, Grant, Budget, At, Call
<1>3. draft_next_ms' \in Nat /\ draft_next_ms <= draft_next_ms'
  BY <1>1, <1>2
<1>4. e \in [at : Nat, floor : Nat] /\ e.at = call[c].now /\ e.floor = paused
  BY <1>1, <1>2
<1> HIDE DEF e
<1>5. /\ granted' \in Seq([at : Nat, floor : Nat]) /\ DOMAIN granted' = 1..(Len(granted) + 1)
      /\ Len(granted) \in Nat /\ granted'[Len(granted) + 1] = e /\ DOMAIN granted = 1..Len(granted)
      /\ \A i \in 1..Len(granted) : granted'[i] = granted[i]
  BY <1>1, <1>2, <1>4, Appended
<1>6. \A i \in 1..Len(granted) : granted[i].at \in Nat /\ granted[i].at + Spacing <= draft_next_ms
  BY <1>5, Ages
<1>7. /\ call' \in [Chats -> Call]
      /\ \A d \in Chats : /\ call'[d].current <= draft_next_ms'
                          /\ call'[d].step \in {"load", "allow"} => call'[d].target = call'[d].now + Spacing
  <2>1. [Idle EXCEPT !.step = "post"].current <= draft_next_ms /\ [Idle EXCEPT !.step = "post"].step = "post"
    BY <1>1 DEF Idle
  <2> QED
    BY <1>2, <1>3, <2>1, IdleCall, CallKept
<1>8. \A i \in DOMAIN granted' : granted'[i].at + Spacing <= draft_next_ms'
  <2>1. e.at + Spacing <= draft_next_ms'
    BY <1>1, <1>2, <1>4
  <2>2. ASSUME NEW i \in 1..Len(granted) PROVE granted'[i].at + Spacing <= draft_next_ms'
    <3>1. granted'[i] = granted[i] /\ granted[i].at \in Nat /\ granted[i].at + Spacing <= draft_next_ms
      BY <1>5, <1>6
    <3> QED
      BY <1>1, <1>3, <3>1
  <2> QED
    BY <1>5, <2>1, <2>2
<1>9. DraftsPaced'
  <2>1. e.floor <= e.at
    BY <1>1, <1>2, <1>4 DEF Budget
  <2>2. ASSUME NEW i \in 1..Len(granted) PROVE granted[i].at + Spacing <= e.at
    <3>1. granted[i].at \in Nat /\ granted[i].at + Spacing <= draft_next_ms
      BY <1>6
    <3>2. draft_next_ms <= e.at /\ e.at \in Nat
      BY <1>1, <1>2, <1>4
    <3> QED
      BY <1>1, <3>1, <3>2
  <2>3. ASSUME NEW j \in 1..(Len(granted) + 1)
        PROVE  /\ granted'[j].floor <= granted'[j].at
               /\ \A i \in 1..(j - 1) : granted'[i].at + Spacing <= granted'[j].at
    <3>1. CASE j = Len(granted) + 1
      BY <1>5, <2>1, <2>2, <3>1
    <3>2. CASE j # Len(granted) + 1
      <4>1. j \in 1..Len(granted) /\ \A i \in 1..(j - 1) : i \in 1..Len(granted)
        BY <1>5, <3>2
      <4>2. /\ granted[j].floor <= granted[j].at
            /\ \A i \in 1..(j - 1) : granted[i].at + Spacing <= granted[j].at
        BY <1>5, <4>1 DEF Budget, DraftsPaced
      <4> QED
        BY <1>5, <4>1, <4>2
    <3> QED
      BY <3>1, <3>2
  <2> QED
    BY <1>5, <2>3 DEF DraftsPaced
<1>10. DraftTypeOK' /\ paused' <= draft_next_ms'
  BY <1>1, <1>2, <1>3, <1>5, <1>7 DEF DraftTypeOK, Budget
<1> QED
  BY <1>7, <1>8, <1>9, <1>10 DEF Budget, At

\* A step that grants nothing and does not set the clock of drafts back.
LEMMA Ungranting ==
  ASSUME Budget, NEW c \in Chats, NEW new \in Call, Goto(c, new), UNCHANGED <<clock, granted>>,
         draft_next_ms' \in Nat, draft_next_ms <= draft_next_ms',
         paused' \in Nat, paused' <= draft_next_ms', new.current <= draft_next_ms,
         new.step \in {"load", "allow"} => new.target = new.now + Spacing
  PROVE  Budget'
<1>1. /\ call' \in [Chats -> Call]
      /\ \A d \in Chats : /\ call'[d].current <= draft_next_ms'
                          /\ call'[d].step \in {"load", "allow"} => call'[d].target = call'[d].now + Spacing
  BY CallKept
<1>2. DraftTypeOK' /\ DraftsPaced'
  BY <1>1 DEF Budget, DraftTypeOK, DraftsPaced
<1>3. \A i \in DOMAIN granted' : granted'[i].at + Spacing <= draft_next_ms'
  <2>1. granted \in Seq([at : Nat, floor : Nat]) /\ draft_next_ms \in Nat /\ Spacing \in Nat
    BY ClockAssumption DEF Budget, DraftTypeOK
  <2>2. \A i \in DOMAIN granted : granted[i].at \in Nat /\ granted[i].at + Spacing <= draft_next_ms
    BY Ages
  <2>3. ASSUME NEW i \in DOMAIN granted PROVE granted[i].at + Spacing <= draft_next_ms'
    <3>1. granted[i].at + Spacing \in Nat /\ granted[i].at + Spacing <= draft_next_ms
      BY <2>1, <2>2
    <3> QED
      BY <2>1, <3>1
  <2> QED
    BY <2>3
<1> QED
  BY <1>1, <1>2, <1>3 DEF Budget, At

LEMMA DraftKeeps ==
  ASSUME Budget, NEW c \in Chats, Flush(c) \/ DraftStep(c)
  PROVE  Budget'
<1>1. /\ call \in [Chats -> Call] /\ call[c] \in Call /\ clock \in Nat /\ draft_next_ms \in Nat
      /\ paused \in Nat /\ paused <= draft_next_ms /\ Spacing \in Nat /\ MaxPause \in Nat
      /\ Delays \subseteq Nat /\ call[c].current <= draft_next_ms
  BY ClockAssumption DEF Budget, DraftTypeOK
<1>2. At(c, "load") \/ At(c, "allow") => call[c].target = call[c].now + Spacing
  BY DEF Budget
<1>3. /\ Idle \in Call /\ Idle.step = "idle" /\ Idle.current <= draft_next_ms
  BY <1>1, IdleCall DEF Idle
<1>4. CASE Flush(c)
  <2> DEFINE new == [step |-> "load", now |-> clock, target |-> clock + Spacing, current |-> 0]
  <2>1. new \in Call /\ new.current <= draft_next_ms /\ new.target = new.now + Spacing
    BY <1>1 DEF Call, Steps
  <2>2. Goto(c, new) /\ UNCHANGED <<clock, draft_next_ms, granted, paused>>
    BY <1>4 DEF Flush
  <2> HIDE DEF new
  <2> QED
    BY <1>1, <2>1, <2>2, Ungranting
<1>5. CASE Load(c)
  <2> DEFINE new == [call[c] EXCEPT !.current = draft_next_ms,
                                    !.step = IF @ = "load" THEN "allow" ELSE "pause"]
  <2>1. /\ new \in Call /\ new.current = draft_next_ms /\ new.target = call[c].target
        /\ new.now = call[c].now /\ new.step = IF call[c].step = "load" THEN "allow" ELSE "pause"
    BY <1>1 DEF Call, Steps
  <2>2. Goto(c, new) /\ UNCHANGED <<clock, draft_next_ms, granted, paused>>
    BY <1>5 DEF Load
  <2> HIDE DEF new
  <2>3. new.step \in {"load", "allow"} => new.target = new.now + Spacing
    BY <1>2, <2>1 DEF At
  <2> QED
    BY <1>1, <2>1, <2>2, <2>3, Ungranting
<1>6. CASE Refused(c) \/ Posted(c)
  <2>1. Goto(c, Idle) /\ UNCHANGED <<clock, draft_next_ms, granted, paused>>
    BY <1>6 DEF Refused, Posted
  <2> QED
    BY <1>1, <1>3, <2>1, Ungranting
<1>7. CASE Allowed(c)
  BY <1>7, Granting
<1>8. CASE Lost(c)
  <2> DEFINE new == [call[c] EXCEPT !.current = draft_next_ms]
  <2>1. /\ new \in Call /\ new.current = draft_next_ms /\ new.target = call[c].target
        /\ new.now = call[c].now /\ new.step = call[c].step
    BY <1>1 DEF Call
  <2>2. Goto(c, new) /\ UNCHANGED <<clock, draft_next_ms, granted, paused>>
    BY <1>8 DEF Lost
  <2> HIDE DEF new
  <2>3. new.step \in {"load", "allow"} => new.target = new.now + Spacing
    BY <1>2, <2>1 DEF At
  <2> QED
    BY <1>1, <2>1, <2>2, <2>3, Ungranting
<1>9. CASE Limited(c)
  <2>1. PICK d \in Delays :
          Goto(c, [step |-> "reload", now |-> clock, current |-> 0,
                   target |-> clock + (IF d < MaxPause THEN d ELSE MaxPause)])
    BY <1>9 DEF Limited
  <2> DEFINE new == [step |-> "reload", now |-> clock, current |-> 0,
                     target |-> clock + (IF d < MaxPause THEN d ELSE MaxPause)]
  <2>2. new \in Call /\ new.current <= draft_next_ms /\ new.step = "reload"
    BY <1>1 DEF Call, Steps
  <2>3. Goto(c, new) /\ UNCHANGED <<clock, draft_next_ms, granted, paused>>
    BY <1>9, <2>1 DEF Limited
  <2> HIDE DEF new
  <2> QED
    BY <1>1, <2>2, <2>3, Ungranting
<1>10. CASE PauseKept(c) \/ PauseSet(c)
  <2>1. call[c].target \in Nat /\ call[c].current \in Nat
    BY <1>1 DEF Call
  <2>2. /\ Goto(c, Idle) /\ UNCHANGED <<clock, granted>> /\ paused' = Later(paused, call[c].target)
        /\ draft_next_ms' \in Nat /\ draft_next_ms <= draft_next_ms' /\ call[c].target <= draft_next_ms'
    BY <1>1, <1>10, <2>1 DEF PauseKept, PauseSet
  <2>3. paused' \in Nat /\ paused' <= draft_next_ms'
    BY <1>1, <2>1, <2>2 DEF Later
  <2> QED
    BY <1>1, <1>3, <2>2, <2>3, Ungranting
<1> QED
  BY <1>4, <1>5, <1>6, <1>7, <1>8, <1>9, <1>10 DEF DraftStep

LEMMA BudgetKept ==
  ASSUME Budget, [ReadingNext]_readingVars
  PROVE  Budget'
<1>1. CASE \E c \in Chats : Flush(c) \/ DraftStep(c)
  BY <1>1, DraftKeeps
<1>2. CASE UNCHANGED draftVars
  BY <1>2 DEF draftVars, Budget, DraftTypeOK, DraftsPaced, At
<1>3. CASE Tick
  BY <1>3 DEF Tick, Budget, DraftTypeOK, DraftsPaced, At
<1>4. CASE Leave
  <2>1. Goto(Chat, Idle) /\ UNCHANGED <<clock, draft_next_ms, granted, paused>> /\ Chat \in Chats
    BY <1>4, ReadingAssumption DEF Leave
  <2>2. /\ draft_next_ms \in Nat /\ paused \in Nat /\ paused <= draft_next_ms
        /\ Idle \in Call /\ Idle.step = "idle" /\ Idle.current = 0
    BY IdleCall DEF Budget, DraftTypeOK, Idle
  <2> QED
    BY <2>1, <2>2, Ungranting
<1>5. ReadingNext => \/ \E c \in Chats : Flush(c) \/ DraftStep(c)
                     \/ UNCHANGED draftVars \/ Tick \/ Leave
  BY ReadingAssumption DEF ReadingNext, ReaderStep, Produce, Wrap, Over, TakeChunk, EndOfChunks, Finish, Tell,
     Begin, SendFrame, Check, CheckPasses, CheckFails, Place, Placed, Timer, Draft, Drafted, MyDraft, OtherDraft
<1> QED
  BY <1>1, <1>2, <1>3, <1>4, <1>5 DEF readingVars

(* For any number of chats and any delays: permissions for drafts are      *)
(* spaced and respect every pause agreed on before (runtime.rs:177-206).   *)
THEOREM DraftsArePaced == ReadingSpec => []DraftsPaced
<1>1. ReadingInit => Budget
  <2> SUFFICES ASSUME ReadingInit PROVE Budget
    OBVIOUS
  <2>1. /\ clock = 0 /\ draft_next_ms = 0 /\ paused = 0 /\ granted = <<>>
        /\ call = [c \in Chats |-> Idle]
    BY DEF ReadingInit, DraftInit
  <2>2. call \in [Chats -> Call] /\ \A c \in Chats : call[c] = Idle
    BY <2>1, IdleCall
  <2>3. Idle.current = 0 /\ Idle.step = "idle"
    BY DEF Idle
  <2> QED
    BY <2>1, <2>2, <2>3 DEF Budget, DraftTypeOK, DraftsPaced, At
<1>2. Budget /\ [ReadingNext]_readingVars => Budget'
  BY BudgetKept
<1>3. Budget => DraftsPaced
  BY DEF Budget
<1> QED
  BY <1>1, <1>2, <1>3, PTL DEF ReadingSpec
=============================================================================
