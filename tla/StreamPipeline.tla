--------------------------- MODULE StreamPipeline ---------------------------
(***************************************************************************)
(* One streamed reading on its way from the model to the client: the       *)
(* producer task of call_llm (services/llm.rs), the persisting task of     *)
(* wrap_persisted_stream (services/conversation.rs) and whoever reads the  *)
(* LlmStream (models/common.rs) in the end.                                *)
(*                                                                         *)
(* A profile, a chat turn, a calendar day and a date selection of Telegram *)
(* are wrapped, so that the turn is kept.  The date-fortune socket and the *)
(* event stream of pick-date are not: they read the producer's channel     *)
(* themselves, nothing is kept, and the producer notices when they leave.  *)
(* There is no wrapper then ("none").                                      *)
(*                                                                         *)
(* Data abstraction.  A chunk is its position in the response; whether the *)
(* whole response is white space is chosen once, in blank.  The byte limit *)
(* is a number of chunks.                                                  *)
(***************************************************************************)
EXTENDS Naturals, Sequences

CONSTANTS
  RawCapacity,   \* channel of the producer (64 in the code)
  OutCapacity,   \* channel between wrapper and client (16)
  MaxResponse    \* MAX_RESPONSE_BYTES, in chunks

ASSUME PipelineAssumption ==
  /\ RawCapacity \in Nat \ {0}
  /\ OutCapacity \in Nat \ {0}
  /\ MaxResponse \in Nat \ {0}

VARIABLES
  blank,        \* the response is nothing but white space
  producer,     \* the producer task
  produced,     \* chunks in response_text
  failed,       \* stream_error is set
  logged,       \* what save_llm_log recorded
  acked,        \* the producer's completion: "none" until it is sent
  raw,          \* channel from producer to wrapper, or to the client
  wrapper,      \* the persisting task, or "none"
  reply,        \* reply_bytes
  sendFailed,   \* send_failed
  persisted,    \* what on_success was called with
  confirmed,    \* the wrapper's completion
  out,          \* channel from wrapper to client
  client, got   \* the reader of the stream and what it has read

producerVars == <<producer, produced, failed, logged, acked>>
wrapperVars  == <<wrapper, reply, sendFailed, persisted, confirmed>>
clientVars   == <<client, got>>
vars == <<blank, producerVars, raw, wrapperVars, out, clientVars>>

Chunks  == 1..MaxResponse
Answers == {"none", "yes", "no"}

TypeOK == /\ blank \in BOOLEAN
          /\ producer \in {"read", "send", "log", "ack", "done"}
          /\ produced \in 0..MaxResponse
          /\ failed \in BOOLEAN
          /\ logged \in {"none", "success", "failure"}
          /\ acked \in Answers
          /\ raw \in Seq(Chunks) /\ Len(raw) <= RawCapacity
          /\ wrapper \in {"none", "recv", "forward", "finish", "persist", "ack", "done"}
          /\ reply \in Seq(Chunks)
          /\ sendFailed \in BOOLEAN
          /\ persisted \in Seq(Chunks)
          /\ confirmed \in Answers
          /\ out \in Seq(Chunks) /\ Len(out) <= OutCapacity
          /\ client \in {"recv", "finish", "ok", "error", "gone"}
          /\ got \in Seq(Chunks)

Init == /\ blank \in BOOLEAN
        /\ producer = "read" /\ produced = 0 /\ failed = FALSE
        /\ logged = "none" /\ acked = "none"
        /\ raw = <<>>
        /\ wrapper \in {"recv", "none"} /\ reply = <<>> /\ sendFailed = FALSE
        /\ persisted = <<>> /\ confirmed = "none"
        /\ out = <<>>
        /\ client = "recv" /\ got = <<>>

----------------------------------------------------------------------------
(* The producer *)

RawClosed == producer \in {"log", "ack", "done"}

Wrapped == wrapper # "none"

\* The wrapper keeps its receiver to the end of the stream.
ReceiverGone == ~Wrapped /\ client = "gone"

\* A delta with content arrives.
ReadChunk == /\ producer = "read" /\ produced < MaxResponse
             /\ produced' = produced + 1
             /\ producer' = "send"
             /\ UNCHANGED <<blank, failed, logged, acked, raw, wrapperVars, out, clientVars>>

\* An error from upstream (its timeout included), a delta beyond the limit,
\* or the cancellation of the runtime.
ReadFails == /\ producer = "read"
             /\ failed' = TRUE
             /\ producer' = "log"
             /\ UNCHANGED <<blank, produced, logged, acked, raw, wrapperVars, out, clientVars>>

\* tx.closed(); a chunk or the end that is there as well may be taken first.
ReceiverLeft == /\ producer = "read" /\ ReceiverGone
                /\ failed' = TRUE
                /\ producer' = "log"
                /\ UNCHANGED <<blank, produced, logged, acked, raw, wrapperVars, out, clientVars>>

\* A response without content counts as failed.  Any other end is a success:
\* the finish reason is not looked at, not even that of a token limit.
ReadEnd == /\ producer = "read"
           /\ failed' = (produced = 0)
           /\ producer' = "log"
           /\ UNCHANGED <<blank, produced, logged, acked, raw, wrapperVars, out, clientVars>>

SendChunk == /\ producer = "send" /\ Len(raw) < RawCapacity /\ ~ReceiverGone
             /\ raw' = Append(raw, produced)
             /\ producer' = "read"
             /\ UNCHANGED <<blank, produced, failed, logged, acked, wrapperVars, out, clientVars>>

\* Five seconds are over, or the receiver has been dropped.
SendStuck == producer = "send" /\ (Len(raw) = RawCapacity \/ ReceiverGone)

\* Mutant of SendFails: the chunk is given up, the response goes on.
SendGivenUp == /\ SendStuck
               /\ producer' = "read"
               /\ UNCHANGED <<blank, produced, failed, logged, acked, raw, wrapperVars, out, clientVars>>

SendFails == /\ SendStuck
             /\ failed' = TRUE
             /\ producer' = "log"
             /\ UNCHANGED <<blank, produced, logged, acked, raw, wrapperVars, out, clientVars>>

Log == /\ producer = "log"
       /\ logged' = IF failed THEN "failure" ELSE "success"
       /\ producer' = "ack"
       /\ UNCHANGED <<blank, produced, failed, acked, raw, wrapperVars, out, clientVars>>

Acknowledge == /\ producer = "ack"
               /\ acked' = IF failed THEN "no" ELSE "yes"
               /\ producer' = "done"
               /\ UNCHANGED <<blank, produced, failed, logged, raw, wrapperVars, out, clientVars>>

----------------------------------------------------------------------------
(* The wrapper *)

Collect == /\ wrapper = "recv" /\ raw # <<>>
           /\ reply' = Append(reply, Head(raw))
           /\ raw' = Tail(raw)
           /\ wrapper' = IF sendFailed THEN "recv" ELSE "forward"
           /\ UNCHANGED <<blank, producerVars, sendFailed, persisted, confirmed, out, clientVars>>

\* Mutant of Forward: the task ends with its client.
ForwardOrStop == /\ wrapper = "forward"
                 /\ \/ /\ client # "gone" /\ Len(out) < OutCapacity
                       /\ out' = Append(out, reply[Len(reply)])
                       /\ wrapper' = "recv"
                       /\ UNCHANGED sendFailed
                    \/ /\ client = "gone"
                       /\ sendFailed' = TRUE
                       /\ wrapper' = "ack"
                       /\ UNCHANGED out
                 /\ UNCHANGED <<blank, producerVars, raw, reply, persisted, confirmed, clientVars>>

\* Mutant of Forward: nobody notices that the client has gone.
ForwardOnly == /\ wrapper = "forward"
               /\ client # "gone" /\ Len(out) < OutCapacity
               /\ out' = Append(out, reply[Len(reply)])
               /\ wrapper' = "recv"
               /\ UNCHANGED <<blank, producerVars, raw, reply, sendFailed, persisted, confirmed,
                              clientVars>>

\* The client that has gone does not end the collecting.
Forward == /\ wrapper = "forward"
           /\ \/ /\ client # "gone" /\ Len(out) < OutCapacity
                 /\ out' = Append(out, reply[Len(reply)])
                 /\ UNCHANGED sendFailed
              \/ /\ client = "gone"
                 /\ sendFailed' = TRUE
                 /\ UNCHANGED out
           /\ wrapper' = "recv"
           /\ UNCHANGED <<blank, producerVars, raw, reply, persisted, confirmed, clientVars>>

CollectEnd == /\ wrapper = "recv" /\ raw = <<>> /\ RawClosed
              /\ wrapper' = "finish"
              /\ UNCHANGED <<blank, producerVars, raw, reply, sendFailed, persisted, confirmed,
                             out, clientVars>>

\* Mutant of FinishRaw: whatever has arrived is worth keeping.
FinishAny == /\ wrapper = "finish" /\ acked # "none"
             /\ wrapper' = IF ~blank THEN "persist" ELSE "ack"
             /\ UNCHANGED <<blank, producerVars, raw, reply, sendFailed, persisted, confirmed,
                            out, clientVars>>

FinishRaw == /\ wrapper = "finish" /\ acked # "none"
             /\ wrapper' = IF acked = "yes" /\ ~blank THEN "persist" ELSE "ack"
             /\ UNCHANGED <<blank, producerVars, raw, reply, sendFailed, persisted, confirmed,
                            out, clientVars>>

Persist == /\ wrapper = "persist"
           /\ persisted' = reply
           /\ wrapper' = "ack"
           /\ UNCHANGED <<blank, producerVars, raw, reply, sendFailed, confirmed, out, clientVars>>

Confirm == /\ wrapper = "ack"
           /\ confirmed' = IF acked = "yes" /\ ~sendFailed THEN "yes" ELSE "no"
           /\ wrapper' = "done"
           /\ UNCHANGED <<blank, producerVars, raw, reply, sendFailed, persisted, out, clientVars>>

----------------------------------------------------------------------------
(* The client's end *)

\* What the client's receiver is of: out, or raw without a wrapper.
Feed       == IF Wrapped THEN out ELSE raw
FeedClosed == IF Wrapped THEN wrapper \in {"persist", "ack", "done"} ELSE RawClosed
Answer     == IF Wrapped THEN confirmed ELSE acked

Feeds(rest) == IF Wrapped THEN out' = rest /\ UNCHANGED raw
                          ELSE raw' = rest /\ UNCHANGED out

Read == /\ client = "recv" /\ Feed # <<>>
        /\ got' = Append(got, Head(Feed))
        /\ Feeds(Tail(Feed))
        /\ UNCHANGED <<blank, producerVars, wrapperVars, client>>

ReadAll == /\ client = "recv" /\ Feed = <<>> /\ FeedClosed
           /\ client' = "finish"
           /\ UNCHANGED <<blank, producerVars, raw, wrapperVars, out, got>>

\* "[DONE]", the Done frame or the final message, or the report of a failure.
FinishOut == /\ client = "finish" /\ Answer # "none"
             /\ client' = IF Answer = "yes" THEN "ok" ELSE "error"
             /\ UNCHANGED <<blank, producerVars, raw, wrapperVars, out, got>>

\* Disconnect, Stop, a revoked credential, a slow socket, the deadline of the
\* work or shutdown: the stream is dropped with what is left in its channel.
Disconnect == /\ client \in {"recv", "finish"}
              /\ client' = "gone"
              /\ Feeds(<<>>)
              /\ UNCHANGED <<blank, producerVars, wrapperVars, got>>

----------------------------------------------------------------------------

Ended == /\ producer = "done" /\ wrapper \in {"done", "none"} /\ client \in {"ok", "error", "gone"}
         /\ UNCHANGED vars

ProducerStep == \/ ReadChunk \/ ReadFails \/ ReceiverLeft \/ ReadEnd
                \/ SendChunk \/ SendFails \/ Log \/ Acknowledge
WrapperStep  == Collect \/ Forward \/ CollectEnd \/ FinishRaw \/ Persist \/ Confirm
ClientStep   == Read \/ ReadAll \/ FinishOut \/ Disconnect

Next == ProducerStep \/ WrapperStep \/ ClientStep \/ Ended

Spec == Init /\ [][Next]_vars

----------------------------------------------------------------------------

Complete(s) == s = [i \in 1..produced |-> i]

(* Only a complete and acknowledged response is ever persisted, where      *)
(* complete is all that came before the provider's end of the stream: no   *)
(* partial text, whoever broke off first (docs/websocket-integration.md,   *)
(* line 114).                                                              *)
NoPartialReply == persisted # <<>> =>
                    Complete(persisted) /\ acked = "yes" /\ logged = "success"

(* The reverse, where there is a wrapper: a complete response is not lost  *)
(* because its client left, lagged or was dropped half-way                 *)
(* (conversation.rs:100-117).  Without one nothing is ever kept, and the   *)
(* response itself is broken off if the client leaves (llm.rs:232, 248).   *)
NothingLost == wrapper = "done" /\ logged = "success" /\ ~blank => Complete(persisted)
=============================================================================
